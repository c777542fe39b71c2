---------------------------- MODULE DaemonProofs ----------------------------
(***************************************************************************)
(* The life of the daemon and what goes through it, for any number of      *)
(* PIDs, requests, script steps and edits.  Types and scripts hold whoever *)
(* runs commands; that there is one daemon, that it is found and that no   *)
(* other program is signalled hold while one command runs at a time and    *)
(* waits for its daemon: overlapping starts do race in the code.           *)
(***************************************************************************)
EXTENDS DaemonRequests, FiniteSetTheorems, TLAPS

-----------------------------------------------------------------------------
(* Types.                                                                  *)

\* A command moves on, perhaps with a PID.
LEMMA CommandMoves ==
    ASSUME TypeOK, NEW c \in Commands, NEW d \in Daemons \cup {NoDaemon},
           NEW pc \in {"idle", "pinging", "launching", "waiting",
                       "reading", "checking", "killing", "exiting"},
           command' = [command EXCEPT ![c].pc = pc, ![c].pid = d]
    PROVE  command' \in [Commands -> CommandRecords]
<1> DEFINE rec == command[c]
           out == [rec EXCEPT !.pc = pc, !.pid = d]
<1>1. rec \in CommandRecords
  BY DEF TypeOK
<1>2. out \in CommandRecords
  <2> HIDE DEF rec
  <2> QED BY <1>1 DEF CommandRecords
<1>3. command' = [command EXCEPT ![c] = out]
  OBVIOUS
<1> HIDE DEF out
<1> QED BY <1>2, <1>3 DEF TypeOK

\* A stop that is over leaves the command idle, or about to launch.
LEMMA StopMoves ==
    ASSUME TypeOK, NEW c \in Commands, Stopped(c)
    PROVE  command' \in [Commands -> CommandRecords]
<1>1. CASE command' = [command EXCEPT ![c].pc = "launching", ![c].pid = NoDaemon]
  BY <1>1, CommandMoves
<1>2. CASE command' = [command EXCEPT ![c] = NoCommand]
  BY <1>2 DEF NoCommand, CommandRecords, Kinds, TypeOK
<1> QED BY <1>1, <1>2 DEF Stopped

\* Every step keeps the types.
LEMMA NextTypeOK == TypeOK /\ [Next]_vars => TypeOK'
<1> SUFFICES ASSUME TypeOK, [Next]_vars PROVE TypeOK'
  OBVIOUS
<1>1. ASSUME NEW d \in Daemons, WritePid(d) PROVE TypeOK'
  BY <1>1
  DEF WritePid, TypeOK, CommandRecords, Phases, Kinds
<1>2. ASSUME NEW d \in Daemons, UnlinkSocket(d) PROVE TypeOK'
  BY <1>2
  DEF UnlinkSocket, TypeOK, CommandRecords, Phases, Kinds
<1>3. ASSUME NEW d \in Daemons, Listen(d) PROVE TypeOK'
  BY <1>3
  DEF Listen, TypeOK, CommandRecords, Phases, Kinds
<1>4. ASSUME NEW d \in Daemons, ListenFails(d) PROVE TypeOK'
  BY <1>4
  DEF ListenFails, TypeOK, CommandRecords, Phases, Kinds
<1>5. ASSUME NEW d \in Daemons, ExitCleanly(d) PROVE TypeOK'
  BY <1>5
  DEF ExitCleanly, TypeOK, CommandRecords, Phases, Kinds
<1>6. ASSUME NEW d \in Daemons, Crash(d) PROVE TypeOK'
  BY <1>6
  DEF Crash, TypeOK, CommandRecords, Phases, Kinds
<1>7. ASSUME NEW d \in Daemons, RecyclePid(d) PROVE TypeOK'
  BY <1>7
  DEF RecyclePid, TypeOK, CommandRecords, Phases, Kinds
<1>8. ASSUME NEW d \in Daemons, StrangerExits(d) PROVE TypeOK'
  BY <1>8
  DEF StrangerExits, TypeOK, CommandRecords, Phases, Kinds
<1>9. ASSUME NEW c \in Commands, NEW kind \in Kinds, Begin(c, kind) PROVE TypeOK'
  BY <1>9
  DEF Begin, TypeOK, CommandRecords, Phases, Kinds
<1>10. ASSUME NEW c \in Commands, Ping(c) PROVE TypeOK'
  BY <1>10
  DEF Ping, Goto, NoCommand, TypeOK, CommandRecords, Phases, Kinds
<1>11. ASSUME NEW c \in Commands, Spawn(c) PROVE TypeOK'
  <2>1. command' \in [Commands -> CommandRecords]
    BY <1>11, CommandMoves DEF Spawn
  <2>2. daemon' \in [Daemons -> Phases]
    BY <1>11 DEF Spawn, TypeOK, Phases
  <2> QED BY <1>11, <2>1, <2>2 DEF Spawn, TypeOK
<1>12. ASSUME NEW c \in Commands, FindReady(c) PROVE TypeOK'
  BY <1>12
  DEF FindReady, NoCommand, TypeOK, CommandRecords, Phases, Kinds
<1>13. ASSUME NEW c \in Commands, GiveUpWaiting(c) PROVE TypeOK'
  BY <1>13
  DEF GiveUpWaiting, NoCommand, TypeOK, CommandRecords, Phases, Kinds
<1>14. ASSUME NEW c \in Commands, ReadPid(c) PROVE TypeOK'
  <2>1. command' \in [Commands -> CommandRecords]
    BY <1>14, CommandMoves, StopMoves DEF ReadPid
  <2> QED BY <1>14, <2>1 DEF ReadPid, CleanupDaemonFiles, TypeOK
<1>15. ASSUME NEW c \in Commands, CheckAnswers(c) PROVE TypeOK'
  <2>1. command' \in [Commands -> CommandRecords]
    BY <1>15, StopMoves DEF CheckAnswers, Goto, TypeOK, CommandRecords
  <2> QED BY <1>15, <2>1 DEF CheckAnswers, CleanupDaemonFiles, TypeOK
<1>16. ASSUME NEW c \in Commands, Kill(c) PROVE TypeOK'
  <2>1. command' \in [Commands -> CommandRecords]
    BY <1>16, StopMoves DEF Kill, Goto, TypeOK, CommandRecords
  <2>2. daemon' \in [Daemons -> Phases]
    BY <1>16 DEF Kill, Terminate, TypeOK, Phases
  <2> QED BY <1>16, <2>1, <2>2 DEF Kill, Terminate, CleanupDaemonFiles, TypeOK
<1>17. ASSUME NEW c \in Commands, SeeExit(c) PROVE TypeOK'
  <2>1. command' \in [Commands -> CommandRecords]
    BY <1>17, StopMoves DEF SeeExit
  <2> QED BY <1>17, <2>1 DEF SeeExit, CleanupDaemonFiles, TypeOK
<1>18. ASSUME NEW c \in Commands, GiveUpStopping(c) PROVE TypeOK'
  BY <1>18
  DEF GiveUpStopping, Stopped, NoCommand, TypeOK, CommandRecords, Phases,
      Kinds
<1>19. CASE UNCHANGED vars
  BY <1>19 DEF vars, TypeOK
<1> QED BY <1>1, <1>2, <1>3, <1>4, <1>5, <1>6, <1>7, <1>8, <1>9, <1>10, <1>11, <1>12, <1>13, <1>14, <1>15, <1>16, <1>17, <1>18, <1>19 DEF Next

-----------------------------------------------------------------------------
(* One patient command at a time.                                          *)

\* To a patient command a ping says whether a daemon answers.
LEMMA PatientPinged == Patient => Pinged = {Answers}
BY DEF Patient, Pinged

LEMMA NextLifecycle == Patient /\ LifecycleInv /\ [Next]_vars => LifecycleInv'
<1> DEFINE Shape == AloneShape /\ AwaitedShape /\ StopShape /\ NoStrangerKilled
<1> SUFFICES ASSUME Patient, LifecycleInv, [Next]_vars PROVE Shape'
  BY NextTypeOK DEF LifecycleInv
<1>1. ASSUME NEW d \in Daemons, WritePid(d) PROVE Shape'
  BY <1>1, NullAssumption
  DEF WritePid, Alive, Patient, LifecycleInv, TypeOK, CommandRecords,
      AloneShape, AwaitedShape, StopShape, NoStrangerKilled
<1>2. ASSUME NEW d \in Daemons, UnlinkSocket(d) PROVE Shape'
  BY <1>2, NullAssumption
  DEF UnlinkSocket, Alive, Patient, LifecycleInv, TypeOK, CommandRecords,
      AloneShape, AwaitedShape, StopShape, NoStrangerKilled
<1>3. ASSUME NEW d \in Daemons, Listen(d) PROVE Shape'
  BY <1>3, NullAssumption
  DEF Listen, Alive, Patient, LifecycleInv, TypeOK, CommandRecords,
      AloneShape, AwaitedShape, StopShape, NoStrangerKilled
<1>4. ASSUME NEW d \in Daemons, ListenFails(d) PROVE Shape'
  BY <1>4, NullAssumption
  DEF ListenFails, Alive, Patient, LifecycleInv, TypeOK, CommandRecords,
      AloneShape, AwaitedShape, StopShape, NoStrangerKilled
<1>5. ASSUME NEW d \in Daemons, ExitCleanly(d) PROVE Shape'
  BY <1>5, NullAssumption
  DEF ExitCleanly, Alive, Patient, LifecycleInv, TypeOK, CommandRecords,
      AloneShape, AwaitedShape, StopShape, NoStrangerKilled
<1>6. ASSUME NEW d \in Daemons, Crash(d) PROVE Shape'
  BY <1>6, NullAssumption
  DEF Crash, Alive, Patient, LifecycleInv, TypeOK, CommandRecords, AloneShape,
      AwaitedShape, StopShape, NoStrangerKilled
<1>7. ASSUME NEW d \in Daemons, RecyclePid(d) PROVE Shape'
  BY <1>7, NullAssumption
  DEF RecyclePid, Alive, Patient, LifecycleInv, TypeOK, CommandRecords,
      AloneShape, AwaitedShape, StopShape, NoStrangerKilled
<1>8. ASSUME NEW d \in Daemons, StrangerExits(d) PROVE Shape'
  BY <1>8, NullAssumption
  DEF StrangerExits, Alive, Patient, LifecycleInv, TypeOK, CommandRecords,
      AloneShape, AwaitedShape, StopShape, NoStrangerKilled
<1>9. ASSUME NEW c \in Commands, NEW kind \in Kinds, Begin(c, kind) PROVE Shape'
  BY <1>9, NullAssumption
  DEF Begin, Alive, Patient, LifecycleInv, TypeOK, CommandRecords, AloneShape,
      AwaitedShape, StopShape, NoStrangerKilled
<1>10. ASSUME NEW c \in Commands, Ping(c) PROVE Shape'
  <2>1. /\ command[c].pc = "pinging"
        /\ IF Answers THEN command' = [command EXCEPT ![c] = NoCommand]
           ELSE Goto(c, "launching")
        /\ UNCHANGED <<pidFile, socket, ready, daemon, strangers>>
    BY <1>10, PatientPinged DEF Ping
  <2>2. AloneShape'
    BY <2>1, NullAssumption
    DEF Goto, NoCommand, Answers, Alive, Patient, LifecycleInv,
        TypeOK, CommandRecords, Phases, AloneShape, AwaitedShape, StopShape
  <2>3. AwaitedShape'
    BY <2>1, NullAssumption
    DEF Goto, NoCommand, Answers, Alive, Patient, LifecycleInv,
        TypeOK, CommandRecords, Phases, AloneShape, AwaitedShape, StopShape
  <2>4. StopShape'
    BY <2>1, NullAssumption
    DEF Goto, NoCommand, Answers, Alive, Patient, LifecycleInv,
        TypeOK, CommandRecords, Phases, AloneShape, AwaitedShape, StopShape
  <2>5. NoStrangerKilled'
    BY <2>1 DEF LifecycleInv, NoStrangerKilled
  <2> QED BY <2>2, <2>3, <2>4, <2>5
<1>11. ASSUME NEW c \in Commands, Spawn(c) PROVE Shape'
  BY <1>11, NullAssumption
  DEF Spawn, Alive, Patient, LifecycleInv, TypeOK, CommandRecords, AloneShape,
      AwaitedShape, StopShape, NoStrangerKilled
<1>12. ASSUME NEW c \in Commands, FindReady(c) PROVE Shape'
  BY <1>12, NullAssumption
  DEF FindReady, NoCommand, Alive, Patient, LifecycleInv, TypeOK,
      CommandRecords, AloneShape, AwaitedShape, StopShape, NoStrangerKilled
<1>13. ASSUME NEW c \in Commands, GiveUpWaiting(c) PROVE Shape'
  BY <1>13, NullAssumption
  DEF GiveUpWaiting, NoCommand, Alive, Patient, LifecycleInv, TypeOK,
      CommandRecords, AloneShape, AwaitedShape, StopShape, NoStrangerKilled
<1>14. ASSUME NEW c \in Commands, ReadPid(c) PROVE Shape'
  <2>1. AloneShape'
    BY <1>14, NullAssumption
    DEF ReadPid, Stopped, NoCommand, CleanupDaemonFiles, Alive, Patient, LifecycleInv,
        TypeOK, CommandRecords, Phases, AloneShape, AwaitedShape, StopShape
  <2>2. AwaitedShape'
    BY <1>14, NullAssumption
    DEF ReadPid, Stopped, NoCommand, CleanupDaemonFiles, Alive, Patient, LifecycleInv,
        TypeOK, CommandRecords, Phases, AloneShape, AwaitedShape, StopShape
  <2>3. StopShape'
    BY <1>14, NullAssumption
    DEF ReadPid, Stopped, NoCommand, CleanupDaemonFiles, Alive, Patient, LifecycleInv,
        TypeOK, CommandRecords, Phases, AloneShape, AwaitedShape, StopShape
  <2>4. NoStrangerKilled'
    BY <1>14 DEF ReadPid, LifecycleInv, NoStrangerKilled
  <2> QED BY <2>1, <2>2, <2>3, <2>4
<1>15. ASSUME NEW c \in Commands, CheckAnswers(c) PROVE Shape'
  <2>1. /\ command[c].pc = "checking"
        /\ IF Answers
           THEN Goto(c, "killing") /\ UNCHANGED <<pidFile, socket, ready>>
           ELSE Stopped(c) /\ CleanupDaemonFiles
        /\ UNCHANGED <<daemon, strangers>>
    BY <1>15, PatientPinged DEF CheckAnswers
  <2> QED
    BY <2>1, NullAssumption
    DEF Goto, Answers, Stopped, NoCommand, CleanupDaemonFiles,
        Alive, Patient, LifecycleInv, TypeOK, CommandRecords, AloneShape,
        AwaitedShape, StopShape, NoStrangerKilled
<1>16. ASSUME NEW c \in Commands, Kill(c) PROVE Shape'
  BY <1>16, NullAssumption
  DEF Kill, Goto, Terminate, Stopped, NoCommand, CleanupDaemonFiles, Alive,
      Patient, LifecycleInv, TypeOK, CommandRecords, AloneShape, AwaitedShape,
      StopShape, NoStrangerKilled
<1>17. ASSUME NEW c \in Commands, SeeExit(c) PROVE Shape'
  BY <1>17, NullAssumption
  DEF SeeExit, Stopped, NoCommand, CleanupDaemonFiles, Alive, Patient,
      LifecycleInv, TypeOK, CommandRecords, AloneShape, AwaitedShape,
      StopShape, NoStrangerKilled
<1>18. ASSUME NEW c \in Commands, GiveUpStopping(c) PROVE Shape'
  BY <1>18, NullAssumption
  DEF GiveUpStopping, Stopped, NoCommand, Alive, Patient, LifecycleInv,
      TypeOK, CommandRecords, AloneShape, AwaitedShape, StopShape,
      NoStrangerKilled
<1>19. CASE UNCHANGED vars
  BY <1>19 DEF vars, LifecycleInv, AloneShape, AwaitedShape, StopShape,
               NoStrangerKilled, Alive
<1> HIDE DEF Shape
<1> QED BY <1>1, <1>2, <1>3, <1>4, <1>5, <1>6, <1>7, <1>8, <1>9, <1>10, <1>11, <1>12, <1>13, <1>14, <1>15, <1>16, <1>17, <1>18, <1>19 DEF Next

\* Before the first command there is no daemon.
LEMMA InitLifecycle == Init => LifecycleInv
<1> SUFFICES ASSUME Init PROVE LifecycleInv
  OBVIOUS
<1>1. NoCommand \in CommandRecords /\ NoCommand.pc = "idle"
  BY DEF NoCommand, CommandRecords, Kinds
<1>2. TypeOK /\ NoStrangerKilled
  BY <1>1 DEF Init, TypeOK, NoStrangerKilled, Phases
<1>3. AloneShape /\ AwaitedShape /\ StopShape
  BY <1>1 DEF Init, AloneShape, AwaitedShape, StopShape, Alive
<1> QED BY <1>2, <1>3 DEF LifecycleInv

\* What the invariant says of the daemons that are alive.
LEMMA AloneIsOne == AloneShape => OneDaemon
<1> SUFFICES ASSUME AloneShape PROVE OneDaemon
  OBVIOUS
<1> DEFINE alive == {d \in Daemons : Alive(d)}
<1>1. CASE alive = {}
  BY <1>1, FS_EmptySet DEF OneDaemon
<1>2. CASE alive # {}
  <2>1. PICK d \in Daemons : Alive(d)
    BY <1>2
  <2>2. alive = {d}
    BY <2>1 DEF AloneShape
  <2> HIDE DEF alive
  <2>3. Cardinality(alive) = 1
    BY <2>2, FS_Singleton
  <2> QED BY <2>3 DEF OneDaemon, alive
<1> QED BY <1>1, <1>2

-----------------------------------------------------------------------------
(* The requests: a step of the whole is a step of the lifecycle or leaves   *)
(* it alone; a daemon that cannot read its configuration dies as by a crash.*)

LEMMA RequestsStep == [RequestsNext]_allVars => [Next]_vars
<1> SUFFICES ASSUME [RequestsNext]_allVars PROVE [Next]_vars
  OBVIOUS
<1>1. ASSUME NEW d \in Daemons,
             DaemonRuns(d) \/ Around(Crash(d) \/ RecyclePid(d) \/ StrangerExits(d))
      PROVE  [Next]_vars
  <2>1. CASE BootFails(d)
    BY <2>1 DEF BootFails, Crash, Alive, Next
  <2>2. CASE LoadConfig(d)
    BY <2>2 DEF LoadConfig
  <2> QED BY <1>1, <2>1, <2>2 DEF DaemonRuns, Around, Next
<1>2. ASSUME NEW c \in Commands, CommandRuns(c) PROVE [Next]_vars
  BY <1>2 DEF CommandRuns, Around, Next
<1>3. ASSUME NEW c \in Commands, NEW kind \in Kinds, Around(Begin(c, kind))
      PROVE  [Next]_vars
  BY <1>3 DEF Around, Next
<1>4. CASE EditConfig
  BY <1>4 DEF EditConfig
<1>5. ASSUME NEW q \in Requests,
             Connect(q) \/ TimesOut(q) \/ SeesClose(q) \/ Reply(q) \/ RunStep(q)
      PROVE  UNCHANGED vars
  BY <1>5 DEF Connect, TimesOut, SeesClose, Reply, RunStep
<1>6. CASE UNCHANGED allVars
  BY <1>6 DEF allVars
<1> QED BY <1>1, <1>2, <1>3, <1>4, <1>5, <1>6 DEF RequestsNext

\* What a step of the lifecycle does to the requests keeps them in shape.
LEMMA AroundKeeps ==
    ASSUME RequestsInv, TypeOK', Sends, JobsDie, Notes, UNCHANGED config
    PROVE  RequestsInv'
<1>1. RequestsTypeOK /\ JobShape /\ StopsAtFailure
  BY DEF RequestsInv
<1>2. /\ read' \in [Daemons -> 0 .. MaxEdits \cup {Unread}]
      /\ since' \in [Commands -> 0 .. MaxEdits]
  BY <1>1, ScriptAssumption DEF RequestsTypeOK, Notes
<1>3. /\ request' \in [Requests -> [at: Settled \cup {"unsent", "connecting", "sent"},
                                    on: Daemons \cup {NoDaemon}]]
      /\ \A q \in Requests : request'[q].at \in {"unsent", "connecting"}
                                => request[q].at \in {"unsent", "connecting"}
  <2>1. CASE UNCHANGED request
    BY <1>1, <2>1 DEF RequestsTypeOK
  <2>2. ASSUME NEW q \in Requests, request[q].at = "unsent",
               request' = [request EXCEPT ![q].at = "connecting"]
        PROVE  <1>3!1 /\ <1>3!2
    BY <1>1, <2>2, ZenonT(40) DEF RequestsTypeOK
  <2> QED BY <2>1, <2>2 DEF Sends
<1>4. \A q \in Requests : job'[q] = job[q] \/ job'[q] = NoJob
  BY DEF JobsDie
<1>5. /\ NoJob \in [at: {"none", "running", "done"}, log: Seq(Outcomes)]
      /\ Len(NoJob.log) = 0 /\ NoJob.at = "none"
  BY DEF NoJob
<1>6. job' \in [Requests -> [at: {"none", "running", "done"}, log: Seq(Outcomes)]]
  BY <1>1, <1>5 DEF RequestsTypeOK, JobsDie
<1>7. RequestsTypeOK'
  <2>1. ASSUME NEW q \in Requests PROVE Len(job'[q].log) <= Steps
    <3>1. Len(job[q].log) <= Steps /\ 0 <= Steps
      BY <1>1, ScriptAssumption DEF RequestsTypeOK
    <3> QED BY <1>4, <1>5, <3>1
  <2> QED BY <1>1, <1>2, <1>3, <1>6, <2>1 DEF RequestsTypeOK
<1>8. JobShape'
  BY <1>1, <1>3, <1>4, <1>5 DEF JobShape
<1>9. StopsAtFailure'
  BY <1>1, <1>4, <1>5 DEF StopsAtFailure
<1> QED BY <1>7, <1>8, <1>9 DEF RequestsInv

\* A request that changes without a job of its own.
LEMMA RequestMoves ==
    ASSUME RequestsInv, NEW q \in Requests,
           NEW at \in Settled,
           request' = [request EXCEPT ![q].at = at],
           UNCHANGED <<vars, config, read, since, job>>
    PROVE  RequestsInv'
<1>1. RequestsTypeOK /\ JobShape /\ StopsAtFailure
  BY DEF RequestsInv
<1>2. /\ request' \in [Requests -> [at: Settled \cup {"unsent", "connecting", "sent"},
                                    on: Daemons \cup {NoDaemon}]]
      /\ \A p \in Requests : request'[p].at \in {"unsent", "connecting"}
                                => request[p].at \in {"unsent", "connecting"}
  BY <1>1, ZenonT(40) DEF RequestsTypeOK, Settled
<1>3. RequestsTypeOK'
  BY <1>1, <1>2 DEF RequestsTypeOK, TypeOK, vars
<1> QED BY <1>1, <1>2, <1>3 DEF RequestsInv, JobShape, StopsAtFailure

\* A job begins, ends or is taken away: it is fresh, or nothing is left of it.
LEMMA JobMoves ==
    ASSUME RequestsInv, NEW q \in Requests, NEW next, NEW to,
           next \in [at: {"none", "running", "done"}, log: Seq(Outcomes)],
           next.log = <<>>,
           to \in [at: Settled \cup {"sent"}, on: Daemons \cup {NoDaemon}],
           job' = [job EXCEPT ![q] = next], request' = [request EXCEPT ![q] = to],
           UNCHANGED <<vars, config, read, since>>
    PROVE  RequestsInv'
<1>1. RequestsTypeOK /\ JobShape /\ StopsAtFailure
  BY DEF RequestsInv
<1>2. Len(next.log) = 0
  OBVIOUS
<1>3. /\ request' \in [Requests -> [at: Settled \cup {"unsent", "connecting", "sent"},
                                    on: Daemons \cup {NoDaemon}]]
      /\ request'[q].at \notin {"unsent", "connecting"}
      /\ \A p \in Requests \ {q} : request'[p] = request[p]
  BY <1>1 DEF RequestsTypeOK, Settled
<1>4. /\ job' \in [Requests -> [at: {"none", "running", "done"}, log: Seq(Outcomes)]]
      /\ job'[q] = next
      /\ \A p \in Requests \ {q} : job'[p] = job[p]
  BY <1>1 DEF RequestsTypeOK
<1>5. RequestsTypeOK'
  BY <1>1, <1>2, <1>3, <1>4, ScriptAssumption DEF RequestsTypeOK, TypeOK, vars
<1>6. JobShape'
  BY <1>1, <1>2, <1>3, <1>4, ScriptAssumption DEF JobShape
<1>7. StopsAtFailure'
  BY <1>1, <1>2, <1>4 DEF StopsAtFailure
<1> QED BY <1>5, <1>6, <1>7 DEF RequestsInv

\* A script goes on only after a step that lets it.
LEMMA RunStepKeeps ==
    ASSUME RequestsInv, NEW q \in Requests, RunStep(q)
    PROVE  RequestsInv'
<1>1. RequestsTypeOK /\ JobShape /\ StopsAtFailure
  BY DEF RequestsInv
<1> DEFINE log == job[q].log
           i   == Len(log) + 1
<1>2. PICK outcome \in Outcomes :
         job' = [job EXCEPT
             ![q].at = IF Stops(outcome, i) \/ i = Steps THEN "done" ELSE @,
             ![q].log = Append(@, outcome)]
  BY DEF RunStep
<1>3. /\ job[q].at = "running" /\ log \in Seq(Outcomes) /\ Len(log) < Steps
      /\ \A j \in 1 .. Len(log) : log[j] = "ok" \/ j \in Continue
      /\ Len(log) \in Nat
  BY <1>1 DEF RunStep, RequestsTypeOK, JobShape
<1> DEFINE longer == Append(log, outcome)
<1>4. /\ longer \in Seq(Outcomes) /\ Len(longer) = Len(log) + 1
      /\ \A j \in 1 .. Len(log) : longer[j] = log[j]
      /\ longer[Len(log) + 1] = outcome
  BY <1>3
<1>5. PICK at \in {"running", "done"} :
         /\ job' = [job EXCEPT ![q].at = at, ![q].log = longer]
         /\ at = "running" => ~Stops(outcome, i) /\ i # Steps
  BY <1>2, <1>3
<1>6. /\ job' \in [Requests -> [at: {"none", "running", "done"}, log: Seq(Outcomes)]]
      /\ job'[q].at = at /\ job'[q].log = longer
      /\ \A p \in Requests \ {q} : job'[p] = job[p]
  BY <1>1, <1>4, <1>5, ZenonT(40) DEF RequestsTypeOK
<1>7. request' = request /\ UNCHANGED <<vars, config, read, since>>
  BY DEF RunStep
<1> HIDE DEF longer
<1>8. request[q].at \notin {"unsent", "connecting"}
  BY <1>1, <1>3 DEF JobShape, NoJob
<1>9. RequestsTypeOK'
  <2>1. ASSUME NEW p \in Requests PROVE Len(job'[p].log) <= Steps
    <3>1. Len(job[p].log) <= Steps /\ Len(log) + 1 <= Steps
      BY <1>1, <1>3, ScriptAssumption DEF RequestsTypeOK
    <3> QED BY <1>4, <1>6, <3>1
  <2>2. TypeOK'
    BY <1>1, <1>7 DEF RequestsTypeOK, TypeOK, vars
  <2> QED BY <1>1, <1>6, <1>7, <2>1, <2>2 DEF RequestsTypeOK
<1>10. JobShape'
  <2>1. CASE at = "running"
    <3>1. outcome = "ok" \/ Len(log) + 1 \in Continue
      BY <1>5, <2>1 DEF Stops
    <3>2. \A j \in 1 .. Len(longer) : longer[j] = "ok" \/ j \in Continue
      BY <1>3, <1>4, <3>1, SMTT(30)
    <3>3. Len(longer) < Steps
      BY <1>3, <1>4, <1>5, <2>1, ScriptAssumption
    <3> QED BY <1>1, <1>6, <1>7, <1>8, <3>2, <3>3 DEF JobShape
  <2>2. CASE at # "running"
    BY <1>1, <1>6, <1>7, <1>8, <2>2 DEF JobShape
  <2> QED BY <2>1, <2>2
<1>11. StopsAtFailure'
  <2>1. \A j \in 1 .. Len(longer) - 1 : longer[j] = "ok" \/ j \in Continue
    BY <1>3, <1>4
  <2> QED BY <1>1, <1>6, <2>1 DEF StopsAtFailure
<1> QED BY <1>9, <1>10, <1>11 DEF RequestsInv

\* Nothing was sent before the first command.
LEMMA InitRequests == RequestsInit => RequestsInv
<1> SUFFICES ASSUME RequestsInit PROVE RequestsInv
  OBVIOUS
<1>1. TypeOK
  BY InitLifecycle DEF RequestsInit, LifecycleInv
<1>2. /\ NoJob \in [at: {"none", "running", "done"}, log: Seq(Outcomes)]
      /\ Len(NoJob.log) = 0 /\ NoJob.at = "none"
  BY DEF NoJob
<1>3. RequestsTypeOK
  BY <1>1, <1>2, ScriptAssumption DEF RequestsInit, RequestsTypeOK, NoRequest
<1>4. JobShape /\ StopsAtFailure
  BY <1>2 DEF RequestsInit, JobShape, StopsAtFailure
<1> QED BY <1>3, <1>4 DEF RequestsInv

\* Every step keeps types and scripts.
LEMMA NextRequests == RequestsInv /\ [RequestsNext]_allVars => RequestsInv'
<1> SUFFICES ASSUME RequestsInv, [RequestsNext]_allVars PROVE RequestsInv'
  OBVIOUS
<1>1. RequestsTypeOK /\ TypeOK'
  BY RequestsStep, NextTypeOK DEF RequestsInv, RequestsTypeOK
<1>2. CASE Sends /\ JobsDie /\ Notes /\ UNCHANGED config
  BY <1>1, <1>2, AroundKeeps
<1>3. CASE UNCHANGED <<config, since, request, job>>
           /\ read' \in [Daemons -> 0 .. MaxEdits \cup {Unread}]
  BY <1>1, <1>3 DEF RequestsInv, RequestsTypeOK, JobShape, StopsAtFailure
<1>4. ASSUME NEW d \in Daemons, LoadConfig(d) \/ BootFails(d) PROVE RequestsInv'
  <2>1. config.edits \in 0 .. MaxEdits
    BY <1>1 DEF RequestsTypeOK
  <2>2. read' \in [Daemons -> 0 .. MaxEdits \cup {Unread}]
    BY <1>1, <1>4, <2>1 DEF LoadConfig, BootFails, RequestsTypeOK, requestVars
  <2> QED BY <1>3, <1>4, <2>2 DEF LoadConfig, BootFails, requestVars
<1>5. CASE EditConfig
  <2>1. config' \in [edits: 0 .. MaxEdits, valid: BOOLEAN]
    <3>1. config.edits + 1 \in 0 .. MaxEdits
      BY <1>1, <1>5, ScriptAssumption DEF EditConfig, RequestsTypeOK
    <3> QED BY <1>5, <3>1 DEF EditConfig
  <2> QED BY <1>1, <1>5, <2>1
          DEF EditConfig, RequestsInv, RequestsTypeOK, JobShape, StopsAtFailure
<1>6. ASSUME NEW q \in Requests, Connect(q) PROVE RequestsInv'
  <2>1. CASE Answers
    <3>1. PICK at \in {"running", "done"} :
             /\ job' = [job EXCEPT ![q].at = at]
             /\ request' = [request EXCEPT ![q] = [at |-> "sent", on |-> socket]]
             /\ UNCHANGED <<vars, config, read, since>>
      BY <1>6, <2>1 DEF Connect
    <3>2. job[q] = NoJob
      BY <1>6 DEF Connect, RequestsInv, JobShape
    <3>3. job' = [job EXCEPT ![q] = [at |-> at, log |-> <<>>]]
      <4>1. PICK new : new = [NoJob EXCEPT !.at = at]
        OBVIOUS
      <4>2. job' = [job EXCEPT ![q] = new]
        BY <1>1, <3>1, <3>2, <4>1 DEF RequestsTypeOK
      <4>3. new = [at |-> at, log |-> <<>>]
        BY <4>1, Zenon DEF NoJob
      <4> QED BY <4>2, <4>3
    <3>5. [at |-> at, log |-> <<>>]
             \in [at: {"none", "running", "done"}, log: Seq(Outcomes)]
      OBVIOUS
    <3>4. [at |-> "sent", on |-> socket]
             \in [at: Settled \cup {"sent"}, on: Daemons \cup {NoDaemon}]
      BY <2>1 DEF Answers
    <3> QED BY <3>1, <3>3, <3>4, <3>5, JobMoves
  <2>2. CASE ~Answers
    BY <1>6, <2>2, RequestMoves DEF Connect, Settled
  <2> QED BY <2>1, <2>2
<1>7. ASSUME NEW q \in Requests, TimesOut(q) \/ SeesClose(q) PROVE RequestsInv'
  BY <1>7, RequestMoves DEF TimesOut, SeesClose, Settled
<1>8. ASSUME NEW q \in Requests, Reply(q) PROVE RequestsInv'
  <2>1. /\ NoJob \in [at: {"none", "running", "done"}, log: Seq(Outcomes)]
        /\ NoJob.log = <<>>
    BY DEF NoJob
  <2>2. [request[q] EXCEPT !.at = "replied"]
           \in [at: Settled \cup {"sent"}, on: Daemons \cup {NoDaemon}]
    BY <1>1, ZenonT(40) DEF RequestsTypeOK, Settled
  <2>3. /\ job' = [job EXCEPT ![q] = NoJob]
        /\ request' = [request EXCEPT ![q] = [request[q] EXCEPT !.at = "replied"]]
        /\ UNCHANGED <<vars, config, read, since>>
    BY <1>1, <1>8 DEF Reply, RequestsTypeOK
  <2> QED BY <2>1, <2>2, <2>3, JobMoves
<1>9. CASE UNCHANGED allVars
  BY <1>1, <1>3, <1>9 DEF allVars, requestVars, RequestsTypeOK
<1> QED BY <1>2, <1>4, <1>5, <1>6, <1>7, <1>8, <1>9, RunStepKeeps
        DEF RequestsNext, DaemonRuns, CommandRuns, Around

-----------------------------------------------------------------------------
(* A restart and the configuration the new daemon reads.                   *)


\* How a command comes to wait for a daemon, and how one that waits ends.
LEMMA CommandStep ==
    ASSUME TypeOK, [Next]_vars, NEW c \in Commands,
           command[c].pc \in {"idle", "pinging"} => command[c].kind # "restart"
    PROVE  /\ command'[c].pc \in {"idle", "pinging"} => command'[c].kind # "restart"
           /\ command'[c].pc = "waiting" =>
                 /\ command[c].pc \in {"waiting", "launching"}
                 /\ command'[c].kind = command[c].kind
           /\ command[c].kind = "restart" /\ command[c].pc # "idle"
              /\ command'[c].pc = "idle" =>
                 command[c].pc = "waiting" /\ UNCHANGED daemon
<1> DEFINE Goal ==
       /\ command'[c].pc \in {"idle", "pinging"} => command'[c].kind # "restart"
       /\ command'[c].pc = "waiting" =>
             /\ command[c].pc \in {"waiting", "launching"}
             /\ command'[c].kind = command[c].kind
       /\ command[c].kind = "restart" /\ command[c].pc # "idle"
          /\ command'[c].pc = "idle" =>
             command[c].pc = "waiting" /\ UNCHANGED daemon
<1> SUFFICES Goal
  OBVIOUS
<1>1. command \in [Commands -> CommandRecords]
  BY DEF TypeOK
<1>2. CASE command'[c] = command[c]
  BY <1>2
<1>3. ASSUME NEW b \in Commands, NEW kind \in Kinds, Begin(b, kind) PROVE Goal
  BY <1>1, <1>3 DEF Begin, Kinds
<1>4. ASSUME NEW b \in Commands, Ping(b) PROVE Goal
  BY <1>1, <1>4 DEF Ping, Goto, NoCommand, CommandRecords
<1>5. ASSUME NEW b \in Commands, Spawn(b) PROVE Goal
  BY <1>1, <1>5 DEF Spawn, CommandRecords
<1>6. ASSUME NEW b \in Commands, FindReady(b) \/ GiveUpWaiting(b) PROVE Goal
  BY <1>1, <1>6 DEF FindReady, GiveUpWaiting, NoCommand, CommandRecords
<1>7. ASSUME NEW b \in Commands, command[b].pc \in {"reading", "checking", "killing", "exiting"},
             Stopped(b)
      PROVE  Goal
  BY <1>1, <1>7 DEF Stopped, NoCommand, CommandRecords
<1>8. ASSUME NEW b \in Commands, command[b].pc \in {"reading", "checking", "killing"},
             NEW pc \in {"checking", "killing", "exiting"}, NEW d,
             \/ Goto(b, pc)
             \/ command' = [command EXCEPT ![b].pc = pc, ![b].pid = d]
      PROVE  Goal
  BY <1>1, <1>8 DEF Goto, CommandRecords
<1>9. ASSUME NEW b \in Commands,
             ReadPid(b) \/ CheckAnswers(b) \/ Kill(b) \/ SeeExit(b) \/ GiveUpStopping(b)
      PROVE  Goal
  <2> HIDE DEF Goal
  <2> QED BY <1>7, <1>8, <1>9 DEF ReadPid, CheckAnswers, Kill, SeeExit, GiveUpStopping
<1>10. CASE UNCHANGED command
  BY <1>2, <1>10
<1>11. ASSUME NEW d \in Daemons,
              \/ WritePid(d) \/ UnlinkSocket(d) \/ Listen(d) \/ ListenFails(d)
              \/ ExitCleanly(d) \/ Crash(d) \/ RecyclePid(d) \/ StrangerExits(d)
       PROVE  UNCHANGED command
  BY <1>11 DEF WritePid, UnlinkSocket, Listen, ListenFails, ExitCleanly, Crash,
               RecyclePid, StrangerExits
<1> HIDE DEF Goal
<1> QED BY <1>3, <1>4, <1>5, <1>6, <1>9, <1>10, <1>11 DEF Next, vars

\* A daemon that binds or serves did so before, or has read its configuration.
LEMMA DaemonBinds ==
    ASSUME TypeOK, [RequestsNext]_allVars, NEW d \in Daemons,
           daemon'[d] \in {"binding", "serving"}
    PROVE  daemon[d] \in {"binding", "serving"} \/ read[d] # Unread
<1> DEFINE Goal == daemon[d] \in {"binding", "serving"} \/ read[d] # Unread
<1> SUFFICES Goal
  OBVIOUS
<1>1. daemon \in [Daemons -> Phases]
  BY DEF TypeOK
<1>2. CASE daemon'[d] = daemon[d]
  BY <1>2
<1>3. ASSUME NEW e \in Daemons, DaemonRuns(e) PROVE Goal
  BY <1>1, <1>2, <1>3
  DEF DaemonRuns, Around, WritePid, UnlinkSocket, Listen, ListenFails, ExitCleanly,
      LoadConfig, BootFails, vars
<1>4. ASSUME NEW e \in Daemons, Crash(e) \/ RecyclePid(e) \/ StrangerExits(e)
      PROVE  Goal
  BY <1>1, <1>2, <1>4 DEF Crash, RecyclePid, StrangerExits
<1>5. ASSUME NEW c \in Commands, CommandRuns(c) PROVE Goal
  BY <1>1, <1>2, <1>5
  DEF CommandRuns, Around, Ping, Spawn, FindReady, GiveUpWaiting, ReadPid,
      CheckAnswers, Kill, Terminate, SeeExit, GiveUpStopping
<1>6. CASE UNCHANGED daemon
  BY <1>2, <1>6
<1>7. ASSUME NEW c \in Commands, NEW kind \in Kinds, Begin(c, kind)
      PROVE  UNCHANGED daemon
  BY <1>7 DEF Begin
<1>8. ASSUME EditConfig \/ (UNCHANGED allVars)
             \/ \E q \in Requests : Connect(q) \/ TimesOut(q) \/ SeesClose(q)
                                    \/ Reply(q) \/ RunStep(q)
      PROVE  UNCHANGED daemon
  BY <1>8 DEF EditConfig, allVars, vars, Connect, TimesOut, SeesClose, Reply, RunStep
<1> HIDE DEF Goal
<1> QED BY <1>3, <1>4, <1>5, <1>6, <1>7, <1>8 DEF RequestsNext, Around

\* What a daemon has read and a restart remembers move only as Notes says, or
\* when the configuration is read or edited.
LEMMA HistoryStep ==
    ASSUME [RequestsNext]_allVars
    PROVE  \/ Notes /\ UNCHANGED config
           \/ \E d \in Daemons : LoadConfig(d) \/ BootFails(d)
           \/ EditConfig
           \/ UNCHANGED <<vars, config, read, since>>
BY DEF RequestsNext, DaemonRuns, CommandRuns, Around, Connect, TimesOut, SeesClose,
       Reply, RunStep, allVars, requestVars

\* Every step keeps the configuration of a restarted daemon fresh.
LEMMA NextFresh ==
    LifecycleInv /\ RequestsInv /\ FreshInv /\ [RequestsNext]_allVars => FreshInv'
<1> SUFFICES ASSUME LifecycleInv, RequestsInv, FreshInv, [RequestsNext]_allVars
             PROVE  FreshInv'
  OBVIOUS
<1>1. /\ TypeOK /\ RequestsTypeOK /\ [Next]_vars
      /\ read \in [Daemons -> 0 .. MaxEdits \cup {Unread}]
      /\ since \in [Commands -> 0 .. MaxEdits]
      /\ config.edits \in 0 .. MaxEdits
  BY RequestsStep DEF LifecycleInv, RequestsInv, RequestsTypeOK
<1>2. \A c \in Commands :
         /\ command'[c].pc \in {"idle", "pinging"} => command'[c].kind # "restart"
         /\ command'[c].pc = "waiting" =>
               /\ command[c].pc \in {"waiting", "launching"}
               /\ command'[c].kind = command[c].kind
  BY <1>1, CommandStep DEF FreshInv
<1>3. \A c \in Commands : command[c].pc = "launching" =>
                             \A d \in Daemons : read[d] = Unread
  BY DEF LifecycleInv, StopShape, FreshInv, Alive
<1>4. \A d \in Daemons : daemon'[d] \in {"binding", "serving"} => read[d] # Unread
  BY <1>1, DaemonBinds DEF FreshInv
<1>5. CASE Notes /\ UNCHANGED config
  <2>1. \A d \in Daemons :
           read'[d] = IF daemon'[d] = "dead" THEN Unread ELSE read[d]
    BY <1>5 DEF Notes
  <2>2. \A c \in Commands :
           since'[c] = IF command'[c].kind # "restart" THEN 0
                       ELSE IF command[c].pc = "idle" THEN config.edits ELSE since[c]
    BY <1>5 DEF Notes
  <2>3. \A c \in Commands : since'[c] <= config'.edits
    BY <1>1, <1>5, <2>2 DEF FreshInv
  <2>4. ASSUME NEW c \in Commands, command'[c].kind = "restart",
               command'[c].pc = "waiting", NEW d \in Daemons, read'[d] # Unread
        PROVE  read'[d] >= since'[c]
    <3>1. command[c].pc = "waiting" /\ command[c].kind = "restart"
      BY <1>2, <1>3, <2>1, <2>4
    <3>2. read'[d] = read[d] /\ since'[c] = since[c]
      BY <2>1, <2>2, <2>4, <3>1
    <3> QED BY <2>4, <3>1, <3>2 DEF FreshInv
  <2> QED BY <1>2, <1>4, <2>1, <2>3, <2>4 DEF FreshInv
<1>6. ASSUME NEW d \in Daemons, LoadConfig(d) PROVE FreshInv'
  <2>1. /\ read' = [read EXCEPT ![d] = config.edits] /\ daemon[d] = "starting"
        /\ UNCHANGED <<vars, config, since>>
    BY <1>6 DEF LoadConfig
  <2>2. config.edits # Unread
    BY <1>1, ScriptAssumption
  <2>3. UNCHANGED <<daemon, command>>
    BY <2>1 DEF vars
  <2> QED BY <1>1, <2>1, <2>2, <2>3 DEF FreshInv
<1>7. ASSUME NEW d \in Daemons, BootFails(d) PROVE FreshInv'
  <2>1. /\ daemon' = [daemon EXCEPT ![d] = "dead"] /\ read[d] = Unread
        /\ UNCHANGED <<command, config, read, since>>
    BY <1>7 DEF BootFails, requestVars
  <2> QED BY <1>1, <2>1 DEF FreshInv, TypeOK
<1>8. CASE EditConfig
  <2>1. /\ config'.edits = config.edits + 1
        /\ UNCHANGED <<daemon, command, read, since>>
    BY <1>8 DEF EditConfig, vars
  <2>2. \A c \in Commands : since[c] <= config.edits + 1
    BY <1>1, ScriptAssumption DEF FreshInv
  <2> QED BY <2>1, <2>2 DEF FreshInv
<1>9. CASE UNCHANGED <<vars, config, read, since>>
  BY <1>9 DEF vars, FreshInv
<1> QED BY <1>5, <1>6, <1>7, <1>8, <1>9, HistoryStep

\* Before the first restart.
LEMMA InitFresh == RequestsInit => FreshInv
BY ScriptAssumption DEF RequestsInit, Init, FreshInv, NoCommand

-----------------------------------------------------------------------------
(* The properties.                                                         *)

(* What the lifecycle rests on: one daemon alive, the socket and the PID file *)
(* its own, and a stop that signals only what answered (stopDaemon).         *)
THEOREM SpecLifecycleInv == Patient => (Spec => []LifecycleInv)
<1> SUFFICES ASSUME Patient PROVE Spec => []LifecycleInv
  OBVIOUS
<1>1. LifecycleInv /\ [Next]_vars => LifecycleInv'
  BY NextLifecycle
<1> QED BY <1>1, InitLifecycle, PTL DEF Spec

(* What the commands, the requests and the scripts rest on, for any commands *)
(* and daemons at once (sendRequest, runCallScript).                         *)
THEOREM RequestsSpecInv == RequestsSpec => []RequestsInv
<1>1. RequestsSpec => RequestsInit /\ [][RequestsNext]_allVars
  BY PTL DEF RequestsSpec
<1> QED BY <1>1, InitRequests, NextRequests, PTL

(* The same invariant of the lifecycle when requests and scripts run beside  *)
(* the commands.                                                             *)
THEOREM RequestsLifecycleInv == Patient => (RequestsSpec => []LifecycleInv)
<1> SUFFICES ASSUME Patient PROVE RequestsSpec => []LifecycleInv
  OBVIOUS
<1>1. RequestsSpec => RequestsInit /\ [][RequestsNext]_allVars
  BY PTL DEF RequestsSpec
<1>2. RequestsInit => LifecycleInv
  BY InitLifecycle DEF RequestsInit
<1>3. LifecycleInv /\ [RequestsNext]_allVars => LifecycleInv'
  BY NextLifecycle, RequestsStep
<1> QED BY <1>1, <1>2, <1>3, PTL

(* Commands, daemons, requests and scripts keep their types, whoever runs   *)
(* them.                                                                    *)
THEOREM SpecRequestsTypeOK == RequestsSpec => []RequestsTypeOK
<1>1. RequestsInv => RequestsTypeOK
  BY DEF RequestsInv
<1> QED BY <1>1, RequestsSpecInv, PTL

(* No step of a script runs after one that failed, unless that one continues *)
(* on error (runCallScript), for scripts of any length.                      *)
THEOREM SpecStopsAtFailure == RequestsSpec => []StopsAtFailure
<1>1. RequestsInv => StopsAtFailure
  BY DEF RequestsInv
<1> QED BY <1>1, RequestsSpecInv, PTL

(* With one patient command at a time, no start or restart ever runs a second *)
(* daemon beside one that is alive (startDaemon, ensureDaemon, stopDaemon).  *)
THEOREM SpecOneDaemon == Patient => (RequestsSpec => []OneDaemon)
<1> SUFFICES ASSUME Patient PROVE RequestsSpec => []OneDaemon
  OBVIOUS
<1>1. LifecycleInv => OneDaemon
  BY AloneIsOne DEF LifecycleInv
<1> QED BY <1>1, RequestsLifecycleInv, PTL

(* A daemon that serves is found by its socket and by its PID file, wherever *)
(* daemons crash and whatever they leave behind.                            *)
THEOREM SpecServingIsFound == Patient => (RequestsSpec => []ServingIsFound)
<1> SUFFICES ASSUME Patient PROVE RequestsSpec => []ServingIsFound
  OBVIOUS
<1>1. LifecycleInv => ServingIsFound
  BY DEF LifecycleInv, AloneShape, ServingIsFound
<1> QED BY <1>1, RequestsLifecycleInv, PTL

(* A stop never signals a program that is not a daemon, although PIDs are    *)
(* reused (stopDaemon trusts a PID only while a daemon answers).             *)
THEOREM SpecNoStrangerKilled == Patient => (RequestsSpec => []NoStrangerKilled)
<1> SUFFICES ASSUME Patient PROVE RequestsSpec => []NoStrangerKilled
  OBVIOUS
<1>1. LifecycleInv => NoStrangerKilled
  BY DEF LifecycleInv
<1> QED BY <1>1, RequestsLifecycleInv, PTL

(* The end of a restart that finds a fresh configuration.                   *)
LEMMA RestartEnds ==
    ASSUME LifecycleInv, RequestsInv, FreshInv, [RequestsNext]_allVars,
           NEW c \in Commands, NEW d \in Daemons,
           command[c].kind = "restart", command[c].pc # "idle",
           command'[c].pc = "idle", daemon'[d] = "serving"
    PROVE  read'[d] >= since[c]
<1>1. TypeOK /\ [Next]_vars /\ read \in [Daemons -> 0 .. MaxEdits \cup {Unread}]
  BY RequestsStep DEF LifecycleInv, RequestsInv, RequestsTypeOK
<1>2. command[c].pc = "waiting" /\ UNCHANGED daemon
  BY <1>1, CommandStep DEF FreshInv
<1>3. read[d] # Unread /\ read[d] >= since[c]
  BY <1>2 DEF FreshInv
<1>4. read'[d] = read[d]
  BY <1>1, <1>2, <1>3, HistoryStep DEF Notes, LoadConfig, BootFails, EditConfig, requestVars
<1> QED BY <1>3, <1>4

(* A daemon that serves when a restart is over reads what servers.json said   *)
(* when the restart began, or later (commands.ts:302).                       *)
THEOREM SpecRestartIsFresh == Patient => (RequestsSpec => RestartIsFresh)
<1> SUFFICES ASSUME Patient PROVE RequestsSpec => RestartIsFresh
  OBVIOUS
<1> DEFINE Fresh == \A c \in Commands :
         command[c].kind = "restart" /\ command[c].pc # "idle" /\ command'[c].pc = "idle"
             => \A d \in Daemons : daemon'[d] = "serving" => read'[d] >= since[c]
<1>1. RequestsSpec => RequestsInit /\ [][RequestsNext]_allVars
  BY PTL DEF RequestsSpec
<1>2. RequestsSpec => [](LifecycleInv /\ RequestsInv)
  BY RequestsLifecycleInv, RequestsSpecInv, PTL
<1>3. RequestsSpec => []FreshInv
  BY <1>1, <1>2, InitFresh, NextFresh, PTL
<1>4. LifecycleInv /\ RequestsInv /\ FreshInv /\ [RequestsNext]_allVars => [Fresh]_allVars
  BY RestartEnds
<1> QED BY <1>1, <1>2, <1>3, <1>4, PTL DEF RestartIsFresh

=============================================================================
