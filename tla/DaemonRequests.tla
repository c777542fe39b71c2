--------------------------- MODULE DaemonRequests ---------------------------
(***************************************************************************)
(* What goes through the daemon while DaemonLifecycle starts, stops and    *)
(* kills it: the requests mcp-cli sends (src/cli/ipc-client.ts), the       *)
(* scripts of tool calls the daemon runs for them (handleRequest of        *)
(* src/cli/daemon.ts, src/mcp/call-script.ts), and the configuration a     *)
(* daemon reads once, when it starts.                                      *)
(*                                                                         *)
(* A single call is a script of one step.  A request that times out in     *)
(* the client runs on in the daemon.                                       *)
(*                                                                         *)
(* Abstracted: arguments and outputs; how a call reaches a backend         *)
(* (ToolCalls has it); the other methods, which change nothing.  The       *)
(* outcome of a step is a choice.                                          *)
(***************************************************************************)
EXTENDS DaemonLifecycle, Sequences

CONSTANTS
    Requests,  \* the requests that are ever sent
    Steps,     \* the steps of a script
    Continue,  \* those that may have continueOnError
    MaxEdits,  \* bound on the edits of servers.json
    Unread     \* a daemon that has not read the configuration

ASSUME ScriptAssumption ==
    /\ Steps \in Nat \ {0} /\ Continue \subseteq 1 .. Steps
    /\ MaxEdits \in Nat /\ Unread \notin Nat

VARIABLES
    config,    \* servers.json: how often it was edited, whether it is valid
    read,      \* the edit each daemon started with
    since,     \* history: the edit at which a restart began
    request,   \* the clients' requests
    job        \* what the daemon does for them

requestVars == <<config, read, since, request, job>>

allVars == <<vars, requestVars>>

Settled == {"replied", "failed", "timedOut"}

\* What became of a step: its tool returned a result, or one that says isError;
\* a reference did not resolve, or the call or the storing of its output threw.
Outcomes == {"ok", "isError", "threw"}

NoRequest == [at |-> "unsent", on |-> NoDaemon]

NoJob == [at |-> "none", log |-> <<>>]

RequestsTypeOK ==
    /\ TypeOK
    /\ config \in [edits: 0 .. MaxEdits, valid: BOOLEAN]
    /\ read \in [Daemons -> 0 .. MaxEdits \cup {Unread}]
    /\ since \in [Commands -> 0 .. MaxEdits]
    /\ request \in [Requests -> [at: Settled \cup {"unsent", "connecting", "sent"},
                                 on: Daemons \cup {NoDaemon}]]
    /\ job \in [Requests -> [at: {"none", "running", "done"}, log: Seq(Outcomes)]]
    /\ \A q \in Requests : Len(job[q].log) <= Steps

RequestsInit ==
    /\ Init
    /\ config = [edits |-> 0, valid |-> TRUE]
    /\ read = [d \in Daemons |-> Unread]
    /\ since = [c \in Commands |-> 0]
    /\ request = [q \in Requests |-> NoRequest]
    /\ job = [q \in Requests |-> NoJob]

-----------------------------------------------------------------------------
(* A step of DaemonLifecycle and what it means for the requests.           *)

\* ensureDaemon is content: a daemon answered, or its ready marker appeared.
Ensured(c) ==
    /\ command[c].kind = "use" /\ command'[c].pc = "idle"
    /\ \/ command[c].pc = "pinging"
       \/ command[c].pc = "waiting" /\ (ready \/ Answers)

\* The command goes on to send its request, one of these or another.
Sends ==
    \/ UNCHANGED request
    \/ /\ \E c \in Commands : Ensured(c)
       /\ \E q \in Requests :
             /\ request[q].at = "unsent"
             /\ request' = [request EXCEPT ![q].at = "connecting"]

\* A daemon that dies takes its jobs with it.
JobsDie ==
    job' = [q \in Requests |->
        IF job[q] # NoJob /\ daemon'[request[q].on] = "dead"
        THEN NoJob ELSE job[q]]

\* A process starts without a configuration; a restart notes what it began with.
Notes ==
    /\ read' = [d \in Daemons |-> IF daemon'[d] = "dead" THEN Unread ELSE read[d]]
    /\ since' = [c \in Commands |->
          IF command'[c].kind # "restart" THEN 0
          ELSE IF command[c].pc = "idle" THEN config.edits ELSE since[c]]

Around(A) == A /\ Sends /\ JobsDie /\ Notes /\ UNCHANGED config

-----------------------------------------------------------------------------
(* The daemon's configuration.                                             *)

\* loadJSONServers in startDaemon: read once, before the backends are
\* initialised.  The exclude patterns and cli settings stay what they are.
LoadConfig(d) ==
    /\ daemon[d] = "starting" /\ read[d] = Unread
    /\ config.valid
    /\ read' = [read EXCEPT ![d] = config.edits]
    /\ UNCHANGED <<vars, config, since, request, job>>

\* It threw: the process exits and leaves its PID file.
BootFails(d) ==
    /\ daemon[d] = "starting" /\ read[d] = Unread
    /\ ~config.valid
    /\ daemon' = [daemon EXCEPT ![d] = "dead"]
    /\ UNCHANGED <<pidFile, socket, ready, command, strangers, requestVars>>

\* Somebody edits servers.json, well or badly.
EditConfig ==
    /\ config.edits < MaxEdits
    /\ \E valid \in BOOLEAN : config' = [edits |-> config.edits + 1, valid |-> valid]
    /\ UNCHANGED <<vars, read, since, request, job>>

-----------------------------------------------------------------------------
(* sendRequest.                                                            *)

\* The connection is made when a daemon listens, and the request arrives: a
\* script that breaks the rules (too long, an id twice) is answered without
\* running.  Else the connection is refused.
Connect(q) ==
    /\ request[q].at = "connecting"
    /\ IF Answers
       THEN /\ request' = [request EXCEPT ![q] = [at |-> "sent", on |-> socket]]
            /\ \E at \in {"running", "done"} : job' = [job EXCEPT ![q].at = at]
       ELSE /\ request' = [request EXCEPT ![q].at = "failed"]
            /\ UNCHANGED job
    /\ UNCHANGED <<vars, config, read, since>>

\* Mutant of TimesOut: a request that was delivered has no timer.
TimesOutUnsent(q) ==
    /\ request[q].at = "connecting"
    /\ request' = [request EXCEPT ![q].at = "timedOut"]
    /\ UNCHANGED <<vars, config, read, since, job>>

\* 30 s without an answer.
TimesOut(q) ==
    /\ request[q].at \in {"connecting", "sent"}
    /\ request' = [request EXCEPT ![q].at = "timedOut"]
    /\ UNCHANGED <<vars, config, read, since, job>>

\* The daemon is gone: the connection closes before the answer.
SeesClose(q) ==
    /\ request[q].at = "sent" /\ job[q] = NoJob
    /\ request' = [request EXCEPT ![q].at = "failed"]
    /\ UNCHANGED <<vars, config, read, since, job>>

\* The daemon's answer; a client that has gone does not get it.
Reply(q) ==
    /\ request[q].at = "sent" /\ job[q].at = "done"
    /\ request' = [request EXCEPT ![q].at = "replied"]
    /\ job' = [job EXCEPT ![q] = NoJob]
    /\ UNCHANGED <<vars, config, read, since>>

-----------------------------------------------------------------------------
(* handleRequest and runCallScript.                                        *)

\* Mutant of Stops: a result that says isError does not stop the script.
StopsThrown(outcome, i) == outcome = "threw" /\ i \notin Continue

\* A failure stops the script unless its step continues on error.
Stops(outcome, i) == outcome # "ok" /\ i \notin Continue

RunStep(q) ==
    LET i == Len(job[q].log) + 1 IN
    /\ job[q].at = "running"
    /\ \E outcome \in Outcomes :
          job' = [job EXCEPT
             ![q].at = IF Stops(outcome, i) \/ i = Steps THEN "done" ELSE @,
             ![q].log = Append(@, outcome)]
    /\ UNCHANGED <<vars, config, read, since, request>>

-----------------------------------------------------------------------------
\* A daemon binds its socket only after it has read its configuration.
DaemonRuns(d) ==
    \/ Around(WritePid(d) \/ Listen(d) \/ ListenFails(d) \/ ExitCleanly(d))
    \/ read[d] # Unread /\ Around(UnlinkSocket(d))
    \/ LoadConfig(d)
    \/ BootFails(d)

CommandRuns(c) ==
    Around(Ping(c) \/ Spawn(c) \/ FindReady(c) \/ GiveUpWaiting(c) \/ ReadPid(c)
           \/ CheckAnswers(c) \/ Kill(c) \/ SeeExit(c) \/ GiveUpStopping(c))

RequestsNext ==
    \/ \E d \in Daemons :
          \/ DaemonRuns(d)
          \/ Around(Crash(d) \/ RecyclePid(d) \/ StrangerExits(d))
    \/ \E c \in Commands :
          \/ \E kind \in Kinds : Around(Begin(c, kind))
          \/ CommandRuns(c)
    \/ EditConfig
    \/ \E q \in Requests :
          \/ Connect(q)
          \/ TimesOut(q)
          \/ SeesClose(q)
          \/ Reply(q)
          \/ RunStep(q)

\* As in DaemonLifecycle; the client's timer fires.  A tool need never return.
RequestsSpec ==
    /\ RequestsInit /\ [][RequestsNext]_allVars
    /\ \A d \in Daemons : WF_allVars(DaemonRuns(d))
    /\ \A c \in Commands : WF_allVars(CommandRuns(c))
    /\ \A q \in Requests : WF_allVars(Connect(q)) /\ WF_allVars(TimesOut(q))

-----------------------------------------------------------------------------
(* Properties.                                                             *)

\* A request the client sends comes to an end, whether its tool hangs, the
\* daemon crashes or is stopped, or nobody listens (sendRequest).
RequestsSettle ==
    \A q \in Requests :
        request[q].at \in {"connecting", "sent"} ~> request[q].at \in Settled

\* "Restart it to pick them up" (commands.ts:302): a daemon that serves when a
\* restart is over reads what servers.json said when the restart began, or later.
RestartIsFresh ==
    [][\A c \in Commands :
         command[c].kind = "restart" /\ command[c].pc # "idle" /\ command'[c].pc = "idle"
             => \A d \in Daemons : daemon'[d] = "serving" => read'[d] >= since[c]]_allVars

\* No step of a script runs after one that failed, however it failed, unless
\* that one continues on error (runCallScript).
StopsAtFailure ==
    \A q \in Requests : \A i \in 1 .. Len(job[q].log) - 1 :
        job[q].log[i] = "ok" \/ i \in Continue

-----------------------------------------------------------------------------
(* The inductive invariants.                                               *)

\* A request that has not arrived has no job; a script that runs has a step
\* left, and every step so far lets it go on.
JobShape ==
    \A q \in Requests :
        /\ request[q].at \in {"unsent", "connecting"} => job[q] = NoJob
        /\ job[q].at = "running" =>
              /\ Len(job[q].log) < Steps
              /\ \A i \in 1 .. Len(job[q].log) : job[q].log[i] = "ok" \/ i \in Continue

RequestsInv ==
    /\ RequestsTypeOK
    /\ JobShape
    /\ StopsAtFailure

\* A daemon has read the configuration before it binds; the one a restart
\* waits for reads no older one than the restart began with.
FreshInv ==
    /\ \A d \in Daemons :
          /\ daemon[d] = "dead" => read[d] = Unread
          /\ daemon[d] \in {"binding", "serving"} => read[d] # Unread
    /\ \A c \in Commands :
          /\ since[c] <= config.edits
          /\ command[c].pc \in {"idle", "pinging"} => command[c].kind # "restart"
          /\ command[c].kind = "restart" /\ command[c].pc = "waiting" =>
                \A d \in Daemons : read[d] # Unread => read[d] >= since[c]

=============================================================================
