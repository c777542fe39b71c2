-------------------------- MODULE DaemonLifecycle --------------------------
(***************************************************************************)
(* Starting and stopping the background daemon: mcp-cli (src/cli/index.ts) *)
(* and the daemon process (src/cli/daemon.ts), which meet only through     *)
(* three files and a signal: the PID file, the ready marker, the socket.   *)
(*                                                                         *)
(* Commands and daemons are processes: they interleave at every file       *)
(* access.  A daemon may be killed at any moment, and the number of a dead *)
(* process may be given to a stranger.                                     *)
(*                                                                         *)
(* Abstracted: time.  A command may stop waiting early only where Hasty    *)
(* says so; consecutive accesses of one process to files no other process  *)
(* reads in between are one step.                                          *)
(***************************************************************************)
EXTENDS Naturals, FiniteSets

CONSTANTS
    Daemons,   \* the PIDs daemon processes run under
    Commands,  \* mcp-cli processes running at once
    Hasty,     \* whether a command may stop waiting for a daemon that is still
               \* starting (15 s, or Ctrl-C) or still stopping (10 s), or for
               \* the answer of one that serves slowly (3 s)
    NoDaemon,  \* no PID file, no socket
    Corrupt    \* a PID file that holds no PID

ASSUME NullAssumption ==
    /\ NoDaemon \notin Daemons /\ Corrupt \notin Daemons /\ NoDaemon # Corrupt
    /\ Hasty \in BOOLEAN

VARIABLES
    pidFile,   \* daemon.pid
    socket,    \* the daemon whose listening socket daemon.sock names
    ready,     \* whether daemon.ready exists
    daemon,    \* the phase of each daemon process
    command,   \* the mcp-cli processes
    strangers  \* [held: the PIDs held by other programs,
               \*  killed: whether a command signalled one]

vars == <<pidFile, socket, ready, daemon, command, strangers>>

Phases == {"dead", "spawned", "starting", "binding", "serving", "stopping"}

Kinds == {"start", "use", "stop", "restart"}

CommandRecords ==
    [kind: Kinds,
     pc:   {"idle", "pinging", "launching", "waiting",
            "reading", "checking", "killing", "exiting"},
     pid:  Daemons \cup {NoDaemon}]   \* the daemon it spawned or stops

NoCommand == [kind |-> "use", pc |-> "idle", pid |-> NoDaemon]

TypeOK ==
    /\ pidFile \in Daemons \cup {NoDaemon, Corrupt}
    /\ socket \in Daemons \cup {NoDaemon}
    /\ ready \in BOOLEAN
    /\ daemon \in [Daemons -> Phases]
    /\ command \in [Commands -> CommandRecords]
    /\ strangers \in [held: SUBSET Daemons, killed: BOOLEAN]

Init ==
    /\ pidFile = NoDaemon
    /\ socket = NoDaemon
    /\ ready = FALSE
    /\ daemon = [d \in Daemons |-> "dead"]
    /\ command = [c \in Commands |-> NoCommand]
    /\ strangers = [held |-> {}, killed |-> FALSE]

Alive(d) == daemon[d] # "dead"

\* Something answers a request on the socket.
Answers == socket \in Daemons /\ daemon[socket] = "serving"

\* What isDaemonRunning may return: its ping gives up after 3 s.
Pinged == IF Hasty THEN {Answers, FALSE} ELSE {Answers}

-----------------------------------------------------------------------------
(* The daemon process (startDaemon of daemon.ts).                          *)

WritePid(d) ==
    /\ daemon[d] = "spawned"
    /\ pidFile' = d
    /\ daemon' = [daemon EXCEPT ![d] = "starting"]
    /\ UNCHANGED <<socket, ready, command, strangers>>

\* The backends are initialised; whatever holds the socket's path is removed.
UnlinkSocket(d) ==
    /\ daemon[d] = "starting"
    /\ socket' = NoDaemon
    /\ daemon' = [daemon EXCEPT ![d] = "binding"]
    /\ UNCHANGED <<pidFile, ready, command, strangers>>

\* server.listen succeeds: the daemon serves and says so.
Listen(d) ==
    /\ daemon[d] = "binding"
    /\ socket = NoDaemon
    /\ socket' = d
    /\ ready' = TRUE
    /\ daemon' = [daemon EXCEPT ![d] = "serving"]
    /\ UNCHANGED <<pidFile, command, strangers>>

\* listen fails: the path is taken again (EADDRINUSE), too long or not allowed.
\* The PID file goes, whoever wrote it, and the process exits.
ListenFails(d) ==
    /\ daemon[d] = "binding"
    /\ pidFile' = NoDaemon
    /\ daemon' = [daemon EXCEPT ![d] = "dead"]
    /\ UNCHANGED <<socket, ready, command, strangers>>

\* shutdown, after disconnectAll: the files go, whoever wrote them.
ExitCleanly(d) ==
    /\ daemon[d] = "stopping"
    /\ daemon' = [daemon EXCEPT ![d] = "dead"]
    /\ pidFile' = NoDaemon
    /\ socket' = NoDaemon
    /\ ready' = FALSE
    /\ UNCHANGED <<command, strangers>>

\* The process is killed outright, perhaps while it writes its PID file.
Crash(d) ==
    /\ Alive(d)
    /\ daemon' = [daemon EXCEPT ![d] = "dead"]
    /\ pidFile' \in {pidFile} \cup (IF daemon[d] = "spawned" THEN {Corrupt} ELSE {})
    /\ UNCHANGED <<socket, ready, command, strangers>>

\* Another program gets a PID a daemon may have had; not within the instant
\* between stopDaemon's ping and its kill.
RecyclePid(d) ==
    /\ daemon[d] = "dead"
    /\ d \notin strangers.held
    /\ \A c \in Commands : command[c].pc = "killing" => command[c].pid # d
    /\ strangers' = [strangers EXCEPT !.held = @ \cup {d}]
    /\ UNCHANGED <<pidFile, socket, ready, daemon, command>>

StrangerExits(d) ==
    /\ d \in strangers.held
    /\ strangers' = [strangers EXCEPT !.held = @ \ {d}]
    /\ UNCHANGED <<pidFile, socket, ready, daemon, command>>

-----------------------------------------------------------------------------
(* The commands.                                                           *)

\* Mutant of Begin: a restart is content with a daemon that answers.
BeginEasy(c, kind) ==
    /\ command[c].pc = "idle"
    /\ command' = [command EXCEPT ![c] =
          [kind |-> kind, pc |-> IF kind = "stop" THEN "reading" ELSE "pinging",
           pid  |-> NoDaemon]]
    /\ UNCHANGED <<pidFile, socket, ready, daemon, strangers>>

\* daemon start, daemon stop, daemon restart, or a command that ensures there
\* is a daemon.
Begin(c, kind) ==
    /\ command[c].pc = "idle"
    /\ command' = [command EXCEPT ![c] =
          [kind |-> kind,
           pc   |-> IF kind \in {"start", "use"} THEN "pinging" ELSE "reading",
           pid  |-> NoDaemon]]
    /\ UNCHANGED <<pidFile, socket, ready, daemon, strangers>>

Goto(c, pc) == command' = [command EXCEPT ![c].pc = pc]

\* ensureDaemon and `daemon start`: nothing to do when a daemon answers.
Ping(c) ==
    /\ command[c].pc = "pinging"
    /\ \E answered \in Pinged :
          IF answered THEN command' = [command EXCEPT ![c] = NoCommand]
          ELSE Goto(c, "launching")
    /\ UNCHANGED <<pidFile, socket, ready, daemon, strangers>>

\* Mutant of Spawn: a leftover ready marker stays.
SpawnKeepReady(c) ==
    /\ command[c].pc = "launching"
    /\ \E d \in Daemons :
          /\ ~Alive(d)
          /\ d \notin strangers.held
          /\ daemon' = [daemon EXCEPT ![d] = "spawned"]
          /\ command' = [command EXCEPT ![c].pc = "waiting", ![c].pid = d]
    /\ UNCHANGED <<pidFile, socket, ready, strangers>>

\* startDaemon up to its wait: a leftover ready marker goes, a daemon is spawned.
Spawn(c) ==
    /\ command[c].pc = "launching"
    /\ \E d \in Daemons :
          /\ ~Alive(d)
          /\ d \notin strangers.held
          /\ daemon' = [daemon EXCEPT ![d] = "spawned"]
          /\ command' = [command EXCEPT ![c].pc = "waiting", ![c].pid = d]
    /\ ready' = FALSE
    /\ UNCHANGED <<pidFile, socket, strangers>>

\* The ready marker is there.
FindReady(c) ==
    /\ command[c].pc = "waiting"
    /\ ready
    /\ command' = [command EXCEPT ![c] = NoCommand]
    /\ UNCHANGED <<pidFile, socket, ready, daemon, strangers>>

\* Mutant of GiveUpWaiting: the wait has no deadline.
WaitForever(c) == command[c].pc = "waiting" /\ Hasty /\ UNCHANGED vars

\* It is not, for 15 s: the command pings once more and succeeds or fails.
GiveUpWaiting(c) ==
    /\ command[c].pc = "waiting"
    /\ ~ready
    /\ Hasty \/ daemon[command[c].pid] \notin {"spawned", "starting", "binding"}
    /\ command' = [command EXCEPT ![c] = NoCommand]
    /\ UNCHANGED <<pidFile, socket, ready, daemon, strangers>>

\* stopDaemon is over, with or without success: restart goes on to start.
Stopped(c) ==
    IF command[c].kind = "restart"
    THEN command' = [command EXCEPT ![c].pc = "launching", ![c].pid = NoDaemon]
    ELSE command' = [command EXCEPT ![c] = NoCommand]

CleanupDaemonFiles ==
    /\ pidFile' = NoDaemon
    /\ socket' = NoDaemon
    /\ ready' = FALSE

\* Mutant of ReadPid: what the file holds is taken for a PID.
ReadPidUnchecked(c) ==
    /\ command[c].pc = "reading"
    /\ pidFile # NoDaemon
    /\ command' = [command EXCEPT ![c].pc = "checking", ![c].pid = pidFile]
    /\ UNCHANGED <<pidFile, socket, ready, daemon, strangers>>

\* stopDaemon reads the PID file: none, corrupt, or a PID to check.
ReadPid(c) ==
    /\ command[c].pc = "reading"
    /\ \/ /\ pidFile = NoDaemon
          /\ Stopped(c)
          /\ UNCHANGED <<pidFile, socket, ready>>
       \/ /\ pidFile = Corrupt
          /\ Stopped(c)
          /\ CleanupDaemonFiles
       \/ /\ pidFile \in Daemons
          /\ command' = [command EXCEPT ![c].pc = "checking", ![c].pid = pidFile]
          /\ UNCHANGED <<pidFile, socket, ready>>
    /\ UNCHANGED <<daemon, strangers>>

\* Mutant of CheckAnswers: a PID is trusted as it is.
CheckNothing(c) ==
    /\ command[c].pc = "checking"
    /\ Goto(c, "killing")
    /\ UNCHANGED <<pidFile, socket, ready, daemon, strangers>>

\* A PID is trusted only when a daemon also answers on the socket.
CheckAnswers(c) ==
    /\ command[c].pc = "checking"
    /\ \E answered \in Pinged :
          IF answered
          THEN Goto(c, "killing") /\ UNCHANGED <<pidFile, socket, ready>>
          ELSE Stopped(c) /\ CleanupDaemonFiles
    /\ UNCHANGED <<daemon, strangers>>

\* SIGTERM reaches a daemon that serves: it closes its server, which unlinks
\* the socket's path, and disconnects its backends.  One that is still starting
\* has no handler and dies; one that is stopping already goes on.
Terminate(d) ==
    /\ daemon' = [daemon EXCEPT ![d] = IF @ \in {"serving", "stopping"}
                                       THEN "stopping" ELSE "dead"]
    /\ socket' = IF daemon[d] = "serving" THEN NoDaemon ELSE socket

Kill(c) ==
    LET d == command[c].pid IN
    /\ command[c].pc = "killing"
    /\ \/ /\ Alive(d)
          /\ Terminate(d)
          /\ Goto(c, "exiting")
          /\ UNCHANGED <<pidFile, ready, strangers>>
       \/ /\ daemon[d] = "dead"
          /\ d \in strangers.held
          /\ strangers' = [strangers EXCEPT !.killed = TRUE]
          /\ Goto(c, "exiting")
          /\ UNCHANGED <<pidFile, socket, ready, daemon>>
       \/ /\ daemon[d] = "dead"
          /\ d \notin strangers.held
          /\ Stopped(c)
          /\ CleanupDaemonFiles
          /\ UNCHANGED <<daemon, strangers>>

\* Mutant of SeeExit: success is reported as soon as the signal is sent.
SeeExitAtOnce(c) ==
    /\ command[c].pc = "exiting"
    /\ Stopped(c)
    /\ UNCHANGED <<pidFile, socket, ready, daemon, strangers>>

\* The process is gone: what it may have left behind goes as well.
SeeExit(c) ==
    LET d == command[c].pid IN
    /\ command[c].pc = "exiting"
    /\ daemon[d] = "dead"
    /\ d \notin strangers.held
    /\ Stopped(c)
    /\ CleanupDaemonFiles
    /\ UNCHANGED <<daemon, strangers>>

\* The process is still there after 10 s.
GiveUpStopping(c) ==
    LET d == command[c].pid IN
    /\ command[c].pc = "exiting"
    /\ IF daemon[d] = "dead" THEN d \in strangers.held ELSE Hasty
    /\ Stopped(c)
    /\ UNCHANGED <<pidFile, socket, ready, daemon, strangers>>

-----------------------------------------------------------------------------
Next ==
    \/ \E d \in Daemons :
          \/ WritePid(d)
          \/ UnlinkSocket(d)
          \/ Listen(d)
          \/ ListenFails(d)
          \/ ExitCleanly(d)
          \/ Crash(d)
          \/ RecyclePid(d)
          \/ StrangerExits(d)
    \/ \E c \in Commands :
          \/ \E kind \in Kinds : Begin(c, kind)
          \/ Ping(c)
          \/ Spawn(c)
          \/ FindReady(c)
          \/ GiveUpWaiting(c)
          \/ ReadPid(c)
          \/ CheckAnswers(c)
          \/ Kill(c)
          \/ SeeExit(c)
          \/ GiveUpStopping(c)

Spec == Init /\ [][Next]_vars

-----------------------------------------------------------------------------
(* Properties.                                                             *)

\* One daemon at a time: a start or restart never runs a second one beside a
\* daemon that is alive.
OneDaemon == Cardinality({d \in Daemons : Alive(d)}) <= 1

\* A daemon that serves is found: by its socket and, by a stop, by its PID.
\* (cli/index.ts:167: a start must not "race the old daemon, which still owns
\* the socket".)
ServingIsFound ==
    \A d \in Daemons : daemon[d] = "serving" => socket = d /\ pidFile = d

\* A stop never signals a program that is not a daemon.  (cli/index.ts:149.)
NoStrangerKilled == ~strangers.killed

\* A command ends, whatever happens to the daemon it waits for.
CommandsEnd ==
    \A c \in Commands : command[c].pc = "waiting" \/ command[c].pc = "exiting"
                            ~> command[c].pc \notin {"waiting", "exiting"}

-----------------------------------------------------------------------------
(* The inductive invariant of one patient command at a time.               *)

Patient == ~Hasty /\ \A b, c \in Commands : b = c

\* The daemon that is alive is alone; the PID file and the socket are its own,
\* from the moment it has them until its server closes.
AloneShape ==
    /\ \A d, e \in Daemons : Alive(d) /\ Alive(e) => d = e
    /\ \A d \in Daemons :
          /\ Alive(d) => d \notin strangers.held
          /\ daemon[d] \in {"starting", "binding", "serving"} => pidFile = d
          /\ daemon[d] = "serving" => socket = d

\* A daemon that comes up or goes down has the command that waits for it.
AwaitedShape ==
    \A d \in Daemons :
        /\ daemon[d] \in {"spawned", "starting", "binding"} =>
              /\ ~ready
              /\ \E c \in Commands : command[c].pc = "waiting" /\ command[c].pid = d
        /\ daemon[d] = "stopping" =>
              \E c \in Commands : command[c].pc = "exiting" /\ command[c].pid = d

\* A command launches where no daemon is, and stops the one that is.
StopShape ==
    \A c \in Commands :
        /\ command[c].pc \in {"checking", "killing", "exiting", "waiting"} =>
              command[c].pid \in Daemons
        /\ command[c].pc = "launching" => \A d \in Daemons : ~Alive(d)
        /\ command[c].pc \in {"checking", "killing", "exiting"} =>
              \A d \in Daemons : Alive(d) => d = command[c].pid
        /\ command[c].pc = "killing" => command[c].pid \notin strangers.held

LifecycleInv ==
    /\ TypeOK
    /\ AloneShape
    /\ AwaitedShape
    /\ StopShape
    /\ NoStrangerKilled

=============================================================================
