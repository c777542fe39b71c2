----------------------------- MODULE ToolCalls -----------------------------
(***************************************************************************)
(* Tool calls over the connection manager (src/mcp/tool-call-executor.ts,  *)
(* composed with src/mcp/client-manager.ts).                               *)
(*                                                                         *)
(* A tool call is one withClient operation, or two: a call whose result or *)
(* error matches an authentication pattern invalidates the connection it   *)
(* ran on, and is made once more if its tool was declared safe to replay.  *)
(* Meanwhile the manager drains, loses, reloads and dials connections, and *)
(* other calls share them.                                                 *)
(*                                                                         *)
(* Abstracted: what a result says beyond success, error and authentication *)
(* failure; which tools the patterns of authRetryTools match.              *)
(***************************************************************************)
EXTENDS ClientManager

VARIABLES
    op,     \* the tool call each caller makes
    stale   \* history: the connections on which a call failed to authenticate

callVars == <<vars, op, stale>>

\* `ran` counts how often the backend was given the tool to run.
OpRecords ==
    [attempt: 0 .. 2,                 \* 0: no tool call
     server:  Servers \cup {NoServer},
     safe:    BOOLEAN,                \* retrySafe, read before the first attempt
     failed:  BOOLEAN,                \* authFailure of the attempt under way
     ran:     Nat]

NoOp ==
    [attempt |-> 0, server |-> NoServer, safe |-> FALSE, failed |-> FALSE,
     ran |-> 0]

CallsTypeOK ==
    /\ TypeOK
    /\ op \in [Callers -> OpRecords]
    /\ stale \subseteq Conns

CallsInit ==
    /\ Init
    /\ op = [c \in Callers |-> NoOp]
    /\ stale = {}

-----------------------------------------------------------------------------
(* attemptToolCall: one withClient operation.                              *)

\* Attempts whose lease this step takes: callTool is sent at once.
Sent(c) == caller[c].pc # "working" /\ caller'[c].pc = "working"

Counted(o, sent) == IF sent THEN [o EXCEPT !.ran = @ + 1] ELSE o

\* The other operations' progress; a connection that is gone is forgotten.
OpsFollow(cs) ==
    /\ op' = [c \in Callers |-> IF c \in cs THEN Counted(op[c], Sent(c)) ELSE op[c]]
    /\ stale' = {k \in stale : conn'[k].slot # NoSlot}

\* An attempt is over when its operation has released its connection, or
\* never got one.
Over(c) == op[c].attempt > 0 /\ caller[c].pc = "idle"

Attempt(c, n, o) ==
    /\ WithClient(c, n)
    /\ op' = [op EXCEPT ![c] = Counted(o, Sent(c))]
    /\ stale' = {k \in stale : conn'[k].slot # NoSlot}

\* A tool is called: the policy is read once, before the first attempt.
CallTool(c) ==
    /\ op[c] = NoOp
    /\ \E n \in Servers, safe \in BOOLEAN :
          Attempt(c, n, [NoOp EXCEPT !.attempt = 1, !.server = n, !.safe = safe])

\* Mutant of AttemptEnds: the connection that failed stays in use.
AttemptEndsValid(c, failed) ==
    LET k == caller[c].conn IN
    /\ FinishCall(c, FALSE)
    /\ op' = [op EXCEPT ![c].failed = failed]
    /\ stale' = {j \in stale \cup (IF failed THEN {k} ELSE {}) :
                    conn'[j].slot # NoSlot}

\* The backend answers, or the call fails; either may be an authentication
\* failure, which invalidates exactly the connection the call ran on.
AttemptEnds(c, failed) ==
    LET k == caller[c].conn IN
    /\ FinishCall(c, failed)
    /\ op' = [op EXCEPT ![c].failed = failed]
    /\ stale' = {j \in stale \cup (IF failed THEN {k} ELSE {}) :
                    conn'[j].slot # NoSlot}

\* acquireConnection goes on: the shared dial has settled.
AttemptWakes(c) ==
    /\ WakeWithLease(c) \/ WakeReacquire(c)
    /\ OpsFollow({c})

-----------------------------------------------------------------------------
(* callToolWithAuthRecovery.                                               *)

\* Mutant of Replays: any tool is replayed.
ReplaysAny(o) == o.attempt = 1 /\ o.failed

\* The first attempt failed to authenticate and the policy allows one more.
Replays(o) == o.attempt = 1 /\ o.failed /\ o.safe

\* The only replay: a new operation, on whatever connection it acquires.
Replay(c) ==
    /\ Over(c)
    /\ Replays(op[c])
    /\ Attempt(c, op[c].server, [op[c] EXCEPT !.attempt = 2, !.failed = FALSE])

\* The tool call returns or throws what its last attempt came to; a replay
\* that can get no connection fails at once.
CallEnds(c) ==
    LET n == op[c].server IN
    /\ Over(c)
    /\ \/ ~Replays(op[c])
       \/ registry[n] = NoSlot
       \/ /\ registry[n] # NoSlot
          /\ shuttingDown
          /\ slot[registry[n]].current = NoConn
    /\ op' = [op EXCEPT ![c] = NoOp]
    /\ UNCHANGED <<vars, stale>>

-----------------------------------------------------------------------------
CallsNext ==
    \/ ManagerStep /\ OpsFollow({})
    \/ \E c \in Callers :
          \/ CallTool(c)
          \/ AttemptWakes(c)
          \/ \E failed \in BOOLEAN : AttemptEnds(c, failed)
          \/ Replay(c)
          \/ CallEnds(c)

CallsSpec == CallsInit /\ [][CallsNext]_callVars

-----------------------------------------------------------------------------
(* Properties.                                                             *)

\* "Authentication failures always replace the backend generation that
\* produced them" (README.md:295): a connection on which a call failed to
\* authenticate is out of service, so no later call, of this client or of
\* another, and no replay runs on it, whatever dials, drops and recycling the
\* failure overlapped with.
FailedIsReplaced ==
    \A k \in stale : conn[k].state \in {"draining", "closed"}

\* A tool is given to a backend at most once per call, and at most twice if it
\* was declared safe to replay: neither a connection that is lost while the
\* call waits for it, nor a failed replay, runs it again.
RunsAtMost ==
    \A c \in Callers : op[c].ran <= IF op[c].safe THEN 2 ELSE 1

-----------------------------------------------------------------------------
(* The inductive invariant.                                                *)

\* A withClient operation is an attempt of a tool call; the second is made only
\* by a tool that may be replayed; an attempt that still waits for a connection
\* has not been sent.
OpShape ==
    \A c \in Callers :
        /\ caller[c].pc # "idle" => op[c].attempt > 0
        /\ op[c].attempt > 0 => op[c].server \in Servers
        /\ op[c].attempt = 2 => op[c].safe
        /\ op[c].ran <= op[c].attempt
        /\ caller[c].pc = "waiting" => op[c].ran < op[c].attempt

\* What is remembered of a failed connection is not of the next of its id.
StaleShape ==
    \A k \in stale : conn[k].slot # NoSlot

CallsInv ==
    /\ Inv
    /\ LeasesCounted
    /\ CallsTypeOK
    /\ OpShape
    /\ StaleShape
    /\ FailedIsReplaced

=============================================================================
