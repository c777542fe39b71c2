--------------------------- MODULE ToolCallsProofs ---------------------------
(***************************************************************************)
(* Tool calls over the connection manager, for any number of servers,      *)
(* callers, connections and overlapping reloads.  A step of a tool call is *)
(* a step of the manager, so what is proved of the manager holds here; on  *)
(* top of it, a connection on which a call failed to authenticate serves   *)
(* nobody again, and a tool runs as often as its policy allows.            *)
(***************************************************************************)
EXTENDS ToolCalls, ClientManagerLeases

USE DEF Inv, Safety

-----------------------------------------------------------------------------
(* The steps of the manager under the tool calls.                          *)

\* Every step of a tool call is one of the manager, or leaves it alone.
LEMMA CallsStep == OpShape /\ [CallsNext]_callVars => [Next]_vars
<1> SUFFICES ASSUME OpShape, [CallsNext]_callVars PROVE [Next]_vars
  OBVIOUS
<1>1. CASE ManagerStep /\ OpsFollow({})
  BY <1>1 DEF Next
<1>2. ASSUME NEW c \in Callers,
             CallTool(c) \/ AttemptWakes(c) \/ Replay(c)
             \/ (\E failed \in BOOLEAN : AttemptEnds(c, failed))
      PROVE  Next
  <2>1. CASE CallTool(c)
    BY <2>1 DEF CallTool, Attempt, StartCall, Next
  <2>2. CASE AttemptWakes(c)
    BY <2>2 DEF AttemptWakes, Next
  <2>3. CASE Replay(c)
    BY <2>3 DEF Replay, Over, Attempt, StartCall, Next, OpShape
  <2>4. CASE \E failed \in BOOLEAN : AttemptEnds(c, failed)
    BY <2>4 DEF AttemptEnds, Next
  <2> QED BY <1>2, <2>1, <2>2, <2>3, <2>4
<1>3. ASSUME NEW c \in Callers, CallEnds(c) PROVE UNCHANGED vars
  BY <1>3 DEF CallEnds
<1> QED BY <1>1, <1>2, <1>3 DEF CallsNext, callVars, vars

-----------------------------------------------------------------------------
(* A connection that left service stays out of it until its id is free.    *)

Out(k) == conn[k].state \in {"draining", "closed"}

\* Such a connection is not free for a new dial.
LEMMA NamedNotFresh ==
    ASSUME NEW k, conn[k].slot # NoSlot
    PROVE  k \notin FreshConns
BY DEF FreshConns, NullConn

\* What a handler makes of one connection that is out of service.
LEMMA OutKept ==
    ASSUME NEW rec \in ConnRecords, rec.state \in {"draining", "closed"}
    PROVE  /\ BeginDrain(rec).state \in {"draining", "closed"}
           /\ Release(rec).state \in {"draining", "closed"}
           /\ Closing(rec).state \in {"draining", "closed"}
           /\ Lease(rec).state \in {"draining", "closed"}
           /\ [NullConn EXCEPT !.calls = rec.calls].state = "closed"
BY BeginDrainFacts, ReleaseFacts, ClosingFacts DEF Lease, NullConn, ConnRecords

\* acquireConnection dials only on a free id and otherwise adopts nothing.
LEMMA AcquireOut ==
    ASSUME Inv, NEW c \in Callers, NEW n \in Servers, Acquire(c, n),
           NEW k \in Conns, conn[k].slot # NoSlot, Out(k)
    PROVE  Out(k)'
<1>1. conn \in [Conns -> ConnRecords]
  BY DEF TypeOK
<1>2. conn'[k] \in {conn[k], Lease(conn[k]), BeginDrain(conn[k])}
  BY <1>1, NamedNotFresh
  DEF Acquire, AcquireReady, AcquireJoin, AcquireDial, AcquireRecycle
<1> QED BY <1>1, <1>2, OutKept DEF Out

\* No step of the manager brings it back: not a lease, a shared dial that
\* settles late, a retry, a reload or a shutdown.
LEMMA OutOfService ==
    ASSUME Inv, [Next]_vars, NEW k \in Conns, conn[k].slot # NoSlot, Out(k)
    PROVE  Out(k)'
<1>1. /\ conn \in [Conns -> ConnRecords] /\ conn[k] \in ConnRecords
  BY DEF TypeOK
<1>2. k \notin FreshConns
  BY NamedNotFresh
<1>3. ASSUME NEW names, NEW cfgs, NEW f, NEW g, Launch(names, cfgs, f, g)
      PROVE  Out(k)'
  <2>1. conn'[k] = conn[k]
    BY <1>2, <1>3 DEF Launch, LaunchedConns, Injections
  <2> QED BY <2>1 DEF Out
<1>4. ASSUME NEW down, TakeDown(down) PROVE Out(k)'
  BY <1>1, <1>4, OutKept DEF TakeDown, Out
<1>5. CASE InitializeServers
  BY <1>3, <1>5 DEF InitializeServers
<1>6. CASE Booted \/ EditConfig \/ Exit \/ Exited \/ UNCHANGED vars
  BY <1>6 DEF Booted, EditConfig, Exit, Exited, vars, Out
<1>7. CASE Shutdown
  BY <1>4, <1>7 DEF Shutdown
<1>8. ASSUME NEW s \in Slots, RetryFires(s) PROVE Out(k)'
  <2>1. conn'[k] = conn[k]
    BY <1>1, <1>2, <1>8 DEF RetryFires
  <2> QED BY <2>1 DEF Out
<1>9. ASSUME NEW r \in Reloads,
             StartReload(r) \/ TeardownNext(r) \/ LaunchConnects(r)
      PROVE  Out(k)'
  BY <1>3, <1>4, <1>9 DEF StartReload, TeardownNext, LaunchConnects, Teardown
<1>10. ASSUME NEW j \in Conns,
              \/ DialSucceeds(j) \/ DialFails(j) \/ AbortDone(j)
              \/ HardExpiry(j) \/ BackendExits(j) \/ CloseDone(j)
       PROVE  Out(k)'
  <2>1. CASE j = k
    <3>1. conn'[k] = [NullConn EXCEPT !.calls = conn[k].calls]
      BY <1>1, <1>10, <2>1
      DEF DialSucceeds, DialFails, AbortDone, HardExpiry, BackendExits,
          CloseDone, Out
    <3> QED BY <1>1, <3>1, OutKept DEF Out
  <2>2. CASE j # k
    <3>1. conn'[k] = conn[k]
      BY <1>1, <1>10, <2>2
      DEF DialSucceeds, DialFails, AbortDone, HardExpiry, BackendExits, CloseDone
    <3> QED BY <3>1 DEF Out
  <2> QED BY <2>1, <2>2
<1>11. ASSUME NEW c \in Callers, NEW invalidate \in BOOLEAN,
              \/ StartCall(c) \/ WakeWithLease(c) \/ WakeReacquire(c)
              \/ FinishCall(c, invalidate)
       PROVE  Out(k)'
  <2>1. CASE StartCall(c)
    BY <2>1, AcquireOut DEF StartCall, WithClient
  <2>2. CASE WakeWithLease(c)
    BY <1>1, <2>2, OutKept DEF WakeWithLease, Out
  <2>3. CASE WakeReacquire(c)
    <3>1. caller[c].server \in Servers
      BY <2>3 DEF WakeReacquire, CallerShape
    <3> QED BY <2>3, <3>1, AcquireOut DEF WakeReacquire, Out
  <2>4. CASE FinishCall(c, invalidate)
    <3>1. conn'[k] \in {conn[k], Release(conn[k]), Release(BeginDrain(conn[k]))}
      BY <1>1, <2>4 DEF FinishCall
    <3>2. BeginDrain(conn[k]) \in ConnRecords
          /\ BeginDrain(conn[k]).state \in {"draining", "closed"}
      BY <1>1, BeginDrainFacts, OutKept DEF Out
    <3> QED BY <1>1, <3>1, <3>2, OutKept DEF Out
  <2> QED BY <1>11, <2>1, <2>2, <2>3, <2>4
<1> QED BY <1>5, <1>6, <1>7, <1>8, <1>9, <1>10, <1>11 DEF Next, ManagerStep

\* The connection an authentication failure invalidates leaves service at
\* once: it has a call, so it is neither dialling nor ready afterwards.
LEMMA InvalidatedIsOut ==
    ASSUME Inv, LeasesCounted, NEW c \in Callers, FinishCall(c, TRUE)
    PROVE  /\ caller[c].conn \in Conns
           /\ conn'[caller[c].conn].state \in {"draining", "closed"}
<1>1. PICK k \in Conns : k = caller[c].conn
  BY DEF FinishCall, CallerShape
<1>2. conn \in [Conns -> ConnRecords] /\ conn[k] \in ConnRecords
  BY DEF TypeOK
<1>3. conn[k].calls # 0
  BY <1>1, LastHolder DEF FinishCall
<1>4. conn[k].state \in {"ready", "draining", "closed"}
  BY <1>2, <1>3 DEF ConnShape, ConnRecords
<1>5. conn'[k] = Release(BeginDrain(conn[k]))
  BY <1>1, <1>2 DEF FinishCall
<1>6. BeginDrain(conn[k]) \in ConnRecords
      /\ BeginDrain(conn[k]).state \in {"draining", "closed"}
  BY <1>2, <1>4, BeginDrainFacts
<1> QED BY <1>1, <1>5, <1>6, OutKept

-----------------------------------------------------------------------------
(* The inductive invariant of the tool calls.                              *)

\* A step keeps the failed connections replaced.
LEMMA StaleKept ==
    ASSUME CallsInv, [CallsNext]_callVars
    PROVE  /\ stale' \subseteq Conns
           /\ StaleShape'
           /\ FailedIsReplaced'
<1>1. [Next]_vars
  BY CallsStep DEF CallsInv
<1>2. Inv /\ LeasesCounted /\ stale \subseteq Conns /\ StaleShape /\ FailedIsReplaced
  BY DEF CallsInv, CallsTypeOK
<1>3. \A k \in stale : Out(k)'
  BY <1>1, <1>2, OutOfService DEF StaleShape, FailedIsReplaced, Out
<1>4. CASE \/ stale' = {k \in stale : conn'[k].slot # NoSlot}
           \/ UNCHANGED <<vars, stale>>
  <2>1. stale' \subseteq stale /\ \A k \in stale' : conn'[k].slot # NoSlot
    BY <1>2, <1>4 DEF vars, StaleShape
  <2> QED BY <1>2, <1>3, <2>1 DEF StaleShape, FailedIsReplaced, Out
<1>5. ASSUME NEW c \in Callers, NEW failed \in BOOLEAN, AttemptEnds(c, failed)
      PROVE  /\ stale' \subseteq Conns
             /\ StaleShape'
             /\ FailedIsReplaced'
  <2>1. CASE failed
    <3>1. FinishCall(c, TRUE)
      BY <1>5, <2>1 DEF AttemptEnds
    <3>2. stale' = {j \in stale \cup {caller[c].conn} : conn'[j].slot # NoSlot}
      BY <1>5, <2>1 DEF AttemptEnds
    <3>3. /\ caller[c].conn \in Conns
          /\ conn'[caller[c].conn].state \in {"draining", "closed"}
      BY <1>2, <3>1, InvalidatedIsOut
    <3> QED BY <1>2, <1>3, <3>2, <3>3 DEF StaleShape, FailedIsReplaced, Out
  <2>2. CASE ~failed
    <3>1. stale' = {k \in stale : conn'[k].slot # NoSlot}
      BY <1>5, <2>2 DEF AttemptEnds
    <3> QED BY <1>4, <3>1
  <2> QED BY <2>1, <2>2
<1>6. \/ stale' = {k \in stale : conn'[k].slot # NoSlot}
      \/ UNCHANGED <<vars, stale>>
      \/ \E c \in Callers, failed \in BOOLEAN : AttemptEnds(c, failed)
  BY DEF CallsNext, callVars, vars, OpsFollow, CallTool, AttemptWakes, Replay,
         Attempt, CallEnds
<1> QED BY <1>4, <1>5, <1>6

\* What acquireConnection makes of its caller.
LEMMA AcquireCaller ==
    ASSUME NEW c \in Callers, NEW n, Acquire(c, n),
           caller \in [Callers -> CallerRecords]
    PROVE  /\ caller'[c].pc \in {"waiting", "working"}
           /\ \A x \in Callers \ {c} : caller'[x] = caller[x]
<1>1. \E k : caller' = [caller EXCEPT ![c] = Working(k)]
              \/ caller' = [caller EXCEPT ![c] = Waiting(n, k)]
  BY Zenon DEF Acquire, AcquireReady, AcquireJoin, AcquireDial, AcquireRecycle
<1>2. \A k : Working(k).pc = "working" /\ Waiting(n, k).pc = "waiting"
  BY DEF Working, Waiting
<1> QED BY <1>1, <1>2

\* A step without a caller lets callers go, and sends nothing for them.
LEMMA ManagerCaller ==
    ASSUME TypeOK, ManagerStep, NEW c \in Callers
    PROVE  caller'[c] \in {caller[c], IdleCaller}
<1>1. UNCHANGED caller \/ \E cs : caller' = Dismiss(cs)
  BY DEF ManagerStep, InitializeServers, Booted, DialSucceeds, DialFails,
         AbortDone, HardExpiry, BackendExits, CloseDone, RetryFires, EditConfig,
         StartReload, TeardownNext, LaunchConnects, Shutdown, Exit, Exited, vars
<1> QED BY <1>1 DEF Dismiss

\* The typing and the shape of one tool call.
OpOK(c) ==
    /\ op[c] \in OpRecords
    /\ caller[c].pc # "idle" => op[c].attempt > 0
    /\ op[c].attempt > 0 => op[c].server \in Servers
    /\ op[c].attempt = 2 => op[c].safe
    /\ op[c].ran <= op[c].attempt
    /\ caller[c].pc = "waiting" => op[c].ran < op[c].attempt

\* The first attempt of a tool call.
LEMMA FirstAttempt ==
    ASSUME NEW n \in Servers, NEW safe \in BOOLEAN, NEW o,
           o = [attempt |-> 1, server |-> n, safe |-> safe, failed |-> FALSE,
                ran |-> 0]
    PROVE  /\ o \in OpRecords /\ o.server = n /\ o.attempt = 1 /\ o.ran = 0
<1> DEFINE Attempts == 0 .. 2
<1>1. 1 \in Attempts
  OBVIOUS
<1>2. OpRecords = [attempt: Attempts, server: Servers \cup {NoServer},
                   safe: BOOLEAN, failed: BOOLEAN, ran: Nat]
  BY DEF OpRecords
<1> HIDE DEF Attempts
<1>3. o.server = n /\ o.attempt = 1 /\ o.ran = 0
  OBVIOUS
<1>4. o \in OpRecords
  BY <1>1, <1>2
<1> QED BY <1>3, <1>4

\* The attempt after it: a replay keeps what the first one ran.
LEMMA ReplayAttempt ==
    ASSUME NEW rec \in OpRecords, NEW o,
           o = [rec EXCEPT !.attempt = 2, !.failed = FALSE]
    PROVE  /\ o \in OpRecords /\ o.server = rec.server /\ o.attempt = 2
           /\ o.ran = rec.ran /\ (o.safe <=> rec.safe)
<1> DEFINE Attempts == 0 .. 2
<1>1. 2 \in Attempts
  OBVIOUS
<1>2. OpRecords = [attempt: Attempts, server: Servers \cup {NoServer},
                   safe: BOOLEAN, failed: BOOLEAN, ran: Nat]
  BY DEF OpRecords
<1> HIDE DEF Attempts
<1> QED BY <1>1, <1>2

\* An attempt begins, with what the tool call has run so far.
LEMMA AttemptOps ==
    ASSUME TypeOK, op \in [Callers -> OpRecords], \A x \in Callers : OpOK(x),
           NEW c \in Callers, NEW n \in Servers, NEW o \in OpRecords,
           caller[c].pc = "idle", Attempt(c, n, o),
           o.server \in Servers, o.attempt = 2 => o.safe, o.ran < o.attempt
    PROVE  op' \in [Callers -> OpRecords] /\ \A x \in Callers : OpOK(x)'
<1>1. caller \in [Callers -> CallerRecords]
  BY DEF TypeOK
<1>2. /\ caller'[c].pc \in {"waiting", "working"}
      /\ \A x \in Callers \ {c} : caller'[x] = caller[x]
  BY <1>1, AcquireCaller DEF Attempt, WithClient
<1>3. op' = [op EXCEPT ![c] = Counted(o, Sent(c))]
  BY DEF Attempt
<1>4. /\ Counted(o, Sent(c)) \in OpRecords
      /\ Counted(o, Sent(c)).attempt = o.attempt
      /\ Counted(o, Sent(c)).server = o.server
      /\ Counted(o, Sent(c)).safe = o.safe
      /\ Counted(o, Sent(c)).ran =
            IF caller'[c].pc = "working" THEN o.ran + 1 ELSE o.ran
  BY DEF Counted, Sent, OpRecords
<1>5. o.ran \in Nat /\ o.attempt \in 0 .. 2
  BY DEF OpRecords
<1>6. OpOK(c)'
  BY <1>2, <1>3, <1>4, <1>5 DEF OpOK
<1>7. \A x \in Callers \ {c} : OpOK(x)'
  BY <1>2, <1>3 DEF OpOK
<1> QED BY <1>3, <1>4, <1>6, <1>7

\* Every step keeps the tool calls in shape.
LEMMA OpsKept ==
    ASSUME CallsInv, [CallsNext]_callVars
    PROVE  op' \in [Callers -> OpRecords] /\ OpShape'
<1> DEFINE Goal == op' \in [Callers -> OpRecords] /\ \A x \in Callers : OpOK(x)'
<1> SUFFICES Goal
  BY DEF OpOK, OpShape
<1>1. /\ TypeOK /\ caller \in [Callers -> CallerRecords]
      /\ op \in [Callers -> OpRecords]
      /\ \A x \in Callers : OpOK(x)
  BY DEF CallsInv, CallsTypeOK, TypeOK, OpShape, OpOK
<1>2. CASE UNCHANGED callVars
  <2>1. op' = op /\ caller' = caller
    BY <1>2 DEF callVars, vars
  <2>2. ASSUME NEW x \in Callers PROVE OpOK(x)'
    BY <1>1, <2>1 DEF OpOK
  <2> QED BY <1>1, <2>1, <2>2
<1>3. CASE ManagerStep /\ OpsFollow({})
  <2>1. op' = op
    BY <1>1, <1>3 DEF OpsFollow
  <2>2. \A x \in Callers : caller'[x] \in {caller[x], IdleCaller}
    BY <1>1, <1>3, ManagerCaller
  <2>3. ASSUME NEW x \in Callers PROVE OpOK(x)'
    BY <1>1, <2>1, <2>2 DEF OpOK, IdleCaller
  <2> QED BY <1>1, <2>1, <2>3
<1>4. ASSUME NEW c \in Callers, CallTool(c) PROVE Goal
  <2>1. PICK n \in Servers, safe \in BOOLEAN :
           Attempt(c, n, [NoOp EXCEPT !.attempt = 1, !.server = n, !.safe = safe])
    BY <1>4 DEF CallTool
  <2>2. PICK o : o = [NoOp EXCEPT !.attempt = 1, !.server = n, !.safe = safe]
    OBVIOUS
  <2>3. /\ o \in OpRecords /\ o.server = n /\ o.attempt = 1 /\ o.ran = 0
    <3>1. o = [attempt |-> 1, server |-> n, safe |-> safe, failed |-> FALSE,
               ran |-> 0]
      BY <2>2, Zenon DEF NoOp
    <3> QED BY <3>1, FirstAttempt
  <2>4. caller[c].pc = "idle" /\ Attempt(c, n, o)
    BY <2>2, <2>1 DEF Attempt, WithClient
  <2> QED BY <1>1, <2>3, <2>4, AttemptOps
<1>5. ASSUME NEW c \in Callers, Replay(c) PROVE Goal
  <2> DEFINE o == [op[c] EXCEPT !.attempt = 2, !.failed = FALSE]
             n == op[c].server
  <2>1. /\ caller[c].pc = "idle" /\ op[c].attempt = 1 /\ op[c].safe
        /\ op[c] \in OpRecords /\ n \in Servers /\ op[c].ran <= 1
    BY <1>1, <1>5 DEF Replay, Over, Replays, OpOK
  <2>2. /\ o \in OpRecords /\ o.server = n /\ o.attempt = 2 /\ o.ran < 2 /\ o.safe
    <3>1. /\ o \in OpRecords /\ o.server = n /\ o.attempt = 2
          /\ o.ran = op[c].ran /\ (o.safe <=> op[c].safe)
      BY <2>1, ReplayAttempt, ZenonT(40)
    <3> HIDE DEF o, n
    <3> QED BY <2>1, <3>1 DEF OpRecords
  <2>3. Attempt(c, n, o)
    BY <1>5 DEF Replay
  <2> HIDE DEF o, n
  <2> QED BY <1>1, <2>1, <2>2, <2>3, AttemptOps
<1>6. ASSUME NEW c \in Callers, AttemptWakes(c) PROVE Goal
  <2>1. /\ caller[c].pc = "waiting"
        /\ \A x \in Callers \ {c} : caller'[x] = caller[x]
        /\ caller'[c].pc \in {"waiting", "working", "idle"}
    BY <1>1, <1>6, AcquireCaller
    DEF AttemptWakes, WakeWithLease, WakeReacquire, Working, IdleCaller
  <2>2. \A x \in Callers : op'[x] = IF x = c THEN Counted(op[c], Sent(c)) ELSE op[x]
    BY <1>6 DEF AttemptWakes, OpsFollow
  <2>3. /\ Counted(op[c], Sent(c)) \in OpRecords
        /\ Counted(op[c], Sent(c)).attempt = op[c].attempt
        /\ Counted(op[c], Sent(c)).server = op[c].server
        /\ Counted(op[c], Sent(c)).safe = op[c].safe
        /\ Counted(op[c], Sent(c)).ran =
              IF caller'[c].pc = "working" THEN op[c].ran + 1 ELSE op[c].ran
    BY <1>1, <2>1 DEF Counted, Sent, OpRecords
  <2>4. op[c].ran \in Nat /\ op[c].attempt \in 0 .. 2
    BY <1>1 DEF OpRecords
  <2>5. OpOK(c)'
    BY <1>1, <2>1, <2>2, <2>3, <2>4 DEF OpOK
  <2>6. \A x \in Callers \ {c} : OpOK(x)'
    BY <1>1, <2>1, <2>2 DEF OpOK
  <2>7. op' \in [Callers -> OpRecords]
    <3>1. op' = [x \in Callers |-> IF x \in {c} THEN Counted(op[x], Sent(x)) ELSE op[x]]
      BY <1>6 DEF AttemptWakes, OpsFollow
    <3> QED BY <1>1, <2>3, <3>1
  <2> QED BY <2>5, <2>6, <2>7
<1>7. ASSUME NEW c \in Callers, NEW failed \in BOOLEAN, AttemptEnds(c, failed)
      PROVE  Goal
  <2>1. /\ caller[c].pc = "working"
        /\ \A x \in Callers \ {c} : caller'[x] = caller[x]
        /\ caller'[c].pc \in {"releasing", "idle"}
    BY <1>1, <1>7 DEF AttemptEnds, FinishCall, Releasing, IdleCaller
  <2>2. op' = [op EXCEPT ![c].failed = failed]
    BY <1>7 DEF AttemptEnds
  <2>3. /\ op' \in [Callers -> OpRecords]
        /\ \A x \in Callers \ {c} : op'[x] = op[x]
        /\ op'[c].attempt = op[c].attempt /\ op'[c].server = op[c].server
        /\ op'[c].safe = op[c].safe /\ op'[c].ran = op[c].ran
    BY <1>1, <2>2 DEF OpRecords
  <2>4. OpOK(c)'
    BY <1>1, <2>1, <2>3 DEF OpOK
  <2> QED BY <1>1, <2>1, <2>3, <2>4 DEF OpOK
<1>8. ASSUME NEW c \in Callers, CallEnds(c) PROVE Goal
  <2>1. caller[c].pc = "idle" /\ caller' = caller
    BY <1>8 DEF CallEnds, Over, vars
  <2>2. op' = [op EXCEPT ![c] = NoOp]
    BY <1>8 DEF CallEnds
  <2>3. NoOp \in OpRecords
    BY DEF NoOp, OpRecords
  <2>4. OpOK(c)'
    BY <1>1, <2>1, <2>2, <2>3 DEF OpOK, NoOp
  <2> QED BY <1>1, <2>1, <2>2, <2>3, <2>4 DEF OpOK
<1> HIDE DEF Goal
<1> QED BY <1>2, <1>3, <1>4, <1>5, <1>6, <1>7, <1>8 DEF CallsNext

\* No tool call has begun before the start.
LEMMA CallsInitInv == CallsInit => CallsInv
<1> SUFFICES ASSUME CallsInit PROVE CallsInv
  OBVIOUS
<1>1. Inv /\ LeasesCounted
  BY InitInv, InitLeasesCounted DEF CallsInit
<1>2. CallsTypeOK
  BY <1>1 DEF CallsInit, CallsTypeOK, NoOp, OpRecords
<1>3. OpShape /\ StaleShape /\ FailedIsReplaced
  BY DEF CallsInit, Init, OpShape, StaleShape, FailedIsReplaced, NoOp, IdleCaller
<1> QED BY <1>1, <1>2, <1>3 DEF CallsInv

\* Every step preserves the invariant.
LEMMA CallsNextInv == CallsInv /\ [CallsNext]_callVars => CallsInv'
<1> SUFFICES ASSUME CallsInv, [CallsNext]_callVars PROVE CallsInv'
  OBVIOUS
<1>1. Inv /\ LeasesCounted /\ [Next]_vars
  BY CallsStep DEF CallsInv
<1>2. Inv' /\ LeasesCounted'
  BY <1>1, NextInv, NextCounted
<1>3. CallsTypeOK'
  BY <1>2, OpsKept, StaleKept DEF CallsTypeOK
<1> QED BY <1>2, <1>3, OpsKept, StaleKept DEF CallsInv

(* What the tool calls rest on: how a call's phase, attempts and runs fit    *)
(* together (callToolWithAuthRecovery).                                      *)
THEOREM CallsSpecInv == CallsSpec => []CallsInv
BY CallsInitInv, CallsNextInv, PTL DEF CallsSpec

-----------------------------------------------------------------------------
(* The properties.                                                         *)

(* Tool calls, the manager under them and the memory of failed connections  *)
(* keep their types.                                                        *)
THEOREM CallsSpecTypeOK == CallsSpec => []CallsTypeOK
BY CallsSpecInv, PTL DEF CallsInv

(* Authentication failures always replace the backend generation that       *)
(* produced them (invalidateConnection, README.md:295): the connection a    *)
(* call failed on is out of service at once and for good.                   *)
THEOREM SpecFailedIsReplaced == CallsSpec => []FailedIsReplaced
BY CallsSpecInv, PTL DEF CallsInv

(* A tool is given to a backend at most once per call, and twice only if    *)
(* the policy declares it safe to replay (callToolWithAuthRecovery).        *)
THEOREM SpecRunsAtMost == CallsSpec => []RunsAtMost
<1>1. CallsInv => RunsAtMost
  <2> SUFFICES ASSUME CallsInv, NEW c \in Callers
               PROVE  op[c].ran <= IF op[c].safe THEN 2 ELSE 1
    BY DEF RunsAtMost
  <2>1. /\ op[c].attempt \in 0 .. 2 /\ op[c].ran \in Nat
        /\ op[c].ran <= op[c].attempt /\ (op[c].attempt = 2 => op[c].safe)
    BY DEF CallsInv, CallsTypeOK, OpRecords, OpShape
  <2> QED BY <2>1
<1> QED BY <1>1, CallsSpecInv, PTL

(* Under the tool calls too the manager is a lease pool.                    *)
THEOREM CallsImplementPool == CallsSpec => ImplementsPool
<1>1. CallsInv /\ [CallsNext]_callVars => [Pool!Next]_Pool!vars
  BY CallsStep, NextImplements DEF CallsInv
<1>2. CallsInit => Pool!Init
  BY InitImplements DEF CallsInit
<1> QED BY <1>1, <1>2, CallsSpecInv, PTL DEF CallsSpec, ImplementsPool, Pool!Spec

=============================================================================
