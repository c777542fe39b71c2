------------------------- MODULE ClientManagerLeases -------------------------
(***************************************************************************)
(* activeCalls is exact, for any number of servers, callers, connections   *)
(* and overlapping reloads.  A connection's count and its set of working   *)
(* callers change together: by a lease, by a release, or not at all.       *)
(***************************************************************************)
EXTENDS ClientManagerProofs, FiniteSetTheorems

USE DEF Inv, Safety

-----------------------------------------------------------------------------
(* The three ways the count and the set change.                            *)

\* The calls on a connection can be counted.
LEMMA CallersFinite ==
    ASSUME NEW k
    PROVE  IsFiniteSet(CallersIn("working", k))
BY CallerAssumption, FS_Subset DEF CallersIn

\* A step that changes neither leases nor working callers.
LEMMA CountsKept ==
    ASSUME LeasesCounted,
           \A k \in Conns : conn'[k].calls = conn[k].calls,
           \A c \in Callers, k \in Conns :
              caller'[c].pc = "working" /\ caller'[c].conn = k
                 <=> caller[c].pc = "working" /\ caller[c].conn = k
    PROVE  LeasesCounted'
<1>1. \A k \in Conns : CallersIn("working", k)' = CallersIn("working", k)
  BY DEF CallersIn
<1> QED BY <1>1 DEF LeasesCounted

\* A caller starts to work on a connection that counts one more.
LEMMA CountsUp ==
    ASSUME LeasesCounted, NEW c \in Callers, NEW j \in Conns,
           caller \in [Callers -> CallerRecords],
           caller[c].pc # "working",
           caller' = [caller EXCEPT ![c] = Working(j)],
           \A k \in Conns : conn'[k].calls =
              IF k = j THEN conn[k].calls + 1 ELSE conn[k].calls
    PROVE  LeasesCounted'
<1>1. \A k \in Conns : CallersIn("working", k)' =
         IF k = j THEN CallersIn("working", k) \cup {c} ELSE CallersIn("working", k)
  BY DEF CallersIn, Working
<1>2. c \notin CallersIn("working", j)
  BY DEF CallersIn
<1>3. Cardinality(CallersIn("working", j) \cup {c})
         = Cardinality(CallersIn("working", j)) + 1
  BY <1>2, CallersFinite, FS_AddElement
<1> QED BY <1>1, <1>3 DEF LeasesCounted

\* A caller stops working on a connection that counts one less.
LEMMA CountsDown ==
    ASSUME LeasesCounted, NEW c \in Callers, NEW j \in Conns, NEW next,
           caller \in [Callers -> CallerRecords],
           caller[c].pc = "working", caller[c].conn = j,
           next.pc # "working",
           caller' = [caller EXCEPT ![c] = next],
           \A k \in Conns \ {j} : conn'[k].calls = conn[k].calls,
           conn[j].calls \in Nat,
           conn'[j].calls = IF conn[j].calls = 0 THEN 0 ELSE conn[j].calls - 1
    PROVE  LeasesCounted'
<1>1. \A k \in Conns : CallersIn("working", k)' =
         IF k = j THEN CallersIn("working", k) \ {c} ELSE CallersIn("working", k)
  BY DEF CallersIn
<1>2. c \in CallersIn("working", j)
  BY DEF CallersIn
<1>3. Cardinality(CallersIn("working", j) \ {c})
         = Cardinality(CallersIn("working", j)) - 1
  BY <1>2, CallersFinite, FS_RemoveElement
<1>4. Cardinality(CallersIn("working", j)) # 0
  BY <1>2, CallersFinite, FS_EmptySet
<1> QED BY <1>1, <1>3, <1>4 DEF LeasesCounted

-----------------------------------------------------------------------------
(* The handlers.                                                           *)

\* What the handlers below leave of a connection's count.
LEMMA SameCalls ==
    ASSUME NEW rec \in ConnRecords
    PROVE  /\ Closing(rec).calls = rec.calls
           /\ BeginDrain(rec).calls = rec.calls
           /\ Lease(rec).calls = rec.calls + 1
           /\ [NullConn EXCEPT !.calls = rec.calls].calls = rec.calls
           /\ \A x : [rec EXCEPT !.state = x].calls = rec.calls
BY ClosingFacts, BeginDrainFacts DEF Lease, NullConn, ConnRecords

\* A new connection has no leases.
LEMMA FreshCalls ==
    ASSUME NEW s, NEW k \in FreshConns
    PROVE  k \in Conns /\ conn[k].calls = 0 /\ Dialing(s).calls = 0
BY DEF FreshConns, NullConn, Dialing

\* acquireConnection leases at most one connection, for its caller.
LEMMA AcquireCounted ==
    ASSUME Inv, LeasesCounted, NEW c \in Callers, NEW n \in Servers,
           caller[c].pc # "working", Acquire(c, n)
    PROVE  LeasesCounted'
<1> USE NullAssumption
<1>1. /\ caller \in [Callers -> CallerRecords] /\ conn \in [Conns -> ConnRecords]
      /\ slot \in [Slots -> SlotRecords]
      /\ registry \in [Servers -> Slots \cup {NoSlot}]
  BY DEF TypeOK
<1>2. CASE AcquireReady(c, n)
  <2> DEFINE k == slot[registry[n]].current
  <2>1. k \in Conns
    BY <1>1, <1>2 DEF AcquireReady, SlotRecords
  <2>2. \A j \in Conns : conn'[j].calls =
           IF j = k THEN conn[j].calls + 1 ELSE conn[j].calls
    BY <1>1, <1>2, <2>1, SameCalls DEF AcquireReady
  <2>3. caller' = [caller EXCEPT ![c] = Working(k)]
    BY <1>2 DEF AcquireReady
  <2> HIDE DEF k
  <2> QED BY <1>1, <2>1, <2>2, <2>3, CountsUp
<1>3. CASE AcquireJoin(c, n)
  <2>1. \A x \in Callers : caller'[x] = caller[x] \/ x = c
    BY <1>1, <1>3 DEF AcquireJoin
  <2>2. caller'[c].pc = "waiting"
    BY <1>1, <1>3 DEF AcquireJoin, Waiting
  <2>3. conn' = conn
    BY <1>3 DEF AcquireJoin
  <2> QED BY <2>1, <2>2, <2>3, CountsKept
<1>4. CASE AcquireDial(c, n)
  <2>1. PICK k \in FreshConns :
           /\ conn' = [conn EXCEPT ![k] = Dialing(registry[n])]
           /\ caller' = [caller EXCEPT ![c] = Waiting(n, k)]
    BY <1>4 DEF AcquireDial
  <2>2. \A j \in Conns : conn'[j].calls = conn[j].calls
    BY <1>1, <2>1, FreshCalls
  <2>3. (\A x \in Callers : caller'[x] = caller[x] \/ x = c)
         /\ caller'[c].pc = "waiting"
    BY <1>1, <2>1 DEF Waiting
  <2> QED BY <2>2, <2>3, CountsKept
<1>5. CASE AcquireRecycle(c, n)
  <2> DEFINE old == slot[registry[n]].current
  <2>1. PICK k \in FreshConns :
           /\ conn' = [conn EXCEPT ![old] = BeginDrain(@), ![k] = Dialing(registry[n])]
           /\ caller' = [caller EXCEPT ![c] = Waiting(n, k)]
    BY <1>5 DEF AcquireRecycle
  <2>2. \A j \in Conns : conn'[j] = IF j = k THEN Dialing(registry[n])
                                    ELSE IF j = old THEN BeginDrain(conn[j])
                                    ELSE conn[j]
    BY <1>1, <2>1
  <2>3. \A j \in Conns : conn'[j].calls = conn[j].calls
    BY <1>1, <2>2, FreshCalls, SameCalls
  <2>4. (\A x \in Callers : caller'[x] = caller[x] \/ x = c)
         /\ caller'[c].pc = "waiting"
    BY <1>1, <2>1 DEF Waiting
  <2> QED BY <2>3, <2>4, CountsKept
<1> QED BY <1>2, <1>3, <1>4, <1>5 DEF Acquire

\* Each step of withClient keeps the count.
LEMMA CallerCounted ==
    ASSUME Inv, LeasesCounted, NEW c \in Callers, NEW invalidate \in BOOLEAN,
           \/ StartCall(c) \/ WakeWithLease(c) \/ WakeReacquire(c)
           \/ FinishCall(c, invalidate)
    PROVE  LeasesCounted'
<1>1. /\ caller \in [Callers -> CallerRecords] /\ conn \in [Conns -> ConnRecords]
  BY DEF TypeOK
<1>2. CASE StartCall(c)
  BY <1>2, AcquireCounted DEF StartCall, WithClient
<1>3. CASE WakeWithLease(c)
  <2> DEFINE k == caller[c].conn
  <2>1. k \in Conns
    BY <1>3 DEF WakeWithLease, CallerShape
  <2>2. \A j \in Conns : conn'[j].calls =
           IF j = k THEN conn[j].calls + 1 ELSE conn[j].calls
    BY <1>1, <1>3, <2>1, SameCalls DEF WakeWithLease
  <2>3. caller' = [caller EXCEPT ![c] = Working(k)] /\ caller[c].pc # "working"
    BY <1>3 DEF WakeWithLease
  <2> HIDE DEF k
  <2> QED BY <1>1, <2>1, <2>2, <2>3, CountsUp
<1>4. CASE WakeReacquire(c)
  <2>1. caller[c].pc = "waiting" /\ caller[c].server \in Servers
    BY <1>4 DEF WakeReacquire, CallerShape
  <2>2. CASE Acquire(c, caller[c].server)
    BY <2>1, <2>2, AcquireCounted
  <2>3. CASE caller' = [caller EXCEPT ![c] = IdleCaller] /\ UNCHANGED conn
    <3>1. (\A x \in Callers : caller'[x] = caller[x] \/ x = c)
           /\ caller'[c].pc = "idle"
      BY <1>1, <2>3 DEF IdleCaller
    <3> QED BY <2>1, <2>3, <3>1, CountsKept
  <2> QED BY <1>4, <2>2, <2>3 DEF WakeReacquire
<1>5. CASE FinishCall(c, invalidate)
  <2> DEFINE k     == caller[c].conn
             ended == IF invalidate THEN BeginDrain(conn[k]) ELSE conn[k]
             after == Release(ended)
  <2>1. caller[c].pc = "working" /\ k \in Conns
    BY <1>5 DEF FinishCall, CallerShape
  <2>2. ended \in ConnRecords /\ ended.calls = conn[k].calls
    BY <1>1, <2>1, BeginDrainFacts
  <2>3. conn' = [conn EXCEPT ![k] = after]
    BY <1>5 DEF FinishCall
  <2>4. PICK next \in {Releasing(k), IdleCaller} :
           caller' = [caller EXCEPT ![c] = next]
    BY <1>5 DEF FinishCall
  <2>5. next.pc # "working"
    BY <2>4 DEF Releasing, IdleCaller
  <2> HIDE DEF ended
  <2>6. after.calls = IF conn[k].calls = 0 THEN 0 ELSE conn[k].calls - 1
    BY <2>2, ReleaseFacts
  <2> HIDE DEF after
  <2>7. /\ \A j \in Conns \ {k} : conn'[j].calls = conn[j].calls
        /\ conn'[k].calls = IF conn[k].calls = 0 THEN 0 ELSE conn[k].calls - 1
        /\ conn[k].calls \in Nat
    BY <1>1, <2>1, <2>3, <2>6 DEF ConnRecords
  <2> HIDE DEF k
  <2> QED BY <1>1, <2>1, <2>4, <2>5, <2>7, CountsDown DEF k
<1> QED BY <1>2, <1>3, <1>4, <1>5

\* Dials, drops, expiries and closes neither add nor lose a lease.
LEMMA ConnCounted ==
    ASSUME Inv, LeasesCounted, NEW k \in Conns,
           \/ DialSucceeds(k) \/ DialFails(k) \/ AbortDone(k)
           \/ HardExpiry(k) \/ BackendExits(k) \/ CloseDone(k)
    PROVE  LeasesCounted'
<1>1. /\ caller \in [Callers -> CallerRecords] /\ conn \in [Conns -> ConnRecords]
  BY DEF TypeOK
<1>2. \A j \in Conns : conn'[j].calls = conn[j].calls
  <2>1. CASE DialSucceeds(k) \/ DialFails(k)
    <3>1. PICK x \in {"aborting", "ready"} : conn' = [conn EXCEPT ![k].state = x]
      BY <2>1 DEF DialSucceeds, DialFails
    <3> QED BY <1>1, <3>1, SameCalls
  <2>2. CASE AbortDone(k)
    <3>1. conn[k].calls = 0 /\ conn' = [conn EXCEPT ![k] = NullConn]
      BY <2>2 DEF AbortDone, ConnShape
    <3> QED BY <1>1, <3>1 DEF NullConn
  <2>3. CASE HardExpiry(k)
    BY <1>1, <2>3, SameCalls DEF HardExpiry
  <2>4. CASE BackendExits(k) \/ CloseDone(k)
    <3>1. conn' = [conn EXCEPT ![k] = [NullConn EXCEPT !.calls = conn[k].calls]]
      BY <2>4 DEF BackendExits, CloseDone
    <3> QED BY <1>1, <3>1, SameCalls
  <2> QED BY <2>1, <2>2, <2>3, <2>4
<1>3. \A c \in Callers : \/ caller'[c] = caller[c]
                         \/ caller'[c].pc # "working" /\ caller[c].pc # "working"
  BY <1>1, SMTT(30) DEF DialSucceeds, DialFails, AbortDone, HardExpiry, BackendExits,
              CloseDone, Dismiss, CallersIn, IdleCaller
<1> QED BY <1>2, <1>3, CountsKept

\* New slots and attempts start without leases.
LEMMA LaunchCounted ==
    ASSUME Inv, LeasesCounted, NEW names, NEW cfgs, NEW f, NEW g,
           Launch(names, cfgs, f, g), UNCHANGED caller
    PROVE  LeasesCounted'
<1>1. g \in [names -> FreshConns]
  BY DEF Launch, Injections
<1>2. \A k \in Conns : conn'[k] = conn[k] \/ (k \in FreshConns /\ conn'[k].calls = 0)
  BY <1>1, FreshCalls DEF Launch, LaunchedConns
<1>3. \A k \in Conns : conn'[k].calls = conn[k].calls
  BY <1>2, FreshCalls
<1> QED BY <1>3, CountsKept

\* A teardown closes connections under their calls, whose leases still
\* count.
LEMMA TakeDownCounted ==
    ASSUME Inv, LeasesCounted, NEW down, TakeDown(down), UNCHANGED caller
    PROVE  LeasesCounted'
<1>1. \A k \in Conns : conn'[k].calls = conn[k].calls
  BY SameCalls DEF TakeDown, TypeOK
<1> QED BY <1>1, CountsKept

\* Every step keeps the count.
LEMMA NextCounted == Inv /\ LeasesCounted /\ [Next]_vars => LeasesCounted'
<1> SUFFICES ASSUME Inv, LeasesCounted, [Next]_vars PROVE LeasesCounted'
  OBVIOUS
<1>1. CASE InitializeServers
  BY <1>1, LaunchCounted DEF InitializeServers
<1>2. CASE Booted \/ EditConfig \/ Exit \/ Exited \/ UNCHANGED vars
  BY <1>2, CountsKept DEF Booted, EditConfig, Exit, Exited, vars
<1>3. CASE Shutdown
  BY <1>3, TakeDownCounted DEF Shutdown
<1>4. ASSUME NEW s \in Slots, RetryFires(s) PROVE LeasesCounted'
  <2>1. \A k \in Conns : conn'[k].calls = conn[k].calls
    <3>1. UNCHANGED conn \/ \E k \in FreshConns :
                               conn' = [conn EXCEPT ![k] = Dialing(s)]
      BY <1>4 DEF RetryFires
    <3> QED BY <3>1, FreshCalls DEF TypeOK
  <2> QED BY <1>4, <2>1, CountsKept DEF RetryFires
<1>5. ASSUME NEW r \in Reloads,
             StartReload(r) \/ TeardownNext(r) \/ LaunchConnects(r)
      PROVE  LeasesCounted'
  BY <1>5, LaunchCounted, TakeDownCounted
  DEF StartReload, TeardownNext, LaunchConnects, Teardown
<1> QED BY <1>1, <1>2, <1>3, <1>4, <1>5, CallerCounted, ConnCounted DEF Next, ManagerStep

\* Nobody works before the start.
LEMMA InitLeasesCounted == Init => LeasesCounted
<1> SUFFICES ASSUME Init, NEW k \in Conns
             PROVE  conn[k].calls = Cardinality(CallersIn("working", k))
  BY DEF LeasesCounted
<1>1. CallersIn("working", k) = {}
  BY DEF Init, CallersIn, IdleCaller
<1> QED BY <1>1, FS_EmptySet DEF Init, NullConn

(* In every reachable state the activeCalls of each connection is the       *)
(* number of withClient operations that run on it (releaseConnection and    *)
(* leaseConnection are balanced on every path), so a draining connection    *)
(* closes when, and only when, its last call has ended.                     *)
THEOREM SpecLeasesCounted == Spec => []LeasesCounted
BY InitLeasesCounted, NextCounted, SpecInv, PTL DEF Spec

-----------------------------------------------------------------------------
(* The manager implements the lease pool: each of its steps opens a         *)
(* connection, leases one, retires one, gives a lease back, loses some      *)
(* connections, or is no step of the pool at all.                           *)

\* The holders of the pool are the working callers of the manager.
LEMMA HoldersWork ==
    ASSUME NEW k \in Conns
    PROVE  Pool!Holders(k) = CallersIn("working", k)
BY NullAssumption DEF Pool!Holders, CallersIn, Holder

\* A connection without calls has no holder, and the converse.
LEMMA CallsAreHolders ==
    ASSUME LeasesCounted, NEW k \in Conns
    PROVE  conn[k].calls = 0 <=> Pool!Holders(k) = {}
BY HoldersWork, CallersFinite, FS_EmptySet DEF LeasesCounted

\* The last holder of a connection is its only call.
LEMMA LastHolder ==
    ASSUME Inv, LeasesCounted, NEW c \in Callers, NEW k \in Conns,
           caller[c].pc = "working", caller[c].conn = k
    PROVE  /\ conn[k].calls # 0
           /\ conn[k].calls - 1 = 0 <=> Pool!Holders(k) \ {c} = {}
<1> DEFINE H == CallersIn("working", k)
<1>1. c \in H /\ IsFiniteSet(H)
  BY CallersFinite DEF CallersIn
<1>2. IsFiniteSet(H \ {c}) /\ Cardinality(H \ {c}) = Cardinality(H) - 1
  BY <1>1, FS_RemoveElement
<1>3. Cardinality(H \ {c}) = 0 <=> H \ {c} = {}
  BY <1>2, FS_EmptySet
<1>4. Cardinality(H) # 0
  BY <1>1, FS_EmptySet
<1>5. conn[k].calls = Cardinality(H)
  BY DEF LeasesCounted
<1> HIDE DEF H
<1> QED BY <1>2, <1>3, <1>4, <1>5, HoldersWork DEF H

\* A step that changes no stage and no holder.
LEMMA PoolStutters ==
    ASSUME \A k \in Conns : Stage(k)' = Stage(k),
           \A c \in Callers : Holder(c)' = Holder(c)
    PROVE  UNCHANGED Pool!vars
BY DEF Pool!vars

\* A caller that starts to work on a ready connection takes a lease.
LEMMA PoolTakes ==
    ASSUME NEW c \in Callers, NEW j \in Conns,
           caller \in [Callers -> CallerRecords],
           caller[c].pc # "working", conn[j].state = "ready",
           caller' = [caller EXCEPT ![c] = Working(j)],
           \A k \in Conns : conn'[k].state = conn[k].state
    PROVE  Pool!Next
<1>1. \A x \in Callers : Holder(x)' = IF x = c THEN j ELSE Holder(x)
  BY DEF Holder, Working
<1>2. \A k \in Conns : Stage(k)' = Stage(k)
  BY DEF Stage
<1>3. Holder(c) = NoConn /\ Stage(j) = "open"
  BY DEF Holder, Stage
<1>4. Pool!Take(c, j)
  BY <1>1, <1>2, <1>3 DEF Pool!Take
<1> QED BY <1>4 DEF Pool!Next

\* beginDrain of a ready connection retires it.
LEMMA PoolRetires ==
    ASSUME LeasesCounted, NEW j \in Conns, conn[j] \in ConnRecords,
           conn[j].state = "ready", conn'[j] = BeginDrain(conn[j]),
           \A k \in Conns \ {j} : Stage(k)' = Stage(k),
           \A c \in Callers : Holder(c)' = Holder(c)
    PROVE  Pool!Next
<1>1. Stage(j)' = IF conn[j].calls = 0 THEN "closed" ELSE "retired"
  BY BeginDrainFacts DEF Stage
<1>2. Stage(j)' = Pool!Left(j, Pool!Holders(j))
  BY <1>1, CallsAreHolders DEF Pool!Left
<1>3. Stage(j) = "open"
  BY DEF Stage
<1>4. [k \in Conns |-> Stage(k)]'
         = [[k \in Conns |-> Stage(k)] EXCEPT ![j] = Pool!Left(j, Pool!Holders(j))]
  BY <1>2
<1>5. Pool!Retire(j)
  BY <1>3, <1>4 DEF Pool!Retire
<1> QED BY <1>5 DEF Pool!Next

\* A connection that is dialled anew was closed for its callers and stays so.
LEMMA FreshStage ==
    ASSUME NEW s, NEW k \in FreshConns
    PROVE  k \in Conns /\ conn[k].state = "closed" /\ Dialing(s).state = "dialing"
BY DEF FreshConns, NullConn, Dialing

\* acquireConnection takes a lease, retires an aged connection, or neither.
LEMMA AcquireImplements ==
    ASSUME Inv, LeasesCounted, NEW c \in Callers, NEW n \in Servers,
           caller[c].pc # "working", Acquire(c, n)
    PROVE  [Pool!Next]_Pool!vars
<1> USE NullAssumption
<1>1. /\ caller \in [Callers -> CallerRecords] /\ conn \in [Conns -> ConnRecords]
      /\ slot \in [Slots -> SlotRecords]
      /\ registry \in [Servers -> Slots \cup {NoSlot}]
  BY DEF TypeOK
<1>2. CASE AcquireReady(c, n)
  <2> DEFINE k == slot[registry[n]].current
  <2>1. k \in Conns /\ conn[k].state = "ready"
    BY <1>1, <1>2 DEF AcquireReady, SlotRecords, CurrentIsReady
  <2>2. caller' = [caller EXCEPT ![c] = Working(k)]
        /\ conn' = [conn EXCEPT ![k] = Lease(@)]
    BY <1>2 DEF AcquireReady
  <2> HIDE DEF k
  <2>3. \A j \in Conns : conn'[j].state = conn[j].state
    BY <1>1, <2>1, <2>2 DEF Lease, ConnRecords
  <2> QED BY <1>1, <2>1, <2>2, <2>3, PoolTakes
<1>3. ASSUME NEW k, caller' = [caller EXCEPT ![c] = Waiting(n, k)]
      PROVE  \A x \in Callers : Holder(x)' = Holder(x)
  BY <1>1, <1>3 DEF Holder, Waiting
<1>4. CASE AcquireJoin(c, n)
  <2>1. \A k \in Conns : Stage(k)' = Stage(k)
    BY <1>4 DEF AcquireJoin, Stage
  <2> QED BY <1>3, <1>4, <2>1, PoolStutters DEF AcquireJoin
<1>5. CASE AcquireDial(c, n)
  <2>1. PICK k \in FreshConns :
           /\ conn' = [conn EXCEPT ![k] = Dialing(registry[n])]
           /\ caller' = [caller EXCEPT ![c] = Waiting(n, k)]
    BY <1>5 DEF AcquireDial
  <2>2. \A j \in Conns : Stage(j)' = Stage(j)
    BY <1>1, <2>1, FreshStage DEF Stage
  <2> QED BY <1>3, <2>1, <2>2, PoolStutters
<1>6. CASE AcquireRecycle(c, n)
  <2> DEFINE old == slot[registry[n]].current
  <2>1. PICK k \in FreshConns :
           /\ conn' = [conn EXCEPT ![old] = BeginDrain(@), ![k] = Dialing(registry[n])]
           /\ caller' = [caller EXCEPT ![c] = Waiting(n, k)]
    BY <1>6 DEF AcquireRecycle
  <2>2. old \in Conns /\ conn[old].state = "ready"
    BY <1>1, <1>6 DEF AcquireRecycle, SlotRecords, CurrentIsReady
  <2> HIDE DEF old
  <2>3. k # old
    BY <2>2, FreshStage
  <2>4. conn'[old] = BeginDrain(conn[old])
    BY <1>1, <2>1, <2>2, <2>3
  <2>5. \A j \in Conns \ {old} : Stage(j)' = Stage(j)
    BY <1>1, <2>1, <2>2, FreshStage DEF Stage
  <2> QED BY <1>1, <1>3, <2>1, <2>2, <2>4, <2>5, PoolRetires
<1> QED BY <1>2, <1>4, <1>5, <1>6 DEF Acquire

\* The end of a call gives its lease back.
LEMMA FinishImplements ==
    ASSUME Inv, LeasesCounted, NEW c \in Callers, NEW invalidate \in BOOLEAN,
           FinishCall(c, invalidate)
    PROVE  Pool!Next
<1>0. PICK k \in Conns : k = caller[c].conn
  BY DEF FinishCall, CallerShape
<1>1. /\ caller \in [Callers -> CallerRecords] /\ conn \in [Conns -> ConnRecords]
  BY DEF TypeOK
<1> DEFINE ended == IF invalidate THEN BeginDrain(conn[k]) ELSE conn[k]
           after == Release(ended)
<1>2. caller[c].pc = "working" /\ conn[k] \in ConnRecords
  BY <1>1 DEF FinishCall
<1>3. conn' = [conn EXCEPT ![k] = after]
  BY <1>0 DEF FinishCall
<1>4. PICK next \in {Releasing(k), IdleCaller} :
         caller' = [caller EXCEPT ![c] = next]
  BY <1>0 DEF FinishCall
<1>5. next.pc # "working"
  BY <1>4 DEF Releasing, IdleCaller
<1>6. conn[k].calls # 0
      /\ (conn[k].calls - 1 = 0 <=> Pool!Holders(k) \ {c} = {})
  BY <1>0, <1>2, LastHolder
<1>7. /\ ended \in ConnRecords /\ ended.calls = conn[k].calls
      /\ ended.state = IF conn[k].state = "ready" /\ invalidate
                       THEN "draining" ELSE conn[k].state
  BY <1>2, <1>6, BeginDrainFacts
<1>8. after.state = IF ended.state = "draining" /\ conn[k].calls - 1 = 0
                    THEN "closed" ELSE ended.state
  <2> HIDE DEF ended
  <2>1. Release(ended).calls = conn[k].calls - 1
    BY <1>6, <1>7, ReleaseFacts
  <2> QED BY <1>7, <2>1, ReleaseFacts
<1> HIDE DEF after
<1>9. \A x \in Callers : Holder(x)' = IF x = c THEN NoConn ELSE Holder(x)
  BY <1>1, <1>4, <1>5 DEF Holder
<1>10. \A j \in Conns \ {k} : Stage(j)' = Stage(j)
  BY <1>1, <1>2, <1>3 DEF Stage
<1>11. Stage(k)' = IF Stage(k) = "retired" \/ (Stage(k) = "open" /\ invalidate)
                   THEN Pool!Left(k, Pool!Holders(k) \ {c}) ELSE Stage(k)
  <2>1. conn'[k].state = after.state
    BY <1>1, <1>2, <1>3
  <2> HIDE DEF ended
  <2>2. CASE conn[k].state = "draining" \/ (conn[k].state = "ready" /\ invalidate)
    <3>1. ended.state = "draining"
      BY <1>7, <2>2
    <3>2. Stage(k)' = IF Pool!Holders(k) \ {c} = {} THEN "closed" ELSE "retired"
      BY <1>6, <1>8, <2>1, <3>1 DEF Stage
    <3>3. Stage(k) = "retired" \/ (Stage(k) = "open" /\ invalidate)
      BY <2>2 DEF Stage
    <3> QED BY <3>2, <3>3 DEF Pool!Left
  <2>3. CASE ~(conn[k].state = "draining" \/ (conn[k].state = "ready" /\ invalidate))
    <3>1. conn'[k].state = conn[k].state
      BY <1>7, <1>8, <2>1, <2>3
    <3> QED BY <2>3, <3>1 DEF Stage
  <2> QED BY <2>2, <2>3
<1>12. Holder(c) = k /\ k # NoConn
  BY <1>0, <1>2, NullAssumption DEF Holder
<1>13. [j \in Conns |-> Stage(j)]' =
          [[j \in Conns |-> Stage(j)] EXCEPT ![k] =
              IF @ = "retired" \/ (@ = "open" /\ invalidate)
              THEN Pool!Left(k, Pool!Holders(k) \ {c}) ELSE @]
  BY <1>2, <1>10, <1>11
<1>14. Pool!Give(c, invalidate)
  BY <1>9, <1>12, <1>13 DEF Pool!Give
<1> QED BY <1>14 DEF Pool!Next

\* Each step of withClient is one of the pool, or none.
LEMMA CallerImplements ==
    ASSUME Inv, LeasesCounted, NEW c \in Callers, NEW invalidate \in BOOLEAN,
           \/ StartCall(c) \/ WakeWithLease(c) \/ WakeReacquire(c)
           \/ FinishCall(c, invalidate)
    PROVE  [Pool!Next]_Pool!vars
<1>1. /\ caller \in [Callers -> CallerRecords] /\ conn \in [Conns -> ConnRecords]
  BY DEF TypeOK
<1>2. CASE StartCall(c)
  BY <1>2, AcquireImplements DEF StartCall, WithClient
<1>3. CASE WakeWithLease(c)
  <2> DEFINE k == caller[c].conn
  <2>1. k \in Conns /\ caller[c].pc # "working" /\ conn[k].state = "ready"
    BY <1>3 DEF WakeWithLease, CallerShape
  <2>2. caller' = [caller EXCEPT ![c] = Working(k)]
        /\ conn' = [conn EXCEPT ![k] = Lease(@)]
    BY <1>3 DEF WakeWithLease
  <2> HIDE DEF k
  <2>3. \A j \in Conns : conn'[j].state = conn[j].state
    BY <1>1, <2>1, <2>2 DEF Lease, ConnRecords
  <2> QED BY <1>1, <2>1, <2>2, <2>3, PoolTakes
<1>4. CASE WakeReacquire(c)
  <2>1. caller[c].pc = "waiting" /\ caller[c].server \in Servers
    BY <1>4 DEF WakeReacquire, CallerShape
  <2>2. CASE Acquire(c, caller[c].server)
    BY <2>1, <2>2, AcquireImplements
  <2>3. CASE caller' = [caller EXCEPT ![c] = IdleCaller] /\ UNCHANGED conn
    <3>1. \A x \in Callers : Holder(x)' = Holder(x)
      BY <1>1, <2>1, <2>3 DEF Holder, IdleCaller
    <3>2. \A k \in Conns : Stage(k)' = Stage(k)
      BY <2>3 DEF Stage
    <3> QED BY <3>1, <3>2, PoolStutters
  <2> QED BY <1>4, <2>2, <2>3 DEF WakeReacquire
<1> QED BY <1>2, <1>3, <1>4, FinishImplements

\* Each step of a connection is one of the pool, or none.
LEMMA ConnImplements ==
    ASSUME Inv, LeasesCounted, NEW k \in Conns,
           \/ DialSucceeds(k) \/ DialFails(k) \/ AbortDone(k)
           \/ HardExpiry(k) \/ BackendExits(k) \/ CloseDone(k)
    PROVE  [Pool!Next]_Pool!vars
<1>1. /\ caller \in [Callers -> CallerRecords] /\ conn \in [Conns -> ConnRecords]
  BY DEF TypeOK
<1>2. \A c \in Callers : Holder(c)' = Holder(c)
  <2>1. \A c \in Callers : \/ caller'[c] = caller[c]
                           \/ caller'[c].pc # "working" /\ caller[c].pc # "working"
    BY <1>1, SMTT(30) DEF DialSucceeds, DialFails, AbortDone, HardExpiry, BackendExits,
                CloseDone, Dismiss, CallersIn, IdleCaller
  <2> QED BY <2>1 DEF Holder
<1>3. CASE DialSucceeds(k)
  <2>1. CASE conn' = [conn EXCEPT ![k].state = "aborting"]
    <3>1. conn[k].state = "dialing"
      BY <1>3 DEF DialSucceeds
    <3>2. \A j \in Conns : Stage(j)' = Stage(j)
      BY <1>1, <2>1, <3>1 DEF Stage, ConnRecords
    <3> QED BY <1>2, <3>2, PoolStutters
  <2>2. CASE conn' = [conn EXCEPT ![k].state = "ready"]
    <3>1. conn[k].state = "dialing" /\ conn[k].calls = 0
      BY <1>3 DEF DialSucceeds, ConnShape
    <3>2. \A j \in Conns : Stage(j)' = IF j = k THEN "open" ELSE Stage(j)
      BY <1>1, <2>2 DEF Stage, ConnRecords
    <3>3. Stage(k) = "closed" /\ Pool!Holders(k) = {}
      BY <3>1, CallsAreHolders DEF Stage
    <3>4. Pool!Open(k)
      BY <1>2, <3>2, <3>3 DEF Pool!Open
    <3> QED BY <3>4 DEF Pool!Next
  <2> QED BY <1>3, <2>1, <2>2 DEF DialSucceeds
<1>4. CASE DialFails(k)
  <2>1. \A j \in Conns : Stage(j)' = Stage(j)
    BY <1>1, <1>4 DEF DialFails, Stage, ConnRecords
  <2> QED BY <1>2, <2>1, PoolStutters
<1>5. CASE AbortDone(k) \/ CloseDone(k)
  <2>1. conn[k].state \in {"aborting", "closed"}
    BY <1>1, <1>5 DEF AbortDone, CloseDone, ConnShape
  <2>2. \A j \in Conns : IF j = k THEN conn'[j].state = "closed"
                         ELSE conn'[j] = conn[j]
    BY <1>1, <1>5 DEF AbortDone, CloseDone, NullConn
  <2>3. \A j \in Conns : Stage(j)' = Stage(j)
    BY <2>1, <2>2 DEF Stage
  <2> QED BY <1>2, <2>3, PoolStutters
<1>6. CASE HardExpiry(k)
  <2>1. conn[k].state = "ready" /\ conn' = [conn EXCEPT ![k] = BeginDrain(@)]
    BY <1>6 DEF HardExpiry
  <2>2. conn'[k] = BeginDrain(conn[k]) /\ conn[k] \in ConnRecords
    BY <1>1, <2>1
  <2>3. \A j \in Conns \ {k} : Stage(j)' = Stage(j)
    BY <1>1, <2>1 DEF Stage
  <2> QED BY <1>2, <2>1, <2>2, <2>3, PoolRetires
<1>7. CASE BackendExits(k)
  <2>1. conn' = [conn EXCEPT ![k] = [NullConn EXCEPT !.calls = conn[k].calls]]
    BY <1>7 DEF BackendExits
  <2>2. \A j \in Conns : Stage(j)' = IF j \in {k} THEN "closed" ELSE Stage(j)
    BY <1>1, <2>1 DEF Stage, NullConn
  <2>3. Pool!Lose({k})
    BY <1>2, <2>2 DEF Pool!Lose
  <2> QED BY <2>3 DEF Pool!Next
<1> QED BY <1>3, <1>4, <1>5, <1>6, <1>7

\* Slots and dials that are created serve nobody yet.
LEMMA LaunchImplements ==
    ASSUME Inv, NEW names, NEW cfgs, NEW f, NEW g,
           Launch(names, cfgs, f, g), UNCHANGED caller
    PROVE  UNCHANGED Pool!vars
<1>1. g \in [names -> FreshConns]
  BY DEF Launch, Injections
<1>2. \A k \in Conns : \/ conn'[k] = conn[k]
                       \/ k \in FreshConns /\ \E s : conn'[k] = Dialing(s)
  BY <1>1 DEF Launch, LaunchedConns
<1>3. \A k \in Conns : Stage(k)' = Stage(k)
  BY <1>2, FreshStage DEF Stage
<1> QED BY <1>3, PoolStutters DEF Holder

\* A teardown loses the connections it closes.
LEMMA TakeDownImplements ==
    ASSUME Inv, NEW down \in SUBSET Slots, TakeDown(down), UNCHANGED caller
    PROVE  [Pool!Next]_Pool!vars
<1> DEFINE lost == HeldBy(down)
<1>1. lost \in SUBSET Conns
  BY NullAssumption DEF HeldBy, Held, Draining, TypeOK, SlotRecords
<1>2. conn \in [Conns -> ConnRecords]
  BY DEF TypeOK
<1>3. conn' = [k \in Conns |-> IF k \in lost THEN Closing(conn[k]) ELSE conn[k]]
  BY DEF TakeDown
<1> HIDE DEF lost
<1>4. \A k \in Conns : Stage(k)' = IF k \in lost THEN "closed" ELSE Stage(k)
  BY <1>2, <1>3, ClosingFacts DEF Stage
<1>5. \A c \in Callers : Holder(c)' = Holder(c)
  BY DEF Holder
<1>6. CASE lost = {}
  BY <1>4, <1>5, <1>6, PoolStutters
<1>7. CASE lost # {}
  <2>1. Pool!Lose(lost)
    BY <1>4, <1>5, <1>7 DEF Pool!Lose
  <2> QED BY <1>1, <2>1 DEF Pool!Next
<1> QED BY <1>6, <1>7

\* Every step of the manager is a step of the pool or a stutter.
LEMMA NextImplements ==
    Inv /\ LeasesCounted /\ [Next]_vars => [Pool!Next]_Pool!vars
<1> SUFFICES ASSUME Inv, LeasesCounted, [Next]_vars
             PROVE  [Pool!Next]_Pool!vars
  OBVIOUS
<1> USE NullAssumption
<1>1. CASE InitializeServers
  BY <1>1, LaunchImplements DEF InitializeServers
<1>2. CASE Booted \/ EditConfig \/ Exit \/ Exited \/ UNCHANGED vars
  <2>1. UNCHANGED <<conn, caller>>
    BY <1>2 DEF Booted, EditConfig, Exit, Exited, vars
  <2> QED BY <2>1, PoolStutters DEF Stage, Holder
<1>3. CASE Shutdown
  <2>1. {registry[n] : n \in Servers} \ {NoSlot} \in SUBSET Slots
    BY DEF TypeOK
  <2> QED BY <1>3, <2>1, TakeDownImplements DEF Shutdown
<1>4. ASSUME NEW s \in Slots, RetryFires(s) PROVE [Pool!Next]_Pool!vars
  <2>1. UNCHANGED conn \/ \E k \in FreshConns :
                             conn' = [conn EXCEPT ![k] = Dialing(s)]
    BY <1>4 DEF RetryFires
  <2>2. \A k \in Conns : Stage(k)' = Stage(k)
    BY <2>1, FreshStage DEF TypeOK, Stage
  <2> QED BY <1>4, <2>2, PoolStutters DEF RetryFires, Holder
<1>5. ASSUME NEW r \in Reloads,
             StartReload(r) \/ TeardownNext(r) \/ LaunchConnects(r)
      PROVE  [Pool!Next]_Pool!vars
  <2>1. \A n \in Servers : {registry[n]} \ {NoSlot} \in SUBSET Slots
    BY DEF TypeOK
  <2>2. ASSUME NEW n \in Servers, Teardown(n), UNCHANGED caller
        PROVE  [Pool!Next]_Pool!vars
    BY <2>1, <2>2, TakeDownImplements DEF Teardown
  <2>3. CASE StartReload(r)
    BY <2>2, <2>3, LaunchImplements DEF StartReload, NextTeardown
  <2>4. CASE TeardownNext(r)
    BY <2>2, <2>4 DEF TeardownNext, NextTeardown, TypeOK, ReloadRecords
  <2>5. CASE LaunchConnects(r)
    BY <2>5, LaunchImplements DEF LaunchConnects
  <2> QED BY <1>5, <2>3, <2>4, <2>5
<1> QED BY <1>1, <1>2, <1>3, <1>4, <1>5, CallerImplements, ConnImplements
        DEF Next, ManagerStep

\* Nobody holds anything before the start.
LEMMA InitImplements == Init => Pool!Init
BY DEF Init, Pool!Init, Stage, Holder, NullConn, IdleCaller

(* The connection manager implements LeasePool, for any number of servers,   *)
(* callers, connections and overlapping reloads: a call starts only on a     *)
(* connection in service, a drained connection is never leased again and is *)
(* closed by its last lease (withClient, beginDrain, releaseConnection).     *)
THEOREM SpecImplementsPool == Spec => ImplementsPool
<1>1. Inv /\ LeasesCounted /\ [Next]_vars => [Pool!Next]_Pool!vars
  BY NextImplements
<1>2. Spec => [](Inv /\ LeasesCounted)
  BY SpecInv, SpecLeasesCounted, PTL
<1>3. Init => Pool!Init
  BY InitImplements
<1> QED BY <1>1, <1>2, <1>3, PTL DEF Spec, ImplementsPool, Pool!Spec

=============================================================================
