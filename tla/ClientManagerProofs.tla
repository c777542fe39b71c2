------------------------ MODULE ClientManagerProofs ------------------------
(* Safety of ClientManager for every value of the constants.               *)
EXTENDS ClientManager, TLAPS

\* The definitions of the properties and of the shapes that support them.
USE DEF Inv, Safety

-----------------------------------------------------------------------------
(* The record updates.                                                     *)

\* beginDrain keeps the calls; it touches only a ready connection, which it
\* closes when idle and drains otherwise.
LEMMA BeginDrainFacts ==
    ASSUME NEW rec \in ConnRecords
    PROVE  /\ BeginDrain(rec) \in ConnRecords
           /\ BeginDrain(rec).slot = rec.slot
           /\ BeginDrain(rec).calls = rec.calls
           /\ rec.state # "ready" => BeginDrain(rec) = rec
           /\ rec.state = "ready" =>
                IF rec.calls = 0
                THEN BeginDrain(rec).state = "closed" /\ BeginDrain(rec).closing
                ELSE /\ BeginDrain(rec).state = "draining"
                     /\ BeginDrain(rec).closing = rec.closing
BY DEF BeginDrain, Closing, ConnRecords

\* releaseConnection gives one lease back, and closes a draining connection
\* with its last one.
LEMMA ReleaseFacts ==
    ASSUME NEW rec \in ConnRecords
    PROVE  /\ Release(rec) \in ConnRecords
           /\ Release(rec).slot = rec.slot
           /\ Release(rec).calls = IF rec.calls = 0 THEN 0 ELSE rec.calls - 1
           /\ IF rec.state = "draining" /\ Release(rec).calls = 0
              THEN Release(rec).state = "closed" /\ Release(rec).closing
              ELSE /\ Release(rec).state = rec.state
                   /\ Release(rec).closing = rec.closing
<1> DEFINE left == IF rec.calls = 0 THEN 0 ELSE rec.calls - 1
           after == [rec EXCEPT !.calls = left]
<1>1. /\ after \in ConnRecords
      /\ after.slot = rec.slot /\ after.calls = left
      /\ after.state = rec.state /\ after.closing = rec.closing
  BY DEF ConnRecords
<1>2. /\ Closing(after) \in ConnRecords
      /\ Closing(after).slot = rec.slot /\ Closing(after).calls = left
      /\ Closing(after).state = "closed" /\ Closing(after).closing
  <2> HIDE DEF after, left
  <2> QED BY <1>1 DEF Closing, ConnRecords
<1> QED BY <1>1, <1>2 DEF Release

\* scheduleReconnect touches only the retry of a slot, and leaves one
\* pending on a slot in use.
LEMMA ScheduleReconnectFacts ==
    ASSUME NEW s \in Slots, NEW rec \in SlotRecords, NEW out,
           out = ScheduleReconnect(s, rec)
    PROVE  /\ out \in SlotRecords
           /\ out.server = rec.server /\ out.config = rec.config
           /\ out.current = rec.current /\ out.attempt = rec.attempt
           /\ out.retrying = rec.retrying /\ out.disposed = rec.disposed
           /\ rec.disposed => out = rec
           /\ Registered(s) /\ ~shuttingDown /\ ~rec.disposed => out.retry
BY DEF ScheduleReconnect, SlotRecords

\* Dropping a connection from its slot changes nothing but current.
LEMMA WithoutCurrentFacts ==
    ASSUME NEW rec \in SlotRecords, NEW k, NEW out, out = WithoutCurrent(rec, k)
    PROVE  /\ out \in SlotRecords
           /\ out.server = rec.server /\ out.config = rec.config
           /\ out.current = IF rec.current = k THEN NoConn ELSE rec.current
           /\ out.attempt = rec.attempt /\ out.retry = rec.retry
           /\ out.retrying = rec.retrying /\ out.backoff = rec.backoff
           /\ out.disposed = rec.disposed
BY DEF WithoutCurrent, SlotRecords

\* The end of an attempt clears connectPromise and whoever retried.
LEMMA AttemptOverFacts ==
    ASSUME NEW rec \in SlotRecords, NEW out,
           out = [rec EXCEPT !.attempt = NoConn, !.retrying = FALSE]
    PROVE  /\ out \in SlotRecords
           /\ out.server = rec.server /\ out.current = rec.current
           /\ out.attempt = NoConn
           /\ out.retry <=> rec.retry
           /\ ~out.retrying
           /\ out.backoff <=> rec.backoff
           /\ out.disposed <=> rec.disposed
BY DEF SlotRecords

\* closeConnection marks the connection closed and keeps its calls.
LEMMA ClosingFacts ==
    ASSUME NEW rec \in ConnRecords
    PROVE  /\ Closing(rec) \in ConnRecords
           /\ Closing(rec).slot = rec.slot /\ Closing(rec).calls = rec.calls
           /\ Closing(rec).state = "closed" /\ Closing(rec).closing
BY DEF Closing, ConnRecords

\* What teardownSlot leaves of a slot.
LEMMA DisposedFacts ==
    ASSUME NEW rec \in SlotRecords, NEW out,
           out = [rec EXCEPT !.disposed = TRUE, !.retry = FALSE, !.current = NoConn]
    PROVE  /\ out \in SlotRecords
           /\ out.server = rec.server /\ out.current = NoConn
           /\ out.attempt = rec.attempt
           /\ out.disposed /\ ~out.retry
           /\ out.retrying <=> rec.retrying
           /\ out.backoff <=> rec.backoff
BY DEF SlotRecords

\* A process that has just started satisfies the invariant.
LEMMA InitInv == Init => Inv
<1> SUFFICES ASSUME Init PROVE Inv
  OBVIOUS
<1> USE ConfigAssumption, NullAssumption DEF Init, NullSlot, NullConn, IdleCaller, IdleReload
<1>1. TypeOK
  BY DEF TypeOK, SlotRecords, ConnRecords, CallerRecords, ReloadRecords,
     ConfigFiles, Phases
<1>2. RecycleWaitsForCalls /\ DrainingHasCalls /\ ReadyIsCurrent /\ CurrentIsReady
  BY DEF RecycleWaitsForCalls, DrainingHasCalls, ReadyIsCurrent, CurrentIsReady
<1>3. SingleFlight /\ AttemptIsDialing /\ DisposedIsInert /\ RetryOwed
  BY DEF SingleFlight, AttemptIsDialing, DisposedIsInert, RetryOwed
<1>4. ConnShape /\ RegistryShape /\ RetryShape /\ CallerShape /\ ReloadShape
  BY DEF ConnShape, RegistryShape, RetryShape, CallerShape, ReloadShape
<1> QED BY <1>1, <1>2, <1>3, <1>4

-----------------------------------------------------------------------------
(* One lemma per step: it preserves the inductive invariant.              *)

\* The hard age limit drains the connection and frees its slot for a new
\* dial.
LEMMA HardExpiryInv ==
    ASSUME NEW k \in Conns, Inv, HardExpiry(k)
    PROVE  Inv'
<1> USE NullAssumption
<1>1. slot \in [Slots -> SlotRecords] /\ conn \in [Conns -> ConnRecords]
      /\ registry \in [Servers -> Slots \cup {NoSlot}]
  BY DEF TypeOK
<1>2. /\ conn[k].slot \in Slots
      /\ slot[conn[k].slot].current = k
      /\ conn[k].state = "ready"
  BY <1>1 DEF HardExpiry, ConnShape, ReadyIsCurrent
<1>3. UNCHANGED <<wanted, edits, registry, caller, reload, main>>
  BY DEF HardExpiry
<1>4. /\ conn' = [conn EXCEPT ![k] = BeginDrain(conn[k])]
      /\ slot' = [slot EXCEPT ![conn[k].slot] = WithoutCurrent(slot[conn[k].slot], k)]
  BY DEF HardExpiry
<1>5. /\ slot' \in [Slots -> SlotRecords]
      /\ \A s \in Slots \ {conn[k].slot} : slot'[s] = slot[s]
      /\ LET s == conn[k].slot IN
            /\ slot'[s].server = slot[s].server
            /\ slot'[s].current = NoConn
            /\ slot'[s].attempt = slot[s].attempt
            /\ slot'[s].retry <=> slot[s].retry
            /\ slot'[s].retrying <=> slot[s].retrying
            /\ slot'[s].backoff <=> slot[s].backoff
            /\ slot'[s].disposed <=> slot[s].disposed
  BY <1>1, <1>2, <1>4, WithoutCurrentFacts
<1>6. /\ conn' \in [Conns -> ConnRecords]
      /\ \A j \in Conns \ {k} : conn'[j] = conn[j]
      /\ conn'[k].slot = conn[k].slot /\ conn'[k].calls = conn[k].calls
      /\ \/ conn[k].calls = 0 /\ conn'[k].state = "closed" /\ conn'[k].closing
         \/ /\ conn[k].calls # 0 /\ conn'[k].state = "draining"
            /\ conn'[k].closing = conn[k].closing
  BY <1>1, <1>2, <1>4, BeginDrainFacts
<1>7. /\ shuttingDown' <=> shuttingDown
      /\ \A t \in Slots : Registered(t)' <=> Registered(t)
  BY <1>3, <1>5 DEF shuttingDown, Registered
<1>8. TypeOK'
  BY <1>3, <1>5, <1>6 DEF TypeOK, CallerRecords, ReloadRecords
<1>9. RecycleWaitsForCalls' /\ DrainingHasCalls'
  BY <1>1, <1>2, <1>5, <1>6 DEF RecycleWaitsForCalls, ConnShape, ConnRecords,
     DrainingHasCalls
<1>10. ConnShape'
  BY <1>1, <1>2, <1>5, <1>6 DEF ConnShape, ConnRecords
<1>11. ReadyIsCurrent'
  BY <1>1, <1>2, <1>5, <1>6 DEF ReadyIsCurrent, ConnShape
<1>12. CurrentIsReady'
  BY <1>1, <1>2, <1>5, <1>6 DEF CurrentIsReady, SlotRecords
<1>13. SingleFlight'
  BY <1>1, <1>2, <1>5, <1>6 DEF SingleFlight, ConnShape
<1>14. AttemptIsDialing'
  BY <1>1, <1>2, <1>5, <1>6 DEF AttemptIsDialing, SlotRecords
<1>15. DisposedIsInert' /\ RetryOwed'
  BY <1>1, <1>2, <1>5, <1>7 DEF DisposedIsInert, RetryOwed
<1>16. RegistryShape'
  BY <1>1, <1>2, <1>3, <1>5 DEF RegistryShape
<1>17. RetryShape'
  BY <1>1, <1>2, <1>5 DEF RetryShape
<1>18. CallerShape' /\ ReloadShape'
  BY <1>3, <1>6 DEF CallerShape, CallerRecords, ReloadShape, ReloadRecords
<1> QED BY <1>8, <1>9, <1>10, <1>11, <1>12, <1>13, <1>14, <1>15, <1>16, <1>17,
           <1>18

(* A dial that failed, or succeeded too late, is being torn down.          *)
LEMMA AbandonInv ==
    ASSUME NEW k \in Conns, Inv, conn[k].state = "dialing",
           conn' = [conn EXCEPT ![k].state = "aborting"],
           UNCHANGED <<wanted, edits, registry, slot, caller, reload, main>>
    PROVE  Inv'
<1> USE NullAssumption
<1>1. slot \in [Slots -> SlotRecords] /\ conn \in [Conns -> ConnRecords]
      /\ registry \in [Servers -> Slots \cup {NoSlot}]
  BY DEF TypeOK
<1>2. /\ conn[k].slot \in Slots
  BY <1>1 DEF ConnShape
<1>3. UNCHANGED <<wanted, edits, registry, slot, caller, reload, main>>
  OBVIOUS
<1>4. /\ conn' \in [Conns -> ConnRecords]
      /\ \A j \in Conns \ {k} : conn'[j] = conn[j]
      /\ conn[k].state = "dialing" /\ conn'[k].state = "aborting"
      /\ conn'[k].slot = conn[k].slot /\ conn'[k].calls = conn[k].calls
      /\ conn'[k].closing = conn[k].closing
  BY <1>1 DEF ConnRecords
<1>5. /\ shuttingDown' <=> shuttingDown
      /\ \A t \in Slots : Registered(t)' <=> Registered(t)
  BY <1>3 DEF shuttingDown, Registered
<1>6. TypeOK'
  BY <1>3, <1>4 DEF TypeOK, CallerRecords, ReloadRecords
<1>7. RecycleWaitsForCalls' /\ DrainingHasCalls' /\ ConnShape'
  BY <1>1, <1>2, <1>3, <1>4 DEF RecycleWaitsForCalls, ConnShape, ConnRecords,
     DrainingHasCalls
<1>8. ReadyIsCurrent' /\ CurrentIsReady'
  BY <1>1, <1>2, <1>3, <1>4 DEF ReadyIsCurrent, ConnShape, CurrentIsReady,
     SlotRecords
<1>9. SingleFlight' /\ AttemptIsDialing'
  BY <1>1, <1>2, <1>3, <1>4 DEF SingleFlight, ConnShape, AttemptIsDialing,
     SlotRecords
<1>10. DisposedIsInert' /\ RetryOwed' /\ RegistryShape' /\ RetryShape'
      /\ CallerShape' /\ ReloadShape'
  BY <1>1, <1>2, <1>3, <1>4, <1>5 DEF DisposedIsInert, RetryOwed,
     RegistryShape, RetryShape, SlotRecords, CallerShape, CallerRecords,
     ReloadShape, ReloadRecords
<1> QED BY <1>6, <1>7, <1>8, <1>9, <1>10

\* A dial that failed or timed out is closed before its attempt ends.
LEMMA DialFailsInv == ASSUME NEW k \in Conns, Inv, DialFails(k) PROVE Inv'
BY AbandonInv DEF DialFails

(* A dial that succeeded in time becomes the slot's ready connection.      *)
LEMMA AdoptInv ==
    ASSUME NEW k \in Conns, Inv, DialSucceeds(k), ~Unwanted(conn[k].slot)
    PROVE  Inv'
<1> USE NullAssumption
<1>1. slot \in [Slots -> SlotRecords] /\ conn \in [Conns -> ConnRecords]
      /\ registry \in [Servers -> Slots \cup {NoSlot}]
  BY DEF TypeOK
<1>2. /\ conn[k].slot \in Slots
      /\ slot[conn[k].slot].attempt = k
      /\ slot[conn[k].slot].current = NoConn
      /\ conn[k].state = "dialing" /\ conn[k].calls = 0
      /\ ~slot[conn[k].slot].disposed
  BY <1>1 DEF DialSucceeds, ConnShape, SingleFlight, Unwanted
<1>3. UNCHANGED <<wanted, edits, registry, caller, reload>>
  BY DEF DialSucceeds
<1>4. main' \in [phase: Phases, awaits: SUBSET Conns] /\ main'.phase = main.phase
  BY DEF DialSucceeds, TypeOK
<1>5. /\ slot' \in [Slots -> SlotRecords]
      /\ \A s \in Slots \ {conn[k].slot} : slot'[s] = slot[s]
      /\ LET s == conn[k].slot IN
            /\ slot'[s].server = slot[s].server
            /\ slot'[s].current = k
            /\ slot'[s].attempt = NoConn
            /\ slot'[s].retry <=> slot[s].retry
            /\ ~slot'[s].retrying
            /\ ~slot'[s].backoff
            /\ slot'[s].disposed <=> slot[s].disposed
  BY <1>1, <1>2 DEF DialSucceeds, SlotRecords
<1>6. /\ conn' \in [Conns -> ConnRecords]
      /\ \A j \in Conns \ {k} : conn'[j] = conn[j]
      /\ conn'[k].state = "ready"
      /\ conn'[k].slot = conn[k].slot /\ conn'[k].calls = conn[k].calls
      /\ conn'[k].closing = conn[k].closing
  BY <1>1 DEF DialSucceeds, ConnRecords
<1>7. /\ shuttingDown' <=> shuttingDown
      /\ \A t \in Slots : Registered(t)' <=> Registered(t)
  BY <1>3, <1>4, <1>5 DEF shuttingDown, Registered
<1>8. TypeOK'
  BY <1>3, <1>4, <1>5, <1>6 DEF TypeOK, CallerRecords, ReloadRecords
<1>9. RecycleWaitsForCalls' /\ DrainingHasCalls'
  BY <1>1, <1>2, <1>5, <1>6 DEF RecycleWaitsForCalls, ConnShape, ConnRecords,
     DrainingHasCalls
<1>10. ConnShape'
  BY <1>1, <1>2, <1>5, <1>6 DEF ConnShape, ConnRecords
<1>11. ReadyIsCurrent'
  BY <1>1, <1>2, <1>5, <1>6 DEF ReadyIsCurrent, ConnShape
<1>12. CurrentIsReady'
  BY <1>1, <1>2, <1>5, <1>6 DEF CurrentIsReady, SlotRecords
<1>13. SingleFlight'
  BY <1>1, <1>2, <1>5, <1>6 DEF SingleFlight, ConnShape
<1>14. AttemptIsDialing'
  BY <1>1, <1>2, <1>5, <1>6 DEF AttemptIsDialing, SlotRecords
<1>15. DisposedIsInert' /\ RetryOwed'
  BY <1>1, <1>2, <1>5, <1>7 DEF DisposedIsInert, RetryOwed
<1>16. RegistryShape' /\ RetryShape'
  BY <1>1, <1>2, <1>3, <1>5 DEF RegistryShape, RetryShape, SlotRecords
<1>17. CallerShape' /\ ReloadShape'
  BY <1>3, <1>6 DEF CallerShape, CallerRecords, ReloadShape, ReloadRecords
<1> QED BY <1>8, <1>9, <1>10, <1>11, <1>12, <1>13, <1>14, <1>15, <1>16, <1>17

\* A dial that succeeds is adopted, or closed when nobody wants it any
\* more.
LEMMA DialSucceedsInv == ASSUME NEW k \in Conns, Inv, DialSucceeds(k) PROVE Inv'
<1>1. CASE Unwanted(conn[k].slot)
  BY <1>1, AbandonInv DEF DialSucceeds
<1>2. CASE ~Unwanted(conn[k].slot)
  BY <1>2, AdoptInv
<1> QED BY <1>1, <1>2

\* The end of an abandoned attempt schedules the retry the slot is owed.
LEMMA AbortDoneInv ==
    ASSUME NEW k \in Conns, Inv, AbortDone(k)
    PROVE  Inv'
<1> USE NullAssumption
<1>1. slot \in [Slots -> SlotRecords] /\ conn \in [Conns -> ConnRecords]
      /\ registry \in [Servers -> Slots \cup {NoSlot}]
  BY DEF TypeOK
<1>2. /\ conn[k].slot \in Slots
      /\ slot[conn[k].slot].attempt = k
      /\ slot[conn[k].slot].current = NoConn
      /\ conn[k].state = "aborting"
  BY <1>1 DEF AbortDone, ConnShape, SingleFlight
<1>3. UNCHANGED <<wanted, edits, registry, reload>>
  BY DEF AbortDone
<1>4. main' \in [phase: Phases, awaits: SUBSET Conns] /\ main'.phase = main.phase
  BY DEF AbortDone, TypeOK
<1>5. /\ caller' \in [Callers -> CallerRecords]
      /\ \A c \in Callers : caller'[c] # caller[c] => caller'[c].pc = "idle"
  BY DEF AbortDone, TypeOK, Dismiss, IdleCaller, CallerRecords
<1>6. /\ conn' \in [Conns -> ConnRecords]
      /\ \A j \in Conns \ {k} : conn'[j] = conn[j]
      /\ conn'[k].slot = NoSlot /\ conn'[k].state = "closed"
      /\ conn'[k].calls = 0 /\ ~conn'[k].closing
  BY <1>1 DEF AbortDone, NullConn, ConnRecords
<1>7. PICK over \in SlotRecords :
           over = [slot[conn[k].slot] EXCEPT !.attempt = NoConn, !.retrying = FALSE]
  <2>1. [slot[conn[k].slot] EXCEPT !.attempt = NoConn, !.retrying = FALSE] \in SlotRecords
    BY <1>1, <1>2, AttemptOverFacts
  <2> QED BY <2>1
<1>8. slot' = [slot EXCEPT ![conn[k].slot] =
                       IF slot[conn[k].slot].retrying
                       THEN ScheduleReconnect(conn[k].slot, over) ELSE over]
  BY <1>7 DEF AbortDone
<1>9. /\ over.server = slot[conn[k].slot].server
      /\ over.current = NoConn /\ over.attempt = NoConn
      /\ over.retry <=> slot[conn[k].slot].retry
      /\ over.retrying <=> FALSE
      /\ over.backoff <=> slot[conn[k].slot].backoff
      /\ over.disposed <=> slot[conn[k].slot].disposed
  BY <1>1, <1>2, <1>7 DEF SlotRecords
<1>10. /\ slot' = [slot EXCEPT ![conn[k].slot] = slot'[conn[k].slot]]
       /\ slot'[conn[k].slot] \in SlotRecords
       /\ slot'[conn[k].slot].server = slot[conn[k].slot].server
       /\ slot'[conn[k].slot].current = NoConn
       /\ slot'[conn[k].slot].attempt = NoConn
       /\ slot'[conn[k].slot].retrying <=> FALSE
       /\ slot'[conn[k].slot].disposed <=> slot[conn[k].slot].disposed
       /\ slot'[conn[k].slot].disposed =>
             (slot'[conn[k].slot].retry <=> slot[conn[k].slot].retry)
       /\ slot'[conn[k].slot].backoff /\ Registered(conn[k].slot) /\ ~shuttingDown
             => slot'[conn[k].slot].retry
  <2>1. CASE slot[conn[k].slot].retrying
    <3>1. /\ slot' = [slot EXCEPT ![conn[k].slot] = slot'[conn[k].slot]]
          /\ slot'[conn[k].slot] = ScheduleReconnect(conn[k].slot, over)
      BY <1>1, <1>2, <1>8, <2>1
    <3>2. Registered(conn[k].slot) => ~over.disposed
      BY <1>2, <1>9 DEF DisposedIsInert
    <3> QED BY <1>2, <1>9, <3>1, <3>2, ScheduleReconnectFacts
  <2>2. CASE ~slot[conn[k].slot].retrying
    <3>1. /\ slot' = [slot EXCEPT ![conn[k].slot] = slot'[conn[k].slot]]
          /\ slot'[conn[k].slot] = over
      BY <1>1, <1>2, <1>8, <2>2
    <3> QED BY <1>2, <1>9, <2>2, <3>1 DEF RetryOwed
  <2> QED BY <2>1, <2>2
<1>11. /\ slot' \in [Slots -> SlotRecords]
       /\ \A s \in Slots \ {conn[k].slot} : slot'[s] = slot[s]
       /\ LET s == conn[k].slot IN
             /\ slot'[s].server = slot[s].server
             /\ slot'[s].current = NoConn
             /\ slot'[s].attempt = NoConn
             /\ ~slot'[s].retrying
             /\ slot'[s].disposed <=> slot[s].disposed
  BY <1>1, <1>2, <1>10
<1>12. LET s == conn[k].slot IN
          /\ slot'[s].disposed => (slot'[s].retry <=> slot[s].retry)
          /\ slot'[s].backoff /\ Registered(s) /\ ~shuttingDown => slot'[s].retry
  BY <1>10
<1>13. /\ shuttingDown' <=> shuttingDown
       /\ \A s \in Slots : Registered(s)' <=> Registered(s)
  BY <1>3, <1>4, <1>11 DEF shuttingDown, Registered
<1>14. TypeOK'
  BY <1>3, <1>4, <1>5, <1>6, <1>11 DEF TypeOK, CallerRecords, ReloadRecords
<1>15. RecycleWaitsForCalls' /\ DrainingHasCalls'
  BY <1>1, <1>2, <1>6, <1>11 DEF RecycleWaitsForCalls, ConnShape, ConnRecords,
     DrainingHasCalls
<1>16. ConnShape'
  BY <1>1, <1>2, <1>6, <1>11 DEF ConnShape, ConnRecords
<1>17. ReadyIsCurrent'
  BY <1>1, <1>2, <1>6, <1>11 DEF ReadyIsCurrent, ConnShape
<1>18. CurrentIsReady'
  BY <1>1, <1>2, <1>6, <1>11 DEF CurrentIsReady, SlotRecords
<1>19. SingleFlight'
  BY <1>1, <1>2, <1>6, <1>11 DEF SingleFlight, ConnShape
<1>20. AttemptIsDialing'
  BY <1>1, <1>2, <1>6, <1>11 DEF AttemptIsDialing, SlotRecords
<1>21. DisposedIsInert' /\ RetryOwed'
  BY <1>1, <1>2, <1>11, <1>12, <1>13 DEF DisposedIsInert, RetryOwed
<1>22. RegistryShape' /\ RetryShape'
  BY <1>1, <1>2, <1>3, <1>11 DEF RegistryShape, RetryShape, SlotRecords
<1>23. CallerShape' /\ ReloadShape'
  BY <1>3, <1>5, <1>6 DEF CallerShape, CallerRecords, ReloadShape, ReloadRecords
<1> QED BY <1>14, <1>15, <1>16, <1>17, <1>18, <1>19, <1>20, <1>21, <1>22, <1>23

\* handleDrop clears the slot and schedules a retry, or ignores a
\* connection that is no longer current.
LEMMA BackendExitsInv ==
    ASSUME NEW k \in Conns, Inv, BackendExits(k)
    PROVE  Inv'
<1> USE NullAssumption
<1>1. slot \in [Slots -> SlotRecords] /\ conn \in [Conns -> ConnRecords]
      /\ registry \in [Servers -> Slots \cup {NoSlot}]
  BY DEF TypeOK
<1>2. /\ conn[k].slot \in Slots
      /\ slot[conn[k].slot].current = k /\ slot[conn[k].slot].attempt = NoConn
      /\ conn[k].state = "ready"
      /\ Registered(conn[k].slot) /\ ~shuttingDown /\ ~slot[conn[k].slot].disposed
  BY <1>1 DEF BackendExits, ConnShape, SingleFlight, AttemptIsDialing,
     Unwanted, SlotRecords
<1>3. UNCHANGED <<wanted, edits, registry, caller, reload, main>>
  BY DEF BackendExits
<1>4. /\ conn' \in [Conns -> ConnRecords]
      /\ \A j \in Conns \ {k} : conn'[j] = conn[j]
      /\ conn'[k].slot = NoSlot /\ conn'[k].state = "closed"
      /\ ~conn'[k].closing
  BY <1>1 DEF BackendExits, NullConn, ConnRecords
<1>5. PICK over \in SlotRecords : over = [slot[conn[k].slot] EXCEPT !.current = NoConn]
  <2>1. [slot[conn[k].slot] EXCEPT !.current = NoConn] \in SlotRecords
    BY <1>1, <1>2 DEF SlotRecords
  <2> QED BY <2>1
<1>6. slot' = [slot EXCEPT ![conn[k].slot] = ScheduleReconnect(conn[k].slot, over)]
  BY <1>5 DEF BackendExits
<1>7. /\ over.server = slot[conn[k].slot].server
      /\ over.current = NoConn /\ over.attempt = NoConn
      /\ over.retry <=> slot[conn[k].slot].retry
      /\ over.retrying <=> slot[conn[k].slot].retrying
      /\ over.backoff <=> slot[conn[k].slot].backoff
      /\ over.disposed <=> slot[conn[k].slot].disposed
  BY <1>1, <1>2, <1>5 DEF SlotRecords
<1>8. /\ slot' \in [Slots -> SlotRecords]
      /\ \A s \in Slots \ {conn[k].slot} : slot'[s] = slot[s]
      /\ LET s == conn[k].slot IN
            /\ slot'[s].server = slot[s].server
            /\ slot'[s].current = NoConn
            /\ slot'[s].attempt = slot[s].attempt
            /\ slot'[s].retry
            /\ slot'[s].retrying <=> slot[s].retrying
            /\ slot'[s].disposed <=> slot[s].disposed
  <2>1. /\ slot'[conn[k].slot] = ScheduleReconnect(conn[k].slot, over)
        /\ \A s \in Slots \ {conn[k].slot} : slot'[s] = slot[s]
        /\ slot' = [slot EXCEPT ![conn[k].slot] = slot'[conn[k].slot]]
    BY <1>1, <1>2, <1>6
  <2>2. /\ slot'[conn[k].slot] \in SlotRecords
        /\ LET out == slot'[conn[k].slot] IN
              /\ out.server = over.server /\ out.current = NoConn
              /\ out.attempt = over.attempt /\ out.retry
              /\ out.retrying <=> over.retrying
              /\ out.disposed <=> over.disposed
    BY <1>2, <1>7, <2>1, ScheduleReconnectFacts
  <2> QED BY <1>1, <1>2, <1>7, <2>1, <2>2
<1>9. /\ shuttingDown' <=> shuttingDown
      /\ \A t \in Slots : Registered(t)' <=> Registered(t)
  BY <1>3, <1>8 DEF shuttingDown, Registered
<1>10. TypeOK'
  BY <1>3, <1>4, <1>8 DEF TypeOK, CallerRecords, ReloadRecords
<1>11. RecycleWaitsForCalls' /\ DrainingHasCalls'
  BY <1>1, <1>2, <1>4, <1>8 DEF RecycleWaitsForCalls, ConnShape, ConnRecords,
     DrainingHasCalls
<1>12. ConnShape'
  BY <1>1, <1>2, <1>4, <1>8 DEF ConnShape, ConnRecords
<1>13. ReadyIsCurrent'
  BY <1>1, <1>2, <1>4, <1>8 DEF ReadyIsCurrent, ConnShape
<1>14. CurrentIsReady'
  BY <1>1, <1>2, <1>4, <1>8 DEF CurrentIsReady, SlotRecords
<1>15. SingleFlight'
  BY <1>1, <1>2, <1>4, <1>8 DEF SingleFlight, ConnShape
<1>16. AttemptIsDialing'
  BY <1>1, <1>2, <1>4, <1>8 DEF AttemptIsDialing, SlotRecords
<1>17. DisposedIsInert' /\ RetryOwed'
  BY <1>1, <1>2, <1>8, <1>9 DEF DisposedIsInert, RetryOwed
<1>18. RegistryShape' /\ RetryShape'
  BY <1>1, <1>2, <1>3, <1>8 DEF RegistryShape, RetryShape, SlotRecords
<1>19. CallerShape' /\ ReloadShape'
  BY <1>3, <1>4 DEF CallerShape, CallerRecords, ReloadShape, ReloadRecords
<1> QED BY <1>10, <1>11, <1>12, <1>13, <1>14, <1>15, <1>16, <1>17, <1>18, <1>19

\* The end of a close takes the connection out of whatever awaited it.
LEMMA CloseDoneInv ==
    ASSUME NEW k \in Conns, Inv, CloseDone(k)
    PROVE  Inv'
<1> USE NullAssumption
<1>1. slot \in [Slots -> SlotRecords] /\ conn \in [Conns -> ConnRecords]
      /\ registry \in [Servers -> Slots \cup {NoSlot}]
  BY DEF TypeOK
<1>2. conn[k].state = "closed"
  BY <1>1 DEF CloseDone, ConnShape, ConnRecords
<1>3. UNCHANGED <<wanted, edits, registry, slot>>
  BY DEF CloseDone
<1>4. main' \in [phase: Phases, awaits: SUBSET Conns] /\ main'.phase = main.phase
  BY DEF CloseDone, TypeOK
<1>5. /\ caller' \in [Callers -> CallerRecords]
      /\ \A c \in Callers : caller'[c] # caller[c] => caller'[c].pc = "idle"
  BY DEF CloseDone, TypeOK, Dismiss, IdleCaller, CallerRecords
<1>6. /\ conn' \in [Conns -> ConnRecords]
      /\ \A j \in Conns \ {k} : conn'[j] = conn[j]
      /\ conn'[k].slot = NoSlot /\ conn'[k].state = "closed"
      /\ ~conn'[k].closing
  BY <1>1 DEF CloseDone, NullConn, ConnRecords
<1>7. /\ reload' \in [Reloads -> ReloadRecords]
      /\ \A r \in Reloads : /\ reload'[r].connect = reload[r].connect
                            /\ reload'[r].desired = reload[r].desired
  <2>1. /\ reload \in [Reloads -> ReloadRecords]
        /\ \A r \in Reloads :
              reload'[r] = [reload[r] EXCEPT !.awaits = @ \ {k}]
        /\ reload' = [r \in Reloads |-> reload'[r]]
    BY DEF CloseDone, TypeOK
  <2>2. \A r \in Reloads : /\ reload'[r] \in ReloadRecords
                           /\ reload'[r].connect = reload[r].connect
                           /\ reload'[r].desired = reload[r].desired
    BY <2>1 DEF ReloadRecords
  <2> QED BY <2>1, <2>2
<1>8. /\ shuttingDown' <=> shuttingDown
      /\ \A t \in Slots : Registered(t)' <=> Registered(t)
  BY <1>3, <1>4, <1>7 DEF shuttingDown, Registered
<1>9. TypeOK'
  BY <1>3, <1>4, <1>5, <1>6, <1>7 DEF TypeOK, CallerRecords, ReloadRecords
<1>10. RecycleWaitsForCalls' /\ DrainingHasCalls' /\ ConnShape'
  BY <1>1, <1>2, <1>3, <1>6 DEF RecycleWaitsForCalls, ConnShape, ConnRecords,
     DrainingHasCalls
<1>11. ReadyIsCurrent' /\ CurrentIsReady'
  BY <1>1, <1>2, <1>3, <1>6 DEF ReadyIsCurrent, ConnShape, CurrentIsReady,
     SlotRecords
<1>12. SingleFlight' /\ AttemptIsDialing'
  BY <1>1, <1>2, <1>3, <1>6 DEF SingleFlight, ConnShape, AttemptIsDialing,
     SlotRecords
<1>13. DisposedIsInert' /\ RetryOwed' /\ RegistryShape' /\ RetryShape'
      /\ CallerShape' /\ ReloadShape'
  BY <1>1, <1>2, <1>3, <1>5, <1>6, <1>7, <1>8 DEF DisposedIsInert, RetryOwed,
     RegistryShape, RetryShape, SlotRecords, CallerShape, CallerRecords,
     ReloadShape, ReloadRecords
<1> QED BY <1>9, <1>10, <1>11, <1>12, <1>13

\* acquireConnection counts the lease and changes nothing else.
LEMMA LeaseFacts ==
    ASSUME NEW rec \in ConnRecords
    PROVE  /\ Lease(rec) \in ConnRecords
           /\ Lease(rec).slot = rec.slot /\ Lease(rec).state = rec.state
           /\ Lease(rec).calls = rec.calls + 1
           /\ Lease(rec).closing <=> rec.closing
BY DEF Lease, ConnRecords

(* Taking a lease of a ready connection, at once or after the wait for it. *)
LEMMA LeaseInv ==
    ASSUME NEW c \in Callers, NEW k \in Conns, Inv, conn[k].state = "ready",
           conn' = [conn EXCEPT ![k] = Lease(conn[k])],
           caller' = [caller EXCEPT ![c] = Working(k)],
           UNCHANGED <<wanted, edits, registry, slot, reload, main>>
    PROVE  Inv'
<1> USE NullAssumption
<1>1. slot \in [Slots -> SlotRecords] /\ conn \in [Conns -> ConnRecords]
      /\ registry \in [Servers -> Slots \cup {NoSlot}]
  BY DEF TypeOK
<1>2. conn[k].state = "ready"
  OBVIOUS
<1>3. UNCHANGED <<wanted, edits, registry, slot, reload, main>>
  OBVIOUS
<1>4. /\ conn' \in [Conns -> ConnRecords]
      /\ \A j \in Conns \ {k} : conn'[j] = conn[j]
      /\ conn'[k].slot = conn[k].slot /\ conn'[k].state = conn[k].state
      /\ conn'[k].calls = conn[k].calls + 1
      /\ conn'[k].closing <=> conn[k].closing
      /\ conn[k].calls \in Nat
  BY <1>1, LeaseFacts DEF ConnRecords
<1>5. /\ caller' \in [Callers -> CallerRecords]
      /\ \A b \in Callers \ {c} : caller'[b] = caller[b]
      /\ caller'[c].pc = "working" /\ caller'[c].conn \in Conns
  BY DEF Working, CallerRecords, TypeOK
<1>6. /\ shuttingDown' <=> shuttingDown
      /\ \A t \in Slots : Registered(t)' <=> Registered(t)
  BY <1>3 DEF shuttingDown, Registered
<1>7. TypeOK'
  BY <1>3, <1>4, <1>5 DEF TypeOK, CallerRecords, ReloadRecords
<1>8. RecycleWaitsForCalls' /\ DrainingHasCalls' /\ ConnShape'
  BY <1>1, <1>2, <1>3, <1>4 DEF RecycleWaitsForCalls, ConnShape, ConnRecords,
     DrainingHasCalls
<1>9. ReadyIsCurrent' /\ CurrentIsReady'
  BY <1>1, <1>2, <1>3, <1>4 DEF ReadyIsCurrent, ConnShape, CurrentIsReady,
     SlotRecords
<1>10. SingleFlight' /\ AttemptIsDialing'
  BY <1>1, <1>2, <1>3, <1>4 DEF SingleFlight, ConnShape, AttemptIsDialing,
     SlotRecords
<1>11. DisposedIsInert' /\ RetryOwed' /\ RegistryShape' /\ RetryShape'
      /\ CallerShape' /\ ReloadShape'
  BY <1>1, <1>2, <1>3, <1>4, <1>5, <1>6 DEF DisposedIsInert, RetryOwed,
     RegistryShape, RetryShape, SlotRecords, CallerShape, CallerRecords,
     ReloadShape, ReloadRecords
<1> QED BY <1>7, <1>8, <1>9, <1>10, <1>11

\* A caller that awaited a dial leases the connection it produced.
LEMMA WakeWithLeaseInv == ASSUME NEW c \in Callers, Inv, WakeWithLease(c) PROVE Inv'
<1>1. caller[c].conn \in Conns
  BY DEF WakeWithLease, CallerShape
<1> QED BY <1>1, LeaseInv DEF WakeWithLease

\* A caller leases the connection that is ready.
LEMMA AcquireReadyInv ==
    ASSUME NEW c \in Callers, NEW n \in Servers, Inv, AcquireReady(c, n),
           UNCHANGED <<wanted, edits, registry, reload, main>>
    PROVE  Inv'
<1>1. slot[registry[n]].current \in Conns
  BY DEF AcquireReady, TypeOK, SlotRecords
<1>2. conn[slot[registry[n]].current].state = "ready"
  BY <1>1 DEF AcquireReady, TypeOK, CurrentIsReady
<1> QED BY <1>1, <1>2, LeaseInv DEF AcquireReady

\* A caller joins the attempt in flight.
LEMMA AcquireJoinInv ==
    ASSUME NEW c \in Callers, NEW n \in Servers, Inv, AcquireJoin(c, n),
           UNCHANGED <<wanted, edits, registry, reload, main>>
    PROVE  Inv'
<1> USE NullAssumption
<1>1. slot \in [Slots -> SlotRecords] /\ conn \in [Conns -> ConnRecords]
      /\ registry \in [Servers -> Slots \cup {NoSlot}]
  BY DEF TypeOK
<1>2. UNCHANGED <<wanted, edits, registry, slot, conn, reload, main>>
  BY DEF AcquireJoin
<1>3. slot[registry[n]].attempt \in Conns
  BY <1>1 DEF AcquireJoin, SlotRecords
<1>4. /\ caller' \in [Callers -> CallerRecords]
      /\ \A b \in Callers \ {c} : caller'[b] = caller[b]
      /\ caller'[c].pc = "waiting" /\ caller'[c].conn \in Conns /\ caller'[c].server \in Servers
  BY <1>1, <1>3 DEF AcquireJoin, Waiting, CallerRecords, TypeOK
<1>5. /\ shuttingDown' <=> shuttingDown
      /\ \A t \in Slots : Registered(t)' <=> Registered(t)
  BY <1>2 DEF shuttingDown, Registered
<1>6. TypeOK'
  BY <1>2, <1>4 DEF TypeOK, CallerRecords, ReloadRecords
<1>7. RecycleWaitsForCalls' /\ DrainingHasCalls' /\ ConnShape'
  BY <1>1, <1>2 DEF RecycleWaitsForCalls, ConnShape, ConnRecords,
     DrainingHasCalls
<1>8. ReadyIsCurrent' /\ CurrentIsReady'
  BY <1>1, <1>2 DEF ReadyIsCurrent, ConnShape, CurrentIsReady, SlotRecords
<1>9. SingleFlight' /\ AttemptIsDialing' /\ DisposedIsInert'
  BY <1>1, <1>2, <1>5 DEF SingleFlight, ConnShape, AttemptIsDialing,
     SlotRecords, DisposedIsInert
<1>10. RetryOwed' /\ RegistryShape' /\ RetryShape'
  BY <1>1, <1>2, <1>5 DEF RetryOwed, RegistryShape, RetryShape, SlotRecords
<1>11. CallerShape' /\ ReloadShape'
  BY <1>2, <1>4 DEF CallerShape, CallerRecords, ReloadShape, ReloadRecords
<1> QED BY <1>6, <1>7, <1>8, <1>9, <1>10, <1>11

(* A slot without a connection or an attempt starts a dial on a free id.   *)
LEMMA DialInv ==
    ASSUME NEW s \in Slots, NEW k \in FreshConns, Inv,
           slot[s].server \in Servers, ~slot[s].disposed, ~shuttingDown,
           slot[s].current = NoConn, slot[s].attempt = NoConn,
           conn' = [conn EXCEPT ![k] = Dialing(s)],
           slot' \in [Slots -> SlotRecords],
           \A t \in Slots \ {s} : slot'[t] = slot[t],
           slot'[s].server = slot[s].server, slot'[s].current = NoConn,
           slot'[s].attempt = k, slot'[s].disposed <=> slot[s].disposed,
           slot'[s].backoff <=> slot[s].backoff,
           slot'[s].retrying \/ (slot'[s].retry <=> slot[s].retry),
           slot[s].retrying => slot'[s].retrying,
           caller' \in [Callers -> CallerRecords], CallerShape',
           UNCHANGED <<wanted, edits, registry, reload, main>>
    PROVE  Inv'
<1> USE NullAssumption
<1>1. slot \in [Slots -> SlotRecords] /\ conn \in [Conns -> ConnRecords]
      /\ registry \in [Servers -> Slots \cup {NoSlot}]
  BY DEF TypeOK
<1>2. slot[s].server \in Servers /\ slot[s].current = NoConn /\ slot[s].attempt = NoConn
      /\ ~slot[s].disposed /\ k \in Conns
  BY DEF FreshConns
<1>3. UNCHANGED <<wanted, edits, registry, reload, main>>
  OBVIOUS
<1>4. /\ slot' \in [Slots -> SlotRecords]
      /\ \A t \in Slots \ {s} : slot'[t] = slot[t]
      /\ slot'[s].server = slot[s].server
      /\ slot'[s].current = NoConn /\ slot'[s].attempt = k
      /\ slot'[s].disposed <=> slot[s].disposed
  OBVIOUS
<1>5. /\ slot'[s].backoff <=> slot[s].backoff
      /\ slot'[s].retrying \/ (slot'[s].retry <=> slot[s].retry)
      /\ slot[s].retrying => slot'[s].retrying
  OBVIOUS
<1>6. /\ conn' \in [Conns -> ConnRecords]
      /\ \A j \in Conns \ {k} : conn'[j] = conn[j]
      /\ conn[k].state = "closed" /\ ~conn[k].closing /\ conn[k].slot = NoSlot
      /\ conn'[k].state = "dialing" /\ conn'[k].slot = s
      /\ conn'[k].calls = 0 /\ ~conn'[k].closing
  BY <1>1 DEF FreshConns, NullConn, Dialing, ConnRecords
<1>7. CallerShape' /\ caller' \in [Callers -> CallerRecords]
  OBVIOUS
<1>8. /\ shuttingDown' <=> shuttingDown
      /\ \A t \in Slots : Registered(t)' <=> Registered(t)
  BY <1>3, <1>4 DEF shuttingDown, Registered
<1>9. TypeOK'
  BY <1>3, <1>4, <1>6, <1>7 DEF TypeOK, CallerRecords, ReloadRecords
<1>10. RecycleWaitsForCalls' /\ DrainingHasCalls'
  BY <1>1, <1>2, <1>4, <1>6 DEF RecycleWaitsForCalls, ConnShape, ConnRecords,
     DrainingHasCalls
<1>11. ConnShape'
  BY <1>1, <1>2, <1>4, <1>6 DEF ConnShape, ConnRecords
<1>12. ReadyIsCurrent'
  BY <1>1, <1>2, <1>4, <1>6 DEF ReadyIsCurrent, ConnShape
<1>13. CurrentIsReady'
  BY <1>1, <1>2, <1>4, <1>6 DEF CurrentIsReady, SlotRecords
<1>14. SingleFlight'
  BY <1>1, <1>2, <1>4, <1>6 DEF SingleFlight, ConnShape
<1>15. AttemptIsDialing'
  BY <1>1, <1>2, <1>4, <1>6 DEF AttemptIsDialing, SlotRecords
<1>16. DisposedIsInert' /\ RetryOwed'
  BY <1>1, <1>2, <1>4, <1>5, <1>8 DEF DisposedIsInert, RetryOwed
<1>17. RegistryShape' /\ RetryShape'
  BY <1>1, <1>2, <1>3, <1>4 DEF RegistryShape, RetryShape, SlotRecords
<1>18. CallerShape' /\ ReloadShape'
  BY <1>3, <1>6, <1>7 DEF CallerShape, CallerRecords, ReloadShape, ReloadRecords
<1> QED BY <1>9, <1>10, <1>11, <1>12, <1>13, <1>14, <1>15, <1>16, <1>17, <1>18

\* A caller starts the one attempt of a slot without a connection.
LEMMA AcquireDialInv ==
    ASSUME NEW c \in Callers, NEW n \in Servers, Inv, AcquireDial(c, n),
           UNCHANGED <<wanted, edits, registry, reload, main>>
    PROVE  Inv'
<1> DEFINE s == registry[n]
<1>1. PICK k \in FreshConns :
         /\ conn' = [conn EXCEPT ![k] = Dialing(s)]
         /\ slot' = [slot EXCEPT ![s].attempt = k]
         /\ caller' = [caller EXCEPT ![c] = Waiting(n, k)]
  BY DEF AcquireDial
<1>2. k \in Conns
  BY DEF FreshConns
<1>3. /\ s \in Slots /\ slot[s].server \in Servers /\ ~slot[s].disposed
      /\ slot[s].current = NoConn /\ slot[s].attempt = NoConn /\ ~shuttingDown
  BY DEF AcquireDial, TypeOK, RegistryShape
<1>4. /\ slot' \in [Slots -> SlotRecords]
      /\ \A t \in Slots \ {s} : slot'[t] = slot[t]
      /\ slot'[s].server = slot[s].server /\ slot'[s].current = slot[s].current
      /\ slot'[s].attempt = k
      /\ slot'[s].disposed <=> slot[s].disposed
      /\ slot'[s].backoff <=> slot[s].backoff
      /\ slot'[s].retry <=> slot[s].retry
      /\ slot'[s].retrying <=> slot[s].retrying
  BY <1>1, <1>2, <1>3 DEF TypeOK, SlotRecords
<1>5. caller' \in [Callers -> CallerRecords] /\ CallerShape'
  BY <1>1, <1>2 DEF TypeOK, CallerRecords, CallerShape, Waiting
<1> HIDE DEF s
<1> QED BY <1>1, <1>3, <1>4, <1>5, DialInv

\* A caller drains a connection that is too old and starts the next
\* attempt.
LEMMA AcquireRecycleInv ==
    ASSUME NEW c \in Callers, NEW n \in Servers, Inv, AcquireRecycle(c, n),
           UNCHANGED <<wanted, edits, registry, reload, main>>
    PROVE  Inv'
<1> USE NullAssumption
<1>1. slot \in [Slots -> SlotRecords] /\ conn \in [Conns -> ConnRecords]
      /\ registry \in [Servers -> Slots \cup {NoSlot}]
  BY DEF TypeOK
<1>2. /\ registry[n] \in Slots /\ slot[registry[n]].current \in Conns
      /\ conn[slot[registry[n]].current].state = "ready"
      /\ conn[slot[registry[n]].current].slot = registry[n]
      /\ slot[registry[n]].attempt = NoConn
      /\ slot[registry[n]].server \in Servers
  BY <1>1 DEF AcquireRecycle, SlotRecords, CurrentIsReady, RegistryShape
<1>3. UNCHANGED <<wanted, edits, registry, reload, main>>
  OBVIOUS
<1>4. PICK k \in FreshConns :
         LET old == slot[registry[n]].current
             s   == registry[n]
         IN  /\ conn' = [conn EXCEPT ![old] = BeginDrain(conn[old]), ![k] = Dialing(s)]
             /\ slot' = [slot EXCEPT ![s] = [WithoutCurrent(slot[s], old) EXCEPT !.attempt = k]]
             /\ caller' = [caller EXCEPT ![c] = Waiting(n, k)]
  BY DEF AcquireRecycle
<1>5. /\ k \in Conns /\ k # slot[registry[n]].current
      /\ conn[k].state = "closed" /\ ~conn[k].closing /\ conn[k].slot = NoSlot
  BY <1>1, <1>2 DEF FreshConns, NullConn
<1>6. PICK without \in SlotRecords :
         without = WithoutCurrent(slot[registry[n]], slot[registry[n]].current)
  BY <1>1, <1>2, WithoutCurrentFacts
<1>7. /\ slot' \in [Slots -> SlotRecords]
      /\ \A s \in Slots \ {registry[n]} : slot'[s] = slot[s]
      /\ LET s == registry[n] IN
            /\ slot'[s].server = slot[s].server
            /\ slot'[s].current = NoConn
            /\ slot'[s].attempt = k
            /\ slot'[s].retry <=> slot[s].retry
            /\ slot'[s].retrying <=> slot[s].retrying
            /\ slot'[s].backoff <=> slot[s].backoff
            /\ slot'[s].disposed <=> slot[s].disposed
  <2>1. slot' = [slot EXCEPT ![registry[n]] = [without EXCEPT !.attempt = k]]
    BY <1>4, <1>6
  <2>2. /\ [without EXCEPT !.attempt = k] \in SlotRecords
        /\ LET out == [without EXCEPT !.attempt = k] IN
              /\ out.server = without.server /\ out.current = without.current
              /\ out.attempt = k /\ out.retry = without.retry
              /\ out.retrying = without.retrying /\ out.backoff = without.backoff
              /\ out.disposed = without.disposed
    BY <1>5 DEF SlotRecords
  <2>3. LET old == slot[registry[n]] IN
          /\ without.server = old.server /\ without.current = NoConn
          /\ without.retry = old.retry
          /\ without.retrying = old.retrying /\ without.backoff = old.backoff
          /\ without.disposed = old.disposed
    BY <1>1, <1>2, <1>6, WithoutCurrentFacts
  <2> QED BY <1>1, <1>2, <2>1, <2>2, <2>3
<1>8. /\ conn' \in [Conns -> ConnRecords]
      /\ \A j \in Conns \ {k, slot[registry[n]].current} : conn'[j] = conn[j]
      /\ conn'[k].state = "dialing" /\ conn'[k].slot = registry[n]
      /\ conn'[k].calls = 0 /\ ~conn'[k].closing
      /\ LET old == slot[registry[n]].current IN
            /\ conn'[old].slot = conn[old].slot /\ conn'[old].calls = conn[old].calls
            /\ \/ conn[old].calls = 0 /\ conn'[old].state = "closed" /\ conn'[old].closing
               \/ /\ conn[old].calls # 0 /\ conn'[old].state = "draining"
                  /\ conn'[old].closing = conn[old].closing
  <2>1. Dialing(registry[n]) \in ConnRecords
    BY <1>2 DEF Dialing, ConnRecords
  <2>2. conn[slot[registry[n]].current] \in ConnRecords
    BY <1>1, <1>2
  <2>3. conn'[k] = Dialing(registry[n])
    BY <1>1, <1>2, <1>4, <1>5
  <2>4. conn'[slot[registry[n]].current] = BeginDrain(conn[slot[registry[n]].current])
    BY <1>1, <1>2, <1>4, <1>5
  <2>5. BeginDrain(conn[slot[registry[n]].current]) \in ConnRecords
    BY <2>2, BeginDrainFacts
  <2>6. conn' \in [Conns -> ConnRecords]
        /\ \A j \in Conns \ {k, slot[registry[n]].current} : conn'[j] = conn[j]
    BY <1>1, <1>2, <1>4, <1>5, <2>1, <2>5
  <2>7. /\ conn'[k].state = "dialing" /\ conn'[k].slot = registry[n]
        /\ conn'[k].calls = 0 /\ ~conn'[k].closing
    BY <2>3 DEF Dialing
  <2> QED BY <1>2, <2>2, <2>4, <2>6, <2>7, BeginDrainFacts
<1>9. /\ caller' \in [Callers -> CallerRecords]
      /\ \A b \in Callers \ {c} : caller'[b] = caller[b]
      /\ caller'[c].pc = "waiting" /\ caller'[c].conn \in Conns /\ caller'[c].server \in Servers
  BY <1>4, <1>5 DEF Waiting, CallerRecords, TypeOK
<1>10. /\ shuttingDown' <=> shuttingDown
       /\ \A s \in Slots : Registered(s)' <=> Registered(s)
  BY <1>3, <1>7 DEF shuttingDown, Registered
<1>11. TypeOK'
  BY <1>3, <1>5, <1>7, <1>8, <1>9 DEF TypeOK, CallerRecords, ReloadRecords
<1>12. RecycleWaitsForCalls'
  BY <1>1, <1>2, <1>5, <1>7, <1>8 DEF RecycleWaitsForCalls, ConnShape,
     ConnRecords
<1>13. DrainingHasCalls'
  BY <1>1, <1>2, <1>5, <1>8 DEF DrainingHasCalls, ConnRecords
<1>14. ConnShape'
  BY <1>1, <1>2, <1>5, <1>7, <1>8 DEF ConnShape, ConnRecords
<1>15. ReadyIsCurrent'
  BY <1>1, <1>2, <1>5, <1>7, <1>8 DEF ReadyIsCurrent, ConnShape
<1>16. CurrentIsReady'
  BY <1>1, <1>2, <1>5, <1>7, <1>8 DEF CurrentIsReady, SlotRecords
<1>17. SingleFlight'
  BY <1>1, <1>2, <1>5, <1>7, <1>8 DEF SingleFlight, ConnShape
<1>18. AttemptIsDialing'
  BY <1>1, <1>2, <1>5, <1>7, <1>8 DEF AttemptIsDialing, SlotRecords
<1>19. DisposedIsInert' /\ RetryOwed'
  BY <1>1, <1>2, <1>5, <1>7, <1>10 DEF DisposedIsInert, RetryOwed
<1>20. RegistryShape' /\ RetryShape'
  BY <1>1, <1>2, <1>3, <1>5, <1>7 DEF RegistryShape, RetryShape, SlotRecords
<1>21. CallerShape' /\ ReloadShape'
  BY <1>3, <1>5, <1>8, <1>9 DEF CallerShape, CallerRecords, ReloadShape,
     ReloadRecords
<1> QED BY <1>11, <1>12, <1>13, <1>14, <1>15, <1>16, <1>17, <1>18, <1>19,
   <1>20, <1>21

\* acquireConnection up to its lease or its await.
LEMMA AcquireInv ==
    ASSUME NEW c \in Callers, NEW n \in Servers, Inv, Acquire(c, n),
           UNCHANGED <<wanted, edits, registry, reload, main>>
    PROVE  Inv'
BY AcquireReadyInv, AcquireJoinInv, AcquireDialInv, AcquireRecycleInv
   DEF Acquire

\* withClient begins.
LEMMA StartCallInv == ASSUME NEW c \in Callers, Inv, StartCall(c) PROVE Inv'
BY AcquireInv DEF StartCall, WithClient

\* A caller whose server is gone, or whose process shuts down, ends.
LEMMA GiveUpInv ==
    ASSUME NEW c \in Callers, Inv, caller' = [caller EXCEPT ![c] = IdleCaller],
           UNCHANGED <<wanted, edits, registry, slot, conn, reload, main>>
    PROVE  Inv'
<1> USE NullAssumption
<1>1. slot \in [Slots -> SlotRecords] /\ conn \in [Conns -> ConnRecords]
      /\ registry \in [Servers -> Slots \cup {NoSlot}]
  BY DEF TypeOK
<1>2. UNCHANGED <<wanted, edits, registry, slot, conn, reload, main>>
  OBVIOUS
<1>3. /\ caller' \in [Callers -> CallerRecords]
      /\ \A b \in Callers \ {c} : caller'[b] = caller[b]
      /\ caller'[c].pc = "idle"
  BY DEF IdleCaller, CallerRecords, TypeOK
<1>4. /\ shuttingDown' <=> shuttingDown
      /\ \A t \in Slots : Registered(t)' <=> Registered(t)
  BY <1>2 DEF shuttingDown, Registered
<1>5. TypeOK'
  BY <1>2, <1>3 DEF TypeOK, CallerRecords, ReloadRecords
<1>6. RecycleWaitsForCalls' /\ DrainingHasCalls' /\ ConnShape' /\ ReadyIsCurrent'
      /\ CurrentIsReady' /\ SingleFlight' /\ AttemptIsDialing' /\ DisposedIsInert'
      /\ RetryOwed' /\ RegistryShape' /\ RetryShape' /\ CallerShape'
      /\ ReloadShape'
  BY <1>1, <1>2, <1>3, <1>4 DEF RecycleWaitsForCalls, ConnShape, ConnRecords,
     DrainingHasCalls, ReadyIsCurrent, CurrentIsReady, SlotRecords,
     SingleFlight, AttemptIsDialing, DisposedIsInert, RetryOwed, RegistryShape,
     RetryShape, CallerShape, CallerRecords, ReloadShape, ReloadRecords
<1> QED BY <1>5, <1>6

\* A caller whose connection went away while it waited starts over.
LEMMA WakeReacquireInv == ASSUME NEW c \in Callers, Inv, WakeReacquire(c) PROVE Inv'
<1>1. caller[c].server \in Servers
  BY DEF WakeReacquire, CallerShape
<1>2. CASE Acquire(c, caller[c].server)
  BY <1>1, <1>2, AcquireInv DEF WakeReacquire
<1>3. CASE ~Acquire(c, caller[c].server)
  BY <1>3, GiveUpInv DEF WakeReacquire
<1> QED BY <1>2, <1>3

(* The end of a call that leaves the state of its connection alone, except *)
(* that the last lease of a draining one closes it.                        *)
LEMMA FinishKeepInv ==
    ASSUME NEW c \in Callers, NEW k \in Conns, NEW next, Inv,
           next \in {Releasing(k), IdleCaller},
           caller' = [caller EXCEPT ![c] = next],
           conn' = [conn EXCEPT ![k] = Release(conn[k])],
           UNCHANGED <<wanted, edits, registry, slot, reload, main>>
    PROVE  Inv'
<1> USE NullAssumption
<1>1. slot \in [Slots -> SlotRecords] /\ conn \in [Conns -> ConnRecords]
      /\ registry \in [Servers -> Slots \cup {NoSlot}]
  BY DEF TypeOK
<1>2. k \in Conns
  OBVIOUS
<1>3. UNCHANGED <<wanted, edits, registry, slot, reload, main>>
  OBVIOUS
<1>4. /\ caller' \in [Callers -> CallerRecords]
      /\ \A b \in Callers \ {c} : caller'[b] = caller[b]
      /\ caller'[c].pc # "idle" => caller'[c].conn \in Conns
      /\ caller'[c].pc # "waiting"
  BY DEF Releasing, IdleCaller, CallerRecords, TypeOK
<1>5. /\ conn[k] \in ConnRecords
      /\ conn' = [conn EXCEPT ![k] = Release(conn[k])]
  BY <1>1
<1>6. /\ conn' \in [Conns -> ConnRecords]
      /\ \A j \in Conns \ {k} : conn'[j] = conn[j]
      /\ conn'[k].slot = conn[k].slot
      /\ conn'[k].calls <= conn[k].calls
      /\ conn'[k].state = "draining" => conn'[k].calls > 0
      /\ conn'[k].closing => conn[k].closing \/ conn'[k].calls = 0
      /\ \/ conn'[k].state = conn[k].state /\ (conn'[k].closing <=> conn[k].closing)
         \/ conn[k].state = "draining" /\ conn'[k].state = "closed" /\ conn'[k].closing
  <2>1. /\ conn'[k] = Release(conn[k])
        /\ \A j \in Conns \ {k} : conn'[j] = conn[j]
    BY <1>1, <1>2, <1>5
  <2>2. conn' \in [Conns -> ConnRecords]
    BY <1>1, <1>2, <1>5, ReleaseFacts
  <2>3. conn[k].calls \in Nat /\ conn'[k].calls \in Nat
    BY <1>2, <1>5, <2>2 DEF ConnRecords
  <2> QED BY <1>5, <2>1, <2>2, <2>3, ReleaseFacts
<1>7. /\ shuttingDown' <=> shuttingDown
      /\ \A t \in Slots : Registered(t)' <=> Registered(t)
  BY <1>3 DEF shuttingDown, Registered
<1>8. TypeOK'
  BY <1>3, <1>4, <1>6 DEF TypeOK, CallerRecords, ReloadRecords
<1>9. /\ RecycleWaitsForCalls'
      /\ DrainingHasCalls'
      /\ ConnShape'
  <2>1. RecycleWaitsForCalls'
    BY <1>1, <1>2, <1>3, <1>6 DEF RecycleWaitsForCalls, ConnShape, ConnRecords
  <2>2. DrainingHasCalls'
    BY <1>1, <1>2, <1>6 DEF DrainingHasCalls, ConnRecords
  <2>3. ConnShape'
    BY <1>1, <1>2, <1>3, <1>6 DEF ConnShape, ConnRecords
  <2> QED BY <2>1, <2>2, <2>3
<1>10. ReadyIsCurrent' /\ CurrentIsReady'
  <2>1. ReadyIsCurrent'
    BY <1>1, <1>2, <1>3, <1>6 DEF ReadyIsCurrent, ConnShape
  <2>2. CurrentIsReady'
    BY <1>1, <1>2, <1>3, <1>6 DEF CurrentIsReady, SlotRecords
  <2> QED BY <2>1, <2>2
<1>11. SingleFlight'
  BY <1>1, <1>2, <1>3, <1>6 DEF SingleFlight, ConnShape
<1>12. AttemptIsDialing'
  BY <1>1, <1>2, <1>3, <1>6 DEF AttemptIsDialing, SlotRecords
<1>13. DisposedIsInert' /\ RetryOwed' /\ RegistryShape' /\ RetryShape'
      /\ CallerShape' /\ ReloadShape'
  BY <1>1, <1>2, <1>3, <1>4, <1>6, <1>7 DEF DisposedIsInert, RetryOwed,
     RegistryShape, RetryShape, SlotRecords, CallerShape, CallerRecords,
     ReloadShape, ReloadRecords
<1> QED BY <1>8, <1>9, <1>10, <1>11, <1>12, <1>13

(* The end of a call that invalidates its ready connection.               *)
LEMMA FinishDrainInv ==
    ASSUME NEW c \in Callers, NEW k \in Conns, NEW next, Inv,
           conn[k].state = "ready",
           next \in {Releasing(k), IdleCaller},
           caller' = [caller EXCEPT ![c] = next],
           conn' = [conn EXCEPT ![k] = Release(BeginDrain(conn[k]))],
           slot' = [slot EXCEPT ![conn[k].slot] = WithoutCurrent(@, k)],
           UNCHANGED <<wanted, edits, registry, reload, main>>
    PROVE  Inv'
<1> USE NullAssumption
<1>1. slot \in [Slots -> SlotRecords] /\ conn \in [Conns -> ConnRecords]
      /\ registry \in [Servers -> Slots \cup {NoSlot}]
  BY DEF TypeOK
<1>2. /\ conn[k].slot \in Slots
      /\ slot[conn[k].slot].current = k
      /\ conn[k].state = "ready"
  BY <1>1 DEF ConnShape, ReadyIsCurrent
<1>3. UNCHANGED <<wanted, edits, registry, reload, main>>
  OBVIOUS
<1>4. /\ caller' \in [Callers -> CallerRecords]
      /\ \A b \in Callers \ {c} : caller'[b] = caller[b]
      /\ caller'[c].pc # "idle" => caller'[c].conn \in Conns
      /\ caller'[c].pc # "waiting"
  BY DEF Releasing, IdleCaller, CallerRecords, TypeOK
<1>5. slot' = [slot EXCEPT ![conn[k].slot] = WithoutCurrent(slot[conn[k].slot], k)]
  OBVIOUS
<1>6. /\ slot' \in [Slots -> SlotRecords]
      /\ \A t \in Slots \ {conn[k].slot} : slot'[t] = slot[t]
      /\ LET s == conn[k].slot IN
            /\ slot'[s].server = slot[s].server
            /\ slot'[s].current = NoConn
            /\ slot'[s].attempt = slot[s].attempt
            /\ slot'[s].retry <=> slot[s].retry
            /\ slot'[s].retrying <=> slot[s].retrying
            /\ slot'[s].backoff <=> slot[s].backoff
            /\ slot'[s].disposed <=> slot[s].disposed
  BY <1>1, <1>2, <1>5, WithoutCurrentFacts
<1>7. /\ conn' \in [Conns -> ConnRecords]
      /\ \A j \in Conns \ {k} : conn'[j] = conn[j]
      /\ conn'[k].slot = conn[k].slot
      /\ conn'[k].calls <= conn[k].calls
      /\ conn'[k].state = "draining" => conn'[k].calls > 0
      /\ conn'[k].closing => conn[k].closing \/ conn'[k].calls = 0
      /\ conn'[k].state \in {"draining", "closed"}
      /\ conn'[k].state = "draining" => ~conn'[k].closing
  <2>1. PICK drained \in ConnRecords : drained = BeginDrain(conn[k])
    BY <1>1, <1>2, BeginDrainFacts
  <2>2. /\ drained.slot = conn[k].slot
        /\ drained.calls = conn[k].calls
        /\ drained.state \in {"draining", "closed"}
        /\ drained.state = "draining" => drained.calls # 0 /\ ~drained.closing
        /\ drained.closing => drained.calls = 0
        /\ conn[k].calls \in Nat
    BY <1>1, <1>2, <2>1, BeginDrainFacts DEF ConnShape, ConnRecords
  <2>3. conn' = [conn EXCEPT ![k] = Release(drained)]
    BY <2>1
  <2>4. /\ Release(drained) \in ConnRecords
        /\ Release(drained).slot = conn[k].slot
        /\ Release(drained).calls <= conn[k].calls
        /\ Release(drained).state \in {"draining", "closed"}
        /\ Release(drained).state = "draining" =>
              Release(drained).calls > 0 /\ ~Release(drained).closing
        /\ Release(drained).closing => Release(drained).calls = 0
    BY <2>1, <2>2, ReleaseFacts
  <2>5. /\ conn' \in [Conns -> ConnRecords]
        /\ conn'[k] = Release(drained)
        /\ \A j \in Conns \ {k} : conn'[j] = conn[j]
    BY <1>1, <1>2, <2>3, <2>4
  <2> QED BY <2>4, <2>5
<1>8. /\ shuttingDown' <=> shuttingDown
      /\ \A t \in Slots : Registered(t)' <=> Registered(t)
  BY <1>3, <1>6 DEF shuttingDown, Registered
<1>9. TypeOK'
  BY <1>3, <1>4, <1>6, <1>7 DEF TypeOK, CallerRecords, ReloadRecords
<1>10. RecycleWaitsForCalls'
  BY <1>1, <1>2, <1>6, <1>7 DEF RecycleWaitsForCalls, ConnShape, ConnRecords
<1>11. DrainingHasCalls'
  BY <1>1, <1>2, <1>7 DEF DrainingHasCalls, ConnRecords
<1>12. ConnShape'
  <2>1. conn'[k].slot \in Slots
    BY <1>1, <1>2, <1>7
  <2> QED BY <1>1, <1>2, <1>6, <1>7, <2>1 DEF ConnShape
<1>13. ReadyIsCurrent'
  BY <1>1, <1>2, <1>6, <1>7 DEF ReadyIsCurrent, ConnShape
<1>14. CurrentIsReady'
  BY <1>1, <1>2, <1>6, <1>7 DEF CurrentIsReady, SlotRecords
<1>15. SingleFlight'
  BY <1>1, <1>2, <1>6, <1>7 DEF SingleFlight, ConnShape
<1>16. AttemptIsDialing'
  BY <1>1, <1>2, <1>6, <1>7, SMTT(30) DEF AttemptIsDialing, SlotRecords
<1>17. DisposedIsInert' /\ RetryOwed'
  BY <1>1, <1>2, <1>6, <1>8 DEF DisposedIsInert, RetryOwed
<1>18. RegistryShape' /\ RetryShape'
  <2>1. RegistryShape'
    BY <1>1, <1>2, <1>3, <1>6 DEF RegistryShape
  <2>2. RetryShape'
    BY <1>1, <1>2, <1>6 DEF RetryShape
  <2> QED BY <2>1, <2>2
<1>19. CallerShape' /\ ReloadShape'
  BY <1>3, <1>4, <1>7 DEF CallerShape, CallerRecords, ReloadShape, ReloadRecords
<1> QED BY <1>9, <1>10, <1>11, <1>12, <1>13, <1>14, <1>15, <1>16, <1>17, <1>18,
   <1>19

\* The finally of withClient, after an invalidation or without one.
LEMMA FinishCallInv ==
    ASSUME NEW c \in Callers, NEW invalidate \in BOOLEAN, Inv, FinishCall(c, invalidate)
    PROVE  Inv'
<1> DEFINE k == caller[c].conn
<1>1. k \in Conns /\ conn[k] \in ConnRecords
  BY DEF FinishCall, CallerShape, TypeOK
<1>2. PICK next \in {Releasing(k), IdleCaller} : caller' = [caller EXCEPT ![c] = next]
  BY DEF FinishCall
<1>3. UNCHANGED <<wanted, edits, registry, reload, main>>
  BY DEF FinishCall
<1>4. CASE invalidate /\ conn[k].state = "ready"
  <2>1. /\ conn' = [conn EXCEPT ![k] = Release(BeginDrain(conn[k]))]
        /\ slot' = [slot EXCEPT ![conn[k].slot] = WithoutCurrent(@, k)]
    BY <1>4 DEF FinishCall
  <2> HIDE DEF k
  <2> QED BY <1>1, <1>2, <1>3, <1>4, <2>1, FinishDrainInv
<1>5. CASE ~(invalidate /\ conn[k].state = "ready")
  <2>1. /\ conn' = [conn EXCEPT ![k] = Release(conn[k])]
        /\ UNCHANGED slot
    BY <1>1, <1>5, BeginDrainFacts DEF FinishCall
  <2> HIDE DEF k
  <2> QED BY <1>1, <1>2, <1>3, <2>1, FinishKeepInv
<1> QED BY <1>4, <1>5

(* New slots, each with its first dial.                                    *)
LEMMA LaunchInv ==
    ASSUME NEW names \in SUBSET Servers, NEW cfgs, NEW f, NEW g, Inv,
           \A n \in names : cfgs[n] \in Configs,
           Launch(names, cfgs, f, g),
           wanted' \in ConfigFiles, edits' \in 0 .. MaxEdits,
           reload' \in [Reloads -> ReloadRecords], ReloadShape',
           main' \in [phase: Phases, awaits: SUBSET Conns],
           shuttingDown' <=> shuttingDown,
           UNCHANGED caller
    PROVE  Inv'
<1> USE NullAssumption
<1>1. slot \in [Slots -> SlotRecords] /\ conn \in [Conns -> ConnRecords]
      /\ registry \in [Servers -> Slots \cup {NoSlot}]
  BY DEF TypeOK
<1>2. /\ f \in [names -> Slots] /\ \A n \in names : slot[f[n]] = NullSlot
      /\ \A m, n \in names : f[m] = f[n] => m = n
      /\ \A n \in names : ~slot[f[n]].disposed /\ slot[f[n]].server = NoServer
  <2>1. f \in [names -> FreshSlots] /\ FreshSlots \subseteq Slots
    BY DEF Launch, Injections, FreshSlots
  <2>2. \A s \in FreshSlots : slot[s] = NullSlot
    BY DEF FreshSlots
  <2>3. ~NullSlot.disposed /\ NullSlot.server = NoServer
    BY DEF NullSlot
  <2>4. \A m, n \in names : f[m] = f[n] => m = n
    BY DEF Launch, Injections
  <2> QED BY <2>1, <2>2, <2>3, <2>4
<1>3. /\ g \in [names -> Conns] /\ \A n \in names : conn[g[n]] = NullConn
      /\ \A m, n \in names : g[m] = g[n] => m = n
      /\ \A n \in names : /\ conn[g[n]].slot = NoSlot /\ conn[g[n]].state = "closed"
                           /\ ~conn[g[n]].closing
  <2>1. g \in [names -> FreshConns] /\ FreshConns \subseteq Conns
    BY DEF Launch, Injections, FreshConns
  <2>2. \A k \in FreshConns : conn[k] = NullConn
    BY DEF FreshConns
  <2>3. NullConn.slot = NoSlot /\ NullConn.state = "closed" /\ ~NullConn.closing
    BY DEF NullConn
  <2>4. \A m, n \in names : g[m] = g[n] => m = n
    BY DEF Launch, Injections
  <2> QED BY <2>1, <2>2, <2>3, <2>4
<1>4. /\ registry' \in [Servers -> Slots \cup {NoSlot}]
      /\ \A n \in Servers : registry'[n] = IF n \in names THEN f[n] ELSE registry[n]
  BY <1>1, <1>2 DEF Launch
<1>5. /\ slot' = LaunchedSlots(names, cfgs, f, g)
      /\ conn' = LaunchedConns(names, f, g)
  BY DEF Launch
<1>6. \A s \in Slots : (\A n \in names : f[n] # s) => slot'[s] = slot[s]
  BY <1>5 DEF LaunchedSlots
<1>7. \A n \in names :
         slot'[f[n]] = NewSlot(n, cfgs[n], IF shuttingDown THEN NoConn ELSE g[n])
  BY <1>2, <1>5 DEF LaunchedSlots
<1>8. \A n \in names :
         /\ slot'[f[n]] \in SlotRecords
         /\ slot'[f[n]].server = n /\ slot'[f[n]].current = NoConn
         /\ slot'[f[n]].attempt = IF shuttingDown THEN NoConn ELSE g[n]
         /\ ~slot'[f[n]].retry /\ ~slot'[f[n]].retrying
         /\ ~slot'[f[n]].backoff /\ ~slot'[f[n]].disposed
  <2> SUFFICES ASSUME NEW n \in names
               PROVE  LET rec == slot'[f[n]] IN
                         /\ rec \in SlotRecords
                         /\ rec.server = n /\ rec.current = NoConn
                         /\ rec.attempt = IF shuttingDown THEN NoConn ELSE g[n]
                         /\ ~rec.retry /\ ~rec.retrying
                         /\ ~rec.backoff /\ ~rec.disposed
    OBVIOUS
  <2>1. PICK k \in Conns \cup {NoConn} : k = IF shuttingDown THEN NoConn ELSE g[n]
    BY <1>3
  <2>2. slot'[f[n]] = [server |-> n, config |-> cfgs[n], current |-> NoConn,
                       attempt |-> k, retry |-> FALSE, retrying |-> FALSE,
                       backoff |-> FALSE, disposed |-> FALSE]
    BY <1>7, <2>1 DEF NewSlot
  <2>3. n \in Servers /\ cfgs[n] \in Configs
    OBVIOUS
  <2> QED BY <2>1, <2>2, <2>3 DEF SlotRecords
<1>9. slot' \in [Slots -> SlotRecords]
  <2>1. \A s \in Slots : slot'[s] \in SlotRecords
    BY <1>1, <1>6, <1>8
  <2> QED BY <1>5, <2>1 DEF LaunchedSlots
<1>10. \A k \in Conns :
          shuttingDown \/ (\A n \in names : g[n] # k) => conn'[k] = conn[k]
  BY <1>5 DEF LaunchedConns
<1>11. \A n \in names : ~shuttingDown => conn'[g[n]] = Dialing(f[n])
  BY <1>3, <1>5 DEF LaunchedConns
<1>12. \A n \in names : ~shuttingDown =>
          /\ conn'[g[n]] \in ConnRecords
          /\ conn'[g[n]].slot = f[n] /\ conn'[g[n]].state = "dialing"
          /\ conn'[g[n]].calls = 0 /\ ~conn'[g[n]].closing
  <2>1. \A s \in Slots :
          /\ Dialing(s) \in ConnRecords
          /\ Dialing(s).slot = s /\ Dialing(s).state = "dialing"
          /\ Dialing(s).calls = 0 /\ ~Dialing(s).closing
    BY DEF Dialing, ConnRecords
  <2> QED BY <1>2, <1>11, <2>1
<1>13. conn' \in [Conns -> ConnRecords]
  <2>1. \A k \in Conns : conn'[k] \in ConnRecords
    BY <1>1, <1>10, <1>12
  <2> QED BY <1>5, <2>1 DEF LaunchedConns
<1>14. wanted' \in ConfigFiles /\ edits' \in 0 .. MaxEdits
       /\ reload' \in [Reloads -> ReloadRecords] /\ ReloadShape'
       /\ main' \in [phase: Phases, awaits: SUBSET Conns] /\ UNCHANGED caller
  OBVIOUS
<1>15. shuttingDown' <=> shuttingDown
  OBVIOUS
<1>16. \A s \in Slots :
          Registered(s)' /\ (\A n \in names : f[n] # s) => Registered(s)
  <2> SUFFICES ASSUME NEW s \in Slots, Registered(s)', \A n \in names : f[n] # s
               PROVE  Registered(s)
    OBVIOUS
  <2>1. slot'[s] = slot[s]
    BY <1>6
  <2>2. slot[s].server \in Servers /\ registry'[slot[s].server] = s
    BY <2>1 DEF Registered
  <2>3. slot[s].server \notin names
    BY <1>4, <2>2
  <2> QED BY <1>4, <2>2, <2>3 DEF Registered
<1>17. TypeOK'
  BY <1>3, <1>4, <1>6, <1>8, <1>9, <1>10, <1>12, <1>13, <1>14 DEF TypeOK,
     CallerRecords, ReloadRecords
<1>18. RecycleWaitsForCalls'
  BY <1>1, <1>2, <1>3, <1>6, <1>8, <1>9, <1>10, <1>12, <1>13
     DEF RecycleWaitsForCalls, ConnShape, ConnRecords
<1>19. DrainingHasCalls'
  BY <1>1, <1>2, <1>3, <1>10, <1>12, <1>13 DEF DrainingHasCalls, ConnRecords
<1>20. ConnShape'
  BY <1>1, <1>2, <1>3, <1>6, <1>8, <1>9, <1>10, <1>12, <1>13, SMTT(30)
     DEF ConnShape,
     ConnRecords
<1>21. ReadyIsCurrent'
  BY <1>1, <1>2, <1>3, <1>6, <1>8, <1>9, <1>10, <1>12, <1>13
     DEF ReadyIsCurrent, ConnShape
<1>22. CurrentIsReady'
  <2> SUFFICES ASSUME NEW s \in Slots, slot'[s].current # NoConn
               PROVE  LET k == slot'[s].current
                      IN  conn'[k].state = "ready" /\ conn'[k].slot = s
    BY DEF CurrentIsReady
  <2>1. \A n \in names : f[n] # s
    BY <1>8
  <2>2. slot'[s] = slot[s] /\ slot[s].current \in Conns
    BY <1>1, <1>6, <2>1 DEF SlotRecords
  <2>3. conn[slot[s].current].state = "ready" /\ conn[slot[s].current].slot = s
    BY <2>2 DEF CurrentIsReady
  <2>4. conn'[slot[s].current] = conn[slot[s].current]
    BY <1>3, <1>10, <2>2, <2>3
  <2> QED BY <2>2, <2>3, <2>4
<1>23. SingleFlight'
  <2> SUFFICES ASSUME NEW k \in Conns, conn'[k].state \in {"dialing", "aborting"}
               PROVE  slot'[conn'[k].slot].attempt = k /\ slot'[conn'[k].slot].current = NoConn
    BY DEF SingleFlight
  <2>1. CASE ~shuttingDown /\ \E n \in names : g[n] = k
    BY <1>2, <1>8, <1>12, <2>1
  <2>2. CASE shuttingDown \/ \A n \in names : g[n] # k
    <3>1. conn'[k] = conn[k]
      BY <1>10, <2>2
    <3>2. /\ conn[k].slot \in Slots /\ slot[conn[k].slot].server \in Servers
          /\ slot[conn[k].slot].attempt = k /\ slot[conn[k].slot].current = NoConn
      BY <1>1, <3>1 DEF SingleFlight, ConnShape
    <3>3. slot'[conn[k].slot] = slot[conn[k].slot]
      BY <1>2, <1>6, <3>2
    <3> QED BY <3>1, <3>2, <3>3
  <2> QED BY <2>1, <2>2
<1>24. AttemptIsDialing'
  BY <1>1, <1>2, <1>3, <1>6, <1>8, <1>9, <1>10, <1>12, <1>13
     DEF AttemptIsDialing, SlotRecords
<1>25. DisposedIsInert'
  BY <1>1, <1>2, <1>3, <1>6, <1>8, <1>9, <1>15, <1>16 DEF DisposedIsInert
<1>26. RetryOwed'
  BY <1>1, <1>2, <1>3, <1>6, <1>8, <1>9, <1>15, <1>16 DEF RetryOwed
<1>27. RegistryShape'
  BY <1>1, <1>2, <1>3, <1>4, <1>6, <1>8, <1>9, <1>14 DEF RegistryShape
<1>28. RetryShape'
  BY <1>1, <1>2, <1>3, <1>6, <1>8, <1>9 DEF RetryShape, SlotRecords
<1>29. CallerShape' /\ ReloadShape'
  BY <1>3, <1>4, <1>10, <1>12, <1>13, <1>14 DEF CallerShape, CallerRecords,
     ReloadShape, ReloadRecords
<1> QED BY <1>17, <1>18, <1>19, <1>20, <1>21, <1>22, <1>23, <1>24, <1>25,
   <1>26, <1>27, <1>28, <1>29

(* A set of slots is disposed and everything they hold is closed.          *)
LEMMA TakeDownInv ==
    ASSUME NEW down \in SUBSET Slots, Inv, TakeDown(down),
           UNCHANGED <<wanted, edits, caller>>,
           reload' \in [Reloads -> ReloadRecords], ReloadShape',
           main' \in [phase: Phases, awaits: SUBSET Conns],
           shuttingDown => shuttingDown'
    PROVE  Inv'
<1> USE NullAssumption
<1>1. slot \in [Slots -> SlotRecords] /\ conn \in [Conns -> ConnRecords]
      /\ registry \in [Servers -> Slots \cup {NoSlot}]
  BY DEF TypeOK
<1>2. /\ registry' \in [Servers -> Slots \cup {NoSlot}]
      /\ \A n \in Servers :
            /\ registry[n] \in down => registry'[n] = NoSlot
            /\ registry[n] \notin down => registry'[n] = registry[n]
  BY <1>1 DEF TakeDown
<1>3. UNCHANGED <<wanted, edits, caller>>
  OBVIOUS
<1>4. /\ reload' \in [Reloads -> ReloadRecords] /\ ReloadShape'
      /\ main' \in [phase: Phases, awaits: SUBSET Conns]
      /\ shuttingDown => shuttingDown'
  OBVIOUS
<1>5. \A k \in Conns : k \in HeldBy(down) =>
         /\ conn[k].slot \in down
         /\ conn[k].state \notin {"dialing", "aborting"}
  <2> SUFFICES ASSUME NEW s \in down, NEW k \in Conns, k \in Held(s)
               PROVE  conn[k].slot = s /\ conn[k].state \notin {"dialing", "aborting"}
    BY DEF HeldBy
  <2>1. CASE k \in Draining(s)
    BY <2>1 DEF Draining, ConnShape
  <2>2. CASE slot[s].current = k
    BY <2>2 DEF CurrentIsReady
  <2> QED BY <2>1, <2>2 DEF Held
<1>6. \A k \in Conns :
         conn[k].state \in {"ready", "draining"} /\ conn[k].slot \in down => k \in HeldBy(down)
  <2> SUFFICES ASSUME NEW k \in Conns, conn[k].state \in {"ready", "draining"},
                      conn[k].slot \in down
               PROVE  k \in Held(conn[k].slot)
    BY DEF HeldBy
  <2> QED BY DEF Held, Draining, ReadyIsCurrent
<1>7. /\ \A s \in Slots : s \notin down => slot'[s] = slot[s]
      /\ \A s \in down :
            /\ slot'[s] \in SlotRecords
            /\ slot'[s].server = slot[s].server /\ slot'[s].current = NoConn
            /\ slot'[s].attempt = slot[s].attempt
            /\ slot'[s].disposed /\ ~slot'[s].retry
            /\ slot'[s].retrying <=> slot[s].retrying
  BY <1>1, DisposedFacts DEF TakeDown
<1>8. slot' \in [Slots -> SlotRecords]
  BY <1>1, <1>7 DEF TakeDown
<1>9. /\ \A k \in Conns : k \notin HeldBy(down) => conn'[k] = conn[k]
      /\ \A k \in Conns : k \in HeldBy(down) =>
            /\ conn'[k] \in ConnRecords
            /\ conn'[k].slot = conn[k].slot /\ conn'[k].calls = conn[k].calls
            /\ conn'[k].state = "closed" /\ conn'[k].closing
  BY <1>1, ClosingFacts DEF TakeDown
<1>10. conn' \in [Conns -> ConnRecords]
  BY <1>1, <1>9 DEF TakeDown
<1>11. \A s \in Slots : Registered(s)' => Registered(s) /\ s \notin down
  BY <1>2, <1>7, <1>8 DEF Registered
<1>12. TypeOK'
  BY <1>2, <1>3, <1>4, <1>5, <1>6, <1>7, <1>8, <1>9, <1>10 DEF TypeOK,
     CallerRecords, ReloadRecords
<1>13. RecycleWaitsForCalls'
  BY <1>1, <1>5, <1>6, <1>7, <1>8, <1>9, <1>10 DEF RecycleWaitsForCalls,
     ConnShape, ConnRecords
<1>14. DrainingHasCalls'
  BY <1>1, <1>5, <1>6, <1>9, <1>10 DEF DrainingHasCalls, ConnRecords
<1>15. ConnShape'
  BY <1>1, <1>5, <1>6, <1>7, <1>8, <1>9, <1>10 DEF ConnShape, ConnRecords
<1>16. ReadyIsCurrent'
  BY <1>1, <1>5, <1>6, <1>7, <1>8, <1>9, <1>10 DEF ReadyIsCurrent, ConnShape
<1>17. CurrentIsReady'
  BY <1>1, <1>5, <1>6, <1>7, <1>8, <1>9, <1>10 DEF CurrentIsReady, SlotRecords
<1>18. SingleFlight'
  BY <1>1, <1>5, <1>6, <1>7, <1>8, <1>9, <1>10 DEF SingleFlight, ConnShape
<1>19. AttemptIsDialing'
  BY <1>1, <1>5, <1>6, <1>7, <1>8, <1>9, <1>10 DEF AttemptIsDialing, SlotRecords
<1>20. DisposedIsInert'
  BY <1>1, <1>4, <1>5, <1>6, <1>7, <1>8, <1>11 DEF DisposedIsInert
<1>21. RetryOwed'
  BY <1>1, <1>4, <1>5, <1>6, <1>7, <1>8, <1>11 DEF RetryOwed
<1>22. RegistryShape'
  BY <1>1, <1>2, <1>3, <1>4, <1>5, <1>6, <1>7, <1>8 DEF RegistryShape
<1>23. RetryShape'
  BY <1>1, <1>5, <1>6, <1>7, <1>8 DEF RetryShape, SlotRecords
<1>24. CallerShape' /\ ReloadShape'
  BY <1>2, <1>3, <1>4, <1>5, <1>6, <1>9, <1>10 DEF CallerShape, CallerRecords,
     ReloadShape, ReloadRecords
<1> QED BY <1>12, <1>13, <1>14, <1>15, <1>16, <1>17, <1>18, <1>19, <1>20,
   <1>21, <1>22, <1>23, <1>24

(* A step that leaves the slots and the connections alone.                 *)
LEMMA KeepInv ==
    ASSUME Inv, UNCHANGED <<registry, slot, conn, caller, reload>>,
           wanted' \in ConfigFiles, edits' \in 0 .. MaxEdits,
           main' \in [phase: Phases, awaits: SUBSET Conns],
           shuttingDown => shuttingDown'
    PROVE  Inv'
<1> USE NullAssumption
<1>1. slot \in [Slots -> SlotRecords] /\ conn \in [Conns -> ConnRecords]
      /\ registry \in [Servers -> Slots \cup {NoSlot}]
  BY DEF TypeOK
<1>2. UNCHANGED <<registry, slot, conn, caller, reload>>
  OBVIOUS
<1>3. /\ wanted' \in ConfigFiles /\ edits' \in 0 .. MaxEdits
      /\ main' \in [phase: Phases, awaits: SUBSET Conns]
      /\ shuttingDown => shuttingDown'
  OBVIOUS
<1>4. \A s \in Slots : Registered(s)' <=> Registered(s)
  BY <1>2 DEF Registered
<1>5. TypeOK'
  BY <1>2, <1>3 DEF TypeOK, CallerRecords, ReloadRecords
<1>6. RecycleWaitsForCalls' /\ DrainingHasCalls' /\ ConnShape' /\ ReadyIsCurrent'
      /\ CurrentIsReady' /\ SingleFlight' /\ AttemptIsDialing'
  BY <1>1, <1>2 DEF RecycleWaitsForCalls, ConnShape, ConnRecords,
     DrainingHasCalls, ReadyIsCurrent, CurrentIsReady, SlotRecords,
     SingleFlight, AttemptIsDialing
<1>7. DisposedIsInert'
  BY <1>1, <1>2, <1>3, <1>4 DEF DisposedIsInert
<1>8. RetryOwed'
  BY <1>1, <1>2, <1>3, <1>4 DEF RetryOwed
<1>9. RegistryShape' /\ RetryShape' /\ CallerShape' /\ ReloadShape'
  BY <1>1, <1>2, <1>3 DEF RegistryShape, RetryShape, SlotRecords, CallerShape,
     CallerRecords, ReloadShape, ReloadRecords
<1> QED BY <1>5, <1>6, <1>7, <1>8, <1>9

\* The front end starts.
LEMMA BootedInv == Inv /\ Booted => Inv'
<1> SUFFICES ASSUME Inv, Booted PROVE Inv'
  OBVIOUS
<1>1. main' \in [phase: Phases, awaits: SUBSET Conns]
  BY DEF Booted, TypeOK, Phases
<1> QED BY <1>1, KeepInv DEF Booted, TypeOK, shuttingDown

\* The process exits.
LEMMA ExitInv == Inv /\ Exit => Inv'
<1> SUFFICES ASSUME Inv, Exit PROVE Inv'
  OBVIOUS
<1>1. main' \in [phase: Phases, awaits: SUBSET Conns] /\ shuttingDown'
  BY DEF Exit, TypeOK, Phases, shuttingDown
<1> QED BY <1>1, KeepInv DEF Exit, TypeOK

\* The user edits servers.json.
LEMMA EditConfigInv == Inv /\ EditConfig => Inv'
<1> SUFFICES ASSUME Inv, EditConfig PROVE Inv'
  OBVIOUS
<1>1. edits' \in 0 .. MaxEdits
  BY ConfigAssumption DEF EditConfig, TypeOK
<1> QED BY <1>1, KeepInv DEF EditConfig, TypeOK, shuttingDown

(* A retry timer that fires without starting a dial.                       *)
LEMMA FireInv ==
    ASSUME NEW s \in Slots, NEW out \in SlotRecords, Inv,
           slot' = [slot EXCEPT ![s] = out],
           out.server = slot[s].server, out.current = slot[s].current,
           out.attempt = slot[s].attempt,
           out.disposed <=> slot[s].disposed, out.backoff <=> slot[s].backoff,
           ~out.retry, out.retrying => out.attempt # NoConn,
           slot[s].retrying => out.retrying,
           Registered(s) /\ ~shuttingDown /\ out.backoff => out.retrying,
           UNCHANGED <<wanted, edits, registry, conn, caller, reload, main>>
    PROVE  Inv'
<1> USE NullAssumption
<1>1. slot \in [Slots -> SlotRecords] /\ conn \in [Conns -> ConnRecords]
      /\ registry \in [Servers -> Slots \cup {NoSlot}]
  BY DEF TypeOK
<1>2. UNCHANGED <<wanted, edits, registry, conn, caller, reload, main>>
  OBVIOUS
<1>3. /\ slot' \in [Slots -> SlotRecords]
      /\ \A t \in Slots \ {s} : slot'[t] = slot[t]
      /\ slot'[s].server = slot[s].server /\ slot'[s].current = slot[s].current
      /\ slot'[s].attempt = slot[s].attempt
      /\ slot'[s].disposed <=> slot[s].disposed
      /\ ~slot'[s].retry
      /\ slot'[s].retrying => slot'[s].attempt # NoConn
  BY <1>1
<1>4. Registered(s) /\ ~shuttingDown /\ slot'[s].backoff => slot'[s].retrying
  BY <1>1
<1>5. /\ shuttingDown' <=> shuttingDown
      /\ \A t \in Slots : Registered(t)' <=> Registered(t)
  BY <1>2, <1>3 DEF shuttingDown, Registered
<1>6. TypeOK'
  BY <1>2, <1>3 DEF TypeOK, CallerRecords, ReloadRecords
<1>7. RecycleWaitsForCalls' /\ DrainingHasCalls' /\ ConnShape' /\ ReadyIsCurrent'
      /\ CurrentIsReady' /\ SingleFlight' /\ AttemptIsDialing'
  BY <1>1, <1>2, <1>3 DEF RecycleWaitsForCalls, ConnShape, ConnRecords,
     DrainingHasCalls, ReadyIsCurrent, CurrentIsReady, SlotRecords,
     SingleFlight, AttemptIsDialing
<1>8. DisposedIsInert'
  BY <1>1, <1>3, <1>4, <1>5 DEF DisposedIsInert
<1>9. RetryOwed'
  BY <1>1, <1>3, <1>4, <1>5 DEF RetryOwed
<1>10. RegistryShape' /\ RetryShape' /\ CallerShape' /\ ReloadShape'
  BY <1>1, <1>2, <1>3 DEF RegistryShape, RetryShape, SlotRecords, CallerShape,
     CallerRecords, ReloadShape, ReloadRecords
<1> QED BY <1>6, <1>7, <1>8, <1>9, <1>10

\* A retry timer fires: reconnect() joins or starts an attempt, or finds a
\* connection.
LEMMA RetryFiresInv == ASSUME NEW s \in Slots, Inv, RetryFires(s) PROVE Inv'
<1> USE NullAssumption
<1>1. /\ slot \in [Slots -> SlotRecords] /\ slot[s] \in SlotRecords
      /\ conn \in [Conns -> ConnRecords]
      /\ registry \in [Servers -> Slots \cup {NoSlot}]
  BY DEF TypeOK
<1>2. PICK fired \in SlotRecords : fired = [slot[s] EXCEPT !.retry = FALSE]
  BY <1>1 DEF SlotRecords
<1>3. /\ fired.server = slot[s].server /\ fired.current = slot[s].current
      /\ fired.attempt = slot[s].attempt /\ ~fired.retry
      /\ fired.retrying <=> slot[s].retrying
      /\ fired.backoff <=> slot[s].backoff
      /\ fired.disposed <=> slot[s].disposed
  BY <1>1, <1>2 DEF SlotRecords
<1>4. PICK awaiting \in SlotRecords : awaiting = [fired EXCEPT !.retrying = TRUE]
  BY <1>2 DEF SlotRecords
<1>5. /\ awaiting.server = slot[s].server /\ awaiting.current = slot[s].current
      /\ awaiting.attempt = slot[s].attempt /\ ~awaiting.retry
      /\ awaiting.retrying
      /\ awaiting.backoff <=> slot[s].backoff
      /\ awaiting.disposed <=> slot[s].disposed
  BY <1>2, <1>3, <1>4 DEF SlotRecords
<1>6. CASE (Unwanted(s) \/ slot[s].current # NoConn)
           /\ slot' = [slot EXCEPT ![s] = fired] /\ UNCHANGED conn
  <2>1. fired.retrying => fired.attempt # NoConn
    BY <1>3 DEF Inv, RetryShape
  <2>2. ~(Registered(s) /\ ~shuttingDown /\ fired.backoff)
    BY <1>3, <1>6 DEF Unwanted, Inv, Safety, RetryShape, DisposedIsInert
  <2> QED BY <1>2, <1>3, <1>6, <2>1, <2>2, FireInv DEF RetryFires
<1>7. CASE /\ ~Unwanted(s) /\ slot[s].current = NoConn /\ slot[s].attempt # NoConn
           /\ slot' = [slot EXCEPT ![s] = awaiting] /\ UNCHANGED conn
  BY <1>5, <1>7, FireInv DEF RetryFires
<1>8. CASE /\ ~Unwanted(s) /\ slot[s].current = NoConn /\ slot[s].attempt = NoConn
           /\ \E k \in FreshConns :
                 /\ slot' = [slot EXCEPT ![s] = [awaiting EXCEPT !.attempt = k]]
                 /\ conn' = [conn EXCEPT ![k] = Dialing(s)]
  <2>1. PICK k \in FreshConns :
          /\ slot' = [slot EXCEPT ![s] = [awaiting EXCEPT !.attempt = k]]
          /\ conn' = [conn EXCEPT ![k] = Dialing(s)]
    BY <1>8
  <2>2. k \in Conns /\ slot[s].server \in Servers /\ ~slot[s].disposed /\ ~shuttingDown
    BY <1>8, <2>1 DEF FreshConns, Unwanted, Registered
  <2>3. [awaiting EXCEPT !.attempt = k] \in SlotRecords
    BY <1>4, <2>2 DEF SlotRecords
  <2>4. /\ slot' \in [Slots -> SlotRecords]
        /\ \A t \in Slots \ {s} : slot'[t] = slot[t]
    BY <1>1, <2>1, <2>3
  <2>5. slot'[s] = [awaiting EXCEPT !.attempt = k]
    BY <1>1, <2>1
  <2>6. /\ slot'[s].server = slot[s].server /\ slot'[s].current = NoConn
        /\ slot'[s].attempt = k /\ slot'[s].retrying
        /\ slot'[s].disposed <=> slot[s].disposed
        /\ slot'[s].backoff <=> slot[s].backoff
    BY <1>4, <1>5, <1>8, <2>5 DEF SlotRecords
  <2>7. /\ UNCHANGED <<wanted, edits, registry, caller, reload, main>>
        /\ caller' \in [Callers -> CallerRecords] /\ CallerShape'
    BY DEF RetryFires, TypeOK, Inv, Safety, CallerShape
  <2> QED BY <1>8, <2>1, <2>2, <2>4, <2>6, <2>7, DialInv
<1> QED BY <1>2, <1>4, <1>6, <1>7, <1>8 DEF RetryFires

\* initializeServers creates a slot and an attempt for every server.
LEMMA InitializeServersInv == Inv /\ InitializeServers => Inv'
<1> DEFINE names == {n \in Servers : wanted[n] # Absent}
<1> SUFFICES ASSUME Inv, InitializeServers PROVE Inv'
  OBVIOUS
<1>1. PICK f \in [names -> Slots], g \in [names -> Conns] :
         /\ Launch(names, wanted, f, g)
         /\ main' = [phase |-> "booting", awaits |-> {g[n] : n \in names}]
  BY DEF InitializeServers
<1>2. names \in SUBSET Servers /\ \A n \in names : wanted[n] \in Configs
  BY DEF Inv, Safety, TypeOK, ConfigFiles
<1>3. /\ wanted' \in ConfigFiles /\ edits' \in 0 .. MaxEdits
      /\ UNCHANGED caller
      /\ reload' \in [Reloads -> ReloadRecords] /\ ReloadShape'
  BY DEF InitializeServers, Inv, Safety, TypeOK, ReloadShape
<1>4. main' \in [phase: Phases, awaits: SUBSET Conns]
  BY <1>1 DEF Phases
<1>5. shuttingDown' <=> shuttingDown
  BY <1>1 DEF InitializeServers, shuttingDown
<1> HIDE DEF names
<1> QED BY <1>1, <1>2, <1>3, <1>4, <1>5, LaunchInv

\* The second half of reconcile creates slots and attempts.
LEMMA LaunchConnectsInv ==
    ASSUME NEW r \in Reloads, Inv, LaunchConnects(r)
    PROVE  Inv'
<1> DEFINE names == reload[r].connect
<1>1. PICK f \in [names -> Slots], g \in [names -> Conns] :
         Launch(names, reload[r].desired, f, g)
  BY DEF LaunchConnects
<1>2. names \in SUBSET Servers /\ \A n \in names : reload[r].desired[n] \in Configs
  BY DEF Inv, Safety, TypeOK, ReloadRecords, ReloadShape
<1>3. /\ wanted' \in ConfigFiles /\ edits' \in 0 .. MaxEdits
      /\ main' \in [phase: Phases, awaits: SUBSET Conns]
      /\ UNCHANGED caller
      /\ shuttingDown' <=> shuttingDown
  BY DEF LaunchConnects, Inv, Safety, TypeOK, shuttingDown
<1>4. IdleReload \in ReloadRecords
  BY DEF IdleReload, ReloadRecords, ConfigFiles
<1>5. reload' = [reload EXCEPT ![r] = IdleReload]
  BY DEF LaunchConnects
<1>6. reload' \in [Reloads -> ReloadRecords] /\ ReloadShape'
  BY <1>4, <1>5 DEF Inv, Safety, TypeOK, ReloadShape, IdleReload
<1> HIDE DEF names
<1> QED BY <1>1, <1>2, <1>3, <1>6, LaunchInv

\* reconcile goes on to the next server it tears down.
LEMMA TeardownNextInv ==
    ASSUME NEW r \in Reloads, Inv, TeardownNext(r)
    PROVE  Inv'
<1>1. PICK n \in NextTeardown(reload[r].removed, reload[r].changed) :
         /\ Teardown(n)
         /\ reload' = [reload EXCEPT ![r].removed = @ \ {n},
                                     ![r].changed = @ \ {n},
                                     ![r].awaits = Awaited(n)]
  BY DEF TeardownNext
<1>2. /\ reload \in [Reloads -> ReloadRecords]
      /\ registry \in [Servers -> Slots \cup {NoSlot}]
      /\ slot \in [Slots -> SlotRecords]
  BY DEF Inv, Safety, TypeOK
<1>3. n \in Servers
  BY <1>1, <1>2 DEF NextTeardown, ReloadRecords
<1>4. {registry[n]} \ {NoSlot} \in SUBSET Slots
  BY <1>2, <1>3
<1>5. Awaited(n) \subseteq Conns
  BY <1>2, <1>4 DEF Awaited, HeldBy, Held, Draining, SlotRecords
<1>6. reload' \in [Reloads -> ReloadRecords]
  <2> DEFINE next == [reload[r] EXCEPT !.removed = @ \ {n}, !.changed = @ \ {n},
                                       !.awaits = Awaited(n)]
  <2>1. reload[r] \in ReloadRecords
    BY <1>2
  <2>2. next \in ReloadRecords
    BY <1>5, <2>1 DEF ReloadRecords
  <2>3. reload' = [reload EXCEPT ![r] = next]
    BY <1>1, <1>2 DEF ReloadRecords
  <2> QED BY <1>2, <2>2, <2>3
<1>7. \A x \in Reloads : /\ reload'[x].connect = reload[x].connect
                         /\ reload'[x].desired = reload[x].desired
  BY <1>1, <1>2 DEF ReloadRecords
<1>8. ReloadShape'
  BY <1>7 DEF Inv, ReloadShape
<1>9. /\ UNCHANGED <<wanted, edits, caller, main>>
      /\ main' \in [phase: Phases, awaits: SUBSET Conns]
      /\ shuttingDown => shuttingDown'
  BY DEF TeardownNext, Inv, Safety, TypeOK, shuttingDown
<1> QED BY <1>1, <1>4, <1>6, <1>8, <1>9, TakeDownInv DEF Teardown

\* A poll starts a reconcile.
LEMMA StartReloadInv ==
    ASSUME NEW r \in Reloads, Inv, StartReload(r)
    PROVE  Inv'
<1> DEFINE present == {n \in Servers : registry[n] # NoSlot}
           removed == {n \in present : wanted[n] = Absent}
           changed == {n \in present \ removed :
                          slot[registry[n]].config # wanted[n]}
           added   == {n \in Servers \ present : wanted[n] # Absent}
<1>1. /\ reload \in [Reloads -> ReloadRecords]
      /\ registry \in [Servers -> Slots \cup {NoSlot}]
      /\ slot \in [Slots -> SlotRecords]
      /\ wanted \in ConfigFiles
  BY DEF Inv, Safety, TypeOK
<1>2. /\ UNCHANGED <<wanted, edits, caller, main>>
      /\ wanted' \in ConfigFiles /\ edits' \in 0 .. MaxEdits
      /\ main' \in [phase: Phases, awaits: SUBSET Conns]
      /\ shuttingDown' <=> shuttingDown
  BY DEF StartReload, Inv, Safety, TypeOK, shuttingDown
<1>3. CASE /\ \E f \in [added -> Slots], g \in [added -> Conns] :
                 Launch(added, wanted, f, g)
           /\ UNCHANGED reload
  <2>1. PICK f \in [added -> Slots], g \in [added -> Conns] :
           Launch(added, wanted, f, g)
    BY <1>3
  <2>2. added \in SUBSET Servers /\ \A n \in added : wanted[n] \in Configs
    BY <1>1 DEF ConfigFiles
  <2>3. reload' \in [Reloads -> ReloadRecords] /\ ReloadShape'
    BY <1>1, <1>3 DEF Inv, ReloadShape
  <2> HIDE DEF added
  <2> QED BY <1>2, <2>1, <2>2, <2>3, LaunchInv
<1>4. ASSUME NEW n \in NextTeardown(removed, changed), Teardown(n),
             reload' = [reload EXCEPT ![r] =
                [active  |-> TRUE,
                 desired |-> wanted,
                 removed |-> removed \ {n},
                 changed |-> changed \ {n},
                 connect |-> added \cup changed,
                 awaits  |-> Awaited(n)]]
      PROVE  Inv'
  <2>1. n \in Servers
    BY DEF NextTeardown
  <2>2. {registry[n]} \ {NoSlot} \in SUBSET Slots
    BY <1>1, <2>1
  <2>3. Awaited(n) \subseteq Conns
    BY <1>1, <2>2 DEF Awaited, HeldBy, Held, Draining, SlotRecords
  <2>4. /\ removed \subseteq Servers /\ changed \subseteq Servers
        /\ added \subseteq Servers
        /\ \A m \in added \cup changed : wanted[m] \in Configs
    BY <1>1 DEF ConfigFiles
  <2> HIDE DEF removed, changed, added
  <2>5. reload' \in [Reloads -> ReloadRecords]
    BY <1>1, <1>4, <2>3, <2>4 DEF ReloadRecords
  <2>6. ReloadShape'
    BY <1>1, <1>4, <2>4 DEF Inv, ReloadShape
  <2> QED BY <1>2, <1>4, <2>2, <2>5, <2>6, TakeDownInv DEF Teardown
<1> QED BY <1>3, <1>4 DEF StartReload

\* disconnectAll takes every registered slot down.
LEMMA ShutdownInv == Inv /\ Shutdown => Inv'
<1> DEFINE slots == {registry[n] : n \in Servers} \ {NoSlot}
<1> SUFFICES ASSUME Inv, Shutdown PROVE Inv'
  OBVIOUS
<1>1. slots \in SUBSET Slots
  BY DEF Inv, Safety, TypeOK
<1>2. /\ TakeDown(slots)
      /\ main' = [phase |-> "stopping", awaits |-> HeldBy(slots)]
      /\ UNCHANGED <<wanted, edits, caller, reload>>
  BY DEF Shutdown
<1> HIDE DEF slots
<1>3. HeldBy(slots) \subseteq Conns
  BY <1>1 DEF HeldBy, Held, Draining, Inv, Safety, TypeOK, SlotRecords
<1>4. main' \in [phase: Phases, awaits: SUBSET Conns] /\ shuttingDown'
  BY <1>2, <1>3 DEF Phases, shuttingDown
<1>5. reload' \in [Reloads -> ReloadRecords] /\ ReloadShape'
  BY <1>2 DEF Inv, Safety, TypeOK, ReloadShape
<1> QED BY <1>1, <1>2, <1>4, <1>5, TakeDownInv

-----------------------------------------------------------------------------
(* The invariant holds of every behaviour, and with it what it implies.    *)

\* Every step preserves the invariant.
LEMMA NextInv == Inv /\ [Next]_vars => Inv'
<1> SUFFICES ASSUME Inv, [Next]_vars PROVE Inv'
  OBVIOUS
<1>1. CASE InitializeServers
  BY <1>1, InitializeServersInv
<1>2. CASE Booted \/ EditConfig \/ Shutdown \/ Exit
  BY <1>2, BootedInv, EditConfigInv, ShutdownInv, ExitInv
<1>3. ASSUME NEW c \in Callers, NEW invalidate \in BOOLEAN,
             \/ StartCall(c) \/ WakeWithLease(c) \/ WakeReacquire(c)
             \/ FinishCall(c, invalidate)
      PROVE  Inv'
  BY <1>3, StartCallInv, WakeWithLeaseInv, WakeReacquireInv, FinishCallInv
<1>4. ASSUME NEW k \in Conns,
             \/ DialSucceeds(k) \/ DialFails(k) \/ AbortDone(k)
             \/ HardExpiry(k) \/ BackendExits(k) \/ CloseDone(k)
      PROVE  Inv'
  BY <1>4, DialSucceedsInv, DialFailsInv, AbortDoneInv, HardExpiryInv,
     BackendExitsInv, CloseDoneInv
<1>5. ASSUME NEW s \in Slots, RetryFires(s) PROVE Inv'
  BY <1>5, RetryFiresInv
<1>6. ASSUME NEW r \in Reloads,
             StartReload(r) \/ TeardownNext(r) \/ LaunchConnects(r)
      PROVE  Inv'
  BY <1>6, StartReloadInv, TeardownNextInv, LaunchConnectsInv
<1>7. CASE Exited \/ UNCHANGED vars
  <2>1. UNCHANGED vars
    BY <1>7 DEF Exited
  <2> QED BY <2>1, KeepInv DEF vars, Inv, Safety, TypeOK, shuttingDown
<1> QED BY <1>1, <1>2, <1>3, <1>4, <1>5, <1>6, <1>7 DEF Next, ManagerStep

\* The inductive invariant holds in every reachable state of the connection
\* manager, however many reloads overlap.
THEOREM SpecInv == Spec => []Inv
BY InitInv, NextInv, PTL DEF Spec

(* The state of the manager is always well typed: no handler stores a      *)
(* dangling connection, slot or server.                                    *)
THEOREM SpecTypeOK == Spec => []TypeOK
<1>1. Inv => TypeOK
  BY DEF Inv, Safety
<1> QED BY <1>1, SpecInv, PTL

(* Recycling a connection (its age, an authentication failure) never closes *)
(* it under a call: beginDrain waits for the last lease.  Only teardownSlot *)
(* and disconnectAll close a connection that still has calls.               *)
THEOREM SpecRecycleWaitsForCalls == Spec => []RecycleWaitsForCalls
<1>1. Inv => RecycleWaitsForCalls
  OBVIOUS
<1> QED BY <1>1, SpecInv, PTL

(* Every attempt in flight is the connectPromise of a slot that has no      *)
(* ready connection: concurrent calls and retries share one dial.           *)
THEOREM SpecSingleFlight == Spec => []SingleFlight
<1>1. Inv => SingleFlight
  OBVIOUS
<1> QED BY <1>1, SpecInv, PTL

(* A draining connection has a call whose release will close it.            *)
THEOREM SpecDrainingHasCalls == Spec => []DrainingHasCalls
<1>1. Inv => DrainingHasCalls
  OBVIOUS
<1> QED BY <1>1, SpecInv, PTL

(* A slot that was torn down hands out nothing and retries nothing.         *)
THEOREM SpecDisposedIsInert == Spec => []DisposedIsInert
<1>1. Inv => DisposedIsInert
  OBVIOUS
<1> QED BY <1>1, SpecInv, PTL

(* A lost backend of a registered slot always has a retry pending or a dial *)
(* that ends in one: handleDrop, reconnect and scheduleReconnect never drop *)
(* the thread between them.                                                 *)
THEOREM SpecRetryOwed == Spec => []RetryOwed
<1>1. Inv => RetryOwed
  OBVIOUS
<1> QED BY <1>1, SpecInv, PTL

=============================================================================
