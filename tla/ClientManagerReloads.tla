------------------------ MODULE ClientManagerReloads ------------------------
(***************************************************************************)
(* What the connection manager promises while no two reloads overlap, that *)
(* is while every reconcile ends before the next poll of servers.json: no  *)
(* connection outlives its place in the registry, a shutdown leaves no     *)
(* connection serving, and a reload touches only what changed.             *)
(***************************************************************************)
EXTENDS ClientManagerProofs

USE DEF Inv, Safety

OneReload == \A r, q \in Reloads : r = q

Serves(k) == conn[k].state \in {"ready", "draining"}

\* A connection that serves was serving before, for the same slot, or has just
\* been adopted by a registered slot.
ServesAsBefore ==
    \A k \in Conns : Serves(k)' =>
        \/ Serves(k) /\ conn'[k].slot = conn[k].slot
        \/ conn'[k].slot \in Slots /\ Registered(conn'[k].slot) /\ ~shuttingDown

-----------------------------------------------------------------------------
(* The steps that leave the registry and the reloads alone.                *)

\* A step that leaves registry and reloads alone and lets only registered
\* slots serve.
LEMMA QuietStep ==
    ASSUME Inv, ReloadInv, ServesAsBefore,
           UNCHANGED registry,
           \A s \in Slots : /\ slot'[s].server = slot[s].server
                            /\ slot'[s].config = slot[s].config,
           \A r \in Reloads : /\ reload'[r].active <=> reload[r].active
                              /\ reload'[r].desired = reload[r].desired
                              /\ reload'[r].removed = reload[r].removed
                              /\ reload'[r].changed = reload[r].changed
                              /\ reload'[r].connect = reload[r].connect,
           main'.phase = "starting" => main.phase = "starting",
           main'.phase = "booting" => main.phase = "booting",
           shuttingDown' <=> shuttingDown
    PROVE  ReloadInv'
<1>1. /\ registry \in [Servers -> Slots \cup {NoSlot}]
      /\ slot \in [Slots -> SlotRecords]
  BY DEF TypeOK
<1>2. \A s \in Slots : Registered(s)' <=> Registered(s)
  BY DEF Registered
<1>3. \A k \in Conns : Serves(k) => conn[k].slot \in Slots /\ Registered(conn[k].slot)
  BY DEF Serves, ConnShape, ReloadInv, NoOrphan
<1>4. NoOrphan'
  BY <1>2, <1>3 DEF NoOrphan, ServesAsBefore, Serves
<1>5. ShutdownTakesAll'
  BY DEF ReloadInv, ShutdownTakesAll, ServesAsBefore, Serves
<1>6. /\ main'.phase = "starting" => \A n \in Servers : registry'[n] = NoSlot
      /\ main'.phase \in {"starting", "booting"} =>
            \A r \in Reloads : ~reload'[r].active
  BY DEF ReloadInv
<1>7. ~shuttingDown' =>
          \A r \in Reloads : reload'[r].active => \A n \in Servers :
             /\ n \in reload'[r].removed \cup reload'[r].changed =>
                   /\ registry'[n] # NoSlot
                   /\ slot'[registry'[n]].config # reload'[r].desired[n]
             /\ n \in reload'[r].connect =>
                   registry'[n] = NoSlot \/ n \in reload'[r].changed
  BY <1>1 DEF ReloadInv
<1> QED BY <1>4, <1>5, <1>6, <1>7 DEF ReloadInv

\* What the record updates keep of a connection's service.
LEMMA ServiceFacts ==
    ASSUME NEW rec \in ConnRecords
    PROVE  /\ Closing(rec).state = "closed"
           /\ /\ Lease(rec).state = rec.state
              /\ Lease(rec).slot = rec.slot
           /\ /\ BeginDrain(rec).slot = rec.slot
              /\ BeginDrain(rec).state \in {"ready", "draining"} =>
                    rec.state \in {"ready", "draining"}
           /\ /\ Release(rec).slot = rec.slot
              /\ Release(rec).state \in {"ready", "draining"} =>
                    rec.state \in {"ready", "draining"}
BY BeginDrainFacts, ReleaseFacts, ClosingFacts DEF Lease, ConnRecords

\* acquireConnection starts no service.
LEMMA AcquireServes ==
    ASSUME Inv, NEW c \in Callers, NEW n \in Servers, Acquire(c, n)
    PROVE  /\ ServesAsBefore
           /\ \A s \in Slots : /\ slot'[s].server = slot[s].server
                               /\ slot'[s].config = slot[s].config
<1> USE NullAssumption
<1>1. /\ conn \in [Conns -> ConnRecords] /\ slot \in [Slots -> SlotRecords]
      /\ registry \in [Servers -> Slots \cup {NoSlot}]
  BY DEF TypeOK
<1>2. CASE AcquireReady(c, n)
  <2>1. /\ conn' = [conn EXCEPT ![slot[registry[n]].current] = Lease(@)]
        /\ UNCHANGED slot
    BY <1>2 DEF AcquireReady
  <2> QED BY <1>1, <2>1, ServiceFacts DEF ServesAsBefore, Serves
<1>3. CASE AcquireJoin(c, n)
  BY <1>3 DEF AcquireJoin, ServesAsBefore, Serves
<1>4. CASE AcquireDial(c, n)
  <2>1. PICK k \in FreshConns :
           /\ conn' = [conn EXCEPT ![k] = Dialing(registry[n])]
           /\ slot' = [slot EXCEPT ![registry[n]].attempt = k]
    BY <1>4 DEF AcquireDial
  <2>2. \A s \in Slots : /\ slot'[s].server = slot[s].server
                         /\ slot'[s].config = slot[s].config
    BY <1>1, <2>1 DEF SlotRecords
  <2> QED BY <1>1, <2>1, <2>2 DEF ServesAsBefore, Serves, Dialing
<1>5. CASE AcquireRecycle(c, n)
  <2> DEFINE old == slot[registry[n]].current
             s0  == registry[n]
  <2>1. PICK k \in FreshConns :
           /\ conn' = [conn EXCEPT ![old] = BeginDrain(@), ![k] = Dialing(s0)]
           /\ slot' = [slot EXCEPT ![s0] =
                          [WithoutCurrent(@, old) EXCEPT !.attempt = k]]
    BY <1>5 DEF AcquireRecycle
  <2>2. s0 \in Slots
    BY <1>1, <1>5 DEF AcquireRecycle
  <2>3. PICK without \in SlotRecords :
           /\ without = WithoutCurrent(slot[s0], old)
           /\ without.server = slot[s0].server /\ without.config = slot[s0].config
    BY <1>1, <2>2, WithoutCurrentFacts
  <2>4. /\ [without EXCEPT !.attempt = k].server = slot[s0].server
        /\ [without EXCEPT !.attempt = k].config = slot[s0].config
    BY <2>3 DEF SlotRecords
  <2>5. slot' = [slot EXCEPT ![s0] = [without EXCEPT !.attempt = k]]
    BY <1>1, <2>1, <2>3
  <2>6. \A s \in Slots : /\ slot'[s].server = slot[s].server
                         /\ slot'[s].config = slot[s].config
    BY <1>1, <2>2, <2>4, <2>5
  <2>7. \A j \in Conns : conn'[j] = IF j = k THEN Dialing(s0)
                                    ELSE IF j = old THEN BeginDrain(conn[j])
                                    ELSE conn[j]
    BY <1>1, <2>1
  <2>8. ServesAsBefore
    BY <1>1, <2>7, ServiceFacts DEF ServesAsBefore, Serves, Dialing
  <2> QED BY <2>6, <2>8
<1> QED BY <1>2, <1>3, <1>4, <1>5 DEF Acquire

\* The steps of withClient leave reloads alone.
LEMMA CallerQuiet ==
    ASSUME Inv, ReloadInv, NEW c \in Callers, NEW invalidate \in BOOLEAN,
           \/ StartCall(c) \/ WakeWithLease(c) \/ WakeReacquire(c)
           \/ FinishCall(c, invalidate)
    PROVE  ReloadInv'
<1>1. UNCHANGED <<registry, reload, main>>
  BY DEF StartCall, WithClient, WakeWithLease, WakeReacquire, FinishCall
<1>2. /\ ServesAsBefore
      /\ \A s \in Slots : /\ slot'[s].server = slot[s].server
                          /\ slot'[s].config = slot[s].config
  <2>1. /\ conn \in [Conns -> ConnRecords] /\ slot \in [Slots -> SlotRecords]
    BY DEF TypeOK
  <2>2. CASE StartCall(c)
    BY <2>2, AcquireServes DEF StartCall, WithClient
  <2>3. CASE WakeWithLease(c)
    BY <2>1, <2>3, ServiceFacts DEF WakeWithLease, ServesAsBefore, Serves
  <2>4. CASE WakeReacquire(c)
    <3>1. caller[c].server \in Servers
      BY <2>4 DEF WakeReacquire, CallerShape
    <3>2. Acquire(c, caller[c].server) \/ UNCHANGED <<slot, conn>>
      BY <2>4 DEF WakeReacquire
    <3> QED BY <3>1, <3>2, AcquireServes DEF ServesAsBefore, Serves
  <2>5. CASE FinishCall(c, invalidate)
    <3> DEFINE k     == caller[c].conn
               ended == IF invalidate THEN BeginDrain(conn[k]) ELSE conn[k]
               after == Release(ended)
    <3>1. k \in Conns
      BY <2>5 DEF FinishCall, CallerShape
    <3>2. /\ ended \in ConnRecords /\ ended.slot = conn[k].slot
          /\ ended.state \in {"ready", "draining"} => Serves(k)
      BY <2>1, <3>1, BeginDrainFacts, ServiceFacts DEF Serves
    <3>3. conn' = [conn EXCEPT ![k] = after]
      BY <2>5 DEF FinishCall
    <3>4. \/ slot' = slot
          \/ slot' = [slot EXCEPT ![conn[k].slot] = WithoutCurrent(@, k)]
      BY <2>5 DEF FinishCall
    <3> HIDE DEF ended
    <3>5. /\ after.slot = conn[k].slot
          /\ after.state \in {"ready", "draining"} => Serves(k)
      BY <3>2, ServiceFacts
    <3> HIDE DEF after, k
    <3>6. ServesAsBefore
      BY <2>1, <3>1, <3>3, <3>5 DEF ServesAsBefore, Serves
    <3>7. \A s \in Slots : /\ slot'[s].server = slot[s].server
                           /\ slot'[s].config = slot[s].config
      BY <2>1, <3>4, WithoutCurrentFacts
    <3> QED BY <3>6, <3>7
  <2> QED BY <2>2, <2>3, <2>4, <2>5
<1> QED BY <1>1, <1>2, QuietStep DEF shuttingDown

\* The events of a connection leave reloads alone; only a dial that is
\* wanted is adopted.
LEMMA ConnQuiet ==
    ASSUME Inv, ReloadInv, NEW k \in Conns,
           \/ DialSucceeds(k) \/ DialFails(k) \/ AbortDone(k)
           \/ HardExpiry(k) \/ BackendExits(k) \/ CloseDone(k)
    PROVE  ReloadInv'
<1>1. /\ conn \in [Conns -> ConnRecords] /\ slot \in [Slots -> SlotRecords]
      /\ reload \in [Reloads -> ReloadRecords]
      /\ main \in [phase: Phases, awaits: SUBSET Conns]
  BY DEF TypeOK
<1>2. UNCHANGED registry /\ main'.phase = main.phase
  BY <1>1 DEF DialSucceeds, DialFails, AbortDone, HardExpiry, BackendExits,
     CloseDone
<1>3. \A r \in Reloads : /\ reload'[r].active <=> reload[r].active
                         /\ reload'[r].desired = reload[r].desired
                         /\ reload'[r].removed = reload[r].removed
                         /\ reload'[r].changed = reload[r].changed
                         /\ reload'[r].connect = reload[r].connect
  BY <1>1, SMTT(30) DEF DialSucceeds, DialFails, AbortDone, HardExpiry, BackendExits,
              CloseDone, ReloadRecords
<1>4. \A s \in Slots : /\ slot'[s].server = slot[s].server
                       /\ slot'[s].config = slot[s].config
  <2>1. CASE DialFails(k) \/ CloseDone(k) \/ UNCHANGED slot
    BY <2>1 DEF DialFails, CloseDone
  <2>2. CASE DialSucceeds(k)
    BY <1>1, <2>2 DEF DialSucceeds, SlotRecords
  <2>3. CASE AbortDone(k)
    <3> DEFINE s    == conn[k].slot
               over == [slot[s] EXCEPT !.attempt = NoConn, !.retrying = FALSE]
    <3>1. s \in Slots
      BY <2>3 DEF AbortDone, ConnShape
    <3>2. /\ over \in SlotRecords
          /\ over.server = slot[s].server /\ over.config = slot[s].config
      <4>1. PICK rec \in SlotRecords : rec = slot[s]
        BY <1>1, <3>1
      <4> HIDE DEF s
      <4> QED BY <4>1 DEF SlotRecords
    <3> HIDE DEF over
    <3>3. PICK rec \in {over, ScheduleReconnect(s, over)} :
             slot' = [slot EXCEPT ![s] = rec]
      BY <2>3 DEF AbortDone, over
    <3>4. rec.server = slot[s].server /\ rec.config = slot[s].config
      BY <3>1, <3>2, <3>3, ScheduleReconnectFacts
    <3> QED BY <1>1, <3>3, <3>4
  <2>4. CASE HardExpiry(k)
    BY <1>1, <2>4, WithoutCurrentFacts DEF HardExpiry
  <2>5. CASE BackendExits(k)
    <3> DEFINE s    == conn[k].slot
               lost == [slot[s] EXCEPT !.current = NoConn]
    <3>1. s \in Slots
      BY <2>5 DEF BackendExits, ConnShape
    <3>2. /\ lost \in SlotRecords
          /\ lost.server = slot[s].server /\ lost.config = slot[s].config
      BY <1>1, <3>1 DEF SlotRecords
    <3> HIDE DEF lost
    <3>3. slot' = [slot EXCEPT ![s] = ScheduleReconnect(s, lost)]
      BY <2>5 DEF BackendExits, lost
    <3> QED BY <1>1, <3>1, <3>2, <3>3, ScheduleReconnectFacts
  <2> QED BY <2>1, <2>2, <2>3, <2>4, <2>5
<1>5. ServesAsBefore
  <2> USE <1>1 DEF ServesAsBefore, Serves
  <2>1. CASE DialSucceeds(k)
    <3>1. CASE Unwanted(conn[k].slot)
      <4>1. conn' = [conn EXCEPT ![k].state = "aborting"]
        BY <2>1, <3>1 DEF DialSucceeds
      <4> QED BY <4>1 DEF ConnRecords
    <3>2. CASE ~Unwanted(conn[k].slot)
      <4>1. conn' = [conn EXCEPT ![k].state = "ready"]
        BY <2>1, <3>2 DEF DialSucceeds
      <4>2. conn[k].slot \in Slots /\ Registered(conn[k].slot) /\ ~shuttingDown
        BY <2>1, <3>2 DEF DialSucceeds, Unwanted, ConnShape
      <4> QED BY <4>1, <4>2 DEF ConnRecords
    <3> QED BY <3>1, <3>2
  <2>2. CASE DialFails(k)
    BY <2>2 DEF DialFails, ConnRecords
  <2>3. CASE AbortDone(k) \/ BackendExits(k) \/ CloseDone(k)
    <3>1. \E rec : conn' = [conn EXCEPT ![k] = rec] /\ rec.state = "closed"
      BY <2>3 DEF AbortDone, BackendExits, CloseDone, NullConn
    <3> QED BY <3>1
  <2>4. CASE HardExpiry(k)
    BY <2>4, ServiceFacts DEF HardExpiry
  <2> QED BY <2>1, <2>2, <2>3, <2>4
<1> QED BY <1>2, <1>3, <1>4, <1>5, QuietStep DEF shuttingDown

-----------------------------------------------------------------------------
(* The steps that change the registry.                                     *)

\* Slots and dials for names that had none, at the end of every reload.
LEMMA LaunchReload ==
    ASSUME Inv, ReloadInv, NEW names \in SUBSET Servers, NEW cfgs, NEW f, NEW g,
           Launch(names, cfgs, f, g),
           ~shuttingDown => \A n \in names : registry[n] = NoSlot,
           main'.phase # "starting",
           \A r \in Reloads : ~reload'[r].active,
           shuttingDown' <=> shuttingDown
    PROVE  ReloadInv'
<1> USE NullAssumption
<1>1. /\ \A n \in names : slot[f[n]] = NullSlot
      /\ \A n \in Servers : n \notin names => registry'[n] = registry[n]
      /\ \A s \in Slots : slot[s] # NullSlot => slot'[s] = slot[s]
      /\ \A k \in Conns : conn'[k] = conn[k] \/ ~Serves(k)'
      /\ shuttingDown => conn' = conn
  <2>1. conn \in [Conns -> ConnRecords]
    BY DEF TypeOK
  <2>2. f \in [names -> FreshSlots] /\ g \in [names -> FreshConns]
    BY DEF Launch, Injections
  <2>3. \A n \in Servers : n \notin names => registry'[n] = registry[n]
    BY DEF Launch
  <2>4. \A s \in Slots : slot[s] # NullSlot => slot'[s] = slot[s]
    BY <2>2 DEF Launch, LaunchedSlots, FreshSlots
  <2>5. \A k \in Conns : conn'[k] = conn[k] \/ ~Serves(k)'
    BY DEF Launch, LaunchedConns, Serves, Dialing
  <2>6. shuttingDown => conn' = conn
    BY <2>1 DEF Launch, LaunchedConns
  <2> QED BY <2>2, <2>3, <2>4, <2>5, <2>6 DEF FreshSlots
<1>2. \A k \in Conns : Serves(k)' =>
         /\ Serves(k) /\ conn'[k] = conn[k] /\ ~shuttingDown
         /\ conn[k].slot \in Slots /\ Registered(conn[k].slot)
  BY <1>1 DEF Serves, ReloadInv, ShutdownTakesAll, NoOrphan, ConnShape
<1>3. ASSUME NEW k \in Conns, Serves(k)' PROVE Registered(conn[k].slot)'
  <2> DEFINE s == conn[k].slot
             n == slot[s].server
  <2>1. s \in Slots /\ n \in Servers /\ registry[n] = s /\ ~shuttingDown
    BY <1>2, <1>3 DEF Registered
  <2>2. n \notin names
    BY <2>1
  <2>3. slot[s] # NullSlot
    BY <2>1 DEF NullSlot
  <2>4. slot'[s] = slot[s] /\ registry'[n] = registry[n] /\ conn'[k].slot = s
    BY <1>1, <1>2, <1>3, <2>1, <2>2, <2>3
  <2> QED BY <2>1, <2>4 DEF Registered
<1>4. NoOrphan'
  BY <1>3 DEF NoOrphan, Serves
<1>5. ShutdownTakesAll'
  BY <1>2 DEF ShutdownTakesAll, Serves
<1> QED BY <1>4, <1>5 DEF ReloadInv

\* A teardown closes every connection that serves for one of its slots.
LEMMA TakeDownServes ==
    ASSUME Inv, ReloadInv, NEW down \in SUBSET Slots, TakeDown(down)
    PROVE  /\ \A k \in Conns : Serves(k)' =>
                 /\ Serves(k) /\ conn'[k] = conn[k] /\ conn[k].slot \notin down
           /\ NoOrphan'
<1> USE NullAssumption
<1>1. /\ conn \in [Conns -> ConnRecords] /\ slot \in [Slots -> SlotRecords]
      /\ registry \in [Servers -> Slots \cup {NoSlot}]
  BY DEF TypeOK
<1>2. \A s \in Slots : slot'[s].server = slot[s].server
  BY <1>1, DisposedFacts DEF TakeDown
<1>3. \A k \in Conns : IF k \in HeldBy(down) THEN conn'[k].state = "closed"
                       ELSE conn'[k] = conn[k]
  <2>1. \A k \in Conns : Closing(conn[k]).state = "closed"
    BY <1>1, ServiceFacts
  <2> QED BY <2>1 DEF TakeDown
<1>4. \A k \in Conns : Serves(k) /\ conn[k].slot \in down => k \in HeldBy(down)
  <2> SUFFICES ASSUME NEW k \in Conns, Serves(k), conn[k].slot \in down
               PROVE  k \in Held(conn[k].slot)
    BY DEF HeldBy
  <2>1. CASE conn[k].state = "ready"
    BY <2>1 DEF ReadyIsCurrent, Held
  <2>2. CASE conn[k].state = "draining"
    BY <2>2 DEF Held, Draining
  <2> QED BY <2>1, <2>2 DEF Serves
<1>5. \A k \in Conns : Serves(k)' =>
         Serves(k) /\ conn'[k] = conn[k] /\ conn[k].slot \notin down
  BY <1>3, <1>4 DEF Serves
<1>6. ASSUME NEW k \in Conns, Serves(k)' PROVE Registered(conn[k].slot)'
  <2> DEFINE s == conn[k].slot
  <2>1. /\ s \in Slots /\ Registered(s) /\ s \notin down /\ conn'[k].slot = s
    BY <1>5, <1>6 DEF ReloadInv, NoOrphan, ConnShape, Serves
  <2>2. registry'[slot[s].server] = s
    BY <2>1 DEF Registered, TakeDown
  <2> QED BY <1>2, <2>1, <2>2 DEF Registered
<1> QED BY <1>5, <1>6 DEF NoOrphan, Serves

\* disconnectAll reaches all that serves, because nothing is orphaned.
LEMMA ShutdownReload == Inv /\ ReloadInv /\ Shutdown => ReloadInv'
<1> SUFFICES ASSUME Inv, ReloadInv, Shutdown PROVE ReloadInv'
  OBVIOUS
<1> DEFINE down == {registry[n] : n \in Servers} \ {NoSlot}
<1>1. down \in SUBSET Slots /\ TakeDown(down)
  BY DEF Shutdown, TypeOK
<1>2. \A k \in Conns : Serves(k) => conn[k].slot \in down
  <2> SUFFICES ASSUME NEW k \in Conns, Serves(k) PROVE conn[k].slot \in down
    OBVIOUS
  <2>1. conn[k].slot \in Slots /\ Registered(conn[k].slot)
    BY DEF ReloadInv, NoOrphan, ConnShape, Serves
  <2> QED BY <2>1, NullAssumption DEF Registered
<1> HIDE DEF down
<1>3. NoOrphan' /\ \A k \in Conns : ~Serves(k)'
  BY <1>1, <1>2, TakeDownServes
<1>4. main'.phase = "stopping" /\ shuttingDown'
  BY DEF Shutdown, shuttingDown
<1> QED BY <1>3, <1>4 DEF ReloadInv, ShutdownTakesAll, Serves

\* teardownSlot of one name.
LEMMA TeardownFacts ==
    ASSUME Inv, ReloadInv, NEW n \in Servers, Teardown(n),
           shuttingDown' <=> shuttingDown
    PROVE  /\ registry'[n] = NoSlot
           /\ \A m \in Servers \ {n} : registry'[m] = registry[m]
           /\ \A s \in Slots : slot'[s].config = slot[s].config
           /\ NoOrphan' /\ ShutdownTakesAll'
<1> DEFINE down == {registry[n]} \ {NoSlot}
<1>1. /\ slot \in [Slots -> SlotRecords]
      /\ registry \in [Servers -> Slots \cup {NoSlot}]
  BY DEF TypeOK
<1>2. down \in SUBSET Slots /\ TakeDown(down)
  BY <1>1 DEF Teardown
<1>3. \A m \in Servers \ {n} : registry[m] \notin down
  BY DEF RegistryShape
<1>4. registry[n] \in down \/ registry[n] = NoSlot
  OBVIOUS
<1> HIDE DEF down
<1>5. registry'[n] = NoSlot /\ \A m \in Servers \ {n} : registry'[m] = registry[m]
  BY <1>2, <1>3, <1>4 DEF TakeDown
<1>6. \A s \in Slots : slot'[s].config = slot[s].config
  BY <1>1, <1>2 DEF TakeDown, SlotRecords
<1>7. NoOrphan' /\ \A k \in Conns : Serves(k)' => Serves(k)
  BY <1>2, TakeDownServes
<1>8. ShutdownTakesAll'
  BY <1>7 DEF ReloadInv, ShutdownTakesAll, Serves
<1> QED BY <1>5, <1>6, <1>7, <1>8

\* A reload starts from the slots it compared with its configuration.
LEMMA StartReloadReload ==
    ASSUME OneReload, Inv, ReloadInv, NEW r \in Reloads, StartReload(r)
    PROVE  ReloadInv'
<1> DEFINE present == {n \in Servers : registry[n] # NoSlot}
           removed == {n \in present : wanted[n] = Absent}
           changed == {n \in present \ removed :
                          slot[registry[n]].config # wanted[n]}
           added   == {n \in Servers \ present : wanted[n] # Absent}
<1>1. /\ main.phase = "serving" /\ main' = main /\ ~reload[r].active
      /\ (shuttingDown' <=> shuttingDown)
  BY DEF StartReload, Polls, shuttingDown
<1>2. \A q \in Reloads : q = r
  BY DEF OneReload
<1>3. CASE /\ \E f \in [added -> Slots], g \in [added -> Conns] :
                 Launch(added, wanted, f, g)
           /\ UNCHANGED reload
  <2>1. PICK f \in [added -> Slots], g \in [added -> Conns] :
           Launch(added, wanted, f, g)
    BY <1>3
  <2>2. added \in SUBSET Servers /\ \A n \in added : registry[n] = NoSlot
    OBVIOUS
  <2> HIDE DEF added
  <2>3. \A q \in Reloads : ~reload'[q].active
    BY <1>1, <1>2, <1>3
  <2> QED BY <1>1, <2>1, <2>2, <2>3, LaunchReload
<1>4. ASSUME NEW n \in NextTeardown(removed, changed), Teardown(n),
             reload' = [reload EXCEPT ![r] =
                [active  |-> TRUE,
                 desired |-> wanted,
                 removed |-> removed \ {n},
                 changed |-> changed \ {n},
                 connect |-> added \cup changed,
                 awaits  |-> Awaited(n)]]
      PROVE  ReloadInv'
  <2>1. reload \in [Reloads -> ReloadRecords] /\ slot \in [Slots -> SlotRecords]
         /\ registry \in [Servers -> Slots \cup {NoSlot}]
    BY DEF TypeOK
  <2>2. n \in Servers
    BY DEF NextTeardown
  <2>3. /\ registry'[n] = NoSlot
        /\ \A m \in Servers \ {n} : registry'[m] = registry[m]
        /\ \A s \in Slots : slot'[s].config = slot[s].config
        /\ NoOrphan' /\ ShutdownTakesAll'
    BY <1>1, <1>4, <2>2, TeardownFacts
  <2>4. /\ reload'[r].desired = wanted
        /\ reload'[r].removed = removed \ {n}
        /\ reload'[r].changed = changed \ {n}
        /\ reload'[r].connect = added \cup changed
    BY <1>4, <2>1
  <2>5. \A m \in Servers :
           /\ m \in removed \cup changed =>
                 registry[m] # NoSlot /\ slot[registry[m]].config # wanted[m]
           /\ m \in added => registry[m] = NoSlot
    <3>1. ASSUME NEW m \in removed PROVE slot[registry[m]].config # wanted[m]
      BY <2>1, NullAssumption DEF SlotRecords
    <3> QED BY <3>1
  <2> HIDE DEF removed, changed, added
  <2>6. \A m \in Servers :
           /\ m \in reload'[r].removed \cup reload'[r].changed =>
                 /\ registry'[m] # NoSlot
                 /\ slot'[registry'[m]].config # reload'[r].desired[m]
           /\ m \in reload'[r].connect =>
                 registry'[m] = NoSlot \/ m \in reload'[r].changed
    BY <2>1, <2>3, <2>4, <2>5
  <2> QED BY <1>1, <1>2, <2>3, <2>6 DEF ReloadInv
<1> QED BY <1>3, <1>4 DEF StartReload

\* A reload goes on with the slots it still has to tear down.
LEMMA TeardownNextReload ==
    ASSUME OneReload, Inv, ReloadInv, NEW r \in Reloads, TeardownNext(r)
    PROVE  ReloadInv'
<1>1. PICK n \in NextTeardown(reload[r].removed, reload[r].changed) :
         /\ Teardown(n)
         /\ reload' = [reload EXCEPT ![r].removed = @ \ {n},
                                     ![r].changed = @ \ {n},
                                     ![r].awaits = Awaited(n)]
  BY DEF TeardownNext
<1>2. /\ reload \in [Reloads -> ReloadRecords] /\ slot \in [Slots -> SlotRecords]
      /\ registry \in [Servers -> Slots \cup {NoSlot}]
  BY DEF TypeOK
<1>3. n \in Servers
  BY <1>1, <1>2 DEF NextTeardown, ReloadRecords
<1>4. /\ main' = main /\ reload[r].active
      /\ (shuttingDown' <=> shuttingDown)
  BY DEF TeardownNext, shuttingDown
<1>5. main.phase \notin {"starting", "booting"}
  BY <1>4 DEF ReloadInv
<1>6. \A q \in Reloads : q = r
  BY DEF OneReload
<1>7. /\ registry'[n] = NoSlot
      /\ \A m \in Servers \ {n} : registry'[m] = registry[m]
      /\ \A s \in Slots : slot'[s].config = slot[s].config
      /\ NoOrphan' /\ ShutdownTakesAll'
  BY <1>1, <1>3, <1>4, TeardownFacts
<1>8. /\ reload'[r].desired = reload[r].desired
      /\ reload'[r].removed = reload[r].removed \ {n}
      /\ reload'[r].changed = reload[r].changed \ {n}
      /\ reload'[r].connect = reload[r].connect
  BY <1>1, <1>2 DEF ReloadRecords
<1>9. ~shuttingDown =>
        \A m \in Servers :
           /\ m \in reload'[r].removed \cup reload'[r].changed =>
                 /\ registry'[m] # NoSlot
                 /\ slot'[registry'[m]].config # reload'[r].desired[m]
           /\ m \in reload'[r].connect =>
                 registry'[m] = NoSlot \/ m \in reload'[r].changed
  BY <1>2, <1>4, <1>7, <1>8 DEF ReloadInv
<1> QED BY <1>4, <1>5, <1>6, <1>7, <1>9 DEF ReloadInv

\* A reload connects names that have no slot by then.
LEMMA LaunchConnectsReload ==
    ASSUME OneReload, Inv, ReloadInv, NEW r \in Reloads, LaunchConnects(r)
    PROVE  ReloadInv'
<1> DEFINE names == reload[r].connect
<1>1. PICK f \in [names -> Slots], g \in [names -> Conns] :
         Launch(names, reload[r].desired, f, g)
  BY DEF LaunchConnects
<1>2. /\ main' = main /\ reload[r].active
      /\ (shuttingDown' <=> shuttingDown)
      /\ reload[r].changed = {}
  BY DEF LaunchConnects, shuttingDown
<1>3. main'.phase # "starting"
  BY <1>2 DEF ReloadInv
<1>4. names \in SUBSET Servers
  BY DEF TypeOK, ReloadRecords
<1>5. ~shuttingDown => \A n \in names : registry[n] = NoSlot
  BY <1>2, <1>4 DEF ReloadInv
<1>6. \A q \in Reloads : ~reload'[q].active
  <2>1. reload'[r] = IdleReload
    BY DEF LaunchConnects, TypeOK
  <2> QED BY <2>1 DEF IdleReload, OneReload
<1> HIDE DEF names
<1> QED BY <1>1, <1>2, <1>3, <1>4, <1>5, <1>6, LaunchReload

\* The start-up finds an empty registry.
LEMMA InitializeServersReload ==
    Inv /\ ReloadInv /\ InitializeServers => ReloadInv'
<1> SUFFICES ASSUME Inv, ReloadInv, InitializeServers PROVE ReloadInv'
  OBVIOUS
<1> DEFINE names == {n \in Servers : wanted[n] # Absent}
<1>1. PICK f \in [names -> Slots], g \in [names -> Conns] :
         /\ Launch(names, wanted, f, g)
         /\ main' = [phase |-> "booting", awaits |-> {g[n] : n \in names}]
  BY DEF InitializeServers
<1>2. /\ main.phase = "starting" /\ main'.phase = "booting"
      /\ (shuttingDown' <=> shuttingDown)
      /\ UNCHANGED reload
  BY <1>1 DEF InitializeServers, shuttingDown
<1>3. names \in SUBSET Servers /\ \A n \in names : registry[n] = NoSlot
  BY <1>2 DEF ReloadInv
<1>4. \A r \in Reloads : ~reload'[r].active
  BY <1>2 DEF ReloadInv
<1> HIDE DEF names
<1> QED BY <1>1, <1>2, <1>3, <1>4, LaunchReload

-----------------------------------------------------------------------------
(* The theorems.                                                           *)

\* Every step preserves the invariant of a single reload.
LEMMA NextReload == OneReload /\ Inv /\ ReloadInv /\ [Next]_vars => ReloadInv'
<1> SUFFICES ASSUME OneReload, Inv, ReloadInv, [Next]_vars PROVE ReloadInv'
  OBVIOUS
<1>1. CASE InitializeServers
  BY <1>1, InitializeServersReload
<1>2. CASE Shutdown
  BY <1>2, ShutdownReload
<1>3. ASSUME NEW r \in Reloads,
             StartReload(r) \/ TeardownNext(r) \/ LaunchConnects(r)
      PROVE  ReloadInv'
  BY <1>3, StartReloadReload, TeardownNextReload, LaunchConnectsReload
<1>4. CASE Booted \/ Exit \/ EditConfig \/ Exited \/ UNCHANGED vars
  <2>1. /\ UNCHANGED <<registry, slot, conn, reload>>
        /\ main'.phase = main.phase \/ main'.phase \in {"serving", "exited"}
        /\ (shuttingDown' <=> shuttingDown)
    BY <1>4 DEF Booted, Exit, EditConfig, Exited, vars, shuttingDown, TypeOK
  <2>2. ServesAsBefore
    BY <2>1 DEF ServesAsBefore, Serves
  <2> QED BY <2>1, <2>2, QuietStep
<1>5. ASSUME NEW s \in Slots, RetryFires(s) PROVE ReloadInv'
  <2>1. slot \in [Slots -> SlotRecords] /\ conn \in [Conns -> ConnRecords]
    BY DEF TypeOK
  <2>2. \A t \in Slots : /\ slot'[t].server = slot[t].server
                         /\ slot'[t].config = slot[t].config
    <3> DEFINE Kept(rec) == rec.server = slot[s].server /\ rec.config = slot[s].config
               fired    == [slot[s] EXCEPT !.retry = FALSE]
               awaiting == [fired EXCEPT !.retrying = TRUE]
    <3>1. slot[s] \in SlotRecords
      BY <2>1
    <3>2. fired \in SlotRecords /\ Kept(fired)
      BY <3>1 DEF SlotRecords
    <3>3. \/ slot' = [slot EXCEPT ![s] = fired]
          \/ slot' = [slot EXCEPT ![s] = awaiting]
          \/ \E k \in FreshConns :
                slot' = [slot EXCEPT ![s] = [awaiting EXCEPT !.attempt = k]]
      BY <1>5 DEF RetryFires
    <3> HIDE DEF fired
    <3>4. awaiting \in SlotRecords /\ Kept(awaiting)
      BY <3>2 DEF SlotRecords
    <3> HIDE DEF awaiting
    <3>5. \A k : Kept([awaiting EXCEPT !.attempt = k])
      BY <3>4 DEF SlotRecords
    <3>6. CASE slot' = [slot EXCEPT ![s] = fired]
      BY <2>1, <3>2, <3>6
    <3>7. CASE slot' = [slot EXCEPT ![s] = awaiting]
      BY <2>1, <3>4, <3>7
    <3>8. ASSUME NEW k \in FreshConns,
                 slot' = [slot EXCEPT ![s] = [awaiting EXCEPT !.attempt = k]]
          PROVE  \A t \in Slots : /\ slot'[t].server = slot[t].server
                                  /\ slot'[t].config = slot[t].config
      <4> DEFINE dialled == [awaiting EXCEPT !.attempt = k]
      <4>1. Kept(dialled) /\ slot' = [slot EXCEPT ![s] = dialled]
        BY <3>5, <3>8
      <4> HIDE DEF dialled
      <4> QED BY <2>1, <4>1
    <3> QED BY <3>3, <3>6, <3>7, <3>8
  <2>3. ServesAsBefore
    <3>1. UNCHANGED conn \/ \E k \in FreshConns :
                               conn' = [conn EXCEPT ![k] = Dialing(s)]
      BY <1>5 DEF RetryFires
    <3> QED BY <2>1, <3>1 DEF ServesAsBefore, Serves, Dialing
  <2>4. UNCHANGED <<registry, reload, main>>
    BY <1>5 DEF RetryFires
  <2> QED BY <2>2, <2>3, <2>4, QuietStep DEF shuttingDown
<1> QED BY <1>1, <1>2, <1>3, <1>4, <1>5, CallerQuiet, ConnQuiet DEF Next, ManagerStep

\* It holds of a process that has just started.
LEMMA InitReload == Init => ReloadInv
BY DEF Init, ReloadInv, NoOrphan, ShutdownTakesAll, NullConn, IdleReload,
   shuttingDown

\* It holds in every reachable state while reloads do not overlap.
LEMMA SpecReloadInv == OneReload => (Spec => []ReloadInv)
<1> SUFFICES ASSUME OneReload PROVE Spec => []ReloadInv
  OBVIOUS
<1>1. Inv /\ ReloadInv /\ [Next]_vars => ReloadInv'
  BY NextReload
<1> QED BY <1>1, InitReload, SpecInv, PTL DEF Spec

(* Every connection that serves calls is the responsibility of the slot     *)
(* registered for its server, so a teardown or a shutdown reaches it: a     *)
(* dial that finishes after its slot was replaced is never adopted          *)
(* (createConnection's unwanted test).                                      *)
THEOREM SpecNoOrphan == OneReload => (Spec => []NoOrphan)
<1>1. ReloadInv => NoOrphan
  BY DEF ReloadInv
<1> QED BY <1>1, SpecReloadInv, PTL

(* From the first step of disconnectAll on no connection serves calls,      *)
(* whatever dial, retry or reload was in flight when it began.              *)
THEOREM SpecShutdownTakesAll == OneReload => (Spec => []ShutdownTakesAll)
<1>1. ReloadInv => ShutdownTakesAll
  BY DEF ReloadInv
<1> QED BY <1>1, SpecReloadInv, PTL

\* A step may replace or remove a slot only for a reload that read a different
\* configuration for its server.
Replaced(n) == registry[n] # NoSlot /\ registry'[n] # registry[n] /\ ~shuttingDown'

ByReload(n) == \E r \in Reloads :
                  /\ reload'[r].active
                  /\ reload'[r].desired[n] # slot[registry[n]].config

\* A slot is replaced or removed only by a reload that read another entry
\* for its server.
LEMMA NextUntouched ==
    ASSUME OneReload, Inv, ReloadInv, Next, NEW n \in Servers, Replaced(n)
    PROVE  ByReload(n)
<1>1. /\ reload \in [Reloads -> ReloadRecords] /\ slot \in [Slots -> SlotRecords]
      /\ registry \in [Servers -> Slots \cup {NoSlot}]
  BY DEF TypeOK
<1>2. registry[n] # NoSlot /\ registry' # registry /\ ~shuttingDown'
  BY DEF Replaced
<1>3. ~InitializeServers /\ ~Shutdown
  BY <1>2 DEF InitializeServers, ReloadInv, Shutdown, shuttingDown
<1>4. PICK r \in Reloads : StartReload(r) \/ TeardownNext(r) \/ LaunchConnects(r)
  BY <1>2, <1>3 DEF Next, ManagerStep, Booted, StartCall, WithClient,
     WakeWithLease, WakeReacquire,
     FinishCall, DialSucceeds, DialFails, AbortDone, HardExpiry, BackendExits,
     CloseDone, RetryFires, EditConfig, Exit, Exited, vars
<1>5. ~shuttingDown /\ (shuttingDown' <=> shuttingDown)
  BY <1>2, <1>4
  DEF StartReload, Polls, TeardownNext, LaunchConnects, shuttingDown
<1>6. CASE LaunchConnects(r)
  <2>1. PICK f, g : Launch(reload[r].connect, reload[r].desired, f, g)
    BY <1>6 DEF LaunchConnects
  <2>2. n \notin reload[r].connect
    BY <1>2, <1>5, <1>6 DEF LaunchConnects, ReloadInv
  <2> QED BY <2>1, <2>2 DEF Launch, Replaced
<1>7. CASE TeardownNext(r)
  <2>1. PICK m \in NextTeardown(reload[r].removed, reload[r].changed) :
           /\ Teardown(m)
           /\ reload' = [reload EXCEPT ![r].removed = @ \ {m},
                                       ![r].changed = @ \ {m},
                                       ![r].awaits = Awaited(m)]
    BY <1>7 DEF TeardownNext
  <2>2. m \in Servers /\ m \in reload[r].removed \cup reload[r].changed
    BY <1>1, <2>1 DEF NextTeardown, ReloadRecords
  <2>3. n = m
    BY <1>5, <2>1, <2>2, TeardownFacts DEF Replaced
  <2>4. /\ slot[registry[n]].config # reload[r].desired[n]
        /\ reload[r].active
    BY <1>5, <1>7, <2>2, <2>3 DEF TeardownNext, ReloadInv
  <2>5. reload'[r].active /\ reload'[r].desired = reload[r].desired
    BY <1>1, <2>1, <2>4 DEF ReloadRecords
  <2> QED BY <2>4, <2>5 DEF ByReload
<1>8. CASE StartReload(r)
  <2> DEFINE present == {m \in Servers : registry[m] # NoSlot}
             removed == {m \in present : wanted[m] = Absent}
             changed == {m \in present \ removed :
                            slot[registry[m]].config # wanted[m]}
             added   == {m \in Servers \ present : wanted[m] # Absent}
  <2>1. CASE \E f \in [added -> Slots], g \in [added -> Conns] :
                Launch(added, wanted, f, g)
    BY <1>2, <2>1 DEF Launch, Replaced
  <2>2. ASSUME NEW m \in NextTeardown(removed, changed), Teardown(m),
               reload' = [reload EXCEPT ![r] =
                  [active  |-> TRUE,
                   desired |-> wanted,
                   removed |-> removed \ {m},
                   changed |-> changed \ {m},
                   connect |-> added \cup changed,
                   awaits  |-> Awaited(m)]]
        PROVE  ByReload(n)
    <3>1. m \in Servers /\ m \in removed \cup changed
      BY DEF NextTeardown
    <3>2. n = m
      BY <1>5, <2>2, <3>1, TeardownFacts DEF Replaced
    <3>3. slot[registry[n]].config # wanted[n]
      <4>1. CASE n \in changed
        BY <4>1
      <4>2. CASE n \in removed
        BY <1>1, <4>2, NullAssumption DEF SlotRecords
      <4> QED BY <3>1, <3>2, <4>1, <4>2
    <3>4. reload'[r].active /\ reload'[r].desired = wanted
      BY <1>1, <2>2
    <3> QED BY <3>3, <3>4 DEF ByReload
  <2> QED BY <1>8, <2>1, <2>2 DEF StartReload
<1> QED BY <1>4, <1>6, <1>7, <1>8

(* A reload leaves alone every server whose entry of servers.json did not   *)
(* change: reconcile tears down only what it found removed or changed.      *)
THEOREM SpecUntouchedKept == OneReload => (Spec => UntouchedKept)
<1> SUFFICES ASSUME OneReload PROVE Spec => UntouchedKept
  OBVIOUS
<1>1. Inv /\ ReloadInv /\ [Next]_vars =>
         [\A n \in Servers : Replaced(n) => ByReload(n)]_vars
  BY NextUntouched
<1>2. (\A n \in Servers : Replaced(n) => ByReload(n)) <=>
         (\A n \in Servers :
             registry[n] # NoSlot /\ registry'[n] # registry[n] /\ ~shuttingDown'
                => \E r \in Reloads :
                      /\ reload'[r].active
                      /\ reload'[r].desired[n] # slot[registry[n]].config)
  BY DEF Replaced, ByReload
<1> QED BY <1>1, <1>2, SpecInv, SpecReloadInv, PTL DEF Spec, UntouchedKept

=============================================================================
