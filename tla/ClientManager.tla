--------------------------- MODULE ClientManager ---------------------------
(***************************************************************************)
(* The connection manager of the proxy (src/mcp/client-manager.ts).        *)
(*                                                                         *)
(* Every configured backend server has a slot.  A slot owns at most one    *)
(* READY connection, which concurrent calls lease; at most one connection  *)
(* attempt, which concurrent calls share; and any number of DRAINING       *)
(* connections, which close when their last lease is released.  A poll of  *)
(* the configuration file tears slots down and creates new ones, a backend *)
(* may exit at any time, and a shutdown takes everything down.             *)
(*                                                                         *)
(* The program is one JavaScript event loop: an action below is a run of   *)
(* code between two awaits.  A promise's direct continuations run before   *)
(* any timer or I/O callback, so settling an attempt and adopting its      *)
(* connection are one step.                                                *)
(*                                                                         *)
(* Abstracted: the delay of a timer (a pending timer may fire at any       *)
(* time), health counters and messages, the content of a configuration     *)
(* (a member of Configs stands for what configFingerprint distinguishes).  *)
(***************************************************************************)
EXTENDS Naturals, FiniteSets

CONSTANTS
    Servers,      \* backend server names
    Configs,      \* distinguishable server configurations
    SoftLimited,  \* the configurations with a soft maximum connection age
    HardLimited,  \* the configurations with a hard maximum connection age
    Slots,        \* ServerSlot objects; never reused, so a bound on reloads
    Conns,        \* ManagedConnection objects, reused once they are garbage
    Callers,      \* concurrent withClient operations
    Reloads,      \* reconcile() calls in flight at once
    MaxEdits,     \* bound on the edits of servers.json
    Absent, NoServer, NoConfig, NoSlot, NoConn

ASSUME ConfigAssumption ==
    /\ SoftLimited \subseteq Configs
    /\ HardLimited \subseteq Configs
    /\ MaxEdits \in Nat

ASSUME NullAssumption ==
    /\ Absent \notin Configs \cup {NoConfig}
    /\ NoConfig \notin Configs
    /\ NoServer \notin Servers
    /\ NoSlot \notin Slots
    /\ NoConn \notin Conns

ASSUME CallerAssumption == IsFiniteSet(Callers)

VARIABLES
    wanted,    \* the enabled servers of servers.json
    edits,     \* how often servers.json was edited
    registry,  \* this.slots: server name -> slot
    slot,      \* the ServerSlot objects
    conn,      \* the connections, from the dial to the end of the close
    caller,    \* the withClient operations
    reload,    \* the reconcile operations
    main       \* the process: its phase, and the connections it awaits

vars == <<wanted, edits, registry, slot, conn, caller, reload, main>>

ConfigFiles == [Servers -> Configs \cup {Absent}]

SlotRecords ==
    [server:   Servers \cup {NoServer},
     config:   Configs \cup {NoConfig},
     current:  Conns \cup {NoConn},
     attempt:  Conns \cup {NoConn},    \* connectPromise
     retry:    BOOLEAN,                \* reconnectTimer is pending
     retrying: BOOLEAN,                \* reconnect() awaits the attempt
     backoff:  BOOLEAN,                \* reconnectAttempt > 0
     disposed: BOOLEAN]

\* "dialing" and "aborting" are the phases of createConnection: the connect
\* itself, and the close of a connect that failed or is no longer wanted.
ConnRecords ==
    [slot:    Slots \cup {NoSlot},
     state:   {"dialing", "aborting", "ready", "draining", "closed"},
     calls:   Nat,                     \* activeCalls
     closing: BOOLEAN]                 \* client.close() has not settled

CallerRecords ==
    [pc:     {"idle", "waiting", "working", "releasing"},
     server: Servers \cup {NoServer},
     conn:   Conns \cup {NoConn}]

ReloadRecords ==
    [active:  BOOLEAN,
     desired: ConfigFiles,
     removed: SUBSET Servers,          \* still to be torn down
     changed: SUBSET Servers,          \* still to be torn down
     connect: SUBSET Servers,
     awaits:  SUBSET Conns]            \* closes the teardown awaits

Phases == {"starting", "booting", "serving", "stopping", "exited"}

NullSlot ==
    [server |-> NoServer, config |-> NoConfig, current |-> NoConn,
     attempt |-> NoConn, retry |-> FALSE, retrying |-> FALSE,
     backoff |-> FALSE, disposed |-> FALSE]

\* A closed connection without calls is garbage: its id is free again.
NullConn ==
    [slot |-> NoSlot, state |-> "closed", calls |-> 0, closing |-> FALSE]

IdleCaller == [pc |-> "idle", server |-> NoServer, conn |-> NoConn]

IdleReload ==
    [active |-> FALSE, desired |-> [n \in Servers |-> Absent],
     removed |-> {}, changed |-> {}, connect |-> {}, awaits |-> {}]

TypeOK ==
    /\ wanted \in ConfigFiles
    /\ edits \in 0 .. MaxEdits
    /\ registry \in [Servers -> Slots \cup {NoSlot}]
    /\ slot \in [Slots -> SlotRecords]
    /\ conn \in [Conns -> ConnRecords]
    /\ caller \in [Callers -> CallerRecords]
    /\ reload \in [Reloads -> ReloadRecords]
    /\ main \in [phase: Phases, awaits: SUBSET Conns]

Init ==
    /\ wanted \in ConfigFiles
    /\ edits = 0
    /\ registry = [n \in Servers |-> NoSlot]
    /\ slot = [s \in Slots |-> NullSlot]
    /\ conn = [k \in Conns |-> NullConn]
    /\ caller = [c \in Callers |-> IdleCaller]
    /\ reload = [r \in Reloads |-> IdleReload]
    /\ main = [phase |-> "starting", awaits |-> {}]

-----------------------------------------------------------------------------
(* State predicates and record updates shared by the handlers.             *)

shuttingDown == main.phase \in {"stopping", "exited"}

Alive == main.phase # "exited"

Registered(s) == slot[s].server \in Servers /\ registry[slot[s].server] = s

\* Mutant of Unwanted: only a shutdown makes a finished connect unwanted.
UnwantedOnShutdown(s) == shuttingDown

\* The test a finished connect makes before it is adopted.
Unwanted(s) == shuttingDown \/ slot[s].disposed \/ ~Registered(s)

FreshSlots == {s \in Slots : slot[s] = NullSlot}

FreshConns ==
    {k \in Conns : conn[k] = NullConn /\ \A c \in Callers : caller[c].conn # k}

\* slot.draining: what beginDrain added and the end of its close removes.
Draining(s) ==
    {k \in Conns : conn[k].slot = s
                   /\ (conn[k].state = "draining" \/ conn[k].closing)}

\* Mutant of Held: the draining connections are forgotten.
HeldCurrent(s) == {slot[s].current} \ {NoConn}

\* The connections a teardown or a shutdown of the slot closes.
Held(s) == Draining(s) \cup ({slot[s].current} \ {NoConn})

Dialing(s) == [slot |-> s, state |-> "dialing", calls |-> 0, closing |-> FALSE]

\* closeConnection up to its await; client.close() is now in flight.
Closing(rec) == [rec EXCEPT !.state = "closed", !.closing = TRUE]

\* Mutant of BeginDrain: the calls are not waited for.
DrainAtOnce(rec) == IF rec.state # "ready" THEN rec ELSE Closing(rec)

BeginDrain(rec) ==
    IF rec.state # "ready" THEN rec
    ELSE IF rec.calls = 0 THEN Closing(rec)
    ELSE [rec EXCEPT !.state = "draining"]

\* Mutant of Lease: it is not counted.
LeaseUncounted(rec) == rec

Lease(rec) == [rec EXCEPT !.calls = @ + 1]

\* Mutants of Release: a lease too many is given back; the last release does
\* not close a draining connection.
ReleaseTwo(rec) == [rec EXCEPT !.calls = @ - 2]

ReleaseOnly(rec) == [rec EXCEPT !.calls = IF @ = 0 THEN 0 ELSE @ - 1]

Release(rec) ==
    LET left     == IF rec.calls = 0 THEN 0 ELSE rec.calls - 1
        released == [rec EXCEPT !.calls = left]
    IN  IF rec.state = "draining" /\ left = 0 THEN Closing(released) ELSE released

\* Mutant of WithoutCurrent: the slot keeps handing the connection out.
KeepCurrent(rec, k) == rec

WithoutCurrent(rec, k) ==
    IF rec.current = k THEN [rec EXCEPT !.current = NoConn] ELSE rec

\* Mutant of ScheduleReconnect: only the first failure queues a retry.
ScheduleOnce(s, rec) ==
    IF rec.backoff \/ rec.disposed \/ shuttingDown \/ ~Registered(s) THEN rec
    ELSE [rec EXCEPT !.retry = TRUE, !.backoff = TRUE]

\* scheduleReconnect: one timer at most, and only for a slot still in use.
ScheduleReconnect(s, rec) ==
    IF rec.retry \/ rec.disposed \/ shuttingDown \/ ~Registered(s) THEN rec
    ELSE [rec EXCEPT !.retry = TRUE, !.backoff = TRUE]

NewSlot(n, cfg, attempt) ==
    [server |-> n, config |-> cfg, current |-> NoConn, attempt |-> attempt,
     retry |-> FALSE, retrying |-> FALSE, backoff |-> FALSE, disposed |-> FALSE]

Injections(A, B) ==
    {f \in [A -> B] : \A a, b \in A : f[a] = f[b] => a = b}

Waiting(n, k) == [pc |-> "waiting", server |-> n, conn |-> k]

Working(k) == [pc |-> "working", server |-> NoServer, conn |-> k]

Releasing(k) == [pc |-> "releasing", server |-> NoServer, conn |-> k]

\* The callers in that phase of a call on k.
CallersIn(pc, k) == {c \in Callers : caller[c].pc = pc /\ caller[c].conn = k}

\* Mutant of Dismiss: nobody resumes.
DismissNone(cs) == caller

Dismiss(cs) == [c \in Callers |-> IF c \in cs THEN IdleCaller ELSE caller[c]]

-----------------------------------------------------------------------------
(* Creating slots: initializeServers and the second half of reconcile.     *)

\* The slots and the dials of `names` are created in one go; after a shutdown
\* the slot is still registered but ensureConnection refuses to dial.
LaunchedSlots(names, cfgs, f, g) ==
    [s \in Slots |->
        IF \E n \in names : f[n] = s
        THEN LET n == CHOOSE m \in names : f[m] = s
             IN  NewSlot(n, cfgs[n], IF shuttingDown THEN NoConn ELSE g[n])
        ELSE slot[s]]

LaunchedConns(names, f, g) ==
    [k \in Conns |->
        IF ~shuttingDown /\ \E n \in names : g[n] = k
        THEN Dialing(f[CHOOSE m \in names : g[m] = k])
        ELSE conn[k]]

Launch(names, cfgs, f, g) ==
    /\ f \in Injections(names, FreshSlots)
    /\ g \in Injections(names, FreshConns)
    /\ registry' = [n \in Servers |-> IF n \in names THEN f[n] ELSE registry[n]]
    /\ slot' = LaunchedSlots(names, cfgs, f, g)
    /\ conn' = LaunchedConns(names, f, g)

\* initializeServers: a slot and a first dial for every configured server.
InitializeServers ==
    /\ main.phase = "starting"
    /\ LET names == {n \in Servers : wanted[n] # Absent} IN
       \E f \in [names -> Slots], g \in [names -> Conns] :
           /\ Launch(names, wanted, f, g)
           /\ main' = [phase |-> "booting", awaits |-> {g[n] : n \in names}]
    /\ UNCHANGED <<wanted, edits, caller, reload>>

\* The first dials have settled; the config watch and the front end start.
Booted ==
    /\ main.phase = "booting"
    /\ main.awaits = {}
    /\ main' = [main EXCEPT !.phase = "serving"]
    /\ UNCHANGED <<wanted, edits, registry, slot, conn, caller, reload>>

-----------------------------------------------------------------------------
(* withClient: acquire a lease, work, release.                             *)

\* acquireConnection finds a ready connection.
AcquireReady(c, n) ==
    LET s == registry[n] IN
    /\ s # NoSlot
    /\ slot[s].current # NoConn
    /\ conn' = [conn EXCEPT ![slot[s].current] = Lease(@)]
    /\ caller' = [caller EXCEPT ![c] = Working(slot[s].current)]
    /\ UNCHANGED slot

\* acquireConnection joins the attempt another caller or a retry started.
AcquireJoin(c, n) ==
    LET s == registry[n] IN
    /\ s # NoSlot
    /\ slot[s].current = NoConn
    /\ slot[s].attempt # NoConn
    /\ ~shuttingDown
    /\ caller' = [caller EXCEPT ![c] = Waiting(n, slot[s].attempt)]
    /\ UNCHANGED <<slot, conn>>

\* Mutant of AcquireDial: an attempt in flight is not shared.
AcquireDialAgain(c, n) ==
    LET s == registry[n] IN
    /\ s # NoSlot
    /\ slot[s].current = NoConn
    /\ ~shuttingDown
    /\ \E k \in FreshConns :
          /\ conn' = [conn EXCEPT ![k] = Dialing(s)]
          /\ slot' = [slot EXCEPT ![s].attempt = k]
          /\ caller' = [caller EXCEPT ![c] = Waiting(n, k)]

\* acquireConnection starts the attempt itself.
AcquireDial(c, n) ==
    LET s == registry[n] IN
    /\ s # NoSlot
    /\ slot[s].current = NoConn
    /\ slot[s].attempt = NoConn
    /\ ~shuttingDown
    /\ \E k \in FreshConns :
          /\ conn' = [conn EXCEPT ![k] = Dialing(s)]
          /\ slot' = [slot EXCEPT ![s].attempt = k]
          /\ caller' = [caller EXCEPT ![c] = Waiting(n, k)]

\* The ready connection is older than its soft age: it is drained and replaced
\* (SingleFlight: a slot with a ready connection has no attempt to join).
AcquireRecycle(c, n) ==
    LET s   == registry[n]
        old == slot[s].current
    IN
    /\ s # NoSlot
    /\ old # NoConn
    /\ slot[s].config \in SoftLimited
    /\ slot[s].attempt = NoConn
    /\ ~shuttingDown
    /\ \E k \in FreshConns :
          /\ conn' = [conn EXCEPT ![old] = BeginDrain(@), ![k] = Dialing(s)]
          /\ slot' = [slot EXCEPT ![s] =
                         [WithoutCurrent(@, old) EXCEPT !.attempt = k]]
          /\ caller' = [caller EXCEPT ![c] = Waiting(n, k)]

Acquire(c, n) ==
    \/ AcquireReady(c, n)
    \/ AcquireJoin(c, n)
    \/ AcquireDial(c, n)
    \/ AcquireRecycle(c, n)

\* A request of the client reaches withClient.  The front end is connected
\* only after the boot; a call that fails at once changes nothing.
WithClient(c, n) ==
    /\ main.phase \in {"serving", "stopping"}
    /\ caller[c].pc = "idle"
    /\ Acquire(c, n)
    /\ UNCHANGED <<wanted, edits, registry, reload, main>>

StartCall(c) == \E n \in Servers : WithClient(c, n)

\* The attempt succeeded and its connection is still ready: take the lease.
WakeWithLease(c) ==
    LET k == caller[c].conn IN
    /\ Alive
    /\ caller[c].pc = "waiting"
    /\ conn[k].state = "ready"
    /\ conn' = [conn EXCEPT ![k] = Lease(@)]
    /\ caller' = [caller EXCEPT ![c] = Working(k)]
    /\ UNCHANGED <<wanted, edits, registry, slot, reload, main>>

\* The connection was drained, dropped or closed before the caller resumed:
\* acquireConnection starts over with the server's name, or fails.
WakeReacquire(c) ==
    LET n == caller[c].server IN
    /\ Alive
    /\ caller[c].pc = "waiting"
    /\ conn[caller[c].conn].state \in {"draining", "closed"}
    /\ \/ Acquire(c, n)
       \/ /\ \/ registry[n] = NoSlot
             \/ /\ registry[n] # NoSlot
                /\ shuttingDown
                /\ slot[registry[n]].current = NoConn
          /\ caller' = [caller EXCEPT ![c] = IdleCaller]
          /\ UNCHANGED <<slot, conn>>
    /\ UNCHANGED <<wanted, edits, registry, reload, main>>

\* The operation settles.  A call that saw an authentication failure first
\* invalidates exactly the connection it ran on; the lease is then released,
\* and the last one of a draining connection awaits the close it starts.
FinishCall(c, invalidate) ==
    LET k     == caller[c].conn
        s     == conn[k].slot
        after == Release(IF invalidate THEN BeginDrain(conn[k]) ELSE conn[k])
    IN
    /\ Alive
    /\ caller[c].pc = "working"
    /\ conn' = [conn EXCEPT ![k] = after]
    /\ slot' = IF invalidate /\ conn[k].state = "ready"
               THEN [slot EXCEPT ![s] = WithoutCurrent(@, k)]
               ELSE slot
    /\ caller' = [caller EXCEPT ![c] =
                     IF conn[k].state # "closed" /\ after.state = "closed"
                     THEN Releasing(k) ELSE IdleCaller]
    /\ UNCHANGED <<wanted, edits, registry, reload, main>>

-----------------------------------------------------------------------------
(* createConnection and ensureConnection: one attempt and its outcome.     *)

\* connect() succeeded.  The connection is adopted, or handed straight back
\* when a shutdown or a reload made it unwanted while the dial was in flight.
DialSucceeds(k) ==
    LET s == conn[k].slot IN
    /\ Alive
    /\ conn[k].state = "dialing"
    /\ IF Unwanted(s)
       THEN /\ conn' = [conn EXCEPT ![k].state = "aborting"]
            /\ UNCHANGED <<slot, main>>
       ELSE /\ conn' = [conn EXCEPT ![k].state = "ready"]
            /\ slot' = [slot EXCEPT ![s].current = k, ![s].attempt = NoConn,
                                    ![s].retrying = FALSE, ![s].backoff = FALSE]
            /\ main' = [main EXCEPT !.awaits = @ \ {k}]
    /\ UNCHANGED <<wanted, edits, registry, caller, reload>>

\* connect() failed or timed out: the transport is closed.
DialFails(k) ==
    /\ Alive
    /\ conn[k].state = "dialing"
    /\ conn' = [conn EXCEPT ![k].state = "aborting"]
    /\ UNCHANGED <<wanted, edits, registry, slot, caller, reload, main>>

\* The failed attempt is torn down and its promise rejects: every caller that
\* shares it fails, and reconnect() queues the next retry.
AbortDone(k) ==
    LET s    == conn[k].slot
        over == [slot[s] EXCEPT !.attempt = NoConn, !.retrying = FALSE]
    IN
    /\ Alive
    /\ conn[k].state = "aborting"
    /\ conn' = [conn EXCEPT ![k] = NullConn]
    /\ slot' = [slot EXCEPT ![s] = IF slot[s].retrying
                                   THEN ScheduleReconnect(s, over) ELSE over]
    /\ caller' = Dismiss(CallersIn("waiting", k))
    /\ main' = [main EXCEPT !.awaits = @ \ {k}]
    /\ UNCHANGED <<wanted, edits, registry, reload>>

-----------------------------------------------------------------------------
(* The life of an adopted connection.                                      *)

\* The hard-expiry timer, armed exactly while the connection is ready.
HardExpiry(k) ==
    LET s == conn[k].slot IN
    /\ Alive
    /\ conn[k].state = "ready"
    /\ slot[s].config \in HardLimited
    /\ conn' = [conn EXCEPT ![k] = BeginDrain(@)]
    /\ slot' = [slot EXCEPT ![s] = WithoutCurrent(@, k)]
    /\ UNCHANGED <<wanted, edits, registry, caller, reload, main>>

\* The backend goes away and handleDrop runs.  (For any connection that is not
\* the current one of a registered slot handleDrop returns early.)
BackendExits(k) ==
    LET s == conn[k].slot IN
    /\ conn[k].state = "ready"
    /\ ~Unwanted(s)
    /\ slot[s].current = k
    /\ conn' = [conn EXCEPT ![k] = [NullConn EXCEPT !.calls = conn[k].calls]]
    /\ slot' = [slot EXCEPT ![s] =
                   ScheduleReconnect(s, [slot[s] EXCEPT !.current = NoConn])]
    /\ UNCHANGED <<wanted, edits, registry, caller, reload, main>>

\* The reconnect timer fires: reconnect() finds a connection, joins the
\* attempt in flight or dials.
RetryFires(s) ==
    LET fired    == [slot[s] EXCEPT !.retry = FALSE]
        awaiting == [fired EXCEPT !.retrying = TRUE]
    IN
    /\ Alive
    /\ slot[s].retry
    /\ \/ /\ Unwanted(s) \/ slot[s].current # NoConn
          /\ slot' = [slot EXCEPT ![s] = fired]
          /\ UNCHANGED conn
       \/ /\ ~Unwanted(s)
          /\ slot[s].current = NoConn
          /\ slot[s].attempt # NoConn
          /\ slot' = [slot EXCEPT ![s] = awaiting]
          /\ UNCHANGED conn
       \/ /\ ~Unwanted(s)
          /\ slot[s].current = NoConn
          /\ slot[s].attempt = NoConn
          /\ \E k \in FreshConns :
                /\ slot' = [slot EXCEPT ![s] = [awaiting EXCEPT !.attempt = k]]
                /\ conn' = [conn EXCEPT ![k] = Dialing(s)]
    /\ UNCHANGED <<wanted, edits, registry, caller, reload, main>>

\* Mutant of CloseDone: a shutdown does not hear of it.
CloseUnheard(k) ==
    /\ Alive
    /\ conn[k].closing
    /\ conn' = [conn EXCEPT ![k] = [NullConn EXCEPT !.calls = conn[k].calls]]
    /\ caller' = Dismiss(CallersIn("releasing", k))
    /\ reload' = [r \in Reloads |-> [reload[r] EXCEPT !.awaits = @ \ {k}]]
    /\ UNCHANGED <<wanted, edits, registry, slot, main>>

\* client.close() settles: the backend process is gone, and so is every reason
\* to wait for it.
CloseDone(k) ==
    /\ Alive
    /\ conn[k].closing
    /\ conn' = [conn EXCEPT ![k] = [NullConn EXCEPT !.calls = conn[k].calls]]
    /\ caller' = Dismiss(CallersIn("releasing", k))
    /\ reload' = [r \in Reloads |-> [reload[r] EXCEPT !.awaits = @ \ {k}]]
    /\ main' = [main EXCEPT !.awaits = @ \ {k}]
    /\ UNCHANGED <<wanted, edits, registry, slot>>

-----------------------------------------------------------------------------
(* Taking slots out of service: teardownSlot and disconnectAll up to their *)
(* awaits.                                                                 *)

HeldBy(slots) == UNION {Held(s) : s \in slots}

TakeDown(slots) ==
    /\ registry' = [n \in Servers |->
                       IF registry[n] \in slots THEN NoSlot ELSE registry[n]]
    /\ slot' = [s \in Slots |->
                   IF s \in slots
                   THEN [slot[s] EXCEPT !.disposed = TRUE, !.retry = FALSE,
                                        !.current = NoConn]
                   ELSE slot[s]]
    /\ conn' = [k \in Conns |->
                   IF k \in HeldBy(slots) THEN Closing(conn[k]) ELSE conn[k]]

-----------------------------------------------------------------------------
(* startConfigWatch and reconcile: the configuration changes under way.    *)

EditConfig ==
    /\ Alive
    /\ edits < MaxEdits
    /\ edits' = edits + 1
    /\ wanted' \in ConfigFiles \ {wanted}
    /\ UNCHANGED <<registry, slot, conn, caller, reload, main>>

\* teardownSlot up to its await; a name without a slot is left alone.
Teardown(n) == TakeDown({registry[n]} \ {NoSlot})

\* The closes teardownSlot has to wait for: close() of a connection whose
\* close is already in flight returns at once.
Awaited(n) == {k \in HeldBy({registry[n]} \ {NoSlot}) : ~conn[k].closing}

\* Mutants of NextTeardown: every server goes; changed servers are kept.
TeardownAny(removed, changed) == {n \in Servers : registry[n] # NoSlot}

TeardownRemoved(removed, changed) == removed

\* Removed servers are torn down before changed ones.
NextTeardown(removed, changed) == IF removed # {} THEN removed ELSE changed

\* startConfigWatch: the timer runs from the end of the start-up to the
\* shutdown, and does not ask whether another reconcile is still in flight.
Polls(r) == main.phase = "serving" /\ ~reload[r].active

\* A poll of the configuration finds a difference and starts a reconcile,
\* which runs to its first await.
StartReload(r) ==
    LET present == {n \in Servers : registry[n] # NoSlot}
        removed == {n \in present : wanted[n] = Absent}
        changed == {n \in present \ removed :
                       slot[registry[n]].config # wanted[n]}
        added   == {n \in Servers \ present : wanted[n] # Absent}
    IN
    /\ Polls(r)
    /\ \/ /\ removed \cup changed = {}
          /\ added # {}
          /\ \E f \in [added -> Slots], g \in [added -> Conns] :
                Launch(added, wanted, f, g)
          /\ UNCHANGED reload
       \/ \E n \in NextTeardown(removed, changed) :
             /\ Teardown(n)
             /\ reload' = [reload EXCEPT ![r] =
                   [active  |-> TRUE,
                    desired |-> wanted,
                    removed |-> removed \ {n},
                    changed |-> changed \ {n},
                    connect |-> added \cup changed,
                    awaits  |-> Awaited(n)]]
    /\ UNCHANGED <<wanted, edits, caller, main>>

\* The previous teardown's closes have settled: the next server.
TeardownNext(r) ==
    /\ Alive
    /\ reload[r].active
    /\ reload[r].awaits = {}
    /\ \E n \in NextTeardown(reload[r].removed, reload[r].changed) :
          /\ Teardown(n)
          /\ reload' = [reload EXCEPT ![r].removed = @ \ {n},
                                      ![r].changed = @ \ {n},
                                      ![r].awaits = Awaited(n)]
    /\ UNCHANGED <<wanted, edits, caller, main>>

\* All teardowns are over: new slots replace whatever the registry holds for
\* the names to connect, with the configuration read when the reload began.
LaunchConnects(r) ==
    LET names == reload[r].connect IN
    /\ Alive
    /\ reload[r].active
    /\ reload[r].awaits = {}
    /\ reload[r].removed \cup reload[r].changed = {}
    /\ \E f \in [names -> Slots], g \in [names -> Conns] :
          Launch(names, reload[r].desired, f, g)
    /\ reload' = [reload EXCEPT ![r] = IdleReload]
    /\ UNCHANGED <<wanted, edits, caller, main>>

-----------------------------------------------------------------------------
(* disconnectAll, and the exit of the process after it.                    *)

Shutdown ==
    LET slots == {registry[n] : n \in Servers} \ {NoSlot} IN
    /\ main.phase = "serving"
    /\ TakeDown(slots)
    /\ main' = [phase |-> "stopping", awaits |-> HeldBy(slots)]
    /\ UNCHANGED <<wanted, edits, caller, reload>>

Exit ==
    /\ main.phase = "stopping"
    /\ main.awaits = {}
    /\ main' = [main EXCEPT !.phase = "exited"]
    /\ UNCHANGED <<wanted, edits, registry, slot, conn, caller, reload>>

Exited == main.phase = "exited" /\ UNCHANGED vars

-----------------------------------------------------------------------------
\* What happens without a step of a caller.
ManagerStep ==
    \/ InitializeServers
    \/ Booted
    \/ \E k \in Conns :
          \/ DialSucceeds(k)
          \/ DialFails(k)
          \/ AbortDone(k)
          \/ HardExpiry(k)
          \/ BackendExits(k)
          \/ CloseDone(k)
    \/ \E s \in Slots : RetryFires(s)
    \/ EditConfig
    \/ \E r \in Reloads :
          \/ StartReload(r)
          \/ TeardownNext(r)
          \/ LaunchConnects(r)
    \/ Shutdown
    \/ Exit
    \/ Exited

Next ==
    \/ ManagerStep
    \/ \E c \in Callers :
          \/ StartCall(c)
          \/ WakeWithLease(c)
          \/ WakeReacquire(c)
          \/ \E invalidate \in BOOLEAN : FinishCall(c, invalidate)

Spec == Init /\ [][Next]_vars

-----------------------------------------------------------------------------
(* Safety.                                                                 *)

\* activeCalls of a connection is exactly the number of calls running on it:
\* no lease is lost or released twice, whichever way the connection ended.
LeasesCounted ==
    \A k \in Conns : conn[k].calls = Cardinality(CallersIn("working", k))

\* A connection is closed under a running call only when its server was
\* removed or replaced in the configuration or the proxy shuts down; recycling
\* for age or for an authentication failure waits for the other calls.
RecycleWaitsForCalls ==
    \A k \in Conns :
        conn[k].closing /\ conn[k].calls > 0 => slot[conn[k].slot].disposed

\* Only the release of a lease closes a draining connection, so one that is
\* draining without a lease would keep its backend process for good.
DrainingHasCalls ==
    \A k \in Conns : conn[k].state = "draining" => conn[k].calls > 0

\* A ready connection is the one its slot hands out.  A ready connection no
\* slot points at could be neither leased nor recycled.
ReadyIsCurrent ==
    \A k \in Conns : conn[k].state = "ready" => slot[conn[k].slot].current = k

CurrentIsReady ==
    \A s \in Slots : slot[s].current # NoConn =>
        /\ conn[slot[s].current].state = "ready"
        /\ conn[slot[s].current].slot = s

\* One dial per slot: every attempt is the slot's connectPromise, which callers
\* and retries share, and none runs while the slot has a ready connection.
SingleFlight ==
    \A k \in Conns : conn[k].state \in {"dialing", "aborting"} =>
        /\ slot[conn[k].slot].attempt = k
        /\ slot[conn[k].slot].current = NoConn

AttemptIsDialing ==
    \A s \in Slots : slot[s].attempt # NoConn =>
        /\ conn[slot[s].attempt].state \in {"dialing", "aborting"}
        /\ conn[slot[s].attempt].slot = s

\* A slot that was torn down stays inert: a late drop, a pending retry or a
\* dial in flight never brings back a server that was taken out of service.
DisposedIsInert ==
    \A s \in Slots : slot[s].disposed =>
        /\ slot[s].current = NoConn
        /\ ~slot[s].retry
        /\ ~Registered(s)

\* A lost backend is never forgotten: from the drop until a new connection is
\* adopted, a retry is pending or under way.
RetryOwed ==
    \A s \in Slots :
        slot[s].backoff /\ Registered(s) /\ ~shuttingDown =>
            slot[s].retry \/ slot[s].retrying

\* Every connection that serves calls belongs to the slot of its server, so
\* teardownSlot and disconnectAll can reach it.  (client-manager.ts:587: two
\* generations must not race to own the same name.)
NoOrphan ==
    \A k \in Conns :
        conn[k].state \in {"ready", "draining"} => Registered(conn[k].slot)

\* Once the shutdown has begun nothing serves any more, whatever dial, reload
\* or retry was in flight when it began.
ShutdownTakesAll ==
    shuttingDown =>
        \A k \in Conns : conn[k].state \notin {"ready", "draining"}

\* A reload leaves alone every server whose entry did not change: its slot is
\* replaced or removed only by a reconcile that read a different entry.
UntouchedKept ==
    [][\A n \in Servers :
          registry[n] # NoSlot /\ registry'[n] # registry[n] /\ ~shuttingDown'
              => \E r \in Reloads :
                    /\ reload'[r].active
                    /\ reload'[r].desired[n] # slot[registry[n]].config]_vars

-----------------------------------------------------------------------------
(* The inductive invariant: the shapes below are what the safety properties *)
(* that hold for any number of overlapping reloads rest on.                *)

\* A connection that is alive, or still being closed, belongs to a slot that
\* was created for a server; one that is not adopted yet has no calls.
ConnShape ==
    \A k \in Conns :
        /\ conn[k].state # "closed" => conn[k].slot \in Slots /\ ~conn[k].closing
        /\ conn[k].closing => conn[k].slot \in Slots
        /\ conn[k].slot \in Slots => slot[conn[k].slot].server \in Servers
        /\ conn[k].state \in {"dialing", "aborting"} => conn[k].calls = 0

\* The registry holds only live slots, each under its server's name.
RegistryShape ==
    \A n \in Servers : registry[n] # NoSlot =>
        slot[registry[n]].server = n /\ ~slot[registry[n]].disposed

\* reconnect() awaits an attempt that is in flight, and the retries of a slot
\* start over when it has a connection again.
RetryShape ==
    \A s \in Slots :
        /\ slot[s].retrying => slot[s].attempt # NoConn
        /\ slot[s].backoff => slot[s].current = NoConn

CallerShape ==
    \A c \in Callers :
        /\ caller[c].pc # "idle" => caller[c].conn \in Conns
        /\ caller[c].pc = "waiting" => caller[c].server \in Servers

\* A reconcile connects only servers its configuration contains.
ReloadShape ==
    \A r \in Reloads : \A n \in reload[r].connect : reload[r].desired[n] \in Configs

\* What holds of every reachable state, whatever the constants.
Safety ==
    /\ TypeOK
    /\ RecycleWaitsForCalls
    /\ DrainingHasCalls
    /\ ReadyIsCurrent
    /\ CurrentIsReady
    /\ SingleFlight
    /\ AttemptIsDialing
    /\ DisposedIsInert
    /\ RetryOwed

Inv ==
    /\ Safety
    /\ ConnShape
    /\ RegistryShape
    /\ RetryShape
    /\ CallerShape
    /\ ReloadShape

\* What holds besides while no two reloads overlap: the names a reload is to
\* tear down still have the slots it compared with its configuration, and the
\* names it is to connect have none.
ReloadInv ==
    /\ main.phase = "starting" => \A n \in Servers : registry[n] = NoSlot
    /\ main.phase \in {"starting", "booting"} =>
          \A r \in Reloads : ~reload[r].active
    /\ ~shuttingDown =>
          \A r \in Reloads : reload[r].active => \A n \in Servers :
             /\ n \in reload[r].removed \cup reload[r].changed =>
                   /\ registry[n] # NoSlot
                   /\ slot[registry[n]].config # reload[r].desired[n]
             /\ n \in reload[r].connect =>
                   registry[n] = NoSlot \/ n \in reload[r].changed
    /\ NoOrphan
    /\ ShutdownTakesAll

-----------------------------------------------------------------------------
(* What the manager is to its callers.                                     *)

\* A connection that dials, aborts or closes does not exist for a caller; one
\* that waits or releases holds no lease.
Stage(k) ==
    CASE conn[k].state = "ready"    -> "open"
      [] conn[k].state = "draining" -> "retired"
      [] OTHER                      -> "closed"

Holder(c) == IF caller[c].pc = "working" THEN caller[c].conn ELSE NoConn

Pool == INSTANCE LeasePool WITH
    stage  <- [k \in Conns |-> Stage(k)],
    holder <- [c \in Callers |-> Holder(c)]

\* The manager implements the lease pool: whatever dials, drops, drains,
\* reloads and shutdowns go on, a call only ever starts on a connection in
\* service, a retired connection never serves again and is closed by its last
\* lease, and an id is not used again under a lease.
ImplementsPool == Pool!Spec

-----------------------------------------------------------------------------
(* Liveness.                                                               *)

\* A dial settles within its timeout (withTimeout), a close settles
\* (StdioClientTransport kills what does not exit), a call settles (the SDK's
\* request timeout), timers fire, and a promise's continuations run.  A caller
\* resumes before any later event can take its connection away, hence SF.
Fairness ==
    /\ WF_vars(InitializeServers) /\ WF_vars(Booted) /\ WF_vars(Exit)
    /\ \A c \in Callers :
          /\ SF_vars(WakeWithLease(c))
          /\ WF_vars(WakeReacquire(c))
          /\ WF_vars(\E invalidate \in BOOLEAN : FinishCall(c, invalidate))
    /\ \A k \in Conns :
          /\ WF_vars(DialSucceeds(k) \/ DialFails(k))
          /\ WF_vars(AbortDone(k))
          /\ WF_vars(CloseDone(k))
    /\ \A s \in Slots : WF_vars(RetryFires(s))
    /\ \A r \in Reloads :
          WF_vars(StartReload(r)) /\ WF_vars(TeardownNext(r))
          /\ WF_vars(LaunchConnects(r))

FairSpec == Spec /\ Fairness

\* As FairSpec, and a backend that is dialled again and again answers.
AnsweringSpec == FairSpec /\ \A k \in Conns : SF_vars(DialSucceeds(k))

\* Every withClient operation ends, however often its connection is recycled,
\* dropped or torn down under it, unless the process exits first.
CallsEnd ==
    \A c \in Callers : caller[c].pc # "idle" ~> caller[c].pc = "idle" \/ ~Alive

\* A recycled connection is closed in the end.
DrainingEnds ==
    \A k \in Conns : conn[k].state = "draining" ~> conn[k].state # "draining"

\* A backend that was lost is connected again, unless it leaves the
\* configuration or the proxy shuts down first: no call is needed for it.
LostIsRecovered ==
    \A s \in Slots :
        slot[s].backoff ~> slot[s].current # NoConn \/ ~Registered(s)

\* The slots follow servers.json once it is no longer edited.
Converged ==
    \A n \in Servers :
        IF wanted[n] = Absent THEN registry[n] = NoSlot
        ELSE registry[n] # NoSlot /\ slot[registry[n]].config = wanted[n]

ConfigConverges == <>[](Converged \/ shuttingDown)

\* A shutdown ends in the exit of the process.
ShutdownEnds == main.phase = "stopping" ~> main.phase = "exited"

=============================================================================
