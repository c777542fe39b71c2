# A TLA+ model of mcp-compression-proxy

mcp-compression-proxy sits between an MCP client and a set of backend MCP
servers. It keeps one leased connection per backend, republishes the backends'
tools with compressed descriptions, stores large outputs in files, and can run
as a background daemon behind the `mcp-cli` command. This directory models the
parts of it where steps of several actors meet, checks them with TLC, and proves
with TLAPS, for instances of any size, every safety property and the refinement
that TLC checks on a small one. Paths in the modules are
relative to the repository's root (`src/mcp/client-manager.ts`, ...).

## 1. Inventory

| Component | State | Operations | Interacts with |
|---|---|---|---|
| Connection manager `src/mcp/client-manager.ts` | `slots`: per server a slot with `current`, `draining`, `connectPromise`, retry timer, `disposed`; per connection `state`, `activeCalls`, expiry timer, close promise; `shuttingDown` | `initializeServers`, `withClient` (acquire, release, invalidate), `handleDrop`, `reconnect`, hard and soft expiry, `reconcile` on a 5 s poll, `disconnectAll` | backend processes (connect, exit, close callbacks), timers, every request of the proxy and the daemon |
| Compression cache `src/services/compression-cache.ts`, `compression-persistence.ts` | `cache` in memory, `cache.json` | save, staleness, invalidate, clear, load, save to disk | the entry point's requests, the file system |
| Entry point `src/index.ts` | `toolCache` snapshot, current session, `shuttingDown` | list tools, call a tool, get/cache/compress/invalidate/clear descriptions, sessions, shutdown | all the services |
| Sampling `src/services/compression-sampler.ts` | none between requests | split into batches, ask the host, parse its answer | the client (a request back to it) |
| Tool call executor `src/mcp/tool-call-executor.ts` | none | a call, invalidation of the connection on an authentication error, one retry | connection manager |
| Call scripts `src/mcp/call-script.ts` | results by step | a sequence of calls with references to earlier results | executor, payload store |
| Payload store `src/cli/payload-interceptor.ts` | `entries` per process, a directory all processes share | capture (with eviction), read, find | the file system, other proxies and the daemon |
| Daemon `src/cli/daemon.ts` | PID file, ready marker, socket | start, serve, shut down | `mcp-cli`, connection manager |
| Daemon commands `src/cli/index.ts` | none | start, stop, restart, automatic start | daemon (files, signals), other commands |
| IPC client `src/cli/ipc-client.ts` | one request's buffer and timer | `sendRequest`, `isDaemonRunning` | daemon |
| Sessions `src/services/session-manager.ts` | sessions with their expanded tools | create, expand, collapse, expiry | entry point |
| Configuration loader `src/config/` | a cache by file times and sizes | stat, load and merge two files | connection manager's poll, entry point, daemon |
| Statistics, CLI commands, runtime paths | none | formatting, look-ups | - |

What is hard in it:

* **Connections.** Callers, dials, timers, close callbacks, a poll and a
  shutdown interleave at every `await`. Right means: a lease is returned once;
  one dial per slot; recycling waits for running calls; a connection that serves
  is reachable by a teardown; a removed server stays removed; a lost one comes
  back; a shutdown ends and leaves nothing serving.
* **Cache.** Texts come back long after the descriptions they were made from
  were handed out; saves are not atomic, may fail, and nothing orders them.
  Right means: memory and file agree; what was reported erased stays erased; a
  rewritten description is offered again.
* **Daemon.** Processes synchronise through three files and a signal, and die at
  any moment. Right means: one daemon, always found, no stranger killed.
* **Payloads.** Several processes evict and write in one directory. Right means:
  the directory stays bounded and a reference leads to the whole output.
* **Tool calls.** A call that failed to authenticate is made again while others
  share its connection. Right means: the connection that failed is never used
  again, and no tool runs more often than it was declared safe to.
* **Configuration.** An editor writes between the loader's system calls; the poll,
  every tools/list and the start all load. Right means: what is cached was read
  from the files it is cached for, and the last edit is applied.
* **Listing.** A list is cut into pages over several requests, from a snapshot,
  between two loads. Right means: pages fit together, walks end, and what is
  excluded stays out.
* **Sessions.** A session that expired in the manager but not in the entry point.
  Right means: expanded tools do not collapse under a client that uses them.
* **Requests and scripts.** A daemon that hangs, dies or is stopped under a
  request. Right means: every request settles, and no step runs after a failure.

`PROJECT.json` lists every hazard at its line with the properties that cover it.

## 2. Modules

| Module | Models | Extended by |
|---|---|---|
| `LeasePool` | abstract: what the manager promises to callers | (instantiated by `ClientManager`) |
| `ClientManager` | the connection manager, with the boot, the configuration poll and the shutdown of `index.ts` | `MCClientManager`, `ClientManagerProofs`, `ClientManagerLeases`, `ClientManagerReloads` |
| `ToolCalls` | the executor, composed with `ClientManager` | `MCToolCalls`, `ToolCallsProofs` |
| `CompressionCache` | cache, `cache.json`, and the requests that use them | `MCCompressionCache`, `Sessions` |
| `Sessions` | the session manager and the current session, composed with `CompressionCache` | `MCSessions`, `CacheProofs` |
| `Configuration` | the two servers.json, the cached loader, start and poll | `FrontEnd` |
| `FrontEnd` | tools/list, its snapshot and its pages, composed with `Configuration` | `MCFrontEnd`, `FrontEndProofs` |
| `DaemonLifecycle` | daemon processes and the commands that start and stop them | `DaemonRequests` |
| `DaemonRequests` | requests, scripts and the configuration of daemons, composed with `DaemonLifecycle` | `MCDaemonRequests`, `DaemonProofs` |
| `PayloadStore` | the payload directory and the processes that share it | `MCPayloadStore`, `PayloadStoreProofs` |

The `MC...` modules only add symmetry sets and constants for TLC. An operator
whose comment begins with "Mutant of" is no part of the model: it is a plausible
bug in the operator after it, kept to show that a property notices.

### ClientManager

The program is one event loop, so an action is the code between two awaits. A
promise's continuations run before the next timer or I/O callback; the success
of `client.connect` and the adoption of the connection are therefore one step
(`DialSucceeds`).

| State | Code |
|---|---|
| `wanted`, `edits` | the enabled servers of servers.json, edited at most `MaxEdits` times |
| `registry`, `slot` | `this.slots` and the `ServerSlot` objects; a torn-down slot stays in `slot`, because dials, timers and callbacks still hold it |
| `conn` | `ManagedConnection`s, from the dial to the end of the close. `closing` is the interval in which `client.close()` has not settled; `intentionalClose`, `closePromise` and `hardExpiryTimer` follow from `state` and `closing` |
| `caller` | `withClient`: waiting for a dial, working, releasing |
| `reload` | `reconcile`: what it still has to tear down and the closes it awaits |
| `main` | boot, service, shutdown, exit, and the promises `initializeServers` or `disconnectAll` awaits |

A member of `Configs` is an equivalence class of `configFingerprint`. Backoff
delays, health counters and messages are abstracted: a pending timer may fire at
any time, and a connection of a `SoftLimited` configuration may be over its soft
age at any acquisition. Connection ids are used again when nothing refers to
them; slots never, so `Slots` bounds the slots one run can create.

### LeasePool

The specification a caller of `withClient` needs: a connection is open, retired
or closed; a lease is taken on an open one; a retired one is closed by its last
lease and never opens again while a lease is held. `ClientManager` maps `ready`,
`draining` and everything else to the three stages (`Stage`), and a call that
works to the holder of its connection (`Holder`); `ImplementsPool` is the
refinement. Slots, dials, retries and reloads are stutters or losses of it.

### ToolCalls

`op` is `callToolWithAuthRecovery`: an attempt is one `withClient` operation of
`ClientManager` (`WithClient`, `WakeWithLease`, `FinishCall`), and `Replay` is
the second. `ran` counts how often the backend got the tool; `stale` is history,
the connections on which a call failed to authenticate. Everything else the
manager does (`ManagerStep`) goes on in between.

### Sessions

`sessions` is the manager's map, `current` the entry point's `currentSessionId`.
Time is counted in periods of 30 minutes (`Tick`); the sweep is a step of its own
because it runs every five minutes. `unlisted` is history: the periods since the
session was last listed in. A restart of the proxy loses both.

### Configuration and FrontEnd

The loader is synchronous, so one load at a time runs (`load`), but an editor may
write before each of its system calls: two stats, two reads (`StatProject`,
`ReadUser`, `ReadProject`). A file is missing, broken or one of `Contents`; its
`stamp` stands for time and size. `applied` is what the process runs with;
`ServerNames` derives the slots from it, since `ClientManager` says how and when
`reconcile` gets there. `hidden` is history: what each file excluded ever since
the load began. `FrontEnd` adds the request (`Asked`, `Looked`, `Fetched`,
`Replied`, `Refused`), the snapshot and a client that follows `nextCursor`
(`walk`). The snapshot's three seconds are a choice at each look. `Shown`, the
filter of the list, is a recursive function over the list's indices, so that its
properties can be proved.

### CompressionCache

One action per request up to its await, then the steps of its save (`OpenFile`
empties the file, `WriteFile` fills it, `SaveFails` at either point) or of its
unlink. A compressed text is identified with the description it was made from,
which is what staleness is about. `Rewrite` is a backend that changes its
description, `Crash` and `Restart` the process. Overlapping saves each write what
they took from memory; a clear may unlink the file a save has open
(`WriteUnlinked`). `SavedAs` is what `key.split(':')` leaves of a key.
`gone` and `failed` are history: the keys a client was told are erased, and
whether the last save failed.

### DaemonLifecycle

`daemon` and `command` are processes that interleave at each file access.
`Terminate` is SIGTERM: a daemon that serves shuts down, one that is still
starting has no handler and dies. Any daemon may be killed at any moment
(`Crash`) and its PID given to a stranger (`RecyclePid`); the window between the
ping and the kill of one `stop` is excluded from that. `Hasty` says whether a
command may run out of patience (15 s to start, 10 s to stop, 3 s for the answer
to a ping, `Pinged`) while its daemon is alive. `Listen` may happen once the path is free; the daemon that closes its
server unlinks the path, whoever owns it.

### DaemonRequests

Each step of `DaemonLifecycle` is taken together with what it means for the
requests (`Around`): a command whose daemon is ensured may send one, a daemon
that dies takes its jobs with it, and a new process has no configuration.
`request` is the client's side of `sendRequest` (connecting, sent, settled), `job`
the daemon's (`RunStep` of `runCallScript`, and a call as a script of one step);
a client that timed out leaves its job running. `config` counts the edits of
servers.json and says whether it is valid; `read` is what each daemon started
with, since its exclude patterns and payload threshold never change after that.

### PayloadStore

Each process interleaves with the others between system calls: directory read,
unlink, exclusive create, write. Ages come from a logical clock bounded by
`MaxClock`. A process may stop at any step (`Restart`); a write may fail half
way (`WriteFails`); a file that is evicted while it is written has no name any
more (`WriteDetached`).

## 3. What the runs check

| Run | Instance | Result |
|---|---|---|
| `calls` | 1 server with soft and hard age limits, 3 connections, 3 concurrent tool calls | `LeasesCounted`, `RecycleWaitsForCalls`, `SingleFlight`, `RetryOwed`, `FailedIsReplaced`, `RunsAtMost`, and the refinement `ImplementsPool` |
| `reload` | 2 servers, 2 configurations of which one has a hard age limit, 3 slots, 3 connections, 1 call, 1 edit, 1 reload at a time | the inductive invariant `Inv` of the proofs; `NoOrphan`, `ShutdownTakesAll`, `UntouchedKept` |
| `live` | 1 server, 2 configurations, 1 call, 1 edit, under fairness | `CallsEnd`, `DrainingEnds`, `LostIsRecovered`, `ConfigConverges`, `ShutdownEnds` |
| `overlap` | 1 server, 2 reloads that may overlap, 2 edits | **violation** of `NoOrphan` |
| `cache` | tools `a` and `a:b`, 1 request at a time, manual flow | `FileFollowsMemory`, `GoneStaysGone` |
| `sampling` | 1 tool, 2 descriptions, 2 overlapping requests, no manual flow | `StaleIsOffered` |
| `stale` | as above with the manual flow | **violation** of `StaleIsOffered` |
| `sessions` | 2 session ids, 1 tool, 1 request | `LostOnlyUnused`, `UnusedExpires` |
| `requests` | 2 servers, 3 tools, pages of 2, 2 contents, 1 edit per file | `CacheIsCurrent`, `ConfigApplies`, `WalkIsExact`, `WalkEnds`, `HiddenStaysHidden` |
| `daemon` | 2 PIDs, 1 patient command at a time, 1 script of 3 steps, 1 edit | `OneDaemon`, `ServingIsFound`, `NoStrangerKilled`, `StopsAtFailure`, `CommandsEnd`, `RequestsSettle`, `RestartIsFresh` |
| `payloads` | 2 processes, 3 outputs, 1 file to keep | `Bounded` |
| `payload_cut` | 1 process, 2 outputs | **violation** of `ReferencedIsWhole` |

The violations are disagreements between the code and what its comments or its
README say:

* `overlap`: the poll starts a `reconcile` without asking whether the previous
  one is done. One that waits for a close and one that a second edit starts both
  create a slot for the server; the later slot replaces the earlier in the
  registry, and the earlier one's connection serves on where neither a teardown
  nor the shutdown finds it.
* `stale`: `cache_compressed_tools` looks the original up when the text is
  posted. A description that was rewritten in between is recorded as the one the
  text was made from and looks fresh from then on.
* `payload_cut`: a write that failed half way leaves its file; the next capture
  of the same output takes `EEXIST` for success and refers to the cut text.

### Bounds

* `calls`: one server suffices because servers do not share connections or
  leases. Three calls put one on a draining connection, one, or a replay, on its
  replacement and one on the dial in between, which is the third connection.
* `reload`: two servers, so that one is untouched while the other is replaced;
  one edit changes, adds or removes any subset of them. Three slots are two
  servers and one replacement; a reload that replaces both stops before it
  connects the second one (the proofs have no such bound). The hard age limit of
  one configuration drains connections under their calls.
* `live`: the smallest instance in which a call, a drain, a drop, a retry, a
  reload and a shutdown meet; liveness is checked without symmetry.
* The manager's runs make at most one edit (`overlap` two), from any file, since `Init`
  starts from any. The safety proofs bound neither the edits nor, but for
  `OneReload`, their order. Liveness is not proved, so a second edit that meets
  the teardowns of the first is outside `live`. `ConfigConverges` by itself also
  passes with two edits and three slots (264 856 states); with the other four
  liveness properties that instance takes too long to be a run.
* `cache`: two keys of which one is saved as the other are the only way keys can
  influence each other. `gone` therefore leaves out a key under which the file
  still holds the entry of another tool: that one does come back. With one
  description nothing is lost here: the properties compare entries with absence,
  and originals are the subject of `sampling`, with two descriptions and two
  requests.
* `sessions`: two sessions are the current one and another to switch to, which
  may also be the id of a session that is gone. Idle periods above the limit are
  all alike.
* `requests`: one content lists one server and names another that is off; the
  other content changes the server, hides a tool of it and sets the fallback.
  Three tools on pages of two make a last page that is short, and, when one is
  hidden, one that is full. One edit of each file suffices for every order of
  the edits, the two stats and the two reads; files start missing, broken or
  with either content.
* `daemon`: two PIDs are the daemon that stops, dies or lost its PID to a
  stranger, and the one that replaces it. Of a script's three steps the first may
  continue on error, the second may not, and the third must not run then.
* `payloads`: two processes that each make room for the other's file exceed the
  bound as soon as an eviction is skipped; three outputs let both write while
  one file is there. The clock allows four captures.

No run turns the deadlock check off: a process that has exited, a poll without a
change or a restart is a step of its model.

### Fairness

`live` assumes for the connection manager that a dial settles (`withTimeout`
races it with a timer), a close settles (the SDK's transports kill what does not
exit), a call settles (the SDK's request time-out), timers fire and continuations
run: weak fairness of each of these actions. `WakeWithLease` is strongly fair: a
continuation runs before any later callback can take the connection away again,
so a caller cannot be overtaken for ever. `LostIsRecovered` and
`ConfigConverges` also need a backend that answers when it is dialled for ever
(`AnsweringSpec`, strong fairness of `DialSucceeds`). No fairness is assumed of
callers, edits, drops, expiries or the shutdown. `daemon` assumes that processes
run, that waits are polled and that a client's 30 s timer fires; nothing of
crashes, commands, strangers or tools: a tool need never return, and a request
settles all the same. `sessions` assumes that time passes and the sweep's timer
fires. `requests` assumes that synchronous code goes on, that backends answer or
are given up (`Fetched`), that the client follows its cursor, and strong fairness
where the loader may be taken by somebody else in between (`Poll`, `Asked`,
`Fetched`); nobody need edit a file or start a failed process again.

## 4. What is proved

Every theorem holds for all values of the constants that satisfy the named
assumptions of its module: null values differ from real ones and from each
other, limits and bounds are numbers, what is counted (callers, stores, outputs,
server names) is finite. TLC evaluates these assumptions on every run. Where a
property needs more than that, the theorem has it as a hypothesis, and each
hypothesis is one that a passing run satisfies, and without it TLC finds each of
the properties violated on an instance with two reloads, two requests, or two
commands or a hasty one:

| Hypothesis | Says | Needed by | Without it |
|---|---|---|---|
| `OneReload` | a reconcile has torn its servers down and begun to connect before the next one starts | `NoOrphan`, `ShutdownTakesAll`, `UntouchedKept` | run `overlap` |
| `Patient` | commands wait for a daemon that is alive, and run one at a time | `OneDaemon`, `ServingIsFound`, `NoStrangerKilled`, `RestartIsFresh` | two daemons, see section 5 |
| `OneAtATime` | the client waits for each answer | `GoneStaysGone`, `FileFollowsMemory` | an older save may land last, see section 5 |
| `~Manual` | the client compresses by sampling only | `StaleIsOffered` | run `stale` |

### The connection manager and the executor

* `ClientManagerProofs`: `Spec => []Inv`, and from it `TypeOK`,
  `RecycleWaitsForCalls`, `DrainingHasCalls`, `SingleFlight`,
  `DisposedIsInert` and `RetryOwed`. Any number of reloads may overlap.
* `ClientManagerLeases`: `Spec => []LeasesCounted`, and the refinement
  `Spec => ImplementsPool`: the initial states map to `Pool!Init`, and every
  action to a step of `LeasePool` or a stutter. `Inv` says where a lease may be
  taken, `LeasesCounted` that the last one closes a retired connection.
* `ClientManagerReloads`: under `OneReload`, `NoOrphan`, `ShutdownTakesAll` and
  the action property `UntouchedKept`.
* `ToolCallsProofs`: `CallsSpec => []CallsInv`, and from it `CallsTypeOK`,
  `FailedIsReplaced` and `RunsAtMost`; `LeasePool` is also what the executor
  gets (`CallsImplementPool`).

`Inv` is `Safety`, the conjunction of the properties that hold in general, with
what makes them inductive:

* `ReadyIsCurrent`, `CurrentIsReady`, `AttemptIsDialing`: slot and connection
  point at each other. Without them a drain or a drop could leave a connection
  no slot knows, or a slot could lease a connection that closes.
* `ConnShape`: a live connection has a slot, and a dial has no calls; otherwise
  the end of a dial could close a connection under a call.
* `RegistryShape`: the registry holds live slots under their servers' names,
  without which a new call could revive a disposed slot.
* `RetryShape`: a retry that is under way awaits an attempt, and a connected slot
  owes none; the end of that attempt is where `RetryOwed` is restored.
* `CallerShape`, `ReloadShape`: what calls and reloads carry across an await.

Its proof has one lemma per action, most of them from a lemma about the record
update the action makes (`BeginDrainFacts`, `ReleaseFacts`, ...) and a lemma
about a kind of step (`AbandonInv`, `LeaseInv`, `DialInv`, `LaunchInv`,
`TakeDownInv`, ...). `ReloadInv` adds that the names a reload still has to tear
down have the slots it compared, and that those it connects have none by then;
`NoOrphan` is inductive only with that, and `ShutdownTakesAll` only with
`NoOrphan`. `CallsInv` adds `OpShape`, which ties the attempts of a tool call to
the caller's operation on the manager (an attempt that waits has not been sent),
and `StaleShape`: what is remembered of a connection that failed is not carried
over to a later one of its id, because an id is used again only when nothing
refers to it.

### The daemon

`DaemonProofs` proves `LifecycleInv` of every step of `DaemonLifecycle`, under
`Patient`, and carries it over to `DaemonRequests`, whose steps are steps of the
lifecycle or leave it alone. Of its parts, `AloneShape` is `OneDaemon` and
`ServingIsFound` with the moments before (a daemon owns the PID file before it
binds); it is inductive only with `AwaitedShape` (a daemon that comes up or goes
down has the command that waits for it, so no other one starts beside it) and
`StopShape` (a command launches where no daemon is alive; one that is about to
signal a PID has seen that a daemon has it). `FreshInv` follows what a restarted
daemon may have read; `RestartIsFresh` is an action property from it.
`RequestsInv`, and so `RequestsTypeOK` and `StopsAtFailure`, need no hypothesis:
`JobShape` says that a job that runs has only steps behind it that let it go on.

### Configuration and lists

`FrontEndProofs` proves `ConfigInv` of the loader and `FrontEndInv` of the
request over it. `SignedShape`: what was read of a file that still has the
load's signature is what the file says, whatever was written between the two
stats and the two reads; from it `CacheIsCurrent`. `HiddenShape` follows a
pattern that a file excluded all the time through the load, to the result it
returns; from it, with lemmas on what the filter leaves, the action property
`HiddenStaysHidden`. `WalkShape`: as long as the pages are cut from one list,
they are that list up to the cursor; from it `WalkIsExact`.

The filter and the concatenation of the backends' lists are recursive functions,
about which the library's induction theorems cannot be instantiated. Their types
and what they keep are proved all the same, by a smallest counterexample: the
lemma `IntervalInduction` derives first-order induction over an interval from
the well-foundedness of the strict subset ordering on a finite set
(`ShownDefined`, `ShownType`, `FlattenDefined`, `FlattenType`).

### Cache, sessions and payloads

* `CacheProofs` proves `TypeOK` of the cache for any requests; under
  `OneAtATime` `OneAtATimeInv`, hence `GoneStaysGone` and `FileFollowsMemory`;
  under `~Manual` `SampledInv`, hence `StaleIsOffered`, with requests that
  overlap. `ErasedShape` and `FileShape` make the first inductive: a save writes
  what memory holds into the file it emptied, neither memory nor file has an
  entry that is gone or is saved under a key that is gone, and the file's own
  keys are saved as they are, so a restart and another save change nothing
  (`WrittenSame`, `CleanWritten`). `SampledInv` follows a text, in memory, on its
  way and in the file, with the original it was made from.
* `SessionsInv` of the composition with the sessions, hence `SessionsTypeOK` and
  `LostOnlyUnused`, from `UseShape`: a session is idle no longer than it is
  unlisted. `SessionsGoneStaysGone` and `SessionsStaleIsOffered`
  carry the two properties of the cache over to the composition.
* `PayloadStoreProofs` proves `Bounded` for any number of stores and any limit,
  by `RoomShape`: the files there are, less those about to be unlinked, with
  those about to be created, exceed the limit by less than the number of stores.
  Its proof counts sets, one lemma per way a step changes them.

## 5. Only model-checked, or not modelled

The safety invariants, action properties and the refinement of the passing runs
are all proved. The liveness properties stay with TLC: `CallsEnd`,
`DrainingEnds`, `LostIsRecovered`, `ConfigConverges`, `ShutdownEnds`,
`UnusedExpires`, `ConfigApplies`, `WalkEnds`, `CommandsEnd` and
`RequestsSettle` rest on fairness, whose `ENABLED` the prover does not reason
about. What the recursive functions of `FrontEnd` compute is proved as far as the
properties need it (types, and that nothing hidden is left), not as an equality
with another definition.

False of the code, and therefore in no passing run: `GoneStaysGone` with two
requests at a time (nothing orders saves, so an older snapshot may land last);
`OneDaemon`, `ServingIsFound`, `NoStrangerKilled` and `RestartIsFresh` with
`Hasty = TRUE` or with two commands, where the later of two daemons started at
once unlinks the socket of the one that serves.

Facts of the models that no run states:

* `disconnectAll` awaits only the connections its slots hold, so the process may
  exit while a backend is being dialled, or a close that a reload started is in
  flight. `ShutdownEnds` and `ShutdownTakesAll` hold of such a shutdown too.
* A crash while `cache.json` is written loses the entries that were to stay, and
  a tool whose name has a colon is saved under a shorter name, where it may
  replace another tool's entry. The cache's properties are about entries that
  were erased, and are stated modulo that conversion (`Written`, `SavedAs`).
* An expand in a session that has expired is reported as done and has no effect.
* A walk whose list changes between its pages may skip or repeat tools;
  `WalkEnds` says that it ends, `WalkIsExact` exempts it.
* A project's servers.json cannot switch off a server of the user's: entries that
  are not enabled are dropped before the two lists are put together (`Merged`).
* Two writes of a file that leave its time and size alike would not be told
  apart: the model gives every write a stamp of its own. A file that came and
  went between a stat and a read leaves a result under the signature of a missing
  file; `CacheIsCurrent` and `ConfigApplies` exempt that.
* A daemon filters and captures with the patterns and the threshold it started
  with, while its servers follow the file.

Not modelled:

* backoff times, health status, metrics, logging, the display rules of the
  compression cache, statistics;
* `buildEnv`, `buildTransport` and the SDK: a dial succeeds or fails;
* the validation of a configuration, the expansion of environment variables, and
  its settings other than `excludeTools`, `enabled` and
  `compressionFallbackBehavior`, which are merged like these;
* a server that both files list at launch: `initializeServers` then starts it
  twice;
* the dispatch of tools/call in `index.ts` and its payload threshold; the batches
  and the parsing of the sampler; paging and searching of a payload; JSON
  pointers of scripts (one way a step fails);
* the daemon's methods that only read; framing of IPC; printing, argument
  parsing, logs and `doctor` of the CLI.

## 6. Plan

Done: all modules of section 2 and the proofs of section 4.

Next, in this order:

1. What does hold of daemons and their files when commands are hasty or run side
   by side (at most one socket, whose owner is alive or has died with it): TLC
   first, then an invariant.
2. An abstract specification of the cache, a set of entries that survives a
   restart, and the refinement of it under `OneAtATime`.
3. An abstract specification of a request (it is sent, may take effect, settles
   once), and the refinement of it by `DaemonRequests`.
4. The safety side of the liveness properties: the invariants by which a command
   that waits, a request that was sent, or a connection that drains has a step
   that will end it.
5. `NoOrphan` for reloads that overlap on different servers.
