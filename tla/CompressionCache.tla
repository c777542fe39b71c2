-------------------------- MODULE CompressionCache --------------------------
(***************************************************************************)
(* The cache of compressed tool descriptions, in memory and on disk        *)
(* (src/services/compression-cache.ts, compression-persistence.ts), with   *)
(* the requests of src/index.ts that read, fill and empty it.              *)
(*                                                                         *)
(* Backends rewrite their descriptions while the client compresses them;   *)
(* requests overlap at their awaits; a save is not atomic, may fail, and   *)
(* the process may die at any of its steps and start again from the file.  *)
(*                                                                         *)
(* Abstracted: a compressed text is the description it was made from; all  *)
(* backends answer one listing at one moment (an older answer is the reuse *)
(* of an older snapshot); which tools a limit leaves out of a batch.       *)
(***************************************************************************)
EXTENDS Naturals, FiniteSets

CONSTANTS
    Tools,      \* the "server:tool" keys of the tools the backends offer
    Keys,       \* every key of the cache: those, and what they are saved as
    SavedAs,    \* the key that key.split(':') leaves of a key in the file
    Descs,      \* tool descriptions
    Requests,   \* requests in flight at once
    Manual,     \* whether the client uses get_uncompressed_tools and
                \* cache_compressed_tools besides compress_via_sampling
    NoDesc,     \* a tool without a description, an entry without an original
    Blank,      \* an empty compressed text
    Missing,    \* a tool that is not listed, or was not offered
    NoEntry, NoSnapshot

ASSUME KeyAssumption ==
    /\ Tools \subseteq Keys
    /\ SavedAs \in [Keys -> Keys]
    /\ \A k \in Keys : SavedAs[SavedAs[k]] = SavedAs[k]

ASSUME DescAssumption ==
    /\ {NoDesc, Blank, Missing} \cap Descs = {}
    /\ NoDesc # Blank /\ NoDesc # Missing /\ Blank # Missing
    /\ Manual \in BOOLEAN

VARIABLES
    live,      \* the description each backend serves for its tool
    memory,    \* this.cache
    file,      \* cache.json
    snapshot,  \* toolCache
    offered,   \* the descriptions get_uncompressed_tools gave to the client
    request,   \* the requests, from one await to the next
    gone,      \* history: the keys reported erased and not saved under since
    failed,    \* history: whether the last save or unlink failed
    up         \* whether the process runs

vars == <<live, memory, file, snapshot, offered, request, gone, failed, up>>

Described == Descs \cup {NoDesc}

Entries ==
    [original: Described, compressed: Descs \cup {NoDesc, Blank}]
Contents == [Keys -> Entries \cup {NoEntry}]
Listings == [Tools -> Described \cup {Missing}]

Empty    == [k \in Keys |-> NoEntry]
NothingListed == [t \in Tools |-> Missing]

\* "empty" is a file that was opened and not written yet, "cut" one that was
\* written in part, or over a longer text.
Files == [state: {"absent", "empty", "whole", "cut"}, content: Contents]

RequestRecords ==
    [pc:     {"idle", "sampling", "saving", "writing", "detached", "unlinking"},
     tools:  Listings,       \* the tools sent to the host, as they were listed
     data:   Contents,       \* what saveToDisk will write
     erased: SUBSET Keys]    \* what the reply will report as erased

Idle ==
    [pc |-> "idle", tools |-> NothingListed, data |-> Empty, erased |-> {}]

TypeOK ==
    /\ live \in [Tools -> Described]
    /\ memory \in Contents
    /\ file \in Files
    /\ snapshot \in Listings \cup {NoSnapshot}
    /\ offered \in Listings
    /\ request \in [Requests -> RequestRecords]
    /\ gone \subseteq Keys
    /\ failed \in BOOLEAN
    /\ up \in BOOLEAN

Init ==
    /\ live \in [Tools -> Described]
    /\ memory = Empty
    /\ file = [state |-> "absent", content |-> Empty]
    /\ snapshot = NoSnapshot
    /\ offered = NothingListed
    /\ request = [r \in Requests |-> Idle]
    /\ gone = {}
    /\ failed = FALSE
    /\ up = TRUE

-----------------------------------------------------------------------------
(* The cache in memory.                                                    *)

HasCompressed(k) == memory[k] # NoEntry /\ memory[k].compressed # Blank

\* isStale: both the recorded original and the listed one must be there.
IsStale(k, desc) ==
    /\ HasCompressed(k)
    /\ memory[k].original # NoDesc
    /\ desc # NoDesc
    /\ memory[k].original # desc

NeedsCompression(t, desc) == ~HasCompressed(t) \/ IsStale(t, desc)

Needing(listing) ==
    {t \in Tools : listing[t] # Missing /\ NeedsCompression(t, listing[t])}

\* The first `limit` tools of those in need.
Batches(listing) ==
    {b \in SUBSET Needing(listing) : b = {} => Needing(listing) = {}}

\* Mutant of OriginalIn: a tool that is not listed gets an original all the same.
OriginalUnlisted(listing, t) == listing[t]

\* The original recorded for a tool: what the snapshot at hand lists.
OriginalIn(listing, t) == IF listing[t] = Missing THEN NoDesc ELSE listing[t]

\* saveCompressed of every tool in the domain of texts.
Saved(texts, listing) ==
    [k \in Keys |->
        IF k \in DOMAIN texts
        THEN [original |-> OriginalIn(listing, k), compressed |-> texts[k]]
        ELSE memory[k]]

\* These keys and those their entries come back under after a restart.
Named(keys) == keys \cup {SavedAs[k] : k \in keys}

\* Mutant of Persist: the entries are copied before the change.
PersistOld(r, entries, compressed, erased) ==
    /\ memory' = entries
    /\ gone' = gone \ Named(compressed)
    /\ request' = [q \in Requests |->
          IF q = r
          THEN [pc |-> "saving", tools |-> NothingListed,
                data |-> memory, erased |-> erased]
          ELSE [request[q] EXCEPT !.erased = @ \ Named(compressed)]]

\* A request starts saveToDisk on the new memory: the entries are copied now
\* and written later.  What it compressed is no longer erased for anyone.
Persist(r, entries, compressed, erased) ==
    /\ memory' = entries
    /\ gone' = gone \ Named(compressed)
    /\ request' = [q \in Requests |->
          IF q = r
          THEN [pc |-> "saving", tools |-> NothingListed,
                data |-> entries, erased |-> erased]
          ELSE [request[q] EXCEPT !.erased = @ \ Named(compressed)]]

-----------------------------------------------------------------------------
(* The tool snapshot and the requests that use it.                         *)

\* fetchAllBackendTools: a fresh snapshot is reused; otherwise every backend
\* is asked, and one that fails to answer contributes nothing.
FetchResults ==
    IF snapshot # NoSnapshot THEN {snapshot}
    ELSE {[t \in Tools |-> IF t \in down THEN Missing ELSE live[t]] :
              down \in SUBSET Tools}

\* The snapshot's three seconds are over, or the server set changed.
SnapshotExpires ==
    /\ snapshot # NoSnapshot
    /\ snapshot' = NoSnapshot
    /\ UNCHANGED <<live, memory, file, offered, request, gone, failed, up>>

\* A backend serves another description for its tool.
Rewrite(t) ==
    /\ live' \in {[live EXCEPT ![t] = d] : d \in Described \ {live[t]}}
    /\ UNCHANGED <<memory, file, snapshot, offered, request, gone, failed, up>>

\* get_uncompressed_tools.
GetUncompressed ==
    /\ up /\ Manual
    /\ \E listing \in FetchResults :
          /\ snapshot' = listing
          /\ \E batch \in Batches(listing) :
                offered' = [t \in Tools |->
                               IF t \in batch THEN listing[t] ELSE offered[t]]
    /\ UNCHANGED <<live, memory, file, request, gone, failed, up>>

\* The client's texts: each was made from the description it was offered.
Compressions ==
    UNION {{f \in [posted -> Described \cup {Blank}] :
               \A t \in posted : f[t] \in {offered[t], Blank}} :
           posted \in SUBSET {t \in Tools : offered[t] # Missing}}

\* cache_compressed_tools, up to the await of its save.
CacheCompressed(r) ==
    /\ up /\ Manual
    /\ request[r].pc = "idle"
    /\ \E listing \in FetchResults, texts \in Compressions :
          /\ snapshot' = listing
          /\ Persist(r, Saved(texts, listing), DOMAIN texts, {})
    /\ UNCHANGED <<live, file, offered, failed, up>>

\* compress_via_sampling, up to the await of the host's answers.
StartSampling(r) ==
    /\ up
    /\ request[r].pc = "idle"
    /\ \E listing \in FetchResults :
          /\ snapshot' = listing
          /\ \E batch \in Batches(listing) \ {{}} :
                request' = [request EXCEPT
                    ![r].pc = "sampling",
                    ![r].tools = [t \in Tools |->
                        IF t \in batch THEN listing[t] ELSE Missing]]
    /\ UNCHANGED <<live, memory, file, offered, gone, failed, up>>

\* The sampler's result: batches may fail, and entries that are malformed,
\* blank or were not asked for are dropped.
Accepted(sent) == SUBSET {t \in Tools : sent[t] # Missing}

\* Mutant of FinishSampling: the originals are looked up when the texts arrive.
FinishSamplingLate(r) ==
    LET sent == request[r].tools IN
    /\ up
    /\ request[r].pc = "sampling"
    /\ \E done \in Accepted(sent) :
          Persist(r, Saved([t \in done |-> sent[t]], live), done, {})
    /\ UNCHANGED <<live, file, snapshot, offered, failed, up>>

\* The host answered: texts for some of the tools, each recorded with the
\* description it was made from.
FinishSampling(r) ==
    LET sent == request[r].tools IN
    /\ up
    /\ request[r].pc = "sampling"
    /\ \E done \in Accepted(sent) :
          IF done = {}
          THEN /\ request' = [request EXCEPT ![r] = Idle]
               /\ UNCHANGED <<memory, gone>>
          ELSE Persist(r, Saved([t \in done |-> sent[t]], sent), done, {})
    /\ UNCHANGED <<live, file, snapshot, offered, failed, up>>

\* invalidate_tool_cache of an entry that exists, up to the await of its save.
\* (An entry that is saved as k keeps k from being gone.)
Invalidate(r, k) ==
    LET left == [memory EXCEPT ![k] = NoEntry] IN
    /\ up
    /\ request[r].pc = "idle"
    /\ memory[k] # NoEntry
    /\ Persist(r, left, {}, {k} \ Named({j \in Keys : left[j] # NoEntry}))
    /\ UNCHANGED <<live, file, snapshot, offered, failed, up>>

\* clear_compressed_tools_cache, up to the await of the unlink.
Clear(r) ==
    /\ up
    /\ request[r].pc = "idle"
    /\ memory' = Empty
    /\ request' = [request EXCEPT ![r].pc = "unlinking", ![r].erased = Keys]
    /\ UNCHANGED <<live, file, snapshot, offered, gone, failed, up>>

-----------------------------------------------------------------------------
(* CompressionPersistence: the file.                                       *)

Replied(r, erased) ==
    /\ request' = [request EXCEPT ![r] = Idle]
    /\ gone' = gone \cup erased

\* mkdir is done; writeFile opens the file and thereby empties it.
OpenFile(r) ==
    /\ up
    /\ request[r].pc = "saving"
    /\ file' = [state |-> "empty", content |-> Empty]
    /\ request' = [request EXCEPT ![r].pc = "writing"]
    /\ UNCHANGED <<live, memory, snapshot, offered, gone, failed, up>>

\* The entries as they are found again; of two keys that become one, either
\* may win.
Written(data) ==
    LET from(k) == {j \in Keys : SavedAs[j] = k /\ data[j] # NoEntry} IN
    {[k \in Keys |-> IF from(k) = {} THEN NoEntry ELSE data[winner[k]]] :
        winner \in {w \in [Keys -> Keys] :
                       \A k \in Keys : w[k] \in IF from(k) = {} THEN {k} ELSE from(k)}}

\* The data goes to offset 0 of the file this save emptied.  Where another one
\* wrote in between, a tail of its data may be left behind.
WriteFile(r) ==
    /\ up
    /\ request[r].pc = "writing"
    /\ \E content \in Written(request[r].data) :
          \/ file' = [state |-> "whole", content |-> content]
          \/ /\ file.state \in {"cut", "whole"}
             /\ file.state = "whole" => file.content # content
             /\ file' = [state |-> "cut", content |-> Empty]
    /\ Replied(r, request[r].erased)
    /\ failed' = FALSE
    /\ UNCHANGED <<live, memory, snapshot, offered, up>>

\* The file was unlinked after this save opened it.
WriteUnlinked(r) ==
    /\ up
    /\ request[r].pc = "detached"
    /\ Replied(r, request[r].erased)
    /\ failed' = FALSE
    /\ UNCHANGED <<live, memory, file, snapshot, offered, up>>

\* Mutant of SaveFails: the failure is reported as a success.
SaveFailsUnnoticed(r) ==
    /\ up
    /\ request[r].pc \in {"saving", "writing", "detached"}
    /\ Replied(r, request[r].erased)
    /\ failed' = TRUE
    /\ UNCHANGED <<live, memory, file, snapshot, offered, up>>

\* mkdir, open or write fails: cache_compressed_tools and sampling ignore it,
\* invalidate_tool_cache reports it.
SaveFails(r) ==
    /\ up
    /\ request[r].pc \in {"saving", "writing", "detached"}
    /\ file' = IF request[r].pc = "writing"
               THEN [state |-> "cut", content |-> Empty] ELSE file
    /\ Replied(r, {})
    /\ failed' = TRUE
    /\ UNCHANGED <<live, memory, snapshot, offered, up>>

\* unlink; a file that does not exist is as good as unlinked.
Unlink(r) ==
    /\ up
    /\ request[r].pc = "unlinking"
    /\ file' = [state |-> "absent", content |-> Empty]
    /\ gone' = gone \cup request[r].erased
    /\ request' = [q \in Requests |->
          IF q = r THEN Idle
          ELSE IF request[q].pc = "writing"
               THEN [request[q] EXCEPT !.pc = "detached"] ELSE request[q]]
    /\ failed' = FALSE
    /\ UNCHANGED <<live, memory, snapshot, offered, up>>

UnlinkFails(r) ==
    /\ up
    /\ request[r].pc = "unlinking"
    /\ file.state # "absent"
    /\ Replied(r, {})
    /\ failed' = TRUE
    /\ UNCHANGED <<live, memory, file, snapshot, offered, up>>

\* The process dies, at any point of any request.
Crash ==
    /\ up
    /\ up' = FALSE
    /\ memory' = Empty
    /\ snapshot' = NoSnapshot
    /\ request' = [r \in Requests |-> Idle]
    /\ UNCHANGED <<live, file, offered, gone, failed>>

\* main: the cache starts from the file; one that cannot be parsed is ignored.
Restart ==
    /\ ~up
    /\ up' = TRUE
    /\ memory' = file.content
    /\ failed' = FALSE
    /\ UNCHANGED <<live, file, snapshot, offered, request, gone>>

-----------------------------------------------------------------------------
Next ==
    \/ SnapshotExpires
    \/ \E t \in Tools : Rewrite(t)
    \/ GetUncompressed
    \/ \E r \in Requests :
          \/ CacheCompressed(r)
          \/ StartSampling(r)
          \/ FinishSampling(r)
          \/ \E k \in Keys : Invalidate(r, k)
          \/ Clear(r)
          \/ OpenFile(r)
          \/ WriteFile(r)
          \/ WriteUnlinked(r)
          \/ SaveFails(r)
          \/ Unlink(r)
          \/ UnlinkFails(r)
    \/ Crash
    \/ Restart

Spec == Init /\ [][Next]_vars

-----------------------------------------------------------------------------
(* Properties.                                                             *)

\* What was reported as erased does not come back until it, or a tool whose
\* name the file shortens to it, is compressed again: no save, and no restart,
\* revives it.  (index.ts:862: an invalidated tool "will be offered again";
\* only when the save failed "The entry will come back on restart".)
GoneStaysGone == \A k \in gone : memory[k] = NoEntry

\* Between requests the file holds what memory holds, as far as the file keeps
\* keys apart, unless the last save or unlink failed: a restart changes nothing.
FileFollowsMemory ==
    up /\ ~failed /\ (\A r \in Requests : request[r].pc \in {"idle", "sampling"})
        => file.content \in Written(memory)

\* A backend that rewrites a description is picked up (README.md:125): a text
\* made from another description than the one served now is offered again.
\* (isStale needs both sides: a tool or an entry without an original is exempt.)
StaleIsOffered ==
    \A t \in Tools :
        (/\ memory[t] # NoEntry
         /\ {memory[t].compressed, memory[t].original, live[t]} \subseteq Descs
         /\ memory[t].compressed # live[t])
        => NeedsCompression(t, live[t])

-----------------------------------------------------------------------------
(* What the properties rest on.                                            *)

\* The client waits for the answer of one request before it sends the next.
OneAtATime == \A q, r \in Requests : q = r

\* None of these keys has an entry, nor gets one when the entries are saved.
Clean(keys, contents) ==
    \A k \in Keys : contents[k] # NoEntry => k \notin keys /\ SavedAs[k] \notin keys

\* With one request at a time: memory and file are clean of what is gone, memory
\* also of what a save will report as erased; a save writes what memory holds
\* into the file it emptied.
ErasedShape ==
    /\ Clean(gone, memory) /\ Clean(gone, file.content)
    /\ \A r \in Requests :
          /\ request[r].pc # "detached"
          /\ request[r].pc \in {"saving", "writing"} =>
                request[r].data = memory /\ Clean(request[r].erased, memory)
          /\ request[r].pc = "writing" => file.state = "empty"
          /\ request[r].pc = "unlinking" => memory = Empty
          /\ ~up => request[r].pc = "idle"

\* The keys of the file are what keys are saved as.
FileShape == \A k \in Keys : file.content[k] # NoEntry => SavedAs[k] = k

OneAtATimeInv == TypeOK /\ ErasedShape /\ FileShape /\ FileFollowsMemory

\* Every text was made from the original it is stored with.
MadeFromOriginal(contents) ==
    \A k \in Keys : contents[k] # NoEntry => contents[k].compressed = contents[k].original

\* Of a client that compresses by sampling only: so is every text, in memory, in
\* the file and on the way to it.
SampledInv ==
    /\ TypeOK
    /\ MadeFromOriginal(memory) /\ MadeFromOriginal(file.content)
    /\ \A r \in Requests : MadeFromOriginal(request[r].data)

=============================================================================
