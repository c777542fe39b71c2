----------------------------- MODULE CacheProofs -----------------------------
(***************************************************************************)
(* The compression cache and the sessions over it (CompressionCache and    *)
(* Sessions), for any number of tools, keys, descriptions, requests and    *)
(* sessions: types, what stays erased, what the file holds, which texts    *)
(* are offered again, and which sessions may be lost.                      *)
(*                                                                         *)
(* What holds only of a client that waits for each answer (OneAtATime), or *)
(* only of one that compresses by sampling (~Manual), says so: the runs    *)
(* MCOverlap and MCStale show that it fails otherwise.                     *)
(***************************************************************************)
EXTENDS Sessions, TLAPS

(* What the operators of the cache return.                                 *)

LEMMA EntryTypes ==
    /\ Empty \in Contents /\ NothingListed \in Listings
    /\ Entries = [original: Described, compressed: Described \cup {Blank}]
    /\ Missing \notin Described
<1>1. Empty \in Contents
  BY DEF Empty, Contents
<1>2. NothingListed \in Listings
  BY DEF NothingListed, Listings
<1>3. Entries = [original: Described, compressed: Described \cup {Blank}]
<2>1. Descs \cup {NoDesc, Blank} = Described \cup {Blank}
  BY DEF Described
<2> QED BY <2>1 DEF Entries
<1>4. Missing \notin Described
  BY DescAssumption DEF Described
<1> QED BY <1>1, <1>2, <1>3, <1>4

LEMMA IdleType == Idle \in RequestRecords
<1>1. PICK w : w = Idle
  OBVIOUS
<1>2. /\ Idle.pc = "idle" /\ Idle.tools = NothingListed
      /\ Idle.data = Empty /\ Idle.erased = {}
  BY DEF Idle
<1> QED BY EntryTypes DEF Idle, RequestRecords

LEMMA OriginalType ==
    ASSUME NEW listing \in Listings, NEW t \in Tools
    PROVE  OriginalIn(listing, t) \in Described
  BY DEF OriginalIn, Listings, Described

LEMMA SavedType ==
    ASSUME memory \in Contents, NEW D \in SUBSET Tools, NEW listing \in Listings,
           NEW texts \in [D -> Described \cup {Blank}]
    PROVE  /\ DOMAIN texts = D
           /\ Saved(texts, listing) \in Contents
<1>1. DOMAIN texts = D
  OBVIOUS
<1>2. ASSUME NEW k \in D
      PROVE  [original |-> OriginalIn(listing, k), compressed |-> texts[k]] \in Entries
<2>1. OriginalIn(listing, k) \in Described
  BY <1>2, OriginalType
<2>2. texts[k] \in Described \cup {Blank}
  BY <1>2
<2> QED BY <2>1, <2>2, EntryTypes
<1>3. \A k \in Keys \ D : memory[k] \in Entries \cup {NoEntry}
  BY DEF Contents
<1> QED BY <1>1, <1>2, <1>3 DEF Saved, Contents

LEMMA FetchType ==
    ASSUME TypeOK
    PROVE  FetchResults \subseteq Listings
<1>1. ASSUME NEW down \in SUBSET Tools
      PROVE  [t \in Tools |-> IF t \in down THEN Missing ELSE live[t]] \in Listings
  BY DEF TypeOK, Listings
<1> QED BY <1>1 DEF FetchResults, TypeOK

LEMMA CompressionsType ==
    ASSUME NEW texts \in Compressions
    PROVE  \E D \in SUBSET Tools : texts \in [D -> Described \cup {Blank}]
  BY DEF Compressions

\* An entry of the file comes from one that is saved under its key.
LEMMA WrittenType ==
    ASSUME NEW data \in Contents, NEW content \in Written(data)
    PROVE  /\ content \in Contents
           /\ \A k \in Keys : content[k] # NoEntry =>
                 \E j \in Keys : /\ SavedAs[j] = k /\ data[j] # NoEntry
                                 /\ content[k] = data[j]
<1> DEFINE from(k) == {j \in Keys : SavedAs[j] = k /\ data[j] # NoEntry}
<1>1. PICK winner \in [Keys -> Keys] :
         /\ \A k \in Keys : winner[k] \in IF from(k) = {} THEN {k} ELSE from(k)
         /\ content = [k \in Keys |-> IF from(k) = {} THEN NoEntry ELSE data[winner[k]]]
  BY DEF Written
<1>2. ASSUME NEW k \in Keys
      PROVE  /\ content[k] \in Entries \cup {NoEntry}
             /\ content[k] # NoEntry =>
                   \E j \in Keys : /\ SavedAs[j] = k /\ data[j] # NoEntry
                                   /\ content[k] = data[j]
<2>1. content[k] = IF from(k) = {} THEN NoEntry ELSE data[winner[k]]
  BY <1>1
<2>2. CASE from(k) = {}
  BY <2>1, <2>2
<2>3. CASE from(k) # {}
<3>1. winner[k] \in from(k) /\ winner[k] \in Keys
  BY <1>1, <2>3
<3>2. content[k] = data[winner[k]]
  BY <2>1, <2>3
<3> QED BY <3>1, <3>2 DEF Contents
<2> QED BY <2>2, <2>3
<1> QED BY <1>1, <1>2 DEF Contents

\* Entries whose keys the file keeps as they are, are saved as they are.
LEMMA WrittenSame ==
    ASSUME NEW data \in Contents,
           \A k \in Keys : data[k] # NoEntry => SavedAs[k] = k
    PROVE  data \in Written(data)
<1> DEFINE from(k) == {j \in Keys : SavedAs[j] = k /\ data[j] # NoEntry}
<1> DEFINE winner == [k \in Keys |-> k]
<1>1. \A k \in Keys : from(k) = IF data[k] = NoEntry THEN {} ELSE {k}
  OBVIOUS
<1>2. winner \in [Keys -> Keys]
      /\ \A k \in Keys : winner[k] \in IF from(k) = {} THEN {k} ELSE from(k)
  BY <1>1
<1>3. data = [k \in Keys |-> IF from(k) = {} THEN NoEntry ELSE data[winner[k]]]
  BY <1>1 DEF Contents
<1>4. \E w \in {w \in [Keys -> Keys] :
                \A k \in Keys : w[k] \in IF from(k) = {} THEN {k} ELSE from(k)} :
         data = [k \in Keys |-> IF from(k) = {} THEN NoEntry ELSE data[w[k]]]
<2> HIDE DEF winner, from
<2>1. winner \in {w \in [Keys -> Keys] :
                \A k \in Keys : w[k] \in IF from(k) = {} THEN {k} ELSE from(k)}
  BY <1>2
<2> QED BY <2>1, <1>3
<1> QED BY <1>4 DEF Written

LEMMA PersistType ==
    ASSUME TypeOK, NEW r \in Requests, NEW entries \in Contents, NEW compressed,
           NEW erased \in SUBSET Keys, Persist(r, entries, compressed, erased)
    PROVE  /\ memory' \in Contents /\ gone' \subseteq Keys
           /\ request' \in [Requests -> RequestRecords]
<1>1. memory' \in Contents /\ gone' \subseteq Keys
  BY DEF Persist, TypeOK
<1>2. ASSUME NEW q \in Requests
      PROVE  [request[q] EXCEPT !.erased = @ \ Named(compressed)] \in RequestRecords
  BY DEF TypeOK, RequestRecords
<1>3. [pc |-> "saving", tools |-> NothingListed, data |-> entries, erased |-> erased]
         \in RequestRecords
  BY EntryTypes DEF RequestRecords
<1> QED BY <1>1, <1>2, <1>3 DEF Persist

LEMMA RepliedType ==
    ASSUME TypeOK, NEW r \in Requests, NEW erased \in SUBSET Keys, Replied(r, erased)
    PROVE  gone' \subseteq Keys /\ request' \in [Requests -> RequestRecords]
  BY IdleType DEF Replied, TypeOK

LEMMA FileTypes ==
    /\ \A content \in Contents : [state |-> "whole", content |-> content] \in Files
    /\ \A s \in {"absent", "empty", "cut"} : [state |-> s, content |-> Empty] \in Files
  BY EntryTypes DEF Files

-----------------------------------------------------------------------------
(* The types.                                                              *)

LEMMA TypeInit ==
    ASSUME Init
    PROVE  TypeOK
<1>1. request \in [Requests -> RequestRecords]
  BY IdleType DEF Init
<1>2. Empty \in Contents /\ NothingListed \in Listings
  BY EntryTypes
<1>3. [state |-> "absent", content |-> Empty] \in Files
  BY FileTypes
<1> QED BY <1>1, <1>2, <1>3 DEF Init, TypeOK

LEMMA TypeSnapshot ==
    ASSUME TypeOK, SnapshotExpires \/ (\E t \in Tools : Rewrite(t)) \/ GetUncompressed
    PROVE  TypeOK'
<1>1. CASE SnapshotExpires
  BY <1>1 DEF SnapshotExpires, TypeOK
<1>2. ASSUME NEW t \in Tools, Rewrite(t)
      PROVE  TypeOK'
<2>1. PICK d \in Described : live' = [live EXCEPT ![t] = d]
  BY <1>2 DEF Rewrite
<2>2. live' \in [Tools -> Described]
  BY <2>1 DEF TypeOK
<2> QED BY <1>2, <2>2 DEF Rewrite, TypeOK
<1>3. CASE GetUncompressed
<2>1. PICK listing \in FetchResults :
         /\ snapshot' = listing
         /\ \E batch \in Batches(listing) :
               offered' = [t \in Tools |->
                              IF t \in batch THEN listing[t] ELSE offered[t]]
  BY <1>3 DEF GetUncompressed
<2>2. listing \in Listings
  BY FetchType
<2>3. offered' \in Listings
  BY <2>1, <2>2 DEF TypeOK, Listings
<2>4. UNCHANGED <<live, memory, file, request, gone, failed, up>>
  BY <1>3 DEF GetUncompressed
<2> QED BY <2>1, <2>2, <2>3, <2>4 DEF TypeOK
<1> QED BY <1>1, <1>2, <1>3

LEMMA TypeCompress ==
    ASSUME TypeOK, NEW r \in Requests,
           CacheCompressed(r) \/ StartSampling(r) \/ FinishSampling(r)
    PROVE  TypeOK'
<1>1. CASE CacheCompressed(r)
<2>1. PICK listing \in FetchResults, texts \in Compressions :
         /\ snapshot' = listing
         /\ Persist(r, Saved(texts, listing), DOMAIN texts, {})
  BY <1>1 DEF CacheCompressed
<2>2. listing \in Listings
  BY FetchType
<2>3. PICK D \in SUBSET Tools : texts \in [D -> Described \cup {Blank}]
  BY CompressionsType
<2>4. Saved(texts, listing) \in Contents
  BY <2>2, <2>3, SavedType DEF TypeOK
<2>5. /\ memory' \in Contents /\ gone' \subseteq Keys
      /\ request' \in [Requests -> RequestRecords]
  BY <2>1, <2>4, PersistType
<2>6. UNCHANGED <<live, file, offered, failed, up>>
  BY <1>1 DEF CacheCompressed
<2> QED BY <2>1, <2>2, <2>5, <2>6 DEF TypeOK
<1>2. CASE StartSampling(r)
<2>1. PICK listing \in FetchResults :
         /\ snapshot' = listing
         /\ \E batch \in Batches(listing) \ {{}} :
               request' = [request EXCEPT
                   ![r].pc = "sampling",
                   ![r].tools = [t \in Tools |->
                       IF t \in batch THEN listing[t] ELSE Missing]]
  BY <1>2 DEF StartSampling
<2>2. listing \in Listings
  BY FetchType
<2>3. ASSUME NEW batch
      PROVE  [t \in Tools |-> IF t \in batch THEN listing[t] ELSE Missing] \in Listings
  BY <2>2 DEF Listings
<2>4. request' \in [Requests -> RequestRecords]
<3>1. PICK sent \in Listings :
         request' = [request EXCEPT ![r].pc = "sampling", ![r].tools = sent]
  BY <2>1, <2>3
<3> QED BY <3>1 DEF TypeOK, RequestRecords
<2>5. UNCHANGED <<live, memory, file, offered, gone, failed, up>>
  BY <1>2 DEF StartSampling
<2> QED BY <2>1, <2>2, <2>4, <2>5 DEF TypeOK
<1>3. CASE FinishSampling(r)
<2> DEFINE sent == request[r].tools
<2>1. sent \in Listings
  BY DEF TypeOK, RequestRecords
<2>2. PICK done \in Accepted(sent) :
         IF done = {}
         THEN /\ request' = [request EXCEPT ![r] = Idle]
              /\ UNCHANGED <<memory, gone>>
         ELSE Persist(r, Saved([t \in done |-> sent[t]], sent), done, {})
  BY <1>3 DEF FinishSampling
<2>3. done \in SUBSET Tools /\ \A t \in done : sent[t] \in Described
  BY <2>1 DEF Accepted, Listings
<2>4. /\ memory' \in Contents /\ gone' \subseteq Keys
      /\ request' \in [Requests -> RequestRecords]
<3>1. CASE done = {}
  BY <2>2, <3>1, IdleType DEF TypeOK
<3>2. CASE done # {}
<4> DEFINE texts == [t \in done |-> sent[t]]
<4>1. texts \in [done -> Described \cup {Blank}]
  BY <2>3
<4> HIDE DEF texts
<4>2. Saved(texts, sent) \in Contents
  BY <2>1, <2>3, <4>1, SavedType DEF TypeOK
<4>3. Persist(r, Saved(texts, sent), done, {})
  BY <2>2, <3>2 DEF texts
<4> QED BY <4>2, <4>3, PersistType
<3> QED BY <3>1, <3>2
<2>5. UNCHANGED <<live, file, snapshot, offered, failed, up>>
  BY <1>3 DEF FinishSampling
<2> QED BY <2>4, <2>5 DEF TypeOK
<1> QED BY <1>1, <1>2, <1>3

LEMMA TypeErase ==
    ASSUME TypeOK, NEW r \in Requests,
           (\E k \in Keys : Invalidate(r, k)) \/ Clear(r)
    PROVE  TypeOK'
<1>1. ASSUME NEW k \in Keys, Invalidate(r, k)
      PROVE  TypeOK'
<2> DEFINE left == [memory EXCEPT ![k] = NoEntry]
<2> DEFINE erased == {k} \ Named({j \in Keys : left[j] # NoEntry})
<2>1. left \in Contents /\ erased \in SUBSET Keys
  BY DEF TypeOK, Contents
<2>2. Persist(r, left, {}, erased)
  BY <1>1 DEF Invalidate
<2> HIDE DEF left, erased
<2>3. /\ memory' \in Contents /\ gone' \subseteq Keys
      /\ request' \in [Requests -> RequestRecords]
  BY <2>1, <2>2, PersistType
<2>4. UNCHANGED <<live, file, snapshot, offered, failed, up>>
  BY <1>1 DEF Invalidate
<2> QED BY <2>3, <2>4 DEF TypeOK
<1>2. CASE Clear(r)
<2>1. request' \in [Requests -> RequestRecords]
  BY <1>2, ZenonT(40) DEF Clear, TypeOK, RequestRecords
<2> QED BY <1>2, <2>1, EntryTypes DEF Clear, TypeOK
<1> QED BY <1>1, <1>2

LEMMA TypeWrite ==
    ASSUME TypeOK, NEW r \in Requests,
           OpenFile(r) \/ WriteFile(r) \/ WriteUnlinked(r) \/ SaveFails(r)
    PROVE  TypeOK'
<1>1. CASE OpenFile(r)
<2>1. request' \in [Requests -> RequestRecords]
  BY <1>1 DEF OpenFile, TypeOK, RequestRecords
<2> QED BY <1>1, <2>1, FileTypes DEF OpenFile, TypeOK
<1>2. request[r].erased \in SUBSET Keys /\ request[r].data \in Contents
  BY DEF TypeOK, RequestRecords
<1>3. CASE WriteFile(r)
<2>1. gone' \subseteq Keys /\ request' \in [Requests -> RequestRecords]
  BY <1>2, <1>3, RepliedType DEF WriteFile
<2>2. file' \in Files
  BY <1>2, <1>3, WrittenType, FileTypes DEF WriteFile
<2> QED BY <1>3, <2>1, <2>2 DEF WriteFile, TypeOK
<1>4. CASE WriteUnlinked(r)
<2>1. gone' \subseteq Keys /\ request' \in [Requests -> RequestRecords]
  BY <1>2, <1>4, RepliedType DEF WriteUnlinked
<2> QED BY <1>4, <2>1 DEF WriteUnlinked, TypeOK
<1>5. CASE SaveFails(r)
<2>1. gone' \subseteq Keys /\ request' \in [Requests -> RequestRecords]
  BY <1>5, RepliedType DEF SaveFails
<2>2. file' \in Files
  BY <1>5, FileTypes DEF SaveFails, TypeOK
<2> QED BY <1>5, <2>1, <2>2 DEF SaveFails, TypeOK
<1> QED BY <1>1, <1>3, <1>4, <1>5

LEMMA TypeUnlink ==
    ASSUME TypeOK, NEW r \in Requests, Unlink(r) \/ UnlinkFails(r)
    PROVE  TypeOK'
<1>1. CASE Unlink(r)
<2>1. ASSUME NEW q \in Requests
      PROVE  [request[q] EXCEPT !.pc = "detached"] \in RequestRecords
  BY DEF TypeOK, RequestRecords
<2>2. request' \in [Requests -> RequestRecords]
  BY <1>1, <2>1, IdleType DEF Unlink, TypeOK
<2>3. gone' \subseteq Keys
  BY <1>1 DEF Unlink, TypeOK, RequestRecords
<2> QED BY <1>1, <2>2, <2>3, FileTypes DEF Unlink, TypeOK
<1>2. CASE UnlinkFails(r)
<2>1. gone' \subseteq Keys /\ request' \in [Requests -> RequestRecords]
  BY <1>2, RepliedType DEF UnlinkFails
<2> QED BY <1>2, <2>1 DEF UnlinkFails, TypeOK
<1> QED BY <1>1, <1>2

LEMMA TypeProcess ==
    ASSUME TypeOK, Crash \/ Restart
    PROVE  TypeOK'
<1>1. CASE Crash
<2>1. request' \in [Requests -> RequestRecords]
  BY <1>1, IdleType DEF Crash
<2> QED BY <1>1, <2>1, EntryTypes DEF Crash, TypeOK
<1>2. CASE Restart
<2>1. file.content \in Contents
  BY DEF TypeOK, Files
<2> QED BY <1>2, <2>1 DEF Restart, TypeOK
<1> QED BY <1>1, <1>2

LEMMA TypeNext ==
    ASSUME TypeOK, [Next]_vars
    PROVE  TypeOK'
<1>1. CASE UNCHANGED vars
  BY <1>1 DEF vars, TypeOK
<1>2. CASE Next
  BY <1>2, TypeSnapshot, TypeCompress, TypeErase, TypeWrite, TypeUnlink, TypeProcess
     DEF Next
<1> QED BY <1>1, <1>2

\* The state of the cache, its file and its requests is always well formed.
THEOREM SpecTypeOK == Spec => []TypeOK
<1> QED BY TypeInit, TypeNext, PTL DEF Spec

-----------------------------------------------------------------------------
(* What stays erased, and what the file holds, if requests do not overlap. *)

LEMMA CleanEmpty ==
    ASSUME NEW keys
    PROVE  Clean(keys, Empty)
  BY DEF Clean, Empty

\* What is clean of keys is so in the file as well.
LEMMA CleanWritten ==
    ASSUME NEW data \in Contents, NEW content \in Written(data), NEW keys,
           Clean(keys, data)
    PROVE  /\ Clean(keys, content)
           /\ \A k \in Keys : content[k] # NoEntry => SavedAs[k] = k
<1>1. ASSUME NEW k \in Keys, content[k] # NoEntry
      PROVE  SavedAs[k] = k /\ k \notin keys
<2>1. PICK j \in Keys : SavedAs[j] = k /\ data[j] # NoEntry
  BY <1>1, WrittenType
<2>2. SavedAs[SavedAs[j]] = SavedAs[j] /\ SavedAs[j] \notin keys
  BY <2>1, KeyAssumption DEF Clean
<2> QED BY <2>1, <2>2
<1> QED BY <1>1 DEF Clean

\* A save starts: what it compressed is not gone any more, and the rest stays so.
LEMMA PersistErased ==
    ASSUME TypeOK, OneAtATime, ErasedShape, FileShape, up,
           NEW r \in Requests, NEW entries, NEW compressed, NEW erased,
           Persist(r, entries, compressed, erased),
           \A k \in Keys : entries[k] # NoEntry /\ k \notin compressed
                              => entries[k] = memory[k],
           Clean(erased, entries),
           file' = file, up' = up
    PROVE  ErasedShape' /\ FileShape' /\ FileFollowsMemory'
<1>1. \A q \in Requests : q = r
  BY DEF OneAtATime
<1>2. /\ memory' = entries /\ gone' = gone \ Named(compressed)
      /\ request'[r] = [pc |-> "saving", tools |-> NothingListed,
                        data |-> entries, erased |-> erased]
  BY DEF Persist
<1>3. Clean(gone', memory')
<2>1. ASSUME NEW k \in Keys, entries[k] # NoEntry, k \in compressed
      PROVE  k \notin gone' /\ SavedAs[k] \notin gone'
  BY <1>2, <2>1 DEF Named
<2>2. ASSUME NEW k \in Keys, entries[k] # NoEntry, k \notin compressed
      PROVE  k \notin gone' /\ SavedAs[k] \notin gone'
  BY <1>2, <2>2 DEF ErasedShape, Clean
<2> QED BY <1>2, <2>1, <2>2 DEF Clean
<1>4. Clean(gone', file.content')
  BY <1>2 DEF ErasedShape, Clean
<1>5. Clean(request'[r].erased, memory')
  BY <1>2 DEF Clean
<1>6. request'[r].pc = "saving" /\ request'[r].data = memory'
  BY <1>2
<1>7. ErasedShape'
  BY <1>1, <1>3, <1>4, <1>5, <1>6 DEF ErasedShape
<1>8. FileFollowsMemory'
  BY <1>6 DEF FileFollowsMemory
<1> QED BY <1>7, <1>8 DEF FileShape

LEMMA ErasedCompress ==
    ASSUME OneAtATime, OneAtATimeInv, NEW r \in Requests,
           CacheCompressed(r) \/ StartSampling(r) \/ FinishSampling(r)
    PROVE  ErasedShape' /\ FileShape' /\ FileFollowsMemory'
<1>0. \A q \in Requests : q = r
  BY DEF OneAtATime
<1> USE DEF OneAtATimeInv
<1>1. CASE CacheCompressed(r)
<2>1. PICK listing \in FetchResults, texts \in Compressions :
         Persist(r, Saved(texts, listing), DOMAIN texts, {})
  BY <1>1 DEF CacheCompressed
<2>2. \A k \in Keys : k \notin DOMAIN texts => Saved(texts, listing)[k] = memory[k]
  BY DEF Saved
<2>3. Clean({}, Saved(texts, listing))
  BY DEF Clean
<2>4. up /\ UNCHANGED <<file, up>>
  BY <1>1 DEF CacheCompressed
<2> QED BY <2>1, <2>2, <2>3, <2>4, PersistErased
<1>2. CASE StartSampling(r)
<2>1. /\ UNCHANGED <<memory, file, gone, failed, up>> /\ request[r].pc = "idle" /\ up
  BY <1>2 DEF StartSampling
<2>2. request'[r].pc = "sampling"
  BY <1>2 DEF StartSampling, TypeOK, RequestRecords
<2>3. ErasedShape' /\ FileShape'
  BY <1>0, <2>1, <2>2 DEF ErasedShape, FileShape
<2>4. FileFollowsMemory'
  BY <1>0, <2>1 DEF FileFollowsMemory
<2> QED BY <2>3, <2>4
<1>3. CASE FinishSampling(r)
<2> DEFINE sent == request[r].tools
<2>1. PICK done \in Accepted(sent) :
         IF done = {}
         THEN /\ request' = [request EXCEPT ![r] = Idle]
              /\ UNCHANGED <<memory, gone>>
         ELSE Persist(r, Saved([t \in done |-> sent[t]], sent), done, {})
  BY <1>3 DEF FinishSampling
<2>2. up /\ request[r].pc = "sampling" /\ UNCHANGED <<file, failed, up>>
  BY <1>3 DEF FinishSampling
<2>3. CASE done = {}
<3>1. request'[r].pc = "idle"
  BY <2>1, <2>3 DEF TypeOK, Idle
<3>2. ErasedShape' /\ FileShape'
  BY <1>0, <2>1, <2>2, <2>3, <3>1 DEF ErasedShape, FileShape
<3>3. FileFollowsMemory'
  BY <1>0, <2>1, <2>2, <2>3 DEF FileFollowsMemory
<3> QED BY <3>2, <3>3
<2>4. CASE done # {}
<3> DEFINE texts == [t \in done |-> sent[t]]
<3>1. \A k \in Keys : k \notin done => Saved(texts, sent)[k] = memory[k]
  BY DEF Saved
<3>2. Clean({}, Saved(texts, sent))
  BY DEF Clean
<3>3. Persist(r, Saved(texts, sent), done, {})
  BY <2>1, <2>4
<3> HIDE DEF texts, sent
<3> QED BY <2>2, <3>1, <3>2, <3>3, PersistErased
<2> QED BY <2>3, <2>4
<1> QED BY <1>1, <1>2, <1>3

LEMMA ErasedErase ==
    ASSUME OneAtATime, OneAtATimeInv, NEW r \in Requests,
           (\E k \in Keys : Invalidate(r, k)) \/ Clear(r)
    PROVE  ErasedShape' /\ FileShape' /\ FileFollowsMemory'
<1>0. \A q \in Requests : q = r
  BY DEF OneAtATime
<1> USE DEF OneAtATimeInv
<1>1. ASSUME NEW k \in Keys, Invalidate(r, k)
      PROVE  ErasedShape' /\ FileShape' /\ FileFollowsMemory'
<2> DEFINE left == [memory EXCEPT ![k] = NoEntry]
<2> DEFINE kept == Named({j \in Keys : left[j] # NoEntry})
<2>1. Persist(r, left, {}, {k} \ kept)
  BY <1>1 DEF Invalidate
<2>2. \A j \in Keys : left[j] # NoEntry => left[j] = memory[j]
  BY DEF TypeOK, Contents
<2>3. Clean({k} \ kept, left)
  BY DEF Clean, Named
<2>4. up /\ UNCHANGED <<file, up>>
  BY <1>1 DEF Invalidate
<2> HIDE DEF left, kept
<2> QED BY <2>1, <2>2, <2>3, <2>4, PersistErased
<1>2. CASE Clear(r)
<2>1. /\ UNCHANGED <<file, gone, failed, up>> /\ up /\ memory' = Empty
      /\ request'[r].pc = "unlinking"
  BY <1>2 DEF Clear, TypeOK, RequestRecords
<2>2. Clean(gone', memory') /\ Clean(gone', file.content')
  BY <2>1, CleanEmpty DEF ErasedShape
<2>3. ErasedShape' /\ FileShape'
  BY <1>0, <2>1, <2>2 DEF ErasedShape, FileShape
<2>4. FileFollowsMemory'
  BY <2>1 DEF FileFollowsMemory
<2> QED BY <2>3, <2>4
<1> QED BY <1>1, <1>2

LEMMA ErasedWrite ==
    ASSUME OneAtATime, OneAtATimeInv, NEW r \in Requests,
           OpenFile(r) \/ WriteFile(r) \/ WriteUnlinked(r) \/ SaveFails(r)
    PROVE  ErasedShape' /\ FileShape' /\ FileFollowsMemory'
<1>0. \A q \in Requests : q = r
  BY DEF OneAtATime
<1> USE DEF OneAtATimeInv
<1>1. CASE OpenFile(r)
<2>1. /\ UNCHANGED <<memory, gone, failed, up>> /\ request[r].pc = "saving" /\ up
      /\ file' = [state |-> "empty", content |-> Empty]
      /\ request' = [request EXCEPT ![r].pc = "writing"]
  BY <1>1 DEF OpenFile
<2>2. /\ request'[r].pc = "writing" /\ request'[r].data = request[r].data
      /\ request'[r].erased = request[r].erased
  BY <2>1 DEF TypeOK, RequestRecords
<2>3. file'.content = Empty /\ file'.state = "empty"
  BY <2>1
<2>4. Clean(gone', file.content')
  BY <2>3, CleanEmpty
<2>5. Clean(gone', memory') /\ Clean(request'[r].erased, memory')
      /\ request'[r].data = memory'
  BY <2>1, <2>2 DEF ErasedShape
<2>6. ErasedShape'
  BY <1>0, <2>1, <2>2, <2>3, <2>4, <2>5 DEF ErasedShape
<2>7. FileShape'
  BY <2>3 DEF FileShape, Empty
<2>8. FileFollowsMemory'
  BY <2>2 DEF FileFollowsMemory
<2> QED BY <2>6, <2>7, <2>8
<1>2. CASE WriteFile(r)
<2>1. /\ request[r].pc = "writing" /\ request[r].data = memory
      /\ file.state = "empty" /\ Clean(request[r].erased, memory)
  BY <1>2 DEF WriteFile, ErasedShape
<2>2. PICK content \in Written(memory) : file' = [state |-> "whole", content |-> content]
  BY <1>2, <2>1 DEF WriteFile
<2>3. /\ UNCHANGED <<memory, up>> /\ up /\ request' = [request EXCEPT ![r] = Idle]
      /\ gone' = gone \cup request[r].erased
  BY <1>2 DEF WriteFile, Replied
<2>4. request'[r].pc = "idle"
  BY <2>3 DEF TypeOK, Idle
<2>5. Clean(gone', memory)
  BY <2>1, <2>3 DEF ErasedShape, Clean
<2>6. /\ Clean(gone', content)
      /\ \A k \in Keys : content[k] # NoEntry => SavedAs[k] = k
  BY <2>5, CleanWritten DEF TypeOK
<2>7. file'.content = content
  BY <2>2
<2>8. Clean(gone', memory') /\ Clean(gone', file.content')
  BY <2>3, <2>5, <2>6, <2>7
<2>9. ErasedShape'
  BY <1>0, <2>3, <2>4, <2>8 DEF ErasedShape
<2>10. FileShape'
  BY <2>6, <2>7 DEF FileShape
<2>11. FileFollowsMemory'
  BY <2>2, <2>3, <2>7 DEF FileFollowsMemory
<2> QED BY <2>9, <2>10, <2>11
<1>3. CASE WriteUnlinked(r)
  BY <1>3 DEF WriteUnlinked, ErasedShape
<1>4. CASE SaveFails(r)
<2>1. /\ UNCHANGED <<memory, up>> /\ up /\ failed' = TRUE
      /\ request' = [request EXCEPT ![r] = Idle] /\ gone' = gone \cup {}
      /\ \/ file' = file
         \/ file' = [state |-> "cut", content |-> Empty]
  BY <1>4 DEF SaveFails, Replied
<2>2. request'[r].pc = "idle" /\ gone' = gone
  BY <2>1 DEF TypeOK, Idle
<2>3. file'.content = file.content \/ file'.content = Empty
  BY <2>1
<2>4. Clean(gone', memory') /\ Clean(gone', file.content')
  BY <2>1, <2>2, <2>3, CleanEmpty DEF ErasedShape
<2>5. ErasedShape'
  BY <1>0, <2>1, <2>2, <2>4 DEF ErasedShape
<2>6. FileShape'
  BY <2>3 DEF FileShape, Empty
<2>7. FileFollowsMemory'
  BY <2>1 DEF FileFollowsMemory
<2> QED BY <2>5, <2>6, <2>7
<1> QED BY <1>1, <1>2, <1>3, <1>4

LEMMA ErasedUnlink ==
    ASSUME OneAtATime, OneAtATimeInv, NEW r \in Requests, Unlink(r) \/ UnlinkFails(r)
    PROVE  ErasedShape' /\ FileShape' /\ FileFollowsMemory'
<1>0. \A q \in Requests : q = r
  BY DEF OneAtATime
<1> USE DEF OneAtATimeInv
<1>1. CASE Unlink(r)
<2>1. /\ UNCHANGED <<memory, up>> /\ up /\ memory = Empty
      /\ file' = [state |-> "absent", content |-> Empty]
  BY <1>1 DEF Unlink, ErasedShape
<2>2. request'[r].pc = "idle"
  BY <1>1 DEF Unlink, Idle
<2>3. file'.content = Empty
  BY <2>1
<2>4. Clean(gone', memory') /\ Clean(gone', file.content')
  BY <2>1, <2>3, CleanEmpty
<2>5. ErasedShape'
  BY <1>0, <2>1, <2>2, <2>4 DEF ErasedShape
<2>6. FileShape'
  BY <2>3 DEF FileShape, Empty
<2>7. Empty \in Written(Empty)
  BY EntryTypes, WrittenSame DEF Empty
<2>8. FileFollowsMemory'
  BY <2>1, <2>3, <2>7 DEF FileFollowsMemory
<2> QED BY <2>5, <2>6, <2>8
<1>2. CASE UnlinkFails(r)
<2>1. /\ UNCHANGED <<memory, file, up>> /\ up /\ failed' = TRUE
      /\ request' = [request EXCEPT ![r] = Idle] /\ gone' = gone
  BY <1>2 DEF UnlinkFails, Replied
<2>2. request'[r].pc = "idle"
  BY <2>1 DEF TypeOK, Idle
<2>3. ErasedShape' /\ FileShape'
  BY <1>0, <2>1, <2>2 DEF ErasedShape, FileShape
<2>4. FileFollowsMemory'
  BY <2>1 DEF FileFollowsMemory
<2> QED BY <2>3, <2>4
<1> QED BY <1>1, <1>2

LEMMA ErasedProcess ==
    ASSUME OneAtATime, OneAtATimeInv, Crash \/ Restart
    PROVE  ErasedShape' /\ FileShape' /\ FileFollowsMemory'
<1> USE DEF OneAtATimeInv
<1>1. CASE Crash
<2>1. /\ UNCHANGED <<file, gone>> /\ memory' = Empty /\ up' = FALSE
      /\ \A q \in Requests : request'[q].pc = "idle"
  BY <1>1 DEF Crash, Idle
<2>2. Clean(gone', memory') /\ Clean(gone', file.content')
  BY <2>1, CleanEmpty DEF ErasedShape
<2>3. ErasedShape' /\ FileShape'
  BY <2>1, <2>2 DEF ErasedShape, FileShape
<2>4. FileFollowsMemory'
  BY <2>1 DEF FileFollowsMemory
<2> QED BY <2>3, <2>4
<1>2. CASE Restart
<2>1. /\ UNCHANGED <<file, gone, request>> /\ memory' = file.content /\ up' = TRUE /\ ~up
  BY <1>2 DEF Restart
<2>2. \A q \in Requests : request'[q].pc = "idle"
  BY <2>1 DEF ErasedShape
<2>3. Clean(gone', memory') /\ Clean(gone', file.content')
  BY <2>1 DEF ErasedShape
<2>4. ErasedShape' /\ FileShape'
  BY <2>1, <2>2, <2>3 DEF ErasedShape, FileShape
<2>5. file.content \in Written(file.content)
  BY WrittenSame DEF FileShape, TypeOK, Files
<2>6. FileFollowsMemory'
  BY <2>1, <2>5 DEF FileFollowsMemory
<2> QED BY <2>4, <2>6
<1> QED BY <1>1, <1>2

LEMMA OneAtATimeInit ==
    ASSUME Init
    PROVE  OneAtATimeInv
<1>1. /\ memory = Empty /\ file.content = Empty /\ gone = {} /\ up
      /\ \A q \in Requests : request[q].pc = "idle"
  BY DEF Init, Idle
<1>2. ErasedShape
  BY <1>1, CleanEmpty DEF ErasedShape
<1>3. FileShape
  BY <1>1 DEF FileShape, Empty
<1>4. Empty \in Written(Empty)
  BY EntryTypes, WrittenSame DEF Empty
<1>5. FileFollowsMemory
  BY <1>1, <1>4 DEF FileFollowsMemory
<1> QED BY <1>2, <1>3, <1>5, TypeInit DEF OneAtATimeInv

LEMMA OneAtATimeNext ==
    ASSUME OneAtATime, OneAtATimeInv, [Next]_vars
    PROVE  OneAtATimeInv'
<1>1. TypeOK'
  BY TypeNext DEF OneAtATimeInv
<1>2. CASE /\ UNCHANGED <<memory, file, request, gone, failed, up>>
<2>1. ErasedShape' /\ FileShape'
  BY <1>2 DEF OneAtATimeInv, ErasedShape, FileShape
<2>2. FileFollowsMemory'
  BY <1>2 DEF OneAtATimeInv, FileFollowsMemory
<2> QED BY <1>1, <2>1, <2>2 DEF OneAtATimeInv
<1>3. CASE SnapshotExpires \/ (\E t \in Tools : Rewrite(t)) \/ GetUncompressed
             \/ UNCHANGED vars
  BY <1>2, <1>3 DEF SnapshotExpires, Rewrite, GetUncompressed, vars
<1>4. ASSUME NEW r \in Requests,
             \/ CacheCompressed(r) \/ StartSampling(r) \/ FinishSampling(r)
             \/ (\E k \in Keys : Invalidate(r, k)) \/ Clear(r)
             \/ OpenFile(r) \/ WriteFile(r) \/ WriteUnlinked(r) \/ SaveFails(r)
             \/ Unlink(r) \/ UnlinkFails(r)
      PROVE  OneAtATimeInv'
<2>1. ErasedShape' /\ FileShape' /\ FileFollowsMemory'
  BY <1>4, ErasedCompress, ErasedErase, ErasedWrite, ErasedUnlink
<2> QED BY <1>1, <2>1 DEF OneAtATimeInv
<1>5. CASE Crash \/ Restart
  BY <1>1, <1>5, ErasedProcess DEF OneAtATimeInv
<1> QED BY <1>3, <1>4, <1>5 DEF Next

\* With one request at a time, memory and file are clean of what was reported
\* as erased, and a save writes what memory holds into the file it emptied.
THEOREM SpecOneAtATimeInv == OneAtATime => (Spec => []OneAtATimeInv)
<1> SUFFICES ASSUME OneAtATime PROVE Spec => []OneAtATimeInv
  OBVIOUS
<1>1. Init => OneAtATimeInv
  BY OneAtATimeInit
<1>2. OneAtATimeInv /\ [Next]_vars => OneAtATimeInv'
  BY OneAtATimeNext
<1> QED BY <1>1, <1>2, PTL DEF Spec

\* What invalidate_tool_cache or clear_compressed_tools_cache reported as erased
\* does not come back, through no save that was under way, no failed save and
\* no restart, until it is compressed again.
THEOREM SpecGoneStaysGone == OneAtATime => (Spec => []GoneStaysGone)
<1> SUFFICES ASSUME OneAtATime PROVE Spec => []GoneStaysGone
  OBVIOUS
<1>1. OneAtATimeInv => GoneStaysGone
  BY DEF OneAtATimeInv, TypeOK, ErasedShape, Clean, GoneStaysGone
<1>2. Spec => []OneAtATimeInv
  BY SpecOneAtATimeInv
<1> QED BY <1>1, <1>2, PTL

\* Between requests the file holds what memory holds, unless the last save or
\* unlink failed: a restart starts from the same entries.
THEOREM SpecFileFollowsMemory == OneAtATime => (Spec => []FileFollowsMemory)
<1> SUFFICES ASSUME OneAtATime PROVE Spec => []FileFollowsMemory
  OBVIOUS
<1>1. OneAtATimeInv => FileFollowsMemory
  BY DEF OneAtATimeInv
<1>2. Spec => []OneAtATimeInv
  BY SpecOneAtATimeInv
<1> QED BY <1>1, <1>2, PTL

-----------------------------------------------------------------------------
(* Which texts are offered again, if the client compresses by sampling.    *)

LEMMA MadeEmpty == MadeFromOriginal(Empty)
  BY DEF MadeFromOriginal, Empty

LEMMA MadeWritten ==
    ASSUME NEW data \in Contents, NEW content \in Written(data), MadeFromOriginal(data)
    PROVE  MadeFromOriginal(content)
<1>1. ASSUME NEW k \in Keys, content[k] # NoEntry
      PROVE  content[k].compressed = content[k].original
<2>1. PICK j \in Keys : data[j] # NoEntry /\ content[k] = data[j]
  BY <1>1, WrittenType
<2> QED BY <2>1 DEF MadeFromOriginal
<1> QED BY <1>1 DEF MadeFromOriginal

\* A save starts: what it will write was made from its originals.
LEMMA PersistMade ==
    ASSUME NEW r \in Requests, NEW entries, NEW compressed, NEW erased,
           Persist(r, entries, compressed, erased), MadeFromOriginal(entries),
           SampledInv
    PROVE  /\ MadeFromOriginal(memory')
           /\ \A q \in Requests : MadeFromOriginal(request'[q].data)
<1>1. memory' = entries /\ request'[r].data = entries
  BY DEF Persist
<1>2. \A q \in Requests \ {r} : request'[q].data = request[q].data
  BY DEF Persist, SampledInv, TypeOK, RequestRecords
<1>3. ASSUME NEW q \in Requests
      PROVE  MadeFromOriginal(request'[q].data)
<2>1. CASE q = r
  BY <1>1, <2>1 DEF MadeFromOriginal
<2>2. CASE q # r
  BY <1>2, <2>2 DEF SampledInv, MadeFromOriginal
<2> QED BY <2>1, <2>2
<1> QED BY <1>1, <1>3 DEF MadeFromOriginal

\* The host's answers are recorded with what was sent to it.
LEMMA MadeSampled ==
    ASSUME ~Manual, SampledInv, NEW r \in Requests,
           CacheCompressed(r) \/ StartSampling(r) \/ FinishSampling(r)
    PROVE  /\ MadeFromOriginal(memory') /\ MadeFromOriginal(file'.content)
           /\ \A q \in Requests : MadeFromOriginal(request'[q].data)
<1>1. CASE CacheCompressed(r)
  BY <1>1 DEF CacheCompressed
<1>2. CASE StartSampling(r)
<2>1. UNCHANGED <<memory, file>>
  BY <1>2 DEF StartSampling
<2>2. \A q \in Requests : request'[q].data = request[q].data
<3>1. PICK sent :
         request' = [request EXCEPT ![r].pc = "sampling", ![r].tools = sent]
  BY <1>2 DEF StartSampling
<3> QED BY <3>1 DEF SampledInv, TypeOK, RequestRecords
<2> QED BY <2>1, <2>2 DEF SampledInv
<1>3. CASE FinishSampling(r)
<2> DEFINE sent == request[r].tools
<2>1. PICK done \in Accepted(sent) :
         IF done = {}
         THEN /\ request' = [request EXCEPT ![r] = Idle]
              /\ UNCHANGED <<memory, gone>>
         ELSE Persist(r, Saved([t \in done |-> sent[t]], sent), done, {})
  BY <1>3 DEF FinishSampling
<2>2. file' = file
  BY <1>3 DEF FinishSampling
<2>3. CASE done = {}
<3>1. \A q \in Requests : request'[q].data \in {request[q].data, Empty}
  BY <2>1, <2>3 DEF SampledInv, TypeOK, Idle
<3>2. \A q \in Requests : MadeFromOriginal(request'[q].data)
  BY <3>1, MadeEmpty DEF SampledInv
<3> QED BY <2>1, <2>2, <2>3, <3>2 DEF SampledInv
<2>4. CASE done # {}
<3> DEFINE texts == [t \in done |-> sent[t]]
<3>1. \A t \in done : OriginalIn(sent, t) = sent[t]
  BY DEF Accepted, OriginalIn
<3>2. ASSUME NEW k \in Keys, Saved(texts, sent)[k] # NoEntry
      PROVE  Saved(texts, sent)[k].compressed = Saved(texts, sent)[k].original
<4>1. CASE k \in done
  BY <3>1, <4>1 DEF Saved
<4>2. CASE k \notin done
  BY <3>2, <4>2 DEF Saved, SampledInv, MadeFromOriginal
<4> QED BY <4>1, <4>2
<3>3. MadeFromOriginal(Saved(texts, sent))
  BY <3>2 DEF MadeFromOriginal
<3>4. Persist(r, Saved(texts, sent), done, {})
  BY <2>1, <2>4
<3> HIDE DEF texts, sent
<3> QED BY <2>2, <3>3, <3>4, PersistMade DEF SampledInv
<2> QED BY <2>3, <2>4
<1> QED BY <1>1, <1>2, <1>3

LEMMA MadeErased ==
    ASSUME SampledInv, NEW r \in Requests,
           (\E k \in Keys : Invalidate(r, k)) \/ Clear(r)
    PROVE  /\ MadeFromOriginal(memory') /\ MadeFromOriginal(file'.content)
           /\ \A q \in Requests : MadeFromOriginal(request'[q].data)
<1>1. ASSUME NEW k \in Keys, Invalidate(r, k)
      PROVE  /\ MadeFromOriginal(memory') /\ MadeFromOriginal(file'.content)
             /\ \A q \in Requests : MadeFromOriginal(request'[q].data)
<2> DEFINE left == [memory EXCEPT ![k] = NoEntry]
<2> DEFINE erased == {k} \ Named({j \in Keys : left[j] # NoEntry})
<2>1. MadeFromOriginal(left)
  BY DEF SampledInv, TypeOK, Contents, MadeFromOriginal
<2>2. Persist(r, left, {}, erased) /\ file' = file
  BY <1>1 DEF Invalidate
<2> HIDE DEF left, erased
<2> QED BY <2>1, <2>2, PersistMade DEF SampledInv
<1>2. CASE Clear(r)
<2>1. memory' = Empty /\ file' = file
  BY <1>2 DEF Clear
<2>2. \A q \in Requests : request'[q].data = request[q].data
  BY <1>2 DEF Clear, SampledInv, TypeOK, RequestRecords
<2> QED BY <2>1, <2>2, MadeEmpty DEF SampledInv
<1> QED BY <1>1, <1>2

LEMMA MadeOnFile ==
    ASSUME SampledInv, NEW r \in Requests,
           \/ OpenFile(r) \/ WriteFile(r) \/ WriteUnlinked(r) \/ SaveFails(r)
           \/ Unlink(r) \/ UnlinkFails(r)
    PROVE  /\ MadeFromOriginal(memory') /\ MadeFromOriginal(file'.content)
           /\ \A q \in Requests : MadeFromOriginal(request'[q].data)
<1>1. memory' = memory
  BY DEF OpenFile, WriteFile, WriteUnlinked, SaveFails, Unlink, UnlinkFails
<1>2. \A q \in Requests : request'[q].data \in {request[q].data, Empty}
<2>1. CASE OpenFile(r)
  BY <2>1 DEF OpenFile, SampledInv, TypeOK, RequestRecords
<2>2. CASE Unlink(r)
  BY <2>2 DEF Unlink, Idle, SampledInv, TypeOK, RequestRecords
<2>3. CASE WriteFile(r) \/ WriteUnlinked(r) \/ SaveFails(r) \/ UnlinkFails(r)
<3>1. request' = [request EXCEPT ![r] = Idle]
  BY <2>3 DEF WriteFile, WriteUnlinked, SaveFails, UnlinkFails, Replied
<3> QED BY <3>1 DEF Idle, SampledInv, TypeOK
<2> QED BY <2>1, <2>2, <2>3
<1>3. MadeFromOriginal(file'.content)
<2>1. CASE WriteFile(r)
<3>1. PICK content \in Written(request[r].data) :
         \/ file' = [state |-> "whole", content |-> content]
         \/ file' = [state |-> "cut", content |-> Empty]
  BY <2>1 DEF WriteFile
<3>2. MadeFromOriginal(content)
  BY MadeWritten DEF SampledInv, TypeOK, RequestRecords
<3>3. file'.content \in {content, Empty}
  BY <3>1
<3> QED BY <3>2, <3>3, MadeEmpty
<2>2. CASE OpenFile(r) \/ WriteUnlinked(r) \/ SaveFails(r) \/ Unlink(r) \/ UnlinkFails(r)
<3>1. file'.content \in {file.content, Empty}
  BY <2>2 DEF OpenFile, WriteUnlinked, SaveFails, Unlink, UnlinkFails
<3> QED BY <3>1, MadeEmpty DEF SampledInv
<2> QED BY <2>1, <2>2
<1>4. \A q \in Requests : MadeFromOriginal(request'[q].data)
  BY <1>2, MadeEmpty DEF SampledInv
<1> QED BY <1>1, <1>3, <1>4 DEF SampledInv

LEMMA SampledInit ==
    ASSUME Init
    PROVE  SampledInv
<1>1. memory = Empty /\ file.content = Empty /\ \A r \in Requests : request[r].data = Empty
  BY DEF Init, Idle
<1> QED BY <1>1, MadeEmpty, TypeInit DEF SampledInv

LEMMA SampledNext ==
    ASSUME ~Manual, SampledInv, [Next]_vars
    PROVE  SampledInv'
<1>1. TypeOK'
  BY TypeNext DEF SampledInv
<1>2. CASE UNCHANGED <<memory, file, request>>
  BY <1>1, <1>2 DEF SampledInv
<1>3. CASE SnapshotExpires \/ (\E t \in Tools : Rewrite(t)) \/ GetUncompressed
             \/ UNCHANGED vars
  BY <1>2, <1>3 DEF SnapshotExpires, Rewrite, GetUncompressed, vars
<1>4. ASSUME NEW r \in Requests,
             \/ CacheCompressed(r) \/ StartSampling(r) \/ FinishSampling(r)
             \/ (\E k \in Keys : Invalidate(r, k)) \/ Clear(r)
             \/ OpenFile(r) \/ WriteFile(r) \/ WriteUnlinked(r) \/ SaveFails(r)
             \/ Unlink(r) \/ UnlinkFails(r)
      PROVE  SampledInv'
<2>1. /\ MadeFromOriginal(memory') /\ MadeFromOriginal(file'.content)
      /\ \A q \in Requests : MadeFromOriginal(request'[q].data)
  BY <1>4, MadeSampled, MadeErased, MadeOnFile
<2> QED BY <1>1, <2>1 DEF SampledInv, MadeFromOriginal
<1>5. CASE Crash
<2>1. memory' = Empty /\ file' = file /\ \A q \in Requests : request'[q].data = Empty
  BY <1>5 DEF Crash, Idle
<2> QED BY <1>1, <2>1, MadeEmpty DEF SampledInv
<1>6. CASE Restart
<2>1. memory' = file.content /\ UNCHANGED <<file, request>>
  BY <1>6 DEF Restart
<2> QED BY <1>1, <2>1 DEF SampledInv
<1> QED BY <1>3, <1>4, <1>5, <1>6 DEF Next

\* Of a client that compresses by sampling, every text in memory, in the file
\* and on its way there was made from the original it is stored with, however
\* requests overlap and whenever the process dies.
THEOREM SpecSampledInv == ~Manual => (Spec => []SampledInv)
<1> SUFFICES ASSUME ~Manual PROVE Spec => []SampledInv
  OBVIOUS
<1>1. Init => SampledInv
  BY SampledInit
<1>2. SampledInv /\ [Next]_vars => SampledInv'
  BY SampledNext
<1> QED BY <1>1, <1>2, PTL DEF Spec

LEMMA SampledOffers ==
    ASSUME SampledInv
    PROVE  StaleIsOffered
<1> SUFFICES ASSUME NEW t \in Tools,
                    memory[t] # NoEntry,
                    {memory[t].compressed, memory[t].original, live[t]}
                        \subseteq Descs,
                    memory[t].compressed # live[t]
             PROVE  NeedsCompression(t, live[t])
  BY DEF StaleIsOffered
<1>1. memory[t].compressed = memory[t].original
  BY KeyAssumption DEF SampledInv, MadeFromOriginal
<1>2. NoDesc \notin Descs /\ Blank \notin Descs
  BY DescAssumption
<1> QED BY <1>1, <1>2 DEF NeedsCompression, IsStale, HasCompressed

\* A description that a backend rewrote, also while the host compressed the old
\* one, is offered for compression again (to a client that does not post texts
\* of its own: those can be recorded with an original they were not made from).
THEOREM SpecStaleIsOffered == ~Manual => (Spec => []StaleIsOffered)
<1> SUFFICES ASSUME ~Manual PROVE Spec => []StaleIsOffered
  OBVIOUS
<1>1. SampledInv => StaleIsOffered
  BY SampledOffers
<1>2. Spec => []SampledInv
  BY SpecSampledInv
<1> QED BY <1>1, <1>2, PTL

-----------------------------------------------------------------------------
(* The sessions.                                                           *)

\* SessionsInv without the cache.
SessionsPart ==
    /\ sessions \in [SessionIds -> SessionRecords]
    /\ \A i \in SessionIds : sessions[i].alive \/ sessions[i] = NoSuchSession
    /\ current \in SessionIds \cup {NoSession}
    /\ unlisted \in [SessionIds -> Periods]
    /\ UseShape
    /\ LostOnlyUnused

LEMMA SessionRecordTypes ==
    /\ Timeout = 1 /\ Periods = 0 .. 2 /\ 0 \in Periods
    /\ NoSuchSession \in SessionRecords /\ ~NoSuchSession.alive
    /\ [NoSuchSession EXCEPT !.alive = TRUE] \in SessionRecords
    /\ [NoSuchSession EXCEPT !.alive = TRUE].alive
    /\ [NoSuchSession EXCEPT !.alive = TRUE].idle = 0
    /\ \A n \in Periods : Later(n) \in Periods /\ n <= Later(n)
    /\ \A m, n \in Periods : m <= n => Later(m) <= Later(n)
<1>1. Timeout = 1 /\ Periods = 0 .. 2
  BY DEF Timeout, Periods
<1>2. 0 \in Periods
  BY <1>1
<1>3. PICK w : w = NoSuchSession
  OBVIOUS
<1>4. NoSuchSession \in SessionRecords /\ NoSuchSession.alive = FALSE
      /\ NoSuchSession.idle = 0
  BY <1>2 DEF NoSuchSession, SessionRecords
<1>5. /\ [NoSuchSession EXCEPT !.alive = TRUE] \in SessionRecords
      /\ [NoSuchSession EXCEPT !.alive = TRUE].alive
      /\ [NoSuchSession EXCEPT !.alive = TRUE].idle = 0
<2>1. ASSUME NEW s \in SessionRecords
      PROVE  /\ [s EXCEPT !.alive = TRUE] \in SessionRecords
             /\ [s EXCEPT !.alive = TRUE].alive
             /\ [s EXCEPT !.alive = TRUE].idle = s.idle
  BY DEF SessionRecords
<2> QED BY <1>4, <2>1
<1>6. \A n \in Periods : Later(n) \in Periods /\ n <= Later(n)
  BY <1>1 DEF Later
<1>7. \A m, n \in Periods : m <= n => Later(m) <= Later(n)
  BY <1>1 DEF Later
<1> QED BY <1>1, <1>2, <1>4, <1>5, <1>6, <1>7

\* A session was used or left alone: nothing is lost.
LEMMA UsedOrKept ==
    ASSUME SessionsPart, NEW c \in SessionIds,
           NEW s \in SessionRecords, s.alive = sessions[c].alive,
           s.idle = 0 \/ s.idle = sessions[c].idle,
           ~s.alive => s = sessions[c],
           sessions' = [sessions EXCEPT ![c] = s],
           current' = current, unlisted' = unlisted
    PROVE  SessionsPart'
<1>1. sessions' \in [SessionIds -> SessionRecords]
  BY DEF SessionsPart
<1>2. ASSUME NEW i \in SessionIds
      PROVE  /\ sessions'[i].alive = sessions[i].alive
             /\ sessions'[i].alive \/ sessions'[i] = NoSuchSession
             /\ sessions'[i].idle = 0 \/ sessions'[i].idle = sessions[i].idle
<2>1. CASE i = c
  BY <2>1 DEF SessionsPart
<2>2. CASE i # c
  BY <2>2 DEF SessionsPart
<2> QED BY <2>1, <2>2
<1>3. UseShape'
<2>1. \A i \in SessionIds : unlisted[i] \in Nat
  BY SessionRecordTypes DEF SessionsPart
<2> QED BY <1>2, <2>1 DEF SessionsPart, UseShape
<1>4. LostOnlyUnused'
<2>1. Timeout' = Timeout
  BY DEF Timeout
<2> QED BY <1>2, <2>1 DEF SessionsPart, LostOnlyUnused
<1> QED BY <1>1, <1>2, <1>3, <1>4 DEF SessionsPart

LEMMA ExpandedUse ==
    ASSUME SessionsPart, SessionsTypeOK, NEW k \in Keys,
           ExpandTool(k) \/ CollapseTool(k)
    PROVE  SessionsPart'
<1> DEFINE c == current
<1>1. c \in SessionIds /\ UNCHANGED <<current, unlisted>>
  BY DEF ExpandTool, CollapseTool, SessionsPart
<1>2. sessions[c] \in SessionRecords
  BY <1>1 DEF SessionsPart
<1> DEFINE more == [sessions[c] EXCEPT !.idle = 0, !.expanded = @ \cup {k}]
<1> DEFINE less == [sessions[c] EXCEPT !.idle = 0, !.expanded = @ \ {k}]
<1>3. \A s \in {more, less} :
         /\ s \in SessionRecords /\ s.alive = sessions[c].alive /\ s.idle = 0
<2>1. 0 \in Periods
  BY SessionRecordTypes
<2>2. more \in SessionRecords /\ more.alive = sessions[c].alive /\ more.idle = 0
  BY <1>2, <2>1 DEF SessionRecords
<2>3. less \in SessionRecords /\ less.alive = sessions[c].alive /\ less.idle = 0
  BY <1>2, <2>1 DEF SessionRecords
<2> QED BY <2>2, <2>3
<1>4. \/ sessions' = [sessions EXCEPT ![c] = sessions[c]]
      \/ sessions[c].alive /\ sessions' = [sessions EXCEPT ![c] = more]
      \/ sessions[c].expanded # {} /\ sessions' = [sessions EXCEPT ![c] = less]
<2>1. sessions = [sessions EXCEPT ![c] = sessions[c]]
  BY DEF SessionsPart
<2>2. [Touched(c) EXCEPT ![c].expanded = @ \cup {k}] = [sessions EXCEPT ![c] = more]
  BY <1>1, <1>2 DEF Touched, SessionsPart, SessionRecords
<2>3. [Touched(c) EXCEPT ![c].expanded = @ \ {k}] = [sessions EXCEPT ![c] = less]
  BY <1>1, <1>2 DEF Touched, SessionsPart, SessionRecords
<2>4. CASE ExpandTool(k)
<3>1. Expand(c, k)
  BY <2>4 DEF ExpandTool
<3> HIDE DEF c, more, less
<3> QED BY <2>1, <2>2, <3>1 DEF Expand
<2>5. CASE CollapseTool(k)
<3>1. Collapse(c, k)
  BY <2>5 DEF CollapseTool
<3> HIDE DEF c, more, less
<3> QED BY <2>1, <2>3, <3>1 DEF Collapse
<2> QED BY <2>4, <2>5
<1>5. sessions[c].expanded # {} => sessions[c].alive
  BY <1>1 DEF SessionsPart, NoSuchSession
<1>6. PICK s \in SessionRecords :
         /\ sessions' = [sessions EXCEPT ![c] = s] /\ s.alive = sessions[c].alive
         /\ s.idle = 0 \/ s.idle = sessions[c].idle
         /\ ~s.alive => s = sessions[c]
<2> HIDE DEF more, less, c
<2> QED BY <1>2, <1>3, <1>4, <1>5
<1> HIDE DEF c
<1> QED BY <1>1, <1>6, UsedOrKept

LEMMA ListedUse ==
    ASSUME SessionsPart, ListTools
    PROVE  SessionsPart'
<1> DEFINE c == current
<1>1. PICK listing \in FetchResults :
         /\ ReadTools(listing)
         /\ unlisted' = IF c # NoSession /\ sessions[c].alive
                           /\ \E t \in Tools : listing[t] # Missing
                        THEN [unlisted EXCEPT ![c] = 0] ELSE unlisted
  BY DEF ListTools
<1>2. current' = current
  BY DEF ListTools
<1>3. CASE /\ \E t \in Tools : listing[t] # Missing
           /\ c # NoSession /\ sessions[c].alive
<2>1. c \in SessionIds
  BY <1>3 DEF SessionsPart
<2> DEFINE s == [sessions[c] EXCEPT !.idle = 0]
<2>2. s \in SessionRecords /\ s.alive = sessions[c].alive /\ s.idle = 0
  BY <2>1, SessionRecordTypes DEF SessionsPart, SessionRecords
<2>3. sessions' = [sessions EXCEPT ![c] = s]
  BY <1>1, <1>3, <2>1 DEF ReadTools, Touched, SessionsPart
<2>4. unlisted' = [unlisted EXCEPT ![c] = 0]
  BY <1>1, <1>3
<2> HIDE DEF s
<2>5. /\ sessions' \in [SessionIds -> SessionRecords]
      /\ unlisted' \in [SessionIds -> Periods]
      /\ \A i \in SessionIds : sessions'[i].alive \/ sessions'[i] = NoSuchSession
<3>1. 0 \in Periods
  BY SessionRecordTypes
<3> QED BY <1>3, <2>1, <2>2, <2>3, <2>4, <3>1 DEF SessionsPart
<2>6. UseShape'
<3>1. ASSUME NEW i \in SessionIds, sessions'[i].alive
      PROVE  sessions'[i].idle <= unlisted'[i]
<4>1. CASE i = c
<5>1. sessions'[i].idle = 0 /\ unlisted'[i] = 0
  BY <2>2, <2>3, <2>4, <4>1 DEF SessionsPart
<5> QED BY <5>1
<4>2. CASE i # c
<5>1. sessions'[i] = sessions[i] /\ unlisted'[i] = unlisted[i]
  BY <2>1, <2>3, <2>4, <4>2 DEF SessionsPart
<5> QED BY <3>1, <5>1 DEF SessionsPart, UseShape
<4> QED BY <4>1, <4>2
<3> QED BY <3>1 DEF UseShape
<2>7. LostOnlyUnused'
  BY <1>2, <1>3, <2>1, <2>2, <2>3 DEF SessionsPart, LostOnlyUnused
<2> QED BY <1>2, <2>5, <2>6, <2>7 DEF SessionsPart
<1>4. CASE ~(/\ \E t \in Tools : listing[t] # Missing
             /\ c # NoSession /\ sessions[c].alive)
<2>1. UNCHANGED sessionVars
  BY <1>1, <1>2, <1>4 DEF ReadTools, sessionVars
<2> QED BY <2>1 DEF sessionVars, SessionsPart, UseShape, LostOnlyUnused, Timeout
<1> QED BY <1>3, <1>4

LEMMA ManagedSessions ==
    ASSUME SessionsPart,
           CreateSession \/ (\E i \in SessionIds : DeleteSession(i) \/ SetSession(i))
    PROVE  SessionsPart'
<1>1. CASE CreateSession
<2> DEFINE s == [NoSuchSession EXCEPT !.alive = TRUE]
<2>1. PICK i \in SessionIds \ {current} :
         /\ sessions' = [sessions EXCEPT ![i] = s]
         /\ unlisted' = [unlisted EXCEPT ![i] = 0]
         /\ current' = i
  BY <1>1 DEF CreateSession
<2>2. s \in SessionRecords /\ s.alive /\ s.idle = 0
  BY SessionRecordTypes
<2> HIDE DEF s
<2>3. /\ sessions' \in [SessionIds -> SessionRecords]
      /\ unlisted' \in [SessionIds -> Periods]
      /\ \A j \in SessionIds : sessions'[j].alive \/ sessions'[j] = NoSuchSession
      /\ sessions'[i].alive
  BY <2>1, <2>2, SessionRecordTypes DEF SessionsPart
<2>4. UseShape'
<3>1. ASSUME NEW j \in SessionIds, sessions'[j].alive
      PROVE  sessions'[j].idle <= unlisted'[j]
<4>1. CASE j = i
<5>1. sessions'[j].idle = 0 /\ unlisted'[j] = 0
  BY <2>1, <2>2, <4>1 DEF SessionsPart
<5> QED BY <5>1
<4>2. CASE j # i
<5>1. sessions'[j] = sessions[j] /\ unlisted'[j] = unlisted[j]
  BY <2>1, <4>2 DEF SessionsPart
<5> QED BY <3>1, <5>1 DEF SessionsPart, UseShape
<4> QED BY <4>1, <4>2
<3> QED BY <3>1 DEF UseShape
<2>5. LostOnlyUnused'
  BY <2>1, <2>3 DEF LostOnlyUnused
<2> QED BY <2>1, <2>3, <2>4, <2>5 DEF SessionsPart
<1>2. ASSUME NEW i \in SessionIds, DeleteSession(i)
      PROVE  SessionsPart'
<2>1. /\ sessions' = [sessions EXCEPT ![i] = NoSuchSession]
      /\ current' = IF current = i THEN NoSession ELSE current
      /\ unlisted' = unlisted
  BY <1>2 DEF DeleteSession
<2>2. /\ sessions' \in [SessionIds -> SessionRecords]
      /\ current' \in SessionIds \cup {NoSession}
      /\ \A j \in SessionIds : sessions'[j].alive \/ sessions'[j] = NoSuchSession
  BY <2>1, SessionRecordTypes DEF SessionsPart
<2>3. \A j \in SessionIds : sessions'[j].alive => sessions'[j] = sessions[j]
  BY <2>1, SessionRecordTypes DEF SessionsPart
<2>4. UseShape'
  BY <2>1, <2>3 DEF SessionsPart, UseShape
<2>5. LostOnlyUnused'
<3>1. current' # NoSession => current' = current /\ sessions'[current] = sessions[current]
  BY <2>1 DEF SessionsPart
<3> QED BY <2>1, <3>1 DEF SessionsPart, LostOnlyUnused, Timeout
<2> QED BY <2>1, <2>2, <2>4, <2>5 DEF SessionsPart
<1>3. ASSUME NEW i \in SessionIds, SetSession(i)
      PROVE  SessionsPart'
<2>1. UNCHANGED <<sessions, unlisted>> /\ current' = i /\ sessions[i].alive
  BY <1>3 DEF SetSession
<2> QED BY <2>1 DEF SessionsPart, UseShape, LostOnlyUnused
<1> QED BY <1>1, <1>2, <1>3

LEMMA TimedSessions ==
    ASSUME SessionsPart, Tick \/ Cleanup
    PROVE  SessionsPart'
<1>1. CASE Tick
<2>1. /\ sessions' = [i \in SessionIds |->
            IF sessions[i].alive THEN [sessions[i] EXCEPT !.idle = Later(@)]
            ELSE sessions[i]]
      /\ unlisted' = [i \in SessionIds |->
            IF sessions[i].alive THEN Later(unlisted[i]) ELSE unlisted[i]]
      /\ current' = current
  BY <1>1 DEF Tick
<2>2. ASSUME NEW i \in SessionIds
      PROVE  /\ sessions'[i] \in SessionRecords /\ unlisted'[i] \in Periods
             /\ sessions'[i].alive = sessions[i].alive
             /\ sessions'[i].alive \/ sessions'[i] = NoSuchSession
             /\ sessions'[i].alive => sessions'[i].idle <= unlisted'[i]
             /\ ~sessions'[i].alive => unlisted'[i] = unlisted[i]
<3>1. sessions[i] \in SessionRecords /\ sessions[i].idle \in Periods
      /\ unlisted[i] \in Periods
  BY DEF SessionsPart, SessionRecords
<3>2. CASE sessions[i].alive
<4> DEFINE s == [sessions[i] EXCEPT !.idle = Later(@)]
<4>1. s \in SessionRecords /\ s.alive = sessions[i].alive /\ s.idle = Later(sessions[i].idle)
  BY <3>1, SessionRecordTypes DEF SessionRecords
<4>2. sessions'[i] = s /\ unlisted'[i] = Later(unlisted[i])
  BY <2>1, <3>2
<4>3. Later(sessions[i].idle) <= Later(unlisted[i])
  BY <3>1, <3>2, SessionRecordTypes DEF SessionsPart, UseShape
<4> HIDE DEF s
<4> QED BY <3>1, <3>2, <4>1, <4>2, <4>3, SessionRecordTypes
<3>3. CASE ~sessions[i].alive
  BY <2>1, <3>1, <3>3 DEF SessionsPart
<3> QED BY <3>2, <3>3
<2>3. sessions' \in [SessionIds -> SessionRecords] /\ unlisted' \in [SessionIds -> Periods]
  BY <2>1, <2>2
<2>4. LostOnlyUnused'
  BY <2>1, <2>2 DEF SessionsPart, LostOnlyUnused, Timeout
<2> QED BY <2>1, <2>2, <2>3, <2>4 DEF SessionsPart, UseShape
<1>2. CASE Cleanup
<2>1. /\ sessions' = [i \in SessionIds |->
            IF Expired(sessions[i]) THEN NoSuchSession ELSE sessions[i]]
      /\ UNCHANGED <<current, unlisted>>
  BY <1>2 DEF Cleanup
<2>2. ASSUME NEW i \in SessionIds
      PROVE  /\ sessions'[i] \in SessionRecords
             /\ sessions'[i].alive \/ sessions'[i] = NoSuchSession
             /\ sessions'[i].alive => sessions'[i] = sessions[i]
             /\ sessions[i].alive /\ ~sessions'[i].alive => unlisted[i] > Timeout
<3>1. CASE Expired(sessions[i])
<4>1. sessions[i].alive /\ sessions[i].idle > Timeout /\ sessions[i].idle <= unlisted[i]
  BY <3>1 DEF Expired, SessionsPart, UseShape
<4>2. sessions[i].idle \in 0 .. 2 /\ unlisted[i] \in 0 .. 2 /\ Timeout = 1
  BY SessionRecordTypes DEF SessionsPart, SessionRecords
<4>3. unlisted[i] > Timeout
  BY <4>1, <4>2
<4>4. sessions'[i] = NoSuchSession
  BY <2>1, <3>1
<4> QED BY <4>3, <4>4, SessionRecordTypes
<3>2. CASE ~Expired(sessions[i])
  BY <2>1, <3>2 DEF SessionsPart
<3> QED BY <3>1, <3>2
<2>3. sessions' \in [SessionIds -> SessionRecords]
  BY <2>1, <2>2
<2>4. UseShape'
  BY <2>1, <2>2 DEF SessionsPart, UseShape
<2>5. LostOnlyUnused'
  BY <2>1, <2>2 DEF SessionsPart, LostOnlyUnused, Timeout
<2> QED BY <2>1, <2>2, <2>3, <2>4, <2>5 DEF SessionsPart
<1> QED BY <1>1, <1>2

LEMMA RestartedSessions ==
    ASSUME Restarted
    PROVE  SessionsPart'
<1>1. /\ \A i \in SessionIds : sessions'[i] = NoSuchSession /\ unlisted'[i] = 0
      /\ sessions' \in [SessionIds -> SessionRecords]
      /\ unlisted' \in [SessionIds -> Periods]
      /\ current' = NoSession
  BY SessionRecordTypes DEF Restarted
<1> QED BY <1>1, SessionRecordTypes DEF SessionsPart, UseShape, LostOnlyUnused

LEMMA SessionsInitInv ==
    ASSUME SessionsInit
    PROVE  SessionsInv
<1>1. /\ \A i \in SessionIds : sessions[i] = NoSuchSession /\ unlisted[i] = 0
      /\ sessions \in [SessionIds -> SessionRecords]
      /\ unlisted \in [SessionIds -> Periods]
      /\ current = NoSession
  BY SessionRecordTypes DEF SessionsInit
<1>2. TypeOK
  BY TypeInit DEF SessionsInit
<1> QED BY <1>1, <1>2, SessionRecordTypes
        DEF SessionsInv, SessionsTypeOK, UseShape, LostOnlyUnused

LEMMA SessionsNextInv ==
    ASSUME SessionsInv, [SessionsNext]_allVars
    PROVE  SessionsInv'
<1>1. SessionsPart /\ TypeOK /\ SessionsTypeOK
  BY DEF SessionsInv, SessionsTypeOK, SessionsPart
<1>2. TypeOK'
<2>1. CASE CacheStep \/ UNCHANGED vars
  BY <1>1, <2>1, TypeNext DEF CacheStep
<2>2. CASE ListTools
<3>1. snapshot' \in Listings
  BY <1>1, <2>2, FetchType DEF ListTools
<3> QED BY <1>1, <2>2, <3>1 DEF ListTools, TypeOK
<2>3. \/ CacheStep \/ ListTools \/ UNCHANGED vars
  BY DEF SessionsNext, CreateSession, DeleteSession, SetSession, ExpandTool,
         CollapseTool, Tick, Cleanup, allVars
<2> QED BY <2>1, <2>2, <2>3
<1>3. SessionsPart'
<2>1. CASE UNCHANGED sessionVars
  BY <1>1, <2>1 DEF sessionVars, SessionsPart, UseShape, LostOnlyUnused, Timeout
<2>2. CASE CacheStep
  BY <2>1, <2>2, RestartedSessions DEF CacheStep
<2>3. CASE UNCHANGED allVars
  BY <2>1, <2>3 DEF allVars
<2>4. CASE SessionsNext
  BY <1>1, <2>2, <2>4, ManagedSessions, ExpandedUse, ListedUse, TimedSessions
     DEF SessionsNext
<2> QED BY <2>3, <2>4
<1> QED BY <1>2, <1>3 DEF SessionsInv, SessionsTypeOK, SessionsPart

\* Listing a tool uses the session it is listed in; only a session that was not
\* used may be lost.
THEOREM SpecSessionsInv == SessionsSpec => []SessionsInv
<1>1. SessionsInit => SessionsInv
  BY SessionsInitInv
<1>2. SessionsInv /\ [SessionsNext]_allVars => SessionsInv'
  BY SessionsNextInv
<1> QED BY <1>1, <1>2, PTL DEF SessionsSpec

\* The sessions are well formed, and nothing is kept of one that is gone.
THEOREM SpecSessionsTypeOK == SessionsSpec => []SessionsTypeOK
<1>1. SessionsInv => SessionsTypeOK
  BY DEF SessionsInv
<1> QED BY <1>1, SpecSessionsInv, PTL

\* The session the entry point works in is lost to the sweep only if no backend
\* tool was listed in it for 30 minutes, whatever was created, deleted, selected
\* and swept meanwhile.
THEOREM SpecLostOnlyUnused == SessionsSpec => []LostOnlyUnused
<1>1. SessionsInv => LostOnlyUnused
  BY DEF SessionsInv
<1> QED BY <1>1, SpecSessionsInv, PTL

-----------------------------------------------------------------------------
(* The cache under the sessions: tools/list and time disturb none of it.   *)

LEMMA CacheUnderSessions ==
    ASSUME TypeOK, [SessionsNext]_allVars
    PROVE  /\ TypeOK'
           /\ [Next]_vars \/ UNCHANGED <<live, memory, file, request, gone, failed, up>>
<1>1. CASE CacheStep \/ UNCHANGED vars
<2>1. [Next]_vars
  BY <1>1 DEF CacheStep
<2> QED BY <2>1, TypeNext
<1>2. CASE ListTools
<2>1. snapshot' \in Listings
  BY <1>2, FetchType DEF ListTools
<2> QED BY <1>2, <2>1 DEF ListTools, TypeOK
<1>3. \/ CacheStep \/ ListTools \/ UNCHANGED vars
  BY DEF SessionsNext, CreateSession, DeleteSession, SetSession, ExpandTool,
         CollapseTool, Tick, Cleanup, allVars
<1> QED BY <1>1, <1>2, <1>3

\* Also while sessions come and go and tools are listed, what was reported as
\* erased does not come back.
THEOREM SessionsGoneStaysGone == OneAtATime => (SessionsSpec => []GoneStaysGone)
<1> SUFFICES ASSUME OneAtATime PROVE SessionsSpec => []GoneStaysGone
  OBVIOUS
<1>1. SessionsInit => OneAtATimeInv
  BY OneAtATimeInit DEF SessionsInit
<1>2. OneAtATimeInv /\ [SessionsNext]_allVars => OneAtATimeInv'
<2> SUFFICES ASSUME OneAtATimeInv, [SessionsNext]_allVars PROVE OneAtATimeInv'
  OBVIOUS
<2>1. CASE [Next]_vars
  BY <2>1, OneAtATimeNext
<2>2. CASE TypeOK' /\ UNCHANGED <<live, memory, file, request, gone, failed, up>>
<3>1. ErasedShape' /\ FileShape'
  BY <2>2 DEF OneAtATimeInv, ErasedShape, FileShape
<3>2. FileFollowsMemory'
  BY <2>2 DEF OneAtATimeInv, FileFollowsMemory
<3> QED BY <2>2, <3>1, <3>2 DEF OneAtATimeInv
<2> QED BY <2>1, <2>2, CacheUnderSessions DEF OneAtATimeInv
<1>3. OneAtATimeInv => GoneStaysGone
  BY DEF OneAtATimeInv, TypeOK, ErasedShape, Clean, GoneStaysGone
<1> QED BY <1>1, <1>2, <1>3, PTL DEF SessionsSpec

\* Also while sessions come and go and tools are listed, a rewritten description
\* is offered again to a client that compresses by sampling.
THEOREM SessionsStaleIsOffered == ~Manual => (SessionsSpec => []StaleIsOffered)
<1> SUFFICES ASSUME ~Manual PROVE SessionsSpec => []StaleIsOffered
  OBVIOUS
<1>1. SessionsInit => SampledInv
  BY SampledInit DEF SessionsInit
<1>2. SampledInv /\ [SessionsNext]_allVars => SampledInv'
<2> SUFFICES ASSUME SampledInv, [SessionsNext]_allVars PROVE SampledInv'
  OBVIOUS
<2>1. CASE [Next]_vars
  BY <2>1, SampledNext
<2>2. CASE TypeOK' /\ UNCHANGED <<live, memory, file, request, gone, failed, up>>
  BY <2>2 DEF SampledInv
<2> QED BY <2>1, <2>2, CacheUnderSessions DEF SampledInv
<1>3. SampledInv => StaleIsOffered
  BY SampledOffers
<1> QED BY <1>1, <1>2, <1>3, PTL DEF SessionsSpec

=============================================================================
