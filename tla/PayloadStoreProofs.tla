------------------------- MODULE PayloadStoreProofs -------------------------
(***************************************************************************)
(* The directory of large outputs never holds more files than the stores   *)
(* that share it may keep (PayloadStore), for any number of stores and any *)
(* bound on the files.                                                     *)
(***************************************************************************)
EXTENDS PayloadStore, FiniteSetTheorems, TLAPS

Phases ==
    {"idle", "refreshing", "evicting", "unlinking", "opening", "writing", "detached"}

\* Everything but p's own capture and entries is as it was, as far as claims go.
OthersKeep(p) ==
    \A q \in Stores \ {p} :
        /\ entries'[q] = entries[q]
        /\ \/ capture'[q] = capture[q]
           \/ /\ capture[q].pc = "writing" /\ capture'[q].pc = "detached"
              /\ capture'[q].output = capture[q].output
              /\ capture'[q].victim = capture[q].victim

LEMMA Finite ==
    /\ \A S \in SUBSET Outputs : IsFiniteSet(S) /\ Cardinality(S) \in Nat
    /\ \A S \in SUBSET Stores : IsFiniteSet(S) /\ Cardinality(S) \in Nat
                                /\ Cardinality(S) <= Cardinality(Stores)
    /\ Cardinality(Stores) \in Nat /\ MaxEntries \in Nat \ {0}
<1>1. \A S \in SUBSET Outputs : IsFiniteSet(S)
  BY StoreAssumption, FS_Subset
<1>2. \A S \in SUBSET Stores : IsFiniteSet(S) /\ Cardinality(S) <= Cardinality(Stores)
  BY StoreAssumption, FS_Subset
<1>3. \A S : IsFiniteSet(S) => Cardinality(S) \in Nat
  BY FS_CardinalityType
<1> QED BY <1>1, <1>2, <1>3, StoreAssumption

LEMMA SubsetBound ==
    ASSUME NEW T, IsFiniteSet(T), NEW S \in SUBSET T
    PROVE  Cardinality(S) <= Cardinality(T)
  BY FS_Subset

-----------------------------------------------------------------------------
(* What a step does to the claims.                                         *)

LEMMA SetTypes ==
    /\ Existing \in SUBSET Outputs /\ (Existing \ Victims) \in SUBSET Outputs
    /\ Claiming \in SUBSET Stores
    /\ \A p \in Stores : Known(p) \in SUBSET Outputs
  BY DEF Existing, Claiming, Known

LEMMA OthersClaim ==
    ASSUME NEW p \in Stores, OthersKeep(p)
    PROVE  /\ Claiming' \ {p} = Claiming \ {p}
           /\ Victims \subseteq Victims' \cup {capture[p].victim}
           /\ p \notin Claiming => Victims \subseteq Victims'
<1>1. \A q \in Stores \ {p} : q \in Claiming' <=> q \in Claiming
  BY DEF OthersKeep, Claiming, Known
<1>2. Claiming \subseteq Stores /\ Claiming' \subseteq Stores
  BY DEF Claiming
<1>3. \A q \in Claiming \ {p} : capture'[q].victim = capture[q].victim /\ q \in Claiming'
  BY <1>1, <1>2 DEF OthersKeep
<1>4. \A q \in Claiming \ {p} : capture[q].victim \in Victims'
  BY <1>3 DEF Victims
<1> QED BY <1>1, <1>2, <1>4 DEF Victims

\* Nobody's claim changes, and no more files exist.
LEMMA ClaimsStay ==
    ASSUME RoomShape, Claiming' = Claiming,
           Existing' \ Victims' \subseteq Existing \ Victims
    PROVE  RoomShape'
<1>1. Cardinality(Existing' \ Victims') <= Cardinality(Existing \ Victims)
  BY SetTypes, Finite, SubsetBound
<1>2. (Existing' \ Victims') \in SUBSET Outputs
  BY SetTypes
<1> QED BY <1>1, <1>2, SetTypes, Finite DEF RoomShape

\* A store that claims no more leaves room for one file.
LEMMA ClaimLeaves ==
    ASSUME RoomShape, NEW p \in Stores, OthersKeep(p), p \notin Claiming', NEW o,
           IF p \in Claiming THEN Existing' \ Victims' \subseteq (Existing \ Victims) \cup {o}
           ELSE Existing' \ Victims' \subseteq Existing \ Victims
    PROVE  RoomShape'
<1>1. CASE p \in Claiming
  <2>1. Claiming' = Claiming \ {p}
    BY OthersClaim
  <2>2. Cardinality(Claiming') = Cardinality(Claiming) - 1
    BY <1>1, <2>1, SetTypes, Finite, FS_RemoveElement
  <2> DEFINE left == Existing \ Victims
             now == Existing' \ Victims'
  <2>3. left \in SUBSET Outputs /\ IsFiniteSet(left)
    BY SetTypes, Finite
  <2>4. IsFiniteSet(left \cup {o}) /\ Cardinality(left \cup {o}) <= Cardinality(left) + 1
    <3> HIDE DEF left
    <3>1. Cardinality(left) \in Nat
      BY <2>3, Finite
    <3>2. /\ IsFiniteSet(left \cup {o})
          /\ Cardinality(left \cup {o})
                = IF o \in left THEN Cardinality(left) ELSE Cardinality(left) + 1
      BY <2>3, FS_AddElement, Zenon
    <3> QED BY <3>1, <3>2
  <2>5. now \in SUBSET Outputs
    BY DEF Existing
  <2>6. Cardinality(now) <= Cardinality(left \cup {o})
    <3>1. now \in SUBSET (left \cup {o})
      BY <1>1
    <3> HIDE DEF now, left
    <3> QED BY <2>4, <3>1, SubsetBound
  <2>7. /\ Cardinality(now) \in Nat /\ Cardinality(left) \in Nat
        /\ Cardinality(left \cup {o}) \in Nat /\ Cardinality(Claiming) \in Nat
    BY <2>3, <2>4, <2>5, SetTypes, Finite, FS_CardinalityType
  <2>8. Cardinality(left) + Cardinality(Claiming) + 1 <= MaxEntries + Cardinality(Stores)
    BY DEF RoomShape
  <2> HIDE DEF now, left
  <2>9. Cardinality(now) + (Cardinality(Claiming) - 1) + 1 <= MaxEntries + Cardinality(Stores)
    BY <2>4, <2>6, <2>7, <2>8, Finite
  <2> QED BY <2>2, <2>9 DEF RoomShape, now
<1>2. CASE p \notin Claiming
  <2>1. Claiming' = Claiming
    BY <1>2, OthersClaim
  <2> QED BY <1>2, <2>1, ClaimsStay
<1> QED BY <1>1, <1>2

\* A store that has just looked claims a place beside what it has seen.
LEMMA ClaimBegins ==
    ASSUME NEW seen \in SUBSET Outputs, Cardinality(seen) < MaxEntries,
           Existing' \ Victims' \subseteq seen
    PROVE  RoomShape'
<1> DEFINE now == Existing' \ Victims'
<1>1. now \in SUBSET Outputs /\ Claiming' \in SUBSET Stores
  BY DEF Existing, Claiming
<1>2. Cardinality(now) <= Cardinality(seen)
  BY Finite, SubsetBound
<1>3. /\ Cardinality(now) \in Nat /\ Cardinality(seen) \in Nat
      /\ Cardinality(Claiming') \in Nat /\ Cardinality(Claiming') <= Cardinality(Stores)
  BY <1>1, Finite
<1> HIDE DEF now
<1>4. Cardinality(now) + Cardinality(Claiming') + 1 <= MaxEntries + Cardinality(Stores)
  BY <1>2, <1>3, Finite
<1> QED BY <1>4 DEF RoomShape, now

\* The files that exist are the ones there is room for and victims, no more of
\* them than claims.
LEMMA RoomBounds == TypeOK /\ RoomShape => Bounded
<1> SUFFICES ASSUME TypeOK, RoomShape PROVE Bounded
  OBVIOUS
<1> DEFINE left == Existing \ Victims
           f == [p \in Claiming |-> capture[p].victim]
<1>1. IsFiniteSet(Claiming) /\ IsFiniteSet(left) /\ IsFiniteSet(Existing)
  BY SetTypes, Finite
<1>2. f \in Surjection(Claiming, Victims)
  BY DEF Surjection, Victims
<1>3. IsFiniteSet(Victims) /\ Cardinality(Victims) <= Cardinality(Claiming)
  <2> HIDE DEF f
  <2> QED BY <1>1, <1>2, FS_Surjection
<1>4. /\ IsFiniteSet(left \cup Victims)
      /\ Cardinality(left \cup Victims)
            = Cardinality(left) + Cardinality(Victims) - Cardinality(left \cap Victims)
  <2> HIDE DEF left
  <2> QED BY <1>1, <1>3, FS_Union
<1>5. Cardinality(Existing) <= Cardinality(left \cup Victims)
  BY <1>4, SubsetBound
<1>6. Cardinality(left) + Cardinality(Claiming) + 1 <= MaxEntries + Cardinality(Stores)
  BY DEF RoomShape
<1>7. /\ Cardinality(left) \in Nat /\ Cardinality(Victims) \in Nat
      /\ Cardinality(Claiming) \in Nat /\ Cardinality(Existing) \in Nat
      /\ left \cap Victims = {}
  BY <1>1, <1>3, FS_CardinalityType
<1>8. Cardinality(left \cap Victims) = 0
  BY <1>7, FS_EmptySet
<1> HIDE DEF left
<1>9. Cardinality(Existing) + 1 <= MaxEntries + Cardinality(Stores)
  BY <1>3, <1>4, <1>5, <1>6, <1>7, <1>8, Finite
<1> QED BY <1>9 DEF Bounded

-----------------------------------------------------------------------------
(* The steps of a store.                                                   *)

LEMMA CaptureTypes ==
    ASSUME StoreInv, NEW p \in Stores
    PROVE  /\ capture[p] \in Captures /\ capture[p].pc \in Phases
           /\ entries[p] \in [Outputs -> Entries]
           /\ capture[p].pc # "idle" => capture[p].output \in Outputs
           /\ capture[p].pc = "writing" => Exists(capture[p].output)
           /\ capture[p].pc # "unlinking" => capture[p].victim = NoOutput
  BY DEF StoreInv, TypeOK, CaptureShape, Captures, Phases

\* A store that had no victim has no victim's place to give back.
LEMMA NoVictim ==
    ASSUME StoreInv, NEW p \in Stores, OthersKeep(p), capture[p].pc # "unlinking"
    PROVE  Existing \ Victims' \subseteq Existing \ Victims
<1>1. capture[p].victim \notin Outputs
  BY CaptureTypes, StoreAssumption
<1> QED BY <1>1, OthersClaim DEF Existing

\* The end of a capture: its claim goes, and at most one file has come.
LEMMA CaptureEnds ==
    ASSUME StoreInv, NEW p \in Stores, OthersKeep(p), TypeOK',
           capture'[p] = Idle, UNCHANGED file
    PROVE  StoreInv'
<1>1. p \notin Claiming' /\ UNCHANGED Existing
  BY DEF Claiming, Idle, Existing, Exists
<1>2. RoomShape'
  <2>1. Existing' \ Victims' \subseteq (Existing \ Victims) \cup {capture[p].victim}
    BY <1>1, OthersClaim
  <2>2. p \notin Claiming => Existing' \ Victims' \subseteq Existing \ Victims
    BY <1>1, OthersClaim
  <2> QED BY <1>1, <2>1, <2>2, ClaimLeaves DEF StoreInv
<1>3. CaptureShape'
  <2> SUFFICES ASSUME NEW q \in Stores
               PROVE  /\ capture'[q].pc # "idle" => capture'[q].output \in Outputs
                      /\ capture'[q].pc = "writing" => Exists(capture[q].output)'
                      /\ capture'[q].pc # "unlinking" => capture'[q].victim = NoOutput
    BY DEF CaptureShape
  <2>1. CASE q = p
    BY <2>1 DEF Idle
  <2>2. CASE q # p
    BY <2>2, CaptureTypes DEF OthersKeep, Exists
  <2> QED BY <2>1, <2>2
<1> QED BY <1>2, <1>3 DEF StoreInv

LEMMA CaptureNewKeeps ==
    ASSUME StoreInv, NEW p \in Stores, NEW o \in Outputs, CaptureNew(p, o)
    PROVE  StoreInv'
<1> DEFINE fresh == [pc |-> "refreshing", output |-> o, victim |-> NoOutput]
<1>1. /\ capture' = [capture EXCEPT ![p] = fresh]
      /\ entries' = [entries EXCEPT ![p][o] = Unknown]
      /\ UNCHANGED <<clock, file, referenced>> /\ capture[p].pc = "idle"
  BY DEF CaptureNew
<1>2. fresh \in Captures /\ Unknown \in Entries
  BY StoreAssumption DEF Captures, Unknown, Entries, Times
<1>3. TypeOK'
  BY <1>1, <1>2 DEF StoreInv, TypeOK
<1>4. capture'[p] = fresh /\ OthersKeep(p)
  BY <1>1 DEF StoreInv, TypeOK, OthersKeep
<1>5. p \notin Claiming' /\ UNCHANGED Existing
  BY <1>1, <1>4 DEF Claiming, Existing, Exists
<1>6. RoomShape'
  <2>1. p \notin Claiming
    BY <1>1 DEF Claiming
  <2> QED BY <1>4, <1>5, <2>1, OthersClaim, ClaimLeaves DEF StoreInv
<1>7. CaptureShape'
  BY <1>1, <1>4 DEF StoreInv, CaptureShape, OthersKeep, Exists
<1> QED BY <1>3, <1>6, <1>7 DEF StoreInv

LEMMA RefreshedTypes ==
    ASSUME StoreInv, NEW p \in Stores
    PROVE  /\ Refreshed(p) \in [Outputs -> Entries]
           /\ Existing \subseteq {o \in Outputs : Refreshed(p)[o].known}
<1>1. \A o \in Outputs : Entry(file[o].mtime) \in Entries /\ Entry(file[o].mtime).known
  BY DEF StoreInv, TypeOK, Files, Entry, Entries
<1> QED BY <1>1 DEF StoreInv, TypeOK, Refreshed, Existing

LEMMA RefreshKeeps ==
    ASSUME StoreInv, NEW p \in Stores, Refresh(p)
    PROVE  StoreInv'
<1> DEFINE seen == {o \in Outputs : Refreshed(p)[o].known}
<1>1. /\ entries' = [entries EXCEPT ![p] = Refreshed(p)]
      /\ capture' = [capture EXCEPT ![p].pc = AfterCheck(seen)]
      /\ UNCHANGED <<clock, file, referenced>> /\ capture[p].pc = "refreshing"
  BY DEF Refresh, Goto
<1>2. AfterCheck(seen) \in {"evicting", "opening"}
  BY DEF AfterCheck
<1> DEFINE next == AfterCheck(seen)
<1> HIDE DEF next
<1>3. TypeOK'
  BY <1>1, <1>2, RefreshedTypes DEF StoreInv, TypeOK, Captures, next
<1>4. /\ capture'[p] = [capture[p] EXCEPT !.pc = next] /\ OthersKeep(p)
      /\ entries'[p] = Refreshed(p)
  BY <1>1 DEF StoreInv, TypeOK, OthersKeep, next
<1>5. /\ capture'[p].pc = next /\ capture'[p].output = capture[p].output
      /\ capture'[p].victim = capture[p].victim
  BY <1>4, CaptureTypes DEF Captures
<1>6. UNCHANGED Existing
  BY <1>1 DEF Existing, Exists
<1>7. RoomShape'
  <2>1. CASE Cardinality(seen) >= MaxEntries
    <3>1. next = "evicting"
      BY <2>1 DEF AfterCheck, next
    <3>2. p \notin Claiming /\ p \notin Claiming'
      BY <1>1, <1>5, <3>1 DEF Claiming
    <3> QED BY <1>4, <1>6, <3>2, OthersClaim, ClaimLeaves DEF StoreInv
  <2>2. CASE ~(Cardinality(seen) >= MaxEntries)
    <3>1. Existing' \subseteq seen /\ seen \in SUBSET Outputs
      BY <1>6, RefreshedTypes
    <3> HIDE DEF seen
    <3>2. Cardinality(seen) < MaxEntries
      BY <2>2, <3>1, Finite
    <3>3. Existing' \ Victims' \subseteq seen
      BY <3>1
    <3> QED BY <3>1, <3>2, <3>3, ClaimBegins
  <2> QED BY <2>1, <2>2
<1>8. CaptureShape'
  BY <1>1, <1>2, <1>4, <1>5 DEF StoreInv, CaptureShape, OthersKeep, Exists, next
<1> QED BY <1>3, <1>7, <1>8 DEF StoreInv

LEMMA EvictOldestKeeps ==
    ASSUME StoreInv, NEW p \in Stores, EvictOldest(p)
    PROVE  StoreInv'
<1> DEFINE now == Refreshed(p)
<1>1. PICK oldest \in {o \in Outputs : now[o].known} :
         /\ entries' = [entries EXCEPT ![p] = [now EXCEPT ![oldest] = Unknown]]
         /\ capture' = [capture EXCEPT ![p].pc = "unlinking", ![p].victim = oldest]
  BY DEF EvictOldest
<1>2. UNCHANGED <<clock, file, referenced>> /\ capture[p].pc = "evicting"
  BY DEF EvictOldest
<1>3. now \in [Outputs -> Entries] /\ Existing \subseteq {o \in Outputs : now[o].known}
      /\ Unknown \in Entries /\ ~Unknown.known
  BY RefreshedTypes, StoreAssumption DEF Unknown, Entries, Times
<1> HIDE DEF now
<1> DEFINE left == [now EXCEPT ![oldest] = Unknown]
<1>4. /\ left \in [Outputs -> Entries] /\ ~left[oldest].known
      /\ \A o \in Outputs \ {oldest} : left[o] = now[o]
  BY <1>3
<1>5. entries'[p] = left /\ entries' \in [Stores -> [Outputs -> Entries]]
      /\ \A q \in Stores \ {p} : entries'[q] = entries[q]
  BY <1>1, <1>4 DEF StoreInv, TypeOK
<1> HIDE DEF left
<1>6. /\ capture'[p].pc = "unlinking" /\ capture'[p].victim = oldest
      /\ capture'[p].output = capture[p].output
      /\ capture' \in [Stores -> Captures]
      /\ \A q \in Stores \ {p} : capture'[q] = capture[q]
  BY <1>1 DEF StoreInv, TypeOK, Captures
<1>7. TypeOK' /\ OthersKeep(p)
  BY <1>2, <1>5, <1>6 DEF StoreInv, TypeOK, OthersKeep
<1>8. UNCHANGED Existing
  BY <1>2 DEF Existing, Exists
<1>9. RoomShape'
  <2>1. CASE Cardinality(Known(p)') < MaxEntries
    <3>1. oldest \in Victims'
      BY <1>6, <2>1 DEF Claiming, Victims
    <3>2. Existing' \ Victims' \subseteq Known(p)'
      BY <1>3, <1>4, <1>5, <1>8, <3>1 DEF Known, Existing
    <3>3. Known(p)' \in SUBSET Outputs
      BY DEF Known
    <3> QED BY <2>1, <3>2, <3>3, ClaimBegins
  <2>2. CASE ~(Cardinality(Known(p)') < MaxEntries)
    <3>1. p \notin Claiming /\ p \notin Claiming'
      BY <1>2, <1>6, <2>2 DEF Claiming
    <3> QED BY <1>7, <1>8, <3>1, OthersClaim, ClaimLeaves DEF StoreInv
  <2> QED BY <2>1, <2>2
<1>10. CaptureShape'
  BY <1>2, <1>6 DEF StoreInv, CaptureShape, Exists
<1> QED BY <1>7, <1>9, <1>10 DEF StoreInv

LEMMA UnlinkKeeps ==
    ASSUME StoreInv, NEW p \in Stores, Unlink(p)
    PROVE  StoreInv'
<1> DEFINE v == capture[p].victim
           next == AfterCheck(Known(p))
<1>1. /\ file' = [file EXCEPT ![v] = NoFile]
      /\ capture' = [q \in Stores |->
            IF q = p THEN [capture[p] EXCEPT !.pc = next, !.victim = NoOutput]
            ELSE IF capture[q].pc = "writing" /\ capture[q].output = v
                 THEN [capture[q] EXCEPT !.pc = "detached"] ELSE capture[q]]
      /\ referenced' = referenced \ {v}
      /\ UNCHANGED <<clock, entries>> /\ capture[p].pc = "unlinking"
  BY DEF Unlink
<1>2. next \in {"evicting", "opening"} /\ capture[p] \in Captures
  BY CaptureTypes DEF AfterCheck
<1>3. next = "opening" <=> Cardinality(Known(p)) < MaxEntries
  BY SetTypes, Finite DEF AfterCheck
<1> HIDE DEF next
<1>4. /\ capture'[p] \in Captures /\ capture'[p].pc = next /\ capture'[p].victim = NoOutput
      /\ capture'[p].output = capture[p].output
  BY <1>1, <1>2 DEF Captures
<1>5. ASSUME NEW q \in Stores \ {p}
      PROVE  /\ capture'[q] \in Captures /\ capture'[q].output = capture[q].output
             /\ capture'[q].victim = capture[q].victim
             /\ \/ capture'[q] = capture[q]
                   /\ ~(capture[q].pc = "writing" /\ capture[q].output = v)
                \/ capture[q].pc = "writing" /\ capture'[q].pc = "detached"
  <2>1. capture[q] \in Captures
    BY CaptureTypes
  <2>2. CASE capture[q].pc = "writing" /\ capture[q].output = v
    <3>1. capture'[q] = [capture[q] EXCEPT !.pc = "detached"]
      BY <1>1, <2>2
    <3> QED BY <2>1, <2>2, <3>1 DEF Captures
  <2>3. CASE ~(capture[q].pc = "writing" /\ capture[q].output = v)
    <3>1. capture'[q] = capture[q]
      BY <1>1, <2>3
    <3> QED BY <2>1, <2>3, <3>1
  <2> QED BY <2>2, <2>3
<1>6. capture' \in [Stores -> Captures]
  <2>1. \A q \in Stores : capture'[q] \in Captures
    BY <1>4, <1>5
  <2>2. capture' = [q \in Stores |-> capture'[q]]
    BY <1>1
  <2> QED BY <2>1, <2>2
<1>7. NoFile \in Files /\ file \in [Outputs -> Files] /\ file' \in [Outputs -> Files]
  <2>1. NoFile \in Files
    BY StoreAssumption DEF NoFile, Files, Times
  <2>2. file \in [Outputs -> Files]
    BY DEF StoreInv, TypeOK
  <2> QED BY <1>1, <2>1, <2>2
<1>8. TypeOK' /\ OthersKeep(p)
  BY <1>1, <1>5, <1>6, <1>7 DEF StoreInv, TypeOK, OthersKeep
<1>9. Existing' = Existing \ {v}
      /\ \A o \in Outputs : o # v => (Exists(o)' <=> Exists(o))
  BY <1>1, <1>7 DEF Existing, Exists, NoFile
<1>10. RoomShape'
  <2>1. p \in Claiming' <=> p \in Claiming
    BY <1>1, <1>2, <1>3, <1>4 DEF Claiming
  <2>2. Claiming' = Claiming
    BY <1>8, <2>1, OthersClaim
  <2>3. Existing' \ Victims' \subseteq Existing \ Victims
    BY <1>8, <1>9, OthersClaim
  <2> QED BY <2>2, <2>3, ClaimsStay DEF StoreInv
<1>11. CaptureShape'
  <2> SUFFICES ASSUME NEW q \in Stores
               PROVE  /\ capture'[q].pc # "idle" => capture'[q].output \in Outputs
                      /\ capture'[q].pc = "writing" => Exists(capture[q].output)'
                      /\ capture'[q].pc # "unlinking" => capture'[q].victim = NoOutput
    BY DEF CaptureShape
  <2>1. CASE q = p
    BY <1>1, <1>2, <1>4, <2>1, CaptureTypes
  <2>2. CASE q # p
    <3>1. capture'[q].pc # "idle" => capture[q].pc # "idle"
      BY <1>5, <2>2
    <3>2. capture'[q].pc = "writing" => /\ capture[q].pc = "writing"
                                        /\ capture'[q].output # v
      BY <1>5, <2>2
    <3>3. capture'[q].pc # "unlinking" => capture[q].pc # "unlinking"
      BY <1>5, <2>2
    <3> QED BY <1>5, <1>9, <2>2, <3>1, <3>2, <3>3, CaptureTypes DEF Exists
  <2> QED BY <2>1, <2>2
<1> QED BY <1>8, <1>10, <1>11 DEF StoreInv

LEMMA ReturnTypes ==
    ASSUME StoreInv, NEW p \in Stores, capture[p].pc # "idle", Return(p),
           file' \in [Outputs -> Files]
    PROVE  TypeOK' /\ OthersKeep(p) /\ capture'[p] = Idle
<1>1. capture[p].output \in Outputs
  BY CaptureTypes
<1>2. clock \in Times /\ clock' \in Times
  BY StoreAssumption DEF Return, StoreInv, TypeOK, Times
<1>3. Entry(clock) \in Entries /\ Idle \in Captures
  BY <1>2 DEF Entry, Entries, Idle, Captures
<1>4. capture' \in [Stores -> Captures] /\ entries' \in [Stores -> [Outputs -> Entries]]
      /\ referenced' \subseteq Outputs
  BY <1>1, <1>3 DEF Return, StoreInv, TypeOK
<1> QED BY <1>2, <1>4 DEF Return, StoreInv, TypeOK, OthersKeep

LEMMA OpenNewKeeps ==
    ASSUME StoreInv, NEW p \in Stores, OpenNew(p)
    PROVE  StoreInv'
<1> DEFINE o == capture[p].output
           new == [state |-> "cut", mtime |-> clock]
<1>1. /\ file' = [file EXCEPT ![o] = new]
      /\ capture' = [capture EXCEPT ![p].pc = "writing"]
      /\ UNCHANGED <<clock, entries, referenced>> /\ capture[p].pc = "opening" /\ ~Exists(o)
  BY DEF OpenNew, Goto
<1>2. o \in Outputs /\ new \in Files /\ new.state # "absent"
  BY <1>1, CaptureTypes DEF StoreInv, TypeOK, Files
<1> HIDE DEF new
<1>3. /\ capture'[p].pc = "writing" /\ capture'[p].output = o
      /\ capture'[p].victim = capture[p].victim
      /\ capture' \in [Stores -> Captures]
      /\ \A q \in Stores \ {p} : capture'[q] = capture[q]
  BY <1>1 DEF StoreInv, TypeOK, Captures
<1>4. TypeOK' /\ OthersKeep(p)
  BY <1>1, <1>2, <1>3 DEF StoreInv, TypeOK, OthersKeep
<1>5. /\ Existing' = Existing \cup {o}
      /\ \A x \in Outputs : Exists(x)' <=> Exists(x) \/ x = o
  BY <1>1, <1>2 DEF Existing, Exists, StoreInv, TypeOK
<1>6. RoomShape'
  <2>1. p \in Claiming /\ p \notin Claiming'
    BY <1>1, <1>3 DEF Claiming
  <2>2. Existing' \ Victims' \subseteq (Existing \ Victims) \cup {o}
    BY <1>1, <1>4, <1>5, NoVictim
  <2> QED BY <1>4, <2>1, <2>2, ClaimLeaves DEF StoreInv
<1>7. CaptureShape'
  <2> SUFFICES ASSUME NEW q \in Stores
               PROVE  /\ capture'[q].pc # "idle" => capture'[q].output \in Outputs
                      /\ capture'[q].pc = "writing" => Exists(capture[q].output)'
                      /\ capture'[q].pc # "unlinking" => capture'[q].victim = NoOutput
    BY DEF CaptureShape
  <2>1. CASE q = p
    BY <1>1, <1>2, <1>3, <1>5, <2>1, CaptureTypes DEF Exists
  <2>2. CASE q # p
    BY <1>3, <1>5, <2>2, CaptureTypes DEF Exists
  <2> QED BY <2>1, <2>2
<1> QED BY <1>4, <1>6, <1>7 DEF StoreInv

LEMMA WriteKeeps ==
    ASSUME StoreInv, NEW p \in Stores, Write(p)
    PROVE  StoreInv'
<1> DEFINE o == capture[p].output
           whole == [state |-> "whole", mtime |-> clock]
<1>1. file' = [file EXCEPT ![o] = whole] /\ Return(p) /\ capture[p].pc = "writing"
  BY DEF Write
<1>2. o \in Outputs /\ whole \in Files /\ whole.state # "absent" /\ Exists(o)
  BY <1>1, CaptureTypes DEF StoreInv, TypeOK, Files
<1> HIDE DEF whole
<1>3. file' \in [Outputs -> Files]
  BY <1>1, <1>2 DEF StoreInv, TypeOK
<1>4. TypeOK' /\ OthersKeep(p) /\ capture'[p] = Idle
  BY <1>1, <1>3, ReturnTypes
<1>5. Existing' = Existing /\ \A x \in Outputs : Exists(x)' <=> Exists(x)
  BY <1>1, <1>2 DEF Existing, Exists, StoreInv, TypeOK
<1>6. RoomShape'
  <2>1. p \notin Claiming /\ p \notin Claiming'
    BY <1>1, <1>4 DEF Claiming, Idle
  <2> QED BY <1>4, <1>5, <2>1, OthersClaim, ClaimLeaves DEF StoreInv
<1>7. CaptureShape'
  <2> SUFFICES ASSUME NEW q \in Stores
               PROVE  /\ capture'[q].pc # "idle" => capture'[q].output \in Outputs
                      /\ capture'[q].pc = "writing" => Exists(capture[q].output)'
                      /\ capture'[q].pc # "unlinking" => capture'[q].victim = NoOutput
    BY DEF CaptureShape
  <2>1. CASE q = p
    BY <1>4, <2>1 DEF Idle
  <2>2. CASE q # p
    <3>1. capture'[q] = capture[q]
      BY <1>1, <2>2 DEF Return, StoreInv, TypeOK
    <3> QED BY <1>5, <3>1, CaptureTypes DEF Exists
  <2> QED BY <2>1, <2>2
<1> QED BY <1>4, <1>6, <1>7 DEF StoreInv

LEMMA LookupKeeps ==
    ASSUME StoreInv, NEW p \in Stores, NEW o \in Outputs, Lookup(p, o)
    PROVE  StoreInv'
<1> DEFINE found == IF Exists(o) THEN [known |-> TRUE, created |-> file[o].mtime,
                                       sound |-> file[o].state = "whole"]
                    ELSE Unknown
<1>1. /\ entries' = [entries EXCEPT ![p][o] = found]
      /\ UNCHANGED <<clock, file, capture, referenced>> /\ capture[p].pc = "idle"
  BY DEF Lookup
<1>2. found \in Entries
  BY StoreAssumption DEF Unknown, Entries, Times, StoreInv, TypeOK, Files
<1> HIDE DEF found
<1>3. TypeOK' /\ OthersKeep(p)
  BY <1>1, <1>2 DEF StoreInv, TypeOK, OthersKeep
<1>4. p \notin Claiming /\ p \notin Claiming' /\ UNCHANGED Existing
  BY <1>1 DEF Claiming, Existing, Exists
<1>5. RoomShape'
  BY <1>3, <1>4, OthersClaim, ClaimLeaves DEF StoreInv
<1>6. CaptureShape'
  BY <1>1 DEF StoreInv, CaptureShape, Exists
<1> QED BY <1>3, <1>5, <1>6 DEF StoreInv

\* The ends of a capture: the reference, a failure, or the end of the process.
LEMMA EndsKeep ==
    ASSUME StoreInv, NEW p \in Stores,
           OpenExisting(p) \/ WriteDetached(p) \/ WriteFails(p) \/ Restart(p)
    PROVE  StoreInv'
<1>1. CASE OpenExisting(p) \/ WriteDetached(p)
  <2>1. Return(p) /\ UNCHANGED file /\ capture[p].pc # "idle"
    BY <1>1 DEF OpenExisting, WriteDetached
  <2>2. TypeOK' /\ OthersKeep(p) /\ capture'[p] = Idle
    BY <2>1, ReturnTypes DEF StoreInv, TypeOK
  <2> QED BY <2>1, <2>2, CaptureEnds
<1>2. CASE WriteFails(p) \/ Restart(p)
  <2>1. /\ capture' = [capture EXCEPT ![p] = Idle]
        /\ UNCHANGED <<clock, file, referenced>>
        /\ \/ entries' = entries
           \/ entries' = [entries EXCEPT ![p] = [o \in Outputs |-> Unknown]]
    BY <1>2 DEF WriteFails, Restart
  <2>2. Idle \in Captures /\ Unknown \in Entries
    BY StoreAssumption DEF Idle, Captures, Unknown, Entries, Times
  <2>3. TypeOK' /\ OthersKeep(p) /\ capture'[p] = Idle
    BY <2>1, <2>2 DEF StoreInv, TypeOK, OthersKeep
  <2> QED BY <2>1, <2>3, CaptureEnds
<1> QED BY <1>1, <1>2

LEMMA CaptureKnownKeeps ==
    ASSUME StoreInv, NEW p \in Stores, NEW o \in Outputs, CaptureKnown(p, o)
    PROVE  StoreInv'
  BY DEF StoreInv, CaptureKnown, TypeOK, CaptureShape, RoomShape, Existing, Exists,
         Claiming, Victims, Known

-----------------------------------------------------------------------------
(* The properties.                                                         *)

LEMMA InitStore == Init => StoreInv
<1> SUFFICES ASSUME Init PROVE StoreInv
  OBVIOUS
<1>1. TypeOK
  BY StoreAssumption DEF Init, TypeOK, NoFile, Files, Unknown, Entries, Idle, Captures, Times
<1>2. CaptureShape
  BY DEF Init, CaptureShape, Idle
<1>3. Existing = {} /\ Claiming = {}
  BY DEF Init, Existing, Exists, NoFile, Claiming, Idle
<1>4. Cardinality(Existing \ Victims) = 0 /\ Cardinality(Claiming) = 0
  BY <1>3, FS_EmptySet
<1>5. RoomShape
  BY <1>4, Finite DEF RoomShape
<1> QED BY <1>1, <1>2, <1>5 DEF StoreInv

LEMMA NextStore == StoreInv /\ [Next]_vars => StoreInv'
<1> SUFFICES ASSUME StoreInv, [Next]_vars PROVE StoreInv'
  OBVIOUS
<1>1. CASE UNCHANGED vars
  BY <1>1 DEF vars, StoreInv, TypeOK, CaptureShape, RoomShape, Existing, Exists,
              Claiming, Victims, Known
<1>2. CASE Next
  BY <1>2, CaptureKnownKeeps, CaptureNewKeeps, LookupKeeps, RefreshKeeps, EvictOldestKeeps,
     UnlinkKeeps, OpenNewKeeps, WriteKeeps, EndsKeep DEF Next
<1> QED BY <1>1, <1>2

(* What the stores rest on: there is room for what each is about to create   *)
(* (capture, evictOldest).                                                   *)
THEOREM SpecStoreInv == Spec => []StoreInv
  BY InitStore, NextStore, PTL DEF Spec

(* Files, entries and captures keep their types.                             *)
THEOREM SpecTypeOK == Spec => []TypeOK
<1>1. StoreInv => TypeOK
  BY DEF StoreInv
<1> QED BY <1>1, SpecStoreInv, PTL

(* The directory keeps the files of README.md:196 and one more for each      *)
(* store but one, wherever stores look, evict, fail and die (evictOldest).   *)
THEOREM SpecBounded == Spec => []Bounded
<1>1. StoreInv => Bounded
  BY RoomBounds DEF StoreInv
<1> QED BY <1>1, SpecStoreInv, PTL
=============================================================================
