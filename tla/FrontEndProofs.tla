--------------------------- MODULE FrontEndProofs ---------------------------
(***************************************************************************)
(* What Configuration and FrontEnd do for any files, edits, servers and    *)
(* page size: the cached configuration is never taken for that of a file   *)
(* it was not read from, no page has a tool that is hidden, and the pages  *)
(* of a walk put together are the list.                                    *)
(***************************************************************************)
EXTENDS FrontEnd, FiniteSetTheorems, SequenceTheorems, WellFoundedInduction, TLAPS

-----------------------------------------------------------------------------
(* The files and what is read of them.                                     *)

LEMMA ContentTypes ==
    ASSUME NEW content \in Readable \cup {Broken}
    PROVE  /\ content \in Contents =>
                 /\ content \in ContentRecords
                 /\ content # Missing /\ content # Broken
           /\ ExcludedBy(content) \in SUBSET Patterns
  BY ContentAssumption DEF Readable, ContentRecords, ExcludedBy

LEMMA SignedType ==
    ASSUME ConfigTypeOK, NEW p \in Paths
    PROVE  /\ Signed(p) \in 0 .. MaxEdits \cup {Missing}
           /\ Signed(p) = Missing <=> files[p] = Missing
           /\ Signed(p) # Missing => Signed(p) = stamp[p]
  BY ContentAssumption DEF ConfigTypeOK, Signed

LEMMA MergedType ==
    ASSUME NEW read \in Reads, Configured(read)
    PROVE  /\ Merged(read) \in Configs
           /\ Merged(read).exclude = UNION {ExcludedBy(read[p]) : p \in Paths}
<1> DEFINE given == {p \in Paths : read[p] # Missing}
           latest(val(_), none) ==
              IF "project" \in given /\ val("project") # none THEN val("project")
              ELSE IF "user" \in given THEN val("user") ELSE none
           server(p, n) == IF read[p].servers[n] = Off THEN Unlisted ELSE read[p].servers[n]
           entry(n) == IF "project" \in given /\ server("project", n) # Unlisted
                       THEN server("project", n)
                       ELSE IF "user" \in given THEN server("user", n) ELSE Unlisted
           chosen == IF "project" \in given /\ read["project"].setting # Unset
                     THEN read["project"].setting
                     ELSE IF "user" \in given THEN read["user"].setting ELSE Unset
<1>1. Merged(read) = [servers |-> [n \in Names |-> entry(n)],
                      exclude |-> UNION {read[p].exclude : p \in given},
                      setting |-> IF chosen = Unset THEN Default ELSE chosen]
  BY DEF Merged
<1>2. \A p \in given : read[p] \in ContentRecords /\ ExcludedBy(read[p]) = read[p].exclude
  BY ContentTypes DEF Reads, Readable, ExcludedBy
<1>3. \A n \in Names : entry(n) \in Versions \cup {Unlisted}
  <2> SUFFICES ASSUME NEW n \in Names PROVE entry(n) \in Versions \cup {Unlisted}
    OBVIOUS
  <2>1. \A p \in given : server(p, n) \in Versions \cup {Unlisted}
    BY <1>2 DEF ContentRecords
  <2> QED BY <2>1
<1>4. chosen \in Settings \cup {Unset}
  BY <1>2 DEF ContentRecords
<1>5. (IF chosen = Unset THEN Default ELSE chosen) \in Settings
  BY <1>4, ContentAssumption
<1>6. UNION {read[p].exclude : p \in given} \in SUBSET Patterns
  BY <1>2 DEF ContentRecords
<1>7. Merged(read) \in Configs
  <2> HIDE DEF chosen, entry
  <2> QED BY <1>1, <1>3, <1>5, <1>6 DEF Configs
<1>8. \A p \in Paths \ given : ExcludedBy(read[p]) = {}
  BY ContentAssumption DEF Reads, Readable, ExcludedBy
<1>9. Merged(read).exclude = UNION {read[p].exclude : p \in given}
  BY <1>1
<1>10. UNION {read[p].exclude : p \in given} = UNION {ExcludedBy(read[p]) : p \in Paths}
  <2>1. given \subseteq Paths
    OBVIOUS
  <2> HIDE DEF given
  <2>2. \A x : (\E p \in given : x \in read[p].exclude)
                  <=> (\E p \in Paths : x \in ExcludedBy(read[p]))
    BY <1>2, <1>8, <2>1
  <2> QED BY <2>2
<1> QED BY <1>7, <1>9, <1>10

LEMMA ExcludeOfRead ==
    ASSUME NEW read \in Reads, NEW p \in Paths
    PROVE  ExcludedBy(read[p]) \subseteq ExcludeOf(read)
<1>1. CASE Configured(read)
  BY <1>1, MergedType DEF ExcludeOf
<1>2. CASE ~Configured(read)
  BY <1>2, ContentAssumption DEF Configured, ExcludedBy
<1> QED BY <1>1, <1>2

-----------------------------------------------------------------------------
(* The loader's steps.                                                     *)

LEMMA NoLoadType == NoLoad \in Loads
  BY DEF NoLoad, Loads, Signatures, Reads, Readable

\* Another load begins, with or without one before it.
Begins(by) ==
    /\ load' = [NoLoad EXCEPT !.by = by, !.sig["user"] = Signed("user")]
    /\ hidden' = [p \in Paths |-> Excluded(p)]
    /\ UNCHANGED <<files, stamp, cache, phase>>

LEMMA BeginsKeeps ==
    ASSUME ConfigInv, NEW by \in {"boot", "poll", "list", "call"}, Begins(by),
           applied' \in Configs \cup {Nothing}
    PROVE  ConfigInv'
<1> USE DEF ConfigInv, Begins
<1>1. load' \in Loads /\ load'.by = by /\ load'.at = "stat"
      /\ load'.sig["user"] = Signed("user") /\ load'.sig["project"] = Missing
  BY SignedType, NoLoadType DEF Loads, Signatures, Reads, Readable, NoLoad, Paths
<1>2. \A p \in Paths : Excluded(p) \in SUBSET Patterns
  BY ContentTypes DEF Excluded, ConfigTypeOK
<1>3. ConfigTypeOK'
  BY <1>1, <1>2 DEF ConfigTypeOK
<1>4. SignedShape'
  BY <1>1, SignedType DEF SignedShape, Paths, ConfigTypeOK
<1>5. CacheIsCurrent'
  BY DEF CacheIsCurrent, Signed
<1>6. HiddenShape'
  <2>1. \A p \in Paths : hidden'[p] = Excluded(p)
    OBVIOUS
  <2>2. ASSUME cache # Nothing, cache.sig["user"] = Signed("user")
        PROVE  Excluded("user") \subseteq ExcludedBy(cache.read["user"])
    <3>1. CASE files["user"] = Missing
      BY <3>1, ContentAssumption DEF Excluded, ExcludedBy
    <3>2. CASE files["user"] # Missing
      BY <2>2, <3>2, SignedType DEF CacheIsCurrent, Excluded, Paths
    <3> QED BY <3>1, <3>2
  <2> QED BY <1>1, <2>1, <2>2 DEF HiddenShape, Excluded, Paths
<1> QED BY <1>3, <1>4, <1>5, <1>6

LEMMA StatProjectKeeps ==
    ASSUME ConfigInv, StatProject
    PROVE  ConfigInv'
<1> DEFINE sig == [load.sig EXCEPT !["project"] = Signed("project")]
<1>1. sig \in Signatures /\ sig["user"] = load.sig["user"] /\ sig["project"] = Signed("project")
  BY SignedType DEF ConfigInv, ConfigTypeOK, Loads, Signatures, Paths
<1>2. \A p \in Paths : sig[p] # Missing => sig[p] <= stamp[p]
  BY <1>1, SignedType DEF ConfigInv, SignedShape, Paths, ConfigTypeOK
<1> DEFINE hit == cache # Nothing /\ cache.sig = sig
<1>3. ASSUME hit PROVE \A p \in Paths : hidden[p] \subseteq ExcludedBy(cache.read[p])
  <2>1. hidden["user"] \subseteq ExcludedBy(cache.read["user"])
    BY <1>1, <1>3 DEF ConfigInv, HiddenShape, StatProject
  <2>2. hidden["project"] \subseteq Excluded("project")
    BY DEF ConfigInv, HiddenShape, StatProject, Paths
  <2>3. CASE files["project"] = Missing
    BY <2>1, <2>2, <2>3, ContentAssumption DEF Excluded, ExcludedBy, Paths
  <2>4. CASE files["project"] # Missing
    <3>1. cache.read["project"] = files["project"]
      BY <1>1, <1>3, <2>4, SignedType DEF ConfigInv, CacheIsCurrent, Paths
    <3> QED BY <2>1, <2>2, <3>1 DEF Excluded, Paths
  <2> QED BY <2>3, <2>4
<1>4. load' = IF hit THEN [load EXCEPT !.sig = sig, !.at = "returned", !.read = cache.read]
              ELSE [load EXCEPT !.sig = sig, !.at = "user"]
  BY DEF StatProject
<1>5. load \in Loads /\ (hit => cache.read \in Reads)
  BY DEF ConfigInv, ConfigTypeOK
<1>6. load' \in Loads /\ load'.sig = sig /\ load'.by = load.by
      /\ \/ hit /\ load'.at = "returned" /\ load'.read = cache.read
         \/ load'.at = "user"
  <2> HIDE DEF sig, hit
  <2> QED BY <1>1, <1>4, <1>5 DEF Loads
<1> HIDE DEF sig, hit
<1>7. UNCHANGED <<files, stamp, cache, applied, phase, hidden>>
  BY DEF StatProject
<1>8. ConfigTypeOK'
  BY <1>6, <1>7 DEF ConfigInv, ConfigTypeOK
<1>9. SignedShape'
  BY <1>2, <1>6, <1>7 DEF ConfigInv, SignedShape
<1>10. HiddenShape'
  BY <1>3, <1>6, <1>7 DEF ConfigInv, HiddenShape, StatProject, Excluded, Busy
<1>11. CacheIsCurrent'
  BY <1>7 DEF ConfigInv, CacheIsCurrent, Signed
<1> QED BY <1>8, <1>9, <1>10, <1>11 DEF ConfigInv

LEMMA ReadUserKeeps ==
    ASSUME ConfigInv, ReadUser
    PROVE  ConfigInv'
<1>1. UNCHANGED <<files, stamp, cache, applied, phase, hidden>>
  BY DEF ReadUser
<1>2. load \in Loads /\ files["user"] \in Readable \cup {Broken}
  BY DEF ConfigInv, ConfigTypeOK, Paths
<1>3. /\ load' \in Loads /\ load'.sig = load.sig /\ load'.by = load.by
      /\ \/ load'.at = "threw"
         \/ load'.at = "project" /\ load'.read["user"] = files["user"]
  <2>1. CASE files["user"] = Broken
    BY <1>2, <2>1 DEF ReadUser, Loads
  <2>2. CASE files["user"] # Broken
    BY <1>2, <2>2 DEF ReadUser, Loads, Reads, Paths
  <2> QED BY <2>1, <2>2
<1>4. ConfigTypeOK'
  BY <1>1, <1>3 DEF ConfigInv, ConfigTypeOK
<1>5. SignedShape'
  BY <1>1, <1>3 DEF ConfigInv, SignedShape
<1>6. HiddenShape'
  BY <1>1, <1>3 DEF ConfigInv, HiddenShape, ReadUser, Excluded, Busy, Paths
<1>7. CacheIsCurrent'
  BY <1>1 DEF ConfigInv, CacheIsCurrent, Signed
<1> QED BY <1>4, <1>5, <1>6, <1>7 DEF ConfigInv

LEMMA ReadProjectKeeps ==
    ASSUME ConfigInv, ReadProject
    PROVE  ConfigInv'
<1> DEFINE read == [load.read EXCEPT !["project"] = files["project"]]
<1>1. UNCHANGED <<files, stamp, applied, phase, hidden>> /\ Busy /\ load.at = "project"
  BY DEF ReadProject
<1>2. load \in Loads /\ files["project"] \in Readable \cup {Broken}
  BY DEF ConfigInv, ConfigTypeOK, Paths
<1>3. CASE files["project"] = Broken
  <2>1. load' \in Loads /\ load'.sig = load.sig /\ load'.at = "threw" /\ UNCHANGED cache
    BY <1>2, <1>3 DEF ReadProject, Loads
  <2>2. ConfigTypeOK' /\ SignedShape' /\ CacheIsCurrent'
    BY <1>1, <2>1 DEF ConfigInv, ConfigTypeOK, SignedShape, CacheIsCurrent, Signed
  <2>3. HiddenShape'
    BY <1>1, <2>1 DEF ConfigInv, HiddenShape, Excluded
  <2> QED BY <2>2, <2>3 DEF ConfigInv
<1>4. CASE files["project"] # Broken
  <2>1. read \in Reads /\ read["user"] = load.read["user"]
        /\ read["project"] = files["project"]
    BY <1>2, <1>4 DEF Loads, Reads, Paths
  <2>2. load' = [load EXCEPT !.at = "returned", !.read = read]
        /\ cache' = [sig |-> load.sig, read |-> read]
    BY <1>4 DEF ReadProject, CacheEntry
  <2> HIDE DEF read
  <2>3. load' \in Loads /\ load'.sig = load.sig /\ load'.at = "returned" /\ load'.read = read
    BY <1>2, <2>1, <2>2 DEF Loads
  <2>4. cache' \in [sig: Signatures, read: Reads] /\ cache'.sig = load.sig /\ cache'.read = read
    BY <1>2, <2>1, <2>2 DEF Loads
  <2>5. ConfigTypeOK'
    BY <1>1, <2>3, <2>4 DEF ConfigInv, ConfigTypeOK
  <2>6. SignedShape'
    BY <1>1, <2>3, <2>4 DEF ConfigInv, SignedShape
  <2>7. CacheIsCurrent'
    BY <1>1, <2>1, <2>4 DEF ConfigInv, SignedShape, CacheIsCurrent, Signed, Paths
  <2>8. HiddenShape'
    BY <1>1, <2>1, <2>3 DEF ConfigInv, HiddenShape, Excluded, Paths
  <2> QED BY <2>5, <2>6, <2>7, <2>8 DEF ConfigInv
<1> QED BY <1>3, <1>4

LEMMA EditKeeps ==
    ASSUME ConfigInv, NEW p \in Paths, Edit(p)
    PROVE  ConfigInv'
<1>1. UNCHANGED <<cache, load, applied, phase>>
  BY DEF Edit
<1>2. PICK f \in Readable \cup {Broken} : files' = [files EXCEPT ![p] = f]
  BY DEF Edit
<1>3. /\ stamp'[p] = stamp[p] + 1 /\ stamp[p] \in 0 .. MaxEdits /\ stamp[p] < MaxEdits
      /\ files'[p] = f /\ hidden'[p] = hidden[p] \cap ExcludedBy(f)
      /\ \A q \in Paths \ {p} : /\ stamp'[q] = stamp[q] /\ files'[q] = files[q]
                                /\ hidden'[q] = hidden[q]
  BY <1>2 DEF Edit, ConfigInv, ConfigTypeOK
<1>4. ConfigTypeOK'
  <2>1. stamp' \in [Paths -> 0 .. MaxEdits]
    BY <1>3, ContentAssumption DEF Edit, ConfigInv, ConfigTypeOK
  <2>2. files' \in [Paths -> Readable \cup {Broken}]
    BY <1>2 DEF ConfigInv, ConfigTypeOK
  <2>3. hidden' \in [Paths -> SUBSET Patterns]
    BY DEF Edit, ConfigInv, ConfigTypeOK
  <2> QED BY <1>1, <2>1, <2>2, <2>3 DEF ConfigInv, ConfigTypeOK
<1>5. \A q \in Paths : stamp[q] \in Nat /\ stamp'[q] \in Nat /\ stamp[q] <= stamp'[q]
  BY <1>3, <1>4, ContentAssumption DEF ConfigInv, ConfigTypeOK
<1>6. \A q \in Paths : load.sig[q] \in Nat \cup {Missing}
                       /\ (cache # Nothing => cache.sig[q] \in Nat \cup {Missing})
  BY ContentAssumption DEF ConfigInv, ConfigTypeOK, Loads, Signatures
<1>7. \A q \in Paths : q # p => Signed(q)' = Signed(q)
  BY <1>3 DEF Signed
<1>8. Signed(p)' # Missing => Signed(p)' = stamp[p] + 1
  BY <1>3 DEF Signed
<1>9. SignedShape'
  <2>1. \A q \in Paths :
           /\ load.sig[q] # Missing => load.sig[q] <= stamp'[q]
           /\ cache # Nothing /\ cache.sig[q] # Missing => cache.sig[q] <= stamp'[q]
    BY <1>5, <1>6 DEF ConfigInv, SignedShape
  <2>2. load.sig["user"] # Missing /\ load.sig["user"] = Signed("user")'
        => load.sig["user"] = Signed("user") /\ p # "user"
    <3>1. CASE p = "user"
      BY <3>1, <1>3, <1>5, <1>6, <1>8 DEF ConfigInv, SignedShape, Paths
    <3>2. CASE p # "user"
      BY <3>2, <1>7 DEF Paths
    <3> QED BY <3>1, <3>2
  <2> QED BY <1>1, <1>3, <2>1, <2>2 DEF ConfigInv, SignedShape, Busy, Paths
<1>10. CacheIsCurrent'
  <2> SUFFICES ASSUME NEW q \in Paths, cache # Nothing, cache.sig[q] # Missing,
                      cache.sig[q] = Signed(q)'
               PROVE  cache.read[q] = files'[q]
    BY <1>1 DEF CacheIsCurrent
  <2>1. q # p
    BY <1>3, <1>5, <1>6, <1>8 DEF ConfigInv, SignedShape
  <2> QED BY <1>3, <1>7, <2>1 DEF ConfigInv, CacheIsCurrent
<1>11. HiddenShape'
  <2>1. \A q \in Paths : hidden'[q] \subseteq hidden[q]
    BY <1>3
  <2>2. Busy => \A q \in Paths : hidden'[q] \subseteq Excluded(q)'
    BY <1>3 DEF Excluded, ConfigInv, HiddenShape
  <2> QED BY <1>1, <2>1, <2>2 DEF ConfigInv, HiddenShape, Busy, Paths
<1> QED BY <1>4, <1>9, <1>10, <1>11 DEF ConfigInv

\* A load that is over is put away.
LEMMA PutAwayKeeps ==
    ASSUME ConfigInv, load' = NoLoad, UNCHANGED <<files, stamp, hidden>>,
           cache' \in {cache, Nothing}, applied' \in Configs \cup {Nothing},
           phase' \in {"booting", "running", "failed"}
    PROVE  ConfigInv'
<1>1. ConfigTypeOK'
  BY NoLoadType DEF ConfigInv, ConfigTypeOK
<1>2. load'.by = "nobody" /\ \A p \in Paths : load'.sig[p] = Missing
  BY DEF NoLoad
<1>3. SignedShape' /\ HiddenShape'
  BY <1>2 DEF ConfigInv, SignedShape, HiddenShape, Busy
<1>4. CacheIsCurrent'
  BY DEF ConfigInv, CacheIsCurrent, Signed
<1> QED BY <1>1, <1>3, <1>4 DEF ConfigInv

LEMMA RebootKeeps ==
    ASSUME ConfigInv, Reboot
    PROVE  ConfigInv'
<1>1. ConfigTypeOK'
  BY DEF ConfigInv, ConfigTypeOK, Reboot
<1>2. SignedShape' /\ CacheIsCurrent'
  BY DEF ConfigInv, SignedShape, CacheIsCurrent, Reboot, Busy, Signed
<1>3. HiddenShape'
  BY DEF ConfigInv, HiddenShape, Reboot, Busy, Excluded
<1> QED BY <1>1, <1>2, <1>3 DEF ConfigInv

LEMMA InitConfig == ConfigInit => ConfigInv
<1> SUFFICES ASSUME ConfigInit PROVE ConfigInv
  OBVIOUS
<1>1. ConfigTypeOK
  BY NoLoadType, ContentAssumption DEF ConfigInit, ConfigTypeOK
<1>2. load.by = "nobody" /\ \A p \in Paths : load.sig[p] = Missing
  BY DEF ConfigInit, NoLoad
<1> QED BY <1>1, <1>2 DEF ConfigInit, ConfigInv, SignedShape, HiddenShape, CacheIsCurrent, Busy

LEMMA NextConfig == ConfigInv /\ ConfigNext => ConfigInv'
<1> SUFFICES ASSUME ConfigInv, ConfigNext PROVE ConfigInv'
  OBVIOUS
<1>1. load.read \in Reads /\ applied \in Configs \cup {Nothing}
  BY DEF ConfigInv, ConfigTypeOK, Loads
<1>2. CASE Boot
  <2>1. CASE BeginLoad("boot") /\ UNCHANGED <<applied, phase>>
    BY <1>1, <1>2, <2>1, BeginsKeeps DEF Boot, BeginLoad, Begins
  <2>2. CASE Returned("boot") /\ load' = NoLoad
             /\ applied' = (IF Configured(load.read) THEN Merged(load.read) ELSE applied)
             /\ phase' = "running" /\ UNCHANGED hidden
    BY <1>1, <1>2, <2>2, MergedType, PutAwayKeeps DEF Boot
  <2>3. CASE Threw("boot") /\ phase' = "failed" /\ load' = NoLoad
             /\ UNCHANGED <<applied, hidden>>
    BY <1>1, <1>2, <2>3, PutAwayKeeps DEF Boot
  <2> QED BY <1>2, <2>1, <2>2, <2>3 DEF Boot
<1>3. CASE Reboot
  BY <1>3, RebootKeeps
<1>4. CASE LoadStep
  BY <1>4, StatProjectKeeps, ReadUserKeeps, ReadProjectKeeps DEF LoadStep
<1>5. CASE Poll
  BY <1>1, <1>5, BeginsKeeps DEF Poll, BeginLoad, Begins
<1>6. CASE PollEnds
  BY <1>1, <1>6, MergedType, PutAwayKeeps DEF PollEnds, ConfigInv, ConfigTypeOK
<1>7. CASE \E p \in Paths : Edit(p)
  BY <1>7, EditKeeps
<1> QED BY <1>2, <1>3, <1>4, <1>5, <1>6, <1>7 DEF ConfigNext

-----------------------------------------------------------------------------
(* Filtered and flattened lists.  The lists are computed by recursion on an *)
(* interval of indices, so a fact about each of them needs induction: of    *)
(* the intervals from 0 that leave S, the smallest one leaves it by one.    *)

LEMMA IntervalInduction ==
    ASSUME NEW m \in Nat, NEW S \in SUBSET (0 .. m), 0 \in S,
           \A n \in 0 .. m - 1 : n \in S => n + 1 \in S
    PROVE  S = 0 .. m
<1> SUFFICES ASSUME S # 0 .. m PROVE FALSE
  OBVIOUS
<1> DEFINE Smaller == StrictSubsetOrdering(0 .. m)
           Leaving == {0 .. k : k \in (0 .. m) \ S}
<1>1. IsWellFoundedOn(Smaller, SUBSET (0 .. m))
  <2>1. IsFiniteSet(0 .. m)
    BY FS_Interval
  <2>2. FiniteSubsetsOf(0 .. m) = SUBSET (0 .. m)
    BY <2>1, FS_FiniteSubsetsOfFinite
  <2>3. IsWellFoundedOn(StrictSubsetOrdering(0 .. m), FiniteSubsetsOf(0 .. m))
    BY FS_StrictSubsetOrderingWellFounded, Zenon
  <2> QED BY <2>2, <2>3
<1>2. Leaving \subseteq SUBSET (0 .. m) /\ Leaving # {}
  <2>1. \A k \in (0 .. m) \ S : 0 .. k \subseteq 0 .. m
    OBVIOUS
  <2>2. Leaving \subseteq SUBSET (0 .. m)
    BY <2>1, Zenon
  <2>3. PICK k \in 0 .. m : k \notin S
    OBVIOUS
  <2>4. 0 .. k \in Leaving
    BY <2>3
  <2> QED BY <2>2, <2>4
<1>3. PICK x \in Leaving : \A y \in Leaving : ~ (<<y, x>> \in Smaller)
  <2> HIDE DEF Smaller, Leaving
  <2> QED BY <1>1, <1>2, WFMin
<1>4. PICK k \in (0 .. m) \ S : x = 0 .. k
  BY <1>3
<1>5. k # 0 /\ k - 1 \in 0 .. m - 1 /\ k - 1 \notin S
  OBVIOUS
<1>6. 0 .. k - 1 \in Leaving
  BY <1>5
<1>7. <<0 .. k - 1, 0 .. k>> \in Smaller
  <2>1. k \in Nat /\ 0 .. k - 1 \subseteq 0 .. k /\ 0 .. k - 1 # 0 .. k
    OBVIOUS
  <2>2. 0 .. k \subseteq 0 .. m
    OBVIOUS
  <2> QED BY <1>5, <2>1, <2>2 DEF StrictSubsetOrdering
<1> QED BY <1>3, <1>4, <1>6, <1>7

\* The step from one index of Shown to the next.
Kept(tools, exclude, f, i) ==
    IF i = 0 THEN <<>>
    ELSE IF tools[i] \in exclude THEN f[i - 1]
    ELSE Append(f[i - 1], tools[i])

LEMMA ShownDefined ==
    ASSUME NEW S, NEW tools \in Seq(S), NEW exclude
    PROVE  \E f : /\ f = [i \in 0 .. Len(tools) |-> Kept(tools, exclude, f, i)]
                  /\ Shown(tools, exclude) = f[Len(tools)]
<1> DEFINE n == Len(tools)
           Defined(m) == \E f : f = [i \in 0 .. m |-> Kept(tools, exclude, f, i)]
           D == {m \in 0 .. n : Defined(m)}
<1>1. n \in Nat
  OBVIOUS
<1>2. 0 \in D
  <2> DEFINE f == [i \in 0 .. 0 |-> <<>>]
  <2>1. f = [i \in 0 .. 0 |-> Kept(tools, exclude, f, i)]
    BY DEF Kept
  <2> HIDE DEF f
  <2> QED BY <1>1, <2>1
<1>3. ASSUME NEW m \in 0 .. n - 1, m \in D PROVE m + 1 \in D
  <2>1. PICK f : f = [i \in 0 .. m |-> Kept(tools, exclude, f, i)]
    BY <1>3
  <2> DEFINE g == [i \in 0 .. m + 1 |->
                     IF i = m + 1 THEN Kept(tools, exclude, f, i) ELSE f[i]]
  <2>2. \A i \in 0 .. m : g[i] = f[i] /\ f[i] = Kept(tools, exclude, f, i)
    <3>1. \A i \in 0 .. m : g[i] = f[i]
      BY <1>1
    <3>2. \A i \in 0 .. m : f[i] = Kept(tools, exclude, f, i)
      BY <2>1, Zenon
    <3> QED BY <3>1, <3>2
  <2>3. g[m + 1] = Kept(tools, exclude, f, m + 1)
    BY <1>1
  <2>4. \A i \in 0 .. m + 1 : Kept(tools, exclude, f, i) = Kept(tools, exclude, g, i)
    <3> SUFFICES ASSUME NEW i \in 0 .. m + 1, i # 0
                 PROVE  Kept(tools, exclude, f, i) = Kept(tools, exclude, g, i)
      BY DEF Kept
    <3>1. i - 1 \in 0 .. m
      BY <1>1
    <3>2. g[i - 1] = f[i - 1]
      BY <2>2, <3>1
    <3> HIDE DEF g
    <3> QED BY <3>2 DEF Kept
  <2>5. \A i \in 0 .. m + 1 : g[i] = Kept(tools, exclude, g, i)
    <3> SUFFICES ASSUME NEW i \in 0 .. m + 1 PROVE g[i] = Kept(tools, exclude, g, i)
      OBVIOUS
    <3>1. i \in 0 .. m \/ i = m + 1
      BY <1>1
    <3> HIDE DEF g
    <3> QED BY <2>2, <2>3, <2>4, <3>1
  <2>6. g = [i \in 0 .. m + 1 |-> g[i]]
    OBVIOUS
  <2> HIDE DEF g
  <2>7. g = [i \in 0 .. m + 1 |-> Kept(tools, exclude, g, i)]
    BY <2>5, <2>6
  <2> QED BY <1>1, <2>7
<1>4. Defined(n)
  <2> HIDE DEF Defined, n
  <2>1. D = 0 .. n
    BY <1>1, <1>2, <1>3, IntervalInduction
  <2> QED BY <1>1, <2>1
<1> DEFINE kept == CHOOSE f : f = [i \in 0 .. n |-> Kept(tools, exclude, f, i)]
<1>5. kept = [i \in 0 .. n |-> Kept(tools, exclude, kept, i)]
  BY <1>4, Zenon
<1>6. Shown(tools, exclude) = kept[n]
  BY Zenon DEF Shown, Kept
<1> HIDE DEF kept
<1> QED BY <1>5, <1>6

\* What is shown is a list of tools none of which is excluded.
LEMMA ShownType ==
    ASSUME NEW S, NEW tools \in Seq(S), NEW exclude
    PROVE  /\ Shown(tools, exclude) \in Seq(S)
           /\ \A i \in 1 .. Len(Shown(tools, exclude)) : Shown(tools, exclude)[i] \notin exclude
<1> DEFINE n == Len(tools)
<1>1. PICK f : /\ f = [i \in 0 .. n |-> Kept(tools, exclude, f, i)]
               /\ Shown(tools, exclude) = f[n]
  BY ShownDefined
<1>2. n \in Nat
  OBVIOUS
<1> DEFINE Good(s) == s \in Seq(S) /\ \A i \in 1 .. Len(s) : s[i] \notin exclude
           D == {m \in 0 .. n : Good(f[m])}
<1>3. \A m \in 0 .. n : f[m] = Kept(tools, exclude, f, m)
  BY <1>1
<1>4. 0 \in D
  <2>1. f[0] = <<>>
    BY <1>2, <1>3 DEF Kept
  <2>2. f[0] \in Seq(S) /\ Len(f[0]) = 0
    BY <2>1, EmptySeq
  <2>3. Good(f[0])
    BY <2>2
  <2> HIDE DEF Good
  <2> QED BY <1>2, <2>3
<1>5. ASSUME NEW m \in 0 .. n - 1, m \in D PROVE m + 1 \in D
  <2>1. m + 1 \in 1 .. n /\ m + 1 # 0 /\ m + 1 - 1 = m /\ m \in 0 .. n
    BY <1>2
  <2>2. tools[m + 1] \in S
    BY <2>1
  <2>3. f[m + 1] = IF tools[m + 1] \in exclude THEN f[m] ELSE Append(f[m], tools[m + 1])
    BY <1>2, <1>3, <2>1 DEF Kept
  <2>4. Good(f[m])
    BY <1>5
  <2>5. Good(f[m + 1])
    <3>1. CASE tools[m + 1] \in exclude
      BY <2>3, <2>4, <3>1
    <3>2. CASE tools[m + 1] \notin exclude
      <4> DEFINE s == f[m]
      <4>1. s \in Seq(S) /\ f[m + 1] = Append(s, tools[m + 1])
        BY <2>3, <2>4, <3>2
      <4>2. \A i \in 1 .. Len(s) : s[i] \notin exclude
        BY <2>4
      <4> HIDE DEF s
      <4> QED BY <2>2, <3>2, <4>1, <4>2, AppendProperties
    <3> QED BY <3>1, <3>2
  <2> QED BY <1>2, <2>1, <2>5
<1>6. D = 0 .. n
  <2> HIDE DEF D, n
  <2>1. D \in SUBSET (0 .. n)
    BY DEF D
  <2> QED BY <1>2, <1>4, <1>5, <2>1, IntervalInduction
<1> QED BY <1>1, <1>2, <1>6

\* The step from one index of FlattenSeq to the next.
Joined(seqs, f, i) == IF i = 1 THEN seqs[i] ELSE f[i - 1] \o seqs[i]

LEMMA FlattenDefined ==
    ASSUME NEW S, NEW seqs \in Seq(Seq(S)), Len(seqs) # 0
    PROVE  \E f : /\ f = [i \in 1 .. Len(seqs) |-> Joined(seqs, f, i)]
                  /\ FlattenSeq(seqs) = f[Len(seqs)]
<1> DEFINE n == Len(seqs)
           Defined(m) == \E f : f = [i \in 1 .. m + 1 |-> Joined(seqs, f, i)]
           D == {m \in 0 .. n - 1 : Defined(m)}
<1>1. n \in Nat /\ n - 1 \in Nat
  OBVIOUS
<1>2. 0 \in D
  <2> DEFINE f == [i \in 1 .. 0 + 1 |-> seqs[1]]
  <2>1. f = [i \in 1 .. 0 + 1 |-> Joined(seqs, f, i)]
    BY DEF Joined
  <2> HIDE DEF f
  <2> QED BY <1>1, <2>1
<1>3. ASSUME NEW m \in 0 .. n - 1 - 1, m \in D PROVE m + 1 \in D
  <2>1. PICK f : f = [i \in 1 .. m + 1 |-> Joined(seqs, f, i)]
    BY <1>3
  <2> DEFINE g == [i \in 1 .. m + 1 + 1 |->
                     IF i = m + 2 THEN Joined(seqs, f, i) ELSE f[i]]
  <2>2. \A i \in 1 .. m + 1 : g[i] = f[i] /\ f[i] = Joined(seqs, f, i)
    <3>1. \A i \in 1 .. m + 1 : g[i] = f[i]
      BY <1>1
    <3>2. \A i \in 1 .. m + 1 : f[i] = Joined(seqs, f, i)
      BY <2>1, Zenon
    <3> QED BY <3>1, <3>2
  <2>3. g[m + 2] = Joined(seqs, f, m + 2)
    BY <1>1
  <2>4. \A i \in 1 .. m + 1 + 1 : Joined(seqs, f, i) = Joined(seqs, g, i)
    <3> SUFFICES ASSUME NEW i \in 1 .. m + 1 + 1, i # 1
                 PROVE  Joined(seqs, f, i) = Joined(seqs, g, i)
      BY DEF Joined
    <3>1. i - 1 \in 1 .. m + 1
      BY <1>1
    <3>2. g[i - 1] = f[i - 1]
      BY <2>2, <3>1
    <3> HIDE DEF g
    <3> QED BY <3>2 DEF Joined
  <2>5. \A i \in 1 .. m + 1 + 1 : g[i] = Joined(seqs, g, i)
    <3> SUFFICES ASSUME NEW i \in 1 .. m + 1 + 1 PROVE g[i] = Joined(seqs, g, i)
      OBVIOUS
    <3>1. i \in 1 .. m + 1 \/ i = m + 2
      BY <1>1
    <3> HIDE DEF g
    <3> QED BY <2>2, <2>3, <2>4, <3>1
  <2>6. g = [i \in 1 .. m + 1 + 1 |-> g[i]]
    OBVIOUS
  <2> HIDE DEF g
  <2>7. g = [i \in 1 .. m + 1 + 1 |-> Joined(seqs, g, i)]
    BY <2>5, <2>6
  <2> QED BY <1>1, <2>7
<1>4. Defined(n - 1)
  <2> HIDE DEF Defined, n
  <2>1. D = 0 .. n - 1
    BY <1>1, <1>2, <1>3, IntervalInduction
  <2> QED BY <1>1, <2>1
<1>5. n - 1 + 1 = n
  BY <1>1
<1> DEFINE flatten == CHOOSE f : f = [i \in 1 .. n |-> Joined(seqs, f, i)]
<1>6. flatten = [i \in 1 .. n |-> Joined(seqs, flatten, i)]
  BY <1>4, <1>5, Zenon
<1>7. FlattenSeq(seqs) = flatten[n]
  BY Zenon DEF FlattenSeq, Joined
<1> HIDE DEF flatten
<1> QED BY <1>6, <1>7

LEMMA FlattenType ==
    ASSUME NEW S, NEW seqs \in Seq(Seq(S))
    PROVE  FlattenSeq(seqs) \in Seq(S)
<1> DEFINE n == Len(seqs)
<1>1. CASE n = 0
  <2>1. seqs = <<>>
    BY <1>1
  <2>2. FlattenSeq(seqs) = seqs
    BY <1>1 DEF FlattenSeq
  <2>3. <<>> \in Seq(S)
    BY EmptySeq
  <2> QED BY <2>1, <2>2, <2>3, Zenon
<1>2. CASE n # 0
  <2>1. PICK f : /\ f = [i \in 1 .. n |-> Joined(seqs, f, i)]
                 /\ FlattenSeq(seqs) = f[n]
    BY <1>2, FlattenDefined
  <2>2. n \in Nat \ {0}
    BY <1>2
  <2>3. \A m \in 1 .. n : f[m] = Joined(seqs, f, m)
    BY <2>1, Zenon
  <2> DEFINE D == {m \in 0 .. n - 1 : f[m + 1] \in Seq(S)}
  <2>4. 0 \in D
    BY <2>2, <2>3 DEF Joined
  <2>5. ASSUME NEW m \in 0 .. n - 1 - 1, m \in D PROVE m + 1 \in D
    <3>1. PICK k \in 1 .. n : k = m + 2
      BY <2>2
    <3>2. k # 1 /\ k - 1 = m + 1 /\ m + 1 \in 0 .. n - 1
      BY <2>2, <3>1
    <3>3. f[k] = f[k - 1] \o seqs[k]
      BY <2>3, <3>2, Zenon DEF Joined
    <3>4. f[m + 1] \in Seq(S) /\ seqs[k] \in Seq(S)
      BY <2>5
    <3>5. f[k] \in Seq(S)
      <4> DEFINE s == f[m + 1]
                 t == seqs[k]
      <4>1. s \in Seq(S) /\ t \in Seq(S) /\ f[k] = s \o t
        BY <3>2, <3>3, <3>4, Zenon
      <4> HIDE DEF s, t
      <4> QED BY <4>1, ConcatProperties
    <3>6. f[m + 1 + 1] = f[k]
      BY <3>1
    <3> QED BY <3>2, <3>5, <3>6
  <2>6. D = 0 .. n - 1
    <3> HIDE DEF D, n
    <3>1. D \in SUBSET (0 .. n - 1) /\ n - 1 \in Nat
      BY <2>2 DEF D
    <3> QED BY <2>4, <2>5, <3>1, IntervalInduction
  <2>7. n - 1 \in D
    <3> HIDE DEF D
    <3> QED BY <2>2, <2>6
  <2>8. n - 1 + 1 = n
    BY <2>2
  <2>9. f[n] \in Seq(S)
    BY <2>7, <2>8, Zenon
  <2> QED BY <2>1, <2>9
<1> QED BY <1>1, <1>2

\* The servers of a finite set, one after the other.
LEMMA EnumeratedType ==
    ASSUME NEW S, IsFiniteSet(S)
    PROVE  Cardinality(S) \in Nat /\ SetToSeq(S) \in [1 .. Cardinality(S) -> S]
<1>1. Cardinality(S) \in Nat /\ ExistsBijection(1 .. Cardinality(S), S)
  BY FS_CardinalityType
<1>2. PICK f \in [1 .. Cardinality(S) -> S] : IsInjective(f)
  BY <1>1 DEF ExistsBijection, Bijection, Injection, IsInjective
<1> QED BY <1>1, <1>2, Zenon DEF SetToSeq

LEMMA ToolsOfType ==
    ASSUME FrontEndTypeOK, NEW servers \in SUBSET ServerNames
    PROVE  ToolsOf(servers) \in Seq(Patterns)
<1> DEFINE n == Cardinality(servers)
           order == SetToSeq(servers)
           tools(i) == Offers[order[i]][applied.servers[order[i]]]
<1>1. IsFiniteSet(servers) /\ servers \subseteq Names
  BY OfferAssumption, FS_Subset DEF ServerNames
<1>2. n \in Nat /\ order \in [1 .. n -> servers]
  BY <1>1, EnumeratedType
<1>3. \A i \in 1 .. n : tools(i) \in Seq(Patterns)
  <2> SUFFICES ASSUME NEW i \in 1 .. n PROVE tools(i) \in Seq(Patterns)
    OBVIOUS
  <2>1. order[i] \in servers
    BY <1>2
  <2>2. order[i] \in Names /\ applied.servers[order[i]] \in Versions
    BY <2>1 DEF ServerNames
  <2> QED BY <2>2, OfferAssumption
<1>4. [i \in 1 .. n |-> tools(i)] \in Seq(Seq(Patterns))
  <2> HIDE DEF tools, n
  <2> QED BY <1>2, <1>3
<1>5. FlattenSeq([i \in 1 .. n |-> tools(i)]) \in Seq(Patterns)
  <2> HIDE DEF tools, n
  <2> QED BY <1>4, FlattenType
<1>6. ToolsOf(servers) = FlattenSeq([i \in 1 .. n |-> tools(i)])
  BY DEF ToolsOf
<1> QED BY <1>5, <1>6

-----------------------------------------------------------------------------
(* Pages.                                                                  *)

\* Where the page from an offset ends.
EndOf(tools, offset) ==
    IF offset + PageSize < Len(tools) THEN offset + PageSize ELSE Len(tools)

\* A page is a piece of the list, and the next one starts where it ends.
LEMMA CutType ==
    ASSUME NEW S, NEW tools \in Seq(S), NEW offset \in Nat
    PROVE  /\ Cut(tools, offset).page \in Seq(S)
           /\ \A i \in 1 .. Len(Cut(tools, offset).page) :
                 /\ offset + i \in 1 .. Len(tools)
                 /\ Cut(tools, offset).page[i] = tools[offset + i]
           /\ Cut(tools, offset).next \in Nat \cup {Nothing}
           /\ offset <= Len(tools) =>
                 /\ EndOf(tools, offset) \in offset .. Len(tools)
                 /\ Cut(tools, offset).page
                       = SubSeq(tools, offset + 1, EndOf(tools, offset))
                 /\ Cut(tools, offset).next
                       = IF EndOf(tools, offset) < Len(tools)
                         THEN EndOf(tools, offset) ELSE Nothing
<1> DEFINE end == EndOf(tools, offset)
           page == SubSeq(tools, offset + 1, end)
           next == offset + Len(page)
<1>1. Cut(tools, offset)
         = [page |-> page, next |-> IF next < Len(tools) THEN next ELSE Nothing]
  BY DEF Cut, EndOf
<1>2. Len(tools) \in Nat /\ PageSize \in Nat \ {0}
  BY OfferAssumption
<1>3. end \in Nat /\ end <= Len(tools) /\ (offset <= Len(tools) => offset <= end)
      /\ (offset > Len(tools) => end = Len(tools))
  BY <1>2 DEF EndOf
<1> HIDE DEF end
<1>4. \A i \in offset + 1 .. end : i \in 1 .. Len(tools) /\ tools[i] \in S
  BY <1>2, <1>3
<1>5. /\ page \in Seq(S)
      /\ Len(page) = IF offset + 1 <= end THEN end - offset ELSE 0
      /\ \A i \in 1 .. end - offset : page[i] = tools[offset + i]
  <2>1. offset + 1 \in Int /\ end \in Int
    BY <1>3
  <2>2. /\ page \in Seq(S)
        /\ Len(page) = IF offset + 1 <= end THEN end - (offset + 1) + 1 ELSE 0
        /\ \A i \in 1 .. end - (offset + 1) + 1 : page[i] = tools[offset + 1 + i - 1]
    BY <1>4, <2>1, SubSeqProperties
  <2> HIDE DEF page
  <2>3. end - (offset + 1) + 1 = end - offset
    BY <1>3
  <2>4. \A i \in 1 .. end - offset : offset + 1 + i - 1 = offset + i
    BY <1>3
  <2> QED BY <2>2, <2>3, <2>4
<1> HIDE DEF page
<1>6. /\ Cut(tools, offset).page = page
      /\ Cut(tools, offset).next = IF next < Len(tools) THEN next ELSE Nothing
  BY <1>1
<1>7. Len(page) \in Nat /\ \A i \in 1 .. Len(page) : i \in 1 .. end - offset
  BY <1>3, <1>5
<1>8. next \in Nat
  BY <1>7
<1>9. \A i \in 1 .. Len(page) : offset + i \in 1 .. Len(tools)
  BY <1>2, <1>3, <1>7
<1>10. offset <= Len(tools) => next = end
  BY <1>2, <1>3, <1>5
<1> HIDE DEF next
<1> QED BY <1>2, <1>3, <1>5, <1>6, <1>7, <1>8, <1>9, <1>10 DEF page, end

\* The pages up to a cursor and the one from it are the pages up to its end.
LEMMA PagesJoin ==
    ASSUME NEW S, NEW tools \in Seq(S), NEW cursor \in 0 .. Len(tools),
           NEW end \in cursor .. Len(tools)
    PROVE  SubSeq(tools, 1, cursor) \o SubSeq(tools, cursor + 1, end)
              = SubSeq(tools, 1, end)
<1>1. 1 \in 1 .. Len(tools) + 1 /\ cursor \in 1 - 1 .. Len(tools)
  OBVIOUS
<1> QED BY <1>1, ConcatAdjacentSubSeq

-----------------------------------------------------------------------------
(* The request's steps.                                                    *)

Walks == [at: {"resting", "asking", "waiting", "ended"}, cursor: Cursors,
          got: Seq(Patterns), of: Seq(Patterns) \cup {Nothing}, drifted: BOOLEAN]

Lists == [at: {"idle", "first", "fetching", "second"}, servers: SUBSET Names,
          exclude: SUBSET Patterns, tools: Seq(Patterns)]

LEMMA NoWalkType ==
    /\ NoWalk \in Walks
    /\ NoWalk.at = "resting" /\ NoWalk.of = Nothing /\ NoWalk.got = <<>>
    /\ Len(NoWalk.got) = 0
  BY DEF NoWalk, Walks, Cursors

LEMMA IdleType == Idle \in Lists /\ Idle.at = "idle"
  BY DEF Idle, Lists

LEMMA StartWalkKeeps ==
    ASSUME FrontEndInv, StartWalk
    PROVE  FrontEndInv' /\ Len(walk'.got) = 0
<1>1. PICK c \in {0, Garbage} : walk' = [NoWalk EXCEPT !.at = "asking", !.cursor = c]
  BY DEF StartWalk
<1>2. /\ walk' \in Walks /\ walk'.at = "asking" /\ walk'.cursor = c
      /\ walk'.of = Nothing /\ walk'.got = <<>> /\ Len(walk'.got) = 0
  <2>1. /\ walk' \in Walks /\ walk'.at = "asking" /\ walk'.cursor = c
        /\ walk'.of = NoWalk.of /\ walk'.got = NoWalk.got
    <3>1. PICK w : w = NoWalk
      OBVIOUS
    <3>2. w \in Walks /\ c \in Cursors
      BY <3>1, NoWalkType DEF Cursors
    <3>3. walk' = [w EXCEPT !.at = "asking", !.cursor = c]
      BY <1>1, <3>1, Zenon
    <3>4. /\ walk' \in Walks /\ walk'.at = "asking" /\ walk'.cursor = c
          /\ walk'.of = w.of /\ walk'.got = w.got
      BY <3>2, <3>3 DEF Walks
    <3> QED BY <3>1, <3>4
  <2> QED BY <2>1, NoWalkType, Zenon
<1>3. UNCHANGED <<configVars, snapshot, list>> /\ walk.at # "waiting"
  BY DEF StartWalk
<1>4. ConfigInv'
  BY <1>3 DEF FrontEndInv, ConfigInv, ConfigTypeOK, SignedShape, HiddenShape,
              CacheIsCurrent, Busy, Excluded, Signed, configVars
<1>5. FrontEndTypeOK'
  BY <1>2, <1>3, <1>4 DEF FrontEndInv, FrontEndTypeOK, ConfigInv, Walks
<1>6. WalkShape' /\ WalkIsExact'
  BY <1>2, <1>3 DEF FrontEndInv, WalkShape, WalkIsExact
<1> QED BY <1>2, <1>4, <1>5, <1>6 DEF FrontEndInv

LEMMA AskedKeeps ==
    ASSUME FrontEndInv, Asked
    PROVE  FrontEndInv' /\ walk'.got = walk.got
<1>1. walk' = [walk EXCEPT !.at = "waiting"] /\ walk \in Walks /\ walk.at = "asking"
  BY DEF Asked, FrontEndInv, FrontEndTypeOK, Walks
<1>2. /\ walk' \in Walks /\ walk'.at = "waiting" /\ walk'.cursor = walk.cursor
      /\ walk'.of = walk.of /\ walk'.got = walk.got /\ walk'.drifted = walk.drifted
  BY <1>1 DEF Walks
<1>3. list' \in Lists /\ list'.at = "first"
  BY IdleType DEF Asked, Lists, ServerNames
<1>4. ConfigInv'
  BY BeginsKeeps DEF Asked, BeginLoad, Begins, FrontEndInv, ConfigInv, ConfigTypeOK
<1>5. FrontEndTypeOK'
  BY <1>2, <1>3, <1>4 DEF FrontEndInv, FrontEndTypeOK, ConfigInv, Walks, Lists, Asked
<1>6. WalkShape' /\ WalkIsExact'
  BY <1>1, <1>2, <1>3 DEF FrontEndInv, WalkShape, WalkIsExact
<1> QED BY <1>2, <1>4, <1>5, <1>6 DEF FrontEndInv

LEMMA LookedKeeps ==
    ASSUME FrontEndInv, Looked
    PROVE  FrontEndInv' /\ UNCHANGED walk
<1> DEFINE exclude == ExcludeOf(load.read)
<1>1. exclude \in SUBSET Patterns
  BY MergedType DEF ExcludeOf, FrontEndInv, ConfigInv, ConfigTypeOK, Loads, Configs
<1> HIDE DEF exclude
<1>2. list \in Lists /\ list.at = "first" /\ snapshot \in Snapshots \cup {Nothing}
      /\ UNCHANGED <<files, stamp, cache, applied, phase, snapshot, walk>>
  BY DEF Looked, FrontEndInv, FrontEndTypeOK, Lists
<1>3. CASE /\ SnapshotServes(exclude)
           /\ list' = [list EXCEPT !.at = "second", !.exclude = exclude,
                                   !.tools = snapshot.tools]
           /\ load' = [NoLoad EXCEPT !.by = "list", !.sig["user"] = Signed("user")]
           /\ hidden' = [p \in Paths |-> Excluded(p)]
  <2>1. list' \in Lists /\ list'.at = "second"
    BY <1>1, <1>2, <1>3 DEF SnapshotServes, Snapshots, Lists
  <2>2. ConfigInv'
    BY <1>2, <1>3, BeginsKeeps DEF Begins, FrontEndInv, ConfigInv, ConfigTypeOK
  <2> QED BY <1>2, <2>1, <2>2 DEF FrontEndInv, FrontEndTypeOK, ConfigInv, Lists,
                                  WalkShape, WalkIsExact
<1>4. CASE /\ list' = [list EXCEPT !.at = "fetching", !.exclude = exclude]
           /\ load' = NoLoad
           /\ UNCHANGED hidden
  <2>1. list' \in Lists /\ list'.at = "fetching"
    BY <1>1, <1>2, <1>4 DEF Lists
  <2>2. ConfigInv'
    BY <1>2, <1>4, PutAwayKeeps DEF FrontEndInv, ConfigInv, ConfigTypeOK
  <2> QED BY <1>2, <2>1, <2>2 DEF FrontEndInv, FrontEndTypeOK, ConfigInv, Lists,
                                  WalkShape, WalkIsExact
<1> QED BY <1>3, <1>4 DEF Looked, exclude

LEMMA FetchedKeeps ==
    ASSUME FrontEndInv, Fetched
    PROVE  FrontEndInv' /\ UNCHANGED walk
<1>1. PICK answering \in SUBSET (list.servers \cap ServerNames) :
         /\ snapshot' = [exclude |-> list.exclude, servers |-> list.servers,
                         tools |-> Shown(ToolsOf(answering), list.exclude)]
         /\ list' = [list EXCEPT !.at = "second",
                                 !.tools = Shown(ToolsOf(answering), list.exclude)]
  BY DEF Fetched
<1> DEFINE tools == Shown(ToolsOf(answering), list.exclude)
<1>2. tools \in Seq(Patterns)
  <2>1. ToolsOf(answering) \in Seq(Patterns)
    BY ToolsOfType DEF FrontEndInv
  <2> QED BY <2>1, ShownType
<1> HIDE DEF tools
<1>3. list \in Lists /\ list.at = "fetching"
      /\ UNCHANGED <<files, stamp, cache, applied, phase, walk>>
  BY DEF Fetched, FrontEndInv, FrontEndTypeOK, Lists
<1>4. list' \in Lists /\ list'.at = "second" /\ snapshot' \in Snapshots
  BY <1>1, <1>2, <1>3 DEF Lists, Snapshots, tools
<1>5. ConfigInv'
  BY BeginsKeeps DEF Fetched, BeginLoad, Begins, FrontEndInv, ConfigInv, ConfigTypeOK
<1> QED BY <1>3, <1>4, <1>5 DEF FrontEndInv, FrontEndTypeOK, ConfigInv, Lists,
                                WalkShape, WalkIsExact

LEMMA RefusedKeeps ==
    ASSUME FrontEndInv, Refused
    PROVE  FrontEndInv' /\ walk'.at = "resting"
<1>1. walk' \in Walks /\ walk'.at = "resting" /\ walk'.of = Nothing
  BY NoWalkType DEF Refused
<1>2. list' \in Lists /\ list'.at = "idle"
  BY IdleType DEF Refused
<1>3. ConfigInv'
  BY PutAwayKeeps DEF Refused, FrontEndInv, ConfigInv, ConfigTypeOK
<1> QED BY <1>1, <1>2, <1>3 DEF FrontEndInv, FrontEndTypeOK, ConfigInv, Walks, Lists,
                                WalkShape, WalkIsExact, Refused

\* What a reply adds is the rest of a list that the client has had up to its
\* cursor, or a piece of another list; none of it is hidden.
LEMMA RepliedKeeps ==
    ASSUME FrontEndInv, Replied
    PROVE  /\ FrontEndInv'
           /\ \A i \in Len(walk.got) + 1 .. Len(walk'.got), p \in Paths :
                 walk'.got[i] \notin hidden[p]
<1> DEFINE excluded == ExcludeOf(load.read)
           tools == Shown(Own \o list.tools, excluded)
           cut == IF walk.cursor = Garbage THEN [page |-> <<>>, next |-> Nothing]
                  ELSE Cut(tools, walk.cursor)
<1>1. /\ walk \in Walks /\ list \in Lists /\ load \in Loads /\ ConfigInv
      /\ list.at = "second" /\ load.at = "returned" /\ load.by = "list"
      /\ UNCHANGED <<files, stamp, cache, applied, phase, hidden, snapshot>>
  BY DEF Replied, Returned, FrontEndInv, FrontEndTypeOK, ConfigInv, ConfigTypeOK, Walks, Lists
<1>2. walk.at = "waiting" /\ walk.cursor \in Nat \cup {Garbage}
  BY <1>1 DEF FrontEndInv, WalkShape
<1>3. tools \in Seq(Patterns) /\ \A i \in 1 .. Len(tools) : tools[i] \notin excluded
  <2>1. Own \o list.tools \in Seq(Patterns)
    BY <1>1, OfferAssumption, ConcatProperties DEF Lists
  <2> QED BY <2>1, ShownType
<1>4. \A p \in Paths : hidden[p] \subseteq excluded
  <2>1. \A p \in Paths : hidden[p] \subseteq ExcludedBy(load.read[p])
    BY <1>1 DEF ConfigInv, HiddenShape, Busy
  <2>2. load.read \in Reads
    BY <1>1 DEF Loads
  <2> QED BY <2>1, <2>2, ExcludeOfRead
<1>5. walk' = [walk EXCEPT
          !.at = IF cut.next = Nothing THEN "ended" ELSE "asking",
          !.cursor = cut.next,
          !.got = @ \o cut.page,
          !.of = IF @ = Nothing /\ walk.cursor # Garbage THEN tools ELSE @,
          !.drifted = @ \/ (walk.of \notin {Nothing, tools})]
  BY DEF Replied
<1> HIDE DEF excluded, tools
<1>6. /\ cut.page \in Seq(Patterns) /\ cut.next \in Nat \cup {Nothing}
      /\ \A i \in 1 .. Len(cut.page) : cut.page[i] \notin excluded
  <2>1. CASE walk.cursor = Garbage
    BY <2>1, EmptySeq
  <2>2. CASE walk.cursor # Garbage
    <3> DEFINE whole == Cut(tools, walk.cursor)
    <3>1. cut = whole /\ walk.cursor \in Nat
      BY <1>2, <2>2
    <3> HIDE DEF cut, whole
    <3>2. /\ whole.page \in Seq(Patterns) /\ whole.next \in Nat \cup {Nothing}
          /\ \A i \in 1 .. Len(whole.page) :
                walk.cursor + i \in 1 .. Len(tools) /\ whole.page[i] = tools[walk.cursor + i]
      <4>1. tools \in Seq(Patterns)
        BY <1>3
      <4> USE DEF whole
      <4>2. whole.page \in Seq(Patterns)
        BY <3>1, <4>1, CutType, ZenonT(40)
      <4>3. whole.next \in Nat \cup {Nothing}
        BY <3>1, <4>1, CutType, ZenonT(40)
      <4>4. \A i \in 1 .. Len(whole.page) :
               walk.cursor + i \in 1 .. Len(tools) /\ whole.page[i] = tools[walk.cursor + i]
        BY <3>1, <4>1, CutType, ZenonT(40)
      <4> HIDE DEF whole
      <4> QED BY <4>2, <4>3, <4>4
    <3> QED BY <1>3, <3>1, <3>2, Zenon
  <2> QED BY <2>1, <2>2
<1>7. walk.cursor # Garbage /\ walk.cursor \in 0 .. Len(tools) =>
         LET end == EndOf(tools, walk.cursor) IN
         /\ end \in walk.cursor .. Len(tools)
         /\ cut.page = SubSeq(tools, walk.cursor + 1, end)
         /\ cut.next = IF end < Len(tools) THEN end ELSE Nothing
  <2> SUFFICES ASSUME walk.cursor # Garbage, walk.cursor \in 0 .. Len(tools)
               PROVE  /\ EndOf(tools, walk.cursor) \in walk.cursor .. Len(tools)
                      /\ cut.page = SubSeq(tools, walk.cursor + 1, EndOf(tools, walk.cursor))
                      /\ cut.next = IF EndOf(tools, walk.cursor) < Len(tools)
                                     THEN EndOf(tools, walk.cursor) ELSE Nothing
    OBVIOUS
  <2>1. cut = Cut(tools, walk.cursor)
    OBVIOUS
  <2>2. walk.cursor \in Nat /\ walk.cursor <= Len(tools)
    BY <1>3
  <2> HIDE DEF cut
  <2> QED BY <1>3, <2>1, <2>2, CutType, ZenonT(40)
<1>8. walk.cursor = Garbage => cut.page = <<>> /\ cut.next = Nothing
  OBVIOUS
<1> HIDE DEF cut
<1>9. /\ walk' \in Walks
      /\ walk'.at = IF cut.next = Nothing THEN "ended" ELSE "asking"
      /\ walk'.cursor = cut.next
      /\ walk'.got = walk.got \o cut.page
      /\ walk'.of = IF walk.of = Nothing /\ walk.cursor # Garbage THEN tools ELSE walk.of
      /\ walk'.drifted <=> (walk.drifted \/ walk.of \notin {Nothing, tools})
  <2> DEFINE at == IF cut.next = Nothing THEN "ended" ELSE "asking"
             of == IF walk.of = Nothing /\ walk.cursor # Garbage THEN tools ELSE walk.of
             drifted == walk.drifted \/ (walk.of \notin {Nothing, tools})
             got == walk.got \o cut.page
  <2>1. /\ at \in {"resting", "asking", "waiting", "ended"}
        /\ cut.next \in Cursors
        /\ of \in Seq(Patterns) \cup {Nothing} /\ drifted \in BOOLEAN
    BY <1>1, <1>3, <1>6 DEF Walks, Cursors
  <2>2. got \in Seq(Patterns)
    BY <1>1, <1>6, ConcatProperties DEF Walks
  <2>3. walk' = [walk EXCEPT !.at = at, !.cursor = cut.next, !.got = got, !.of = of,
                             !.drifted = drifted]
    BY <1>5
  <2> HIDE DEF at, of, drifted, got
  <2>4. /\ walk' \in Walks /\ walk'.at = at /\ walk'.cursor = cut.next
        /\ walk'.got = got /\ walk'.of = of /\ walk'.drifted = drifted
    BY <1>1, <2>1, <2>2, <2>3 DEF Walks
  <2> QED BY <2>4 DEF at, of, drifted, got
<1>10. \A i \in Len(walk.got) + 1 .. Len(walk'.got), p \in Paths :
          walk'.got[i] \notin hidden[p]
  <2> SUFFICES ASSUME NEW i \in Len(walk.got) + 1 .. Len(walk'.got)
               PROVE  walk'.got[i] \notin excluded
    BY <1>4
  <2> DEFINE had == walk.got
             page == cut.page
  <2>1. had \in Seq(Patterns) /\ page \in Seq(Patterns) /\ walk'.got = had \o page
    BY <1>1, <1>6, <1>9 DEF Walks
  <2>2. i \in Len(had) + 1 .. Len(walk'.got) /\ \A k \in 1 .. Len(page) : page[k] \notin excluded
    BY <1>6
  <2> HIDE DEF had, page
  <2>3. /\ Len(walk'.got) = Len(had) + Len(page)
        /\ \A k \in 1 .. Len(had) + Len(page) :
              walk'.got[k] = IF k <= Len(had) THEN had[k] ELSE page[k - Len(had)]
    BY <2>1, ConcatProperties, ZenonT(30)
  <2>4. Len(had) \in Nat /\ Len(page) \in Nat
    BY <2>1
  <2>5. i \in 1 .. Len(had) + Len(page) /\ ~(i <= Len(had)) /\ i - Len(had) \in 1 .. Len(page)
    BY <2>2, <2>3, <2>4
  <2> QED BY <2>2, <2>3, <2>5, Zenon
<1>11. list' \in Lists /\ list'.at = "idle"
  BY IdleType DEF Replied
<1>12. ConfigInv'
  BY <1>1, PutAwayKeeps DEF Replied, ConfigInv, ConfigTypeOK
<1>13. FrontEndTypeOK'
  BY <1>1, <1>9, <1>11, <1>12 DEF FrontEndInv, FrontEndTypeOK, ConfigInv, Walks, Lists
<1>14. ASSUME walk'.of # Nothing, ~walk'.drifted
       PROVE  /\ walk'.at = "asking" => /\ walk'.cursor \in 0 .. Len(walk'.of)
                                        /\ walk'.got = SubSeq(walk'.of, 1, walk'.cursor)
              /\ walk'.at = "ended" => walk'.got = walk'.of
  <2>1. walk'.of = tools /\ walk.cursor # Garbage /\ walk.cursor \in 0 .. Len(tools)
        /\ walk.got = SubSeq(tools, 1, walk.cursor)
    <3>1. Len(tools) \in Nat
      BY <1>3
    <3>2. CASE walk.of = Nothing
      <4>1. walk.cursor = 0 /\ walk.cursor # Garbage /\ walk.got = <<>> /\ walk'.of = tools
        BY <1>2, <1>9, <1>14, <3>2, OfferAssumption DEF FrontEndInv, WalkShape
      <4>2. SubSeq(tools, 1, 0) = <<>>
        BY SubSeqEmpty
      <4> QED BY <3>1, <4>1, <4>2
    <3>3. CASE walk.of # Nothing
      <4>1. walk.of = tools /\ walk'.of = tools /\ ~walk.drifted
        BY <1>9, <1>14, <3>3
      <4> QED BY <1>2, <3>1, <3>3, <4>1, OfferAssumption DEF FrontEndInv, WalkShape
    <3> QED BY <3>2, <3>3
  <2>2. PICK end \in walk.cursor .. Len(tools) :
           /\ cut.page = SubSeq(tools, walk.cursor + 1, end)
           /\ cut.next = IF end < Len(tools) THEN end ELSE Nothing
    BY <1>7, <2>1
  <2>3. walk'.got = SubSeq(tools, 1, end)
    <3>1. SubSeq(tools, 1, walk.cursor) \o SubSeq(tools, walk.cursor + 1, end)
             = SubSeq(tools, 1, end)
      BY <1>3, <2>1, <2>2, PagesJoin, Zenon
    <3> QED BY <1>9, <2>1, <2>2, <3>1, Zenon
  <2>4. Len(tools) \in Nat /\ end \in 0 .. Len(tools)
    BY <1>3, <2>1, <2>2
  <2>5. CASE end < Len(tools)
    <3>1. walk'.at = "asking" /\ walk'.cursor = end
      BY <1>9, <2>2, <2>4, <2>5, OfferAssumption
    <3> QED BY <2>1, <2>3, <2>4, <3>1
  <2>6. CASE end = Len(tools)
    <3>1. walk'.at = "ended"
      BY <1>9, <2>2, <2>4, <2>6
    <3>2. walk'.got = tools
      BY <1>3, <2>3, <2>6, SubSeqFull
    <3> QED BY <2>1, <3>1, <3>2
  <2> QED BY <2>4, <2>5, <2>6
<1>15. ASSUME walk'.of = Nothing PROVE walk'.at = "ended"
  <2>1. walk.cursor = Garbage
    BY <1>3, <1>9, <1>15, OfferAssumption
  <2> QED BY <1>8, <1>9, <2>1
<1>16. walk'.at \in {"asking", "ended"} /\ (walk'.at = "asking" => walk'.cursor \in Nat)
  BY <1>6, <1>9
<1>17. WalkShape'
  BY <1>11, <1>14, <1>15, <1>16 DEF WalkShape
<1>18. WalkIsExact'
  BY <1>14 DEF WalkIsExact
<1> QED BY <1>10, <1>12, <1>13, <1>17, <1>18 DEF FrontEndInv

-----------------------------------------------------------------------------
(* The properties.                                                         *)

LEMMA InitFrontEnd == FrontEndInit => FrontEndInv
<1> SUFFICES ASSUME FrontEndInit PROVE FrontEndInv
  OBVIOUS
<1>1. ConfigInv
  BY InitConfig DEF FrontEndInit
<1>2. walk \in Walks /\ walk.at = "resting" /\ walk.of = Nothing
  BY NoWalkType DEF FrontEndInit
<1>3. list \in Lists /\ list.at = "idle" /\ snapshot = Nothing
  BY IdleType DEF FrontEndInit
<1> QED BY <1>1, <1>2, <1>3 DEF FrontEndInv, FrontEndTypeOK, ConfigInv, Walks, Lists,
                                WalkShape, WalkIsExact

LEMMA NextFrontEnd == FrontEndInv /\ [FrontEndNext]_vars => FrontEndInv'
<1> SUFFICES ASSUME FrontEndInv, [FrontEndNext]_vars PROVE FrontEndInv'
  OBVIOUS
<1>1. CASE (ConfigNext \/ UNCHANGED configVars) /\ UNCHANGED requestVars
  <2>1. ConfigInv'
    <3>1. CASE ConfigNext
      BY <3>1, NextConfig DEF FrontEndInv
    <3>2. CASE UNCHANGED configVars
      BY <3>2 DEF FrontEndInv, ConfigInv, ConfigTypeOK, SignedShape, HiddenShape,
                  CacheIsCurrent, Busy, Excluded, Signed, configVars
    <3> QED BY <1>1, <3>1, <3>2
  <2>2. UNCHANGED <<snapshot, list, walk>>
    BY <1>1 DEF requestVars
  <2> QED BY <2>1, <2>2 DEF FrontEndInv, FrontEndTypeOK, ConfigInv, WalkShape, WalkIsExact
<1>2. CASE StartWalk \/ Asked \/ Looked \/ Fetched \/ Replied \/ Refused
  BY <1>2, StartWalkKeeps, AskedKeeps, LookedKeeps, FetchedKeeps, RepliedKeeps, RefusedKeeps
<1> QED BY <1>1, <1>2 DEF FrontEndNext, vars

(* What tools/list rests on: the files, what is read and cached of them, and *)
(* the walk of a client over the pages.                                      *)
THEOREM FrontEndSpecInv == FrontEndSpec => []FrontEndInv
<1>1. FrontEndSpec => FrontEndInit /\ [][FrontEndNext]_vars
  BY PTL DEF FrontEndSpec
<1> QED BY <1>1, InitFrontEnd, NextFrontEnd, PTL

(* Files, loads, the snapshot, the requests and the walk keep their types.   *)
THEOREM SpecFrontEndTypeOK == FrontEndSpec => []FrontEndTypeOK
<1>1. FrontEndInv => FrontEndTypeOK
  BY DEF FrontEndInv
<1> QED BY <1>1, FrontEndSpecInv, PTL

(* A cached configuration is never taken for that of a file it was not read  *)
(* from, however edits fall between the loader's own steps                   *)
(* (loadJSONServersCached).                                                  *)
THEOREM SpecCacheIsCurrent == FrontEndSpec => []CacheIsCurrent
<1>1. FrontEndInv => CacheIsCurrent
  BY DEF FrontEndInv, ConfigInv
<1> QED BY <1>1, FrontEndSpecInv, PTL

(* The pages put together are the list, whatever its length and the size of  *)
(* a page (paginateTools).                                                   *)
THEOREM SpecWalkIsExact == FrontEndSpec => []WalkIsExact
<1>1. FrontEndInv => WalkIsExact
  BY DEF FrontEndInv
<1> QED BY <1>1, FrontEndSpecInv, PTL

(* No page has a tool that a file excluded all the time from the request's   *)
(* last load on, whether that load read the files or took the cached result. *)
THEOREM SpecHiddenStaysHidden == FrontEndSpec => HiddenStaysHidden
<1> DEFINE Stays == walk'.got # walk.got /\ walk'.at # "resting" =>
              \A i \in Len(walk.got) + 1 .. Len(walk'.got), p \in Paths :
                  walk'.got[i] \notin hidden[p]
<1>1. FrontEndSpec => [][FrontEndNext]_vars
  BY PTL DEF FrontEndSpec
<1>2. FrontEndInv /\ [FrontEndNext]_vars => [Stays]_vars
  <2> SUFFICES ASSUME FrontEndInv, FrontEndNext PROVE Stays
    OBVIOUS
  <2>1. CASE ConfigNext /\ UNCHANGED requestVars
    BY <2>1 DEF requestVars
  <2>2. CASE StartWalk
    <3>1. Len(walk'.got) = 0 /\ Len(walk.got) \in Nat
      BY <2>2, StartWalkKeeps DEF FrontEndInv, FrontEndTypeOK
    <3> QED BY <3>1
  <2>3. CASE Asked \/ Looked \/ Fetched
    BY <2>3, AskedKeeps, LookedKeeps, FetchedKeeps
  <2>4. CASE Replied
    BY <2>4, RepliedKeeps
  <2>5. CASE Refused
    BY <2>5, RefusedKeeps
  <2> QED BY <2>1, <2>2, <2>3, <2>4, <2>5 DEF FrontEndNext
<1> QED BY <1>1, <1>2, FrontEndSpecInv, PTL DEF HiddenStaysHidden
=============================================================================
