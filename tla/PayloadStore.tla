---------------------------- MODULE PayloadStore ----------------------------
(***************************************************************************)
(* The files that hold large tool outputs (src/cli/payload-interceptor.ts).*)
(*                                                                         *)
(* The daemon and every proxy process keep their outputs in one directory, *)
(* each with entries of its own for the files it knows.  A file is named   *)
(* by the hash of its output and created exclusively.  Before a store      *)
(* writes one it reads the directory and evicts the oldest entries.        *)
(*                                                                         *)
(* A store is single-threaded, but other processes run between any two of  *)
(* its system calls.  A write may fail and a process may die half way.     *)
(*                                                                         *)
(* Abstracted: reading a directory with the age of its files is one step;  *)
(* outputs below the threshold, which are returned as they are; paging and *)
(* searching, which read a file and change nothing.                        *)
(***************************************************************************)
EXTENDS Naturals, FiniteSets

CONSTANTS
    Outputs,     \* large outputs; an output stands for its hash as well
    Stores,      \* processes that share the directory
    MaxEntries,  \* files to keep
    MaxClock,    \* bound on the model's clock
    NoOutput

ASSUME StoreAssumption ==
    /\ MaxEntries \in Nat \ {0}
    /\ MaxClock \in Nat
    /\ NoOutput \notin Outputs
    /\ IsFiniteSet(Outputs) /\ IsFiniteSet(Stores)

VARIABLES
    clock,       \* Date.now() and the file system's clock
    file,        \* the files of the directory
    entries,     \* this.entries of each store
    capture,     \* the capture() each store is in
    referenced   \* history: the outputs whose references were returned

vars == <<clock, file, entries, capture, referenced>>

Times == 0 .. MaxClock

\* "cut" is a file that holds less than its output.
Files == [state: {"absent", "cut", "whole"}, mtime: Times]

\* An entry made from the directory or by capture carries the output's hash;
\* one made by a read carries the hash of what the file held ("sound").
Entries == [known: BOOLEAN, created: Times, sound: BOOLEAN]

Captures ==
    [pc: {"idle", "refreshing", "evicting", "unlinking", "opening",
          "writing", "detached"},
     output: Outputs \cup {NoOutput},
     victim: Outputs \cup {NoOutput}]

NoFile  == [state |-> "absent", mtime |-> 0]
Unknown == [known |-> FALSE, created |-> 0, sound |-> FALSE]
Idle    == [pc |-> "idle", output |-> NoOutput, victim |-> NoOutput]

TypeOK ==
    /\ clock \in Times
    /\ file \in [Outputs -> Files]
    /\ entries \in [Stores -> [Outputs -> Entries]]
    /\ capture \in [Stores -> Captures]
    /\ referenced \subseteq Outputs

Init ==
    /\ clock = 0
    /\ file = [o \in Outputs |-> NoFile]
    /\ entries = [p \in Stores |-> [o \in Outputs |-> Unknown]]
    /\ capture = [p \in Stores |-> Idle]
    /\ referenced = {}

Exists(o) == file[o].state # "absent"

Existing == {o \in Outputs : Exists(o)}

Known(p) == {o \in Outputs : entries[p][o].known}

\* Mutant of Entry: without the output's hash.
EntryUnhashed(time) == [known |-> TRUE, created |-> time]

Entry(time) == [known |-> TRUE, created |-> time, sound |-> TRUE]

\* refreshEntries: every file the store has no entry for gets one.
Refreshed(p) ==
    [o \in Outputs |->
        IF Exists(o) /\ ~entries[p][o].known THEN Entry(file[o].mtime)
        ELSE entries[p][o]]

Goto(p, pc) == capture' = [capture EXCEPT ![p].pc = pc]

\* Room for one more: the loop of capture goes on or ends.
AfterCheck(known) == IF Cardinality(known) >= MaxEntries THEN "evicting" ELSE "opening"

\* The reference is returned; the clock has moved on.
Return(p) ==
    /\ clock < MaxClock
    /\ clock' = clock + 1
    /\ referenced' = referenced \cup {capture[p].output}
    /\ entries' = [entries EXCEPT ![p][capture[p].output] = Entry(clock)]
    /\ capture' = [capture EXCEPT ![p] = Idle]

-----------------------------------------------------------------------------
\* capture of an output the store has a file for.
CaptureKnown(p, o) ==
    /\ capture[p].pc = "idle"
    /\ entries[p][o].known /\ entries[p][o].sound
    /\ Exists(o)
    /\ referenced' = referenced \cup {o}
    /\ UNCHANGED <<clock, file, entries, capture>>

\* capture of another output; an entry whose file is gone, or held something
\* else when it was read, is dropped.
CaptureNew(p, o) ==
    /\ capture[p].pc = "idle"
    /\ ~(entries[p][o].known /\ entries[p][o].sound /\ Exists(o))
    /\ entries' = [entries EXCEPT ![p][o] = Unknown]
    /\ capture' = [capture EXCEPT ![p] =
                      [pc |-> "refreshing", output |-> o, victim |-> NoOutput]]
    /\ UNCHANGED <<clock, file, referenced>>

Refresh(p) ==
    /\ capture[p].pc = "refreshing"
    /\ entries' = [entries EXCEPT ![p] = Refreshed(p)]
    /\ Goto(p, AfterCheck({o \in Outputs : Refreshed(p)[o].known}))
    /\ UNCHANGED <<clock, file, referenced>>

\* evictOldest up to the unlink: it refreshes first.
EvictOldest(p) ==
    LET now == Refreshed(p) IN
    /\ capture[p].pc = "evicting"
    /\ \E oldest \in {o \in Outputs : now[o].known} :
          /\ \A o \in Outputs : now[o].known => now[oldest].created <= now[o].created
          /\ entries' = [entries EXCEPT ![p] = [now EXCEPT ![oldest] = Unknown]]
          /\ capture' = [capture EXCEPT ![p].pc = "unlinking", ![p].victim = oldest]
    /\ UNCHANGED <<clock, file, referenced>>

\* Mutant of Unlink: one eviction has to do.
UnlinkOnce(p) ==
    LET v == capture[p].victim IN
    /\ capture[p].pc = "unlinking"
    /\ file' = [file EXCEPT ![v] = NoFile]
    /\ capture' = [capture EXCEPT ![p].pc = "opening", ![p].victim = NoOutput]
    /\ referenced' = referenced \ {v}
    /\ UNCHANGED <<clock, entries>>

\* unlink of the victim, or of nothing when another store was faster.  One that
\* is writing the file goes on with a file that has no name.
Unlink(p) ==
    LET v == capture[p].victim IN
    /\ capture[p].pc = "unlinking"
    /\ file' = [file EXCEPT ![v] = NoFile]
    /\ capture' = [q \in Stores |->
          IF q = p THEN [capture[p] EXCEPT !.pc = AfterCheck(Known(p)), !.victim = NoOutput]
          ELSE IF capture[q].pc = "writing" /\ capture[q].output = v
               THEN [capture[q] EXCEPT !.pc = "detached"] ELSE capture[q]]
    /\ referenced' = referenced \ {v}
    /\ UNCHANGED <<clock, entries>>

\* EEXIST: the file counts as written.
OpenExisting(p) ==
    /\ capture[p].pc = "opening"
    /\ Exists(capture[p].output)
    /\ Return(p)
    /\ UNCHANGED file

\* The file is created, and empty.
OpenNew(p) ==
    /\ capture[p].pc = "opening"
    /\ ~Exists(capture[p].output)
    /\ file' = [file EXCEPT ![capture[p].output] = [state |-> "cut", mtime |-> clock]]
    /\ Goto(p, "writing")
    /\ UNCHANGED <<clock, entries, referenced>>

Write(p) ==
    /\ capture[p].pc = "writing"
    /\ file' = [file EXCEPT ![capture[p].output] = [state |-> "whole", mtime |-> clock]]
    /\ Return(p)

\* The output goes to a file that was evicted meanwhile.
WriteDetached(p) ==
    /\ capture[p].pc = "detached"
    /\ Return(p)
    /\ UNCHANGED file

\* open or write fails, perhaps half way: the call fails, the file stays.
WriteFails(p) ==
    /\ capture[p].pc \in {"opening", "writing", "detached"}
    /\ capture[p].pc = "opening" => ~Exists(capture[p].output)
    /\ capture' = [capture EXCEPT ![p] = Idle]
    /\ UNCHANGED <<clock, file, entries, referenced>>

\* getEntry, for a read or a search of a payload: a file without an entry gets
\* one, an entry without a file goes.
Lookup(p, o) ==
    /\ capture[p].pc = "idle"
    /\ entries[p][o].known # Exists(o)
    /\ entries' = [entries EXCEPT ![p][o] =
          IF Exists(o) THEN [known |-> TRUE, created |-> file[o].mtime,
                             sound |-> file[o].state = "whole"]
          ELSE Unknown]
    /\ UNCHANGED <<clock, file, capture, referenced>>

\* The process ends, with or without destroy(), and a new one takes its place.
Restart(p) ==
    /\ entries' = [entries EXCEPT ![p] = [o \in Outputs |-> Unknown]]
    /\ capture' = [capture EXCEPT ![p] = Idle]
    /\ UNCHANGED <<clock, file, referenced>>

-----------------------------------------------------------------------------
Next ==
    \E p \in Stores :
        \/ \E o \in Outputs : CaptureKnown(p, o) \/ CaptureNew(p, o) \/ Lookup(p, o)
        \/ Refresh(p)
        \/ EvictOldest(p)
        \/ Unlink(p)
        \/ OpenExisting(p)
        \/ OpenNew(p)
        \/ Write(p)
        \/ WriteDetached(p)
        \/ WriteFails(p)
        \/ Restart(p)

Spec == Init /\ [][Next]_vars

-----------------------------------------------------------------------------
(* Properties.                                                             *)

\* The directory keeps MaxEntries files ("Up to 100 entries are retained",
\* README.md:196), and one more for every other store that made room at the
\* same time: none is forgotten, whoever wrote it and however it ended.
Bounded ==
    Cardinality(Existing) + 1 <= MaxEntries + Cardinality(Stores)

\* A payload ID leads to the whole output, until it is evicted (README.md:188:
\* "Tool results longer than 10,000 characters are stored").  A file another
\* store is still writing is exempt.
ReferencedIsWhole ==
    \A o \in referenced :
        file[o].state = "cut" =>
            \E p \in Stores : capture[p].pc = "writing" /\ capture[p].output = o

-----------------------------------------------------------------------------
(* What the bound rests on.                                                *)

CaptureShape ==
    \A p \in Stores :
        /\ capture[p].pc # "idle" => capture[p].output \in Outputs
        /\ capture[p].pc = "writing" => Exists(capture[p].output)
        /\ capture[p].pc # "unlinking" => capture[p].victim = NoOutput

\* The stores that will create a file without another look at the directory, and
\* what they unlink before.
Claiming ==
    {p \in Stores :
        \/ capture[p].pc = "opening"
        \/ capture[p].pc = "unlinking" /\ Cardinality(Known(p)) < MaxEntries}

Victims == {capture[p].victim : p \in Claiming}

\* There is room for what every store is about to create, once it has unlinked
\* its victim: the last store to look found room for its own file beside those
\* the others may create meanwhile.
RoomShape ==
    Cardinality(Existing \ Victims) + Cardinality(Claiming) + 1
        <= MaxEntries + Cardinality(Stores)

StoreInv == TypeOK /\ CaptureShape /\ RoomShape

=============================================================================
