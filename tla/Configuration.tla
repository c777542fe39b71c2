--------------------------- MODULE Configuration ---------------------------
(***************************************************************************)
(* The two servers.json files and how a running proxy follows them: the    *)
(* cached loader (src/config/loader.ts) and the poll of the connection     *)
(* manager (startConfigWatch of src/mcp/client-manager.ts).                *)
(*                                                                         *)
(* The loader is synchronous, so one load runs at a time in the process;   *)
(* but an editor writes between its system calls, leaves a file half       *)
(* written, removes it, or moves an entry from one file to the other.      *)
(*                                                                         *)
(* Abstracted: what a server entry says beyond its version; all patterns   *)
(* and settings but excludeTools and one setting the project overrides;    *)
(* the test that a file exists and the reading of it are one step.  Two    *)
(* writes of a file differ in its time or its size.                        *)
(***************************************************************************)
EXTENDS Naturals, FiniteSets

CONSTANTS
    Names,      \* backend server names
    Versions,   \* distinguishable enabled entries of a server
    Patterns,   \* what excludeTools may match
    Settings,   \* values of compressionFallbackBehavior
    Default,    \* the one that holds when no file gives it
    Contents,   \* what a readable servers.json may contain
    MaxEdits,   \* bound on the writes of each file
    Unlisted,   \* no entry for a server
    Off,        \* an entry with enabled: false
    Unset,      \* no value for the setting
    Missing,    \* the file does not exist
    Broken,     \* it is not valid: half written, or refused by the schema
    Nothing     \* no cache, no result, no configuration

Paths == {"user", "project"}

ContentRecords ==
    [servers: [Names -> Versions \cup {Unlisted, Off}],
     exclude: SUBSET Patterns,
     setting: Settings \cup {Unset}]

ASSUME ContentAssumption ==
    /\ Contents \subseteq ContentRecords
    /\ Contents \cap {Missing, Broken, Nothing} = {}
    /\ Missing # Broken /\ MaxEdits \in Nat /\ Missing \notin 0 .. MaxEdits
    /\ {Unlisted, Off} \cap Versions = {} /\ Unset \notin Settings
    /\ Default \in Settings

VARIABLES
    files,     \* the files
    stamp,     \* their modification times and sizes
    cache,     \* configCache
    load,      \* the call of loadJSONServersCached that is running
    applied,   \* what the process runs with
    phase,     \* the process: its start, its life, its end
    hidden     \* history: what each file excluded ever since the load began

configVars == <<files, stamp, cache, load, applied, phase, hidden>>

Readable == Contents \cup {Missing}

\* A missing file is part of the signature.
Signatures == [Paths -> 0 .. MaxEdits \cup {Missing}]

Reads == [Paths -> Readable]

Configs ==
    [servers: [Names -> Versions \cup {Unlisted}],
     exclude: SUBSET Patterns,
     setting: Settings]

Loads ==
    [by:   {"nobody", "boot", "poll", "list", "call"},
     at:   {"stat", "user", "project", "returned", "threw"},
     sig:  Signatures,
     read: Reads]

NoLoad ==
    [by |-> "nobody", at |-> "stat", sig |-> [p \in Paths |-> Missing],
     read |-> [p \in Paths |-> Missing]]

ConfigTypeOK ==
    /\ files \in [Paths -> Readable \cup {Broken}]
    /\ stamp \in [Paths -> 0 .. MaxEdits]
    /\ cache \in [sig: Signatures, read: Reads] \cup {Nothing}
    /\ load \in Loads
    /\ applied \in Configs \cup {Nothing}
    /\ phase \in {"booting", "running", "failed"}
    /\ hidden \in [Paths -> SUBSET Patterns]

ConfigInit ==
    /\ files \in [Paths -> Readable \cup {Broken}]
    /\ stamp = [p \in Paths |-> 0]
    /\ cache = Nothing
    /\ load = NoLoad
    /\ applied = Nothing
    /\ phase = "booting"
    /\ hidden = [p \in Paths |-> {}]

-----------------------------------------------------------------------------
(* loadJSONServers: what two files come to.                                *)

\* No file, no configuration.
Configured(read) == \E p \in Paths : read[p] # Missing

\* Mutant of Merged: entries are not filtered by enabled.
MergedDisabled(read) ==
    LET given == {p \in Paths : read[p] # Missing}
        p == IF "project" \in given THEN "project" ELSE "user" IN
    [servers |-> read[p].servers,
     exclude |-> UNION {read[q].exclude : q \in given},
     setting |-> Default]

\* Servers and patterns are collected from both files; of two enabled entries
\* for one server, and of two settings, the project's wins.  An entry that is
\* not enabled is dropped before the entries are put together, so a project
\* cannot switch off a server of the user's.
Merged(read) ==
    LET given == {p \in Paths : read[p] # Missing}
        latest(val(_), none) ==
            IF "project" \in given /\ val("project") # none THEN val("project")
            ELSE IF "user" \in given THEN val("user") ELSE none
        entry(n) == latest(LAMBDA p : IF read[p].servers[n] = Off THEN Unlisted
                                      ELSE read[p].servers[n], Unlisted)
    IN
    [servers |-> [n \in Names |-> entry(n)],
     exclude |-> UNION {read[p].exclude : p \in given},
     setting |-> LET chosen == latest(LAMBDA p : read[p].setting, Unset)
                 IN IF chosen = Unset THEN Default ELSE chosen]

-----------------------------------------------------------------------------
(* loadJSONServersCached, one system call at a time.                       *)

\* The part of configSignature for one file.
Signed(p) == IF files[p] = Missing THEN Missing ELSE stamp[p]

\* What a file excludes; one that cannot be read excludes nothing.
ExcludedBy(content) == IF content \in Contents THEN content.exclude ELSE {}

Excluded(p) == ExcludedBy(files[p])

Busy == load.by # "nobody"

\* Mutant of CacheEntry: signed when it is stored.
CacheEntryLate(sig, read) == [sig |-> [p \in Paths |-> Signed(p)], read |-> read]

CacheEntry(sig, read) == [sig |-> sig, read |-> read]

\* Somebody calls the loader: the first stat.
BeginLoad(by) ==
    /\ ~Busy
    /\ load' = [NoLoad EXCEPT !.by = by, !.sig["user"] = Signed("user")]
    /\ hidden' = [p \in Paths |-> Excluded(p)]

\* The second stat.  An unchanged signature: the cached result will do.
StatProject ==
    LET sig == [load.sig EXCEPT !["project"] = Signed("project")] IN
    /\ Busy /\ load.at = "stat"
    /\ load' = IF cache # Nothing /\ cache.sig = sig
               THEN [load EXCEPT !.sig = sig, !.at = "returned", !.read = cache.read]
               ELSE [load EXCEPT !.sig = sig, !.at = "user"]
    /\ UNCHANGED <<files, stamp, cache, applied, phase, hidden>>

\* loadJSONConfig of the user's file: an invalid one ends the load.
ReadUser ==
    /\ Busy /\ load.at = "user"
    /\ load' = IF files["user"] = Broken THEN [load EXCEPT !.at = "threw"]
               ELSE [load EXCEPT !.at = "project", !.read["user"] = files["user"]]
    /\ UNCHANGED <<files, stamp, cache, applied, phase, hidden>>

\* loadJSONConfig of the project's file; a result, null included, is cached.
ReadProject ==
    LET read == [load.read EXCEPT !["project"] = files["project"]] IN
    /\ Busy /\ load.at = "project"
    /\ IF files["project"] = Broken
       THEN /\ load' = [load EXCEPT !.at = "threw"]
            /\ UNCHANGED cache
       ELSE /\ load' = [load EXCEPT !.at = "returned", !.read = read]
            /\ cache' = CacheEntry(load.sig, read)
    /\ UNCHANGED <<files, stamp, applied, phase, hidden>>

Returned(by) == load.by = by /\ load.at = "returned"

Threw(by) == load.by = by /\ load.at = "threw"

LoadStep == StatProject \/ ReadUser \/ ReadProject

-----------------------------------------------------------------------------
(* Who loads: main, and the poll every five seconds.                       *)

\* main: a file that is not valid ends the process, none at all does not.
Boot ==
    /\ phase = "booting"
    /\ \/ /\ BeginLoad("boot")
          /\ UNCHANGED <<applied, phase>>
       \/ /\ Returned("boot")
          /\ applied' = IF Configured(load.read) THEN Merged(load.read) ELSE applied
          /\ phase' = "running"
          /\ load' = NoLoad
          /\ UNCHANGED hidden
       \/ /\ Threw("boot")
          /\ phase' = "failed"
          /\ load' = NoLoad
          /\ UNCHANGED <<applied, hidden>>
    /\ UNCHANGED <<files, stamp, cache>>

\* The process is started again.
Reboot ==
    /\ phase = "failed"
    /\ phase' = "booting"
    /\ cache' = Nothing
    /\ UNCHANGED <<files, stamp, load, applied, hidden>>

Poll ==
    /\ phase = "running"
    /\ BeginLoad("poll")
    /\ UNCHANGED <<files, stamp, cache, applied, phase>>

\* The poll applies what it read: the owner's settings, and the servers by
\* reconcile.  An invalid file, or none, leaves everything as it is.
PollEnds ==
    /\ Returned("poll") \/ Threw("poll")
    /\ applied' = IF Returned("poll") /\ Configured(load.read)
                  THEN Merged(load.read) ELSE applied
    /\ load' = NoLoad
    /\ UNCHANGED <<files, stamp, cache, phase, hidden>>

\* A file is written, in part or whole, or removed, at any moment.
Edit(p) ==
    /\ stamp[p] < MaxEdits
    /\ files' \in {[files EXCEPT ![p] = f] : f \in (Readable \cup {Broken}) \ {files[p]}}
    /\ stamp' = [stamp EXCEPT ![p] = @ + 1]
    /\ hidden' = [hidden EXCEPT ![p] = @ \cap ExcludedBy(files'[p])]
    /\ UNCHANGED <<cache, load, applied, phase>>

ConfigNext ==
    \/ Boot
    \/ Reboot
    \/ LoadStep
    \/ Poll
    \/ PollEnds
    \/ \E p \in Paths : Edit(p)

\* Code that runs goes on.  The poll's timer fires again and again, and the event
\* loop gets to it although others load in between.  Nobody need start the
\* process again, nor edit a file.
ConfigFairness ==
    /\ WF_configVars(Boot) /\ WF_configVars(LoadStep)
    /\ WF_configVars(PollEnds) /\ SF_configVars(Poll)

-----------------------------------------------------------------------------
(* Properties.                                                             *)

\* A cached result is never taken for that of a file it was not read from
\* (loader.ts:470: "edits are still picked up without a restart"): while a file
\* has the signature the result is cached under, it has the content the result
\* was made from, however its writes fell between the loader's own steps.  A
\* file that came and went between the stat and the read is exempt.
CacheIsCurrent ==
    cache # Nothing =>
        \A p \in Paths :
            cache.sig[p] # Missing /\ cache.sig[p] = Signed(p)
                => cache.read[p] = files[p]

\* Files that are, and stay, valid.  (One that was removed may be taken for one
\* that had not been created, see CacheIsCurrent.)
Valid ==
    /\ \A p \in Paths : files[p] # Broken
    /\ \A p \in Paths : files[p] = Missing => stamp[p] = 0
    /\ Configured(files)

\* "Configuration changes are watched" (README.md:232): once the files are left
\* alone, the proxy comes to run with what they say, whatever state it found
\* them in before; an invalid file never stops the watch (startConfigWatch).
ConfigApplies == <>[](Valid /\ phase # "failed" => applied = Merged(files))

-----------------------------------------------------------------------------
(* What the properties rest on.                                            *)

\* No signature is ahead of its file, and what was read of a file that still has
\* the load's signature is what the file says.
SignedShape ==
    /\ \A p \in Paths :
          /\ load.sig[p] # Missing => load.sig[p] <= stamp[p]
          /\ cache # Nothing /\ cache.sig[p] # Missing => cache.sig[p] <= stamp[p]
    /\ Busy /\ load.at = "project"
          /\ load.sig["user"] # Missing /\ load.sig["user"] = Signed("user")
          => load.read["user"] = files["user"]

\* What is hidden is excluded by the files, by what the load has read of them, and
\* by the cached result it is about to take.
HiddenShape ==
    Busy =>
        /\ \A p \in Paths : hidden[p] \subseteq Excluded(p)
        /\ load.at = "stat" /\ cache # Nothing /\ cache.sig["user"] = load.sig["user"]
              => hidden["user"] \subseteq ExcludedBy(cache.read["user"])
        /\ load.at = "project" => hidden["user"] \subseteq ExcludedBy(load.read["user"])
        /\ load.at = "returned" =>
              \A p \in Paths : hidden[p] \subseteq ExcludedBy(load.read[p])

ConfigInv == ConfigTypeOK /\ SignedShape /\ HiddenShape /\ CacheIsCurrent

=============================================================================
