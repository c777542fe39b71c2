------------------------------ MODULE FrontEnd ------------------------------
(***************************************************************************)
(* The proxy's tools/list (src/index.ts): a snapshot of the backends'      *)
(* tools kept for three seconds, two loads of the configuration around the *)
(* fan-out to the backends, and pages cut from the filtered list, walked   *)
(* by a client that follows nextCursor.                                    *)
(*                                                                         *)
(* JavaScript runs one thing at a time: while a load runs nothing else of  *)
(* the process does, but files change under it; while the backends are     *)
(* asked, the poll of Configuration may apply another configuration.       *)
(*                                                                         *)
(* Abstracted: descriptions (CompressionCache and Sessions have them), the *)
(* order of the backends, and the time reconcile takes.  A pattern is the  *)
(* name of the one tool it matches.  Time is a choice: a snapshot may have *)
(* expired whenever it is looked at.                                       *)
(***************************************************************************)
EXTENDS Configuration, Sequences, SequencesExt

CONSTANTS
    Own,        \* the proxy's own tools, a sequence
    Offers,     \* the tools a server lists, by its name and version
    PageSize,   \* toolsPageSize
    Garbage     \* a cursor that is not an offset

ASSUME OfferAssumption ==
    /\ PageSize \in Nat \ {0}
    /\ Own \in Seq(Patterns)
    /\ Offers \in [Names -> [Versions -> Seq(Patterns)]]
    /\ IsFiniteSet(Names)
    /\ Garbage \notin Nat /\ Nothing \notin Nat \cup {Garbage}
    /\ Nothing \notin Seq(Patterns)

VARIABLES
    snapshot,  \* toolCache
    list,      \* the tools/list request being served
    walk       \* the client's walk over the pages

requestVars == <<snapshot, list, walk>>

vars == <<configVars, requestVars>>

\* Nothing: there is no next page.
Cursors == Nat \cup {Garbage, Nothing}

Idle == [at |-> "idle", servers |-> {}, exclude |-> {}, tools |-> <<>>]

\* The snapshot's key: the patterns and the names of the servers.
Snapshots == [exclude: SUBSET Patterns, servers: SUBSET Names, tools: Seq(Patterns)]

FrontEndTypeOK ==
    /\ ConfigTypeOK
    /\ snapshot \in Snapshots \cup {Nothing}
    /\ list \in [at: {"idle", "first", "fetching", "second"}, servers: SUBSET Names,
                 exclude: SUBSET Patterns, tools: Seq(Patterns)]
    /\ walk \in [at: {"resting", "asking", "waiting", "ended"}, cursor: Cursors,
                 got: Seq(Patterns), of: Seq(Patterns) \cup {Nothing},
                 drifted: BOOLEAN]

NoWalk ==
    [at |-> "resting", cursor |-> 0, got |-> <<>>, of |-> Nothing, drifted |-> FALSE]

FrontEndInit ==
    /\ ConfigInit
    /\ snapshot = Nothing
    /\ list = Idle
    /\ walk = NoWalk

-----------------------------------------------------------------------------
(* The client.                                                             *)

\* It lists from the start, or from a cursor of its own making.
StartWalk ==
    /\ phase = "running"
    /\ walk.at \in {"resting", "ended"}
    /\ \E c \in {0, Garbage} : walk' = [NoWalk EXCEPT !.at = "asking", !.cursor = c]
    /\ UNCHANGED <<configVars, snapshot, list>>

-----------------------------------------------------------------------------
(* The handler.                                                            *)

\* The names of the slots: reconcile follows what the process runs with.
ServerNames ==
    IF applied = Nothing THEN {}
    ELSE {n \in Names : applied.servers[n] \in Versions}

\* ... loadJSONServersCached()?.excludePatterns || []
ExcludeOf(read) == IF Configured(read) THEN Merged(read).exclude ELSE {}

\* The tools that no pattern excludes, in their order.
Shown(tools, exclude) ==
    LET kept[i \in 0 .. Len(tools)] ==
            IF i = 0 THEN <<>>
            ELSE IF tools[i] \in exclude THEN kept[i - 1]
            ELSE Append(kept[i - 1], tools[i])
    IN kept[Len(tools)]

\* fetchAllBackendTools begins: the servers, and the first load.
Asked ==
    /\ walk.at = "asking"
    /\ list.at = "idle"
    /\ BeginLoad("list")
    /\ list' = [Idle EXCEPT !.at = "first", !.servers = ServerNames]
    /\ walk' = [walk EXCEPT !.at = "waiting"]
    /\ UNCHANGED <<files, stamp, cache, applied, phase, snapshot>>

\* The snapshot answers for the same patterns and servers, until it expires.
SnapshotServes(exclude) ==
    /\ snapshot # Nothing
    /\ snapshot.exclude = exclude /\ snapshot.servers = list.servers

\* The first load is done.  With a snapshot in hand the second load follows in
\* the same turn of the event loop; else the backends are asked.
Looked ==
    LET exclude == ExcludeOf(load.read) IN
    /\ list.at = "first" /\ Returned("list")
    /\ \/ /\ SnapshotServes(exclude)
          /\ list' = [list EXCEPT !.at = "second", !.exclude = exclude,
                                  !.tools = snapshot.tools]
          /\ load' = [NoLoad EXCEPT !.by = "list", !.sig["user"] = Signed("user")]
          /\ hidden' = [p \in Paths |-> Excluded(p)]
       \/ /\ list' = [list EXCEPT !.at = "fetching", !.exclude = exclude]
          /\ load' = NoLoad
          /\ UNCHANGED hidden
    /\ UNCHANGED <<files, stamp, cache, applied, phase, snapshot, walk>>

\* What the servers of a set list, one after the other.
ToolsOf(servers) ==
    FlattenSeq([i \in 1 .. Cardinality(servers) |->
        LET n == SetToSeq(servers)[i] IN Offers[n][applied.servers[n]]])

\* The backends have answered, those that could; the second load begins.
Fetched ==
    /\ list.at = "fetching"
    /\ BeginLoad("list")
    /\ \E answering \in SUBSET (list.servers \cap ServerNames) :
          LET tools == Shown(ToolsOf(answering), list.exclude) IN
          /\ snapshot' = [exclude |-> list.exclude, servers |-> list.servers,
                          tools |-> tools]
          /\ list' = [list EXCEPT !.at = "second", !.tools = tools]
    /\ UNCHANGED <<files, stamp, cache, applied, phase, walk>>

\* Mutant of Cut: a cursor up to and including the end of the list.
CutAtEnd(tools, offset) ==
    LET end == IF offset + PageSize < Len(tools) THEN offset + PageSize ELSE Len(tools)
        page == SubSeq(tools, offset + 1, end)
        next == offset + Len(page)
    IN [page |-> page, next |-> IF next <= Len(tools) THEN next ELSE Nothing]

\* Mutant of Cut: the tool at the boundary is skipped.
CutShort(tools, offset) ==
    LET page == SubSeq(tools, offset + 1,
                       IF Len(tools) > offset + PageSize THEN offset + PageSize - 1
                       ELSE Len(tools))
        next == offset + PageSize
    IN [page |-> page, next |-> IF next < Len(tools) THEN next ELSE Nothing]

\* A page, and the cursor of the next one if there is one.
Cut(tools, offset) ==
    LET end == IF offset + PageSize < Len(tools) THEN offset + PageSize ELSE Len(tools)
        page == SubSeq(tools, offset + 1, end)
        next == offset + Len(page)
    IN [page |-> page, next |-> IF next < Len(tools) THEN next ELSE Nothing]

\* Mutant of Replied: what the first load excluded is what is left out.
RepliedFirst ==
    LET tools == Own \o list.tools
        cut == Cut(tools, IF walk.cursor = Garbage THEN Len(tools) ELSE walk.cursor)
    IN
    /\ list.at = "second" /\ Returned("list")
    /\ walk' = [walk EXCEPT !.at = IF cut.next = Nothing THEN "ended" ELSE "asking",
                            !.cursor = cut.next, !.got = @ \o cut.page]
    /\ list' = Idle
    /\ load' = NoLoad
    /\ UNCHANGED <<files, stamp, cache, applied, phase, hidden, snapshot>>

\* The reply: a page of what the second load leaves, and none for a cursor that
\* is not an offset.
Replied ==
    LET tools == Shown(Own \o list.tools, ExcludeOf(load.read))
        cut == IF walk.cursor = Garbage THEN [page |-> <<>>, next |-> Nothing]
               ELSE Cut(tools, walk.cursor)
    IN
    /\ list.at = "second" /\ Returned("list")
    /\ walk' = [walk EXCEPT
          !.at = IF cut.next = Nothing THEN "ended" ELSE "asking",
          !.cursor = cut.next,
          !.got = @ \o cut.page,
          !.of = IF @ = Nothing /\ walk.cursor # Garbage THEN tools ELSE @,
          !.drifted = @ \/ (walk.of \notin {Nothing, tools})]
    /\ list' = Idle
    /\ load' = NoLoad
    /\ UNCHANGED <<files, stamp, cache, applied, phase, hidden, snapshot>>

\* A file that is not valid fails the request; the client gives up.
Refused ==
    /\ list.at \in {"first", "second"} /\ Threw("list")
    /\ walk' = NoWalk
    /\ list' = Idle
    /\ load' = NoLoad
    /\ UNCHANGED <<files, stamp, cache, applied, phase, hidden, snapshot>>

FrontEndNext ==
    \/ ConfigNext /\ UNCHANGED requestVars
    \/ StartWalk
    \/ Asked
    \/ Looked
    \/ Fetched
    \/ Replied
    \/ Refused

\* The handler goes on when its load, or the backends, are done (the manager
\* times out a backend that does not answer); the client follows its cursor.
FrontEndSpec ==
    /\ FrontEndInit /\ [][FrontEndNext]_vars
    /\ ConfigFairness
    /\ SF_vars(Asked) /\ WF_vars(Looked) /\ SF_vars(Fetched)
    /\ WF_vars(Replied) /\ WF_vars(Refused)

-----------------------------------------------------------------------------
(* Properties.                                                             *)

\* The pages put together are the list: a client that follows nextCursor to the
\* end through pages that were all cut from one filtered list has every tool of
\* it, in its order, once.  (Configuration, snapshot and backends may change
\* between two pages: then the pages need not fit.)
WalkIsExact ==
    walk.at = "ended" /\ ~walk.drifted /\ walk.of # Nothing => walk.got = walk.of

\* "a caller looping on nextCursor would otherwise never terminate"
\* (index.ts:513): whatever changes between the pages, the walk ends.
WalkEnds == walk.at = "asking" ~> walk.at \in {"ended", "resting"}

\* "Hide matching `server__tool` names completely" (README.md:283): no page has
\* a tool that a file excluded all the time from the request's last load on.
HiddenStaysHidden ==
    [][walk'.got # walk.got /\ walk'.at # "resting" =>
         \A i \in Len(walk.got) + 1 .. Len(walk'.got), p \in Paths :
             walk'.got[i] \notin hidden[p]]_vars

-----------------------------------------------------------------------------
(* What the properties rest on.                                            *)

\* A client waits while its request is served.  As long as its pages are cut from
\* one list, they are the list up to the cursor.
WalkShape ==
    /\ list.at # "idle" <=> walk.at = "waiting"
    /\ walk.at \in {"asking", "waiting"} => walk.cursor \in Nat \cup {Garbage}
    /\ walk.of = Nothing /\ walk.at \in {"asking", "waiting"}
          => walk.got = <<>> /\ walk.cursor \in {0, Garbage}
    /\ walk.of # Nothing /\ ~walk.drifted /\ walk.at \in {"asking", "waiting"}
          => /\ walk.cursor \in 0 .. Len(walk.of)
             /\ walk.got = SubSeq(walk.of, 1, walk.cursor)

FrontEndInv == FrontEndTypeOK /\ ConfigInv /\ WalkShape /\ WalkIsExact

=============================================================================
