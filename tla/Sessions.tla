------------------------------ MODULE Sessions ------------------------------
(***************************************************************************)
(* The sessions in which a client expands tools to their original          *)
(* descriptions (src/services/session-manager.ts), the proxy's current     *)
(* session, and tools/list (src/index.ts), over the compression cache.     *)
(*                                                                         *)
(* The sessions of the manager and the session id the entry point keeps    *)
(* are two pieces of state: a sweep removes sessions that were not used    *)
(* for 30 minutes without telling the entry point.                         *)
(*                                                                         *)
(* Abstracted: time is counted in periods of 30 minutes, rounded down; an  *)
(* id is used again once its session is gone and nothing refers to it.     *)
(***************************************************************************)
EXTENDS CompressionCache

CONSTANTS
    SessionIds,  \* session ids
    NoSession    \* no session is active

ASSUME SessionAssumption == NoSession \notin SessionIds

VARIABLES
    sessions,    \* this.sessions of the session manager
    current,     \* currentSessionId of the entry point
    unlisted     \* history: periods since the session last listed a backend tool

sessionVars == <<sessions, current, unlisted>>
allVars == <<vars, sessionVars>>

\* SESSION_TIMEOUT_MS is one period; time is not counted beyond the next one.
Timeout == 1
Periods == 0 .. Timeout + 1

SessionRecords ==
    [alive:    BOOLEAN,
     idle:     Periods,            \* since lastAccessedAt
     expanded: SUBSET Keys]

NoSuchSession == [alive |-> FALSE, idle |-> 0, expanded |-> {}]

\* The sessions' types; nothing is kept of a session that is gone.
SessionsTypeOK ==
    /\ TypeOK
    /\ sessions \in [SessionIds -> SessionRecords]
    /\ \A i \in SessionIds : sessions[i].alive \/ sessions[i] = NoSuchSession
    /\ current \in SessionIds \cup {NoSession}
    /\ unlisted \in [SessionIds -> Periods]

Restarted ==
    /\ sessions' = [i \in SessionIds |-> NoSuchSession]
    /\ current' = NoSession
    /\ unlisted' = [i \in SessionIds |-> 0]

SessionsInit ==
    /\ Init
    /\ sessions = [i \in SessionIds |-> NoSuchSession]
    /\ current = NoSession
    /\ unlisted = [i \in SessionIds |-> 0]

-----------------------------------------------------------------------------
(* SessionManager.                                                         *)

Touched(i) == [sessions EXCEPT ![i].idle = 0]

\* Mutant of Expand: a session that is gone is written to.
ExpandUnchecked(i, k) ==
    sessions' = [Touched(i) EXCEPT ![i].expanded = @ \cup {k}]

\* expandTool: a session that is gone is left alone, and so is one in which
\* the tool is expanded already.
Expand(i, k) ==
    sessions' = IF sessions[i].alive /\ k \notin sessions[i].expanded
                THEN [Touched(i) EXCEPT ![i].expanded = @ \cup {k}]
                ELSE sessions

\* collapseTool.
Collapse(i, k) ==
    sessions' = IF k \in sessions[i].expanded
                THEN [Touched(i) EXCEPT ![i].expanded = @ \ {k}]
                ELSE sessions

\* Mutant of ReadTools: reading does not count as use.
ReadToolsQuietly(listing) == sessions' = sessions

\* isToolExpanded of every backend tool that is listed: reading counts as use.
ReadTools(listing) ==
    sessions' =
        IF /\ \E t \in Tools : listing[t] # Missing
           /\ current # NoSession
           /\ sessions[current].alive
        THEN Touched(current) ELSE sessions

\* lastAccessedAt is more than SESSION_TIMEOUT_MS ago.
Expired(s) == s.alive /\ s.idle > Timeout

-----------------------------------------------------------------------------
(* The requests of the entry point.                                        *)

\* create_session.
CreateSession ==
    /\ up
    /\ \E i \in SessionIds \ {current} :
          /\ ~sessions[i].alive
          /\ sessions' = [sessions EXCEPT ![i] = [NoSuchSession EXCEPT !.alive = TRUE]]
          /\ unlisted' = [unlisted EXCEPT ![i] = 0]
          /\ current' = i
    /\ UNCHANGED vars

\* delete_session, which the entry point forgets whether or not it existed.
DeleteSession(i) ==
    /\ up
    /\ sessions[i].alive \/ current = i
    /\ sessions' = [sessions EXCEPT ![i] = NoSuchSession]
    /\ current' = IF current = i THEN NoSession ELSE current
    /\ UNCHANGED <<vars, unlisted>>

\* set_session: an unknown id is refused; the session is not touched.
SetSession(i) ==
    /\ up
    /\ sessions[i].alive
    /\ current' = i
    /\ UNCHANGED <<vars, sessions, unlisted>>

\* expand_tool and collapse_tool: what the manager answers is not looked at.
ExpandTool(k) ==
    /\ up
    /\ current # NoSession
    /\ HasCompressed(k)
    /\ Expand(current, k)
    /\ UNCHANGED <<vars, current, unlisted>>

CollapseTool(k) ==
    /\ up
    /\ current # NoSession
    /\ Collapse(current, k)
    /\ UNCHANGED <<vars, current, unlisted>>

\* tools/list: every tool listed is looked up in the current session.
ListTools ==
    /\ up
    /\ \E listing \in FetchResults :
          /\ snapshot' = listing
          /\ ReadTools(listing)
          /\ unlisted' = IF current # NoSession /\ sessions[current].alive
                            /\ \E t \in Tools : listing[t] # Missing
                         THEN [unlisted EXCEPT ![current] = 0] ELSE unlisted
    /\ UNCHANGED <<live, memory, file, offered, request, gone, failed, up, current>>

-----------------------------------------------------------------------------
(* Time.                                                                   *)

Later(n) == IF n > Timeout THEN n ELSE n + 1

Tick ==
    /\ up
    /\ sessions' = [i \in SessionIds |->
          IF sessions[i].alive THEN [sessions[i] EXCEPT !.idle = Later(@)]
          ELSE sessions[i]]
    /\ unlisted' = [i \in SessionIds |->
          IF sessions[i].alive THEN Later(unlisted[i]) ELSE unlisted[i]]
    /\ UNCHANGED <<vars, current>>

\* Mutant of Cleanup: the sweep spares the current session.
CleanupOthers ==
    /\ up
    /\ sessions' = [i \in SessionIds |->
          IF Expired(sessions[i]) /\ i # current THEN NoSuchSession ELSE sessions[i]]
    /\ UNCHANGED <<vars, current, unlisted>>

\* cleanupExpiredSessions, every five minutes.
Cleanup ==
    /\ up
    /\ sessions' = [i \in SessionIds |->
          IF Expired(sessions[i]) THEN NoSuchSession ELSE sessions[i]]
    /\ UNCHANGED <<vars, current, unlisted>>

\* The other requests leave the sessions alone; a new process has none.
CacheStep ==
    /\ Next
    /\ IF up' THEN UNCHANGED sessionVars ELSE Restarted

SessionsNext ==
    \/ CacheStep
    \/ CreateSession
    \/ \E i \in SessionIds : DeleteSession(i) \/ SetSession(i)
    \/ \E k \in Keys : ExpandTool(k) \/ CollapseTool(k)
    \/ ListTools
    \/ Tick
    \/ Cleanup

SessionsSpec ==
    SessionsInit /\ [][SessionsNext]_allVars /\ WF_allVars(Tick) /\ WF_allVars(Cleanup)

-----------------------------------------------------------------------------
(* Properties.                                                             *)

\* Tools that a client expanded do not collapse under it (session-manager.ts:
\* "its expanded tools silently collapse back to compressed descriptions"): if
\* the session the entry point works in is gone, no backend tool was listed in
\* it for 30 minutes, whatever sessions were created, deleted and switched
\* between meanwhile.
LostOnlyUnused ==
    current # NoSession /\ ~sessions[current].alive => unlisted[current] > Timeout

\* "Sessions expire after 30 minutes of inactivity" (SECURITY.md:85): a session
\* no request touches any more is removed, also when it is the current one.
UnusedExpires ==
    \A i \in SessionIds :
        sessions[i].alive /\ sessions[i].idle > Timeout
            ~> ~sessions[i].alive \/ sessions[i].idle = 0

-----------------------------------------------------------------------------
(* What the properties rest on.                                            *)

\* Listing a tool in a session uses it.
UseShape == \A i \in SessionIds : sessions[i].alive => sessions[i].idle <= unlisted[i]

SessionsInv == SessionsTypeOK /\ UseShape /\ LostOnlyUnused

=============================================================================
