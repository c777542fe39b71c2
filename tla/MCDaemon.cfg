\* One command at a time that waits for its daemon, which may crash; one request
\* of a script of three steps.
SPECIFICATION RequestsSpec
CONSTANTS
    d1 = d1
    d2 = d2
    c1 = c1
    q1 = q1
    Daemons = {d1, d2}
    Commands = {c1}
    Hasty = FALSE
    NoDaemon = NoDaemon
    Corrupt = Corrupt
    Requests = {q1}
    Steps = 3
    Continue = {1}
    MaxEdits = 1
    Unread = Unread
INVARIANT RequestsTypeOK
INVARIANT OneDaemon
INVARIANT ServingIsFound
INVARIANT NoStrangerKilled
INVARIANT StopsAtFailure
PROPERTY CommandsEnd
PROPERTY RequestsSettle
PROPERTY RestartIsFresh
