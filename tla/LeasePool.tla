----------------------------- MODULE LeasePool -----------------------------
(***************************************************************************)
(* What the connection manager promises to those who call a backend        *)
(* through it, without slots, dials, retries or reloads: a call leases an  *)
(* open connection; a connection is retired under its leases and closed by *)
(* the last of them; and a connection may be lost at any time.             *)
(*                                                                         *)
(* ClientManager implements it (withClient, beginDrain, releaseConnection  *)
(* and closeConnection of src/mcp/client-manager.ts): see Pool there.      *)
(***************************************************************************)
CONSTANTS
    Conns,     \* connections; an id is used again once nobody holds it
    Callers,   \* concurrent withClient operations
    NoConn

VARIABLES
    stage,     \* what a connection is to its callers
    holder     \* the connection each caller has leased

vars == <<stage, holder>>

Holders(k) == {c \in Callers : holder[c] = k}

Init ==
    /\ stage = [k \in Conns |-> "closed"]
    /\ holder = [c \in Callers |-> NoConn]

\* A new connection serves; no lease of an earlier one of that id is left.
Open(k) ==
    /\ stage[k] = "closed"
    /\ Holders(k) = {}
    /\ stage' = [stage EXCEPT ![k] = "open"]
    /\ UNCHANGED holder

\* A lease is only ever taken on an open connection.
Take(c, k) ==
    /\ holder[c] = NoConn
    /\ stage[k] = "open"
    /\ holder' = [holder EXCEPT ![c] = k]
    /\ UNCHANGED stage

\* An open connection leaves service: at once, or with its last lease.
Left(k, holders) == IF holders = {} THEN "closed" ELSE "retired"

Retire(k) ==
    /\ stage[k] = "open"
    /\ stage' = [stage EXCEPT ![k] = Left(k, Holders(k))]
    /\ UNCHANGED holder

\* A lease is given back, after its holder may have had the connection retired.
Give(c, retire) ==
    LET k == holder[c] IN
    /\ k # NoConn
    /\ holder' = [holder EXCEPT ![c] = NoConn]
    /\ stage' = [stage EXCEPT ![k] =
                    IF @ = "retired" \/ (@ = "open" /\ retire)
                    THEN Left(k, Holders(k) \ {c}) ELSE @]

\* Backends exit and servers are taken out of service, under their leases.
Lose(lost) ==
    /\ lost # {}
    /\ stage' = [k \in Conns |-> IF k \in lost THEN "closed" ELSE stage[k]]
    /\ UNCHANGED holder

Next ==
    \/ \E k \in Conns : Open(k) \/ Retire(k)
    \/ \E c \in Callers, k \in Conns : Take(c, k)
    \/ \E c \in Callers, retire \in BOOLEAN : Give(c, retire)
    \/ \E lost \in SUBSET Conns : Lose(lost)

Spec == Init /\ [][Next]_vars

=============================================================================
