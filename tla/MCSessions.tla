----------------------------- MODULE MCSessions -----------------------------
(* TLC instances of Sessions.                                              *)
EXTENDS Sessions

\* Names without a colon keep their keys.
PlainNames == [k \in Keys |-> k]

=============================================================================
