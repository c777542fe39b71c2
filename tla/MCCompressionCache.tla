------------------------ MODULE MCCompressionCache ------------------------
(* TLC instances of CompressionCache.                                      *)
EXTENDS CompressionCache, TLC

CONSTANTS a, ab   \* the tools "a" and "a:b" of one server

\* Names without a colon keep their keys; "server:a:b" is saved as "server:a".
PlainNames == [k \in Keys |-> k]
ColonNames == [k \in Keys |-> IF k = ab THEN a ELSE k]

Symmetry == Permutations(Requests) \cup Permutations(Descs)

=============================================================================
