--------------------------- MODULE MCPayloadStore ---------------------------
(* TLC instances of PayloadStore.                                          *)
EXTENDS PayloadStore, TLC

Symmetry == Permutations(Outputs) \cup Permutations(Stores)

=============================================================================
