-------------------------- MODULE MCClientManager --------------------------
(* TLC instances of ClientManager.                                         *)
EXTENDS ClientManager, TLC

Symmetry == Permutations(Slots) \cup Permutations(Conns) \cup Permutations(Callers)

=============================================================================
