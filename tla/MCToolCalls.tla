---------------------------- MODULE MCToolCalls ----------------------------
(* TLC instances of ToolCalls.                                             *)
EXTENDS ToolCalls, TLC

Symmetry == Permutations(Slots) \cup Permutations(Conns) \cup Permutations(Callers)

=============================================================================
