----------------------------- MODULE MCNameList -----------------------------
(* A small instance of NameList. *)
EXTENDS NameList, TLC

Symmetry == Permutations(Nodes) \cup Permutations(Names)

=============================================================================
