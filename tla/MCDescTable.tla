---------------------------- MODULE MCDescTable ----------------------------
(* Small instances of DescTableUse: 2 words of 2 bits, 5 pointers. *)
EXTENDS DescTableUse, TLC

Symmetry == Permutations(Values)

=============================================================================
