----------------------------- MODULE MCConnect -----------------------------
(* Small instances of Connect. *)
EXTENDS Connect, TLC

Symmetry == Permutations(Values) \cup Permutations(Threads)

=============================================================================
