----------------------------- MODULE MCRteMgrd -----------------------------
(* Small instances of RteMgrd. *)
EXTENDS RteMgrd, TLC

Symmetry == Permutations(Names) \cup Permutations(Addrs)

=============================================================================
