--------------------------- MODULE MCPeripheral ---------------------------
(* Small instances of Peripheral. *)
EXTENDS Peripheral

=============================================================================
