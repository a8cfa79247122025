--------------------------- MODULE MCCtlProtocol ---------------------------
(* Small instances of CtlProtocol. *)
EXTENDS CtlProtocol

=============================================================================
