--------------------------- MODULE MCIpcEndpoint ---------------------------
(* Small instances of IpcEndpoint. *)
EXTENDS IpcEndpoint

=============================================================================
