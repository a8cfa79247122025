----------------------------- MODULE MCMessage -----------------------------
(* Small instances of Message. *)
EXTENDS Message

=============================================================================
