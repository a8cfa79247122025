-------------------------------- MODULE Fifo --------------------------------
(***************************************************************************)
(* What the message framing promises: a queue of messages.  A message      *)
(* whose length does not fit the length field voids the promise.  Message  *)
(* implements it.                                                          *)
(***************************************************************************)
EXTENDS Sequences

CONSTANT Messages

VARIABLES
  queue,    \* the messages that are sent and not received, oldest first
  got,      \* the messages that are received
  fits      \* no message was too long

Init == queue = <<>> /\ got = <<>> /\ fits = TRUE

\* A message is sent.
Put ==
  /\ fits /\ fits'
  /\ queue' # <<>>
  /\ LET m == queue'[Len(queue')] IN m \in Messages /\ queue' = Append(queue, m)
  /\ UNCHANGED got

\* The oldest message is received, whole.
Get ==
  /\ fits /\ fits'
  /\ queue # <<>>
  /\ queue' = Tail(queue)
  /\ got' = Append(got, Head(queue))

\* A message is sent that is too long; from now on anything may be received.
Void == ~fits'

Next == Put \/ Get \/ Void

Spec == Init /\ [][Next]_<<queue, got, fits>>

=============================================================================
