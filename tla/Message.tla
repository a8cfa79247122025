------------------------------ MODULE Message ------------------------------
(***************************************************************************)
(* The message framing of message.c, from a sender to a reader.            *)
(*                                                                         *)
(* rteipc_evbuffer puts a 4-byte length in front of each message, as       *)
(* 32-bit unsigned integer, and appends both to a byte stream.  The stream *)
(* reaches the reader's evbuffer in pieces of any size.  The reader is a   *)
(* read callback (loop_on_data, connect_read_cb, the on_data handlers of   *)
(* the peripherals) that calls rteipc_msg_drain until it returns something *)
(* other than 1.                                                           *)
(*                                                                         *)
(* Bytes are not represented: the stream is the list of the frames in it,  *)
(* each with the offset at which it starts, and the evbuffer is the        *)
(* interval of offsets from drained up to arrived.                         *)
(***************************************************************************)
EXTENDS Integers, Sequences

CONSTANTS
  Hdr,        \* bytes of the length field (4)
  Mod,        \* number of values of the length field (2^32)
  Lens,       \* message lengths that the sender uses
  MaxFrames,  \* bound: messages that are sent
  AllocFails  \* whether malloc may return NULL

ASSUME HdrAssumption == Hdr \in Nat \ {0}
ASSUME ModAssumption == Mod \in Nat /\ Mod > Hdr
ASSUME LensAssumption == Lens \subseteq Nat
ASSUME MaxFramesAssumption == MaxFrames \in Nat

VARIABLES
  frames,     \* the frames written so far, [start, len]
  written,    \* bytes written to the stream
  arrived,    \* bytes of the stream that have reached the reader's evbuffer
  drained,    \* bytes that the reader has removed from it
  delivered,  \* the messages given to the reader, [start, len]
  cb,         \* the read callback: "idle", "scheduled" or "running"
  starved     \* history: a malloc in rteipc_msg_drain has failed

vars == <<frames, written, arrived, drained, delivered, cb, starved>>

Frame == [start : Nat, len : Nat]

Init ==
  /\ frames = <<>>
  /\ written = 0
  /\ arrived = 0
  /\ drained = 0
  /\ delivered = <<>>
  /\ cb = "idle"
  /\ starved = FALSE

\* rteipc_evbuffer (rteipc_buffer ends in it): length field and message are
\* appended in one piece.
Send(len) ==
  /\ Len(frames) < MaxFrames
  /\ frames' = Append(frames, [start |-> written, len |-> len])
  /\ written' = written + Hdr + len
  /\ UNCHANGED <<arrived, drained, delivered, cb, starved>>

\* The event loop adds n bytes to the evbuffer and schedules the callback.
Arrive(n) ==
  /\ cb # "running"
  /\ arrived' = arrived + n
  /\ cb' = "scheduled"
  /\ UNCHANGED <<frames, written, drained, delivered, starved>>

\* The event loop calls the read callback.
Enter ==
  /\ cb = "scheduled"
  /\ cb' = "running"
  /\ UNCHANGED <<frames, written, arrived, drained, delivered, starved>>

-----------------------------------------------------------------------------
(* rteipc_msg_drain *)

BufLen == arrived - drained

\* What the first bytes of the evbuffer may say when read as a length field:
\* the truth at the start of a frame, anything in the middle of one.
Headers ==
  IF \E k \in 1 .. Len(frames) : frames[k].start = drained
    THEN {frames[k].len % Mod : k \in {j \in 1 .. Len(frames) : frames[j].start = drained}}
    ELSE 0 .. Mod - 1

\* Mutant: the length field itself is not counted.
MsgLengthNoHeader(header) ==
  IF BufLen < Hdr \/ BufLen < header THEN 0 ELSE header

\* msg_length, where header is the length field.  The sum msglen + 4 is
\* computed in 32 bits.
MsgLength(header) ==
  IF BufLen < Hdr \/ BufLen < (header + Hdr) % Mod THEN 0 ELSE header

\* Mutant: the length is trusted.
RemovedUnchecked(len) == len

\* Bytes that evbuffer_remove can take after the length field.
Removed(len) == IF len <= BufLen - Hdr THEN len ELSE BufLen - Hdr

\* Mutant: the callback returns after one message.
DrainMessageOnce(header) ==
  LET len == MsgLength(header) IN
  /\ cb = "running"
  /\ len > 0
  /\ drained' = drained + Hdr + Removed(len)
  /\ delivered' = Append(delivered, [start |-> drained, len |-> len])
  /\ cb' = "idle"
  /\ UNCHANGED <<frames, written, arrived, starved>>

\* Mutant: the message is copied and stays in the evbuffer.
DrainMessageCopies(header) ==
  LET len == MsgLength(header) IN
  /\ cb = "running"
  /\ len > 0
  /\ drained' = drained + Hdr
  /\ delivered' = Append(delivered, [start |-> drained, len |-> len])
  /\ UNCHANGED <<frames, written, arrived, cb, starved>>

\* rteipc_msg_drain returns 1 and the callback goes on.
DrainMessage(header) ==
  LET len == MsgLength(header) IN
  /\ cb = "running"
  /\ len > 0
  /\ drained' = drained + Hdr + Removed(len)
  /\ delivered' = Append(delivered, [start |-> drained, len |-> len])
  /\ UNCHANGED <<frames, written, arrived, cb, starved>>

\* rteipc_msg_drain returns 0 and the callback returns.
DrainNothing(header) ==
  /\ cb = "running"
  /\ MsgLength(header) = 0
  /\ cb' = "idle"
  /\ UNCHANGED <<frames, written, arrived, drained, delivered, starved>>

\* rteipc_msg_drain returns -1 and the callback returns.
DrainFails(header) ==
  /\ AllocFails
  /\ cb = "running"
  /\ MsgLength(header) > 0
  /\ cb' = "idle"
  /\ starved' = TRUE
  /\ UNCHANGED <<frames, written, arrived, drained, delivered>>

DrainStep == \E header \in Headers : DrainMessage(header) \/ DrainNothing(header)

Next ==
  \/ \E len \in Lens : Send(len)
  \/ \E n \in 1 .. written - arrived : Arrive(n)
  \/ Enter
  \/ DrainStep
  \/ \E header \in Headers : DrainFails(header)

\* The event loop keeps moving bytes and running scheduled callbacks; nothing
\* obliges the sender to send.
Fairness ==
  /\ WF_vars(\E n \in 1 .. written - arrived : Arrive(n))
  /\ WF_vars(Enter)
  /\ WF_vars(DrainStep)

Spec == Init /\ [][Next]_vars
FairSpec == Spec /\ Fairness

-----------------------------------------------------------------------------
(* Properties *)

\* The variables have their types.
TypeOK ==
  /\ frames \in Seq(Frame)
  /\ written \in Nat
  /\ arrived \in 0 .. written
  /\ drained \in 0 .. arrived
  /\ delivered \in Seq(Frame)
  /\ cb \in {"idle", "scheduled", "running"}
  /\ starved \in BOOLEAN

\* Every message so far fits the length field with room for the field itself.
FramesFit == \A k \in 1 .. Len(frames) : frames[k].len + Hdr < Mod

\* However the stream is cut into pieces, the reader gets the messages that
\* were sent, whole, in order and without a gap: rteipc_msg_drain never reads
\* a length in the middle of a message.
DeliversInOrder ==
  FramesFit =>
    /\ Len(delivered) <= Len(frames)
    /\ \A k \in 1 .. Len(delivered) : delivered[k] = frames[k]

\* No message that fits waits forever, if none of length 0 is sent before it
\* and no malloc fails.
EventuallyDelivered ==
  \A k \in 1 .. MaxFrames :
    [](k <= Len(frames) /\ FramesFit /\ (\A j \in 1 .. k : frames[j].len > 0)
        => <>(k <= Len(delivered) \/ ~FramesFit \/ starved))

\* The reader's side of the stream, cut anywhere, and the loop around
\* rteipc_msg_drain implement a queue: in each step one message enters at the end,
\* one leaves at the front, or none does.
Waiting == SubSeq(frames, Len(delivered) + 1, Len(frames))

Abstract == INSTANCE Fifo WITH Messages <- Frame, queue <- Waiting, got <- delivered,
                               fits <- FramesFit

ImplementsFifo == Abstract!Spec

=============================================================================
