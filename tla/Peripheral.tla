---------------------------- MODULE Peripheral ----------------------------
(***************************************************************************)
(* An endpoint of a device: ep_i2c.c, ep_spi.c, ep_gpio.c, ep_tty.c and    *)
(* ep_sysfs.c, between the endpoint it is bound to (the peer) and the      *)
(* device.                                                                 *)
(*                                                                         *)
(* Requests of the peer wait as frames in the endpoint's input; the        *)
(* on_data callback drains them in a loop, one iteration is one step.  The *)
(* callbacks of one event loop do not interleave: while on_data runs       *)
(* nothing else happens.  The buffers of the callback are local variables  *)
(* that survive from one iteration to the next.  Devices with input (a     *)
(* serial line, a GPIO input) write frames to the peer when the event loop *)
(* calls upstream.                                                         *)
(*                                                                         *)
(* The contents of a request are what the handlers tell apart: an empty    *)
(* frame, a bad one that the checks of the format refuse, or one with a    *)
(* number of bytes to write and the wish to read.                          *)
(***************************************************************************)
EXTENDS Naturals, Sequences

CONSTANTS
  WriteLens,   \* numbers of bytes that requests write
  MaxReqs,     \* bound: requests of the peer
  MaxInputs,   \* bound: bytes, or edges, of the device's input
  MaxReads,    \* bound: calls of upstream that read
  AllocFails   \* whether malloc may fail

ASSUME PeripheralAssumption == /\ WriteLens \subseteq Nat
                               /\ {MaxReqs, MaxInputs, MaxReads} \subseteq Nat
                               /\ AllocFails \in BOOLEAN

VARIABLES
  kind,        \* the kind of endpoint
  status,      \* "running", "closed", or "corrupt" once memory was misused
  bound,       \* self->bev is set
  asked,       \* the requests of the peer so far
  in,          \* numbers of the requests in the endpoint's input
  cb,          \* on_data: "idle", "scheduled" or "running"
  rx, xfer,    \* its buffers: "null", "live" or "freed"
  handled,     \* numbers of the requests that this call of on_data has drained
  device,      \* what the device has done: request and number of bytes
  out,         \* frames written to the peer
  inputs,      \* input that the device has made
  taken,       \* input that upstream has read
  reads,       \* calls of upstream that have read
  watching,    \* the event of upstream is installed
  fd,          \* what data->fd refers to: the device ("own"), nothing
               \* ("closed"), or a file of someone else ("other")
  foreign,     \* history: the endpoint has used a file of someone else
  incidents    \* history: failures that happened

vars == <<kind, status, bound, asked, in, cb, rx, xfer, handled, device, out,
          inputs, taken, reads, watching, fd, foreign, incidents>>

upVars == <<inputs, taken, reads, watching>>
fdVars == <<fd, foreign>>
inVars == <<asked, in, cb, rx, xfer, handled>>

Kinds == {"i2c", "spi", "tty", "gpio_in", "gpio_out", "sysfs"}
Request == [form : {"ok"}, w : WriteLens, r : BOOLEAN]
           \cup [form : {"empty", "bad"}, w : {0}, r : {FALSE}]

\* A frame to the peer: the request that it answers, or 0 and the input that it
\* begins with; and its length.
Frame == [n : Nat, first : Nat, len : Nat]

\* Kinds whose open installs upstream.
Watched == {"tty", "gpio_in"}

\* The endpoint has been opened, and is not bound yet.
Init ==
  /\ kind \in Kinds
  /\ status = "running" /\ bound = FALSE
  /\ asked = <<>> /\ in = <<>>
  /\ cb = "idle" /\ rx = "null" /\ xfer = "null" /\ handled = <<>>
  /\ device = <<>> /\ out = <<>>
  /\ inputs = 0 /\ taken = 0 /\ reads = 0
  /\ watching = (kind \in Watched)
  /\ fd = "own" /\ foreign = FALSE
  /\ incidents = {}

\* The event loop is between two callbacks.
Idle == status = "running" /\ cb # "running"

-----------------------------------------------------------------------------
(* The peer, and the owner of the endpoint *)

\* The peer's frame is complete in the endpoint's input.
PeerWrite(q) ==
  /\ Idle /\ bound /\ Len(asked) < MaxReqs
  /\ asked' = Append(asked, q)
  /\ in' = Append(in, Len(asked) + 1)
  /\ cb' = "scheduled"
  /\ UNCHANGED <<kind, status, bound, rx, xfer, handled, device, out, upVars, fdVars, incidents>>

\* rteipc_bind.
Bind ==
  /\ Idle /\ ~bound
  /\ bound' = TRUE
  /\ UNCHANGED <<kind, status, inVars, device, out, upVars, fdVars, incidents>>

\* rteipc_unbind frees the pair with the requests in it.
Unbind ==
  /\ Idle /\ bound
  /\ bound' = FALSE
  /\ in' = <<>> /\ cb' = "idle"
  /\ UNCHANGED <<kind, status, asked, rx, xfer, handled, device, out, upVars, fdVars, incidents>>

\* The close of the kind removes the event and closes the descriptor.
Close ==
  /\ Idle
  /\ status' = "closed"
  /\ bound' = FALSE /\ in' = <<>> /\ cb' = "idle"
  /\ watching' = FALSE
  /\ fd' = "closed"
  /\ foreign' = (foreign \/ fd = "other")
  /\ UNCHANGED <<kind, asked, rx, xfer, handled, device, out, inputs, taken, reads, incidents>>

\* Another part of the process opens a file, which gets the free descriptor.
OtherOpens ==
  /\ Idle /\ fd = "closed"
  /\ fd' = "other"
  /\ UNCHANGED <<kind, status, bound, inVars, device, out, upVars, foreign, incidents>>

-----------------------------------------------------------------------------
(* The loop of on_data *)

\* The event loop calls on_data, which sets its pointers to NULL.
Enter ==
  /\ status = "running" /\ cb = "scheduled"
  /\ cb' = "running"
  /\ rx' = "null" /\ xfer' = "null" /\ handled' = <<>>
  /\ UNCHANGED <<kind, status, bound, asked, in, device, out, upVars, fdVars, incidents>>

\* rteipc_msg_drain has a message to return.
HasMessage == in # <<>> /\ asked[Head(in)].form # "empty"

\* It returns 0, or -1 when malloc fails, and on_data returns with its locals.
DrainStops ==
  /\ status = "running" /\ cb = "running"
  /\ \/ ~HasMessage /\ UNCHANGED incidents
     \/ HasMessage /\ AllocFails /\ incidents' = incidents \cup {"nomem"}
  /\ cb' = "idle"
  /\ rx' = "null" /\ xfer' = "null" /\ handled' = <<>>
  /\ UNCHANGED <<kind, status, bound, asked, in, device, out, upVars, fdVars>>

\* It returns message n, and the iteration goes on.
Drain(n) ==
  /\ status = "running" /\ cb = "running" /\ HasMessage
  /\ n = Head(in)
  /\ in' = Tail(in)
  /\ handled' = Append(handled, n)
  /\ UNCHANGED <<kind, bound, asked, upVars>>

\* Mutant: the handler returns.
FreeMsgReturns(rx1, xfer1) ==
  /\ status' = IF "freed" \in {rx1, xfer1} THEN "corrupt" ELSE status
  /\ rx' = IF rx1 = "null" THEN "null" ELSE "freed"
  /\ xfer' = IF xfer1 = "null" THEN "null" ELSE "freed"
  /\ cb' = "idle"

\* The label free_msg, with the pointers that the iteration got to.  A pointer
\* that is not NULL is freed, and keeps its value.
FreeMsg(rx1, xfer1) ==
  /\ status' = IF "freed" \in {rx1, xfer1} THEN "corrupt" ELSE status
  /\ rx' = IF rx1 = "null" THEN "null" ELSE "freed"
  /\ xfer' = IF xfer1 = "null" THEN "null" ELSE "freed"
  /\ UNCHANGED cb

\* The device takes len bytes of request n.
Perform(n, len) == device' = Append(device, [n |-> n, len |-> len])

\* rteipc_buffer, if the endpoint is bound and wanted holds.
Reply(wanted, n, len) ==
  out' = IF bound /\ wanted THEN Append(out, [n |-> n, first |-> 0, len |-> len]) ELSE out

-----------------------------------------------------------------------------
(* One iteration of each kind *)

\* Mutant: a buffer is taken to be there when the pointer is not NULL.
I2cBufferKept(q) == IF q.r /\ rx = "null" THEN "live" ELSE rx

\* rx_buf after its allocation.
I2cBuffer(q) == IF q.r THEN "live" ELSE rx

\* i2c_on_data.  The length of what is read is 1.
I2cRequest(n) ==
  LET q == asked[n]
      valid == q.form = "ok" /\ (q.w > 0 \/ q.r)
  IN
  /\ kind = "i2c" /\ Drain(n)
  /\ \/ ~valid /\ FreeMsg(rx, xfer) /\ UNCHANGED <<device, out, incidents>>
     \/ /\ valid /\ q.r /\ AllocFails
        /\ FreeMsg("null", xfer)
        /\ incidents' = incidents \cup {"nomem"}
        /\ UNCHANGED <<device, out>>
     \/ /\ valid
        /\ FreeMsg(I2cBuffer(q), xfer)
        /\ \/ UNCHANGED <<device, out>>                    \* ioctl fails
           \/ Perform(n, q.w) /\ Reply(q.r, n, 1)
        /\ UNCHANGED incidents
  /\ UNCHANGED fdVars

\* Mutant: the reply is sent whatever was transferred.
SpiTransferReplies(n, q) ==
  \E k \in 0 .. q.w : Perform(n, k) /\ Reply(q.r, n, q.w)

\* The loop over the bytes stops at the first that fails, and then there is no
\* reply.
SpiTransfer(n, q) ==
  \E k \in 0 .. q.w : Perform(n, k) /\ Reply(q.r /\ k = q.w, n, q.w)

\* spidev_on_data.  (malloc and calloc of 0 bytes return a pointer.)
SpiRequest(n) ==
  LET q == asked[n] IN
  /\ kind = "spi" /\ Drain(n)
  /\ \/ q.form = "bad" /\ FreeMsg(rx, xfer) /\ UNCHANGED <<device, out, incidents>>
     \/ /\ q.form = "ok" /\ AllocFails
        /\ \/ FreeMsg("null", "live") \/ FreeMsg("live", "null") \/ FreeMsg("null", "null")
        /\ incidents' = incidents \cup {"nomem"}
        /\ UNCHANGED <<device, out>>
     \/ /\ q.form = "ok"
        /\ FreeMsg("live", "live")
        /\ SpiTransfer(n, q)
        /\ UNCHANGED incidents
  /\ UNCHANGED fdVars

\* gpio_on_data: only an output is set.
GpioRequest(n) ==
  /\ kind \in {"gpio_in", "gpio_out"} /\ Drain(n)
  /\ FreeMsg("null", "null")
  /\ IF kind = "gpio_out" /\ asked[n].form = "ok" THEN Perform(n, 1) ELSE UNCHANGED device
  /\ UNCHANGED <<out, fdVars, incidents>>

\* sysfs_on_data: "attr=value" is a write, "attr" a read.  Without memory for
\* the copy, strchr gets a null pointer.
SysfsRequest(n) ==
  LET q == asked[n] IN
  /\ kind = "sysfs" /\ Drain(n)
  /\ \/ /\ AllocFails
        /\ status' = "corrupt"
        /\ incidents' = incidents \cup {"nomem"}
        /\ UNCHANGED <<cb, rx, xfer, device, out>>
     \/ /\ FreeMsg("null", "null")
        /\ \/ UNCHANGED <<device, out>>                    \* no such attribute
           \/ Perform(n, q.w) /\ Reply(q.w = 0, n, 1)
        /\ UNCHANGED incidents
  /\ UNCHANGED fdVars

\* The bytes of a message to a serial line: two, so that a write can be partial.
TtyLen == 2

\* rteipc_msg_write retries until all is written; an error closes the
\* descriptor, and its event with it, and the caller goes on.
MsgWrite(n) ==
  \/ fd = "own" /\ Perform(n, TtyLen) /\ UNCHANGED <<fdVars, incidents>>
  \/ /\ fd = "own" /\ fd' = "closed"
     /\ \E k \in 0 .. TtyLen - 1 : Perform(n, k)
     /\ incidents' = incidents \cup {"write_error"}
     /\ UNCHANGED foreign
  \/ fd = "closed" /\ UNCHANGED <<device, fdVars, incidents>>
  \/ fd = "other" /\ foreign' = TRUE /\ fd' \in {"other", "closed"} /\ UNCHANGED <<device, incidents>>

\* tty_on_data: every message is written.
TtyRequest(n) ==
  /\ kind = "tty" /\ Drain(n)
  /\ FreeMsg("null", "null")
  /\ MsgWrite(n)
  /\ UNCHANGED out

-----------------------------------------------------------------------------
(* The device's input *)

DeviceInput ==
  /\ Idle /\ kind \in Watched /\ inputs < MaxInputs
  /\ inputs' = inputs + 1
  /\ UNCHANGED <<kind, status, bound, inVars, device, out, taken, reads, watching, fdVars, incidents>>

\* The event loop may call upstream.  Closing the descriptor ends the event.
Upstream(k) ==
  /\ Idle /\ kind = k /\ watching /\ fd = "own" /\ reads < MaxReads
  /\ reads' = reads + 1
  /\ UNCHANGED <<kind, status, bound, inVars, device, inputs, fdVars>>

Forward(len) == out' = Append(out, [n |-> 0, first |-> taken + 1, len |-> len])

\* Mutant: data is read before it is known whether there is a peer.
TtyReadUnbound(len) ==
  /\ Upstream("tty")
  /\ taken' = taken + len
  /\ IF bound THEN Forward(len) ELSE UNCHANGED out
  /\ UNCHANGED <<watching, incidents>>

\* upstream of ep_tty.c reads len bytes.  Not bound, it returns at once, and
\* the data stays in the line.
TtyRead(len) ==
  /\ Upstream("tty") /\ bound
  /\ taken' = taken + len
  /\ Forward(len)
  /\ UNCHANGED <<watching, incidents>>

\* Mutant: 0 is not seen as the end.
TtyHangupForwards ==
  /\ Upstream("tty") /\ bound
  /\ Forward(0)
  /\ UNCHANGED <<taken, watching, incidents>>

\* read returns 0.
TtyHangup ==
  /\ Upstream("tty") /\ bound
  /\ watching' = FALSE
  /\ UNCHANGED <<out, taken, incidents>>

\* read returns -1.  len is unsigned and the error is not seen; evbuffer_add
\* refuses so many bytes, and an empty frame is written.
TtyReadError ==
  /\ Upstream("tty") /\ bound
  /\ Forward(0)
  /\ incidents' = incidents \cup {"read_error"}
  /\ UNCHANGED <<taken, watching>>

\* upstream of ep_gpio.c reads an edge, and discards it when not bound.
GpioEvent ==
  /\ Upstream("gpio_in") /\ taken < inputs
  /\ taken' = taken + 1
  /\ IF bound THEN Forward(1) ELSE UNCHANGED out
  /\ UNCHANGED <<watching, incidents>>

GpioError ==
  /\ Upstream("gpio_in")
  /\ watching' = FALSE
  /\ UNCHANGED <<out, taken, incidents>>

-----------------------------------------------------------------------------

Handle(n) == I2cRequest(n) \/ SpiRequest(n) \/ GpioRequest(n) \/ SysfsRequest(n) \/ TtyRequest(n)

OnData == DrainStops \/ \E n \in 1 .. Len(asked) : Handle(n)

Next ==
  \/ \E q \in Request : PeerWrite(q)
  \/ Bind \/ Unbind \/ Close \/ OtherOpens
  \/ Enter
  \/ DrainStops
  \/ \E n \in 1 .. Len(asked) : Handle(n)
  \/ DeviceInput
  \/ \E len \in 1 .. inputs - taken : TtyRead(len)
  \/ TtyHangup \/ TtyReadError
  \/ GpioEvent \/ GpioError

\* The event loop calls a scheduled callback, and a callback goes on.
Fairness == WF_vars(Enter) /\ WF_vars(OnData)

Spec == Init /\ [][Next]_vars
FairSpec == Spec /\ Fairness

-----------------------------------------------------------------------------
(* Properties *)

\* The variables have their types.
TypeOK ==
  /\ kind \in Kinds
  /\ status \in {"running", "closed", "corrupt"}
  /\ asked \in Seq(Request)
  /\ in \in Seq(1 .. Len(asked)) /\ handled \in Seq(1 .. Len(asked))
  /\ cb \in {"idle", "scheduled", "running"}
  /\ {rx, xfer} \subseteq {"null", "live", "freed"}
  /\ device \in Seq([n : 1 .. Len(asked), len : Nat])
  /\ out \in Seq(Frame)
  /\ inputs \in 0 .. MaxInputs /\ taken \in 0 .. inputs /\ reads \in 0 .. MaxReads
  /\ {bound, watching, foreign} \subseteq BOOLEAN
  /\ fd \in {"own", "closed", "other"}
  /\ incidents \subseteq {"nomem", "write_error", "read_error"}

\* The request makes its handler allocate.
Allocates(q) ==
  q.form = "ok" /\ (kind = "spi" \/ (kind = "i2c" /\ q.r))

\* As long as malloc succeeds, a buffer is freed twice only when one call of
\* on_data drains a request that needs no buffer after one that had one.
BuffersFreedOnce ==
  status = "corrupt" /\ "nomem" \notin incidents =>
    \E j, k \in 1 .. Len(handled) :
      j < k /\ Allocates(asked[handled[j]]) /\ ~Allocates(asked[handled[k]])

Replies == {k \in 1 .. Len(out) : out[k].n # 0}

\* The request asks for an answer.
Wants(q) == \/ kind \in {"i2c", "spi"} /\ q.r
            \/ kind = "sysfs" /\ q.w = 0

\* The device gets the requests in order and at most once each, and the peer
\* gets in order exactly one reply for each of its requests that the device has
\* done completely and that asks for one.
RepliesMatchRequests ==
  /\ \A j, k \in 1 .. Len(device) : j < k => device[j].n < device[k].n
  /\ \A j, k \in Replies : j < k => out[j].n < out[k].n
  /\ {out[k].n : k \in Replies} =
       {device[k].n : k \in {j \in 1 .. Len(device) :
          LET q == asked[device[j].n] IN Wants(q) /\ device[j].len = q.w}}

\* A frame without contents, at which rteipc_msg_drain of the peer stops for
\* good, comes only from an SPI request to read nothing or from a failing read
\* of a serial line.
NoEmptyFrames ==
  \A k \in 1 .. Len(out) : out[k].len = 0 =>
    \/ kind = "spi" /\ asked[out[k].n].w = 0
    \/ "read_error" \in incidents

\* The endpoint uses and closes no file but its own, as long as no write to
\* the device fails.
OwnDescriptor == foreign => "write_error" \in incidents

\* What a handler frees or closes is its own, and only once, except for the
\* batches and the failing writes that these two name.
ResourcesAreOwned == BuffersFreedOnce /\ OwnDescriptor

\* Frames of the device's input, and the input after frame k.
Inputs == {k \in 1 .. Len(out) : out[k].n = 0}
EndOf(k) == out[k].first + out[k].len

\* The device's input reaches the peer in order and at most once.  A serial
\* line loses nothing that was read: input that comes before the binding waits.
InputInOrder ==
  /\ \A j, k \in Inputs : j < k => EndOf(j) <= out[k].first
  /\ \A k \in Inputs : EndOf(k) <= taken + 1
  /\ kind = "tty" =>
       \A i \in 1 .. taken : \E k \in Inputs : i \in out[k].first .. EndOf(k) - 1

\* A request leaves the endpoint's input without waiting for another one, if no
\* empty frame was sent before it and malloc succeeds.
RequestsAreHandled ==
  \A n \in 1 .. MaxReqs :
    []((\E k \in 1 .. Len(in) : in[k] = n)
         => <>(\/ \A k \in 1 .. Len(in) : in[k] # n
               \/ \E k \in 1 .. n : asked[k].form = "empty"
               \/ status = "corrupt" \/ "nomem" \in incidents))

=============================================================================
