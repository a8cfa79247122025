-------------------------- MODULE PeripheralProofs --------------------------
(* Proofs about the endpoints of devices, for every number of requests, of   *)
(* bytes that they write and of input.                                       *)
EXTENDS Peripheral, SequenceTheorems, TLAPS

-----------------------------------------------------------------------------
(* The inductive invariant *)

\* on_data is called only with a peer, and keeps no buffer that it has not freed
\* from one iteration to the next.
LoopOK ==
  /\ cb # "idle" => bound
  /\ status = "running" => rx # "live" /\ xfer # "live"

\* The input is in the order of the requests, and after all that the device did.
InOrder ==
  /\ \A j, k \in 1 .. Len(in) : j < k => in[j] < in[k]
  /\ \A j \in 1 .. Len(device), k \in 1 .. Len(in) : device[j].n < in[k]

\* Buffers that are left freed by an earlier iteration.
LeftOK ==
  /\ kind = "i2c" => xfer = "null"
  /\ "freed" \in {rx, xfer} => \E j \in 1 .. Len(handled) : Allocates(asked[handled[j]])

\* A descriptor that is not its own any more.
FdOK == status = "running" /\ fd # "own" => "write_error" \in incidents

\* Frames of input come from the kinds that have input, and replies answer
\* requests.
OutOK == \A k \in 1 .. Len(out) : IF out[k].n = 0 THEN kind \in Watched
                                                  ELSE out[k].n \in 1 .. Len(asked)

\* The invariant that every action preserves.
PerInv == /\ TypeOK /\ LoopOK /\ InOrder /\ LeftOK /\ FdOK /\ OutOK
          /\ BuffersFreedOnce /\ OwnDescriptor /\ RepliesMatchRequests
          /\ NoEmptyFrames /\ InputInOrder

-----------------------------------------------------------------------------
(* Replies *)

\* The j-th thing that the device did is all of a request that wants a reply.
Complete(j) == LET q == asked[device[j].n] IN Wants(q) /\ device[j].len = q.w

\* RepliesMatchRequests, element by element.
RepliesOK ==
  /\ \A j, k \in 1 .. Len(device) : j < k => device[j].n < device[k].n
  /\ \A j, k \in Replies : j < k => out[j].n < out[k].n
  /\ \A k \in Replies : \E j \in 1 .. Len(device) : Complete(j) /\ device[j].n = out[k].n
  /\ \A j \in 1 .. Len(device) : Complete(j) => \E k \in Replies : out[k].n = device[j].n

LEMMA RepliesParts == RepliesMatchRequests <=> RepliesOK
<1> DEFINE A == {out[k].n : k \in Replies}
           B == {device[k].n : k \in {j \in 1 .. Len(device) : Complete(j)}}
<1>1. B = {device[k].n : k \in {j \in 1 .. Len(device) :
             LET q == asked[device[j].n] IN Wants(q) /\ device[j].len = q.w}}
  BY DEF Complete
<1>2. A \subseteq B <=>
        \A k \in Replies : \E j \in 1 .. Len(device) : Complete(j) /\ device[j].n = out[k].n
  OBVIOUS
<1>3. B \subseteq A <=>
        \A j \in 1 .. Len(device) : Complete(j) => \E k \in Replies : out[k].n = device[j].n
  OBVIOUS
<1>4. A = B <=> A \subseteq B /\ B \subseteq A
  OBVIOUS
<1> HIDE DEF B
<1>5. RepliesMatchRequests <=>
        /\ \A j, k \in 1 .. Len(device) : j < k => device[j].n < device[k].n
        /\ \A j, k \in Replies : j < k => out[j].n < out[k].n
        /\ A = B
  BY <1>1 DEF RepliesMatchRequests
<1> HIDE DEF A
<1> QED BY <1>2, <1>3, <1>4, <1>5 DEF RepliesOK

-----------------------------------------------------------------------------
(* Types *)

\* The Boolean variables, and the others.
Flags == bound \in BOOLEAN /\ watching \in BOOLEAN /\ foreign \in BOOLEAN

PerType ==
  /\ kind \in Kinds
  /\ status \in {"running", "closed", "corrupt"}
  /\ asked \in Seq(Request)
  /\ in \in Seq(1 .. Len(asked)) /\ handled \in Seq(1 .. Len(asked))
  /\ cb \in {"idle", "scheduled", "running"}
  /\ rx \in {"null", "live", "freed"} /\ xfer \in {"null", "live", "freed"}
  /\ device \in Seq([n : 1 .. Len(asked), len : Nat])
  /\ out \in Seq(Frame)
  /\ inputs \in 0 .. MaxInputs /\ taken \in 0 .. inputs /\ reads \in 0 .. MaxReads
  /\ fd \in {"own", "closed", "other"}
  /\ incidents \subseteq {"nomem", "write_error", "read_error"}

LEMMA TypeParts == TypeOK <=> Flags /\ PerType
<1>1. {bound, watching, foreign} \subseteq BOOLEAN <=> Flags
  BY Zenon DEF Flags
<1>2. {rx, xfer} \subseteq {"null", "live", "freed"} <=>
        rx \in {"null", "live", "freed"} /\ xfer \in {"null", "live", "freed"}
  OBVIOUS
<1> QED BY <1>1, <1>2, Zenon DEF TypeOK, PerType

\* The elements of the sequences of records.
LEMMA RecordParts ==
  ASSUME PerType
  PROVE  /\ Len(device) \in Nat /\ Len(out) \in Nat /\ Len(asked) \in Nat
         /\ \A j \in 1 .. Len(device) : device[j].n \in 1 .. Len(asked) /\ device[j].len \in Nat
         /\ \A k \in 1 .. Len(out) : out[k].n \in Nat /\ out[k].first \in Nat /\ out[k].len \in Nat
<1>1. /\ Len(device) \in Nat /\ Len(out) \in Nat /\ Len(asked) \in Nat
      /\ device \in Seq([n : 1 .. Len(asked), len : Nat]) /\ out \in Seq(Frame)
  BY DEF PerType
<1>2. /\ \A j \in 1 .. Len(device) : device[j] \in [n : 1 .. Len(asked), len : Nat]
      /\ \A k \in 1 .. Len(out) : out[k] \in Frame
  BY <1>1, ElementOfSeq
<1>3. ASSUME NEW j \in 1 .. Len(device)
      PROVE  device[j].n \in 1 .. Len(asked) /\ device[j].len \in Nat
  <2>1. device[j] \in [n : 1 .. Len(asked), len : Nat]
    BY <1>2
  <2> QED BY <2>1
<1>4. ASSUME NEW k \in 1 .. Len(out)
      PROVE  out[k].n \in Nat /\ out[k].first \in Nat /\ out[k].len \in Nat
  <2>1. out[k] \in Frame
    BY <1>2
  <2> QED BY <2>1 DEF Frame
<1> QED BY <1>1, <1>3, <1>4

LEMMA FlagsStep == Flags /\ [Next]_vars => Flags'
<1> SUFFICES ASSUME Flags, [Next]_vars PROVE Flags'
  OBVIOUS
<1>1. ASSUME NEW q \in Request, PeerWrite(q) PROVE Flags'
  BY <1>1, Zenon DEF PeerWrite, Flags, upVars, fdVars
<1>2. CASE Bind
  BY <1>2, Zenon DEF Bind, Flags, upVars, fdVars
<1>3. CASE Unbind
  BY <1>3, Zenon DEF Unbind, Flags, upVars, fdVars
<1>4. CASE Close
  BY <1>4, Zenon DEF Close, Flags
<1>5. CASE OtherOpens
  BY <1>5, Zenon DEF OtherOpens, Flags, upVars
<1>6. CASE Enter
  BY <1>6, Zenon DEF Enter, Flags, upVars, fdVars
<1>7. CASE DrainStops
  BY <1>7, Zenon DEF DrainStops, Flags, upVars, fdVars
<1>8. ASSUME NEW n \in 1 .. Len(asked), Handle(n) PROVE Flags'
  <2>1. /\ bound' = bound /\ watching' = watching
        /\ foreign' = foreign \/ foreign' = TRUE
    BY <1>8, Zenon DEF Handle, I2cRequest, SpiRequest, GpioRequest, SysfsRequest,
       TtyRequest, MsgWrite, Drain, upVars, fdVars
  <2> QED BY <2>1, Zenon DEF Flags
<1>9. CASE DeviceInput
  BY <1>9, Zenon DEF DeviceInput, Flags, fdVars
<1>10. ASSUME NEW len, TtyRead(len) PROVE Flags'
  BY <1>10, Zenon DEF TtyRead, Upstream, Flags, fdVars
<1>11. CASE TtyHangup
  BY <1>11, Zenon DEF TtyHangup, Upstream, Flags, fdVars
<1>12. CASE TtyReadError
  BY <1>12, Zenon DEF TtyReadError, Upstream, Flags, fdVars
<1>13. CASE GpioEvent
  BY <1>13, Zenon DEF GpioEvent, Upstream, Flags, fdVars
<1>14. CASE GpioError
  BY <1>14, Zenon DEF GpioError, Upstream, Flags, fdVars
<1>15. CASE UNCHANGED vars
  BY <1>15, Zenon DEF vars, Flags
<1> QED BY <1>1, <1>2, <1>3, <1>4, <1>5, <1>6, <1>7, <1>8, <1>9, <1>10, <1>11, <1>12, <1>13,
           <1>14, <1>15, Zenon DEF Next

-----------------------------------------------------------------------------
(* Steps of the owner and of the event loop *)

\* Neither the requests nor what was done for them change.
LEMMA QuietStep ==
  ASSUME PerInv, Flags', PerType', UNCHANGED <<kind, asked, device, out, taken>>,
         in' = in \/ in' = <<>>, incidents \subseteq incidents',
         LoopOK', LeftOK', FdOK', status' # "corrupt", OwnDescriptor'
  PROVE  PerInv'
<1>1. TypeOK'
  BY TypeParts, PTL
<1>2. BuffersFreedOnce'
  BY DEF BuffersFreedOnce
<1>3. InOrder'
  <2>1. CASE in' = in
    BY <2>1 DEF PerInv, InOrder
  <2>2. CASE in' = <<>>
    BY <2>2 DEF InOrder
  <2> QED BY <2>1, <2>2
<1>4. OutOK' /\ RepliesMatchRequests' /\ InputInOrder'
  <2>1. kind' = kind /\ asked' = asked /\ device' = device /\ out' = out /\ taken' = taken
    OBVIOUS
  <2>2. OutOK' /\ InputInOrder'
    BY <2>1 DEF PerInv, OutOK, InputInOrder, Inputs, EndOf
  <2>3. RepliesOK'
    <3>1. RepliesOK /\ Replies' = Replies
      BY <2>1, RepliesParts DEF PerInv, Replies
    <3>2. \A j : Complete(j)' <=> Complete(j)
      BY <2>1 DEF Complete, Wants
    <3> QED BY <2>1, <3>1, <3>2 DEF RepliesOK
  <2> QED BY <2>2, <2>3, RepliesParts, PTL
<1>5. NoEmptyFrames'
  BY DEF PerInv, NoEmptyFrames
<1> QED BY <1>1, <1>2, <1>3, <1>4, <1>5 DEF PerInv

\* The parts that are about the handler, when nothing of it changes.
LEMMA SameHandler ==
  ASSUME LeftOK, UNCHANGED <<kind, asked, handled, rx, xfer>>
  PROVE  LeftOK'
BY DEF LeftOK, Allocates

\* What the invariant says of a step that begins in a state of the loop.
LEMMA PerParts ==
  ASSUME PerInv
  PROVE  PerType /\ LoopOK /\ InOrder /\ LeftOK /\ FdOK /\ OutOK /\ OwnDescriptor
BY TypeParts DEF PerInv

LEMMA BindStep ==
  ASSUME PerInv, Flags', Bind
  PROVE  PerInv'
<1>1. /\ status = "running" /\ bound' = TRUE
      /\ UNCHANGED <<kind, status, asked, in, cb, rx, xfer, handled, device, out>>
      /\ UNCHANGED <<inputs, taken, reads, watching, fd, foreign, incidents>>
  BY DEF Bind, Idle, inVars, upVars, fdVars
<1>2. PerType' /\ LeftOK' /\ FdOK' /\ OwnDescriptor'
  BY <1>1, PerParts, SameHandler DEF PerType, FdOK, OwnDescriptor
<1>3. LoopOK'
  BY <1>1, PerParts DEF LoopOK
<1> QED BY <1>1, <1>2, <1>3, QuietStep

LEMMA UnbindStep ==
  ASSUME PerInv, Flags', Unbind
  PROVE  PerInv'
<1>1. /\ status = "running" /\ in' = <<>> /\ cb' = "idle"
      /\ UNCHANGED <<kind, status, asked, rx, xfer, handled, device, out>>
      /\ UNCHANGED <<inputs, taken, reads, watching, fd, foreign, incidents>>
  BY DEF Unbind, Idle, upVars, fdVars
<1>2. PerType' /\ LeftOK' /\ FdOK' /\ OwnDescriptor'
  BY <1>1, PerParts, SameHandler DEF PerType, FdOK, OwnDescriptor
<1>3. LoopOK'
  BY <1>1, PerParts DEF LoopOK
<1> QED BY <1>1, <1>2, <1>3, QuietStep

LEMMA CloseStep ==
  ASSUME PerInv, Flags', Close
  PROVE  PerInv'
<1>1. /\ status = "running" /\ status' = "closed" /\ in' = <<>> /\ cb' = "idle"
      /\ fd' = "closed" /\ foreign' = (foreign \/ fd = "other")
      /\ UNCHANGED <<kind, asked, rx, xfer, handled, device, out>>
      /\ UNCHANGED <<inputs, taken, reads, incidents>>
  BY DEF Close, Idle
<1>2. PerType' /\ LeftOK' /\ FdOK'
  BY <1>1, PerParts, SameHandler DEF PerType, FdOK
<1>3. OwnDescriptor'
  BY <1>1, PerParts DEF OwnDescriptor, FdOK
<1>4. LoopOK'
  BY <1>1 DEF LoopOK
<1> QED BY <1>1, <1>2, <1>3, <1>4, QuietStep

LEMMA OtherOpensStep ==
  ASSUME PerInv, Flags', OtherOpens
  PROVE  PerInv'
<1>1. /\ status = "running" /\ fd = "closed" /\ fd' = "other"
      /\ UNCHANGED <<kind, status, bound, asked, in, cb, rx, xfer, handled, device, out>>
      /\ UNCHANGED <<inputs, taken, reads, watching, foreign, incidents>>
  BY DEF OtherOpens, Idle, inVars, upVars
<1>2. PerType' /\ LeftOK' /\ FdOK' /\ OwnDescriptor'
  BY <1>1, PerParts, SameHandler DEF PerType, FdOK, OwnDescriptor
<1>3. LoopOK'
  BY <1>1, PerParts DEF LoopOK
<1> QED BY <1>1, <1>2, <1>3, QuietStep

\* on_data begins, or returns.
LEMMA EnterStep ==
  ASSUME PerInv, Flags', Enter
  PROVE  PerInv'
<1>1. /\ status = "running" /\ cb = "scheduled" /\ cb' = "running"
      /\ rx' = "null" /\ xfer' = "null" /\ handled' = <<>>
      /\ UNCHANGED <<kind, status, bound, asked, in, device, out>>
      /\ UNCHANGED <<inputs, taken, reads, watching, fd, foreign, incidents>>
  BY DEF Enter, upVars, fdVars
<1>2. PerType' /\ LeftOK' /\ FdOK' /\ OwnDescriptor'
  BY <1>1, PerParts DEF PerType, FdOK, OwnDescriptor, LeftOK
<1>3. LoopOK'
  BY <1>1, PerParts DEF LoopOK
<1> QED BY <1>1, <1>2, <1>3, QuietStep

LEMMA DrainStopsStep ==
  ASSUME PerInv, Flags', DrainStops
  PROVE  PerInv'
<1>1. /\ status = "running" /\ cb' = "idle"
      /\ rx' = "null" /\ xfer' = "null" /\ handled' = <<>>
      /\ UNCHANGED <<kind, status, bound, asked, in, device, out>>
      /\ UNCHANGED <<inputs, taken, reads, watching, fd, foreign>>
      /\ incidents' = incidents \/ incidents' = incidents \cup {"nomem"}
  BY DEF DrainStops, upVars, fdVars
<1>2. PerType' /\ LeftOK' /\ FdOK' /\ OwnDescriptor' /\ incidents \subseteq incidents'
  BY <1>1, PerParts DEF PerType, FdOK, OwnDescriptor, LeftOK
<1>3. LoopOK'
  BY <1>1 DEF LoopOK
<1> QED BY <1>1, <1>2, <1>3, QuietStep

\* The device makes input.
LEMMA DeviceInputStep ==
  ASSUME PerInv, Flags', DeviceInput
  PROVE  PerInv'
<1>1. /\ status = "running" /\ inputs < MaxInputs /\ inputs' = inputs + 1
      /\ UNCHANGED <<kind, status, bound, asked, in, cb, rx, xfer, handled, device, out>>
      /\ UNCHANGED <<taken, reads, watching, fd, foreign, incidents>>
  BY DEF DeviceInput, Idle, inVars, fdVars
<1>2. inputs' \in 0 .. MaxInputs /\ taken' \in 0 .. inputs'
  BY <1>1, PerParts, PeripheralAssumption DEF PerType
<1>3. PerType' /\ LeftOK' /\ FdOK' /\ OwnDescriptor'
  BY <1>1, <1>2, PerParts, SameHandler DEF PerType, FdOK, OwnDescriptor
<1>4. LoopOK'
  BY <1>1, PerParts DEF LoopOK
<1> QED BY <1>1, <1>3, <1>4, QuietStep

\* upstream removes its event.
LEMMA WatchingEnds ==
  ASSUME PerInv, Flags', TtyHangup \/ GpioError
  PROVE  PerInv'
<1>1. /\ status = "running" /\ reads < MaxReads /\ reads' = reads + 1
      /\ UNCHANGED <<kind, status, bound, asked, in, cb, rx, xfer, handled, device, out>>
      /\ UNCHANGED <<inputs, taken, fd, foreign, incidents>>
  BY DEF TtyHangup, GpioError, Upstream, Idle, inVars, fdVars
<1>2. reads' \in 0 .. MaxReads
  BY <1>1, PerParts, PeripheralAssumption DEF PerType
<1>3. PerType' /\ LeftOK' /\ FdOK' /\ OwnDescriptor'
  BY <1>1, <1>2, PerParts, SameHandler DEF PerType, FdOK, OwnDescriptor
<1>4. LoopOK'
  BY <1>1, PerParts DEF LoopOK
<1> QED BY <1>1, <1>3, <1>4, QuietStep

-----------------------------------------------------------------------------
(* The peer sends a request *)

LEMMA SeqWider ==
  ASSUME NEW S, NEW T, S \subseteq T, NEW s \in Seq(S)
  PROVE  s \in Seq(T)
OBVIOUS

LEMMA PeerWriteStep ==
  ASSUME PerInv, Flags', NEW q \in Request, PeerWrite(q)
  PROVE  PerInv'
<1>1. /\ status = "running" /\ bound /\ asked' = Append(asked, q)
      /\ in' = Append(in, Len(asked) + 1) /\ cb' = "scheduled"
      /\ UNCHANGED <<kind, status, bound, rx, xfer, handled, device, out>>
      /\ UNCHANGED <<inputs, taken, reads, watching, fd, foreign, incidents>>
  BY DEF PeerWrite, Idle, upVars, fdVars
<1>2. /\ PerType /\ Len(asked) \in Nat /\ Len(asked') = Len(asked) + 1
      /\ asked' \in Seq(Request) /\ \A n \in 1 .. Len(asked) : asked'[n] = asked[n]
  BY <1>1, PerParts DEF PerType
<1>3. /\ 1 .. Len(asked) \subseteq 1 .. Len(asked')
      /\ [n : 1 .. Len(asked), len : Nat] \subseteq [n : 1 .. Len(asked'), len : Nat]
  BY <1>2
<1>4. PerType'
  <2>1. in \in Seq(1 .. Len(asked')) /\ handled' \in Seq(1 .. Len(asked'))
    BY <1>1, <1>2, <1>3, SeqWider DEF PerType
  <2>2. device' \in Seq([n : 1 .. Len(asked'), len : Nat])
    <3>1. device \in Seq([n : 1 .. Len(asked), len : Nat]) /\ device' = device
      BY <1>1, <1>2 DEF PerType
    <3> QED BY <1>3, <3>1, SeqWider
  <2>3. in' \in Seq(1 .. Len(asked'))
    BY <1>1, <1>2, <2>1
  <2> QED BY <1>1, <1>2, <2>1, <2>2, <2>3 DEF PerType
<1>5. TypeOK'
  BY <1>4, TypeParts, PTL
<1>6. LoopOK' /\ FdOK' /\ OwnDescriptor' /\ BuffersFreedOnce'
  BY <1>1, PerParts DEF LoopOK, FdOK, OwnDescriptor, BuffersFreedOnce
<1>7. \A j \in 1 .. Len(device) : /\ device[j].n \in 1 .. Len(asked)
                                  /\ asked'[device[j].n] = asked[device[j].n]
  BY <1>2, RecordParts
<1>8. \A j \in 1 .. Len(handled) : /\ handled[j] \in 1 .. Len(asked)
                                   /\ asked'[handled[j]] = asked[handled[j]]
  BY <1>2 DEF PerType
<1>9. LeftOK'
  BY <1>1, <1>8, PerParts DEF LeftOK, Allocates
<1>10. InOrder'
  <2>1. /\ in \in Seq(1 .. Len(asked)) /\ Len(in) \in Nat /\ Len(in') = Len(in) + 1
        /\ in'[Len(in')] = Len(asked) + 1 /\ \A j \in 1 .. Len(in) : in'[j] = in[j]
    BY <1>1, <1>2 DEF PerType
  <2>2. \A j \in 1 .. Len(in) : in[j] \in 1 .. Len(asked)
    BY <2>1
  <2>3. ASSUME NEW j \in 1 .. Len(in'), NEW k \in 1 .. Len(in'), j < k PROVE in'[j] < in'[k]
    <3>1. j \in 1 .. Len(in)
      BY <2>1, <2>3
    <3>2. CASE k \in 1 .. Len(in)
      BY <2>1, <2>3, <3>1, <3>2, PerParts DEF InOrder
    <3>3. CASE k = Len(in')
      BY <1>2, <2>1, <2>2, <3>1, <3>3
    <3> QED BY <2>1, <3>2, <3>3
  <2>4. ASSUME NEW j \in 1 .. Len(device), NEW k \in 1 .. Len(in') PROVE device[j].n < in'[k]
    BY <1>2, <1>7, <2>1, <2>4, PerParts, SMTT(30) DEF InOrder
  <2> QED BY <1>1, <2>3, <2>4 DEF InOrder
<1>11. OutOK'
  BY <1>1, <1>2, PerParts DEF OutOK
<1>12. NoEmptyFrames'
  <2>1. ASSUME NEW k \in 1 .. Len(out), kind = "spi" PROVE asked'[out[k].n] = asked[out[k].n]
    BY <1>2, <2>1, PerParts DEF OutOK, Watched
  <2> QED BY <1>1, <2>1 DEF PerInv, NoEmptyFrames
<1>13. RepliesOK'
  <2>1. \A j \in 1 .. Len(device) : Complete(j)' <=> Complete(j)
    BY <1>1, <1>7 DEF Complete, Wants
  <2>2. Replies' = Replies
    BY <1>1 DEF Replies
  <2> QED BY <1>1, <2>1, <2>2, RepliesParts DEF PerInv, RepliesOK
<1>14. InputInOrder'
  BY <1>1 DEF PerInv, InputInOrder, Inputs, EndOf
<1>15. RepliesMatchRequests'
  BY <1>13, RepliesParts, PTL
<1> QED BY <1>5, <1>6, <1>9, <1>10, <1>11, <1>12, <1>14, <1>15 DEF PerInv

-----------------------------------------------------------------------------
(* upstream forwards input *)

\* A frame of input is appended to what the peer gets, or input is discarded.
LEMMA ForwardStep ==
  ASSUME PerInv, Flags', NEW len \in Nat, taken' \in 0 .. inputs, reads' \in 0 .. MaxReads,
         status = "running", kind \in Watched, taken' = taken + len,
         \/ Forward(len)
         \/ out' = out /\ kind # "tty",
         len = 0 => "read_error" \in incidents',
         incidents \subseteq incidents', incidents' \subseteq incidents \cup {"read_error"},
         UNCHANGED <<kind, status, bound, asked, in, cb, rx, xfer, handled, device>>,
         UNCHANGED <<inputs, fd, foreign>>
  PROVE  PerInv'
<1>1. PerType /\ taken \in Nat /\ out \in Seq(Frame) /\ Len(out) \in Nat
  BY PerParts DEF PerType
<1> DEFINE f == [n |-> 0, first |-> taken + 1, len |-> len]
<1>2. f \in Frame /\ f.n = 0 /\ f.first = taken + 1 /\ f.len = len
  BY <1>1 DEF Frame
<1>3. Forward(len) => out' = Append(out, f)
  BY DEF Forward
<1> HIDE DEF f
<1>4. /\ out' \in Seq(Frame) /\ Len(out') \in {Len(out), Len(out) + 1}
      /\ \A k \in 1 .. Len(out) : out'[k] = out[k]
      /\ \A k \in 1 .. Len(out') : k \notin 1 .. Len(out) => k = Len(out) + 1 /\ out'[k] = f
      /\ kind = "tty" => Len(out') = Len(out) + 1 /\ out'[Len(out')] = f
  <2>1. CASE out' = Append(out, f)
    BY <1>1, <1>2, <2>1
  <2>2. CASE out' = out /\ kind # "tty"
    BY <1>1, <2>2
  <2> QED BY <1>3, <2>1, <2>2
<1>5. PerType'
  BY <1>1, <1>4 DEF PerType
<1>6. TypeOK'
  BY <1>5, TypeParts, PTL
<1>7. LoopOK' /\ FdOK' /\ OwnDescriptor' /\ BuffersFreedOnce' /\ LeftOK'
  BY PerParts, SameHandler DEF LoopOK, FdOK, OwnDescriptor, BuffersFreedOnce
<1>8. InOrder'
  BY PerParts DEF InOrder
<1>9. OutOK'
  BY <1>2, <1>4, PerParts DEF OutOK
<1>10. NoEmptyFrames'
  BY <1>2, <1>4 DEF PerInv, NoEmptyFrames
<1>11. RepliesOK'
  <2>1. \A j \in 1 .. Len(device) : Complete(j)' <=> Complete(j)
    BY DEF Complete, Wants
  <2>2. Replies' = Replies
    BY <1>1, <1>2, <1>4 DEF Replies
  <2>3. \A k \in Replies : out'[k] = out[k]
    BY <1>4 DEF Replies
  <2>4. RepliesOK /\ device' = device
    BY RepliesParts DEF PerInv
  <2>5. \A k \in Replies' : \E j \in 1 .. Len(device') : Complete(j)' /\ device'[j].n = out'[k].n
    BY <2>1, <2>2, <2>3, <2>4 DEF RepliesOK
  <2>6. \A j \in 1 .. Len(device') : Complete(j)' => \E k \in Replies' : out'[k].n = device'[j].n
    BY <2>1, <2>2, <2>3, <2>4 DEF RepliesOK
  <2> QED BY <2>2, <2>3, <2>4, <2>5, <2>6 DEF RepliesOK
<1>12. RepliesMatchRequests'
  BY <1>11, RepliesParts, PTL
<1>13. InputInOrder'
  <2>1. /\ \A k \in Inputs : EndOf(k) \in Nat /\ EndOf(k) <= taken + 1
        /\ \A j, k \in Inputs : j < k => EndOf(j) <= out[k].first
    <3>1. \A k \in Inputs : EndOf(k) \in Nat
      BY <1>1, RecordParts DEF Inputs, EndOf
    <3> QED BY <3>1 DEF PerInv, InputInOrder
  <2>2. \A k \in Inputs : k \in Inputs' /\ EndOf(k)' = EndOf(k) /\ out'[k].first = out[k].first
    BY <1>1, <1>4 DEF Inputs, EndOf
  <2>3. \A k \in Inputs' : \/ k \in Inputs
                           \/ /\ k = Len(out) + 1 /\ out'[k].first = taken + 1
                              /\ EndOf(k)' = taken + 1 + len
    BY <1>1, <1>2, <1>4 DEF Inputs, EndOf
  <2>4. \A k \in Inputs : k < Len(out) + 1
    BY <1>1 DEF Inputs
  <2>5. \A j, k \in Inputs' : j < k => EndOf(j)' <= out'[k].first
    <3> SUFFICES ASSUME NEW j \in Inputs', NEW k \in Inputs', j < k
                 PROVE  EndOf(j)' <= out'[k].first
      OBVIOUS
    <3>1. j \in Inputs
      <4>1. CASE k \in Inputs
        BY <1>1, <2>3, <2>4, <4>1 DEF Inputs
      <4>2. CASE k = Len(out) + 1
        BY <1>1, <2>3, <4>2
      <4> QED BY <2>3, <4>1, <4>2
    <3>2. CASE k \in Inputs
      BY <2>1, <2>2, <3>1, <3>2
    <3>3. CASE out'[k].first = taken + 1
      BY <2>1, <2>2, <3>1, <3>3
    <3> QED BY <2>3, <3>2, <3>3
  <2>6. \A k \in Inputs' : EndOf(k)' <= taken' + 1
    BY <1>1, <2>1, <2>2, <2>3
  <2>7. ASSUME kind = "tty", NEW i \in 1 .. taken'
        PROVE  \E k \in Inputs' : i \in out'[k].first .. EndOf(k)' - 1
    <3>1. CASE i <= taken
      <4>1. PICK k \in Inputs : i \in out[k].first .. EndOf(k) - 1
        BY <1>1, <2>7, <3>1 DEF PerInv, InputInOrder
      <4> QED BY <2>2, <4>1
    <3>2. CASE i > taken
      <4>1. PICK k \in Inputs' : k \notin Inputs
        BY <1>1, <1>2, <1>4, <2>4, <2>7 DEF Inputs
      <4>2. out'[k].first = taken + 1 /\ EndOf(k)' = taken + 1 + len
        BY <2>3, <4>1
      <4>3. i \in taken + 1 .. taken + 1 + len - 1
        BY <1>1, <2>7, <3>2
      <4>4. i \in out'[k].first .. EndOf(k)' - 1
        <5>1. PICK a, e : a = out'[k].first /\ e = EndOf(k)'
          OBVIOUS
        <5>2. a = taken + 1 /\ e = taken + 1 + len
          BY <4>2, <5>1
        <5>3. i \in a .. e - 1
          BY <4>3, <5>2
        <5> QED BY <5>1, <5>3
      <4> QED BY <4>4
    <3> QED BY <1>1, <2>7, <3>1, <3>2
  <2> QED BY <2>5, <2>6, <2>7 DEF InputInOrder
<1> QED BY <1>6, <1>7, <1>8, <1>9, <1>10, <1>12, <1>13 DEF PerInv

LEMMA UpstreamStep ==
  ASSUME PerInv, Flags', (\E len \in 1 .. inputs - taken : TtyRead(len))
                         \/ TtyReadError \/ GpioEvent
  PROVE  PerInv'
<1>1. PerType /\ inputs \in Nat /\ taken \in 0 .. inputs /\ MaxReads \in Nat
  BY PerParts, PeripheralAssumption DEF PerType
<1>2. ASSUME NEW k \in Watched, Upstream(k)
      PROVE  /\ status = "running" /\ kind \in Watched /\ kind = k
             /\ reads' \in 0 .. MaxReads
             /\ UNCHANGED <<kind, status, bound, asked, in, cb, rx, xfer, handled, device>>
             /\ UNCHANGED <<inputs, fd, foreign>>
  BY <1>1, <1>2 DEF Upstream, Idle, inVars, fdVars, PerType
<1>3. "tty" \in Watched /\ "gpio_in" \in Watched
  BY DEF Watched
<1>4. ASSUME NEW len \in 1 .. inputs - taken, TtyRead(len) PROVE PerInv'
  <2>1. len \in Nat /\ len # 0 /\ taken + len \in 0 .. inputs
    BY <1>1
  <2>2. /\ taken' = taken + len /\ Forward(len) /\ incidents' = incidents
        /\ status = "running" /\ kind \in Watched /\ reads' \in 0 .. MaxReads
        /\ UNCHANGED <<kind, status, bound, asked, in, cb, rx, xfer, handled, device>>
        /\ UNCHANGED <<inputs, fd, foreign>>
    BY <1>2, <1>3, <1>4 DEF TtyRead
  <2> QED BY <2>1, <2>2, ForwardStep
<1>5. CASE TtyReadError
  <2>1. /\ taken' = taken /\ Forward(0) /\ incidents' = incidents \cup {"read_error"}
        /\ status = "running" /\ kind \in Watched /\ reads' \in 0 .. MaxReads
        /\ UNCHANGED <<kind, status, bound, asked, in, cb, rx, xfer, handled, device>>
        /\ UNCHANGED <<inputs, fd, foreign>>
    BY <1>2, <1>3, <1>5 DEF TtyReadError
  <2>2. 0 \in Nat /\ taken' = taken + 0 /\ taken' \in 0 .. inputs /\ "read_error" \in incidents'
    BY <1>1, <2>1
  <2> QED BY <2>1, <2>2, ForwardStep
<1>6. CASE GpioEvent
  <2>1. /\ taken' = taken + 1 /\ taken < inputs /\ incidents' = incidents
        /\ kind = "gpio_in" /\ (Forward(1) \/ out' = out)
        /\ status = "running" /\ kind \in Watched /\ reads' \in 0 .. MaxReads
        /\ UNCHANGED <<kind, status, bound, asked, in, cb, rx, xfer, handled, device>>
        /\ UNCHANGED <<inputs, fd, foreign>>
    BY <1>2, <1>3, <1>6 DEF GpioEvent
  <2>2. 1 \in Nat /\ 1 # 0 /\ taken' \in 0 .. inputs
    BY <1>1, <2>1
  <2>3. Forward(1) \/ (out' = out /\ kind # "tty")
    BY <2>1
  <2> QED BY <2>1, <2>2, <2>3, ForwardStep
<1> QED BY <1>4, <1>5, <1>6

-----------------------------------------------------------------------------
(* One iteration of on_data *)

\* rteipc_msg_drain returns the request n.
LEMMA DrainParts ==
  ASSUME PerInv, NEW n \in 1 .. Len(asked), Drain(n)
  PROVE  /\ status = "running" /\ cb = "running" /\ bound
         /\ in' \in Seq(1 .. Len(asked)) /\ handled' = Append(handled, n)
         /\ UNCHANGED <<kind, bound, asked, inputs, taken, reads, watching>>
         /\ \A k \in 1 .. Len(in') : n < in'[k]
         /\ \A j, k \in 1 .. Len(in') : j < k => in'[j] < in'[k]
         /\ \A j \in 1 .. Len(device) : device[j].n < n
         /\ \A j \in 1 .. Len(device), k \in 1 .. Len(in') : device[j].n < in'[k]
<1>1. /\ status = "running" /\ cb = "running" /\ in # <<>> /\ n = Head(in) /\ in' = Tail(in)
      /\ handled' = Append(handled, n)
      /\ UNCHANGED <<kind, bound, asked, inputs, taken, reads, watching>>
  BY DEF Drain, HasMessage, upVars
<1>2. in \in Seq(1 .. Len(asked)) /\ bound
  BY <1>1, PerParts DEF PerType, LoopOK
<1>3. /\ in' \in Seq(1 .. Len(asked)) /\ Len(in) \in Nat /\ Len(in') = Len(in) - 1
      /\ n = in[1] /\ 1 \in 1 .. Len(in)
      /\ \A j \in 1 .. Len(in') : j + 1 \in 1 .. Len(in) /\ in'[j] = in[j + 1]
  BY <1>1, <1>2
<1>4. /\ \A j, k \in 1 .. Len(in) : j < k => in[j] < in[k]
      /\ \A j \in 1 .. Len(device), k \in 1 .. Len(in) : device[j].n < in[k]
  BY PerParts DEF InOrder
<1>5. \A k \in 1 .. Len(in') : n < in'[k]
  <2> SUFFICES ASSUME NEW k \in 1 .. Len(in') PROVE n < in'[k]
    OBVIOUS
  <2>1. k + 1 \in 1 .. Len(in) /\ 1 < k + 1
    BY <1>3
  <2> QED BY <1>3, <1>4, <2>1
<1>6. \A j, k \in 1 .. Len(in') : j < k => in'[j] < in'[k]
  <2> SUFFICES ASSUME NEW j \in 1 .. Len(in'), NEW k \in 1 .. Len(in'), j < k
               PROVE  in'[j] < in'[k]
    OBVIOUS
  <2>1. j + 1 \in 1 .. Len(in) /\ k + 1 \in 1 .. Len(in) /\ j + 1 < k + 1
    BY <1>3
  <2> QED BY <1>3, <1>4, <2>1
<1>7. \A j \in 1 .. Len(device) : device[j].n < n
  BY <1>3, <1>4
<1>8. \A j \in 1 .. Len(device), k \in 1 .. Len(in') : device[j].n < in'[k]
  BY <1>3, <1>4
<1> QED BY <1>1, <1>2, <1>3, <1>5, <1>6, <1>7, <1>8

\* The label free_msg.  A pointer that is freed again was left by an earlier
\* request of the same call, and this one did not allocate.
LEMMA BufferPart ==
  ASSUME PerInv, NEW n \in 1 .. Len(asked), Drain(n),
         NEW rx1 \in {"null", "live", "freed"}, NEW xfer1 \in {"null", "live", "freed"},
         FreeMsg(rx1, xfer1), kind = "i2c" => xfer1 = "null",
         "freed" \in {rx1, xfer1} => "freed" \in {rx, xfer} /\ ~Allocates(asked[n]),
         "live" \in {rx1, xfer1} => Allocates(asked[n])
  PROVE  /\ LoopOK' /\ LeftOK' /\ BuffersFreedOnce' /\ cb' = cb
         /\ status' \in {"running", "closed", "corrupt"}
         /\ rx' \in {"null", "live", "freed"} /\ xfer' \in {"null", "live", "freed"}
         /\ handled' \in Seq(1 .. Len(asked))
<1>1. /\ status = "running" /\ cb = "running" /\ bound /\ handled' = Append(handled, n)
      /\ UNCHANGED <<kind, bound, asked>>
  BY DrainParts
<1>2. /\ handled \in Seq(1 .. Len(asked)) /\ Len(handled) \in Nat /\ LeftOK
      /\ handled' \in Seq(1 .. Len(asked)) /\ Len(handled') = Len(handled) + 1
      /\ handled'[Len(handled')] = n /\ \A j \in 1 .. Len(handled) : handled'[j] = handled[j]
  BY <1>1, PerParts DEF PerType
<1>3. /\ cb' = cb /\ status' \in {"running", "corrupt"}
      /\ status' = "corrupt" => "freed" \in {rx1, xfer1}
      /\ rx' \in {"null", "freed"} /\ xfer' \in {"null", "freed"}
      /\ rx' = "freed" => rx1 \in {"live", "freed"}
      /\ xfer' = "freed" => xfer1 \in {"live", "freed"}
      /\ xfer1 = "null" => xfer' = "null"
  BY <1>1 DEF FreeMsg
<1>4. LoopOK'
  BY <1>1, <1>3 DEF LoopOK
<1>5. ASSUME "freed" \in {rx1, xfer1}
      PROVE  \E j \in 1 .. Len(handled) : Allocates(asked[handled[j]])
  BY <1>2, <1>5 DEF LeftOK
<1>6. /\ Len(handled') \in 1 .. Len(handled')
      /\ \A j \in 1 .. Len(handled) : j \in 1 .. Len(handled') /\ j < Len(handled')
  BY <1>2
<1>7. LeftOK'
  <2>1. ASSUME "freed" \in {rx', xfer'}
        PROVE  \E j \in 1 .. Len(handled') : Allocates(asked[handled'[j]])
    <3>1. CASE "live" \in {rx1, xfer1}
      BY <1>2, <1>6, <3>1
    <3>2. CASE "freed" \in {rx1, xfer1}
      BY <1>2, <1>5, <1>6, <3>2
    <3> QED BY <1>3, <2>1, <3>1, <3>2
  <2> QED BY <1>1, <1>3, <2>1 DEF LeftOK, Allocates
<1>8. BuffersFreedOnce'
  <2>1. ASSUME status' = "corrupt"
        PROVE  \E j, k \in 1 .. Len(handled') :
                 j < k /\ Allocates(asked[handled'[j]]) /\ ~Allocates(asked[handled'[k]])
    <3>1. PICK j \in 1 .. Len(handled) : Allocates(asked[handled[j]])
      BY <1>3, <1>5, <2>1
    <3>2. ~Allocates(asked[n])
      BY <1>3, <2>1
    <3> QED BY <1>2, <1>6, <3>1, <3>2
  <2> QED BY <1>1, <2>1 DEF BuffersFreedOnce, Allocates
<1> QED BY <1>2, <1>3, <1>4, <1>7, <1>8

\* What the step says of requests, of the device and of the replies.
Records == /\ device \in Seq([n : 1 .. Len(asked), len : Nat]) /\ out \in Seq(Frame)
           /\ InOrder /\ OutOK /\ RepliesMatchRequests /\ NoEmptyFrames /\ InputInOrder

\* The request is dropped.
LEMMA DropPart ==
  ASSUME PerInv, NEW n \in 1 .. Len(asked), Drain(n), UNCHANGED <<device, out>>,
         incidents \subseteq incidents'
  PROVE  Records'
<1>1. UNCHANGED <<kind, asked, taken, device, out>>
  BY DrainParts
<1>2. device' \in Seq([n : 1 .. Len(asked'), len : Nat]) /\ out' \in Seq(Frame)
  BY <1>1, PerParts DEF PerType
<1>3. InOrder'
  BY <1>1, DrainParts DEF InOrder
<1>4. OutOK' /\ InputInOrder'
  BY <1>1, PerParts DEF PerInv, OutOK, InputInOrder, Inputs, EndOf
<1>5. RepliesOK'
  <2>1. kind' = kind /\ asked' = asked /\ device' = device /\ out' = out
    BY <1>1
  <2>2. RepliesOK
    BY RepliesParts DEF PerInv
  <2>3. Replies' = Replies
    BY <2>1 DEF Replies
  <2>4. \A j : Complete(j)' <=> Complete(j)
    BY <2>1 DEF Complete, Wants
  <2> QED BY <2>1, <2>2, <2>3, <2>4 DEF RepliesOK
<1>6. NoEmptyFrames'
  BY <1>1 DEF PerInv, NoEmptyFrames
<1>7. RepliesMatchRequests'
  BY <1>5, RepliesParts, PTL
<1> QED BY <1>2, <1>3, <1>4, <1>6, <1>7 DEF Records

\* The device does len bytes of the request, and the peer is answered when that
\* is all of it and it wants an answer.
LEMMA DonePart ==
  ASSUME PerInv, NEW n \in 1 .. Len(asked), Drain(n), NEW len \in Nat, NEW m \in Nat,
         Perform(n, len), NEW wanted \in BOOLEAN, Reply(wanted, n, m),
         wanted <=> Wants(asked[n]) /\ len = asked[n].w,
         wanted => m # 0 \/ (kind = "spi" /\ asked[n].w = 0),
         incidents \subseteq incidents'
  PROVE  Records'
<1>1. /\ UNCHANGED <<kind, asked, taken>> /\ bound
      /\ \A k \in 1 .. Len(in') : n < in'[k]
      /\ \A j, k \in 1 .. Len(in') : j < k => in'[j] < in'[k]
      /\ \A j \in 1 .. Len(device) : device[j].n < n
      /\ \A j \in 1 .. Len(device), k \in 1 .. Len(in') : device[j].n < in'[k]
  BY DrainParts
<1>2. /\ PerType /\ out \in Seq(Frame) /\ Len(out) \in Nat /\ Len(device) \in Nat
      /\ device \in Seq([n : 1 .. Len(asked), len : Nat]) /\ Len(asked) \in Nat
  BY PerParts DEF PerType
<1> DEFINE d == [n |-> n, len |-> len]
           f == [n |-> n, first |-> 0, len |-> m]
<1>3. d \in [n : 1 .. Len(asked), len : Nat] /\ d.n = n /\ d.len = len
  OBVIOUS
<1>4. f \in Frame /\ f.n = n /\ f.len = m /\ n # 0
  BY <1>2 DEF Frame
<1>5. device' = Append(device, d) /\ out' = IF wanted THEN Append(out, f) ELSE out
  BY <1>1 DEF Perform, Reply
<1> HIDE DEF d, f
<1>6. /\ device' \in Seq([n : 1 .. Len(asked), len : Nat]) /\ Len(device') = Len(device) + 1
      /\ \A j \in 1 .. Len(device) : device'[j] = device[j]
      /\ device'[Len(device')] = d
      /\ \A j \in 1 .. Len(device') : j \in 1 .. Len(device) \/ device'[j] = d
  BY <1>2, <1>3, <1>5
<1>7. /\ out' \in Seq(Frame)
      /\ \A k \in 1 .. Len(out) : out'[k] = out[k]
      /\ wanted => Len(out') = Len(out) + 1 /\ out'[Len(out')] = f
      /\ ~wanted => Len(out') = Len(out)
      /\ \A k \in 1 .. Len(out') : k \in 1 .. Len(out) \/ (wanted /\ out'[k] = f)
  <2>1. CASE wanted
    <3>1. out' = Append(out, f)
      BY <1>5, <2>1
    <3>2. /\ out' \in Seq(Frame) /\ Len(out') = Len(out) + 1 /\ out'[Len(out')] = f
          /\ \A k \in 1 .. Len(out) : out'[k] = out[k]
      BY <1>2, <1>4, <3>1
    <3>3. \A k \in 1 .. Len(out') : k \in 1 .. Len(out) \/ out'[k] = f
      BY <1>2, <3>2
    <3> QED BY <2>1, <3>2, <3>3
  <2>2. CASE ~wanted
    BY <1>2, <1>5, <2>2
  <2> QED BY <2>1, <2>2
<1>8. InOrder'
  <2>1. ASSUME NEW j \in 1 .. Len(device'), NEW k \in 1 .. Len(in') PROVE device'[j].n < in'[k]
    <3>1. CASE j \in 1 .. Len(device)
      BY <1>1, <1>6, <3>1
    <3>2. CASE device'[j] = d
      BY <1>1, <1>3, <3>2
    <3> QED BY <1>6, <3>1, <3>2
  <2> QED BY <1>1, <2>1 DEF InOrder
<1>9. OutOK'
  <2>1. ASSUME NEW k \in 1 .. Len(out')
        PROVE  IF out'[k].n = 0 THEN kind' \in Watched ELSE out'[k].n \in 1 .. Len(asked')
    <3>1. CASE k \in 1 .. Len(out)
      BY <1>1, <1>7, <3>1, PerParts DEF OutOK
    <3>2. CASE out'[k] = f
      BY <1>1, <1>4, <3>2
    <3> QED BY <1>7, <3>1, <3>2
  <2> QED BY <2>1 DEF OutOK
<1>10. NoEmptyFrames'
  <2>1. ASSUME NEW k \in 1 .. Len(out'), out'[k].len = 0
        PROVE  \/ kind' = "spi" /\ asked'[out'[k].n].w = 0
               \/ "read_error" \in incidents'
    <3>1. CASE k \in 1 .. Len(out)
      BY <1>1, <1>7, <2>1, <3>1 DEF PerInv, NoEmptyFrames
    <3>2. CASE wanted /\ out'[k] = f
      BY <1>1, <1>4, <2>1, <3>2
    <3> QED BY <1>7, <3>1, <3>2
  <2> QED BY <2>1 DEF NoEmptyFrames
<1>11. InputInOrder'
  <2>1. Inputs' = Inputs /\ \A k \in Inputs : out'[k] = out[k]
    BY <1>2, <1>4, <1>7 DEF Inputs
  <2> QED BY <1>1, <2>1 DEF PerInv, InputInOrder, EndOf
<1>12. RepliesOK'
  <2>1. /\ \A j, k \in 1 .. Len(device) : j < k => device[j].n < device[k].n
        /\ \A j, k \in Replies : j < k => out[j].n < out[k].n
        /\ \A k \in Replies : \E j \in 1 .. Len(device) : Complete(j) /\ device[j].n = out[k].n
        /\ \A j \in 1 .. Len(device) : Complete(j) => \E k \in Replies : out[k].n = device[j].n
    BY RepliesParts DEF PerInv, RepliesOK
  <2>2. \A j \in 1 .. Len(device) : j \in 1 .. Len(device') /\ j < Len(device')
    BY <1>2, <1>6
  <2>3. \A j \in 1 .. Len(device') : j \in 1 .. Len(device) \/ j = Len(device')
    BY <1>2, <1>6
  <2>4. \A j \in 1 .. Len(device) : Complete(j)' <=> Complete(j)
    BY <1>1, <1>6 DEF Complete, Wants
  <2>5. PICK l : l = Len(device')
    OBVIOUS
  <2>6. l \in 1 .. Len(device') /\ device'[l].n = n /\ (Complete(l)' <=> wanted)
    BY <1>1, <1>2, <1>3, <1>6, <2>5, SMTT(30) DEF Complete, Wants
  <2>7. \A k \in Replies : k \in Replies' /\ out'[k] = out[k] /\ out[k].n < n
    <3> SUFFICES ASSUME NEW k \in Replies
                 PROVE  k \in Replies' /\ out'[k] = out[k] /\ out[k].n < n
      OBVIOUS
    <3>1. k \in 1 .. Len(out) /\ out[k].n # 0
      BY DEF Replies
    <3>2. k \in 1 .. Len(out') /\ out'[k] = out[k]
      BY <1>2, <1>7, <3>1
    <3>3. out[k].n < n
      BY <1>1, <2>1
    <3> QED BY <3>1, <3>2, <3>3 DEF Replies
  <2>8. \A k \in Replies' : \/ k \in Replies
                            \/ wanted /\ k = Len(out') /\ out'[k].n = n
    BY <1>2, <1>4, <1>7, SMTT(30) DEF Replies
  <2>9. wanted => Len(out') \in Replies' /\ out'[Len(out')].n = n /\ \A k \in Replies : k < Len(out')
    BY <1>2, <1>4, <1>7 DEF Replies
  <2>10. \A j, k \in 1 .. Len(device') : j < k => device'[j].n < device'[k].n
    <3> SUFFICES ASSUME NEW j \in 1 .. Len(device'), NEW k \in 1 .. Len(device'), j < k
                 PROVE  device'[j].n < device'[k].n
      OBVIOUS
    <3>1. j \in 1 .. Len(device)
      BY <1>2, <1>6, <2>3
    <3>2. CASE k \in 1 .. Len(device)
      BY <1>6, <2>1, <3>1, <3>2
    <3>3. CASE k = Len(device')
      BY <1>1, <1>6, <2>5, <2>6, <3>1, <3>3
    <3> QED BY <2>3, <3>2, <3>3
  <2>11. \A j, k \in Replies' : j < k => out'[j].n < out'[k].n
    <3> SUFFICES ASSUME NEW j \in Replies', NEW k \in Replies', j < k
                 PROVE  out'[j].n < out'[k].n
      OBVIOUS
    <3>1. CASE k \in Replies
      <4>1. j \in Replies
        BY <1>2, <1>7, <2>8, <2>9, <3>1 DEF Replies
      <4> QED BY <2>1, <2>7, <3>1, <4>1
    <3>2. CASE wanted /\ k = Len(out') /\ out'[k].n = n
      <4>1. j \in Replies
        BY <1>2, <1>7, <2>8, <3>2 DEF Replies
      <4> QED BY <2>7, <3>2, <4>1
    <3> QED BY <2>8, <3>1, <3>2
  <2>12. \A k \in Replies' : \E j \in 1 .. Len(device') : Complete(j)' /\ device'[j].n = out'[k].n
    <3> SUFFICES ASSUME NEW k \in Replies'
                 PROVE  \E j \in 1 .. Len(device') : Complete(j)' /\ device'[j].n = out'[k].n
      OBVIOUS
    <3>1. CASE k \in Replies
      <4>1. PICK j \in 1 .. Len(device) : Complete(j) /\ device[j].n = out[k].n
        BY <2>1, <3>1
      <4>2. j \in 1 .. Len(device') /\ Complete(j)' /\ device'[j].n = out'[k].n
        BY <1>6, <2>2, <2>4, <2>7, <3>1, <4>1
      <4> QED BY <4>2
    <3>2. CASE wanted /\ out'[k].n = n
      BY <2>6, <3>2
    <3> QED BY <2>8, <3>1, <3>2
  <2>13. \A j \in 1 .. Len(device') : Complete(j)' => \E k \in Replies' : out'[k].n = device'[j].n
    <3> SUFFICES ASSUME NEW j \in 1 .. Len(device'), Complete(j)'
                 PROVE  \E k \in Replies' : out'[k].n = device'[j].n
      OBVIOUS
    <3>1. CASE j \in 1 .. Len(device)
      <4>1. PICK k \in Replies : out[k].n = device[j].n
        BY <2>1, <2>4, <3>1
      <4>2. k \in Replies' /\ out'[k].n = device'[j].n
        BY <1>6, <2>7, <3>1, <4>1
      <4> QED BY <4>2
    <3>2. CASE j = Len(device')
      <4>1. j = l /\ wanted
        BY <2>5, <2>6, <3>2
      <4> QED BY <2>6, <2>9, <4>1
    <3> QED BY <2>3, <3>1, <3>2
  <2> QED BY <2>10, <2>11, <2>12, <2>13 DEF RepliesOK
<1>13. RepliesMatchRequests'
  BY <1>12, RepliesParts, PTL
<1> QED BY <1>1, <1>6, <1>7, <1>8, <1>9, <1>10, <1>11, <1>13 DEF Records

\* The fields of a request.
LEMMA RequestParts ==
  ASSUME PerInv, NEW n \in 1 .. Len(asked)
  PROVE  /\ asked[n].form \in {"ok", "empty", "bad"} /\ asked[n].w \in Nat
         /\ asked[n].r \in BOOLEAN
<1>1. asked[n] \in Request
  BY PerParts DEF PerType
<1>2. CASE asked[n] \in [form : {"ok"}, w : WriteLens, r : BOOLEAN]
  BY <1>2, PeripheralAssumption
<1>3. CASE asked[n] \in [form : {"empty", "bad"}, w : {0}, r : {FALSE}]
  <2>1. asked[n].form \in {"empty", "bad"} /\ asked[n].w = 0 /\ asked[n].r \in {FALSE}
    BY <1>3
  <2>2. asked[n].r \in BOOLEAN
    BY <2>1, Zenon
  <2> QED BY <2>1, <2>2
<1> QED BY <1>1, <1>2, <1>3 DEF Request

\* An iteration is put together from its parts.
LEMMA HandlerStep ==
  ASSUME PerInv, Flags', NEW n \in 1 .. Len(asked), Drain(n), Records',
         LoopOK', LeftOK', BuffersFreedOnce', cb' = cb,
         status' \in {"running", "closed", "corrupt"},
         rx' \in {"null", "live", "freed"}, xfer' \in {"null", "live", "freed"},
         handled' \in Seq(1 .. Len(asked)), incidents \subseteq incidents',
         incidents' \subseteq incidents \cup {"nomem", "write_error"},
         fd' \in {"own", "closed", "other"},
         fd' # "own" => fd # "own" \/ "write_error" \in incidents',
         foreign' => foreign \/ fd = "other"
  PROVE  PerInv'
<1>1. /\ status = "running" /\ in' \in Seq(1 .. Len(asked))
      /\ UNCHANGED <<kind, asked, inputs, taken, reads>>
  BY DrainParts
<1>2. PerType'
  BY <1>1, PerParts DEF PerType, Records
<1>3. TypeOK'
  BY <1>2, TypeParts, PTL
<1>4. FdOK' /\ OwnDescriptor'
  BY <1>1, PerParts DEF FdOK, OwnDescriptor
<1> QED BY <1>3, <1>4 DEF PerInv, Records

LEMMA I2cStep ==
  ASSUME PerInv, Flags', NEW n \in 1 .. Len(asked), I2cRequest(n)
  PROVE  PerInv'
<1> DEFINE q == asked[n]
           valid == q.form = "ok" /\ (q.w > 0 \/ q.r)
<1>1. /\ Drain(n) /\ kind = "i2c" /\ UNCHANGED <<fd, foreign>>
      /\ incidents' = incidents \/ incidents' = incidents \cup {"nomem"}
  BY DEF I2cRequest, fdVars
<1>2. /\ PerType /\ LoopOK /\ LeftOK /\ status = "running" /\ q.w \in Nat /\ q.r \in BOOLEAN
      /\ Allocates(q) <=> q.form = "ok" /\ q.r
  BY <1>1, PerParts, DrainParts, RequestParts DEF Allocates
<1>3. rx \in {"null", "freed"} /\ xfer = "null"
  BY <1>1, <1>2 DEF PerType, LoopOK, LeftOK
<1>4. PICK rx1 \in {"null", "live", "freed"} :
        /\ FreeMsg(rx1, xfer)
        /\ rx1 = "freed" => rx = "freed" /\ ~Allocates(q)
        /\ rx1 = "live" => Allocates(q)
  <2>1. CASE ~valid /\ FreeMsg(rx, xfer)
    BY <1>2, <1>3, <2>1
  <2>2. CASE FreeMsg("null", xfer)
    BY <2>2
  <2>3. CASE valid /\ FreeMsg(I2cBuffer(q), xfer)
    <3>1. CASE q.r
      BY <1>2, <2>3, <3>1 DEF I2cBuffer
    <3>2. CASE ~q.r
      BY <1>2, <1>3, <2>3, <3>2 DEF I2cBuffer
    <3> QED BY <3>1, <3>2
  <2> QED BY <2>1, <2>2, <2>3 DEF I2cRequest
<1>5. /\ LoopOK' /\ LeftOK' /\ BuffersFreedOnce' /\ cb' = cb
      /\ status' \in {"running", "closed", "corrupt"}
      /\ rx' \in {"null", "live", "freed"} /\ xfer' \in {"null", "live", "freed"}
      /\ handled' \in Seq(1 .. Len(asked))
  <2>1. /\ "freed" \in {rx1, xfer} => "freed" \in {rx, xfer} /\ ~Allocates(asked[n])
        /\ "live" \in {rx1, xfer} => Allocates(asked[n])
        /\ xfer \in {"null", "live", "freed"}
    BY <1>3, <1>4
  <2> QED BY <1>1, <1>3, <1>4, <2>1, BufferPart
<1>6. incidents \subseteq incidents' /\ incidents' \subseteq incidents \cup {"nomem", "write_error"}
  BY <1>1
<1>7. Records'
  <2>1. CASE UNCHANGED <<device, out>>
    BY <1>1, <1>6, <2>1, DropPart
  <2>2. CASE Perform(n, q.w) /\ Reply(q.r, n, 1)
    <3>1. q.r <=> Wants(asked[n]) /\ q.w = asked[n].w
      BY <1>1 DEF Wants
    <3> QED BY <1>1, <1>2, <1>6, <2>2, <3>1, DonePart
  <2> QED BY <2>1, <2>2 DEF I2cRequest
<1>8. /\ fd' \in {"own", "closed", "other"} /\ (fd' # "own" => fd # "own")
      /\ foreign' => foreign
  BY <1>1, <1>2 DEF PerType
<1> QED BY <1>1, <1>5, <1>6, <1>7, <1>8, HandlerStep

LEMMA SpiStep ==
  ASSUME PerInv, Flags', NEW n \in 1 .. Len(asked), SpiRequest(n)
  PROVE  PerInv'
<1> DEFINE q == asked[n]
<1>1. /\ Drain(n) /\ kind = "spi" /\ UNCHANGED <<fd, foreign>>
      /\ incidents' = incidents \/ incidents' = incidents \cup {"nomem"}
  BY DEF SpiRequest, fdVars
<1>2. /\ PerType /\ LoopOK /\ status = "running" /\ q.w \in Nat /\ q.r \in BOOLEAN
      /\ Allocates(q) <=> q.form = "ok"
  BY <1>1, PerParts, DrainParts, RequestParts DEF Allocates
<1>3. rx \in {"null", "freed"} /\ xfer \in {"null", "freed"}
  BY <1>1, <1>2 DEF PerType, LoopOK
<1>4. PICK rx1 \in {"null", "live", "freed"}, xfer1 \in {"null", "live", "freed"} :
        /\ FreeMsg(rx1, xfer1)
        /\ "freed" \in {rx1, xfer1} => "freed" \in {rx, xfer} /\ ~Allocates(q)
        /\ "live" \in {rx1, xfer1} => Allocates(q)
  <2>1. CASE q.form = "bad" /\ FreeMsg(rx, xfer)
    BY <1>2, <1>3, <2>1
  <2>2. CASE q.form = "ok" /\ FreeMsg("null", "live")
    BY <1>2, <2>2
  <2>3. CASE q.form = "ok" /\ FreeMsg("live", "null")
    BY <1>2, <2>3
  <2>4. CASE q.form = "ok" /\ FreeMsg("null", "null")
    BY <1>2, <2>4
  <2>5. CASE q.form = "ok" /\ FreeMsg("live", "live")
    BY <1>2, <2>5
  <2> QED BY <2>1, <2>2, <2>3, <2>4, <2>5 DEF SpiRequest
<1>5. /\ LoopOK' /\ LeftOK' /\ BuffersFreedOnce' /\ cb' = cb
      /\ status' \in {"running", "closed", "corrupt"}
      /\ rx' \in {"null", "live", "freed"} /\ xfer' \in {"null", "live", "freed"}
      /\ handled' \in Seq(1 .. Len(asked))
  BY <1>1, <1>4, BufferPart
<1>6. incidents \subseteq incidents' /\ incidents' \subseteq incidents \cup {"nomem", "write_error"}
  BY <1>1
<1>7. Records'
  <2>1. CASE UNCHANGED <<device, out>>
    BY <1>1, <1>6, <2>1, DropPart
  <2>2. CASE SpiTransfer(n, q)
    <3>1. PICK k \in 0 .. q.w : Perform(n, k) /\ Reply(q.r /\ k = q.w, n, q.w)
      BY <2>2 DEF SpiTransfer
    <3>2. k \in Nat /\ (q.r /\ k = q.w) \in BOOLEAN
      BY <1>2
    <3>3. (q.r /\ k = q.w) <=> Wants(asked[n]) /\ k = asked[n].w
      BY <1>1 DEF Wants
    <3>4. q.w # 0 \/ (kind = "spi" /\ asked[n].w = 0)
      BY <1>1
    <3> QED BY <1>1, <1>2, <1>6, <3>1, <3>2, <3>3, <3>4, DonePart
  <2> QED BY <2>1, <2>2 DEF SpiRequest
<1>8. /\ fd' \in {"own", "closed", "other"} /\ (fd' # "own" => fd # "own")
      /\ foreign' => foreign
  BY <1>1, <1>2 DEF PerType
<1> QED BY <1>1, <1>5, <1>6, <1>7, <1>8, HandlerStep

\* A handler that keeps no buffers.
LEMMA NoBuffers ==
  ASSUME PerInv, NEW n \in 1 .. Len(asked), Drain(n), FreeMsg("null", "null")
  PROVE  /\ LoopOK' /\ LeftOK' /\ BuffersFreedOnce' /\ cb' = cb
         /\ status' \in {"running", "closed", "corrupt"}
         /\ rx' \in {"null", "live", "freed"} /\ xfer' \in {"null", "live", "freed"}
         /\ handled' \in Seq(1 .. Len(asked))
BY BufferPart

\* A handler that writes to the device and never answers.
LEMMA DoneSilently ==
  ASSUME PerInv, NEW n \in 1 .. Len(asked), Drain(n), NEW len \in Nat, Perform(n, len),
         out' = out, kind \notin {"i2c", "spi", "sysfs"}, incidents \subseteq incidents'
  PROVE  Records'
<1>1. ~Wants(asked[n])
  BY DEF Wants
<1>2. Reply(FALSE, n, 0) /\ FALSE \in BOOLEAN /\ 0 \in Nat
  BY DEF Reply
<1> QED BY <1>1, <1>2, DonePart

LEMMA GpioStep ==
  ASSUME PerInv, Flags', NEW n \in 1 .. Len(asked), GpioRequest(n)
  PROVE  PerInv'
<1>1. /\ Drain(n) /\ kind \in {"gpio_in", "gpio_out"} /\ FreeMsg("null", "null")
      /\ Perform(n, 1) \/ device' = device
      /\ UNCHANGED <<out, fd, foreign, incidents>> /\ PerType
  BY PerParts DEF GpioRequest, fdVars
<1>2. Records'
  <2>1. CASE device' = device
    BY <1>1, <2>1, DropPart
  <2>2. CASE Perform(n, 1)
    BY <1>1, <2>2, DoneSilently
  <2> QED BY <1>1, <2>1, <2>2
<1>3. fd' \in {"own", "closed", "other"}
  BY <1>1 DEF PerType
<1> QED BY <1>1, <1>2, <1>3, NoBuffers, HandlerStep

LEMMA SysfsStep ==
  ASSUME PerInv, Flags', NEW n \in 1 .. Len(asked), SysfsRequest(n)
  PROVE  PerInv'
<1> DEFINE q == asked[n]
<1>1. /\ Drain(n) /\ kind = "sysfs" /\ UNCHANGED <<fd, foreign>> /\ PerType
      /\ incidents' = incidents \/ incidents' = incidents \cup {"nomem"}
  BY PerParts DEF SysfsRequest, fdVars
<1>2. incidents \subseteq incidents' /\ incidents' \subseteq incidents \cup {"nomem", "write_error"}
  BY <1>1
<1>3. Records'
  <2>1. CASE UNCHANGED <<device, out>>
    BY <1>1, <1>2, <2>1, DropPart
  <2>2. CASE Perform(n, q.w) /\ Reply(q.w = 0, n, 1)
    <3>1. (q.w = 0) <=> Wants(asked[n]) /\ q.w = asked[n].w
      BY <1>1 DEF Wants
    <3>2. q.w \in Nat /\ (q.w = 0) \in BOOLEAN
      BY RequestParts
    <3>3. 1 \in Nat /\ (1 # 0 \/ (kind = "spi" /\ asked[n].w = 0))
      OBVIOUS
    <3>4. PICK len \in Nat, wanted \in BOOLEAN :
            /\ len = q.w /\ (wanted <=> q.w = 0) /\ Perform(n, len) /\ Reply(wanted, n, 1)
      BY <2>2, <3>2
    <3>5. wanted <=> Wants(asked[n]) /\ len = asked[n].w
      BY <3>1, <3>4
    <3> QED BY <1>1, <1>2, <3>3, <3>4, <3>5, DonePart
  <2> QED BY <2>1, <2>2 DEF SysfsRequest
<1>4. fd' \in {"own", "closed", "other"} /\ (foreign' => foreign)
  BY <1>1 DEF PerType
<1>5. CASE FreeMsg("null", "null")
  BY <1>1, <1>2, <1>3, <1>4, <1>5, NoBuffers, HandlerStep
<1>6. CASE status' = "corrupt" /\ "nomem" \in incidents' /\ UNCHANGED <<cb, rx, xfer>>
  <2>1. /\ bound /\ UNCHANGED <<kind, bound, asked>> /\ handled' = Append(handled, n)
    BY <1>1, DrainParts
  <2>2. /\ handled \in Seq(1 .. Len(asked)) /\ Len(handled) \in Nat
        /\ handled' \in Seq(1 .. Len(asked)) /\ Len(handled') = Len(handled) + 1
        /\ \A j \in 1 .. Len(handled) : handled'[j] = handled[j]
    BY <1>1, <2>1 DEF PerType
  <2>3. LoopOK' /\ BuffersFreedOnce'
    BY <1>6, <2>1 DEF LoopOK, BuffersFreedOnce
  <2>4. LeftOK'
    <3>1. ASSUME "freed" \in {rx, xfer}
          PROVE  \E j \in 1 .. Len(handled') : Allocates(asked[handled'[j]])
      <4>1. PICK j \in 1 .. Len(handled) : Allocates(asked[handled[j]])
        BY <3>1, PerParts DEF LeftOK
      <4>2. j \in 1 .. Len(handled') /\ handled'[j] = handled[j]
        BY <2>2
      <4> QED BY <4>1, <4>2
    <3> QED BY <1>1, <1>6, <2>1, <3>1 DEF LeftOK, Allocates
  <2>5. rx' \in {"null", "live", "freed"} /\ xfer' \in {"null", "live", "freed"}
    BY <1>1, <1>6 DEF PerType
  <2> QED BY <1>1, <1>2, <1>3, <1>4, <1>6, <2>2, <2>3, <2>4, <2>5, HandlerStep
<1> QED BY <1>5, <1>6 DEF SysfsRequest

LEMMA TtyStep ==
  ASSUME PerInv, Flags', NEW n \in 1 .. Len(asked), TtyRequest(n)
  PROVE  PerInv'
<1>1. /\ Drain(n) /\ kind = "tty" /\ FreeMsg("null", "null") /\ MsgWrite(n) /\ out' = out
      /\ PerType
  BY PerParts DEF TtyRequest
<1>2. /\ incidents \subseteq incidents' /\ incidents' \subseteq incidents \cup {"nomem", "write_error"}
      /\ fd' \in {"own", "closed", "other"}
      /\ fd' # "own" => fd # "own" \/ "write_error" \in incidents'
      /\ foreign' => foreign \/ fd = "other"
      /\ device' = device \/ \E len \in Nat : Perform(n, len)
  <2>1. CASE fd = "own" /\ Perform(n, TtyLen) /\ UNCHANGED <<fd, foreign, incidents>>
    BY <2>1 DEF TtyLen
  <2>2. CASE /\ fd' = "closed" /\ \E k \in 0 .. TtyLen - 1 : Perform(n, k)
             /\ incidents' = incidents \cup {"write_error"} /\ foreign' = foreign
    <3>1. PICK k \in 0 .. TtyLen - 1 : Perform(n, k)
      BY <2>2
    <3>2. k \in Nat
      BY DEF TtyLen
    <3> QED BY <2>2, <3>1, <3>2
  <2>3. CASE fd = "closed" /\ UNCHANGED <<device, fd, foreign, incidents>>
    BY <2>3
  <2>4. CASE fd = "other" /\ fd' \in {"other", "closed"} /\ UNCHANGED <<device, incidents>>
    BY <2>4
  <2> QED BY <1>1, <2>1, <2>2, <2>3, <2>4 DEF MsgWrite, fdVars
<1>3. Records'
  <2>1. CASE device' = device
    BY <1>1, <1>2, <2>1, DropPart
  <2>2. ASSUME NEW len \in Nat, Perform(n, len) PROVE Records'
    BY <1>1, <1>2, <2>2, DoneSilently
  <2> QED BY <1>2, <2>1, <2>2
<1> QED BY <1>1, <1>2, <1>3, NoBuffers, HandlerStep

-----------------------------------------------------------------------------
(* The invariant and the theorems *)

LEMMA PerInvInit == Init => PerInv
<1> SUFFICES ASSUME Init PROVE PerInv
  OBVIOUS
<1>1. Flags
  <2>1. bound = FALSE /\ foreign = FALSE /\ watching = (kind \in Watched)
    BY DEF Init
  <2>2. (kind \in Watched) \in BOOLEAN
    OBVIOUS
  <2> QED BY <2>1, <2>2, Zenon DEF Flags
<1>2. PerType
  BY PeripheralAssumption DEF Init, PerType
<1>3. TypeOK
  BY <1>1, <1>2, TypeParts
<1>4. LoopOK /\ InOrder /\ LeftOK /\ FdOK /\ OutOK
  BY DEF Init, LoopOK, InOrder, LeftOK, FdOK, OutOK
<1>5. BuffersFreedOnce /\ OwnDescriptor /\ NoEmptyFrames
  BY DEF Init, BuffersFreedOnce, OwnDescriptor, NoEmptyFrames
<1>6. RepliesOK
  BY DEF Init, RepliesOK, Replies
<1>7. InputInOrder
  BY DEF Init, InputInOrder, Inputs
<1> QED BY <1>3, <1>4, <1>5, <1>6, <1>7, RepliesParts DEF PerInv

LEMMA PerInvNext == PerInv /\ [Next]_vars => PerInv'
<1> SUFFICES ASSUME PerInv, [Next]_vars PROVE PerInv'
  OBVIOUS
<1>1. Flags'
  BY FlagsStep, TypeParts DEF PerInv
<1>2. ASSUME NEW n \in 1 .. Len(asked), Handle(n) PROVE PerInv'
  BY <1>1, <1>2, I2cStep, SpiStep, GpioStep, SysfsStep, TtyStep, Zenon DEF Handle
<1>3. CASE UNCHANGED vars
  <2>1. /\ UNCHANGED <<kind, status, bound, asked, in, cb, rx, xfer, handled, device, out>>
        /\ UNCHANGED <<inputs, taken, reads, watching, fd, foreign, incidents>>
    BY <1>3 DEF vars
  <2>2. PerType' /\ LeftOK' /\ FdOK' /\ OwnDescriptor'
    BY <2>1, PerParts, SameHandler DEF PerType, FdOK, OwnDescriptor
  <2>3. LoopOK'
    BY <2>1, PerParts DEF LoopOK
  <2>4. CASE status # "corrupt"
    BY <1>1, <2>1, <2>2, <2>3, <2>4, QuietStep
  <2>5. CASE status = "corrupt"
    <3>1. TypeOK' /\ InOrder' /\ OutOK' /\ InputInOrder' /\ NoEmptyFrames'
      <4>1. TypeOK'
        BY <1>1, <2>2, TypeParts, PTL
      <4>2. InOrder' /\ OutOK'
        BY <2>1, PerParts DEF InOrder, OutOK
      <4>3. InputInOrder' /\ NoEmptyFrames'
        BY <2>1 DEF PerInv, InputInOrder, Inputs, EndOf, NoEmptyFrames
      <4> QED BY <4>1, <4>2, <4>3
    <3>2. RepliesOK'
      <4>1. kind' = kind /\ asked' = asked /\ device' = device /\ out' = out
        BY <2>1
      <4>2. RepliesOK /\ Replies' = Replies
        BY <4>1, RepliesParts DEF PerInv, Replies
      <4>3. \A j : Complete(j)' <=> Complete(j)
        BY <4>1 DEF Complete, Wants
      <4> QED BY <4>1, <4>2, <4>3 DEF RepliesOK
    <3>3. BuffersFreedOnce'
      BY <2>1 DEF PerInv, BuffersFreedOnce, Allocates
    <3>4. RepliesMatchRequests'
      BY <3>2, RepliesParts, PTL
    <3> QED BY <2>2, <2>3, <3>1, <3>3, <3>4 DEF PerInv
  <2> QED BY <2>4, <2>5
<1>4. CASE Next
  <2>1. ASSUME NEW q \in Request, PeerWrite(q) PROVE PerInv'
    BY <1>1, <2>1, PeerWriteStep
  <2>2. CASE Bind \/ Unbind \/ Close \/ OtherOpens \/ Enter \/ DrainStops \/ DeviceInput
    BY <1>1, <2>2, BindStep, UnbindStep, CloseStep, OtherOpensStep, EnterStep,
       DrainStopsStep, DeviceInputStep, Zenon
  <2>3. CASE TtyHangup \/ GpioError
    BY <1>1, <2>3, WatchingEnds
  <2>4. CASE (\E len \in 1 .. inputs - taken : TtyRead(len)) \/ TtyReadError \/ GpioEvent
    BY <1>1, <2>4, UpstreamStep
  <2> QED BY <1>2, <1>4, <2>1, <2>2, <2>3, <2>4, Zenon DEF Next
<1> QED BY <1>3, <1>4, Zenon

LEMMA PerInvariant == Spec => []PerInv
BY PerInvInit, PerInvNext, PTL DEF Spec

\* The variables of an endpoint of a device keep their types.
THEOREM PerTypeCorrect == Spec => []TypeOK
<1>1. PerInv => TypeOK
  BY DEF PerInv
<1> QED BY <1>1, PerInvariant, PTL

\* While malloc succeeds, the handlers of ep_i2c.c and ep_spi.c free a buffer twice
\* only in a batch of the shape that BuffersFreedOnce names, and an endpoint uses a
\* descriptor of someone else only after a write to its device failed.
THEOREM ResourcesCorrect == Spec => []ResourcesAreOwned
<1>1. PerInv => ResourcesAreOwned
  BY DEF PerInv, ResourcesAreOwned
<1> QED BY <1>1, PerInvariant, PTL

\* The device gets the requests in order and at most once each, and the peer gets
\* in order one reply for each request that was done completely and wants one, for
\* any number of requests in a batch, any failures and any rebinding.
THEOREM RepliesCorrect == Spec => []RepliesMatchRequests
<1>1. PerInv => RepliesMatchRequests
  BY DEF PerInv
<1> QED BY <1>1, PerInvariant, PTL

\* A frame without contents comes only from an SPI request to read nothing or from
\* a failing read of a serial line.
THEOREM FramesHaveContents == Spec => []NoEmptyFrames
<1>1. PerInv => NoEmptyFrames
  BY DEF PerInv
<1> QED BY <1>1, PerInvariant, PTL

\* The input of a device reaches the peer in order and at most once, and a serial
\* line loses nothing that upstream has read.
THEOREM InputCorrect == Spec => []InputInOrder
<1>1. PerInv => InputInOrder
  BY DEF PerInv
<1> QED BY <1>1, PerInvariant, PTL

=============================================================================
