--------------------------- MODULE MessageProofs ---------------------------
(* Proofs about the framing, for every header size and message length. *)
EXTENDS Message, SequenceTheorems, TLAPS

USE HdrAssumption, ModAssumption, LensAssumption, MaxFramesAssumption

\* The offset behind frame k.
End(k) == frames[k].start + Hdr + frames[k].len

\* The frames follow each other without a gap and fill the stream.
Contiguous ==
  /\ \A k \in 1 .. Len(frames) :
       /\ frames[k].start = IF k = 1 THEN 0 ELSE End(k - 1)
       /\ End(k) <= written
  /\ \A j, k \in 1 .. Len(frames) : j < k => End(j) <= frames[k].start
  /\ written = IF Len(frames) = 0 THEN 0 ELSE End(Len(frames))

\* The reader stands behind the last message it was given.
Aligned ==
  FramesFit => drained = IF Len(delivered) = 0 THEN 0 ELSE End(Len(delivered))

\* The inductive invariant.
MsgInv == TypeOK /\ Contiguous /\ Aligned /\ DeliversInOrder

LEMMA SmallMod == \A a \in Nat : a < Mod => a % Mod = a
OBVIOUS

\* What it means to be an element of a sequence of frames.
LEMMA FrameOf ==
  ASSUME NEW s \in Seq(Frame), NEW k \in 1 .. Len(s)
  PROVE  /\ s[k].start \in Nat /\ s[k].len \in Nat
         /\ s[k] = [start |-> s[k].start, len |-> s[k].len]
<1>1. s[k] \in Frame
  OBVIOUS
<1> QED BY <1>1 DEF Frame

LEMMA MsgInit == Init => MsgInv
<1> SUFFICES ASSUME Init PROVE MsgInv
  OBVIOUS
<1>1. starved \in BOOLEAN
  BY Zenon DEF Init
<1>2. TypeOK
  BY <1>1 DEF Init, TypeOK
<1>3. Contiguous /\ Aligned /\ DeliversInOrder
  BY DEF Init, Contiguous, Aligned, DeliversInOrder
<1> QED BY <1>2, <1>3 DEF MsgInv

\* A message that is appended keeps the stream contiguous.
LEMMA SendInv ==
  ASSUME MsgInv, NEW len \in Lens, Send(len)
  PROVE  MsgInv'
<1> DEFINE f == [start |-> written, len |-> len]
<1>1. /\ TypeOK
      /\ len \in Nat /\ written \in Nat /\ f \in Frame
      /\ frames \in Seq(Frame) /\ delivered \in Seq(Frame)
      /\ frames' = Append(frames, f)
      /\ written' = written + Hdr + len
      /\ UNCHANGED <<arrived, drained, delivered, cb, starved>>
  BY DEF MsgInv, TypeOK, Send, Frame
<1>2. /\ Len(frames') = Len(frames) + 1 /\ Len(frames) \in Nat
      /\ \A k \in 1 .. Len(frames) : frames'[k] = frames[k]
      /\ frames'[Len(frames) + 1] = f
      /\ frames' \in Seq(Frame)
  BY <1>1
<1>3. TypeOK'
  BY <1>1, <1>2 DEF TypeOK
<1>4. \A k \in 1 .. Len(frames) : /\ frames[k].start \in Nat
                                  /\ frames[k].len \in Nat
  BY <1>1, FrameOf
<1>5. Contiguous'
  <2>0. PICK m \in Nat : m = Len(frames)
    BY <1>2
  <2>1. /\ \A k \in 1 .. m :
             /\ frames[k].start = IF k = 1 THEN 0 ELSE End(k - 1)
             /\ End(k) <= written
        /\ \A j, k \in 1 .. m : j < k => End(j) <= frames[k].start
        /\ written = IF m = 0 THEN 0 ELSE End(m)
    BY <2>0 DEF MsgInv, Contiguous
  <2>2. \A k \in 1 .. m : End(k)' = End(k) /\ End(k) \in Nat
    BY <2>0, <1>1, <1>2, <1>4 DEF End
  <2>3. End(m + 1)' = written + Hdr + len
    BY <2>0, <1>2 DEF End
  <2>4. \A k \in 1 .. Len(frames') : k \in 1 .. m \/ k = m + 1
    BY <2>0, <1>2
  <2>5. ASSUME NEW k \in 1 .. Len(frames')
        PROVE  /\ frames'[k].start = IF k = 1 THEN 0 ELSE End(k - 1)'
               /\ End(k)' <= written'
    <3>1. CASE k \in 1 .. m
      <4>1. k # 1 => k - 1 \in 1 .. m
        BY <2>0, <1>2, <3>1
      <4> QED BY <2>0, <1>1, <1>2, <2>1, <2>2, <3>1, <4>1
    <3>2. CASE k = m + 1
      <4>1. m # 0 => m \in 1 .. m
        BY <2>0, <1>2
      <4> QED BY <2>0, <1>1, <1>2, <2>1, <2>2, <2>3, <3>2, <4>1
    <3> QED BY <2>4, <3>1, <3>2
  <2>6. ASSUME NEW j \in 1 .. Len(frames'), NEW k \in 1 .. Len(frames'), j < k
        PROVE  End(j)' <= frames'[k].start
    <3>1. j \in 1 .. m
      BY <2>0, <1>2, <2>6
    <3> QED BY <2>0, <1>2, <2>1, <2>2, <2>4, <3>1, <2>6
  <2> QED BY <2>0, <1>1, <1>2, <2>3, <2>5, <2>6 DEF Contiguous
<1>6. FramesFit' => FramesFit
  <2>1. \A k \in 1 .. Len(frames) : k \in 1 .. Len(frames')
    BY <1>2
  <2> QED BY <1>2, <2>1 DEF FramesFit
<1>7. Len(delivered) \in Nat
  BY <1>1
<1>8. Aligned' /\ DeliversInOrder'
  BY <1>1, <1>2, <1>6, <1>7 DEF MsgInv, Aligned, DeliversInOrder, End
<1> QED BY <1>3, <1>5, <1>8 DEF MsgInv

\* When the frames fit, a length is read only at the start of the next frame,
\* and that frame is removed whole.
LEMMA DrainInv ==
  ASSUME MsgInv, NEW header \in Headers, DrainMessage(header)
  PROVE  MsgInv'
<1> DEFINE len == MsgLength(header)
           n == Len(delivered)
           g == [start |-> drained, len |-> len]
<1>1. /\ frames \in Seq(Frame) /\ delivered \in Seq(Frame)
      /\ written \in Nat /\ arrived \in Nat /\ drained \in Nat
      /\ arrived <= written /\ drained <= arrived
      /\ n \in Nat /\ Len(frames) \in Nat
  BY DEF MsgInv, TypeOK
<1>0. \A k \in 1 .. Len(frames) : frames[k].start \in Nat /\ frames[k].len \in Nat
  BY <1>1, FrameOf
<1>2. header \in Nat
  <2>1. \A a \in Nat : a % Mod \in Nat
    OBVIOUS
  <2> QED BY <1>0, <2>1 DEF Headers
<1>3. /\ len = header /\ len > 0
      /\ BufLen \in Nat /\ BufLen >= Hdr /\ BufLen >= (header + Hdr) % Mod
  BY <1>1, <1>2 DEF DrainMessage, MsgLength, BufLen
<1>4. /\ drained' = drained + Hdr + Removed(len)
      /\ delivered' = Append(delivered, g)
      /\ UNCHANGED <<frames, written, arrived, cb, starved>>
  BY DEF DrainMessage
<1>5. Removed(len) \in Nat /\ Removed(len) <= BufLen - Hdr
  BY <1>2, <1>3 DEF Removed
<1>6. g \in Frame
  BY <1>1, <1>2, <1>3 DEF Frame
<1>7. TypeOK'
  BY <1>1, <1>4, <1>5, <1>6 DEF MsgInv, TypeOK, BufLen
<1>8. Contiguous'
  BY <1>4 DEF MsgInv, Contiguous, End
<1>9. ASSUME FramesFit
      PROVE  /\ n + 1 <= Len(frames)
             /\ g = frames[n + 1]
             /\ drained' = End(n + 1)
  <2>1. /\ n <= Len(frames)
        /\ drained = IF n = 0 THEN 0 ELSE End(n)
    BY <1>9 DEF MsgInv, Aligned, DeliversInOrder
  <2>2. n + 1 \in 1 .. Len(frames) /\ drained = frames[n + 1].start
    BY <1>1, <1>3, <2>1 DEF MsgInv, Contiguous, BufLen
  <2>3. \A j \in 1 .. Len(frames) : frames[j].start = drained => j = n + 1
    <3>1. \A j \in 1 .. Len(frames) : End(j) \in Nat /\ End(j) > frames[j].start
      BY <1>0 DEF End
    <3>2. \A j, k \in 1 .. Len(frames) : j < k => End(j) <= frames[k].start
      BY DEF MsgInv, Contiguous
    <3> SUFFICES ASSUME NEW j \in 1 .. Len(frames), frames[j].start = drained,
                        j # n + 1
                 PROVE  FALSE
      OBVIOUS
    <3>3. j < n + 1 \/ n + 1 < j
      BY <1>1
    <3>4. frames[j].start \in Nat /\ frames[n + 1].start \in Nat
      BY <1>0, <2>2
    <3>5. CASE j < n + 1
      <4>1. End(j) <= frames[n + 1].start
        BY <2>2, <3>2, <3>5
      <4> QED BY <2>2, <3>1, <3>4, <4>1
    <3>6. CASE n + 1 < j
      <4>1. End(n + 1) <= frames[j].start
        BY <2>2, <3>2, <3>6
      <4> QED BY <2>2, <3>1, <3>4, <4>1
    <3> QED BY <3>3, <3>5, <3>6
  <2>4. header = frames[n + 1].len % Mod
    BY <2>2, <2>3 DEF Headers
  <2>5. frames[n + 1].len \in Nat /\ frames[n + 1].len + Hdr < Mod
    BY <1>0, <1>9, <2>2 DEF FramesFit
  <2>6. header = frames[n + 1].len /\ (header + Hdr) % Mod = header + Hdr
    <3>1. PICK a \in Nat : a = frames[n + 1].len
      BY <2>5
    <3>2. a < Mod /\ a + Hdr < Mod /\ a + Hdr \in Nat
      BY <2>5, <3>1
    <3>3. a % Mod = a /\ (a + Hdr) % Mod = a + Hdr
      BY <3>2, SmallMod
    <3> QED BY <2>4, <3>1, <3>3
  <2>7. Removed(len) = len
    BY <1>2, <1>3, <2>6 DEF Removed
  <2>8. frames[n + 1] = [start |-> drained, len |-> len]
    BY <1>1, <1>3, <2>2, <2>6, FrameOf
  <2> QED BY <1>1, <1>4, <2>2, <2>7, <2>8, <1>3, <2>6 DEF End
<1>10. FramesFit' => FramesFit
  BY <1>4 DEF FramesFit
<1>11. /\ Len(delivered') = n + 1
       /\ \A k \in 1 .. n : delivered'[k] = delivered[k]
       /\ delivered'[n + 1] = g
  BY <1>1, <1>4, <1>6
<1> HIDE DEF len, n, g
<1>12. Aligned'
  BY <1>1, <1>4, <1>9, <1>10, <1>11 DEF Aligned, End
<1>13. DeliversInOrder'
  BY <1>1, <1>4, <1>9, <1>10, <1>11 DEF MsgInv, DeliversInOrder, n
<1> QED BY <1>7, <1>8, <1>12, <1>13 DEF MsgInv

\* The other steps leave the frames and the messages alone.
LEMMA OtherInv ==
  ASSUME MsgInv,
         UNCHANGED <<frames, written, drained, delivered>>,
         arrived' \in drained .. written,
         cb' \in {"idle", "scheduled", "running"},
         starved' \in BOOLEAN
  PROVE  MsgInv'
<1>1. TypeOK'
  BY DEF MsgInv, TypeOK
<1>2. Contiguous' /\ Aligned' /\ DeliversInOrder'
  BY DEF MsgInv, Contiguous, Aligned, DeliversInOrder, End, FramesFit
<1> QED BY <1>1, <1>2 DEF MsgInv

LEMMA MsgStep == MsgInv /\ [Next]_vars => MsgInv'
<1> SUFFICES ASSUME MsgInv, [Next]_vars PROVE MsgInv'
  OBVIOUS
<1>1. /\ TypeOK /\ arrived \in drained .. written
      /\ written \in Nat /\ drained \in Nat /\ arrived \in Nat
      /\ starved \in BOOLEAN
  BY DEF MsgInv, TypeOK
<1>2. ASSUME NEW len \in Lens, Send(len) PROVE MsgInv'
  BY <1>2, SendInv
<1>3. ASSUME NEW n \in 1 .. written - arrived, Arrive(n) PROVE MsgInv'
  BY <1>1, <1>3, OtherInv DEF Arrive
<1>4. CASE Enter
  BY <1>1, <1>4, OtherInv DEF Enter
<1>5. ASSUME NEW header \in Headers, DrainMessage(header) PROVE MsgInv'
  BY <1>5, DrainInv
<1>6. ASSUME NEW header \in Headers, DrainNothing(header) PROVE MsgInv'
  BY <1>1, <1>6, OtherInv DEF DrainNothing
<1>7. ASSUME NEW header \in Headers, DrainFails(header) PROVE MsgInv'
  <2>1. starved' \in BOOLEAN
    BY <1>7, Zenon DEF DrainFails
  <2> QED BY <1>1, <1>7, <2>1, OtherInv DEF DrainFails
<1>8. CASE UNCHANGED vars
  BY <1>1, <1>8, OtherInv DEF vars, TypeOK
<1> QED BY <1>2, <1>3, <1>4, <1>5, <1>6, <1>7, <1>8 DEF Next, DrainStep

LEMMA MsgInvariant == Spec => []MsgInv
BY MsgInit, MsgStep, PTL DEF Spec

\* The stream's counters and the callback always have their types; in
\* particular the reader never removes bytes that have not arrived.
THEOREM MessageTypeCorrect == Spec => []TypeOK
BY MsgInvariant, PTL DEF MsgInv

\* rteipc_msg_drain delivers what rteipc_evbuffer sent, whole and in order,
\* however the bytes arrive.
THEOREM FramingCorrect == Spec => []DeliversInOrder
BY MsgInvariant, PTL DEF MsgInv

-----------------------------------------------------------------------------
(* The refinement of Fifo *)

\* The suffix of a sequence behind its first n elements.
LEMMA Suffix ==
  ASSUME NEW s \in Seq(Frame), NEW n \in 0 .. Len(s)
  PROVE  /\ SubSeq(s, n + 1, Len(s)) \in Seq(Frame)
         /\ Len(SubSeq(s, n + 1, Len(s))) = Len(s) - n
         /\ \A i \in 1 .. Len(s) - n : SubSeq(s, n + 1, Len(s))[i] = s[n + i]
<1>1. /\ Len(s) \in Int /\ n + 1 \in Int
      /\ \A i \in n + 1 .. Len(s) : s[i] \in Frame
  OBVIOUS
<1>2. /\ SubSeq(s, n + 1, Len(s)) \in Seq(Frame)
      /\ Len(SubSeq(s, n + 1, Len(s))) = IF n + 1 <= Len(s) THEN Len(s) - (n + 1) + 1 ELSE 0
      /\ \A i \in 1 .. Len(s) - (n + 1) + 1 : SubSeq(s, n + 1, Len(s))[i] = s[n + 1 + i - 1]
  BY <1>1, SubSeqProperties
<1> QED BY <1>2

\* A message that is sent is put at the end of the queue.
LEMMA SendPuts ==
  ASSUME MsgInv, FramesFit', NEW len \in Lens, Send(len)
  PROVE  Abstract!Put
<1> DEFINE f == [start |-> written, len |-> len]
           n == Len(delivered)
<1>1. /\ frames \in Seq(Frame) /\ delivered \in Seq(Frame) /\ f \in Frame
      /\ frames' = Append(frames, f) /\ delivered' = delivered
  BY DEF MsgInv, TypeOK, Send, Frame
<1>2. /\ frames' \in Seq(Frame) /\ Len(frames') = Len(frames) + 1 /\ Len(frames) \in Nat
      /\ \A k \in 1 .. Len(frames) : frames'[k] = frames[k]
      /\ frames'[Len(frames) + 1] = f
  BY <1>1
<1>3. FramesFit
  BY <1>2 DEF FramesFit
<1>4. n \in 0 .. Len(frames) /\ n \in 0 .. Len(frames')
  BY <1>1, <1>2, <1>3 DEF MsgInv, DeliversInOrder
<1>0. /\ Waiting = SubSeq(frames, n + 1, Len(frames))
      /\ Waiting' = SubSeq(frames', n + 1, Len(frames'))
  BY <1>1 DEF Waiting
<1> HIDE DEF f, n
<1>5. /\ Waiting \in Seq(Frame) /\ Len(Waiting) = Len(frames) - n
      /\ \A i \in 1 .. Len(frames) - n : Waiting[i] = frames[n + i]
  BY <1>1, <1>4, <1>0, Suffix
<1>6. /\ Waiting' \in Seq(Frame) /\ Len(Waiting') = Len(frames) + 1 - n
      /\ \A i \in 1 .. Len(frames) + 1 - n : Waiting'[i] = frames'[n + i]
  <2>1. /\ Waiting' \in Seq(Frame) /\ Len(Waiting') = Len(frames') - n
        /\ \A i \in 1 .. Len(frames') - n : Waiting'[i] = frames'[n + i]
    BY <1>2, <1>4, <1>0, Suffix
  <2>2. Len(frames') - n = Len(frames) + 1 - n
    BY <1>2, <1>4
  <2> QED BY <2>1, <2>2
<1>7. /\ Append(Waiting, f) \in Seq(Frame) /\ Len(Append(Waiting, f)) = Len(Waiting) + 1
      /\ \A i \in 1 .. Len(Waiting) : Append(Waiting, f)[i] = Waiting[i]
      /\ Append(Waiting, f)[Len(Waiting) + 1] = f
  BY <1>1, <1>5, AppendProperties
<1>8. \A i \in 1 .. Len(Waiting') : Waiting'[i] = Append(Waiting, f)[i]
  <2> SUFFICES ASSUME NEW i \in 1 .. Len(Waiting') PROVE Waiting'[i] = Append(Waiting, f)[i]
    OBVIOUS
  <2>0. i \in 1 .. Len(frames) + 1 - n /\ Len(frames) \in Nat /\ n \in Nat
    BY <1>2, <1>4, <1>6
  <2>1. CASE i = Len(frames) + 1 - n
    <3>1. i = Len(Waiting) + 1 /\ n + i = Len(frames) + 1
      BY <2>0, <2>1, <1>5
    <3>2. Waiting'[i] = frames'[n + i]
      BY <2>0, <1>6
    <3> QED BY <3>1, <3>2, <1>2, <1>7
  <2>2. CASE i \in 1 .. Len(frames) - n
    <3>1. n + i \in 1 .. Len(frames) /\ i \in 1 .. Len(Waiting)
      BY <2>0, <2>2, <1>5
    <3>2. Waiting'[i] = frames'[n + i]
      BY <2>0, <1>6
    <3>3. Waiting[i] = frames[n + i]
      BY <2>2, <1>5
    <3> QED BY <3>1, <3>2, <3>3, <1>2, <1>7
  <2>3. i = Len(frames) + 1 - n \/ i \in 1 .. Len(frames) - n
    BY <2>0
  <2> QED BY <2>1, <2>2, <2>3, Zenon
<1>9. Waiting' = Append(Waiting, f)
  <2>1. Len(Waiting') = Len(Append(Waiting, f))
    BY <1>2, <1>4, <1>5, <1>6, <1>7
  <2> QED BY <1>6, <1>7, <1>8, <2>1, SeqEqual
<1>10. Waiting'[Len(Waiting')] = f /\ Waiting' # <<>>
  BY <1>2, <1>4, <1>5, <1>6, <1>7, <1>9
<1> QED BY <1>1, <1>3, <1>9, <1>10 DEF Abstract!Put

\* A message that is delivered is the one at the front of the queue.
LEMMA DrainGets ==
  ASSUME MsgInv, MsgInv', FramesFit', NEW header \in Headers, DrainMessage(header)
  PROVE  Abstract!Get
<1> DEFINE n == Len(delivered)
           m == [start |-> drained, len |-> MsgLength(header)]
<1>1. /\ frames \in Seq(Frame) /\ delivered \in Seq(Frame) /\ delivered' \in Seq(Frame)
      /\ frames' = frames /\ delivered' = Append(delivered, m)
      /\ n \in Nat /\ Len(frames) \in Nat
  BY DEF MsgInv, TypeOK, DrainMessage
<1>2. FramesFit
  BY <1>1 DEF FramesFit
<1>3. Len(delivered') = n + 1 /\ delivered'[n + 1] = m
  BY <1>1
<1>4. n + 1 <= Len(frames) /\ delivered'[n + 1] = frames[n + 1]
  BY <1>1, <1>3 DEF MsgInv, DeliversInOrder
<1>5. Waiting = SubSeq(frames, n + 1, Len(frames))
  BY DEF Waiting
<1>6. Waiting' = SubSeq(frames, n + 2, Len(frames))
  BY <1>1, <1>3 DEF Waiting
<1>7. Head(Waiting) = frames[n + 1] /\ Tail(Waiting) = SubSeq(frames, n + 1 + 1, Len(frames))
  BY <1>1, <1>4, <1>5, HeadTailOfSubSeq
<1>8. Waiting # <<>>
  <2>1. n \in 0 .. Len(frames)
    BY <1>1, <1>4
  <2>2. Waiting \in Seq(Frame) /\ Len(Waiting) = Len(frames) - n
    BY <1>1, <1>5, <2>1, Suffix
  <2> QED BY <1>1, <1>4, <2>2
<1>9. Waiting' = Tail(Waiting)
  <2>1. n + 1 + 1 = n + 2
    BY <1>1
  <2> QED BY <1>6, <1>7, <2>1
<1>10. delivered' = Append(delivered, Head(Waiting))
  BY <1>1, <1>3, <1>4, <1>7
<1> QED BY <1>2, <1>8, <1>9, <1>10 DEF Abstract!Get

LEMMA FifoInit == Init => Abstract!Init
<1> SUFFICES ASSUME Init PROVE Abstract!Init
  OBVIOUS
<1>1. Waiting = <<>> /\ delivered = <<>>
  BY SubSeqEmpty DEF Init, Waiting
<1>2. FramesFit = TRUE
  BY DEF Init, FramesFit
<1> QED BY <1>1, <1>2 DEF Abstract!Init

LEMMA FifoStep ==
  MsgInv /\ MsgInv' /\ [Next]_vars => [Abstract!Next]_<<Waiting, delivered, FramesFit>>
<1> SUFFICES ASSUME MsgInv, MsgInv', [Next]_vars
             PROVE  [Abstract!Next]_<<Waiting, delivered, FramesFit>>
  OBVIOUS
<1>1. CASE ~FramesFit'
  BY <1>1 DEF Abstract!Next, Abstract!Void
<1>2. ASSUME UNCHANGED <<frames, delivered>>
      PROVE  UNCHANGED <<Waiting, delivered, FramesFit>>
  BY <1>2 DEF Waiting, FramesFit
<1>3. CASE FramesFit'
  <2>1. ASSUME NEW len \in Lens, Send(len) PROVE Abstract!Next
    BY <1>3, <2>1, SendPuts DEF Abstract!Next
  <2>2. ASSUME NEW header \in Headers, DrainMessage(header) PROVE Abstract!Next
    BY <1>3, <2>2, DrainGets DEF Abstract!Next
  <2>3. ASSUME NEW n \in 1 .. written - arrived, Arrive(n)
        PROVE  UNCHANGED <<frames, delivered>>
    BY <2>3 DEF Arrive
  <2>4. CASE Enter
    BY <2>4, <1>2 DEF Enter
  <2>5. ASSUME NEW header \in Headers, DrainNothing(header) \/ DrainFails(header)
        PROVE  UNCHANGED <<frames, delivered>>
    BY <2>5 DEF DrainNothing, DrainFails
  <2>6. CASE UNCHANGED vars
    BY <2>6, <1>2 DEF vars
  <2> QED BY <1>2, <2>1, <2>2, <2>3, <2>4, <2>5, <2>6 DEF Next, DrainStep
<1> QED BY <1>1, <1>3

\* The framing over a stream that is cut anywhere implements a queue of messages,
\* as long as every message fits the length field: rteipc_evbuffer puts at its end
\* and rteipc_msg_drain takes from its front.
THEOREM FifoRefined == Spec => ImplementsFifo
BY MsgInvariant, FifoInit, FifoStep, PTL DEF Spec, ImplementsFifo, Abstract!Spec

=============================================================================
