------------------------- MODULE IpcEndpointProofs -------------------------
(* Proofs about the IPC/INET endpoint, for every set of clients and every    *)
(* number of messages, and about the control protocol that rtemgr and the    *)
(* daemon run over it, for every finite set of clients.                      *)
EXTENDS CtlProtocol, SequenceTheorems, FiniteSetTheorems, TLAPS

USE IpcAssumption

-----------------------------------------------------------------------------
(* The inductive invariant *)

\* The state of the connection: a closed endpoint has none, data->cli is a
\* client that connected, and a write fails only to one that has ended.
ConnInv ==
  /\ OneConnection
  /\ ~opened => cli = NULL
  /\ ~bound => pin = <<>>
  /\ \A c \in Clients : conn[c] = "new" => sent[c] = 0
  /\ cli # NULL => conn[cli] \in {"up", "ended"}
  /\ werr => cli # NULL /\ conn[cli] = "ended"

\* What waits for a client is in order and newer than all that was given to
\* any client.
DeliveryInv ==
  /\ NoClientGetsTwice
  /\ \A j \in 1 .. Len(ein) : ein[j] <= wrote
  /\ \A j, k \in 1 .. Len(ein) : j < k => ein[j] < ein[k]
  /\ \A c \in Clients : \A j \in 1 .. Len(rcv[c]) :
       /\ rcv[c][j] <= wrote
       /\ \A k \in 1 .. Len(ein) : rcv[c][j] < ein[k]

\* How many pieces of each client have left the buffers of its connection.
taken == [c \in Clients |-> IF c = cli THEN sent[c] - Len(sock[c]) - Len(cin)
                                       ELSE sent[c] - Len(sock[c])]

\* The number of a piece in its client's stream: Num(Piece(c, k)) = k.
Num(p) == 2 * p[2] - 2 + p[3]

\* The connection's buffers hold the last pieces of its client's stream.
StreamInv ==
  /\ \A c \in Clients : c # cli => sock[c] = <<>>
  /\ cli = NULL => cin = <<>>
  /\ \A c \in Clients :
       /\ taken[c] >= 0
       /\ \A i \in 1 .. Len(sock[c]) :
            sock[c][i] = Piece(c, sent[c] - Len(sock[c]) + i)
  /\ cli # NULL => \A i \in 1 .. Len(cin) : cin[i] = Piece(cli, taken[cli] + i)

\* The peer's input and the frames it has read hold the pieces of each client
\* in the order of its stream.
OrderInv ==
  /\ \A i \in 1 .. Len(pin) : Num(pin[i]) <= taken[pin[i][1]]
  /\ \A i, j \in 1 .. Len(pin) :
       i < j /\ pin[i][1] = pin[j][1] => Num(pin[i]) < Num(pin[j])
  /\ \A k \in 1 .. Len(got) :
       /\ Num(got[k][1]) <= taken[got[k][1][1]]
       /\ \A i \in 1 .. Len(pin) :
            got[k][1][1] = pin[i][1] => Num(got[k][1]) < Num(pin[i])
  /\ \A j, k \in 1 .. Len(got) :
       j < k /\ got[j][1][1] = got[k][1][1] => Num(got[j][1]) < Num(got[k][1])

\* p and q are the two pieces of one message.
Frame(p, q) == p[1] = q[1] /\ p[2] = q[2] /\ p[3] = 1 /\ q[3] = 2

\* Unless something was torn, the peer's input is whole messages and at most
\* one first piece, whose second piece is the next that leaves the connection.
WholeInv ==
  ~torn =>
    /\ \A k \in 1 .. Len(got) : Frame(got[k][1], got[k][2])
    /\ \A i \in 1 .. Len(pin) : i % 2 = 1 => pin[i][3] = 1
    /\ \A i \in 1 .. Len(pin) : i % 2 = 0 => Frame(pin[i - 1], pin[i])
    /\ Len(pin) % 2 = 1 =>
         cli # NULL /\ cin = <<>> /\ pin[Len(pin)] = Piece(cli, taken[cli])
    /\ cli # NULL => taken[cli] % 2 = Len(pin) % 2
    /\ cli # NULL /\ conn[cli] = "ended" => sent[cli] % 2 = 0

-----------------------------------------------------------------------------
(* The types *)

\* The part of the type that says which values the flags have.
LEMMA FlagTypes ==
  ASSUME TypeOK
  PROVE  /\ opened \in BOOLEAN /\ bound \in BOOLEAN /\ listening \in BOOLEAN
         /\ sched \in BOOLEAN /\ werr \in BOOLEAN /\ torn \in BOOLEAN
BY Zenon DEF TypeOK

LEMMA NothingIsSeq == \A S : <<>> \in Seq(S)
OBVIOUS

\* Pieces up to the bound are pieces of the model.
LEMMA PieceType ==
  ASSUME NEW c \in Clients, NEW k \in 1 .. 2 * MaxMsgs
  PROVE  Piece(c, k) \in Pieces
BY DEF Pieces

LEMMA TypeInit == Init => TypeOK
<1> SUFFICES ASSUME Init PROVE TypeOK
  OBVIOUS
<1>1. {opened, bound, listening, sched, werr, torn} \subseteq BOOLEAN
  BY Zenon DEF Init
<1>2. /\ cli \in Clients \cup {NULL}
      /\ conn \in [Clients -> {"new", "up", "refused", "ended"}]
      /\ sent \in [Clients -> 0 .. 2 * MaxMsgs]
      /\ wrote \in 0 .. MaxMsgs
  BY DEF Init
<1>3. /\ sock \in [Clients -> Seq(Pieces)]
      /\ cin \in Seq(Pieces) /\ pin \in Seq(Pieces)
      /\ got \in Seq(Pieces \X Pieces)
      /\ ein \in Seq(1 .. MaxMsgs)
      /\ rcv \in [Clients -> Seq(1 .. MaxMsgs)]
  BY DEF Init
<1> QED BY <1>1, <1>2, <1>3 DEF TypeOK

LEMMA TypeNext == TypeOK /\ [Next]_vars => TypeOK'
<1> SUFFICES ASSUME TypeOK, [Next]_vars PROVE TypeOK'
  OBVIOUS
<1>1. {opened, bound, listening, sched, werr, torn}' \subseteq BOOLEAN
  BY FlagTypes, Zenon DEF Next, vars, toPeer, toClient, Accept, Refuse, ClientWrite,
     ClientEnd, ReadSome, Read, Eof, WriteError, FreeConnection, OnData, PeerWrite,
     PeerRead, Bind, Unbind, DropPair, Close
<1> DEFINE Data == /\ cli \in Clients \cup {NULL}
                   /\ conn \in [Clients -> {"new", "up", "refused", "ended"}]
                   /\ sent \in [Clients -> 0 .. 2 * MaxMsgs]
                   /\ sock \in [Clients -> Seq(Pieces)]
                   /\ cin \in Seq(Pieces) /\ pin \in Seq(Pieces)
                   /\ got \in Seq(Pieces \X Pieces)
                   /\ wrote \in 0 .. MaxMsgs
                   /\ ein \in Seq(1 .. MaxMsgs)
                   /\ rcv \in [Clients -> Seq(1 .. MaxMsgs)]
<1>2. Data'
  <2>0. Data
    BY DEF TypeOK
  <2>1. ASSUME NEW c \in Clients, Accept(c) PROVE Data'
    BY <2>0, <2>1 DEF Accept, toPeer
  <2>2. ASSUME NEW c \in Clients, Refuse(c) PROVE Data'
    BY <2>0, <2>2 DEF Refuse, toPeer, toClient
  <2>3. ASSUME NEW c \in Clients, ClientWrite(c) PROVE Data'
    <3>1. sent[c] + 1 \in 1 .. 2 * MaxMsgs
      BY <2>0, <2>3 DEF ClientWrite
    <3>2. Piece(c, sent[c] + 1) \in Pieces
      BY <3>1, PieceType
    <3> QED BY <2>0, <2>3, <3>1, <3>2 DEF ClientWrite, toClient
  <2>4. ASSUME NEW c \in Clients, ClientEnd(c) PROVE Data'
    BY <2>0, <2>4 DEF ClientEnd, toClient
  <2>5. ASSUME ReadSome PROVE Data'
    <3>1. PICK n \in 1 .. Len(sock[cli]) : Read(n)
      BY <2>5 DEF ReadSome
    <3>2. cli \in Clients /\ sock[cli] \in Seq(Pieces)
      BY <2>0, <2>5 DEF ReadSome
    <3>3. /\ SubSeq(sock[cli], 1, n) \in Seq(Pieces)
          /\ SubSeq(sock[cli], n + 1, Len(sock[cli])) \in Seq(Pieces)
      BY <3>2, SubSeqProperties
    <3> DEFINE in == cin \o SubSeq(sock[cli], 1, n)
    <3>4. in \in Seq(Pieces) /\ pin \o in \in Seq(Pieces)
      BY <2>0, <3>3, ConcatProperties
    <3>5. cin' \in Seq(Pieces) /\ pin' \in Seq(Pieces)
      BY <2>0, <3>1, <3>4, NothingIsSeq, Zenon DEF Read
    <3>6. sock' \in [Clients -> Seq(Pieces)]
      BY <2>0, <3>1, <3>2, <3>3 DEF Read
    <3> HIDE DEF in
    <3> QED BY <2>0, <3>1, <3>5, <3>6 DEF Read, toClient
  <2>6. ASSUME Eof PROVE Data'
    BY <2>0, <2>6 DEF Eof, FreeConnection
  <2>7. ASSUME WriteError PROVE Data'
    BY <2>0, <2>7 DEF WriteError, FreeConnection
  <2>8. ASSUME OnData PROVE Data'
    <3>1. CASE cli = NULL
      BY <2>0, <2>8, <3>1 DEF OnData, toPeer
    <3>2. CASE cli # NULL
      <4> DEFINE all == rcv[cli] \o ein
      <4>1. all \in Seq(1 .. MaxMsgs)
        BY <2>0, <3>2, ConcatProperties
      <4>2. ein' = <<>> /\ (rcv' = rcv \/ rcv' = [rcv EXCEPT ![cli] = all])
        BY <2>8, <3>2, Zenon DEF OnData
      <4> HIDE DEF all
      <4> HIDE DEF Data
      <4>3. /\ rcv \in [Clients -> Seq(1 .. MaxMsgs)]
            /\ [rcv EXCEPT ![cli] = all] \in [Clients -> Seq(1 .. MaxMsgs)]
        BY <2>0, <4>1 DEF Data
      <4>4. rcv' \in [Clients -> Seq(1 .. MaxMsgs)] /\ ein' \in Seq(1 .. MaxMsgs)
        BY <4>2, <4>3, NothingIsSeq, Zenon
      <4> QED BY <2>0, <2>8, <4>4 DEF OnData, toPeer, Data
    <3> QED BY <3>1, <3>2
  <2>9. ASSUME PeerWrite PROVE Data'
    BY <2>0, <2>9 DEF PeerWrite, toPeer
  <2>10. ASSUME PeerRead PROVE Data'
    <3>1. <<pin[1], pin[2]>> \in Pieces \X Pieces
      BY <2>0, <2>10 DEF PeerRead
    <3>2. SubSeq(pin, 3, Len(pin)) \in Seq(Pieces)
      BY <2>0, <2>10, SubSeqProperties DEF PeerRead
    <3> QED BY <2>0, <2>10, <3>1, <3>2 DEF PeerRead, toClient
  <2>11. ASSUME Bind PROVE Data'
    BY <2>0, <2>11 DEF Bind, toPeer, toClient
  <2>12. ASSUME Unbind PROVE Data'
    BY <2>0, <2>12 DEF Unbind, DropPair
  <2>13. ASSUME Close PROVE Data'
    BY <2>0, <2>13 DEF Close, DropPair
  <2>14. ASSUME UNCHANGED vars PROVE Data'
    BY <2>0, <2>14 DEF vars
  <2> HIDE DEF Data
  <2> QED BY <2>1, <2>2, <2>3, <2>4, <2>5, <2>6, <2>7, <2>8, <2>9, <2>10, <2>11, <2>12,
             <2>13, <2>14, Zenon DEF Next
<1> QED BY <1>1, <1>2, Zenon DEF TypeOK

-----------------------------------------------------------------------------
(* The connection *)

LEMMA ConnInit == Init => ConnInv
BY FlagTypes, TypeInit DEF Init, ConnInv, OneConnection

LEMMA ConnNext == TypeOK /\ ConnInv /\ [Next]_vars => ConnInv'
<1> SUFFICES ASSUME TypeOK, ConnInv, [Next]_vars PROVE ConnInv'
  OBVIOUS
<1> USE DEF ConnInv, OneConnection
<1>0. /\ opened \in BOOLEAN /\ listening \in BOOLEAN /\ werr \in BOOLEAN
      /\ cli \in Clients \cup {NULL}
      /\ conn \in [Clients -> {"new", "up", "refused", "ended"}]
      /\ sent \in [Clients -> 0 .. 2 * MaxMsgs]
  BY FlagTypes DEF TypeOK
<1>1. ASSUME NEW c \in Clients, Accept(c) PROVE ConnInv'
  BY <1>0, <1>1 DEF Accept, toPeer
<1>2. ASSUME NEW c \in Clients, Refuse(c) PROVE ConnInv'
  BY <1>0, <1>2 DEF Refuse, toPeer, toClient
<1>3. ASSUME NEW c \in Clients, ClientWrite(c) PROVE ConnInv'
  BY <1>0, <1>3 DEF ClientWrite, toClient
<1>4. ASSUME NEW c \in Clients, ClientEnd(c) PROVE ConnInv'
  BY <1>0, <1>4 DEF ClientEnd, toClient
<1>5. ASSUME ReadSome PROVE ConnInv'
  BY <1>0, <1>5 DEF ReadSome, Read, toClient
<1>6. ASSUME Eof PROVE ConnInv'
  BY <1>0, <1>6 DEF Eof, FreeConnection
<1>7. ASSUME WriteError PROVE ConnInv'
  BY <1>0, <1>7 DEF WriteError, FreeConnection
<1>8. ASSUME OnData PROVE ConnInv'
  BY <1>0, <1>8 DEF OnData, toPeer
<1>9. ASSUME PeerWrite PROVE ConnInv'
  BY <1>0, <1>9 DEF PeerWrite, toPeer
<1>10. ASSUME PeerRead PROVE ConnInv'
  BY <1>0, <1>10 DEF PeerRead, toClient
<1>11. ASSUME Bind PROVE ConnInv'
  BY <1>0, <1>11 DEF Bind, toPeer, toClient
<1>12. ASSUME Unbind PROVE ConnInv'
  BY <1>0, <1>12 DEF Unbind, DropPair
<1>13. ASSUME Close PROVE ConnInv'
  BY <1>0, <1>13 DEF Close, DropPair
<1>14. ASSUME UNCHANGED vars PROVE ConnInv'
  BY <1>14 DEF vars
<1> QED BY <1>1, <1>2, <1>3, <1>4, <1>5, <1>6, <1>7, <1>8, <1>9, <1>10, <1>11, <1>12,
           <1>13, <1>14, Zenon DEF Next

-----------------------------------------------------------------------------
(* From the peer to the clients *)

\* The elements of a concatenation.
LEMMA ConcatElements ==
  ASSUME NEW S, NEW s \in Seq(S), NEW t \in Seq(S)
  PROVE  /\ s \o t \in Seq(S) /\ Len(s \o t) = Len(s) + Len(t)
         /\ \A i \in 1 .. Len(s \o t) :
              \/ i \in 1 .. Len(s) /\ (s \o t)[i] = s[i]
              \/ i - Len(s) \in 1 .. Len(t) /\ (s \o t)[i] = t[i - Len(s)]
<1>1. Len(s) \in Nat /\ Len(t) \in Nat
  OBVIOUS
<1> QED BY <1>1, ConcatProperties

LEMMA DeliveryInit == Init => DeliveryInv
<1> SUFFICES ASSUME Init PROVE DeliveryInv
  OBVIOUS
<1>1. Len(ein) = 0 /\ \A c \in Clients : Len(rcv[c]) = 0
  BY DEF Init
<1> QED BY <1>1 DEF DeliveryInv, NoClientGetsTwice

\* A step that keeps what was given to the clients and empties the input, or
\* keeps it, keeps the order.
LEMMA DeliveryKept ==
  ASSUME DeliveryInv, wrote' = wrote, rcv' = rcv, ein' = ein \/ ein' = <<>>
  PROVE  DeliveryInv'
<1>1. CASE ein' = ein
  BY <1>1 DEF DeliveryInv, NoClientGetsTwice
<1>2. CASE ein' = <<>>
  BY <1>2 DEF DeliveryInv, NoClientGetsTwice
<1> QED BY <1>1, <1>2

LEMMA DeliveryPeerWrite ==
  ASSUME TypeOK, DeliveryInv, PeerWrite
  PROVE  DeliveryInv'
<1>1. /\ wrote \in Nat /\ wrote' = wrote + 1 /\ rcv' = rcv
      /\ ein \in Seq(Nat) /\ ein' = Append(ein, wrote + 1)
      /\ rcv \in [Clients -> Seq(Nat)]
  BY DEF TypeOK, PeerWrite
<1>2. /\ Len(ein') = Len(ein) + 1
      /\ \A i \in 1 .. Len(ein) : ein'[i] = ein[i] /\ ein[i] \in Nat
      /\ ein'[Len(ein) + 1] = wrote + 1
      /\ Len(ein) \in Nat
  BY <1>1
<1>3. \A c \in Clients : \A j \in 1 .. Len(rcv[c]) : rcv[c][j] \in Nat
  BY <1>1
<1>4. \A j \in 1 .. Len(ein') : ein'[j] <= wrote'
  BY <1>1, <1>2 DEF DeliveryInv
<1>5. ASSUME NEW j \in 1 .. Len(ein'), NEW k \in 1 .. Len(ein'), j < k
      PROVE  ein'[j] < ein'[k]
  <2>1. j \in 1 .. Len(ein) /\ ein'[j] = ein[j] /\ ein[j] \in Nat /\ ein[j] <= wrote
    BY <1>2, <1>5 DEF DeliveryInv
  <2>2. CASE k = Len(ein) + 1
    BY <1>1, <1>2, <2>1, <2>2
  <2>3. CASE k # Len(ein) + 1
    <3>1. k \in 1 .. Len(ein) /\ ein'[k] = ein[k]
      BY <1>2, <2>3
    <3> QED BY <1>5, <2>1, <3>1 DEF DeliveryInv
  <2> QED BY <2>2, <2>3
<1>6. ASSUME NEW c \in Clients, NEW j \in 1 .. Len(rcv[c])
      PROVE  rcv[c][j] <= wrote' /\ \A k \in 1 .. Len(ein') : rcv[c][j] < ein'[k]
  <2>1. rcv[c][j] <= wrote /\ \A k \in 1 .. Len(ein) : rcv[c][j] < ein[k]
    BY DEF DeliveryInv
  <2>2. rcv[c][j] \in Nat
    BY <1>3
  <2> QED BY <1>1, <1>2, <2>1, <2>2
<1> QED BY <1>1, <1>4, <1>5, <1>6 DEF DeliveryInv, NoClientGetsTwice

LEMMA DeliveryOnData ==
  ASSUME TypeOK, ConnInv, DeliveryInv, OnData
  PROVE  DeliveryInv'
<1>1. CASE cli = NULL
  <2>1. wrote' = wrote /\ rcv' = rcv /\ ein' = ein
    BY <1>1 DEF OnData
  <2> QED BY <2>1, DeliveryKept
<1>2. CASE cli # NULL /\ conn[cli] # "up"
  <2>1. wrote' = wrote /\ rcv' = rcv /\ ein' = <<>>
    BY <1>2 DEF OnData
  <2> QED BY <2>1, DeliveryKept
<1>3. CASE cli # NULL /\ conn[cli] = "up"
  <2> DEFINE all == rcv[cli] \o ein
  <2>1. wrote' = wrote /\ ein' = <<>> /\ rcv' = [rcv EXCEPT ![cli] = all]
    BY <1>3 DEF OnData
  <2>2. /\ cli \in Clients /\ wrote \in Nat
        /\ ein \in Seq(Nat) /\ rcv \in [Clients -> Seq(Nat)]
    BY <1>3 DEF TypeOK
  <2>3. /\ Len(all) \in Nat
        /\ \A i \in 1 .. Len(all) :
              \/ i \in 1 .. Len(rcv[cli]) /\ all[i] = rcv[cli][i]
              \/ i - Len(rcv[cli]) \in 1 .. Len(ein) /\ all[i] = ein[i - Len(rcv[cli])]
    <3>1. rcv[cli] \in Seq(Nat)
      BY <2>2
    <3> QED BY <2>2, <3>1, ConcatElements
  <2> HIDE DEF all
  <2>4. /\ Len(ein) \in Nat /\ \A i \in 1 .. Len(ein) : ein[i] \in Nat
        /\ \A c \in Clients : Len(rcv[c]) \in Nat /\ \A j \in 1 .. Len(rcv[c]) : rcv[c][j] \in Nat
    BY <2>2
  <2>5. rcv'[cli] = all /\ \A c \in Clients : c # cli => rcv'[c] = rcv[c]
    BY <2>1, <2>2
  <2>6. Len(ein') = 0
    BY <2>1
  <2>7. ASSUME NEW j \in 1 .. Len(all), NEW k \in 1 .. Len(all), j < k
        PROVE  all[j] < all[k]
    <3> DEFINE old == rcv[cli]
               m == Len(old)
    <3>1. /\ \A x, y \in 1 .. m : x < y => old[x] < old[y]
          /\ \A x, y \in 1 .. Len(ein) : x < y => ein[x] < ein[y]
          /\ \A x \in 1 .. m, y \in 1 .. Len(ein) : old[x] < ein[y]
      BY <2>2 DEF DeliveryInv, NoClientGetsTwice
    <3>2. m \in Nat /\ Len(ein) \in Nat /\ j \in Nat /\ k \in Nat
      BY <2>2, <2>3, <2>4
    <3>a. /\ \/ j \in 1 .. m /\ all[j] = old[j]
             \/ j - m \in 1 .. Len(ein) /\ all[j] = ein[j - m]
          /\ \/ k \in 1 .. m /\ all[k] = old[k]
             \/ k - m \in 1 .. Len(ein) /\ all[k] = ein[k - m]
      BY <2>3
    <3> HIDE DEF old, m
    <3>3. CASE k <= m
      <4>1. j \in 1 .. m /\ k \in 1 .. m /\ all[j] = old[j] /\ all[k] = old[k]
        BY <2>7, <3>2, <3>3, <3>a
      <4> QED BY <2>7, <3>1, <4>1
    <3>4. CASE j <= m /\ k > m
      <4>1. j \in 1 .. m /\ k - m \in 1 .. Len(ein) /\ all[j] = old[j] /\ all[k] = ein[k - m]
        BY <3>2, <3>4, <3>a
      <4> QED BY <3>1, <4>1
    <3>5. CASE j > m
      <4>1. /\ j - m \in 1 .. Len(ein) /\ k - m \in 1 .. Len(ein) /\ j - m < k - m
            /\ all[j] = ein[j - m] /\ all[k] = ein[k - m]
        BY <2>7, <3>2, <3>5, <3>a
      <4> QED BY <3>1, <4>1
    <3> QED BY <3>2, <3>3, <3>4, <3>5
  <2>8. ASSUME NEW d \in Clients, d # cli,
               NEW j \in 1 .. Len(all), NEW k \in 1 .. Len(rcv[d])
        PROVE  all[j] # rcv[d][k]
    <3>1. /\ \A x \in 1 .. Len(rcv[cli]) : rcv[cli][x] # rcv[d][k]
          /\ \A y \in 1 .. Len(ein) : rcv[d][k] < ein[y]
      BY <2>2, <2>8 DEF DeliveryInv, NoClientGetsTwice
    <3>2. /\ rcv[d][k] \in Nat
          /\ \A y \in 1 .. Len(ein) : ein[y] \in Nat
      BY <2>4
    <3>3. \/ \E x \in 1 .. Len(rcv[cli]) : all[j] = rcv[cli][x]
          \/ \E y \in 1 .. Len(ein) : all[j] = ein[y]
      BY <2>3
    <3> QED BY <3>1, <3>2, <3>3
  <2>9. \A j \in 1 .. Len(all) : all[j] <= wrote
    BY <2>2, <2>3, <2>4 DEF DeliveryInv
  <2>10. NoClientGetsTwice'
    <3>1. ASSUME NEW c \in Clients, NEW j \in 1 .. Len(rcv'[c]), NEW k \in 1 .. Len(rcv'[c]), j < k
          PROVE  rcv'[c][j] < rcv'[c][k]
      BY <2>5, <2>7, <3>1 DEF DeliveryInv, NoClientGetsTwice
    <3>2. ASSUME NEW c \in Clients, NEW d \in Clients, c # d,
                 NEW j \in 1 .. Len(rcv'[c]), NEW k \in 1 .. Len(rcv'[d])
          PROVE  rcv'[c][j] # rcv'[d][k]
      BY <2>5, <2>8, <3>2 DEF DeliveryInv, NoClientGetsTwice
    <3> QED BY <3>1, <3>2 DEF NoClientGetsTwice
  <2>11. \A c \in Clients : \A j \in 1 .. Len(rcv'[c]) : rcv'[c][j] <= wrote
    BY <2>5, <2>9 DEF DeliveryInv
  <2> QED BY <2>1, <2>6, <2>10, <2>11 DEF DeliveryInv
<1> QED BY <1>1, <1>2, <1>3

LEMMA DeliveryNext == TypeOK /\ ConnInv /\ DeliveryInv /\ [Next]_vars => DeliveryInv'
<1> SUFFICES ASSUME TypeOK, ConnInv, DeliveryInv, [Next]_vars PROVE DeliveryInv'
  OBVIOUS
<1>1. CASE OnData
  BY <1>1, DeliveryOnData
<1>2. CASE PeerWrite
  BY <1>2, DeliveryPeerWrite
<1>3. CASE ~OnData /\ ~PeerWrite
  <2>1. wrote' = wrote /\ rcv' = rcv /\ (ein' = ein \/ ein' = <<>>)
    BY <1>3, Zenon DEF Next, vars, toClient, Accept, Refuse, ClientWrite, ClientEnd,
       ReadSome, Read, Eof, WriteError, PeerRead, Bind, Unbind, DropPair, Close
  <2> QED BY <2>1, DeliveryKept
<1> QED BY <1>1, <1>2, <1>3

-----------------------------------------------------------------------------
(* From the clients to the peer *)

\* The number of a piece, and where a message begins and ends.
LEMMA PieceParts ==
  ASSUME NEW c, NEW k \in Nat \ {0}
  PROVE  /\ Piece(c, k)[1] = c
         /\ Piece(c, k)[2] \in Nat
         /\ Num(Piece(c, k)) = k
         /\ k % 2 = 1 => Piece(c, k)[3] = 1
         /\ k % 2 = 0 => Piece(c, k)[3] = 2
         /\ k % 2 = 1 => Frame(Piece(c, k), Piece(c, k + 1))
<1>1. k % 2 \in {0, 1} /\ k \div 2 \in Nat /\ k = 2 * (k \div 2) + (k % 2)
  OBVIOUS
<1>2. k % 2 = 1 => (k + 1) \div 2 = k \div 2 + 1
  OBVIOUS
<1>3. k % 2 = 0 => (k + 1) \div 2 = k \div 2
  OBVIOUS
<1>4. k % 2 = 1 => (k + 1) % 2 = 0 /\ (k + 1 + 1) \div 2 = (k + 1) \div 2
  OBVIOUS
<1>5. (k + 1) \div 2 \in Nat
  OBVIOUS
<1> QED BY <1>1, <1>2, <1>3, <1>4, <1>5 DEF Piece, Num, Frame

\* Every piece of the model belongs to a client and has a number.
LEMMA PiecesParts ==
  ASSUME NEW p \in Pieces
  PROVE  p[1] \in Clients /\ p[2] \in Nat /\ p[3] \in {1, 2} /\ Num(p) \in Nat
<1>1. PICK c \in Clients, k \in 1 .. 2 * MaxMsgs : p = Piece(c, k)
  BY DEF Pieces
<1>2. k \in Nat \ {0} /\ k % 2 \in {0, 1}
  OBVIOUS
<1> QED BY <1>1, <1>2, PieceParts

LEMMA TakenType ==
  ASSUME TypeOK
  PROVE  taken \in [Clients -> Int]
<1>1. \A c \in Clients : sent[c] \in Int /\ Len(sock[c]) \in Nat /\ Len(cin) \in Nat
  BY DEF TypeOK
<1> QED BY <1>1 DEF taken

LEMMA TakenTypeNext ==
  ASSUME TypeOK'
  PROVE  taken' \in [Clients -> Int]
<1>1. \A c \in Clients : sent'[c] \in Int /\ Len(sock'[c]) \in Nat /\ Len(cin') \in Nat
  BY DEF TypeOK
<1> QED BY <1>1 DEF taken

LEMMA StreamInit == Init => StreamInv
BY DEF Init, StreamInv, taken

LEMMA StreamKept ==
  ASSUME StreamInv, UNCHANGED <<cli, sent, sock, cin>>
  PROVE  StreamInv' /\ taken' = taken
BY DEF StreamInv, taken

\* listen_cb takes a connection whose client has not written.
LEMMA StreamAccept ==
  ASSUME TypeOK, ConnInv, StreamInv, NEW c \in Clients, Accept(c)
  PROVE  StreamInv' /\ taken' = taken
<1>1. /\ cli = NULL /\ cin = <<>> /\ cli' = c
      /\ sent' = sent /\ sock' = sock /\ cin' = cin
  BY FlagTypes DEF ConnInv, OneConnection, Accept, StreamInv, toPeer
<1>2. \A d \in Clients : sock[d] = <<>>
  BY <1>1 DEF StreamInv
<1>3. \A d \in Clients : sent[d] \in Int
  BY DEF TypeOK
<1>4. taken' = taken
  BY <1>1, <1>3 DEF taken, TypeOK
<1> QED BY <1>1, <1>2, <1>4 DEF StreamInv

\* A piece that a client writes comes after all that is in its socket.
LEMMA StreamWrite ==
  ASSUME TypeOK, ConnInv, StreamInv, NEW c \in Clients, ClientWrite(c)
  PROVE  StreamInv' /\ taken' = taken
<1> DEFINE p == Piece(c, sent[c] + 1)
<1>1. /\ cli = c /\ cli' = cli /\ cin' = cin
      /\ sent' = [sent EXCEPT ![c] = sent[c] + 1]
      /\ sock' = [sock EXCEPT ![c] = Append(sock[c], p)]
  BY DEF ConnInv, OneConnection, ClientWrite
<1>2. /\ sent \in [Clients -> Nat] /\ sock \in [Clients -> Seq(Pieces)]
      /\ p \in Pieces /\ Len(cin) \in Nat
  <2>1. /\ sent \in [Clients -> 0 .. 2 * MaxMsgs] /\ sock \in [Clients -> Seq(Pieces)]
        /\ cin \in Seq(Pieces) /\ sent[c] < 2 * MaxMsgs
    BY DEF TypeOK, ClientWrite
  <2>2. sent[c] + 1 \in 1 .. 2 * MaxMsgs
    BY <2>1
  <2>3. p \in Pieces
    BY <2>2, PieceType
  <2>4. sent \in [Clients -> Nat] /\ Len(cin) \in Nat
    BY <2>1
  <2> QED BY <2>1, <2>3, <2>4
<1>3. /\ sent'[c] = sent[c] + 1
      /\ sock[c] \in Seq(Pieces)
      /\ sock'[c] = Append(sock[c], p)
      /\ \A d \in Clients : d # c => sent'[d] = sent[d] /\ sock'[d] = sock[d]
  BY <1>1, <1>2
<1>4. /\ Len(sock[c]) \in Nat
      /\ Len(sock'[c]) = Len(sock[c]) + 1
      /\ \A i \in 1 .. Len(sock[c]) : sock'[c][i] = sock[c][i]
      /\ sock'[c][Len(sock[c]) + 1] = p
  <2> HIDE DEF p
  <2> QED BY <1>2, <1>3, AppendProperties
<1>5. taken' = taken
  BY <1>1, <1>2, <1>3, <1>4 DEF taken
<1>6. ASSUME NEW i \in 1 .. Len(sock'[c])
      PROVE  sock'[c][i] = Piece(c, sent'[c] - Len(sock'[c]) + i)
  <2>1. sent'[c] - Len(sock'[c]) + i = sent[c] - Len(sock[c]) + i
    BY <1>2, <1>3, <1>4
  <2>2. CASE i = Len(sock[c]) + 1
    <3>1. sent[c] - Len(sock[c]) + i = sent[c] + 1
      BY <1>2, <1>4, <2>2
    <3> QED BY <1>4, <2>1, <2>2, <3>1
  <2>3. CASE i # Len(sock[c]) + 1
    <3>1. i \in 1 .. Len(sock[c])
      BY <1>4, <2>3
    <3> QED BY <1>4, <2>1, <3>1 DEF StreamInv
  <2> QED BY <2>2, <2>3
<1> HIDE DEF p
<1> QED BY <1>1, <1>3, <1>5, <1>6 DEF StreamInv

\* What the event loop reads continues what it read before.
LEMMA StreamRead ==
  ASSUME TypeOK, StreamInv, NEW n \in 1 .. Len(sock[cli]), Read(n)
  PROVE  /\ StreamInv'
         /\ ~bound => taken' = taken
         /\ bound => \E in \in Seq(Pieces) :
              /\ pin' = pin \o in
              /\ \A i \in 1 .. Len(in) : in[i] = Piece(cli, taken[cli] + i)
              /\ taken' = [taken EXCEPT ![cli] = taken[cli] + Len(in)]
<1> DEFINE s == sock[cli]
           a == SubSeq(s, 1, n)
           r == SubSeq(s, n + 1, Len(s))
           in == cin \o a
<1>1. /\ cli \in Clients /\ cli' = cli /\ sent' = sent
      /\ sock' = [sock EXCEPT ![cli] = r]
      /\ \/ bound /\ pin' = pin \o in /\ cin' = <<>>
         \/ ~bound /\ cin' = in
  BY Zenon DEF Read, TypeOK
<1>2. /\ sent \in [Clients -> Nat] /\ sock \in [Clients -> Seq(Pieces)]
      /\ cin \in Seq(Pieces) /\ s \in Seq(Pieces) /\ Len(cin) \in Nat /\ Len(s) \in Nat
  BY <1>1 DEF TypeOK
<1> HIDE DEF s
<1>3. /\ a \in Seq(Pieces) /\ Len(a) = n
      /\ \A i \in 1 .. n : a[i] = s[i]
      /\ r \in Seq(Pieces) /\ Len(r) = Len(s) - n
      /\ \A i \in 1 .. Len(r) : r[i] = s[n + i]
  <2>1. n \in 1 .. Len(s)
    BY DEF s
  <2>2. \A i \in 1 .. Len(s) : s[i] \in Pieces
    BY <1>2
  <2> QED BY <1>2, <2>1, <2>2, SubSeqProperties
<1> HIDE DEF a, r
<1>4. /\ in \in Seq(Pieces) /\ Len(in) = Len(cin) + n
      /\ \A i \in 1 .. Len(in) :
           \/ i \in 1 .. Len(cin) /\ in[i] = cin[i]
           \/ i - Len(cin) \in 1 .. n /\ in[i] = a[i - Len(cin)]
  <2>1. /\ in \in Seq(Pieces) /\ Len(in) = Len(cin) + Len(a)
        /\ \A i \in 1 .. Len(in) :
             \/ i \in 1 .. Len(cin) /\ in[i] = cin[i]
             \/ i - Len(cin) \in 1 .. Len(a) /\ in[i] = a[i - Len(cin)]
    <3>1. cin \in Seq(Pieces) /\ a \in Seq(Pieces)
      BY <1>2, <1>3
    <3> QED BY <3>1, ConcatElements
  <2> HIDE DEF in
  <2> QED BY <1>3, <2>1
<1> HIDE DEF in
<1>5. taken[cli] = sent[cli] - Len(s) - Len(cin) /\ sent[cli] \in Nat
  BY <1>1, <1>2 DEF taken, s
<1>6. ASSUME NEW i \in 1 .. Len(in)
      PROVE  in[i] = Piece(cli, taken[cli] + i)
  <2>1. CASE i \in 1 .. Len(cin) /\ in[i] = cin[i]
    BY <1>1, <2>1 DEF StreamInv
  <2>2. CASE i - Len(cin) \in 1 .. n /\ in[i] = a[i - Len(cin)]
    <3>1. i - Len(cin) \in 1 .. Len(s) /\ in[i] = s[i - Len(cin)]
      BY <1>2, <1>3, <2>2 DEF s
    <3>2. s[i - Len(cin)] = Piece(cli, sent[cli] - Len(s) + (i - Len(cin)))
      BY <1>1, <3>1 DEF StreamInv, s
    <3>3. sent[cli] - Len(s) + (i - Len(cin)) = taken[cli] + i
      BY <1>2, <1>5, <1>4
    <3> QED BY <3>1, <3>2, <3>3
  <2> QED BY <1>4, <2>1, <2>2
<1>7. /\ sock'[cli] = r
      /\ \A d \in Clients : d # cli => sock'[d] = sock[d]
  BY <1>1, <1>2
<1>8. \A d \in Clients : d # cli => taken'[d] = taken[d]
  BY <1>1, <1>7 DEF taken
<1>9. taken'[cli] = sent[cli] - (Len(s) - n) - Len(cin')
  BY <1>1, <1>3, <1>7 DEF taken
<1>10. ASSUME NEW i \in 1 .. Len(r)
       PROVE  r[i] = Piece(cli, sent[cli] - Len(r) + i)
  <2>1. n + i \in 1 .. Len(s) /\ r[i] = s[n + i]
    BY <1>2, <1>3
  <2>2. s[n + i] = Piece(cli, sent[cli] - Len(s) + (n + i))
    BY <1>1, <2>1 DEF StreamInv, s
  <2>3. sent[cli] - Len(s) + (n + i) = sent[cli] - Len(r) + i
    BY <1>2, <1>3, <1>5
  <2> QED BY <2>1, <2>2, <2>3
<1>11. taken \in [Clients -> Int] /\ taken' = [d \in Clients |-> taken'[d]]
  BY TakenType DEF taken
<1>12. taken[cli] >= 0 /\ \A d \in Clients : d # cli => sock[d] = <<>> /\ taken[d] >= 0
  BY <1>1 DEF StreamInv
<1>13. ASSUME taken'[cli] >= 0, \A i \in 1 .. Len(cin') : cin'[i] = Piece(cli, taken'[cli] + i)
       PROVE  StreamInv'
  BY <1>1, <1>7, <1>8, <1>10, <1>12, <1>13 DEF StreamInv
<1>14. CASE bound /\ pin' = pin \o in /\ cin' = <<>>
  <2>1. taken'[cli] = taken[cli] + Len(in)
    BY <1>2, <1>4, <1>5, <1>9, <1>14
  <2>2. taken' = [taken EXCEPT ![cli] = taken[cli] + Len(in)]
    BY <1>1, <1>8, <1>11, <2>1
  <2>3. StreamInv'
    BY <1>2, <1>4, <1>11, <1>12, <1>13, <1>14, <1>1, <2>1
  <2> QED BY <1>4, <1>6, <1>14, <2>2, <2>3
<1>15. CASE ~bound /\ cin' = in
  <2>1. taken'[cli] = taken[cli]
    <3>1. Len(cin') = Len(cin) + n
      BY <1>4, <1>15
    <3> QED BY <1>2, <1>5, <1>9, <3>1
  <2>2. taken' = taken
    BY <1>1, <1>8, <1>11, <2>1
  <2>3. StreamInv'
    BY <1>6, <1>12, <1>13, <1>15, <2>2
  <2> QED BY <1>15, <2>2, <2>3
<1> QED BY <1>1, <1>14, <1>15, Zenon

\* A connection that ends takes its buffers with it.
LEMMA StreamFree ==
  ASSUME TypeOK, StreamInv, cli' = NULL, cin' = <<>>, sent' = sent,
         \A d \in Clients : sock'[d] = <<>>
  PROVE  StreamInv' /\ \A d \in Clients : taken'[d] >= taken[d]
<1>1. \A d \in Clients : /\ sent[d] \in Nat /\ Len(sock[d]) \in Nat /\ Len(cin) \in Nat
                         /\ d # cli'
  BY DEF TypeOK
<1>2. \A d \in Clients : taken'[d] = sent[d]
  BY <1>1 DEF taken
<1>3. \A d \in Clients : taken[d] <= sent[d]
  BY <1>1 DEF taken
<1>4. \A d \in Clients : taken[d] \in Int
  BY TakenType
<1> QED BY <1>1, <1>2, <1>3, <1>4 DEF StreamInv

LEMMA OrderInit == Init => OrderInv
<1> SUFFICES ASSUME Init PROVE OrderInv
  OBVIOUS
<1>1. Len(pin) = 0 /\ Len(got) = 0
  BY DEF Init
<1> QED BY <1>1 DEF OrderInv

\* The parts of the pieces in the peer's input and in the frames it has read.
LEMMA BufferParts ==
  ASSUME TypeOK
  PROVE  /\ Len(pin) \in Nat /\ Len(got) \in Nat
         /\ \A i \in 1 .. Len(pin) : pin[i][1] \in Clients /\ Num(pin[i]) \in Nat
         /\ \A k \in 1 .. Len(got) : got[k][1][1] \in Clients /\ Num(got[k][1]) \in Nat
<1>1. Len(pin) \in Nat /\ Len(got) \in Nat
  BY DEF TypeOK
<1>2. \A i \in 1 .. Len(pin) : pin[i] \in Pieces
  BY DEF TypeOK
<1>3. \A k \in 1 .. Len(got) : got[k][1] \in Pieces
  BY DEF TypeOK
<1> QED BY <1>1, <1>2, <1>3, PiecesParts

\* A step that leaves the peer's input, or empties it, keeps the order.
LEMMA OrderKept ==
  ASSUME TypeOK, TypeOK', OrderInv, got' = got, pin' = pin \/ pin' = <<>>,
         \A d \in Clients : taken'[d] >= taken[d]
  PROVE  OrderInv'
<1>1. taken \in [Clients -> Int] /\ taken' \in [Clients -> Int]
  BY TakenType, TakenTypeNext
<1> USE BufferParts DEF OrderInv
<1>2. CASE pin' = pin
  BY <1>1, <1>2
<1>3. CASE pin' = <<>>
  BY <1>1, <1>3
<1> QED BY <1>2, <1>3

\* What read_cb moves to the peer is newer than all the peer has of the client.
LEMMA OrderRead ==
  ASSUME TypeOK, StreamInv, OrderInv, cli \in Clients, NEW in \in Seq(Pieces),
         pin' = pin \o in, got' = got,
         \A i \in 1 .. Len(in) : in[i] = Piece(cli, taken[cli] + i),
         taken' = [taken EXCEPT ![cli] = taken[cli] + Len(in)]
  PROVE  OrderInv'
<1> DEFINE L == Len(pin)
           t == taken[cli]
<1>1. /\ pin \in Seq(Pieces) /\ L \in Nat /\ Len(in) \in Nat
      /\ taken \in [Clients -> Int] /\ t \in Nat
  BY TakenType, SMTT(30) DEF TypeOK, StreamInv
<1>2. /\ Len(pin') = L + Len(in)
      /\ \A i \in 1 .. Len(pin') :
           \/ i \in 1 .. L /\ pin'[i] = pin[i]
           \/ i - L \in 1 .. Len(in) /\ pin'[i] = in[i - L]
  BY <1>1, ConcatElements
<1>3. \A i \in 1 .. Len(in) : in[i][1] = cli /\ Num(in[i]) = t + i
  <2> TAKE i \in 1 .. Len(in)
  <2>1. t + i \in Nat \ {0}
    BY <1>1
  <2> QED BY <2>1, PieceParts
<1>4. \A i \in 1 .. Len(pin') :
        \/ i \in 1 .. L /\ pin'[i] = pin[i]
        \/ i - L \in 1 .. Len(in) /\ pin'[i][1] = cli /\ Num(pin'[i]) = t + (i - L)
  BY <1>2, <1>3
<1>5. taken'[cli] = t + Len(in) /\ \A d \in Clients : d # cli => taken'[d] = taken[d]
  BY <1>1
<1> HIDE DEF L, t
<1>6. /\ \A i \in 1 .. L : pin[i][1] \in Clients /\ Num(pin[i]) \in Nat
      /\ \A k \in 1 .. Len(got) : got[k][1][1] \in Clients /\ Num(got[k][1]) \in Nat
  BY BufferParts DEF L
<1>7. /\ \A i \in 1 .. L : pin[i][1] = cli => Num(pin[i]) <= t
      /\ \A k \in 1 .. Len(got) : got[k][1][1] = cli => Num(got[k][1]) <= t
  BY DEF OrderInv, L, t
<1>8. ASSUME NEW i \in 1 .. Len(pin') PROVE Num(pin'[i]) <= taken'[pin'[i][1]]
  <2>1. CASE i \in 1 .. L /\ pin'[i] = pin[i]
    <3>1. Num(pin[i]) <= taken[pin[i][1]]
      BY <2>1 DEF OrderInv, L
    <3> QED BY <1>1, <1>5, <1>6, <1>7, <2>1, <3>1
  <2>2. CASE i - L \in 1 .. Len(in) /\ pin'[i][1] = cli /\ Num(pin'[i]) = t + (i - L)
    BY <1>1, <1>5, <2>2
  <2> QED BY <1>4, <2>1, <2>2
<1>9. ASSUME NEW i \in 1 .. Len(pin'), NEW j \in 1 .. Len(pin'), i < j,
             pin'[i][1] = pin'[j][1]
      PROVE  Num(pin'[i]) < Num(pin'[j])
  <2>1. CASE j \in 1 .. L /\ pin'[j] = pin[j]
    <3>1. i \in 1 .. L /\ pin'[i] = pin[i]
      BY <1>1, <1>4, <1>9, <2>1
    <3> QED BY <1>9, <2>1, <3>1 DEF OrderInv, L
  <2>2. CASE j - L \in 1 .. Len(in) /\ pin'[j][1] = cli /\ Num(pin'[j]) = t + (j - L)
    <3>1. CASE i \in 1 .. L /\ pin'[i] = pin[i]
      <4>1. Num(pin'[i]) \in Nat /\ Num(pin'[i]) <= t
        BY <1>6, <1>7, <1>9, <2>2, <3>1
      <4> QED BY <1>1, <2>2, <4>1, SMTT(30)
    <3>2. CASE i - L \in 1 .. Len(in) /\ Num(pin'[i]) = t + (i - L)
      BY <1>1, <1>9, <2>2, <3>2
    <3> QED BY <1>4, <3>1, <3>2
  <2> QED BY <1>4, <2>1, <2>2
<1>10. ASSUME NEW k \in 1 .. Len(got)
       PROVE  /\ Num(got[k][1]) <= taken'[got[k][1][1]]
              /\ \A i \in 1 .. Len(pin') :
                   got[k][1][1] = pin'[i][1] => Num(got[k][1]) < Num(pin'[i])
  <2>1. Num(got[k][1]) <= taken[got[k][1][1]]
    BY DEF OrderInv
  <2>2. Num(got[k][1]) <= taken'[got[k][1][1]]
    BY <1>1, <1>5, <1>6, <2>1 DEF t
  <2>3. ASSUME NEW i \in 1 .. Len(pin'), got[k][1][1] = pin'[i][1]
        PROVE  Num(got[k][1]) < Num(pin'[i])
    <3>1. CASE i \in 1 .. L /\ pin'[i] = pin[i]
      BY <2>3, <3>1 DEF OrderInv, L
    <3>2. CASE i - L \in 1 .. Len(in) /\ pin'[i][1] = cli /\ Num(pin'[i]) = t + (i - L)
      <4>1. Num(got[k][1]) \in Nat /\ Num(got[k][1]) <= t
        BY <1>6, <1>7, <2>3, <3>2
      <4> QED BY <1>1, <3>2, <4>1
    <3> QED BY <1>4, <3>1, <3>2
  <2> QED BY <2>2, <2>3
<1> QED BY <1>8, <1>9, <1>10 DEF OrderInv

\* What rteipc_msg_drain takes from the peer's input.
LEMMA PeerReadParts ==
  ASSUME TypeOK, PeerRead
  PROVE  /\ Len(pin) \in Nat /\ Len(pin) >= 2 /\ Len(got) \in Nat
         /\ Len(pin') = Len(pin) - 2
         /\ \A i \in 1 .. Len(pin') : i + 2 \in 1 .. Len(pin) /\ pin'[i] = pin[i + 2]
         /\ Len(got') = Len(got) + 1
         /\ \A k \in 1 .. Len(got) : got'[k] = got[k]
         /\ got'[Len(got) + 1][1] = pin[1] /\ got'[Len(got) + 1][2] = pin[2]
<1>1. /\ pin \in Seq(Pieces) /\ got \in Seq(Pieces \X Pieces) /\ Len(pin) >= 2
      /\ Len(pin) \in Nat /\ Len(got) \in Nat
      /\ got' = Append(got, <<pin[1], pin[2]>>)
      /\ pin' = SubSeq(pin, 3, Len(pin))
  BY DEF TypeOK, PeerRead
<1>2. \A i \in 3 .. Len(pin) : pin[i] \in Pieces
  BY <1>1
<1>3. /\ Len(pin') = Len(pin) - 2
      /\ \A i \in 1 .. Len(pin) - 2 : pin'[i] = pin[i + 2]
  <2> DEFINE m == Len(pin)
             r == SubSeq(pin, 3, m)
  <2>1. /\ Len(r) = IF 3 <= m THEN m - 3 + 1 ELSE 0
        /\ \A i \in 1 .. m - 3 + 1 : r[i] = pin[3 + i - 1]
    <3>1. m \in Int /\ 3 \in Int
      BY <1>1
    <3> QED BY <1>2, <3>1, SubSeqProperties
  <2>2. pin' = r /\ m \in Nat /\ m >= 2
    BY <1>1
  <2> HIDE DEF m, r
  <2>3. Len(r) = m - 2 /\ \A i \in 1 .. m - 2 : r[i] = pin[i + 2]
    BY <2>1, <2>2
  <2> QED BY <2>2, <2>3 DEF m
<1>4. <<pin[1], pin[2]>> \in Pieces \X Pieces
  BY <1>1
<1>5. /\ Len(got') = Len(got) + 1
      /\ \A k \in 1 .. Len(got) : got'[k] = got[k]
      /\ got'[Len(got) + 1] = <<pin[1], pin[2]>>
  BY <1>1, <1>4, AppendProperties
<1> QED BY <1>1, <1>3, <1>5

LEMMA OrderPeerRead ==
  ASSUME TypeOK, OrderInv, PeerRead, taken' = taken
  PROVE  OrderInv'
<1>1. ASSUME NEW i \in 1 .. Len(pin') PROVE Num(pin'[i]) <= taken'[pin'[i][1]]
  BY PeerReadParts DEF OrderInv
<1>2. ASSUME NEW i \in 1 .. Len(pin'), NEW j \in 1 .. Len(pin'), i < j,
             pin'[i][1] = pin'[j][1]
      PROVE  Num(pin'[i]) < Num(pin'[j])
  BY <1>2, PeerReadParts DEF OrderInv
<1>3. \A k \in 1 .. Len(got') :
        \/ k \in 1 .. Len(got) /\ got'[k] = got[k]
        \/ k = Len(got) + 1 /\ got'[k][1] = pin[1]
  BY PeerReadParts
<1>4. ASSUME NEW k \in 1 .. Len(got')
      PROVE  /\ Num(got'[k][1]) <= taken'[got'[k][1][1]]
             /\ \A i \in 1 .. Len(pin') :
                  got'[k][1][1] = pin'[i][1] => Num(got'[k][1]) < Num(pin'[i])
  <2>1. CASE k \in 1 .. Len(got) /\ got'[k] = got[k]
    BY <2>1, PeerReadParts DEF OrderInv
  <2>2. CASE k = Len(got) + 1 /\ got'[k][1] = pin[1]
    <3>1. 1 \in 1 .. Len(pin) /\ \A i \in 1 .. Len(pin') : 1 < i + 2
      BY PeerReadParts
    <3> QED BY <2>2, <3>1, PeerReadParts DEF OrderInv
  <2> QED BY <1>3, <2>1, <2>2
<1>5. ASSUME NEW j \in 1 .. Len(got'), NEW k \in 1 .. Len(got'), j < k,
             got'[j][1][1] = got'[k][1][1]
      PROVE  Num(got'[j][1]) < Num(got'[k][1])
  <2>1. j \in 1 .. Len(got) /\ got'[j] = got[j]
    BY <1>5, PeerReadParts
  <2>2. CASE k \in 1 .. Len(got) /\ got'[k] = got[k]
    BY <1>5, <2>1, <2>2 DEF OrderInv
  <2>3. CASE k = Len(got) + 1 /\ got'[k][1] = pin[1]
    <3>1. 1 \in 1 .. Len(pin)
      BY PeerReadParts
    <3> QED BY <1>5, <2>1, <2>3, <3>1 DEF OrderInv
  <2> QED BY <1>3, <2>2, <2>3
<1> QED BY <1>1, <1>2, <1>4, <1>5 DEF OrderInv

-----------------------------------------------------------------------------
(* Whole messages *)

LEMMA Parity ==
  ASSUME NEW a \in Int, NEW b \in Int, NEW i \in Int
  PROVE  /\ a % 2 \in {0, 1}
         /\ (a + 1) % 2 = 1 - (a % 2)
         /\ (a - 1) % 2 = 1 - (a % 2)
         /\ (a + 2) % 2 = a % 2
         /\ (a - 2) % 2 = a % 2
         /\ a % 2 = b % 2 => (a + i) % 2 = (b + i) % 2
         /\ a % 2 = b % 2 => (a - b) % 2 = 0
         /\ i % 2 = 0 => (a - i) % 2 = a % 2
OBVIOUS

LEMMA WholeInit == Init => WholeInv
<1> SUFFICES ASSUME Init PROVE WholeInv
  OBVIOUS
<1>1. Len(pin) = 0 /\ Len(got) = 0 /\ 0 % 2 = 0 /\ cli = NULL
  BY DEF Init
<1> QED BY <1>1 DEF WholeInv

\* A step that changes nothing on the way to the peer.
LEMMA WholeKept ==
  ASSUME WholeInv, torn' = torn, got' = got, pin' = pin, cli' = cli, cin' = cin,
         taken' = taken,
         cli # NULL => conn'[cli] = "up" \/ (conn'[cli] = conn[cli] /\ sent'[cli] = sent[cli])
  PROVE  WholeInv'
BY DEF WholeInv

LEMMA WholeAccept ==
  ASSUME TypeOK, ConnInv, StreamInv, WholeInv, NEW c \in Clients, Accept(c), taken' = taken
  PROVE  WholeInv'
<1>1. /\ cli = NULL /\ cli' = c /\ conn'[c] = "up"
      /\ torn' = torn /\ got' = got /\ pin' = pin
  BY FlagTypes DEF ConnInv, OneConnection, Accept, toPeer, TypeOK
<1>2. sock[c] = <<>> /\ sent[c] = 0 /\ taken[c] = 0
  BY <1>1 DEF ConnInv, StreamInv, Accept, taken
<1>3. 0 % 2 = 0 /\ Len(pin) % 2 \in {0, 1}
  BY BufferParts, Parity
<1> QED BY <1>1, <1>2, <1>3 DEF WholeInv

LEMMA WholeClientEnd ==
  ASSUME TypeOK, ConnInv, WholeInv, NEW c \in Clients, ClientEnd(c), taken' = taken
  PROVE  WholeInv'
<1>1. /\ cli = c /\ cli' = c /\ sent' = sent /\ got' = got /\ pin' = pin /\ cin' = cin
      /\ sent[c] \in Int
  BY DEF ConnInv, OneConnection, ClientEnd, TypeOK
<1>2. ~torn' => ~torn /\ sent[c] % 2 # 1
  BY Zenon DEF ClientEnd
<1>3. sent[c] % 2 \in {0, 1}
  BY <1>1, Parity
<1> QED BY <1>1, <1>2, <1>3 DEF WholeInv

\* read_cb moves the second piece of a message after its first.
LEMMA WholeRead ==
  ASSUME TypeOK, StreamInv, WholeInv, cli \in Clients, NEW in \in Seq(Pieces),
         pin' = pin \o in, cin' = <<>>,
         torn' = torn, got' = got, cli' = cli, conn' = conn, sent' = sent,
         \A i \in 1 .. Len(in) : in[i] = Piece(cli, taken[cli] + i),
         taken' = [taken EXCEPT ![cli] = taken[cli] + Len(in)]
  PROVE  WholeInv'
<1> SUFFICES ASSUME ~torn PROVE WholeInv'
  BY DEF WholeInv
<1> DEFINE L == Len(pin)
           m == Len(in)
           t == taken[cli]
<1>1. /\ pin \in Seq(Pieces) /\ L \in Nat /\ m \in Nat
      /\ taken \in [Clients -> Int] /\ t \in Nat /\ cli # NULL
  BY TakenType DEF TypeOK, StreamInv
<1>2. /\ Len(pin') = L + m
      /\ \A i \in 1 .. Len(pin') :
           \/ i \in 1 .. L /\ pin'[i] = pin[i]
           \/ i - L \in 1 .. m /\ pin'[i] = in[i - L]
  BY <1>1, ConcatElements
<1>2a. \A i \in 1 .. L : pin'[i] = pin[i]
  BY <1>1, ConcatProperties
<1>3. /\ t % 2 = L % 2
      /\ L % 2 = 1 => pin[L] = Piece(cli, t)
  BY <1>1 DEF WholeInv
<1>4. taken'[cli] = t + m
  BY <1>1
<1>5. \A i \in 1 .. m : in[i] = Piece(cli, t + i)
  OBVIOUS
<1> HIDE DEF L, m, t
<1>6. ASSUME NEW i \in 1 .. Len(pin'), i - L \in 1 .. m
      PROVE  /\ t + (i - L) \in Nat \ {0} /\ (t + (i - L)) % 2 = i % 2
             /\ pin'[i] = Piece(cli, t + (i - L))
  <2>1. t + (i - L) \in Nat \ {0}
    BY <1>1, <1>6
  <2>2. (t + (i - L)) % 2 = i % 2
    <3>1. L \in Int /\ t \in Int /\ i \in Int /\ i - L \in Int
      BY <1>1
    <3>2. t % 2 = L % 2
      BY <1>3
    <3>3. (t + (i - L)) % 2 = (L + (i - L)) % 2
      BY <3>1, <3>2, Parity, ZenonT(30)
    <3>4. L + (i - L) = i
      BY <3>1
    <3> QED BY <3>3, <3>4
  <2>3. ~(i \in 1 .. L)
    BY <1>1, <1>6
  <2> QED BY <1>2, <1>5, <2>1, <2>2, <2>3
<1>7. ASSUME NEW i \in 1 .. Len(pin'), i % 2 = 1 PROVE pin'[i][3] = 1
  <2>1. CASE i \in 1 .. L /\ pin'[i] = pin[i]
    BY <1>7, <2>1 DEF WholeInv, L
  <2>2. CASE i - L \in 1 .. m
    BY <1>6, <1>7, <2>2, PieceParts
  <2> QED BY <1>2, <2>1, <2>2
<1>8. ASSUME NEW i \in 1 .. Len(pin'), i % 2 = 0 PROVE Frame(pin'[i - 1], pin'[i])
  <2>1. i - 1 \in 1 .. Len(pin') /\ (i - 1) % 2 = 1
    <3>1. i # 1
      BY <1>8
    <3> QED BY <1>1, <1>2, <1>8, <3>1, Parity
  <2>2. CASE i \in 1 .. L
    <3>1. pin'[i] = pin[i] /\ pin'[i - 1] = pin[i - 1]
      <4>1. i - 1 \in 1 .. L
        BY <1>1, <2>1, <2>2
      <4> QED BY <1>2a, <2>2, <4>1
    <3> QED BY <1>8, <2>2, <3>1 DEF WholeInv, L
  <2>3. CASE i - L \in 1 .. m
    <3> DEFINE k == t + (i - L) - 1
    <3>1. pin'[i] = Piece(cli, k + 1)
      BY <1>1, <1>6, <2>3
    <3>2. k % 2 = 1
      BY <1>1, <1>6, <1>8, <2>3, Parity
    <3>3. CASE i - L = 1
      <4>1. i - 1 = L /\ k = t /\ L % 2 = 1 /\ L \in 1 .. Len(pin')
        BY <1>1, <2>1, <3>3
      <4>2. pin'[L] = pin[L] /\ pin[L] = Piece(cli, t)
        <5>1. L \in 1 .. L
          BY <1>1, <4>1
        <5> QED BY <1>2a, <1>3, <4>1, <5>1
      <4>3. t # 0
        BY <3>2, <4>1
      <4>4. pin'[i - 1] = Piece(cli, k) /\ k \in Nat \ {0}
        BY <1>1, <4>1, <4>2, <4>3
      <4> HIDE DEF k
      <4> QED BY <3>1, <3>2, <4>4, PieceParts
    <3>4. CASE i - L # 1
      <4>1. (i - 1) - L \in 1 .. m /\ t + ((i - 1) - L) = k
        BY <1>1, <2>3, <3>4
      <4>2. pin'[i - 1] = Piece(cli, k) /\ k \in Nat \ {0}
        BY <1>6, <2>1, <4>1
      <4> HIDE DEF k
      <4> QED BY <3>1, <3>2, <4>2, PieceParts
    <3> QED BY <3>3, <3>4
  <2> QED BY <1>2, <2>2, <2>3
<1>9. (t + m) % 2 = (L + m) % 2
  BY <1>1, <1>3, Parity
<1>10. ASSUME (L + m) % 2 = 1 PROVE pin'[L + m] = Piece(cli, t + m)
  <2>1. CASE m = 0
    <3>1. L % 2 = 1 /\ L + m = L /\ t + m = t /\ L \in 1 .. Len(pin')
      BY <1>1, <1>2, <1>10, <2>1
    <3> QED BY <1>1, <1>2, <1>3, <2>1, <3>1
  <2>2. CASE m # 0
    <3>1. L + m \in 1 .. Len(pin') /\ (L + m) - L \in 1 .. m /\ t + ((L + m) - L) = t + m
      BY <1>1, <1>2, <2>2
    <3> QED BY <1>6, <3>1
  <2> QED BY <2>1, <2>2
<1>11. /\ \A k \in 1 .. Len(got) : Frame(got[k][1], got[k][2])
       /\ conn[cli] = "ended" => sent[cli] % 2 = 0
  BY <1>1 DEF WholeInv
<1> QED BY <1>1, <1>2, <1>4, <1>7, <1>8, <1>9, <1>10, <1>11 DEF WholeInv

\* rteipc_msg_drain takes one whole message.
LEMMA WholePeerRead ==
  ASSUME TypeOK, WholeInv, PeerRead, taken' = taken
  PROVE  WholeInv'
<1>1. /\ torn' = torn /\ cli' = cli /\ cin' = cin /\ conn' = conn /\ sent' = sent
  BY DEF PeerRead
<1> SUFFICES ASSUME ~torn PROVE WholeInv'
  BY <1>1 DEF WholeInv
<1>2. ASSUME NEW k \in 1 .. Len(got') PROVE Frame(got'[k][1], got'[k][2])
  <2>1. CASE k \in 1 .. Len(got)
    BY <2>1, PeerReadParts DEF WholeInv
  <2>2. CASE k = Len(got) + 1
    <3>1. 2 \in 1 .. Len(pin) /\ 2 % 2 = 0 /\ 2 - 1 = 1
      BY PeerReadParts
    <3>2. Frame(pin[1], pin[2])
      BY <3>1 DEF WholeInv
    <3> QED BY <2>2, <3>2, PeerReadParts
  <2> QED BY <2>1, <2>2, PeerReadParts
<1>3. ASSUME NEW i \in 1 .. Len(pin'), i % 2 = 1 PROVE pin'[i][3] = 1
  <2>1. i + 2 \in 1 .. Len(pin) /\ pin'[i] = pin[i + 2] /\ (i + 2) % 2 = 1
    BY <1>3, PeerReadParts, Parity
  <2> QED BY <2>1 DEF WholeInv
<1>4. ASSUME NEW i \in 1 .. Len(pin'), i % 2 = 0 PROVE Frame(pin'[i - 1], pin'[i])
  <2>1. i + 2 \in 1 .. Len(pin) /\ pin'[i] = pin[i + 2] /\ (i + 2) % 2 = 0
    BY <1>4, PeerReadParts, Parity
  <2>2. i # 1 /\ i - 1 \in 1 .. Len(pin') /\ (i - 1) + 2 = (i + 2) - 1
    <3>1. i # 1
      BY <1>4
    <3> QED BY <3>1, PeerReadParts
  <2>3. pin'[i - 1] = pin[(i + 2) - 1]
    BY <2>2, PeerReadParts
  <2> QED BY <2>1, <2>3 DEF WholeInv
<1>5. Len(pin') % 2 = Len(pin) % 2
  <2>1. Len(pin) \in Int /\ Len(pin') = Len(pin) - 2
    BY PeerReadParts
  <2> QED BY <2>1
<1>6. ASSUME Len(pin') % 2 = 1 PROVE pin'[Len(pin')] = pin[Len(pin)]
  <2>1. Len(pin') # 0 /\ Len(pin') \in 1 .. Len(pin') /\ Len(pin') + 2 = Len(pin)
    <3>1. Len(pin') # 0
      BY <1>6
    <3> QED BY <3>1, PeerReadParts
  <2> QED BY <2>1, PeerReadParts
<1> QED BY <1>1, <1>2, <1>3, <1>4, <1>5, <1>6 DEF WholeInv

\* The connection ends: if it was not torn, the peer has whole messages only.
LEMMA WholeFree ==
  ASSUME TypeOK, ConnInv, StreamInv, WholeInv, Eof \/ WriteError
  PROVE  WholeInv'
<1>1. /\ cli' = NULL /\ got' = got /\ pin' = pin /\ cli # NULL /\ cli \in Clients
      /\ conn[cli] = "ended"
  BY DEF Eof, WriteError, FreeConnection, ConnInv, TypeOK
<1>2. ~torn' => ~torn
  BY Zenon DEF Eof, WriteError
<1> SUFFICES ASSUME ~torn', ~torn PROVE WholeInv'
  BY <1>2 DEF WholeInv
<1>3. /\ sent[cli] \in Nat /\ sock[cli] \in Seq(Pieces) /\ cin \in Seq(Pieces)
      /\ Len(sock[cli]) \in Nat /\ Len(cin) \in Nat /\ Len(pin) \in Nat
  BY <1>1 DEF TypeOK
<1>4. /\ taken[cli] = sent[cli] - Len(sock[cli]) - Len(cin)
      /\ sent[cli] % 2 = 0 /\ taken[cli] % 2 = Len(pin) % 2
  BY <1>1 DEF taken, WholeInv
<1>5. Len(pin) % 2 = 0
  <2>1. CASE Eof
    <3>1. Len(sock[cli]) = 0
      BY <2>1 DEF Eof
    <3>2. CASE cin = <<>>
      BY <1>3, <1>4, <3>1, <3>2
    <3>3. CASE cin # <<>>
      BY <1>3, <3>3, Parity DEF WholeInv
    <3> QED BY <3>2, <3>3
  <2>2. CASE WriteError
    <3> DEFINE m == Len(cin \o sock[cli])
    <3>1. m % 2 # 1
      BY <2>2, Zenon DEF WriteError
    <3>2. m = Len(cin) + Len(sock[cli])
      BY <1>3, ConcatElements
    <3> HIDE DEF m
    <3>3. m \in Nat /\ taken[cli] = sent[cli] - m
      BY <1>3, <1>4, <3>2
    <3>4. m % 2 = 0
      BY <3>1, <3>3
    <3>5. (sent[cli] - m) % 2 = sent[cli] % 2
      BY <1>3, <3>3, <3>4, Parity, SMTT(30)
    <3> QED BY <1>4, <3>3, <3>5
  <2> QED BY <2>1, <2>2
<1> QED BY <1>1, <1>5 DEF WholeInv

\* rteipc_unbind and rteipc_close drop what the peer has not read: a first
\* piece without the second is torn.
LEMMA WholeDrop ==
  ASSUME TypeOK, WholeInv, DropPair, got' = got,
         \/ cli' = NULL
         \/ cli' = cli /\ taken' = taken /\ conn' = conn /\ sent' = sent
  PROVE  WholeInv'
<1>1. pin' = <<>> /\ Len(pin') = 0 /\ 0 % 2 = 0
  BY DEF DropPair
<1>2. ~torn' => ~torn /\ Len(pin) % 2 # 1
  BY Zenon DEF DropPair
<1>3. Len(pin) % 2 \in {0, 1}
  BY BufferParts, Parity
<1> QED BY <1>1, <1>2, <1>3 DEF WholeInv

-----------------------------------------------------------------------------
(* The invariant of the way to the peer, action by action *)

PeerInv == StreamInv /\ OrderInv /\ WholeInv

LEMMA PeerNext ==
  TypeOK /\ TypeOK' /\ ConnInv /\ PeerInv /\ [Next]_vars => PeerInv'
<1> SUFFICES ASSUME TypeOK, TypeOK', ConnInv, PeerInv, [Next]_vars PROVE PeerInv'
  OBVIOUS
<1>0. StreamInv /\ OrderInv /\ WholeInv /\ taken \in [Clients -> Int]
  BY TakenType DEF PeerInv
<1>a. ASSUME StreamInv', WholeInv', taken' = taken, got' = got, pin' = pin PROVE PeerInv'
  <2>1. \A d \in Clients : taken'[d] >= taken[d]
    BY <1>0, <1>a
  <2> QED BY <1>0, <1>a, <2>1, OrderKept DEF PeerInv
<1>1. ASSUME NEW c \in Clients, Accept(c) PROVE PeerInv'
  <2>1. StreamInv' /\ taken' = taken
    BY <1>0, <1>1, StreamAccept
  <2>2. WholeInv'
    BY <1>0, <1>1, <2>1, WholeAccept
  <2>3. got' = got /\ pin' = pin
    BY <1>1 DEF Accept, toPeer
  <2> QED BY <1>a, <2>1, <2>2, <2>3
<1>2. ASSUME NEW c \in Clients, Refuse(c) PROVE PeerInv'
  <2>1. UNCHANGED <<cli, sent, sock, cin, pin, got, torn>>
    BY <1>2 DEF Refuse, toPeer
  <2>2. StreamInv' /\ taken' = taken
    BY <1>0, <2>1, StreamKept
  <2>3. cli # NULL => conn'[cli] = conn[cli]
    BY <1>2 DEF Refuse, ConnInv, TypeOK
  <2>4. WholeInv'
    BY <1>0, <2>1, <2>2, <2>3, WholeKept
  <2> QED BY <1>a, <2>1, <2>2, <2>4
<1>3. ASSUME NEW c \in Clients, ClientWrite(c) PROVE PeerInv'
  <2>1. StreamInv' /\ taken' = taken
    BY <1>0, <1>3, StreamWrite
  <2>2. UNCHANGED <<cli, cin, pin, got, torn>> /\ conn' = conn
    BY <1>3 DEF ClientWrite
  <2>3. cli # NULL => conn'[cli] = "up"
    BY <1>3, <2>2 DEF ClientWrite, ConnInv, OneConnection
  <2>4. WholeInv'
    BY <1>0, <2>1, <2>2, <2>3, WholeKept
  <2> QED BY <1>a, <2>1, <2>2, <2>4
<1>4. ASSUME NEW c \in Clients, ClientEnd(c) PROVE PeerInv'
  <2>1. UNCHANGED <<cli, sent, sock, cin, pin, got>>
    BY <1>4 DEF ClientEnd
  <2>2. StreamInv' /\ taken' = taken
    BY <1>0, <2>1, StreamKept
  <2>3. WholeInv'
    BY <1>0, <1>4, <2>2, WholeClientEnd
  <2> QED BY <1>a, <2>1, <2>2, <2>3
<1>5. ASSUME ReadSome PROVE PeerInv'
  <2>1. PICK n \in 1 .. Len(sock[cli]) : Read(n)
    BY <1>5 DEF ReadSome
  <2>2. /\ cli \in Clients /\ UNCHANGED <<cli, conn, sent, got, torn>>
        /\ \/ bound /\ cin' = <<>>
           \/ ~bound /\ pin' = pin
    BY <2>1, Zenon DEF Read, TypeOK
  <2>3. CASE bound
    <3>1. /\ StreamInv'
          /\ \E in \in Seq(Pieces) :
               /\ pin' = pin \o in
               /\ \A i \in 1 .. Len(in) : in[i] = Piece(cli, taken[cli] + i)
               /\ taken' = [taken EXCEPT ![cli] = taken[cli] + Len(in)]
      BY <1>0, <2>1, <2>3, StreamRead, Zenon
    <3>2. PICK in \in Seq(Pieces) :
               /\ pin' = pin \o in
               /\ \A i \in 1 .. Len(in) : in[i] = Piece(cli, taken[cli] + i)
               /\ taken' = [taken EXCEPT ![cli] = taken[cli] + Len(in)]
      BY <3>1
    <3>3. cin' = <<>>
      BY <2>2, <2>3, Zenon
    <3>4. OrderInv'
      BY <1>0, <2>2, <3>2, OrderRead, Zenon
    <3>5. WholeInv'
      BY <1>0, <2>2, <3>2, <3>3, WholeRead, Zenon
    <3> QED BY <3>1, <3>4, <3>5 DEF PeerInv
  <2>4. CASE ~bound
    <3>1. StreamInv' /\ taken' = taken
      BY <1>0, <2>1, <2>4, StreamRead, Zenon
    <3>2. pin' = pin /\ pin = <<>>
      BY <2>2, <2>4, Zenon DEF ConnInv
    <3>3. Len(pin) = 0 /\ 0 % 2 = 0
      BY <3>2
    <3>4. WholeInv'
      BY <1>0, <2>2, <3>1, <3>2, <3>3 DEF WholeInv
    <3> QED BY <1>a, <2>2, <3>1, <3>2, <3>4
  <2> QED BY <2>3, <2>4
<1>6. ASSUME Eof \/ WriteError PROVE PeerInv'
  <2>1. /\ cli' = NULL /\ cin' = <<>> /\ sent' = sent /\ got' = got /\ pin' = pin
        /\ cli # NULL
        /\ \/ sock' = sock /\ sock[cli] = <<>>
           \/ sock' = [sock EXCEPT ![cli] = <<>>]
    BY <1>6 DEF Eof, WriteError, FreeConnection
  <2>2. \A d \in Clients : sock'[d] = <<>>
    BY <1>0, <2>1 DEF TypeOK, StreamInv
  <2>3. StreamInv' /\ \A d \in Clients : taken'[d] >= taken[d]
    BY <1>0, <2>1, <2>2, StreamFree
  <2>4. OrderInv'
    BY <1>0, <2>1, <2>3, OrderKept
  <2>5. WholeInv'
    BY <1>0, <1>6, WholeFree
  <2> QED BY <2>3, <2>4, <2>5 DEF PeerInv
<1>7. ASSUME OnData \/ PeerWrite \/ Bind \/ UNCHANGED vars PROVE PeerInv'
  <2>1. UNCHANGED <<cli, conn, sent, sock, cin, pin, got, torn>>
    BY <1>7 DEF OnData, PeerWrite, Bind, vars, toPeer
  <2>2. StreamInv' /\ taken' = taken
    BY <1>0, <2>1, StreamKept
  <2>3. WholeInv'
    BY <1>0, <2>1, <2>2, WholeKept
  <2> QED BY <1>a, <2>1, <2>2, <2>3
<1>8. ASSUME PeerRead PROVE PeerInv'
  <2>1. UNCHANGED <<cli, sent, sock, cin>>
    BY <1>8 DEF PeerRead
  <2>2. StreamInv' /\ taken' = taken
    BY <1>0, <2>1, StreamKept
  <2> QED BY <1>0, <1>8, <2>2, OrderPeerRead, WholePeerRead DEF PeerInv
<1>9. ASSUME Unbind PROVE PeerInv'
  <2>1. UNCHANGED <<cli, conn, sent, sock, cin, got>> /\ DropPair /\ pin' = <<>>
    BY <1>9 DEF Unbind, DropPair
  <2>2. StreamInv' /\ taken' = taken
    BY <1>0, <2>1, StreamKept
  <2>3. WholeInv'
    BY <1>0, <2>1, <2>2, WholeDrop
  <2>4. OrderInv'
    <3>1. \A d \in Clients : taken'[d] >= taken[d]
      BY <1>0, <2>2
    <3> QED BY <1>0, <2>1, <3>1, OrderKept
  <2> QED BY <2>2, <2>3, <2>4 DEF PeerInv
<1>10. ASSUME Close PROVE PeerInv'
  <2>1. /\ cli' = NULL /\ cin' = <<>> /\ sent' = sent /\ got' = got /\ DropPair /\ pin' = <<>>
        /\ sock' = [c \in Clients |-> <<>>]
    BY <1>10 DEF Close, DropPair
  <2>2. \A d \in Clients : sock'[d] = <<>>
    BY <2>1
  <2>3. StreamInv' /\ \A d \in Clients : taken'[d] >= taken[d]
    BY <1>0, <2>1, <2>2, StreamFree
  <2>4. OrderInv'
    BY <1>0, <2>1, <2>3, OrderKept
  <2>5. WholeInv'
    BY <1>0, <2>1, WholeDrop
  <2> QED BY <2>3, <2>4, <2>5 DEF PeerInv
<1> QED BY <1>1, <1>2, <1>3, <1>4, <1>5, <1>6, <1>7, <1>8, <1>9, <1>10, Zenon DEF Next

-----------------------------------------------------------------------------
(* Theorems *)

\* Whole frames in the order of the stream: what the property says of the
\* frames the peer has read.
LEMMA PeerInvFrames ==
  ASSUME TypeOK, PeerInv
  PROVE  FramesAreWhole
<1> SUFFICES ASSUME ~torn PROVE FramesAreWhole
  BY DEF FramesAreWhole
<1>1. \A k \in 1 .. Len(got) : Frame(got[k][1], got[k][2])
  BY DEF PeerInv, WholeInv
<1>2. ASSUME NEW j \in 1 .. Len(got), NEW k \in 1 .. Len(got),
             j < k, got[j][1][1] = got[k][1][1]
      PROVE  got[j][1][2] < got[k][1][2]
  <2>1. Num(got[j][1]) < Num(got[k][1])
    BY <1>2 DEF PeerInv, OrderInv
  <2>2. got[j][1] \in Pieces /\ got[k][1] \in Pieces
    BY DEF TypeOK
  <2>3. got[j][1][2] \in Nat /\ got[k][1][2] \in Nat
    BY <2>2, PiecesParts
  <2>4. got[j][1][3] = 1 /\ got[k][1][3] = 1
    BY <1>1 DEF Frame
  <2>5. Num(got[j][1]) = 2 * got[j][1][2] - 1 /\ Num(got[k][1]) = 2 * got[k][1][2] - 1
    BY <2>3, <2>4 DEF Num
  <2> QED BY <2>1, <2>3, <2>5
<1> QED BY <1>1, <1>2 DEF FramesAreWhole, Frame

\* The invariant that every action preserves.
IpcInv == TypeOK /\ ConnInv /\ DeliveryInv /\ PeerInv

LEMMA IpcInvariant == Spec => []IpcInv
<1>1. Init => IpcInv
  BY TypeInit, ConnInit, DeliveryInit, StreamInit, OrderInit, WholeInit DEF IpcInv, PeerInv
<1>2. IpcInv /\ [Next]_vars => IpcInv'
  BY TypeNext, ConnNext, DeliveryNext, PeerNext DEF IpcInv
<1> QED BY <1>1, <1>2, PTL DEF Spec

\* The variables of the endpoint keep their types.
THEOREM IpcTypeCorrect == Spec => []TypeOK
<1>1. IpcInv => TypeOK
  BY DEF IpcInv
<1> QED BY <1>1, IpcInvariant, PTL

\* listen_cb, event_cb and ipc_close keep at most one connection, and the
\* endpoint accepts exactly when it has none.
THEOREM AcceptsOneConnection == Spec => []OneConnection
<1>1. IpcInv => OneConnection
  BY DEF IpcInv, ConnInv
<1> QED BY <1>1, IpcInvariant, PTL

\* ipc_on_data gives what the peer wrote to the clients in order, and nothing
\* twice, whatever connects, ends, is bound or unbound meanwhile.
THEOREM DeliveredOnce == Spec => []NoClientGetsTwice
<1>1. IpcInv => NoClientGetsTwice
  BY DEF IpcInv, DeliveryInv
<1> QED BY <1>1, IpcInvariant, PTL

\* read_cb does not look at frames, and yet the peer reads whole messages in
\* order as long as nothing ends within a message.
THEOREM FramesCorrect == Spec => []FramesAreWhole
<1>1. IpcInv => FramesAreWhole
  BY PeerInvFrames DEF IpcInv
<1> QED BY <1>1, IpcInvariant, PTL

-----------------------------------------------------------------------------
(* The control protocol.  Its steps are steps of the endpoint, so that all of *)
(* the above holds in it.                                                     *)

LEMMA CtlStep == [CtlNext]_ctlVars => [Next]_vars
<1> SUFFICES ASSUME [CtlNext]_ctlVars PROVE Next \/ UNCHANGED vars
  OBVIOUS
<1>1. ASSUME NEW c \in Clients, NEW how, Exit(c, how) PROVE Next \/ UNCHANGED vars
  BY <1>1 DEF Exit, Next
<1>2. ASSUME NEW c \in Clients,
             Connect(c) \/ WriteRequest(c) \/ EmitFails(c) \/ ReceiveSome(c) \/ GiveUp(c) \/ Hangup(c)
      PROVE  Next \/ UNCHANGED vars
  BY <1>1, <1>2 DEF Connect, WriteRequest, EmitFails, ReceiveSome, Receive, GiveUp, Hangup, Next
<1>3. CASE EndpointStep \/ TakeRequest \/ Reply \/ NoReply
  BY <1>3 DEF EndpointStep, TakeRequest, Reply, NoReply, Next
<1>4. CASE UNCHANGED ctlVars
  BY <1>4 DEF ctlVars
<1> QED BY <1>2, <1>3, <1>4 DEF CtlNext

LEMMA CtlKeepsIpcInv == CtlSpec => []IpcInv
<1>1. CtlInit => Init
  BY DEF CtlInit
<1>2. CtlSpec => Spec
  BY <1>1, CtlStep, PTL DEF CtlSpec, Spec
<1> QED BY <1>2, IpcInvariant, PTL

-----------------------------------------------------------------------------
(* What each rtemgr has done *)

\* The endpoint stays bound, every reply is accounted for, and the way a client
\* ended says what it has sent and received.
BaseInv ==
  /\ opened /\ bound /\ cin = <<>> /\ wrote = Len(answers)
  /\ \A c \in Clients :
       /\ sent[c] <= 2
       /\ conn[c] \in {"new", "up"} => outcome[c] = "none"
       /\ conn[c] = "ended" => outcome[c] # "none"
       /\ conn[c] = "refused" => sent[c] = 0
       /\ outcome[c] = "reply" => rcv[c] # <<>>
       /\ outcome[c] \in {"failed", "silent"} => sent[c] = 0
       /\ printed[c] # <<>> =>
            Len(printed[c]) \in 1 .. Len(rcv[c]) /\ printed[c][1] = rcv[c][1]

\* Client c ends with how, and what it prints.
Ends(c, how) ==
  /\ Exit(c, how) /\ conn[c] \in {"up", "refused"}
  /\ how \in {"failed", "silent"} => sent[c] = 0 \/ conn[c] = "refused"
  /\ how # "reply" => printed' = printed
  /\ how = "reply" => \E n \in 1 .. Len(rcv[c]) :
                        printed' = [printed EXCEPT ![c] = SubSeq(rcv[c], 1, n)]

\* The steps of the protocol, by what they do to the variables it adds.
LEMMA CtlCases ==
  ASSUME [CtlNext]_ctlVars
  PROVE  \/ /\ UNCHANGED <<outcome, printed, busy, answers>>
            /\ \/ UNCHANGED vars
               \/ \E c \in Clients : Accept(c) \/ Refuse(c)
               \/ \E c \in Clients : WriteRequest(c)
               \/ ReadSome \/ Eof \/ WriteError \/ OnData
         \/ \E c \in Clients, how \in {"reply", "gaveup", "failed", "silent"} : Ends(c, how)
         \/ TakeRequest \/ Reply \/ NoReply
<1>1. ASSUME NEW c \in Clients, Connect(c) \/ WriteRequest(c)
      PROVE  /\ UNCHANGED <<outcome, printed, busy, answers>>
             /\ Accept(c) \/ Refuse(c) \/ WriteRequest(c)
  BY <1>1 DEF Connect, WriteRequest
<1>2. ASSUME NEW c \in Clients, EmitFails(c) \/ ReceiveSome(c) \/ GiveUp(c) \/ Hangup(c)
      PROVE  \E how \in {"reply", "gaveup", "failed", "silent"} : Ends(c, how)
  BY <1>2 DEF EmitFails, ReceiveSome, Receive, GiveUp, Hangup, Ends
<1>3. ASSUME EndpointStep
      PROVE  /\ UNCHANGED <<outcome, printed, busy, answers>>
             /\ ReadSome \/ Eof \/ WriteError \/ OnData
  BY <1>3 DEF EndpointStep
<1>4. ASSUME UNCHANGED ctlVars
      PROVE  UNCHANGED <<outcome, printed, busy, answers>> /\ UNCHANGED vars
  BY <1>4 DEF ctlVars
<1> QED BY <1>1, <1>2, <1>3, <1>4, Zenon DEF CtlNext

\* What a client prints begins with what it has received.
LEMMA PrintedParts ==
  ASSUME TypeOK, NEW c \in Clients, NEW n \in 1 .. Len(rcv[c])
  PROVE  /\ SubSeq(rcv[c], 1, n) \in Seq(1 .. MaxMsgs)
         /\ Len(SubSeq(rcv[c], 1, n)) = n /\ n \in Nat
         /\ SubSeq(rcv[c], 1, n)[1] = rcv[c][1]
<1>1. rcv[c] \in Seq(1 .. MaxMsgs) /\ Len(rcv[c]) \in Nat
  BY DEF TypeOK
<1>2. n \in Int /\ 1 \in Int /\ 1 <= n /\ n - 1 + 1 = n /\ 1 \in 1 .. n - 1 + 1 /\ 1 + 1 - 1 = 1
  BY <1>1
<1>3. \A i \in 1 .. n : rcv[c][i] \in 1 .. MaxMsgs
  BY <1>1
<1>4. /\ SubSeq(rcv[c], 1, n) \in Seq(1 .. MaxMsgs)
      /\ Len(SubSeq(rcv[c], 1, n)) = IF 1 <= n THEN n - 1 + 1 ELSE 0
      /\ \A i \in 1 .. n - 1 + 1 : SubSeq(rcv[c], 1, n)[i] = rcv[c][1 + i - 1]
  BY <1>2, <1>3, SubSeqProperties
<1>5. SubSeq(rcv[c], 1, n)[1] = rcv[c][1 + 1 - 1]
  BY <1>2, <1>4
<1> QED BY <1>1, <1>2, <1>4, <1>5

LEMMA CtlTypeInit == CtlInit => CtlTypeOK
<1> SUFFICES ASSUME CtlInit PROVE CtlTypeOK
  OBVIOUS
<1>1. TypeOK
  BY TypeInit DEF CtlInit
<1>2. /\ outcome \in [Clients -> {"none", "reply", "gaveup", "failed", "silent"}]
      /\ printed \in [Clients -> Seq(1 .. MaxMsgs)]
      /\ busy \in (Pieces \X Pieces) \cup {NULL}
      /\ answers \in Seq(Clients)
  BY NothingIsSeq DEF CtlInit
<1> QED BY <1>1, <1>2 DEF CtlTypeOK

\* The client of the request that is worked on.
LEMMA BusyClient ==
  ASSUME CtlTypeOK, busy # NULL
  PROVE  busy[1][1] \in Clients
<1>1. busy[1] \in Pieces
  BY DEF CtlTypeOK
<1> QED BY <1>1, PiecesParts

LEMMA CtlTypeNext == CtlTypeOK /\ [CtlNext]_ctlVars => CtlTypeOK'
<1> SUFFICES ASSUME CtlTypeOK, [CtlNext]_ctlVars PROVE CtlTypeOK'
  OBVIOUS
<1>0. TypeOK /\ TypeOK'
  BY CtlStep, TypeNext DEF CtlTypeOK
<1>1. CASE UNCHANGED <<outcome, printed, busy, answers>>
  BY <1>0, <1>1 DEF CtlTypeOK
<1>2. ASSUME NEW c \in Clients, NEW how \in {"reply", "gaveup", "failed", "silent"}, Ends(c, how)
      PROVE  CtlTypeOK'
  <2>1. outcome' = [outcome EXCEPT ![c] = how] /\ UNCHANGED <<busy, answers>>
    BY <1>2 DEF Ends, Exit
  <2>2. printed' \in [Clients -> Seq(1 .. MaxMsgs)]
    <3>1. CASE how # "reply"
      BY <1>2, <3>1 DEF Ends, CtlTypeOK
    <3>2. CASE how = "reply"
      <4>1. PICK n \in 1 .. Len(rcv[c]) : printed' = [printed EXCEPT ![c] = SubSeq(rcv[c], 1, n)]
        BY <1>2, <3>2 DEF Ends
      <4>2. SubSeq(rcv[c], 1, n) \in Seq(1 .. MaxMsgs)
        BY <1>0, PrintedParts
      <4> QED BY <4>1, <4>2 DEF CtlTypeOK
    <3> QED BY <3>1, <3>2
  <2>3. outcome' \in [Clients -> {"none", "reply", "gaveup", "failed", "silent"}]
    BY <2>1 DEF CtlTypeOK
  <2> QED BY <1>0, <2>1, <2>2, <2>3 DEF CtlTypeOK
<1>3. CASE TakeRequest
  <2>1. Len(pin) >= 2 /\ busy' = <<pin[1], pin[2]>> /\ UNCHANGED <<outcome, printed, answers>>
    BY <1>3 DEF TakeRequest, PeerRead
  <2>2. busy' \in Pieces \X Pieces
    BY <1>0, <2>1 DEF TypeOK
  <2> QED BY <1>0, <2>1, <2>2 DEF CtlTypeOK
<1>4. CASE Reply
  <2>1. /\ busy' = NULL /\ UNCHANGED <<outcome, printed>>
        /\ answers' = Append(answers, busy[1][1]) /\ busy # NULL
    BY <1>4 DEF Reply
  <2>2. answers' \in Seq(Clients)
    BY <2>1, BusyClient DEF CtlTypeOK
  <2> QED BY <1>0, <2>1, <2>2 DEF CtlTypeOK
<1>5. CASE NoReply
  BY <1>0, <1>5 DEF NoReply, CtlTypeOK
<1> QED BY <1>1, <1>2, <1>3, <1>4, <1>5, CtlCases

LEMMA BaseInit == CtlInit => BaseInv
BY DEF CtlInit, Init, BaseInv

LEMMA BaseNext ==
  ASSUME CtlTypeOK, CtlTypeOK', ConnInv, BaseInv, [CtlNext]_ctlVars
  PROVE  BaseInv'
<1> DEFINE Fine(c) == /\ sent[c] <= 2
                      /\ conn[c] \in {"new", "up"} => outcome[c] = "none"
                      /\ conn[c] = "ended" => outcome[c] # "none"
                      /\ conn[c] = "refused" => sent[c] = 0
                      /\ outcome[c] = "reply" => rcv[c] # <<>>
                      /\ outcome[c] \in {"failed", "silent"} => sent[c] = 0
                      /\ printed[c] # <<>> =>
                           Len(printed[c]) \in 1 .. Len(rcv[c]) /\ printed[c][1] = rcv[c][1]
<1>0. /\ TypeOK /\ opened /\ bound /\ cin = <<>> /\ wrote = Len(answers)
      /\ \A c \in Clients : Fine(c)
  BY DEF CtlTypeOK, BaseInv
<1>a. ASSUME opened' = opened, bound' = bound, cin' = <<>>, wrote' = Len(answers'),
             \A c \in Clients : Fine(c)'
      PROVE  BaseInv'
  BY <1>0, <1>a DEF BaseInv
<1>b. ASSUME UNCHANGED <<conn, sent, rcv, outcome, printed>> PROVE \A c \in Clients : Fine(c)'
  BY <1>0, <1>b
<1> HIDE DEF Fine
<1>1. ASSUME UNCHANGED <<outcome, printed, busy, answers>>, NEW c \in Clients,
             Accept(c) \/ Refuse(c)
      PROVE  BaseInv'
  <2>1. UNCHANGED <<opened, bound, cin, wrote, sent, rcv>>
    BY <1>1 DEF Accept, Refuse, toPeer, toClient
  <2>2. \E x \in {"up", "refused"} : conn' = [conn EXCEPT ![c] = x]
    BY <1>1 DEF Accept, Refuse
  <2>3. conn[c] = "new" /\ sent[c] = 0 /\ conn \in [Clients -> {"new", "up", "refused", "ended"}]
    BY <1>0, <1>1 DEF Accept, Refuse, ConnInv, TypeOK
  <2>4. \A d \in Clients : Fine(d)'
    BY <1>0, <1>1, <2>1, <2>2, <2>3 DEF Fine
  <2> QED BY <1>0, <1>1, <1>a, <2>1, <2>4
<1>2. ASSUME NEW c \in Clients, WriteRequest(c) PROVE BaseInv'
  <2>1. /\ UNCHANGED <<opened, bound, cin, wrote, rcv, conn, outcome, printed, answers>>
        /\ sent' = [sent EXCEPT ![c] = sent[c] + 1] /\ sent[c] < 2
        /\ conn[c] = "up" /\ outcome[c] = "none"
    BY <1>2 DEF WriteRequest, ClientWrite, toClient
  <2>2. sent'[c] <= 2 /\ \A d \in Clients : d # c => sent'[d] = sent[d]
    BY <1>0, <2>1 DEF TypeOK
  <2>3. \A d \in Clients : Fine(d)'
    BY <1>0, <2>1, <2>2 DEF Fine
  <2> QED BY <1>0, <1>a, <2>1, <2>3
<1>3. ASSUME UNCHANGED <<outcome, printed, busy, answers>>, ReadSome \/ Eof \/ WriteError
      PROVE  BaseInv'
  <2>1. UNCHANGED <<opened, bound, wrote, sent, rcv, conn>> /\ cin' = <<>>
    <3>1. CASE ReadSome
      <4>1. PICK n : Read(n)
        BY <3>1 DEF ReadSome
      <4> QED BY <1>0, <4>1, Zenon DEF Read, toClient
    <3>2. CASE Eof \/ WriteError
      BY <3>2 DEF Eof, WriteError, FreeConnection
    <3> QED BY <1>3, <3>1, <3>2
  <2> QED BY <1>0, <1>3, <1>a, <1>b, <2>1
<1>4. ASSUME UNCHANGED <<outcome, printed, busy, answers>>, OnData PROVE BaseInv'
  <2>1. UNCHANGED <<opened, bound, cin, wrote, sent, conn>>
    BY <1>4 DEF OnData, toPeer
  <2>2. rcv' = rcv \/ (cli \in Clients /\ rcv' = [rcv EXCEPT ![cli] = rcv[cli] \o ein])
    BY <1>0, <1>4 DEF OnData, TypeOK
  <2>3. CASE rcv' = rcv
    BY <1>0, <1>4, <1>a, <1>b, <2>1, <2>3
  <2>4. CASE cli \in Clients /\ rcv' = [rcv EXCEPT ![cli] = rcv[cli] \o ein]
    <3>1. rcv[cli] \in Seq(1 .. MaxMsgs) /\ ein \in Seq(1 .. MaxMsgs)
      BY <1>0, <2>4 DEF TypeOK
    <3>2. /\ rcv[cli] \o ein \in Seq(1 .. MaxMsgs)
          /\ Len(rcv[cli] \o ein) = Len(rcv[cli]) + Len(ein)
          /\ \A i \in 1 .. Len(rcv[cli]) + Len(ein) : (rcv[cli] \o ein)[i] =
               IF i <= Len(rcv[cli]) THEN rcv[cli][i] ELSE ein[i - Len(rcv[cli])]
      BY <3>1, ConcatProperties
    <3>3. Len(rcv[cli]) \in Nat /\ Len(ein) \in Nat
      BY <3>1
    <3>4. /\ Len(rcv'[cli]) >= Len(rcv[cli]) /\ Len(rcv'[cli]) \in Nat
          /\ rcv[cli] # <<>> => rcv'[cli] # <<>> /\ rcv'[cli][1] = rcv[cli][1]
      <4>1. rcv'[cli] = rcv[cli] \o ein
        BY <1>0, <2>4 DEF TypeOK
      <4>2. rcv[cli] # <<>> => Len(rcv[cli]) >= 1
        BY <3>1
      <4>3. rcv[cli] # <<>> => (rcv[cli] \o ein)[1] = rcv[cli][1]
        BY <3>2, <3>3, <4>2
      <4>4. rcv[cli] # <<>> => Len(rcv[cli] \o ein) # 0
        BY <3>2, <3>3, <4>2
      <4>5. Len(<<>>) = 0
        OBVIOUS
      <4> HIDE <2>4
      <4> QED BY <3>2, <3>3, <4>1, <4>3, <4>4, <4>5
    <3>5. \A d \in Clients : d # cli => rcv'[d] = rcv[d]
      BY <1>0, <2>4 DEF TypeOK
    <3>6. ASSUME NEW d \in Clients PROVE Fine(d)'
      <4>1. CASE d # cli
        BY <1>0, <1>4, <2>1, <3>5, <4>1 DEF Fine
      <4>2. CASE d = cli
        <5>1. printed[d] # <<>> => Len(printed[d]) \in 1 .. Len(rcv[d]) /\ rcv[d] # <<>>
          <6>1. rcv[d] = <<>> => Len(rcv[d]) = 0
            OBVIOUS
          <6>2. printed[d] # <<>> => Len(printed[d]) \in 1 .. Len(rcv[d])
            BY <1>0 DEF Fine
          <6> QED BY <6>1, <6>2
        <5>2. printed[d] # <<>> => Len(printed[d]) \in 1 .. Len(rcv'[d])
          BY <3>3, <3>4, <4>2, <5>1
        <5> QED BY <1>0, <1>4, <2>1, <3>4, <4>2, <5>1, <5>2 DEF Fine
      <4> QED BY <4>1, <4>2
    <3> QED BY <1>0, <1>4, <1>a, <2>1, <3>6
  <2> QED BY <2>2, <2>3, <2>4
<1>5. ASSUME NEW c \in Clients, NEW how \in {"reply", "gaveup", "failed", "silent"}, Ends(c, how)
      PROVE  BaseInv'
  <2>1. /\ UNCHANGED <<opened, bound, cin, wrote, sent, rcv, answers>>
        /\ outcome' = [outcome EXCEPT ![c] = how]
        /\ conn[c] \in {"up", "refused"}
        /\ conn' = IF conn[c] = "up" THEN [conn EXCEPT ![c] = "ended"] ELSE conn
    BY <1>5 DEF Ends, Exit, ClientEnd, toClient, vars
  <2>2. /\ outcome'[c] = how /\ \A d \in Clients : d # c => outcome'[d] = outcome[d]
        /\ conn'[c] \in {"ended", "refused"} /\ (conn[c] = "refused" => conn'[c] = "refused")
        /\ conn[c] = "up" => conn'[c] = "ended"
        /\ \A d \in Clients : d # c => conn'[d] = conn[d]
    BY <1>0, <2>1 DEF CtlTypeOK, TypeOK
  <2>3. how \in {"failed", "silent"} => sent[c] = 0
    BY <1>0, <1>5 DEF Ends, Fine
  <2>4. /\ \A d \in Clients : d # c => printed'[d] = printed[d]
        /\ printed'[c] # <<>> =>
             Len(printed'[c]) \in 1 .. Len(rcv[c]) /\ printed'[c][1] = rcv[c][1]
        /\ how = "reply" => rcv[c] # <<>>
    <3>1. CASE how # "reply"
      BY <1>0, <1>5, <3>1 DEF Ends, Fine
    <3>2. CASE how = "reply"
      <4>1. PICK n \in 1 .. Len(rcv[c]) : printed' = [printed EXCEPT ![c] = SubSeq(rcv[c], 1, n)]
        BY <1>5, <3>2 DEF Ends
      <4>2. printed'[c] = SubSeq(rcv[c], 1, n) /\ \A d \in Clients : d # c => printed'[d] = printed[d]
        BY <4>1 DEF CtlTypeOK
      <4>3. Len(SubSeq(rcv[c], 1, n)) = n /\ SubSeq(rcv[c], 1, n)[1] = rcv[c][1]
        BY <1>0, PrintedParts
      <4>4. rcv[c] # <<>>
        BY <4>1
      <4> QED BY <4>2, <4>3, <4>4
    <3> QED BY <3>1, <3>2
  <2>5. \A d \in Clients : Fine(d)'
    <3>1. Fine(c)'
      BY <1>0, <2>1, <2>2, <2>3, <2>4 DEF Fine
    <3>2. ASSUME NEW d \in Clients, d # c PROVE Fine(d)'
      BY <1>0, <2>1, <2>2, <2>4, <3>2 DEF Fine
    <3> QED BY <3>1, <3>2
  <2> QED BY <1>0, <1>a, <2>1, <2>5
<1>6. CASE TakeRequest
  <2>1. UNCHANGED <<opened, bound, cin, wrote, sent, rcv, conn, outcome, printed, answers>>
    BY <1>6 DEF TakeRequest, PeerRead, toClient
  <2> QED BY <1>0, <1>a, <1>b, <2>1
<1>7. CASE Reply
  <2>1. /\ UNCHANGED <<opened, bound, cin, sent, rcv, conn, outcome, printed>>
        /\ wrote' = wrote + 1 /\ answers' = Append(answers, busy[1][1]) /\ busy # NULL
    BY <1>7 DEF Reply, PeerWrite, toPeer
  <2>2. Len(answers') = Len(answers) + 1
    BY <2>1, BusyClient DEF CtlTypeOK
  <2> QED BY <1>0, <1>a, <1>b, <2>1, <2>2
<1>8. CASE NoReply \/ (UNCHANGED <<outcome, printed, busy, answers>> /\ UNCHANGED vars)
  <2>1. UNCHANGED <<opened, bound, cin, wrote, sent, rcv, conn, outcome, printed, answers>>
    BY <1>8 DEF NoReply, vars
  <2> QED BY <1>0, <1>a, <1>b, <2>1
<1> QED BY <1>1, <1>2, <1>3, <1>4, <1>5, <1>6, <1>7, <1>8, CtlCases

-----------------------------------------------------------------------------
(* Where the requests and their replies are *)

\* The clients whose request has been read by process_ctlport, all of it.
Spent == {c \in Clients : /\ sent[c] = 2 /\ sock[c] = <<>>
                         /\ \A i \in 1 .. Len(pin) : pin[i][1] # c}

\* The reply n is in s.
IsIn(n, s) == \E i \in 1 .. Len(s) : s[i] = n

\* Unless a request was torn, each one is read once and answered at most once, and
\* the reply to a client that is still there waits for it or has been given to it.
RequestInv ==
  ~torn =>
    /\ \A i, j \in 1 .. Len(answers) : answers[i] = answers[j] => i = j
    /\ \A n \in 1 .. Len(answers) :
         /\ answers[n] \in Spent
         /\ outcome[answers[n]] = "none" => IsIn(n, ein) \/ IsIn(n, rcv[answers[n]])
    /\ busy # NULL =>
         busy[1][1] \in Spent /\ \A n \in 1 .. Len(answers) : answers[n] # busy[1][1]

\* What was torn stays torn.
LEMMA TornStays ==
  ASSUME TypeOK, [CtlNext]_ctlVars, torn
  PROVE  torn'
<1>1. ASSUME NEW c \in Clients, NEW how, Ends(c, how) PROVE torn'
  BY <1>1 DEF Ends, Exit, ClientEnd, vars
<1>2. CASE ReadSome
  <2>1. PICK n : Read(n)
    BY <1>2 DEF ReadSome
  <2> QED BY <2>1, Zenon DEF Read
<1>3. CASE Eof \/ WriteError \/ OnData \/ TakeRequest \/ Reply \/ NoReply \/ UNCHANGED vars
  BY <1>3, Zenon DEF Eof, WriteError, OnData, TakeRequest, Reply, NoReply, PeerRead, PeerWrite,
                     toPeer, vars
<1>4. ASSUME NEW c \in Clients, Accept(c) \/ Refuse(c) \/ WriteRequest(c) PROVE torn'
  BY <1>4 DEF Accept, Refuse, WriteRequest, ClientWrite, toPeer
<1> QED BY <1>1, <1>2, <1>3, <1>4, CtlCases

\* A client has one request: once it is spent it stays so.
LEMMA SpentStays ==
  ASSUME IpcInv, BaseInv, [CtlNext]_ctlVars, NEW c \in Spent
  PROVE  c \in Spent'
<1>0. TypeOK /\ StreamInv /\ bound /\ c \in Clients /\ sent[c] = 2 /\ sock[c] = <<>>
  BY DEF IpcInv, PeerInv, BaseInv, Spent
<1>1. ASSUME sent'[c] = sent[c], sock'[c] = sock[c], pin' = pin PROVE c \in Spent'
  BY <1>1 DEF Spent
<1>2. ASSUME NEW d \in Clients, WriteRequest(d) PROVE c \in Spent'
  <2>1. /\ d # c /\ pin' = pin
        /\ sent' = [sent EXCEPT ![d] = sent[d] + 1]
        /\ sock' = [sock EXCEPT ![d] = Append(sock[d], Piece(d, sent[d] + 1))]
    BY <1>0, <1>2 DEF WriteRequest, ClientWrite
  <2> QED BY <1>0, <1>1, <2>1 DEF TypeOK
<1>3. CASE ReadSome
  <2>1. PICK n \in 1 .. Len(sock[cli]) : Read(n)
    BY <1>3 DEF ReadSome
  <2>2. cli # c
    <3>1. Len(<<>>) = 0
      OBVIOUS
    <3>2. sock[cli] # <<>>
      BY <2>1, <3>1
    <3> QED BY <1>0, <3>2
  <2>3. cli \in Clients /\ sent' = sent /\ sock'[c] = sock[c]
    <3>1. cli \in Clients /\ sent' = sent /\ sock' = [sock EXCEPT ![cli] = SubSeq(@, n + 1, Len(@))]
      BY <1>0, <2>1, Zenon DEF Read, TypeOK
    <3> QED BY <1>0, <2>2, <3>1 DEF TypeOK
  <2>4. PICK in \in Seq(Pieces) :
          /\ pin' = pin \o in
          /\ \A i \in 1 .. Len(in) : in[i] = Piece(cli, taken[cli] + i)
    BY <1>0, <2>1, StreamRead, Zenon
  <2>5. \A i \in 1 .. Len(in) : in[i][1] = cli
    BY <2>4 DEF Piece
  <2>6. \A i \in 1 .. Len(pin') : \/ i \in 1 .. Len(pin) /\ pin'[i] = pin[i]
                                  \/ i - Len(pin) \in 1 .. Len(in) /\ pin'[i] = in[i - Len(pin)]
    <3>1. pin \in Seq(Pieces)
      BY <1>0 DEF TypeOK
    <3> QED BY <2>4, <3>1, ConcatElements
  <2> QED BY <2>2, <2>3, <2>5, <2>6 DEF Spent
<1>4. CASE TakeRequest
  <2>1. PeerRead /\ sent' = sent /\ sock' = sock
    BY <1>4 DEF TakeRequest, PeerRead
  <2>2. \A i \in 1 .. Len(pin') : i + 2 \in 1 .. Len(pin) /\ pin'[i] = pin[i + 2]
    BY <1>0, <2>1, PeerReadParts
  <2> QED BY <2>1, <2>2 DEF Spent
<1>5. CASE Eof \/ WriteError
  <2>1. sent' = sent /\ pin' = pin /\ (sock' = sock \/ sock' = [sock EXCEPT ![cli] = <<>>])
    BY <1>5 DEF Eof, WriteError
  <2> QED BY <1>0, <1>1, <2>1 DEF TypeOK
<1>6. ASSUME NEW d \in Clients, Accept(d) \/ Refuse(d) \/ \E how : Ends(d, how) PROVE c \in Spent'
  BY <1>1, <1>6 DEF Accept, Refuse, Ends, Exit, ClientEnd, toPeer, vars
<1>7. CASE OnData \/ Reply \/ NoReply \/ UNCHANGED vars
  BY <1>1, <1>7 DEF OnData, Reply, PeerWrite, NoReply, toPeer, vars
<1> QED BY <1>2, <1>3, <1>4, <1>5, <1>6, <1>7, CtlCases

\* process_ctlport begins with all of a request.
LEMMA TakenIsSpent ==
  ASSUME IpcInv, BaseInv, ~torn, PeerRead, NEW c, c = pin[1][1]
  PROVE  c \in Spent'
<1>0. /\ TypeOK /\ StreamInv /\ OrderInv /\ WholeInv
      /\ sent' = sent /\ sock' = sock
  BY DEF IpcInv, PeerInv, PeerRead
<1>1. /\ Len(pin) \in Nat /\ Len(pin) >= 2 /\ 1 \in 1 .. Len(pin) /\ 2 \in 1 .. Len(pin)
      /\ \A i \in 1 .. Len(pin') : i + 2 \in 1 .. Len(pin) /\ pin'[i] = pin[i + 2] /\ 2 < i + 2
  BY <1>0, PeerReadParts
<1>2. Frame(pin[1], pin[2])
  <2>1. 2 % 2 = 0 /\ 2 - 1 = 1
    OBVIOUS
  <2>2. Frame(pin[2 - 1], pin[2])
    BY <1>0, <1>1, <2>1 DEF WholeInv
  <2> QED BY <2>1, <2>2
<1>3. c \in Clients /\ pin[2][1] = c /\ Num(pin[2]) \in Nat /\ Num(pin[2]) >= 2
  <2>1. pin[1] \in Pieces /\ pin[2] \in Pieces
    BY <1>0, <1>1 DEF TypeOK
  <2>2. /\ c \in Clients /\ pin[1][2] \in Nat /\ Num(pin[1]) \in Nat
        /\ pin[2][2] \in Nat /\ Num(pin[2]) \in Nat
    BY <2>1, PiecesParts
  <2>3. pin[1][2] = pin[2][2] /\ pin[1][3] = 1 /\ pin[2][3] = 2 /\ pin[2][1] = c
    BY <1>2 DEF Frame
  <2>4. Num(pin[1]) = 2 * pin[1][2] - 2 + 1 /\ Num(pin[2]) = 2 * pin[1][2] - 2 + 2
    BY <2>3 DEF Num
  <2>5. Num(pin[2]) >= 2
    BY <2>2, <2>4
  <2> QED BY <2>2, <2>3, <2>5
<1>4. Num(pin[2]) <= taken[c]
  BY <1>0, <1>1, <1>3 DEF OrderInv
<1>5. taken[c] = sent[c] - Len(sock[c]) /\ sent[c] \in Nat /\ sent[c] <= 2
      /\ Len(sock[c]) \in Nat /\ sock[c] \in Seq(Pieces)
  <2>1. cin = <<>> /\ Len(cin) = 0
    BY DEF BaseInv
  <2>2. sent[c] \in Nat /\ sent[c] <= 2 /\ sock[c] \in Seq(Pieces)
    BY <1>0, <1>3 DEF BaseInv, TypeOK
  <2>3. Len(sock[c]) \in Nat
    BY <2>2
  <2> QED BY <1>3, <2>1, <2>2, <2>3 DEF taken
<1>6. sent[c] = 2 /\ Len(sock[c]) = 0 /\ taken[c] = 2
  BY <1>3, <1>4, <1>5
<1>7. sock[c] = <<>>
  BY <1>5, <1>6
<1>8. ASSUME NEW i \in 1 .. Len(pin') PROVE pin'[i][1] # c
  <2>1. SUFFICES ASSUME pin[i + 2][1] = c PROVE FALSE
    BY <1>1
  <2>2. Num(pin[2]) < Num(pin[i + 2]) /\ Num(pin[i + 2]) <= taken[c]
    BY <1>0, <1>1, <1>3, <2>1 DEF OrderInv
  <2>3. Num(pin[i + 2]) \in Nat
    BY <1>0, <1>1, BufferParts
  <2> QED BY <1>3, <1>6, <2>2, <2>3
<1> QED BY <1>0, <1>3, <1>6, <1>7, <1>8 DEF Spent

LEMMA RequestInit == CtlInit => RequestInv
<1> SUFFICES ASSUME CtlInit PROVE RequestInv
  OBVIOUS
<1>1. Len(answers) = 0 /\ busy = NULL
  BY DEF CtlInit
<1> QED BY <1>1 DEF RequestInv

\* A client that has sent and not ended is the one that is connected.
LEMMA WhoWaits ==
  ASSUME IpcInv, CtlTypeOK, BaseInv, NEW c \in Clients, outcome[c] = "none", sent[c] > 0
  PROVE  conn[c] = "up" /\ cli = c
<1>1. conn[c] \in {"new", "up", "refused", "ended"} /\ (conn[c] = "new" => sent[c] = 0)
  BY DEF IpcInv, ConnInv, TypeOK
<1>2. conn[c] # "refused" /\ conn[c] # "ended"
  BY DEF BaseInv
<1>3. conn[c] = "up"
  BY <1>1, <1>2
<1> QED BY <1>3 DEF IpcInv, ConnInv, OneConnection

\* What process_ctlport has not touched.
LEMMA RequestKept ==
  ASSUME IpcInv, BaseInv, RequestInv, [CtlNext]_ctlVars, ~torn,
         answers' = answers, busy' = busy \/ busy' = NULL,
         \A n \in 1 .. Len(answers) : answers[n] \in Clients /\ outcome'[answers[n]] = "none" =>
           \/ \E i \in 1 .. Len(ein') : ein'[i] = n
           \/ \E i \in 1 .. Len(rcv'[answers[n]]) : rcv'[answers[n]][i] = n
  PROVE  RequestInv'
<1>1. \A c \in Spent : c \in Spent' /\ c \in Clients
  BY SpentStays DEF Spent
<1>2. \A i, j \in 1 .. Len(answers') : answers'[i] = answers'[j] => i = j
  BY DEF RequestInv
<1>3. \A n \in 1 .. Len(answers') : answers'[n] \in Spent' /\ answers'[n] \in Clients
  BY <1>1 DEF RequestInv
<1>4. busy' # NULL => busy'[1][1] \in Spent' /\ \A n \in 1 .. Len(answers') : answers'[n] # busy'[1][1]
  BY <1>1 DEF RequestInv
<1> QED BY <1>2, <1>3, <1>4 DEF RequestInv, IsIn

LEMMA RequestOnData ==
  ASSUME IpcInv, CtlTypeOK, BaseInv, RequestInv, ~torn, OnData, UNCHANGED <<outcome, answers>>,
         NEW n \in 1 .. Len(answers), answers[n] \in Clients, outcome[answers[n]] = "none"
  PROVE  \/ \E i \in 1 .. Len(ein') : ein'[i] = n
         \/ \E i \in 1 .. Len(rcv'[answers[n]]) : rcv'[answers[n]][i] = n
<1> DEFINE c == answers[n]
<1>1. conn[c] = "up" /\ cli = c
  <2>1. sent[c] = 2
    BY DEF RequestInv, Spent
  <2> QED BY <2>1, WhoWaits
<1>c. c \in Clients
  OBVIOUS
<1> HIDE DEF c
<1>2. c # NULL /\ ein' = <<>> /\ rcv' = [rcv EXCEPT ![c] = rcv[c] \o ein]
  BY <1>1, <1>c DEF OnData
<1>3. /\ rcv[c] \in Seq(1 .. MaxMsgs) /\ ein \in Seq(1 .. MaxMsgs)
      /\ Len(rcv[c]) \in Nat /\ Len(ein) \in Nat /\ rcv'[c] = rcv[c] \o ein
  <2>1. rcv \in [Clients -> Seq(1 .. MaxMsgs)] /\ ein \in Seq(1 .. MaxMsgs)
    BY DEF CtlTypeOK, TypeOK
  <2> QED BY <1>2, <1>c, <2>1
<1>4. /\ Len(rcv[c] \o ein) = Len(rcv[c]) + Len(ein)
      /\ \A i \in 1 .. Len(rcv[c]) + Len(ein) : (rcv[c] \o ein)[i] =
           IF i <= Len(rcv[c]) THEN rcv[c][i] ELSE ein[i - Len(rcv[c])]
  BY <1>3, ConcatProperties
<1>5. IsIn(n, ein) \/ IsIn(n, rcv[c])
  BY DEF RequestInv, c
<1>6. \E i \in 1 .. Len(rcv'[c]) : rcv'[c][i] = n
  <2>1. CASE IsIn(n, rcv[c])
    <3>1. PICK i \in 1 .. Len(rcv[c]) : rcv[c][i] = n
      BY <2>1 DEF IsIn
    <3>2. i \in 1 .. Len(rcv[c]) + Len(ein) /\ i <= Len(rcv[c])
      BY <1>3
    <3> QED BY <1>3, <1>4, <3>1, <3>2
  <2>2. CASE IsIn(n, ein)
    <3>1. PICK i \in 1 .. Len(ein) : ein[i] = n
      BY <2>2 DEF IsIn
    <3> DEFINE k == i + Len(rcv[c])
    <3>2. k \in 1 .. Len(rcv[c]) + Len(ein) /\ ~(k <= Len(rcv[c])) /\ k - Len(rcv[c]) = i
      BY <1>3
    <3> HIDE DEF k
    <3> QED BY <1>3, <1>4, <3>1, <3>2
  <2> QED BY <1>5, <2>1, <2>2
<1> QED BY <1>6 DEF c

LEMMA RequestTake ==
  ASSUME IpcInv, CtlTypeOK, BaseInv, RequestInv, ~torn, [CtlNext]_ctlVars, TakeRequest
  PROVE  RequestInv'
<1>1. /\ PeerRead /\ busy' = <<pin[1], pin[2]>> /\ UNCHANGED <<outcome, answers, ein, rcv>>
      /\ Len(pin) >= 2 /\ 1 \in 1 .. Len(pin)
  BY DEF TakeRequest, PeerRead, toClient, CtlTypeOK, TypeOK
<1>2. busy'[1][1] \in Spent'
  <2>1. busy'[1][1] = pin[1][1]
    BY <1>1
  <2> QED BY <1>1, <2>1, TakenIsSpent
<1>3. \A n \in 1 .. Len(answers) : answers[n] # busy'[1][1]
  BY <1>1 DEF RequestInv, Spent
<1>4. \A c \in Spent : c \in Spent'
  BY SpentStays
<1> QED BY <1>1, <1>2, <1>3, <1>4 DEF RequestInv, IsIn

LEMMA RequestReply ==
  ASSUME IpcInv, CtlTypeOK, BaseInv, RequestInv, ~torn, [CtlNext]_ctlVars, Reply
  PROVE  RequestInv'
<1> DEFINE c == busy[1][1]
           m == Len(answers) + 1
<1>1. /\ busy # NULL /\ c \in Clients /\ busy' = NULL /\ UNCHANGED <<outcome, rcv>>
      /\ answers' = Append(answers, c) /\ ein' = Append(ein, m)
      /\ wrote < MaxMsgs /\ wrote = Len(answers)
  BY BusyClient DEF Reply, PeerWrite, BaseInv
<1>2. c \in Spent /\ \A n \in 1 .. Len(answers) : answers[n] # c
  BY <1>1 DEF RequestInv
<1>3. \A d \in Spent : d \in Spent'
  BY SpentStays
<1>4. answers \in Seq(Clients) /\ ein \in Seq(1 .. MaxMsgs) /\ Len(answers) \in Nat
      /\ Len(ein) \in Nat /\ m \in 1 .. MaxMsgs
  <2>1. answers \in Seq(Clients) /\ ein \in Seq(1 .. MaxMsgs)
    BY DEF CtlTypeOK, TypeOK
  <2> QED BY <1>1, <2>1
<1> HIDE DEF c
<1>5. /\ Len(answers') = m /\ answers'[m] = c
      /\ \A n \in 1 .. Len(answers) : answers'[n] = answers[n]
      /\ \A n \in 1 .. m : n \in 1 .. Len(answers) \/ n = m
  BY <1>1, <1>4
<1> HIDE DEF m
<1>6. /\ Len(ein') = Len(ein) + 1 /\ ein'[Len(ein) + 1] = m
      /\ \A i \in 1 .. Len(ein) : ein'[i] = ein[i] /\ i \in 1 .. Len(ein')
      /\ Len(ein) + 1 \in 1 .. Len(ein')
  BY <1>1, <1>4
<1>7. \A i, j \in 1 .. Len(answers') : answers'[i] = answers'[j] => i = j
  <2>1. \A i, j \in 1 .. Len(answers) : answers[i] = answers[j] => i = j
    BY DEF RequestInv
  <2> QED BY <1>2, <1>5, <2>1
<1>8. ASSUME NEW n \in 1 .. Len(answers')
      PROVE  /\ answers'[n] \in Spent'
             /\ outcome'[answers'[n]] = "none" =>
                  \/ \E i \in 1 .. Len(ein') : ein'[i] = n
                  \/ \E i \in 1 .. Len(rcv'[answers'[n]]) : rcv'[answers'[n]][i] = n
  <2>1. CASE n = m
    BY <1>2, <1>3, <1>5, <1>6, <2>1
  <2>2. CASE n \in 1 .. Len(answers)
    <3>1. /\ answers[n] \in Spent /\ answers'[n] = answers[n]
          /\ outcome[answers[n]] = "none" =>
               \/ \E i \in 1 .. Len(ein) : ein[i] = n
               \/ \E i \in 1 .. Len(rcv[answers[n]]) : rcv[answers[n]][i] = n
      BY <1>5, <2>2 DEF RequestInv, IsIn
    <3> QED BY <1>1, <1>3, <1>6, <3>1
  <2> QED BY <1>5, <2>1, <2>2
<1> QED BY <1>1, <1>7, <1>8 DEF RequestInv, IsIn

LEMMA RequestNext ==
  ASSUME IpcInv, CtlTypeOK, BaseInv, RequestInv, [CtlNext]_ctlVars
  PROVE  RequestInv'
<1>1. SUFFICES ASSUME ~torn' PROVE RequestInv'
  BY DEF RequestInv
<1>2. ~torn /\ TypeOK
  BY <1>1, TornStays DEF IpcInv
<1>3. ASSUME UNCHANGED <<answers, ein, rcv>>, busy' = busy \/ busy' = NULL,
             \A c \in Clients : outcome'[c] = "none" => outcome[c] = "none"
      PROVE  RequestInv'
  <2>1. \A n \in 1 .. Len(answers) : answers[n] \in Clients /\ outcome'[answers[n]] = "none" =>
           \/ \E i \in 1 .. Len(ein') : ein'[i] = n
           \/ \E i \in 1 .. Len(rcv'[answers[n]]) : rcv'[answers[n]][i] = n
    BY <1>2, <1>3 DEF RequestInv, IsIn
  <2> QED BY <1>2, <1>3, <2>1, RequestKept
<1>4. ASSUME UNCHANGED <<outcome, busy, answers>>, UNCHANGED <<ein, rcv>> PROVE RequestInv'
  BY <1>3, <1>4
<1>5. ASSUME UNCHANGED <<outcome, printed, busy, answers>>, NEW c \in Clients,
             Accept(c) \/ Refuse(c) \/ WriteRequest(c)
      PROVE  RequestInv'
  BY <1>4, <1>5 DEF Accept, Refuse, WriteRequest, ClientWrite, toClient
<1>6. ASSUME UNCHANGED <<outcome, printed, busy, answers>>,
             ReadSome \/ Eof \/ WriteError \/ UNCHANGED vars
      PROVE  RequestInv'
  <2>1. CASE ReadSome
    <3>1. PICK n : Read(n)
      BY <2>1 DEF ReadSome
    <3>2. UNCHANGED <<ein, rcv>>
      BY <3>1, Zenon DEF Read, toClient
    <3> QED BY <1>4, <1>6, <3>2
  <2>2. CASE Eof \/ WriteError \/ UNCHANGED vars
    BY <1>4, <1>6, <2>2 DEF Eof, WriteError, vars
  <2> QED BY <1>6, <2>1, <2>2
<1>7. ASSUME UNCHANGED <<outcome, printed, busy, answers>>, OnData PROVE RequestInv'
  <2>1. \A n \in 1 .. Len(answers) : answers[n] \in Clients /\ outcome'[answers[n]] = "none" =>
           \/ \E i \in 1 .. Len(ein') : ein'[i] = n
           \/ \E i \in 1 .. Len(rcv'[answers[n]]) : rcv'[answers[n]][i] = n
    BY <1>2, <1>7, RequestOnData
  <2> QED BY <1>2, <1>7, <2>1, RequestKept
<1>8. ASSUME NEW c \in Clients, NEW how \in {"reply", "gaveup", "failed", "silent"}, Ends(c, how)
      PROVE  RequestInv'
  <2>1. UNCHANGED <<busy, answers, ein, rcv>> /\ outcome' = [outcome EXCEPT ![c] = how]
    BY <1>8 DEF Ends, Exit, ClientEnd, toClient, vars
  <2>2. \A d \in Clients : outcome'[d] = "none" => outcome[d] = "none"
    BY <2>1 DEF CtlTypeOK
  <2> QED BY <1>3, <2>1, <2>2
<1>9. CASE NoReply
  <2>1. UNCHANGED <<answers, ein, rcv, outcome>> /\ busy' = NULL
    BY <1>9 DEF NoReply, vars
  <2> QED BY <1>3, <2>1
<1> QED BY <1>2, <1>5, <1>6, <1>7, <1>8, <1>9, RequestTake, RequestReply, CtlCases

-----------------------------------------------------------------------------
(* The backlog *)

\* What is on the way to process_ctlport is in the peer's input or in the socket of
\* the client that wrote it.
LEMMA IncomingParts ==
  ASSUME IpcInv, BaseInv, NEW k \in 1 .. Len(Incoming)
  PROVE  \/ \E i \in 1 .. Len(pin) : Incoming[k] = pin[i]
         \/ Incoming[k][1] \in Clients /\ sock[Incoming[k][1]] # <<>>
<1> DEFINE s == IF cli = NULL THEN <<>> ELSE sock[cli]
<1>1. /\ pin \in Seq(Pieces) /\ cin = <<>> /\ s \in Seq(Pieces)
      /\ cli # NULL => cli \in Clients /\ s = sock[cli]
  BY NothingIsSeq DEF IpcInv, TypeOK, BaseInv
<1>2. cli = NULL => Len(s) = 0
  OBVIOUS
<1>e. Len(<<>>) = 0
  OBVIOUS
<1> HIDE DEF s
<1>3. Incoming = pin \o s
  <2>1. Incoming = pin \o <<>> \o s
    BY <1>1 DEF Incoming, s
  <2>2. pin \o <<>> = pin
    BY <1>1, ConcatEmptySeq
  <2> QED BY <2>1, <2>2
<1>4. \/ k \in 1 .. Len(pin) /\ Incoming[k] = pin[k]
      \/ k - Len(pin) \in 1 .. Len(s) /\ Incoming[k] = s[k - Len(pin)]
  BY <1>1, <1>3, ConcatElements
<1>5. CASE k - Len(pin) \in 1 .. Len(s) /\ Incoming[k] = s[k - Len(pin)]
  <2> DEFINE i == k - Len(pin)
  <2>1. i \in 1 .. Len(s) /\ Incoming[k] = s[i]
    BY <1>5
  <2> HIDE DEF i
  <2>2. cli \in Clients /\ s = sock[cli] /\ s # <<>>
    BY <1>1, <1>2, <1>e, <2>1
  <2>3. s[i] = Piece(cli, sent[cli] - Len(sock[cli]) + i)
    BY <2>1, <2>2 DEF IpcInv, PeerInv, StreamInv
  <2>4. s[i][1] = cli
    BY <2>3 DEF Piece
  <2> QED BY <2>1, <2>2, <2>4
<1> QED BY <1>4, <1>5

\* Who has something in the daemon has sent it.
LEMMA StraysHaveSent ==
  ASSUME IpcInv, CtlTypeOK, BaseInv, RequestInv, ~torn, NEW c \in Strays
  PROVE  c \in Clients /\ sent[c] \in Nat /\ sent[c] > 0
<1>0. c \in Clients /\ sent[c] \in Nat /\ sock[c] \in Seq(Pieces) /\ cin = <<>>
  BY DEF Strays, IpcInv, TypeOK, BaseInv
<1>t. taken[c] = sent[c] - Len(sock[c]) /\ taken[c] >= 0 /\ Len(sock[c]) \in Nat
  <2>1. Len(cin) = 0 /\ Len(sock[c]) \in Nat
    BY <1>0
  <2>2. taken[c] = sent[c] - Len(sock[c])
    BY <1>0, <2>1 DEF taken
  <2> QED BY <1>0, <2>1, <2>2 DEF IpcInv, PeerInv, StreamInv
<1>1. CASE sock[c] # <<>>
  <2>1. Len(sock[c]) > 0
    BY <1>0, <1>1
  <2> QED BY <1>0, <1>t, <2>1
<1>2. ASSUME NEW i \in 1 .. Len(pin), pin[i][1] = c PROVE sent[c] > 0
  <2>1. pin[i] \in Pieces
    BY DEF IpcInv, TypeOK
  <2>2. PICK d \in Clients, k \in 1 .. 2 * MaxMsgs : pin[i] = Piece(d, k)
    BY <2>1 DEF Pieces
  <2>3. Num(pin[i]) = k /\ k >= 1
    BY <2>2, PieceParts
  <2>4. Num(pin[i]) <= taken[c]
    BY <1>2 DEF IpcInv, PeerInv, OrderInv
  <2> QED BY <1>0, <1>t, <2>3, <2>4
<1>3. CASE \E k \in 1 .. Len(Incoming) : Incoming[k][1] = c
  BY <1>0, <1>1, <1>2, <1>3, IncomingParts
<1>4. CASE c \in Spent
  BY <1>0, <1>4 DEF Spent
<1>5. ASSUME NEW k \in 1 .. Len(ein), answers[ein[k]] = c PROVE c \in Spent
  <2>1. ein[k] \in 1 .. Len(answers)
    BY DEF IpcInv, DeliveryInv, TypeOK, BaseInv
  <2> QED BY <1>5, <2>1 DEF RequestInv
<1>6. busy # NULL /\ busy[1][1] = c => c \in Spent
  BY DEF RequestInv
<1> QED BY <1>0, <1>3, <1>4, <1>5, <1>6 DEF Strays

\* Every client that ended with a reply has taken the reply to some request, which
\* is then not in the daemon any more.  So the clients that gave up are at least as
\* many as those that have something there and are gone.
LEMMA BacklogHolds ==
  ASSUME IpcInv, CtlTypeOK, BaseInv, RequestInv
  PROVE  BacklogIsBounded
<1> SUFFICES ASSUME ~torn PROVE Cardinality(Strays) <= Cardinality(Abandoned)
  BY DEF BacklogIsBounded
<1> DEFINE R == {c \in Clients : outcome[c] = "reply"}
           src == [c \in R |-> answers[rcv[c][1]]]
           T == {src[c] : c \in R}
<1>1. ASSUME NEW c \in R
      PROVE  /\ c \in Clients /\ 1 \in 1 .. Len(rcv[c])
             /\ rcv[c][1] \in 1 .. Len(answers)
  <2>1. c \in Clients /\ rcv[c] # <<>> /\ rcv[c] \in Seq(1 .. MaxMsgs)
    BY DEF BaseInv, CtlTypeOK, TypeOK
  <2>2. 1 \in 1 .. Len(rcv[c]) /\ rcv[c][1] \in 1 .. MaxMsgs
    BY <2>1
  <2>3. rcv[c][1] <= wrote
    BY <2>1, <2>2 DEF IpcInv, DeliveryInv
  <2>4. wrote = Len(answers) /\ wrote \in Nat
    BY DEF BaseInv, CtlTypeOK, TypeOK
  <2> QED BY <2>1, <2>2, <2>3, <2>4
<1>2. \A n \in 1 .. Len(answers) : answers[n] \in Spent /\ answers[n] \in Clients /\ sent[answers[n]] = 2
  BY DEF RequestInv, Spent
<1>3. ASSUME NEW c \in R, NEW d \in R, src[c] = src[d] PROVE c = d
  <2>1. answers[rcv[c][1]] = answers[rcv[d][1]]
    BY <1>3
  <2>2. rcv[c][1] = rcv[d][1]
    BY <1>1, <2>1 DEF RequestInv
  <2> HIDE DEF R
  <2> QED BY <1>1, <2>2 DEF IpcInv, DeliveryInv, NoClientGetsTwice
<1>4. ASSUME NEW c \in R PROVE src[c] \notin Strays /\ src[c] \in Abandoned \cup R
  <2> DEFINE n == rcv[c][1]
             a == answers[n]
  <2>0. /\ src[c] = a /\ n \in 1 .. Len(answers) /\ c \in Clients /\ 1 \in 1 .. Len(rcv[c])
        /\ outcome[c] = "reply"
    BY <1>1
  <2>1. \A k \in 1 .. Len(ein) : ein[k] # n
    <3>1. \A k \in 1 .. Len(ein) : rcv[c][1] < ein[k]
      BY <2>0 DEF IpcInv, DeliveryInv
    <3>2. \A k \in 1 .. Len(ein) : ein[k] \in Nat
      <4>1. ein \in Seq(1 .. MaxMsgs)
        BY DEF CtlTypeOK, TypeOK
      <4> QED BY <4>1
    <3> QED BY <2>0, <3>1, <3>2
  <2>2. \A d \in Clients : IsIn(n, rcv[d]) => d = c
    BY <2>0 DEF IpcInv, DeliveryInv, NoClientGetsTwice, IsIn
  <2> HIDE DEF R, src, n
  <2>3. a \in Clients /\ a \in Spent /\ sent[a] = 2
    BY <1>2, <2>0
  <2>4. outcome[a] # "none"
    <3>1. outcome[a] = "none" => IsIn(n, ein) \/ IsIn(n, rcv[a])
      BY <2>0 DEF RequestInv
    <3> QED BY <2>0, <2>1, <2>2, <2>3, <3>1 DEF IsIn
  <2>5. outcome[a] \in {"reply", "gaveup"}
    BY <2>3, <2>4 DEF BaseInv, CtlTypeOK
  <2>6. a \notin Strays
    <3>1. \A k \in 1 .. Len(Incoming) : Incoming[k][1] # a
      <4> SUFFICES ASSUME NEW k \in 1 .. Len(Incoming), Incoming[k][1] = a PROVE FALSE
        OBVIOUS
      <4>1. \/ \E i \in 1 .. Len(pin) : Incoming[k] = pin[i]
            \/ sock[Incoming[k][1]] # <<>>
        BY IncomingParts
      <4> HIDE DEF a
      <4> QED BY <2>3, <4>1 DEF Spent
    <3>2. busy # NULL => busy[1][1] # a
      BY <2>0 DEF RequestInv
    <3>3. \A k \in 1 .. Len(ein) : answers[ein[k]] # a
      <4>1. \A k \in 1 .. Len(ein) : ein[k] \in 1 .. Len(answers)
        BY DEF IpcInv, DeliveryInv, TypeOK, BaseInv
      <4> QED BY <2>0, <2>1, <4>1 DEF RequestInv
    <3> HIDE DEF a
    <3> QED BY <3>1, <3>2, <3>3 DEF Strays
  <2>7. a \in Abandoned \/ a \in R
    <3> HIDE DEF a
    <3> QED BY <2>3, <2>5 DEF Abandoned, R
  <2> QED BY <2>0, <2>6, <2>7
<1>5. Strays \subseteq Abandoned \cup R
  <2> SUFFICES ASSUME NEW c \in Strays PROVE c \in Abandoned \/ c \in R
    OBVIOUS
  <2>1. c \in Clients /\ sent[c] > 0 /\ outcome[c] # "none"
    BY StraysHaveSent DEF Strays
  <2>2. outcome[c] \in {"reply", "gaveup"}
    <3>1. outcome[c] \in {"none", "reply", "gaveup", "failed", "silent"} /\ sent[c] \in Nat
      BY <2>1 DEF CtlTypeOK, TypeOK
    <3>2. outcome[c] \in {"failed", "silent"} => sent[c] = 0
      BY <2>1 DEF BaseInv
    <3>3. sent[c] # 0
      BY <2>1, <3>1
    <3> QED BY <2>1, <3>1, <3>2, <3>3
  <2> QED BY <2>1, <2>2 DEF Abandoned
<1>6. /\ R \subseteq Clients /\ Abandoned \subseteq Clients /\ Strays \subseteq Clients
      /\ T \subseteq Clients /\ IsFiniteSet(Clients)
  <2>1. \A c \in R : src[c] \in Clients
    BY <1>1, <1>2
  <2> QED BY <2>1, CtlAssumption DEF Abandoned, Strays
<1>7. src \in Injection(R, T)
  <2>1. src \in [R -> T]
    OBVIOUS
  <2> HIDE DEF R, src, T
  <2> QED BY <1>3, <2>1 DEF Injection, IsInjective
<1>8. Strays \cap T = {} /\ Strays \cup T \subseteq Abandoned \cup R
  BY <1>4, <1>5
<1> HIDE DEF R, src, T
<1>9. /\ IsFiniteSet(R) /\ IsFiniteSet(T) /\ IsFiniteSet(Strays) /\ IsFiniteSet(Abandoned)
  BY <1>6, FS_Subset
<1>10. Cardinality(R) <= Cardinality(T)
  BY <1>7, <1>9, FS_Injection
<1>11. /\ IsFiniteSet(Abandoned \cup R)
       /\ Cardinality(Abandoned \cup R) =
            Cardinality(Abandoned) + Cardinality(R) - Cardinality(Abandoned \cap R)
       /\ Cardinality(Strays \cup T) =
            Cardinality(Strays) + Cardinality(T) - Cardinality(Strays \cap T)
  BY <1>9, FS_Union
<1>12. Cardinality(Strays \cup T) <= Cardinality(Abandoned \cup R)
  BY <1>8, <1>11, FS_Subset
<1>13. Cardinality(Strays \cap T) = 0
  BY <1>8, FS_EmptySet
<1>14. IsFiniteSet(Abandoned \cap R)
  BY <1>9, FS_Intersection
<1>15. /\ Cardinality(R) \in Nat /\ Cardinality(T) \in Nat /\ Cardinality(Strays) \in Nat
       /\ Cardinality(Abandoned) \in Nat /\ Cardinality(Abandoned \cap R) \in Nat
  BY <1>9, <1>14, FS_CardinalityType
<1> QED BY <1>10, <1>11, <1>12, <1>13, <1>15

-----------------------------------------------------------------------------
(* Whose reply a client gets *)

\* As long as nobody gives up nothing is torn, and each client gets its own reply.
OwnInv ==
  Abandoned = {} =>
    /\ ~torn
    /\ \A c \in Clients : rcv[c] # <<>> => Len(rcv[c]) = 1 /\ answers[rcv[c][1]] = c

LEMMA OwnInit == CtlInit => OwnInv
BY DEF CtlInit, Init, OwnInv

\* Who has given up has given up for good.
LEMMA AbandonedStays ==
  ASSUME CtlTypeOK, [CtlNext]_ctlVars
  PROVE  Abandoned \subseteq Abandoned'
<1>0. outcome \in [Clients -> {"none", "reply", "gaveup", "failed", "silent"}]
      /\ sent \in [Clients -> Nat]
  BY DEF CtlTypeOK, TypeOK
<1>1. CASE UNCHANGED <<outcome, sent>>
  BY <1>1 DEF Abandoned
<1>2. ASSUME NEW c \in Clients, WriteRequest(c) PROVE Abandoned \subseteq Abandoned'
  <2>1. sent' = [sent EXCEPT ![c] = sent[c] + 1] /\ outcome' = outcome
    BY <1>2 DEF WriteRequest, ClientWrite
  <2>2. \A d \in Clients : sent[d] > 0 => sent'[d] > 0
    BY <1>0, <2>1
  <2> QED BY <2>1, <2>2 DEF Abandoned
<1>3. ASSUME NEW c \in Clients, NEW how, Ends(c, how) PROVE Abandoned \subseteq Abandoned'
  <2>1. outcome[c] = "none" /\ outcome' = [outcome EXCEPT ![c] = how] /\ sent' = sent
    BY <1>3 DEF Ends, Exit, ClientEnd, vars
  <2> QED BY <1>0, <2>1 DEF Abandoned
<1>4. CASE ReadSome /\ outcome' = outcome
  <2>1. PICK n : Read(n)
    BY <1>4 DEF ReadSome
  <2>2. sent' = sent
    BY <2>1, Zenon DEF Read
  <2> QED BY <1>1, <1>4, <2>2
<1>5. ASSUME outcome' = outcome,
             (\E c \in Clients : Accept(c) \/ Refuse(c)) \/ Eof \/ WriteError \/ OnData \/ UNCHANGED vars
      PROVE  UNCHANGED <<outcome, sent>>
  BY <1>5 DEF Accept, Refuse, Eof, WriteError, OnData, toPeer, vars
<1>6. CASE TakeRequest \/ Reply \/ NoReply
  BY <1>1, <1>6 DEF TakeRequest, Reply, NoReply, PeerRead, PeerWrite, toPeer, vars
<1> QED BY <1>1, <1>2, <1>3, <1>4, <1>5, <1>6, CtlCases

\* While nobody has given up, nothing in the daemon is of a client that is gone.
LEMMA NoStrays ==
  ASSUME IpcInv, CtlTypeOK, BaseInv, RequestInv, OwnInv, Abandoned = {}
  PROVE  Strays = {} /\ ~torn
<1>1. ~torn /\ Cardinality(Strays) <= Cardinality(Abandoned)
  BY BacklogHolds DEF OwnInv, BacklogIsBounded
<1>2. IsFiniteSet(Strays)
  <2>1. Strays \subseteq Clients /\ IsFiniteSet(Clients)
    BY CtlAssumption DEF Strays
  <2> QED BY <2>1, FS_Subset
<1>3. Cardinality(Strays) \in Nat /\ Cardinality(Abandoned) = 0
  BY <1>2, FS_CardinalityType, FS_EmptySet
<1>4. Cardinality(Strays) = 0
  BY <1>1, <1>3
<1> QED BY <1>1, <1>2, <1>4, FS_EmptySet

\* The replies that wait are for the client that is connected, and so is what it
\* wrote.
LEMMA OnlyItsOwn ==
  ASSUME IpcInv, CtlTypeOK, BaseInv, RequestInv, Strays = {}, ~torn
  PROVE  /\ \A k \in 1 .. Len(ein) : ein[k] \in 1 .. Len(answers) /\ answers[ein[k]] = cli
         /\ cli # NULL /\ conn[cli] = "ended" => sock[cli] = <<>>
<1>1. ASSUME NEW k \in 1 .. Len(ein)
      PROVE  ein[k] \in 1 .. Len(answers) /\ answers[ein[k]] = cli
  <2>1. ein[k] \in 1 .. Len(answers)
    BY DEF IpcInv, DeliveryInv, TypeOK, BaseInv
  <2>2. answers[ein[k]] \in Clients /\ sent[answers[ein[k]]] = 2
    BY <2>1 DEF RequestInv, Spent
  <2>3. outcome[answers[ein[k]]] = "none"
    BY <2>2 DEF Strays
  <2> QED BY <2>1, <2>2, <2>3, WhoWaits
<1>2. ASSUME cli # NULL, conn[cli] = "ended", sock[cli] # <<>> PROVE FALSE
  <2>1. cli \in Clients /\ outcome[cli] # "none" /\ pin \in Seq(Pieces) /\ cin = <<>>
        /\ sock[cli] \in Seq(Pieces)
    BY <1>2 DEF IpcInv, TypeOK, BaseInv
  <2>2. Incoming = pin \o sock[cli]
    <3>1. Incoming = pin \o <<>> \o sock[cli]
      BY <1>2, <2>1 DEF Incoming
    <3>2. pin \o <<>> = pin
      BY <2>1, ConcatEmptySeq
    <3> QED BY <3>1, <3>2
  <2> DEFINE k == Len(pin) + 1
  <2>3. Len(pin) \in Nat /\ Len(sock[cli]) \in Nat /\ Len(sock[cli]) >= 1
    BY <1>2, <2>1
  <2>4. /\ Len(Incoming) = Len(pin) + Len(sock[cli])
        /\ \A i \in 1 .. Len(pin) + Len(sock[cli]) : Incoming[i] =
             IF i <= Len(pin) THEN pin[i] ELSE sock[cli][i - Len(pin)]
    BY <2>1, <2>2, ConcatProperties
  <2>5. k \in 1 .. Len(pin) + Len(sock[cli]) /\ ~(k <= Len(pin)) /\ k - Len(pin) = 1
    BY <2>3
  <2> HIDE DEF k
  <2>6. Incoming[k] = sock[cli][1] /\ k \in 1 .. Len(Incoming)
    BY <2>4, <2>5
  <2>7. sock[cli][1] = Piece(cli, sent[cli] - Len(sock[cli]) + 1)
    BY <2>1, <2>3 DEF IpcInv, PeerInv, StreamInv
  <2>8. Incoming[k][1] = cli
    BY <2>6, <2>7 DEF Piece
  <2>9. cli \in Strays
    BY <2>1, <2>6, <2>8 DEF Strays
  <2> QED BY <2>9
<1> QED BY <1>1, <1>2

\* No client ends within its request, or loses a part of it.
LEMMA OwnNotTorn ==
  ASSUME IpcInv, CtlTypeOK, BaseInv, RequestInv, OwnInv, Abandoned = {}, Abandoned' = {},
         [CtlNext]_ctlVars
  PROVE  ~torn'
<1>0. Strays = {} /\ ~torn
  BY NoStrays
<1>1. ASSUME NEW c \in Clients, NEW how \in {"reply", "gaveup", "failed", "silent"}, Ends(c, how)
      PROVE  ~torn'
  <2>1. /\ outcome' = [outcome EXCEPT ![c] = how] /\ sent' = sent
        /\ torn' = torn \/ torn' = (torn \/ sent[c] % 2 = 1)
    BY <1>1 DEF Ends, Exit, ClientEnd, vars
  <2>2. sent[c] \in Nat /\ outcome'[c] = how
    BY <2>1 DEF CtlTypeOK, TypeOK
  <2>3. CASE how = "reply"
    <3>1. rcv[c] # <<>>
      BY <1>1, <2>3 DEF Ends
    <3>2. Len(rcv[c]) = 1 /\ answers[rcv[c][1]] = c
      BY <3>1 DEF OwnInv
    <3>3. rcv[c][1] \in 1 .. Len(answers)
      <4>1. rcv[c] \in Seq(1 .. MaxMsgs) /\ wrote = Len(answers) /\ wrote \in Nat
        BY DEF CtlTypeOK, TypeOK, BaseInv
      <4>2. 1 \in 1 .. Len(rcv[c])
        BY <3>2
      <4>3. rcv[c][1] \in Nat \ {0} /\ rcv[c][1] <= wrote
        BY <4>1, <4>2 DEF IpcInv, DeliveryInv
      <4> QED BY <4>1, <4>3
    <3>4. sent[c] = 2
      BY <1>0, <3>2, <3>3 DEF RequestInv, Spent
    <3>5. ~(sent[c] % 2 = 1)
      BY <3>4
    <3> QED BY <1>0, <2>1, <3>5, Zenon
  <2>4. CASE how # "reply"
    <3>1. sent[c] = 0
      <4>1. how = "gaveup" => sent[c] = 0
        BY <2>1, <2>2 DEF Abandoned
      <4>2. how \in {"failed", "silent"} => sent[c] = 0
        BY <1>1 DEF Ends, BaseInv
      <4> QED BY <2>4, <4>1, <4>2
    <3>2. ~(sent[c] % 2 = 1)
      BY <3>1
    <3> QED BY <1>0, <2>1, <3>2, Zenon
  <2> QED BY <2>3, <2>4
<1>2. CASE WriteError
  <2>1. conn[cli] = "ended" /\ cli # NULL
    BY <1>2 DEF WriteError, IpcInv, ConnInv
  <2>2. cin = <<>> /\ sock[cli] = <<>>
    BY <1>0, <2>1, OnlyItsOwn DEF BaseInv
  <2>3. Len(<<>> \o <<>>) = 0 /\ 0 % 2 = 0
    OBVIOUS
  <2>4. ~(Len(cin \o sock[cli]) % 2 = 1)
    BY <2>2, <2>3
  <2> QED BY <1>0, <1>2, <2>4, Zenon DEF WriteError
<1>3. CASE ReadSome
  <2>1. PICK n : Read(n)
    BY <1>3 DEF ReadSome
  <2> QED BY <1>0, <2>1, Zenon DEF Read
<1>4. CASE Eof \/ OnData \/ TakeRequest \/ Reply \/ NoReply \/ UNCHANGED vars
  BY <1>0, <1>4, Zenon DEF Eof, OnData, TakeRequest, Reply, NoReply, PeerRead, PeerWrite,
                           toPeer, vars
<1>5. ASSUME NEW c \in Clients, Accept(c) \/ Refuse(c) \/ WriteRequest(c) PROVE ~torn'
  BY <1>0, <1>5 DEF Accept, Refuse, WriteRequest, ClientWrite, toPeer
<1> QED BY <1>1, <1>2, <1>3, <1>4, <1>5, CtlCases

\* ipc_on_data gives the connected client one reply, its own.
LEMMA OwnOnData ==
  ASSUME IpcInv, CtlTypeOK, BaseInv, RequestInv, OwnInv, Abandoned = {}, OnData, answers' = answers,
         NEW c \in Clients, rcv'[c] # <<>>
  PROVE  Len(rcv'[c]) = 1 /\ answers[rcv'[c][1]] = c
<1>0. Strays = {} /\ ~torn
  BY NoStrays
<1>1. CASE rcv'[c] = rcv[c]
  BY <1>1 DEF OwnInv
<1>2. CASE rcv'[c] # rcv[c]
  <2>1. rcv \in [Clients -> Seq(1 .. MaxMsgs)] /\ ein \in Seq(1 .. MaxMsgs)
    BY DEF CtlTypeOK, TypeOK
  <2>2. c = cli /\ rcv'[c] = rcv[c] \o ein
    BY <1>2, <2>1 DEF OnData
  <2>3. \A k \in 1 .. Len(ein) : ein[k] \in 1 .. Len(answers) /\ answers[ein[k]] = c
    BY <1>0, <2>2, OnlyItsOwn
  <2>4. ein # <<>>
    BY <1>2, <2>1, <2>2, ConcatEmptySeq
  <2>5. Len(ein) \in Nat /\ Len(ein) >= 1 /\ 1 \in 1 .. Len(ein)
    BY <2>1, <2>4
  <2>6. Len(ein) = 1
    <3>1. ASSUME Len(ein) >= 2 PROVE FALSE
      <4>1. 1 \in 1 .. Len(ein) /\ 2 \in 1 .. Len(ein) /\ 1 < 2
        BY <2>5, <3>1
      <4>2. ein[1] = ein[2]
        BY <1>0, <2>3, <4>1 DEF RequestInv
      <4>3. ein[1] < ein[2] /\ ein[1] \in Nat
        BY <2>3, <4>1 DEF IpcInv, DeliveryInv
      <4> QED BY <4>2, <4>3
    <3>2. Len(ein) \in Nat /\ Len(ein) >= 1
      BY <2>5
    <3>3. \A n \in Nat : n >= 1 /\ ~(n >= 2) => n = 1
      OBVIOUS
    <3> QED BY <3>1, <3>2, <3>3, Zenon
  <2>7. rcv[c] = <<>>
    <3>1. SUFFICES ASSUME rcv[c] # <<>> PROVE FALSE
      OBVIOUS
    <3>2. Len(rcv[c]) = 1 /\ answers[rcv[c][1]] = c /\ 1 \in 1 .. Len(rcv[c])
      BY <3>1 DEF OwnInv
    <3>3. rcv[c][1] <= wrote /\ rcv[c][1] < ein[1]
      BY <2>5, <3>2 DEF IpcInv, DeliveryInv
    <3>4. rcv[c][1] \in 1 .. Len(answers)
      <4>1. wrote = Len(answers) /\ wrote \in Nat /\ rcv[c][1] \in 1 .. MaxMsgs
        <5>1. wrote = Len(answers)
          BY DEF BaseInv
        <5>2. wrote \in Nat
          BY DEF CtlTypeOK, TypeOK
        <5>3. rcv[c] \in Seq(1 .. MaxMsgs)
          BY <2>1
        <5> QED BY <3>2, <5>1, <5>2, <5>3
      <4> QED BY <3>3, <4>1
    <3>5. rcv[c][1] = ein[1]
      BY <1>0, <2>3, <2>5, <3>2, <3>4 DEF RequestInv
    <3> QED BY <3>3, <3>4, <3>5
  <2>8. rcv'[c] = ein
    BY <2>1, <2>2, <2>7, ConcatEmptySeq
  <2> QED BY <2>3, <2>5, <2>6, <2>8
<1> QED BY <1>1, <1>2

LEMMA OwnNext ==
  ASSUME IpcInv, CtlTypeOK, BaseInv, RequestInv, OwnInv, [CtlNext]_ctlVars
  PROVE  OwnInv'
<1>1. SUFFICES ASSUME Abandoned' = {} PROVE OwnInv'
  BY DEF OwnInv
<1>2. Abandoned = {}
  BY <1>1, AbandonedStays
<1>3. ~torn'
  BY <1>1, <1>2, OwnNotTorn
<1> SUFFICES ASSUME NEW c \in Clients, rcv'[c] # <<>>
             PROVE  Len(rcv'[c]) = 1 /\ answers'[rcv'[c][1]] = c
  BY <1>3 DEF OwnInv
<1>4. CASE UNCHANGED <<rcv, answers>>
  BY <1>2, <1>4 DEF OwnInv
<1>5. CASE OnData /\ answers' = answers
  BY <1>2, <1>5, OwnOnData
<1>6. CASE Reply
  <2>1. rcv' = rcv /\ answers' = Append(answers, busy[1][1]) /\ busy # NULL
    BY <1>6 DEF Reply, PeerWrite
  <2>2. Len(rcv[c]) = 1 /\ answers[rcv[c][1]] = c
    BY <1>2, <2>1 DEF OwnInv
  <2>3. /\ answers \in Seq(Clients) /\ rcv[c] \in Seq(1 .. MaxMsgs) /\ busy[1][1] \in Clients
        /\ wrote = Len(answers)
    BY <2>1, BusyClient DEF CtlTypeOK, TypeOK, BaseInv
  <2>4. rcv[c][1] \in 1 .. Len(answers)
    <3>1. 1 \in 1 .. Len(rcv[c])
      BY <2>2
    <3>2. rcv[c][1] <= wrote
      BY <3>1 DEF IpcInv, DeliveryInv
    <3> QED BY <2>3, <3>1, <3>2
  <2>5. answers'[rcv[c][1]] = answers[rcv[c][1]]
    BY <2>1, <2>3, <2>4, AppendProperties
  <2> QED BY <2>1, <2>2, <2>5
<1>7. CASE UNCHANGED <<outcome, printed, busy, answers>> /\ ReadSome
  <2>1. PICK n : Read(n)
    BY <1>7 DEF ReadSome
  <2>2. rcv' = rcv
    BY <2>1, Zenon DEF Read, toClient
  <2> QED BY <1>4, <1>7, <2>2
<1>8. CASE /\ UNCHANGED <<outcome, printed, busy, answers>>
           /\ Eof \/ WriteError \/ UNCHANGED vars
  BY <1>4, <1>8 DEF Eof, WriteError, vars
<1>9. CASE TakeRequest \/ NoReply
  BY <1>4, <1>9 DEF TakeRequest, PeerRead, NoReply, toClient, vars
<1>10. ASSUME NEW d \in Clients,
              \/ (Accept(d) \/ Refuse(d) \/ WriteRequest(d)) /\ answers' = answers
              \/ \E how : Ends(d, how)
       PROVE  UNCHANGED <<rcv, answers>>
  BY <1>10 DEF Accept, Refuse, WriteRequest, ClientWrite, Ends, Exit, ClientEnd, toClient, vars
<1> QED BY <1>4, <1>5, <1>6, <1>7, <1>8, <1>9, <1>10, CtlCases

-----------------------------------------------------------------------------
(* Theorems about the control protocol *)

\* The invariant that every step of the protocol preserves, beside the endpoint's.
CtlInv == CtlTypeOK /\ BaseInv /\ RequestInv /\ OwnInv

LEMMA CtlInvariant == CtlSpec => [](IpcInv /\ CtlInv)
<1>1. CtlInit => CtlInv
  BY CtlTypeInit, BaseInit, RequestInit, OwnInit DEF CtlInv
<1>2. IpcInv /\ CtlInv /\ [CtlNext]_ctlVars => CtlInv'
  <2> SUFFICES ASSUME IpcInv, CtlInv, [CtlNext]_ctlVars PROVE CtlInv'
    OBVIOUS
  <2>1. CtlTypeOK'
    BY CtlTypeNext DEF CtlInv
  <2>2. BaseInv'
    BY <2>1, BaseNext DEF CtlInv, IpcInv
  <2>3. RequestInv' /\ OwnInv'
    BY RequestNext, OwnNext DEF CtlInv
  <2> QED BY <2>1, <2>2, <2>3 DEF CtlInv
<1> QED BY <1>1, <1>2, CtlKeepsIpcInv, PTL DEF CtlSpec

\* The variables of the clients and of process_ctlport keep their types.
THEOREM CtlTypeCorrect == CtlSpec => []CtlTypeOK
<1>1. CtlInv => CtlTypeOK
  BY DEF CtlInv
<1> QED BY <1>1, CtlInvariant, PTL

\* Replies carry no name, and yet every rtemgr prints the reply to its own request,
\* as long as none gives up after it has begun to write.
THEOREM RepliesAreOwn == CtlSpec => []OwnReply
<1>1. CtlInv => OwnReply
  <2> SUFFICES ASSUME CtlInv, Abandoned = {}, NEW c \in Clients, printed[c] # <<>>
               PROVE  Len(printed[c]) = 1 /\ answers[printed[c][1]] = c
    BY DEF OwnReply
  <2>1. Len(printed[c]) \in 1 .. Len(rcv[c]) /\ printed[c][1] = rcv[c][1]
    BY DEF CtlInv, BaseInv
  <2>2. rcv[c] # <<>>
    <3>1. Len(<<>>) = 0
      OBVIOUS
    <3> QED BY <2>1, <3>1
  <2>3. Len(rcv[c]) = 1 /\ answers[rcv[c][1]] = c
    BY <2>2 DEF CtlInv, OwnInv
  <2> QED BY <2>1, <2>3
<1> QED BY <1>1, CtlInvariant, PTL

\* However many clients come and go, what timeouts leave in the daemon never grows
\* beyond one request or reply for each client that gave up.
THEOREM BacklogBounded == CtlSpec => []BacklogIsBounded
<1>1. IpcInv /\ CtlInv => BacklogIsBounded
  BY BacklogHolds DEF CtlInv
<1> QED BY <1>1, CtlInvariant, PTL

=============================================================================
