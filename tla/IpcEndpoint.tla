---------------------------- MODULE IpcEndpoint ----------------------------
(***************************************************************************)
(* The IPC/INET endpoint of ep_ipc.c between the client processes that     *)
(* connect to its socket and the endpoint it is bound to (the peer).       *)
(*                                                                         *)
(*   client --sock--> cin --read_cb--> pin --PeerRead--> got               *)
(*   rcv <-- ipc_on_data -- ein <-- PeerWrite                              *)
(*                                                                         *)
(* cin is the input buffer of the accepted connection, pin and ein are the *)
(* input buffers of the two ends of the bufferevent pair.  The endpoint    *)
(* copies bytes and does not look at frames, so a message is two pieces,   *)
(* <<client, number, 1>> and <<client, number, 2>>, and a client may end   *)
(* after writing the first.  The peer reads frames as rteipc_msg_drain     *)
(* does: always two pieces.  The callbacks of one event loop do not        *)
(* overlap: each is one action.                                            *)
(***************************************************************************)
EXTENDS Integers, Sequences

CONSTANTS
  Clients,    \* the client processes, each connects once
  NULL,
  MaxMsgs     \* bound: messages of each client, and of the peer

ASSUME IpcAssumption == NULL \notin Clients /\ MaxMsgs \in Nat

VARIABLES
  opened,     \* the endpoint exists
  bound,      \* self->bev is set
  listening,  \* listen_cb is installed
  cli,        \* data->cli, NULL for none
  conn,       \* each client: "new", "up", "refused" or "ended"
  sent,       \* pieces that each client has written
  sock,       \* pieces in the socket of each client
  cin,        \* pieces in the input of data->cli
  pin,        \* pieces in the peer's input
  got,        \* frames that the peer has read, pairs of pieces
  wrote,      \* messages the peer has written
  ein,        \* messages in the endpoint's own input
  sched,      \* ipc_on_data is scheduled
  rcv,        \* messages given to each client
  werr,       \* a write to data->cli has failed
  torn        \* history: a connection, or the pair, ended within a message

vars == <<opened, bound, listening, cli, conn, sent, sock, cin, pin, got,
          wrote, ein, sched, rcv, werr, torn>>

toPeer == <<sent, sock, cin, pin, got, torn>>
toClient == <<wrote, ein, sched, rcv, werr>>

\* The k-th piece that client c writes.
Piece(c, k) == <<c, (k + 1) \div 2, 2 - (k % 2)>>
Pieces == {Piece(c, k) : c \in Clients, k \in 1 .. 2 * MaxMsgs}

\* ipc_open, followed at once by rteipc_bind or not.
Init ==
  /\ opened = TRUE
  /\ bound \in BOOLEAN
  /\ listening = TRUE
  /\ cli = NULL
  /\ conn = [c \in Clients |-> "new"]
  /\ sent = [c \in Clients |-> 0]
  /\ sock = [c \in Clients |-> <<>>]
  /\ cin = <<>> /\ pin = <<>> /\ got = <<>>
  /\ wrote = 0 /\ ein = <<>> /\ sched = FALSE
  /\ rcv = [c \in Clients |-> <<>>]
  /\ werr = FALSE
  /\ torn = FALSE

-----------------------------------------------------------------------------
(* The clients *)

\* Mutant: listen_cb stays installed.
AcceptKeepsListening(c) ==
  /\ opened /\ listening /\ conn[c] = "new"
  /\ conn' = [conn EXCEPT ![c] = "up"]
  /\ cli' = c
  /\ sched' = (sched \/ (bound /\ ein # <<>>))
  /\ UNCHANGED <<opened, bound, listening, wrote, ein, rcv, werr, toPeer>>

\* Mutant: listen_cb does not flush.
AcceptNoFlush(c) ==
  /\ opened /\ listening /\ conn[c] = "new"
  /\ conn' = [conn EXCEPT ![c] = "up"]
  /\ cli' = c
  /\ listening' = FALSE
  /\ UNCHANGED <<opened, bound, toClient, toPeer>>

\* A client connects; listen_cb takes it, stops accepting, and flushes what
\* the peer has stored.
Accept(c) ==
  /\ opened /\ listening /\ conn[c] = "new"
  /\ conn' = [conn EXCEPT ![c] = "up"]
  /\ cli' = c
  /\ listening' = FALSE
  /\ sched' = (sched \/ (bound /\ ein # <<>>))
  /\ UNCHANGED <<opened, bound, wrote, ein, rcv, werr, toPeer>>

\* A client connects while listen_cb is not installed: the listener closes it.
Refuse(c) ==
  /\ opened /\ ~listening /\ conn[c] = "new"
  /\ conn' = [conn EXCEPT ![c] = "refused"]
  /\ UNCHANGED <<opened, bound, listening, cli, toPeer, toClient>>

\* A connected client writes the next piece of its stream.
ClientWrite(c) ==
  /\ conn[c] = "up" /\ sent[c] < 2 * MaxMsgs
  /\ sent' = [sent EXCEPT ![c] = @ + 1]
  /\ sock' = [sock EXCEPT ![c] = Append(@, Piece(c, sent[c] + 1))]
  /\ UNCHANGED <<opened, bound, listening, cli, conn, cin, pin, got, torn, toClient>>

\* A client exits or crashes.
ClientEnd(c) ==
  /\ conn[c] = "up"
  /\ conn' = [conn EXCEPT ![c] = "ended"]
  /\ torn' = (torn \/ sent[c] % 2 = 1)
  /\ UNCHANGED <<opened, bound, listening, cli, sent, sock, cin, pin, got, toClient>>

-----------------------------------------------------------------------------
(* The endpoint *)

\* Mutant: read_cb drops what the peer has not read.
ReadReplaces(n) ==
  /\ cli # NULL
  /\ LET in == cin \o SubSeq(sock[cli], 1, n) IN
       \/ bound /\ pin' = in /\ cin' = <<>>
       \/ ~bound /\ cin' = in /\ UNCHANGED pin
  /\ sock' = [sock EXCEPT ![cli] = SubSeq(@, n + 1, Len(@))]
  /\ UNCHANGED <<opened, bound, listening, cli, conn, sent, got, torn, toClient>>

\* The event loop reads n pieces from the socket and calls read_cb, which
\* moves the input to the peer when the endpoint is bound.
Read(n) ==
  /\ cli # NULL
  /\ LET in == cin \o SubSeq(sock[cli], 1, n) IN
       \/ bound /\ pin' = pin \o in /\ cin' = <<>>
       \/ ~bound /\ cin' = in /\ UNCHANGED pin
  /\ sock' = [sock EXCEPT ![cli] = SubSeq(@, n + 1, Len(@))]
  /\ UNCHANGED <<opened, bound, listening, cli, conn, sent, got, torn, toClient>>

\* event_cb frees the connection with its input and accepts again.
FreeConnection ==
  /\ cli' = NULL
  /\ cin' = <<>>
  /\ listening' = TRUE
  /\ werr' = FALSE

\* event_cb at the end of the stream.
Eof ==
  /\ cli # NULL /\ conn[cli] = "ended" /\ sock[cli] = <<>>
  /\ FreeConnection
  /\ UNCHANGED <<opened, bound, conn, sent, sock, pin, got, torn, wrote, ein, sched, rcv>>

\* event_cb after a write has failed: what the client wrote before it ended
\* and the endpoint has not read is lost, too.
WriteError ==
  /\ cli # NULL /\ werr
  /\ FreeConnection
  /\ sock' = [sock EXCEPT ![cli] = <<>>]
  /\ torn' = (torn \/ Len(cin \o sock[cli]) % 2 = 1)
  /\ UNCHANGED <<opened, bound, conn, sent, pin, got, wrote, ein, sched, rcv>>

\* Mutant: the data is copied and not removed.
OnDataCopies ==
  /\ sched
  /\ sched' = FALSE
  /\ \/ cli = NULL /\ UNCHANGED <<ein, rcv, werr>>
     \/ /\ cli # NULL
        /\ werr' = (werr \/ (conn[cli] = "ended" /\ ein # <<>>))
        /\ rcv' = IF conn[cli] = "up" THEN [rcv EXCEPT ![cli] = @ \o ein] ELSE rcv
        /\ UNCHANGED ein
  /\ UNCHANGED <<opened, bound, listening, cli, conn, toPeer, wrote>>

\* ipc_on_data moves what the peer wrote to the client, or leaves it when
\* there is none.  A client that has ended does not get it: the write fails.
OnData ==
  /\ sched
  /\ sched' = FALSE
  /\ \/ cli = NULL /\ UNCHANGED <<ein, rcv, werr>>
     \/ /\ cli # NULL
        /\ werr' = (werr \/ (conn[cli] = "ended" /\ ein # <<>>))
        /\ ein' = <<>>
        /\ rcv' = IF conn[cli] = "up" THEN [rcv EXCEPT ![cli] = @ \o ein] ELSE rcv
  /\ UNCHANGED <<opened, bound, listening, cli, conn, toPeer, wrote>>

-----------------------------------------------------------------------------
(* The peer and the owner of the endpoint *)

PeerWrite ==
  /\ bound /\ wrote < MaxMsgs
  /\ wrote' = wrote + 1
  /\ ein' = Append(ein, wrote + 1)
  /\ sched' = TRUE
  /\ UNCHANGED <<opened, bound, listening, cli, conn, rcv, werr, toPeer>>

PeerRead ==
  /\ bound /\ Len(pin) >= 2
  /\ got' = Append(got, <<pin[1], pin[2]>>)
  /\ pin' = SubSeq(pin, 3, Len(pin))
  /\ UNCHANGED <<opened, bound, listening, cli, conn, sent, sock, cin, torn, toClient>>

\* rteipc_bind.
Bind ==
  /\ opened /\ ~bound
  /\ bound' = TRUE
  /\ UNCHANGED <<opened, listening, cli, conn, toPeer, toClient>>

\* rteipc_unbind frees the pair with what its buffers hold.
DropPair ==
  /\ bound' = FALSE
  /\ pin' = <<>> /\ ein' = <<>> /\ sched' = FALSE
  /\ torn' = (torn \/ Len(pin) % 2 = 1)

Unbind ==
  /\ bound
  /\ DropPair
  /\ UNCHANGED <<opened, listening, cli, conn, sent, sock, cin, got, wrote, rcv, werr>>

\* rteipc_close: ipc_close frees the connection and the listener, then the
\* endpoint is unbound.
Close ==
  /\ opened
  /\ opened' = FALSE
  /\ listening' = FALSE
  /\ cli' = NULL
  /\ cin' = <<>>
  /\ werr' = FALSE
  /\ sock' = [c \in Clients |-> <<>>]
  /\ conn' = [c \in Clients |-> IF conn[c] = "up" THEN "ended" ELSE conn[c]]
  /\ DropPair
  /\ UNCHANGED <<sent, got, wrote, rcv>>

ReadSome == cli # NULL /\ \E n \in 1 .. Len(sock[cli]) : Read(n)

Next ==
  \/ \E c \in Clients : Accept(c) \/ Refuse(c) \/ ClientWrite(c) \/ ClientEnd(c)
  \/ ReadSome \/ Eof \/ WriteError \/ OnData
  \/ PeerWrite \/ PeerRead
  \/ Bind \/ Unbind \/ Close

\* The event loop serves the socket, the end of a connection and the scheduled
\* callbacks; the peer's reader is such a callback.  Clients and the owner of
\* the endpoint may stop at any time.
Fairness == WF_vars(ReadSome) /\ WF_vars(Eof) /\ WF_vars(OnData) /\ WF_vars(PeerRead)

Spec == Init /\ [][Next]_vars
FairSpec == Spec /\ Fairness

-----------------------------------------------------------------------------
(* Properties *)

\* The variables have their types.
TypeOK ==
  /\ {opened, bound, listening, sched, werr, torn} \subseteq BOOLEAN
  /\ cli \in Clients \cup {NULL}
  /\ conn \in [Clients -> {"new", "up", "refused", "ended"}]
  /\ sent \in [Clients -> 0 .. 2 * MaxMsgs]
  /\ sock \in [Clients -> Seq(Pieces)]
  /\ cin \in Seq(Pieces) /\ pin \in Seq(Pieces)
  /\ got \in Seq(Pieces \X Pieces)
  /\ wrote \in 0 .. MaxMsgs
  /\ ein \in Seq(1 .. MaxMsgs)
  /\ rcv \in [Clients -> Seq(1 .. MaxMsgs)]

\* "accept only one connection" (listen_cb): while the endpoint is open it
\* accepts exactly when it has no connection, and only its connection can be
\* up.
OneConnection ==
  /\ opened => (listening <=> cli = NULL)
  /\ \A c \in Clients : conn[c] = "up" => cli = c

\* As long as connections and bindings end between two messages, each frame
\* that the peer reads is one whole message of one client, and each client's
\* messages are read in order.
FramesAreWhole ==
  ~torn =>
    /\ \A k \in 1 .. Len(got) :
         /\ got[k][1][1] = got[k][2][1] /\ got[k][1][2] = got[k][2][2]
         /\ got[k][1][3] = 1 /\ got[k][2][3] = 2
    /\ \A j, k \in 1 .. Len(got) :
         j < k /\ got[j][1][1] = got[k][1][1] => got[j][1][2] < got[k][1][2]

\* What the peer writes reaches the clients in order and at most once, and no
\* client gets anything after it was replaced.
NoClientGetsTwice ==
  /\ \A c \in Clients : \A j, k \in 1 .. Len(rcv[c]) :
       j < k => rcv[c][j] < rcv[c][k]
  /\ \A c, d \in Clients : c # d =>
       \A j \in 1 .. Len(rcv[c]), k \in 1 .. Len(rcv[d]) : rcv[c][j] # rcv[d][k]

\* What the peer has written, and a client that stays connected, meet: the
\* endpoint's input does not keep data forever while a client is there.
StoredDataReachesClient ==
  [](bound /\ cli # NULL /\ ein # <<>> => <>(ein = <<>> \/ cli = NULL))

\* What a client has stored is available to the endpoint's partner: data that
\* comes from a client of a bound endpoint leaves the connection's buffers,
\* together with all that came before it.  (Data that came before the binding
\* waits for such data: read_cb leaves it, and nothing moves it when the
\* binding comes.)
StoredDataReachesPeer ==
  [](bound /\ cli # NULL /\ sock[cli] # <<>>
       => <>(~bound \/ cli = NULL \/ (cin = <<>> /\ sock[cli] = <<>>)))

\* In both directions, what listen_cb, read_cb and ipc_on_data leave in a buffer
\* is not kept forever.
StoredDataArrives == StoredDataReachesClient /\ StoredDataReachesPeer

=============================================================================
