---------------------------- MODULE CtlProtocol ----------------------------
(***************************************************************************)
(* Commands from end to end: rtemgr processes (rtemgr.c), the control      *)
(* port of the daemon, which is an IPC endpoint, and process_ctlport of    *)
(* rtemgrd.c as the endpoint's peer.                                       *)
(*                                                                         *)
(* Every rtemgr connects, writes one request, and ends with the first      *)
(* reply that comes, whoever asked for it: nothing in a reply says which   *)
(* request it answers.  It may end earlier, by its timer of 10 seconds or  *)
(* because it is killed.  The daemon is one thread, so while it is in      *)
(* process_ctlport (busy) the endpoint stands still and only clients move. *)
(*                                                                         *)
(* The steps of the endpoint are those of IpcEndpoint, which this module   *)
(* extends; the endpoint stays bound and open.  The n-th reply is the      *)
(* number n of IpcEndpoint, and answers[n] says whose request it answers.  *)
(* What the commands do is in RteMgrd.                                     *)
(***************************************************************************)
EXTENDS IpcEndpoint, FiniteSets

CONSTANT
  Unanswered   \* clients to whose request rtemgr_data_emit fails (a reply of
               \* more than 4096 bytes)

ASSUME CtlAssumption ==
  /\ IsFiniteSet(Clients)
  /\ MaxMsgs >= Cardinality(Clients)
  /\ Unanswered \subseteq Clients

VARIABLES
  outcome,     \* how each rtemgr ended: "none" (it has not), "reply", "gaveup"
               \* (its timer, or killed), "failed" (its request is too large)
               \* or "silent" (the connection was closed)
  printed,     \* the replies that each rtemgr has printed
  busy,        \* the request that process_ctlport works on, NULL for none
  answers      \* the client whose request the n-th reply answers

ctlVars == <<vars, outcome, printed, busy, answers>>

\* rtemgrd has built its control interface and serves its event loop.
CtlInit ==
  /\ Init /\ bound
  /\ outcome = [c \in Clients |-> "none"]
  /\ printed = [c \in Clients |-> <<>>]
  /\ busy = NULL
  /\ answers = <<>>

-----------------------------------------------------------------------------
(* rtemgr *)

\* rteipc_connect, and the daemon accepts the connection or closes it.  (A client
\* that ends before it is accepted is like one that ends right after.)
Connect(c) ==
  /\ busy = NULL
  /\ Accept(c) \/ Refuse(c)
  /\ UNCHANGED <<outcome, printed, busy, answers>>

\* rteipc_send, whose bytes the client's event loop writes.
WriteRequest(c) ==
  /\ outcome[c] = "none" /\ sent[c] < 2
  /\ ClientWrite(c)
  /\ UNCHANGED <<outcome, printed, busy, answers>>

\* The process of client c ends.
Exit(c, how) ==
  /\ outcome[c] = "none"
  /\ outcome' = [outcome EXCEPT ![c] = how]
  /\ IF conn[c] = "up" THEN ClientEnd(c) ELSE UNCHANGED vars
  /\ UNCHANGED <<busy, answers>>

\* Mutant: it ends after it has sent its request.
EmitFailsLate(c) ==
  /\ conn[c] = "up" /\ sent[c] = 2
  /\ Exit(c, "failed")
  /\ UNCHANGED printed

\* "Failed to emit data": the request does not fit the buffer.
EmitFails(c) ==
  /\ conn[c] = "up" /\ sent[c] = 0
  /\ Exit(c, "failed")
  /\ UNCHANGED printed

\* reply_callback, called for every reply that has arrived: connect_read_cb
\* goes on draining after event_base_loopbreak.
Receive(c, n) ==
  /\ conn[c] = "up"
  /\ n \in 1 .. Len(rcv[c])
  /\ Exit(c, "reply")
  /\ printed' = [printed EXCEPT ![c] = SubSeq(rcv[c], 1, n)]

\* timeout_handler, or a signal.
GiveUp(c) ==
  /\ conn[c] \in {"up", "refused"}
  /\ Exit(c, "gaveup")
  /\ UNCHANGED printed

\* connect_event_cb breaks the event loop; there is no error callback, so
\* nothing is printed.
Hangup(c) ==
  /\ conn[c] = "refused"
  /\ Exit(c, "silent")
  /\ UNCHANGED printed

-----------------------------------------------------------------------------
(* The daemon *)

\* The event loop serves the endpoint.
EndpointStep ==
  /\ busy = NULL
  /\ ReadSome \/ Eof \/ WriteError \/ OnData
  /\ UNCHANGED <<outcome, printed, busy, answers>>

\* loop_on_data drains a request and process_ctlport begins.
TakeRequest ==
  /\ busy = NULL
  /\ PeerRead
  /\ busy' = <<pin[1], pin[2]>>
  /\ UNCHANGED <<outcome, printed, answers>>

\* The frame is one request.  Other frames may or may not be parsed.
Whole(f) == f[1][1] = f[2][1] /\ f[1][3] = 1 /\ f[2][3] = 2

\* rteipc_xfer of the reply.
Reply ==
  /\ busy # NULL
  /\ busy[1][1] \notin Unanswered \/ ~Whole(busy)
  /\ PeerWrite
  /\ answers' = Append(answers, busy[1][1])
  /\ busy' = NULL
  /\ UNCHANGED <<outcome, printed>>

\* Mutant: a command that fails is not replied to.
NoReplyAlways ==
  /\ busy # NULL
  /\ busy' = NULL
  /\ UNCHANGED <<vars, outcome, printed, answers>>

\* rtemgr_data_parse or rtemgr_data_emit fails: there is no reply.
NoReply ==
  /\ busy # NULL
  /\ busy[1][1] \in Unanswered \/ ~Whole(busy)
  /\ busy' = NULL
  /\ UNCHANGED <<vars, outcome, printed, answers>>

ReceiveSome(c) == \E n \in 1 .. Len(rcv[c]) : Receive(c, n)

CtlNext ==
  \/ \E c \in Clients : \/ Connect(c) \/ WriteRequest(c) \/ EmitFails(c)
                        \/ ReceiveSome(c) \/ GiveUp(c) \/ Hangup(c)
  \/ EndpointStep \/ TakeRequest \/ Reply \/ NoReply

\* The event loops of the daemon and of the clients run.  No client is obliged
\* to connect, and the timer is not counted on: it is what must not be needed.
CtlFairness ==
  /\ WF_ctlVars(EndpointStep) /\ WF_ctlVars(TakeRequest) /\ WF_ctlVars(Reply \/ NoReply)
  /\ \A c \in Clients : /\ WF_ctlVars(WriteRequest(c))
                        /\ WF_ctlVars(ReceiveSome(c))
                        /\ WF_ctlVars(Hangup(c))

CtlSpec == CtlInit /\ [][CtlNext]_ctlVars
CtlFairSpec == CtlSpec /\ CtlFairness

-----------------------------------------------------------------------------
(* Properties *)

\* The variables have their types.
CtlTypeOK ==
  /\ TypeOK
  /\ outcome \in [Clients -> {"none", "reply", "gaveup", "failed", "silent"}]
  /\ printed \in [Clients -> Seq(1 .. MaxMsgs)]
  /\ busy \in (Pieces \X Pieces) \cup {NULL}
  /\ answers \in Seq(Clients)

\* Clients that gave up after some of their request was written.
Abandoned == {c \in Clients : outcome[c] = "gaveup" /\ sent[c] > 0}

\* As long as no client gives up once it has written, every rtemgr that prints
\* a reply prints one reply, the one to its own request.  (After one gave up,
\* its reply may wait in the endpoint for the next client.)
OwnReply ==
  Abandoned = {} =>
    \A c \in Clients : printed[c] # <<>> =>
      Len(printed[c]) = 1 /\ answers[printed[c][1]] = c

\* The pieces of requests on the way to process_ctlport.
Incoming == pin \o cin \o (IF cli = NULL THEN <<>> ELSE sock[cli])

\* What is in the daemon, and not of the client it is connected to.
Strays ==
  {c \in Clients : outcome[c] # "none"
     /\ \/ \E k \in 1 .. Len(Incoming) : Incoming[k][1] = c
        \/ busy # NULL /\ busy[1][1] = c
        \/ \E k \in 1 .. Len(ein) : answers[ein[k]] = c}

\* A client that gives up leaves at most one reply behind.  The replies are then
\* off by that many for the clients that follow, but never by more: the client
\* that prints the reply of another leaves its own in exchange.
BacklogIsBounded ==
  ~torn => Cardinality(Strays) <= Cardinality(Abandoned)

\* A client that the daemon has accepted does not need its timer: some reply
\* comes, unless its own was not emitted or a request was torn.
Answered ==
  \A c \in Clients :
    [](conn[c] = "up" => <>(outcome[c] # "none" \/ c \in Unanswered \/ torn))

=============================================================================
