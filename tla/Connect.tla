------------------------------ MODULE Connect ------------------------------
(***************************************************************************)
(* The client side of connect.c: connections, the callbacks of their       *)
(* users, and ctx_mutex, over the descriptor table ctx_tbl.                *)
(*                                                                         *)
(* Each thread has an event loop of its own (__base is thread-local); the  *)
(* table and the mutex are shared by all threads.  A connection is a heap  *)
(* object (struct rteipc_ctx) at an address of Values, with a bufferevent  *)
(* on the loop of the thread that connected.  ctx_mutex is held while a    *)
(* user's callback runs, and only then longer than one step: it is free    *)
(* when cbk is NoCall for every thread.  rteipc_send and rteipc_evsend do  *)
(* not take it.                                                            *)
(*                                                                         *)
(* A user's callback may call the API again, so a thread has a callback    *)
(* that is running, cbk, and a call of the library in progress, call.      *)
(* Races on the contents of a bufferevent are left out; its lifetime and   *)
(* the lifetime of the connection are modelled.                            *)
(***************************************************************************)
EXTENDS DescTable, FiniteSets

CONSTANTS
  Threads,
  MaxMsgs,   \* bound: messages that wait in a connection
  Uses       \* what the users do: "share" the connections of other threads, use
             \* an "invalid" id, one that has no connection yet or any more,
             \* "reenter" the mutex from a callback, let events come too "early",
             \* before rteipc_setcb, connect in "vain"

ASSUME UsesAssumption == Uses \subseteq {"share", "invalid", "reenter", "early", "vain"}
ASSUME MaxMsgsAssumption == MaxMsgs \in Nat

VARIABLES
  live,      \* the allocated contexts
  ctx,       \* their contents
  inbox,     \* messages that wait in the socket of each connection
  call,      \* the call of the library that each thread is in
  cbk,       \* the user's callback that each thread is in
  serving,   \* the threads whose event loop runs
  fds,       \* the ids that rteipc_connect has returned, of connections that
             \* have not ended
  status,    \* "running", or "undefined" once freed or uninitialised memory
             \* was used
  used       \* history: which of Uses have happened

conVars == <<live, ctx, inbox, call, cbk, serving, fds, status, used>>
vars == <<hasdesc, desc, next_entry, entries, live, ctx, inbox, call, cbk,
          serving, fds, status, used>>

Call == [op : {"none", "connect", "socket", "event", "read", "send", "setcb"},
         id : Ids \cup {-1}, ptr : Values \cup {NULL}, left : 0 .. MaxMsgs]
NoCall == [op |-> "none", id |-> -1, ptr |-> NULL, left |-> 0]

\* Which of read_cb and err_cb rteipc_setcb has set, the others are NULL.
Callbacks == {"none", "read", "err", "both"}

Context == [thread : Threads \cup {NULL}, id : Ids \cup {-1}, bev : {"open", "freed"},
            cb : Callbacks \cup {"uninitialised"}]

\* The contents of memory that is not allocated, which no action reads.
Blank == [thread |-> NULL, id |-> -1, bev |-> "freed", cb |-> "none"]

Init ==
  /\ DtblInit
  /\ live = {}
  /\ ctx = [c \in Values |-> Blank]
  /\ inbox = [c \in Values |-> 0]
  /\ call = [t \in Threads |-> NoCall]
  /\ cbk = [t \in Threads |-> NoCall]
  /\ serving = {}
  /\ fds = {}
  /\ status = "running"
  /\ used = {}

\* Thread t is in the user's code: between calls of the API, or in a callback.
InUser(t) == status = "running" /\ call[t] = NoCall

\* Thread t is in the library, at op.
At(t, op) == status = "running" /\ call[t].op = op

\* pthread_mutex_lock succeeds.
LockFree == \A t \in Threads : cbk[t] = NoCall

\* A call that takes the mutex while the thread holds it.
Reenters(t) == IF cbk[t] # NoCall THEN {"reenter"} ELSE {}

\* Freed or uninitialised memory is used.
Undefined ==
  /\ status' = "undefined"
  /\ UNCHANGED <<dtblVars, live, ctx, inbox, call, cbk, serving, fds, used>>

-----------------------------------------------------------------------------
(* rteipc_connect *)

\* Up to the lock.  malloc leaves the callbacks uninitialised.  (A call that
\* fails before changes nothing.)
Connect(t, c) ==
  /\ InUser(t) /\ c \notin live
  /\ Reenters(t) \subseteq Uses
  /\ Len(entries) + Cardinality({u \in Threads : call[u].op = "connect"}) < MaxSets
  /\ live' = live \cup {c}
  /\ ctx' = [ctx EXCEPT ![c] = [thread |-> t, id |-> -1, bev |-> "open",
                                cb |-> "uninitialised"]]
  /\ inbox' = [inbox EXCEPT ![c] = 0]
  /\ call' = [call EXCEPT ![t] = [NoCall EXCEPT !.op = "connect", !.ptr = c]]
  /\ used' = used \cup Reenters(t)
  /\ UNCHANGED <<dtblVars, cbk, serving, fds, status>>

\* The section under the lock: the context gets its id.
ConnectRegister(t) ==
  /\ At(t, "connect") /\ LockFree
  /\ LET c == call[t].ptr IN
     \E id \in Ids :
       /\ DtblSet(c, id)
       /\ ctx' = [ctx EXCEPT ![c].id = id]
       /\ call' = [call EXCEPT ![t].op = "socket", ![t].id = id]
  /\ UNCHANGED <<live, inbox, cbk, serving, fds, status, used>>

\* dtbl_set fails.
ConnectFull(t) ==
  /\ At(t, "connect") /\ LockFree
  /\ DtblSetFull
  /\ live' = live \ {call[t].ptr}
  /\ ctx' = [ctx EXCEPT ![call[t].ptr] = Blank]
  /\ call' = [call EXCEPT ![t] = NoCall]
  /\ UNCHANGED <<inbox, cbk, serving, fds, status, used>>

\* bufferevent_socket_connect succeeds, or is under way.
ConnectReturns(t) ==
  /\ At(t, "socket")
  /\ fds' = fds \cup {call[t].id}
  /\ call' = [call EXCEPT ![t] = NoCall]
  /\ UNCHANGED <<dtblVars, live, ctx, inbox, cbk, serving, status, used>>

\* bufferevent_socket_connect fails: it calls connect_event_cb, which frees
\* the context, and rteipc_connect returns -1.
ConnectFails(t) ==
  /\ At(t, "socket") /\ "vain" \in Uses
  /\ call' = [call EXCEPT ![t].op = "event"]
  /\ used' = used \cup {"vain"}
  /\ UNCHANGED <<dtblVars, live, ctx, inbox, cbk, serving, fds, status>>

-----------------------------------------------------------------------------
(* connect_event_cb and connect_read_cb *)

\* The event loop of thread t may call a callback of connection c.
Dispatches(t, c) ==
  /\ InUser(t) /\ cbk[t] = NoCall /\ t \in serving
  /\ c \in live /\ ctx[c].thread = t /\ ctx[c].id \in fds /\ ctx[c].bev = "open"
  /\ ctx[c].cb = "uninitialised" => "early" \in Uses

Early(c) == IF ctx[c].cb = "uninitialised" THEN {"early"} ELSE {}

\* The end of the connection c, or an error, is reported.
Event(t, c) ==
  /\ Dispatches(t, c)
  /\ call' = [call EXCEPT ![t] = [NoCall EXCEPT !.op = "event", !.id = ctx[c].id,
                                                !.ptr = c]]
  /\ used' = used \cup Early(c)
  /\ UNCHANGED <<dtblVars, live, ctx, inbox, cbk, serving, fds, status>>

\* connect_event_cb has no callback to call: it frees the context and breaks
\* the event loop.
EventQuiet(t) ==
  /\ At(t, "event") /\ LockFree
  /\ LET p == Get(call[t].id) IN
       /\ p \in live /\ ctx[p].cb \notin {"err", "both"}
       /\ live' = live \ {p}
       /\ ctx' = [ctx EXCEPT ![call[t].ptr].bev = "freed", ![p] = Blank]
  /\ DtblDel(call[t].id)
  /\ fds' = fds \ {call[t].id}
  /\ serving' = serving \ {t}
  /\ call' = [call EXCEPT ![t] = NoCall]
  /\ UNCHANGED <<inbox, cbk, status, used>>

\* connect_event_cb calls err_cb under the lock, after it has freed the
\* bufferevent and given the id back.
EventCalls(t) ==
  /\ At(t, "event") /\ LockFree
  /\ LET p == Get(call[t].id) IN
       /\ p \in live /\ ctx[p].cb \in {"err", "both"}
       /\ cbk' = [cbk EXCEPT ![t] = [call[t] EXCEPT !.ptr = p]]
  /\ DtblDel(call[t].id)
  /\ ctx' = [ctx EXCEPT ![call[t].ptr].bev = "freed"]
  /\ fds' = fds \ {call[t].id}
  /\ call' = [call EXCEPT ![t] = NoCall]
  /\ UNCHANGED <<live, inbox, serving, status, used>>

\* Mutant: the context is not freed.
EventReturnsLeaks(t) ==
  /\ InUser(t) /\ cbk[t].op = "event"
  /\ serving' = serving \ {t}
  /\ cbk' = [cbk EXCEPT ![t] = NoCall]
  /\ UNCHANGED <<dtblVars, live, ctx, inbox, call, fds, status, used>>

\* err_cb returns.
EventReturns(t) ==
  /\ InUser(t) /\ cbk[t].op = "event"
  /\ live' = live \ {cbk[t].ptr}
  /\ ctx' = [ctx EXCEPT ![cbk[t].ptr] = Blank]
  /\ serving' = serving \ {t}
  /\ cbk' = [cbk EXCEPT ![t] = NoCall]
  /\ UNCHANGED <<dtblVars, inbox, call, fds, status, used>>

\* The event loop has read n messages of connection c.
Readable(t, c, n) ==
  /\ Dispatches(t, c)
  /\ inbox' = [inbox EXCEPT ![c] = @ - n]
  /\ call' = [call EXCEPT ![t] = [op |-> "read", id |-> ctx[c].id, ptr |-> c, left |-> n]]
  /\ used' = used \cup Early(c)
  /\ UNCHANGED <<dtblVars, live, ctx, cbk, serving, fds, status>>

\* Mutant: the mutex is not locked.
ReadCallsUnlocked(t) ==
  /\ At(t, "read")
  /\ LET p == Get(call[t].id) IN
       /\ p \in live /\ ctx[p].cb \in {"read", "both"}
       /\ cbk' = [cbk EXCEPT ![t] = [call[t] EXCEPT !.ptr = p, !.left = @ - 1]]
  /\ call' = [call EXCEPT ![t] = NoCall]
  /\ UNCHANGED <<dtblVars, live, ctx, inbox, serving, fds, status, used>>

\* connect_read_cb calls read_cb under the lock for the first message.
ReadCalls(t) ==
  /\ At(t, "read") /\ LockFree
  /\ LET p == Get(call[t].id) IN
       /\ p \in live /\ ctx[p].cb \in {"read", "both"}
       /\ cbk' = [cbk EXCEPT ![t] = [call[t] EXCEPT !.ptr = p, !.left = @ - 1]]
  /\ call' = [call EXCEPT ![t] = NoCall]
  /\ UNCHANGED <<dtblVars, live, ctx, inbox, serving, fds, status, used>>

\* connect_read_cb has no callback to call: the messages are dropped.
ReadQuiet(t) ==
  /\ At(t, "read") /\ LockFree
  /\ Get(call[t].id) \in live
  /\ ctx[Get(call[t].id)].cb \notin {"read", "both"}
  /\ call' = [call EXCEPT ![t] = NoCall]
  /\ UNCHANGED <<dtblVars, live, ctx, inbox, cbk, serving, fds, status, used>>

\* Mutant: no unlock when there is no message left.
ReadReturnsLocked(t) ==
  /\ InUser(t) /\ cbk[t].op = "read"
  /\ \/ /\ cbk[t].left = 0
        /\ UNCHANGED cbk
     \/ /\ cbk[t].left > 0 /\ Get(cbk[t].id) \in live
        /\ cbk' = [cbk EXCEPT ![t].left = @ - 1, ![t].ptr = Get(cbk[t].id)]
  /\ UNCHANGED <<dtblVars, live, ctx, inbox, call, serving, fds, status, used>>

\* read_cb returns.  connect_read_cb keeps the lock and looks the context up
\* again for the next message, or unlocks when there is none.
ReadReturns(t) ==
  /\ InUser(t) /\ cbk[t].op = "read"
  /\ \/ /\ cbk[t].left = 0
        /\ cbk' = [cbk EXCEPT ![t] = NoCall]
     \/ /\ cbk[t].left > 0 /\ Get(cbk[t].id) \in live
        /\ cbk' = [cbk EXCEPT ![t].left = @ - 1, ![t].ptr = Get(cbk[t].id)]
  /\ UNCHANGED <<dtblVars, live, ctx, inbox, call, serving, fds, status, used>>

\* connect_event_cb or connect_read_cb finds a context that has been freed, or
\* one whose callbacks were never set and are not NULL by chance.
CallbackUndefined(t) ==
  /\ LockFree /\ (At(t, "event") \/ At(t, "read"))
  /\ LET p == Get(call[t].id) IN
       p \notin live \/ ctx[p].cb = "uninitialised"
  /\ Undefined

-----------------------------------------------------------------------------
(* rteipc_setcb, rteipc_send and rteipc_evsend *)

\* What using the id in thread t means.
UseOf(t, id) ==
  (IF id \in desc THEN {} ELSE {"invalid"})
  \cup (IF \E c \in live : ctx[c].id = id /\ ctx[c].thread = t THEN {} ELSE {"share"})

UserIds == IF "invalid" \in Uses THEN Ids ELSE fds

\* rteipc_setcb up to the lock.
SetCb(t, id) ==
  /\ InUser(t)
  /\ UseOf(t, id) \cup Reenters(t) \subseteq Uses
  /\ call' = [call EXCEPT ![t] = [NoCall EXCEPT !.op = "setcb", !.id = id]]
  /\ used' = used \cup UseOf(t, id) \cup Reenters(t)
  /\ UNCHANGED <<dtblVars, live, ctx, inbox, cbk, serving, fds, status>>

\* The section under the lock.
SetCbReturns(t, cb) ==
  /\ At(t, "setcb") /\ LockFree
  /\ LET p == Get(call[t].id) IN
       \/ p = NULL /\ UNCHANGED ctx
       \/ p \in live /\ ctx' = [ctx EXCEPT ![p].cb = cb]
  /\ call' = [call EXCEPT ![t] = NoCall]
  /\ UNCHANGED <<dtblVars, live, inbox, cbk, serving, fds, status, used>>

SetCbUndefined(t) ==
  /\ At(t, "setcb") /\ LockFree
  /\ Get(call[t].id) \notin live \cup {NULL}
  /\ Undefined

\* rteipc_send and rteipc_evsend look the context up and take no lock.
Send(t, id) ==
  /\ InUser(t)
  /\ UseOf(t, id) \subseteq Uses
  /\ Get(id) # NULL
  /\ call' = [call EXCEPT ![t] = [NoCall EXCEPT !.op = "send", !.id = id, !.ptr = Get(id)]]
  /\ used' = used \cup UseOf(t, id)
  /\ UNCHANGED <<dtblVars, live, ctx, inbox, cbk, serving, fds, status>>

\* They then write to its bufferevent.
SendReturns(t) ==
  /\ At(t, "send")
  /\ call[t].ptr \in live /\ ctx[call[t].ptr].bev = "open"
  /\ call' = [call EXCEPT ![t] = NoCall]
  /\ UNCHANGED <<dtblVars, live, ctx, inbox, cbk, serving, fds, status, used>>

SendUndefined(t) ==
  /\ At(t, "send")
  /\ call[t].ptr \notin live \/ ctx[call[t].ptr].bev = "freed"
  /\ Undefined

-----------------------------------------------------------------------------
\* The user starts the event loop again.
Dispatch(t) ==
  /\ InUser(t) /\ cbk[t] = NoCall /\ t \notin serving
  /\ serving' = serving \cup {t}
  /\ UNCHANGED <<dtblVars, live, ctx, inbox, call, cbk, fds, status, used>>

\* The endpoint sends a message.
Incoming(c) ==
  /\ status = "running" /\ c \in live /\ ctx[c].bev = "open" /\ ctx[c].id \in fds
  /\ inbox[c] < MaxMsgs
  /\ inbox' = [inbox EXCEPT ![c] = @ + 1]
  /\ UNCHANGED <<dtblVars, live, ctx, call, cbk, serving, fds, status, used>>

\* The steps of thread t inside the library.
LibraryStep(t) ==
  \/ ConnectRegister(t) \/ ConnectFull(t) \/ ConnectReturns(t) \/ ConnectFails(t)
  \/ EventQuiet(t) \/ EventCalls(t) \/ ReadCalls(t) \/ ReadQuiet(t)
  \/ CallbackUndefined(t)
  \/ (\E cb \in Callbacks : SetCbReturns(t, cb)) \/ SetCbUndefined(t)
  \/ SendReturns(t) \/ SendUndefined(t)

CallbackReturns(t) == EventReturns(t) \/ ReadReturns(t)

Next ==
  \/ \E t \in Threads :
       \/ LibraryStep(t) \/ CallbackReturns(t) \/ Dispatch(t)
       \/ \E c \in Values : \/ Connect(t, c) \/ Event(t, c)
                            \/ \E n \in 1 .. inbox[c] : Readable(t, c, n)
       \/ \E id \in UserIds : SetCb(t, id) \/ Send(t, id)
  \/ \E c \in Values : Incoming(c)

\* The scheduler runs every thread, and a user's callback returns after it has
\* called the API finitely often.  The mutex is not assumed to be fair.
Fairness ==
  \A t \in Threads : WF_vars(LibraryStep(t)) /\ SF_vars(CallbackReturns(t))

Spec == Init /\ [][Next]_vars
FairSpec == Spec /\ Fairness

-----------------------------------------------------------------------------
(* Properties *)

\* The variables have their types.
TypeOK ==
  /\ DtblTypeOK
  /\ live \in SUBSET Values
  /\ ctx \in [Values -> Context]
  /\ inbox \in [Values -> 0 .. MaxMsgs]
  /\ call \in [Threads -> Call]
  /\ cbk \in [Threads -> Call]
  /\ serving \in SUBSET Threads
  /\ fds \in SUBSET Ids
  /\ status \in {"running", "undefined"}
  /\ used \in SUBSET Uses

\* No id has been handed out twice.
FirstGeneration == Len(entries) <= Width * MaxEntries

\* ctx_mutex: at most one thread is in a user's callback, and the context it
\* was called for stays allocated until it returns, in the first generation.
CallbacksExclusive ==
  /\ \A t, u \in Threads : cbk[t] # NoCall /\ cbk[u] # NoCall => t = u
  /\ FirstGeneration /\ status = "running" =>
       \A t \in Threads : cbk[t] # NoCall =>
         cbk[t].ptr \in live /\ ctx[cbk[t].ptr].id = cbk[t].id
                             /\ ctx[cbk[t].ptr].thread = t

\* In the first generation every allocated context belongs to an id that the
\* users hold, or to a call or a callback that has not returned: no path of
\* rteipc_connect or connect_event_cb leaks it, and no id outlives it.
ContextsAreOwned ==
  FirstGeneration /\ status = "running" =>
    /\ \A c \in live : \/ ctx[c].id \in fds
                       \/ \E t \in Threads : c \in {call[t].ptr, cbk[t].ptr}
    /\ \A id \in fds : Get(id) \in live /\ ctx[Get(id)].id = id

\* In the first generation, threads that use only their own connections, set
\* the callbacks before events come, never use an id whose connection has
\* ended and never fail to connect use no freed or uninitialised memory.
MemoryIsSafe ==
  FirstGeneration /\ used \cap {"share", "invalid", "early", "vain"} = {} =>
    status = "running"

\* As long as no callback calls an operation that takes the mutex again,
\* ctx_mutex is always released: no callback keeps the other threads waiting
\* forever.
LockIsReleased ==
  [](~LockFree => <>(LockFree \/ status = "undefined" \/ "reenter" \in used))

=============================================================================
