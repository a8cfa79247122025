--------------------------- MODULE ConnectProofs ---------------------------
(* Proofs about the client connections, for every number of threads and of  *)
(* connections and every size of the descriptor table.                      *)
(* Of DescTableProofs they use what the operations of the table compute; the *)
(* variables of its callers' protocol (DescTableUse) play no part here.      *)
EXTENDS Connect, DescTableProofs

USE NullAssumption, MaxMsgsAssumption

-----------------------------------------------------------------------------
(* The inductive invariant *)

\* The call of the library that a thread is in determines what it has, and a
\* thread in a user's callback is not in a step that needs its event loop.
CallsOK ==
  \A t \in Threads :
    /\ call[t].op = "connect" => call[t].ptr \in Values
    /\ call[t].op \in {"socket", "event", "read"} => call[t].id \in Ids /\ cbk[t] = NoCall
    /\ call[t].op = "read" => call[t].left > 0
    /\ cbk[t] # NoCall => cbk[t].op \in {"event", "read"}

\* ctx_mutex is held by one thread.
OneCallback == \A t, u \in Threads : cbk[t] # NoCall /\ cbk[u] # NoCall => t = u

\* The call or callback x of thread t is about an allocated context of t.
OwnCtx(t, x) ==
  x.ptr \in live /\ ctx[x.ptr].thread = t /\ ctx[x.ptr].id = x.id

\* So is the callback of t, and its id has been taken from the user exactly when
\* it is err_cb.
CbkOK(t) ==
  cbk[t] # NoCall => OwnCtx(t, cbk[t]) /\ (cbk[t].id \in fds <=> cbk[t].op = "read")

\* What thread t relies on.
ThreadOK(t) ==
  /\ call[t].op = "connect" =>
       call[t].ptr \in live /\ ctx[call[t].ptr].thread = t /\ ctx[call[t].ptr].id = -1
  /\ call[t].op \in {"socket", "event", "read"} => OwnCtx(t, call[t])
  /\ call[t].op = "read" => call[t].id \in fds
  /\ call[t].op \in {"event", "read"} /\ ctx[call[t].ptr].cb = "uninitialised" =>
       used \cap {"early", "vain"} # {}
  /\ CbkOK(t)
  /\ used \cap {"share", "invalid"} = {} =>
       /\ call[t].op = "setcb" =>
            \E c \in live : ctx[c].thread = t /\ ctx[c].id = call[t].id
       /\ call[t].op = "send" =>
            /\ call[t].ptr \in live /\ ctx[call[t].ptr].thread = t
            /\ ctx[call[t].ptr].bev = "open"

\* Thread t will give the context c its id; or, once it has one, will give it
\* to the user or free it.
WaitsFor(t, c) == call[t].op = "connect" /\ call[t].ptr = c

Holds(t, c) == \/ call[t].op \in {"socket", "event"} /\ call[t].ptr = c
               \/ cbk[t] # NoCall /\ cbk[t].ptr = c

\* The context c waits for its id, or its id leads to it and it is owned.
CtxOK(c) ==
  \/ ctx[c].id = -1 /\ ctx[c].bev = "open" /\ \E t \in Threads : WaitsFor(t, c)
  \/ /\ ctx[c].id \in Nat /\ ctx[c].id < Len(entries)
     /\ entries[ctx[c].id + 1].value = c
     /\ ctx[c].bev = "freed" => ctx[c].id \notin desc
     /\ ctx[c].id \in fds \/ \E t \in Threads : Holds(t, c)

\* In the first generation, until freed memory is used.
Connected ==
  /\ InSequence
  /\ \A t \in Threads : ThreadOK(t)
  /\ \A c \in live : CtxOK(c)
  /\ \A id \in fds : \E c \in live : ctx[c].id = id

ConShape == FirstGeneration /\ status = "running" => Connected

\* The invariant that every action preserves.
ConInv == TypeOK /\ CallsOK /\ OneCallback /\ ConShape /\ MemoryIsSafe

-----------------------------------------------------------------------------
(* Parts of the state *)

LEMMA CallParts ==
  ASSUME TypeOK, NEW t \in Threads
  PROVE  /\ call[t] \in Call /\ cbk[t] \in Call
         /\ call[t].ptr \in Values \cup {NULL} /\ call[t].id \in Ids \cup {-1}
         /\ call[t].left \in 0 .. MaxMsgs
         /\ cbk[t].ptr \in Values \cup {NULL} /\ cbk[t].id \in Ids \cup {-1}
         /\ cbk[t].left \in 0 .. MaxMsgs
BY DEF TypeOK, Call

LEMMA NoCallType == NoCall \in Call /\ NoCall.op = "none" /\ NoCall.ptr = NULL
BY DEF NoCall, Call

LEMMA CtxParts ==
  ASSUME TypeOK, NEW c \in live
  PROVE  c \in Values /\ ctx[c] \in Context /\ ctx[c].id \in Ids \cup {-1} /\ c # NULL
BY DEF TypeOK, Context

\* The id of a registered context leads to it.
LEMMA GetOwn ==
  ASSUME TypeOK, Connected, NEW c \in live, ctx[c].id \in Nat
  PROVE  Get(ctx[c].id) = c
<1>1. CtxOK(c) /\ ctx[c].id # -1
  BY DEF Connected
<1>2. ctx[c].id < Len(entries) /\ entries[ctx[c].id + 1].value = c
  BY <1>1 DEF CtxOK
<1> QED BY <1>2, GetOfShape DEF Connected, InSequence, TypeOK, DtblTypeOK

\* The id of a call or callback that owns its context leads to it.
LEMMA GetOfOwned ==
  ASSUME TypeOK, Connected, NEW t, NEW x, OwnCtx(t, x), x.id \in Ids
  PROVE  Get(x.id) = x.ptr
BY GetOwn, IdsType DEF OwnCtx

\* The user's ids lead to contexts.
LEMMA FdsLead ==
  ASSUME TypeOK, Connected, NEW id \in fds
  PROVE  Get(id) \in live /\ ctx[Get(id)].id = id
<1>1. PICK c \in live : ctx[c].id = id
  BY DEF Connected
<1>2. id \in Nat
  BY IdsType DEF TypeOK
<1> QED BY <1>1, <1>2, GetOwn

\* Contexts have different ids.
LEMMA IdsDiffer ==
  ASSUME TypeOK, Connected, NEW c \in live, NEW d \in live,
         ctx[c].id = ctx[d].id, ctx[c].id \in Nat
  PROVE  c = d
BY GetOwn

-----------------------------------------------------------------------------
(* What a step of one thread leaves to the others *)

\* The table keeps its entries and sets no bit of an id it has handed out.
TableGrows ==
  /\ Len(entries) <= Len(entries')
  /\ \A i \in 1 .. Len(entries) : entries'[i] = entries[i]
  /\ \A id \in desc' : id < Len(entries) => id \in desc

LEMMA TableUnchanged ==
  ASSUME TypeOK, entries' = entries, desc' \subseteq desc
  PROVE  TableGrows
BY DEF TypeOK, DtblTypeOK, TableGrows

LEMMA ThreadKept ==
  ASSUME NEW u \in Threads, ThreadOK(u), call'[u] = call[u], cbk'[u] = cbk[u],
         used \subseteq used',
         \A c \in live : ctx[c].thread = u =>
           /\ c \in live' /\ ctx'[c].thread = ctx[c].thread /\ ctx'[c].id = ctx[c].id
           /\ ctx'[c].bev = ctx[c].bev
           /\ ctx'[c].cb = "uninitialised" => ctx[c].cb = "uninitialised"
           /\ ctx[c].id \in fds' <=> ctx[c].id \in fds
  PROVE  ThreadOK(u)'
<1>1. call'[u].op = "connect" => /\ call'[u].ptr \in live'
                                 /\ ctx'[call'[u].ptr].thread = u
                                 /\ ctx'[call'[u].ptr].id = -1
  BY DEF ThreadOK
<1>2. call'[u].op \in {"socket", "event", "read"} => OwnCtx(u, call[u]) /\ OwnCtx(u, call[u])'
  BY DEF ThreadOK, OwnCtx
<1>3. call'[u].op = "read" => call'[u].id \in fds'
  BY <1>2 DEF ThreadOK, OwnCtx
<1>4. call'[u].op \in {"event", "read"} /\ ctx'[call'[u].ptr].cb = "uninitialised" =>
        used' \cap {"early", "vain"} # {}
  <2> SUFFICES ASSUME call[u].op \in {"event", "read"}, ctx'[call[u].ptr].cb = "uninitialised"
               PROVE  used' \cap {"early", "vain"} # {}
    OBVIOUS
  <2>1. ctx[call[u].ptr].cb = "uninitialised"
    BY <1>2 DEF OwnCtx
  <2>2. used \cap {"early", "vain"} # {}
    BY <2>1 DEF ThreadOK
  <2> QED BY <2>2
<1>5. CbkOK(u)'
  BY DEF ThreadOK, CbkOK, OwnCtx
<1>6. ASSUME used' \cap {"share", "invalid"} = {}
      PROVE  /\ call'[u].op = "setcb" =>
                  \E c \in live' : ctx'[c].thread = u /\ ctx'[c].id = call'[u].id
             /\ call'[u].op = "send" =>
                  /\ call'[u].ptr \in live' /\ ctx'[call'[u].ptr].thread = u
                  /\ ctx'[call'[u].ptr].bev = "open"
  <2>1. used \cap {"share", "invalid"} = {}
    BY <1>6
  <2> QED BY <2>1 DEF ThreadOK
<1> QED BY <1>1, <1>2, <1>3, <1>4, <1>5, <1>6 DEF ThreadOK, OwnCtx

LEMMA CtxKept ==
  ASSUME TypeOK, TableGrows, NEW c \in live, CtxOK(c), ctx'[c].id = ctx[c].id,
         Len(entries') \in Nat,
         ctx'[c].bev = ctx[c].bev,
         ctx[c].id \in fds => ctx[c].id \in fds',
         \A u \in Threads : WaitsFor(u, c) => WaitsFor(u, c)',
         \A u \in Threads : Holds(u, c) => Holds(u, c)' \/ ctx[c].id \in fds'
  PROVE  CtxOK(c)'
<1>1. CASE ctx[c].id = -1 /\ ctx[c].bev = "open" /\ \E u \in Threads : WaitsFor(u, c)
  <2>1. ctx'[c].id = -1 /\ ctx'[c].bev = "open" /\ \E u \in Threads : WaitsFor(u, c)'
    BY <1>1
  <2> QED BY <2>1 DEF CtxOK
<1>2. CASE /\ ctx[c].id \in Nat /\ ctx[c].id < Len(entries)
           /\ entries[ctx[c].id + 1].value = c
           /\ ctx[c].bev = "freed" => ctx[c].id \notin desc
           /\ ctx[c].id \in fds \/ \E t \in Threads : Holds(t, c)
  <2>1. Len(entries) \in Nat
    BY DEF TypeOK, DtblTypeOK
  <2>2. ctx[c].id + 1 \in 1 .. Len(entries) /\ Len(entries) <= Len(entries')
    BY <1>2, <2>1 DEF TableGrows
  <2>3. entries'[ctx'[c].id + 1].value = c /\ ctx'[c].id < Len(entries')
    BY <1>2, <2>1, <2>2 DEF TableGrows
  <2>4. ctx'[c].bev = "freed" => ctx'[c].id \notin desc'
    BY <1>2 DEF TableGrows
  <2>5. ctx'[c].id \in fds' \/ \E t \in Threads : Holds(t, c)'
    BY <1>2
  <2> QED BY <1>2, <2>3, <2>4, <2>5 DEF CtxOK
<1> QED BY <1>1, <1>2 DEF CtxOK

\* A step of thread t that touches only its own contexts keeps everything that
\* does not belong to t.
LEMMA ShapeStep ==
  ASSUME TypeOK, Connected, NEW t \in Threads, InSequence', TableGrows,
         Len(entries') \in Nat, used \subseteq used', ThreadOK(t)',
         \A u \in Threads \ {t} : call'[u] = call[u] /\ cbk'[u] = cbk[u],
         \A c \in live : ctx[c].thread # t =>
           /\ c \in live' /\ ctx'[c].thread = ctx[c].thread /\ ctx'[c].id = ctx[c].id
           /\ ctx'[c].bev = ctx[c].bev
           /\ ctx'[c].cb = "uninitialised" => ctx[c].cb = "uninitialised"
           /\ ctx[c].id \in fds' <=> ctx[c].id \in fds,
         \A c \in live' : ctx'[c].thread = t \/ (c \in live /\ ctx[c].thread # t),
         \A c \in live' : ctx'[c].thread = t => CtxOK(c)',
         \A c \in live : ctx[c].thread = t /\ ctx[c].id \in fds' =>
           c \in live' /\ ctx'[c].id = ctx[c].id,
         \A id \in fds' : id \in fds \/ \E c \in live' : ctx'[c].id = id
  PROVE  Connected'
<1>1. ASSUME NEW u \in Threads PROVE ThreadOK(u)'
  <2>1. CASE u # t
    <3>1. ThreadOK(u)
      BY DEF Connected
    <3> QED BY <2>1, <3>1, ThreadKept
  <2> QED BY <2>1
<1>2. ASSUME NEW c \in live' PROVE CtxOK(c)'
  <2>1. CASE c \in live /\ ctx[c].thread # t
    <3>1. CtxOK(c) /\ ThreadOK(t)
      BY <2>1 DEF Connected
    <3>2. ~WaitsFor(t, c) /\ ~Holds(t, c)
      BY <2>1, <3>1 DEF ThreadOK, CbkOK, WaitsFor, Holds, OwnCtx
    <3>3. \A u \in Threads : WaitsFor(u, c) => WaitsFor(u, c)'
      BY <3>2 DEF WaitsFor
    <3>4. \A u \in Threads : Holds(u, c) => Holds(u, c)'
      BY <3>2 DEF Holds
    <3> QED BY <2>1, <3>1, <3>3, <3>4, CtxKept
  <2> QED BY <2>1
<1>3. ASSUME NEW id \in fds' PROVE \E c \in live' : ctx'[c].id = id
  <2>1. CASE id \in fds
    <3>1. PICK c \in live : ctx[c].id = id
      BY <2>1 DEF Connected
    <3>2. CASE ctx[c].thread = t
      BY <3>1, <3>2
    <3>3. CASE ctx[c].thread # t
      BY <3>1, <3>3
    <3> QED BY <3>2, <3>3
  <2> QED BY <2>1
<1> QED BY <1>1, <1>2, <1>3 DEF Connected

\* A step of thread t that changes only what thread t is doing, and perhaps which
\* callbacks a context has.
LEMMA ThreadStep ==
  ASSUME TypeOK, Connected, NEW t \in Threads, ThreadOK(t)',
         UNCHANGED <<desc, next_entry, entries, live>>, used \subseteq used',
         \A u \in Threads \ {t} : call'[u] = call[u] /\ cbk'[u] = cbk[u],
         \A c \in live :
           /\ ctx'[c].thread = ctx[c].thread /\ ctx'[c].id = ctx[c].id
           /\ ctx'[c].bev = ctx[c].bev
           /\ ctx'[c].cb = "uninitialised" => ctx[c].cb = "uninitialised",
         fds' = fds \/ (call[t].op = "socket" /\ fds' = fds \cup {call[t].id}),
         call[t].op # "connect",
         \A c \in live : Holds(t, c) => Holds(t, c)' \/ ctx[c].id \in fds'
  PROVE  Connected'
<1>1. InSequence' /\ TableGrows /\ Len(entries') \in Nat
  BY TableUnchanged DEF Connected, InSequence, TypeOK, DtblTypeOK
<1>2. ThreadOK(t) /\ (call[t].op = "socket" => OwnCtx(t, call[t]))
  BY DEF Connected, ThreadOK
<1>3. ASSUME NEW c \in live, ctx[c].thread # t PROVE ctx[c].id \in fds' <=> ctx[c].id \in fds
  <2>1. CASE fds' = fds
    BY <2>1
  <2>2. CASE call[t].op = "socket" /\ fds' = fds \cup {call[t].id}
    <3>1. PICK d \in live : /\ d = call[t].ptr /\ ctx[d].id = call[t].id
                            /\ ctx[d].thread = t
      BY <1>2, <2>2 DEF OwnCtx
    <3>2. ASSUME ctx[c].id = ctx[d].id PROVE FALSE
      <4>1. ctx[d].id # -1
        <5>1. CASE ctx[d].id = -1
          <6>1. PICK u \in Threads : WaitsFor(u, d)
            BY <5>1 DEF Connected, CtxOK
          <6>2. ThreadOK(u) /\ u = t
            BY <3>1, <6>1 DEF Connected, ThreadOK, WaitsFor
          <6> QED BY <2>2, <6>1, <6>2 DEF WaitsFor
        <5> QED BY <5>1
      <4>2. ctx[c].id \in Nat
        BY <3>2, <4>1, CtxParts, IdsType
      <4> QED BY <1>3, <3>1, <3>2, <4>2, IdsDiffer
    <3> QED BY <2>2, <3>1, <3>2
  <2> QED BY <2>1, <2>2
<1>4. ASSUME NEW c \in live PROVE CtxOK(c)'
  <2>1. CtxOK(c) /\ (ctx[c].id \in fds => ctx[c].id \in fds')
    BY DEF Connected
  <2>2. \A u \in Threads : WaitsFor(u, c) => WaitsFor(u, c)'
    BY DEF WaitsFor
  <2>3. \A u \in Threads : Holds(u, c) => Holds(u, c)' \/ ctx[c].id \in fds'
    BY DEF Holds
  <2> QED BY <1>1, <2>1, <2>2, <2>3, CtxKept
<1>5. \A id \in fds' : id \in fds \/ \E c \in live' : ctx'[c].id = id
  BY <1>2 DEF OwnCtx
<1> QED BY <1>1, <1>3, <1>4, <1>5, ShapeStep

-----------------------------------------------------------------------------
(* Steps that change only what a thread is doing *)

\* The invariant is preserved part by part.
LEMMA Assemble ==
  ASSUME ConInv, status' = "running", status = "running",
         TypeOK', CallsOK', OneCallback',
         FirstGeneration' => FirstGeneration,
         FirstGeneration' /\ Connected => Connected'
  PROVE  ConInv'
BY DEF ConInv, ConShape, MemoryIsSafe

\* Thread t goes on with the call x and the callback y.
LEMMA NewCalls ==
  ASSUME TypeOK, CallsOK, OneCallback, NEW t \in Threads, NEW x \in Call, NEW y \in Call,
         call' = [call EXCEPT ![t] = x], cbk' = [cbk EXCEPT ![t] = y],
         x.op = "connect" => x.ptr \in Values,
         x.op \in {"socket", "event", "read"} => x.id \in Ids /\ y = NoCall,
         x.op = "read" => x.left > 0,
         y # NoCall => y.op \in {"event", "read"} /\ (cbk[t] # NoCall \/ LockFree)
  PROVE  /\ call' \in [Threads -> Call] /\ cbk' \in [Threads -> Call]
         /\ call'[t] = x /\ cbk'[t] = y
         /\ \A u \in Threads \ {t} : call'[u] = call[u] /\ cbk'[u] = cbk[u]
         /\ CallsOK' /\ OneCallback'
<1>1. /\ call' \in [Threads -> Call] /\ cbk' \in [Threads -> Call]
      /\ call'[t] = x /\ cbk'[t] = y
      /\ \A u \in Threads \ {t} : call'[u] = call[u] /\ cbk'[u] = cbk[u]
  BY DEF TypeOK
<1>2. CallsOK'
  BY <1>1 DEF CallsOK
<1>3. OneCallback'
  <2>1. ASSUME y # NoCall, NEW u \in Threads \ {t} PROVE cbk[u] = NoCall
    BY <2>1 DEF OneCallback, LockFree
  <2> QED BY <1>1, <2>1 DEF OneCallback
<1> QED BY <1>1, <1>2, <1>3

LEMMA CallStep ==
  ASSUME ConInv, status = "running", NEW t \in Threads, NEW x \in Call, NEW y \in Call,
         UNCHANGED <<hasdesc, desc, next_entry, entries, live, ctx, fds, status>>,
         inbox' \in [Values -> 0 .. MaxMsgs], serving' \in SUBSET Threads,
         used \subseteq used', used' \in SUBSET Uses,
         call' = [call EXCEPT ![t] = x], cbk' = [cbk EXCEPT ![t] = y],
         x.op # "connect", call[t].op # "connect",
         x.op \in {"socket", "event", "read"} => x.id \in Ids /\ y = NoCall,
         x.op = "read" => x.left > 0,
         y # NoCall => y.op \in {"event", "read"} /\ (cbk[t] # NoCall \/ LockFree),
         Connected /\ call'[t] = x /\ cbk'[t] = y =>
           /\ ThreadOK(t)'
           /\ \A c \in live : Holds(t, c) => Holds(t, c)' \/ ctx[c].id \in fds
  PROVE  ConInv'
<1>1. TypeOK /\ CallsOK /\ OneCallback
  BY DEF ConInv
<1>2. /\ call' \in [Threads -> Call] /\ cbk' \in [Threads -> Call]
      /\ call'[t] = x /\ cbk'[t] = y
      /\ \A u \in Threads \ {t} : call'[u] = call[u] /\ cbk'[u] = cbk[u]
      /\ CallsOK' /\ OneCallback'
  BY <1>1, NewCalls
<1>3. TypeOK'
  BY <1>1, <1>2 DEF TypeOK, DtblTypeOK
<1>4. ASSUME Connected PROVE Connected'
  <2>1. /\ ThreadOK(t)'
        /\ \A c \in live : Holds(t, c) => Holds(t, c)' \/ ctx[c].id \in fds
    BY <1>2, <1>4
  <2> QED BY <1>1, <1>2, <1>4, <2>1, ThreadStep
<1>5. FirstGeneration' <=> FirstGeneration
  BY DEF FirstGeneration
<1> QED BY <1>2, <1>3, <1>4, <1>5, Assemble

\* A call or callback that does not change.
LEMMA SameCalls ==
  ASSUME TypeOK, NEW t \in Threads
  PROVE  call = [call EXCEPT ![t] = call[t]] /\ cbk = [cbk EXCEPT ![t] = cbk[t]]
BY DEF TypeOK

\* A thread that is in no call of the library relies only on its callback.
LEMMA IdleThread ==
  ASSUME NEW t, call'[t] = NoCall, CbkOK(t)'
  PROVE  ThreadOK(t)'
BY NoCallType DEF ThreadOK

LEMMA CbkKept ==
  ASSUME NEW t, CbkOK(t), cbk'[t] = cbk[t], UNCHANGED <<live, ctx, fds>>
  PROVE  CbkOK(t)'
BY DEF CbkOK, OwnCtx

\* The fields of a call that goes on.
LEMMA GoesOn ==
  ASSUME NEW x \in Call, NEW op \in {"socket", "event"}
  PROVE  /\ [x EXCEPT !.op = op] \in Call /\ [x EXCEPT !.op = op].op = op
         /\ [x EXCEPT !.op = op].id = x.id /\ [x EXCEPT !.op = op].ptr = x.ptr
BY DEF Call

\* A call returns without having had a context in its hands.
LEMMA ReturnStep ==
  ASSUME ConInv, NEW t \in Threads, status = "running",
         call[t].op \in {"read", "setcb", "send"},
         call' = [call EXCEPT ![t] = NoCall],
         UNCHANGED <<hasdesc, desc, next_entry, entries, live, ctx, fds, status>>,
         UNCHANGED <<inbox, cbk, serving, used>>
  PROVE  ConInv'
<1>1. TypeOK /\ CallsOK /\ cbk[t] \in Call /\ cbk' = [cbk EXCEPT ![t] = cbk[t]]
  BY CallParts, SameCalls DEF ConInv
<1>2. cbk[t] # NoCall => cbk[t].op \in {"event", "read"}
  BY <1>1 DEF CallsOK
<1>3. ASSUME Connected, call'[t] = NoCall, cbk'[t] = cbk[t]
      PROVE  /\ ThreadOK(t)'
             /\ \A c \in live : Holds(t, c) => Holds(t, c)' \/ ctx[c].id \in fds
  <2>1. ThreadOK(t)'
    BY <1>3, IdleThread, CbkKept DEF Connected, ThreadOK
  <2>2. \A c \in live : Holds(t, c) => Holds(t, c)'
    BY <1>3 DEF Holds
  <2> QED BY <2>1, <2>2
<1>4. inbox' \in [Values -> 0 .. MaxMsgs] /\ serving' \in SUBSET Threads /\ used' \in SUBSET Uses
  BY <1>1 DEF TypeOK
<1> QED BY <1>1, <1>2, <1>3, <1>4, NoCallType, CallStep

LEMMA ReadQuietStep ==
  ASSUME ConInv, NEW t \in Threads, ReadQuiet(t)
  PROVE  ConInv'
BY ReturnStep DEF ReadQuiet, At, dtblVars

LEMMA SendReturnsStep ==
  ASSUME ConInv, NEW t \in Threads, SendReturns(t)
  PROVE  ConInv'
BY ReturnStep DEF SendReturns, At, dtblVars

\* bufferevent_socket_connect fails.
LEMMA ConnectFailsStep ==
  ASSUME ConInv, NEW t \in Threads, ConnectFails(t)
  PROVE  ConInv'
<1>1. /\ TypeOK /\ CallsOK /\ status = "running" /\ call[t].op = "socket"
      /\ call' = [call EXCEPT ![t] = [call[t] EXCEPT !.op = "event"]]
      /\ used' = used \cup {"vain"} /\ "vain" \in Uses
      /\ UNCHANGED <<hasdesc, desc, next_entry, entries, live, ctx, fds, status>>
      /\ UNCHANGED <<inbox, cbk, serving>>
  BY DEF ConInv, ConnectFails, At, dtblVars
<1>2. call[t].id \in Ids /\ cbk[t] = NoCall
  BY <1>1 DEF CallsOK
<1>3. call[t] \in Call /\ cbk[t] \in Call /\ cbk' = [cbk EXCEPT ![t] = cbk[t]]
  BY <1>1, CallParts, SameCalls
<1>4. PICK x \in Call : /\ x = [call[t] EXCEPT !.op = "event"]
                        /\ x.op = "event" /\ x.id = call[t].id /\ x.ptr = call[t].ptr
  BY <1>3, GoesOn
<1>5. ASSUME Connected, call'[t] = x, cbk'[t] = cbk[t]
      PROVE  /\ ThreadOK(t)'
             /\ \A c \in live : Holds(t, c) => Holds(t, c)' \/ ctx[c].id \in fds
  <2>1. OwnCtx(t, call[t]) /\ OwnCtx(t, x)
    BY <1>1, <1>4, <1>5 DEF Connected, ThreadOK, OwnCtx
  <2>2. OwnCtx(t, call[t])'
    BY <1>1, <1>5, <2>1 DEF OwnCtx
  <2>3. used' \cap {"early", "vain"} # {}
    BY <1>1
  <2>4. ThreadOK(t)'
    BY <1>2, <1>4, <1>5, <2>2, <2>3 DEF ThreadOK, CbkOK
  <2>5. \A c \in live : Holds(t, c) => Holds(t, c)'
    BY <1>2, <1>4, <1>5 DEF Holds
  <2> QED BY <2>4, <2>5
<1>6. /\ inbox' \in [Values -> 0 .. MaxMsgs] /\ serving' \in SUBSET Threads
      /\ used \subseteq used' /\ used' \in SUBSET Uses
  BY <1>1 DEF TypeOK
<1> QED BY <1>1, <1>2, <1>3, <1>4, <1>5, <1>6, CallStep

\* The event loop calls connect_event_cb or connect_read_cb.
LEMMA DispatchesStep ==
  ASSUME ConInv, NEW t \in Threads, NEW c \in Values, Dispatches(t, c), NEW x \in Call,
         x.op \in {"event", "read"}, x.id = ctx[c].id, x.ptr = c, x.op = "read" => x.left > 0,
         call' = [call EXCEPT ![t] = x], used' = used \cup Early(c),
         inbox' \in [Values -> 0 .. MaxMsgs],
         UNCHANGED <<dtblVars, live, ctx, cbk, serving, fds, status>>
  PROVE  ConInv'
<1>1. /\ TypeOK /\ status = "running" /\ call[t] = NoCall /\ cbk[t] = NoCall
      /\ c \in live /\ ctx[c].thread = t /\ ctx[c].id \in fds
      /\ ctx[c].cb = "uninitialised" => "early" \in Uses
      /\ UNCHANGED <<hasdesc, desc, next_entry, entries, live, ctx, fds, status>>
  BY DEF ConInv, Dispatches, InUser, dtblVars
<1>2. x.id \in Ids /\ call[t].op = "none"
  BY <1>1, NoCallType DEF TypeOK
<1>3. cbk[t] \in Call /\ cbk' = [cbk EXCEPT ![t] = cbk[t]]
  BY <1>1, CallParts, SameCalls
<1>4. ASSUME Connected, call'[t] = x, cbk'[t] = cbk[t]
      PROVE  /\ ThreadOK(t)'
             /\ \A d \in live : Holds(t, d) => Holds(t, d)' \/ ctx[d].id \in fds
  <2>1. OwnCtx(t, call[t])'
    BY <1>1, <1>4 DEF OwnCtx
  <2>2. ctx'[c].cb = "uninitialised" => used' \cap {"early", "vain"} # {}
    BY <1>1 DEF Early
  <2>3. ThreadOK(t)'
    BY <1>1, <1>4, <2>1, <2>2 DEF ThreadOK, CbkOK
  <2>4. \A d \in live : ~Holds(t, d)
    BY <1>1, <1>2 DEF Holds
  <2> QED BY <2>3, <2>4
<1>5. serving' \in SUBSET Threads /\ used \subseteq used' /\ used' \in SUBSET Uses
  BY <1>1 DEF TypeOK, Early
<1> QED BY <1>1, <1>2, <1>3, <1>4, <1>5, CallStep

LEMMA EventStep ==
  ASSUME ConInv, NEW t \in Threads, NEW c \in Values, Event(t, c)
  PROVE  ConInv'
<1>1. TypeOK /\ ctx[c].id \in Ids /\ inbox' = inbox
  BY DEF ConInv, TypeOK, Event, Dispatches
<1>2. PICK x \in Call : /\ x = [NoCall EXCEPT !.op = "event", !.id = ctx[c].id, !.ptr = c]
                        /\ x.op = "event" /\ x.id = ctx[c].id /\ x.ptr = c
  <2>1. ctx[c].id \in Ids \cup {-1} /\ c \in Values \cup {NULL}
    BY <1>1
  <2> DEFINE z == [NoCall EXCEPT !.op = "event", !.id = ctx[c].id, !.ptr = c]
  <2>3. z \in Call /\ z.op = "event" /\ z.id = ctx[c].id /\ z.ptr = c
    BY <2>1, NoCallType DEF Call
  <2> HIDE DEF z
  <2>4. \E x \in Call : x = z /\ x.op = "event" /\ x.id = ctx[c].id /\ x.ptr = c
    BY <2>3
  <2> QED BY <2>4 DEF z
<1> QED BY <1>1, <1>2, DispatchesStep DEF Event, TypeOK

LEMMA ReadableStep ==
  ASSUME ConInv, NEW t \in Threads, NEW c \in Values, NEW n \in 1 .. inbox[c], Readable(t, c, n)
  PROVE  ConInv'
<1>1. TypeOK /\ ctx[c].id \in Ids /\ inbox' = [inbox EXCEPT ![c] = @ - n]
  BY DEF ConInv, TypeOK, Readable, Dispatches
<1>2. inbox \in [Values -> 0 .. MaxMsgs] /\ inbox[c] \in 0 .. MaxMsgs
  BY <1>1 DEF TypeOK
<1>3. n \in 1 .. MaxMsgs /\ inbox[c] - n \in 0 .. MaxMsgs
  BY <1>2
<1>4. inbox' \in [Values -> 0 .. MaxMsgs]
  BY <1>1, <1>2, <1>3
<1>5. PICK x \in Call : /\ x = [op |-> "read", id |-> ctx[c].id, ptr |-> c, left |-> n]
                        /\ x.op = "read" /\ x.id = ctx[c].id /\ x.ptr = c /\ x.left > 0
  <2>1. [op |-> "read", id |-> ctx[c].id, ptr |-> c, left |-> n] \in Call
    BY <1>1, <1>3 DEF Call
  <2> QED BY <1>3, <2>1
<1> QED BY <1>4, <1>5, DispatchesStep DEF Readable

\* connect_read_cb locks ctx_mutex and calls read_cb.
LEMMA ReadCallsStep ==
  ASSUME ConInv, NEW t \in Threads, ReadCalls(t)
  PROVE  ConInv'
<1>1. PICK p \in live :
        /\ p = Get(call[t].id)
        /\ cbk' = [cbk EXCEPT ![t] = [call[t] EXCEPT !.ptr = p, !.left = @ - 1]]
  BY DEF ReadCalls
<1>2. /\ TypeOK /\ CallsOK /\ status = "running" /\ call[t].op = "read" /\ LockFree
      /\ call' = [call EXCEPT ![t] = NoCall]
      /\ UNCHANGED <<hasdesc, desc, next_entry, entries, live, ctx, fds, status>>
      /\ UNCHANGED <<inbox, serving, used>>
  BY DEF ConInv, ReadCalls, At, dtblVars
<1>3. call[t].id \in Ids /\ call[t].left > 0 /\ p \in Values
  BY <1>2, CtxParts DEF CallsOK
<1>4. call[t] \in Call /\ call[t].left \in 0 .. MaxMsgs
  BY <1>2, CallParts
<1>5. PICK k \in 0 .. MaxMsgs : k = call[t].left - 1
  BY <1>3, <1>4
<1>6. PICK y \in Call : /\ y = [call[t] EXCEPT !.ptr = p, !.left = k]
                        /\ y.op = "read" /\ y.id = call[t].id /\ y.ptr = p
  <2> DEFINE z == [call[t] EXCEPT !.ptr = p, !.left = k]
  <2>1. z \in Call /\ z.op = "read" /\ z.id = call[t].id /\ z.ptr = p
    BY <1>2, <1>3, <1>4 DEF Call
  <2> HIDE DEF z
  <2>2. \E y \in Call : y = z /\ y.op = "read" /\ y.id = call[t].id /\ y.ptr = p
    BY <2>1
  <2> QED BY <2>2 DEF z
<1>7. cbk' = [cbk EXCEPT ![t] = y]
  BY <1>1, <1>5, <1>6
<1>8. ASSUME Connected, call'[t] = NoCall, cbk'[t] = y
      PROVE  /\ ThreadOK(t)'
             /\ \A c \in live : Holds(t, c) => Holds(t, c)' \/ ctx[c].id \in fds
  <2>1. ThreadOK(t) /\ OwnCtx(t, call[t]) /\ call[t].id \in fds
    BY <1>2, <1>8 DEF Connected, ThreadOK
  <2>2. p = call[t].ptr
    BY <1>1, <1>2, <1>3, <1>8, <2>1, GetOfOwned
  <2>3. CbkOK(t)'
    BY <1>2, <1>6, <1>8, <2>1, <2>2 DEF OwnCtx, CbkOK
  <2>4. ThreadOK(t)'
    BY <1>8, <2>3, IdleThread
  <2>5. \A c \in live : ~Holds(t, c)
    BY <1>2 DEF Holds, LockFree
  <2> QED BY <2>4, <2>5
<1>9. inbox' \in [Values -> 0 .. MaxMsgs] /\ serving' \in SUBSET Threads /\ used' \in SUBSET Uses
  BY <1>2 DEF TypeOK
<1> QED BY <1>2, <1>6, <1>7, <1>8, <1>9, NoCallType, CallStep

\* read_cb returns.
LEMMA ReadReturnsStep ==
  ASSUME ConInv, NEW t \in Threads, ReadReturns(t)
  PROVE  ConInv'
<1>1. /\ TypeOK /\ status = "running" /\ call[t] = NoCall /\ cbk[t].op = "read"
      /\ UNCHANGED <<hasdesc, desc, next_entry, entries, live, ctx, fds, status>>
      /\ UNCHANGED <<inbox, call, serving, used>>
  BY DEF ConInv, ReadReturns, InUser, dtblVars
<1>2. /\ call[t] \in Call /\ cbk[t] \in Call /\ cbk[t] # NoCall /\ call[t].op = "none"
      /\ call' = [call EXCEPT ![t] = call[t]] /\ cbk[t].left \in 0 .. MaxMsgs
  BY <1>1, CallParts, SameCalls, NoCallType
<1>3. PICK y \in Call :
        /\ cbk' = [cbk EXCEPT ![t] = y]
        /\ \/ y = NoCall
           \/ y.op = "read" /\ y.id = cbk[t].id /\ y.ptr \in live /\ y.ptr = Get(cbk[t].id)
  <2>1. CASE cbk' = [cbk EXCEPT ![t] = NoCall]
    BY <2>1, NoCallType
  <2>2. CASE /\ cbk[t].left > 0 /\ Get(cbk[t].id) \in live
             /\ cbk' = [cbk EXCEPT ![t].left = @ - 1, ![t].ptr = Get(cbk[t].id)]
    <3>1. PICK p \in live : p = Get(cbk[t].id)
      BY <2>2
    <3>2. PICK k \in 0 .. MaxMsgs : k = cbk[t].left - 1
      BY <1>2, <2>2
    <3>3. p \in Values
      BY <1>1, CtxParts
    <3> DEFINE z == [cbk[t] EXCEPT !.left = k, !.ptr = p]
    <3>4. z \in Call /\ z.op = "read" /\ z.id = cbk[t].id /\ z.ptr = p
      BY <1>1, <1>2, <3>3 DEF Call
    <3>5. cbk' = [cbk EXCEPT ![t] = z]
      BY <1>1, <2>2, <3>1, <3>2 DEF TypeOK
    <3> HIDE DEF z
    <3> QED BY <3>1, <3>4, <3>5
  <2> QED BY <2>1, <2>2 DEF ReadReturns
<1>4. y # NoCall => y.op \in {"event", "read"} /\ cbk[t] # NoCall
  BY <1>2, <1>3
<1>5. ASSUME Connected, call'[t] = call[t], cbk'[t] = y
      PROVE  /\ ThreadOK(t)'
             /\ \A c \in live : Holds(t, c) => Holds(t, c)' \/ ctx[c].id \in fds
  <2>1. OwnCtx(t, cbk[t]) /\ cbk[t].id \in fds
    BY <1>1, <1>2, <1>5 DEF Connected, ThreadOK, CbkOK
  <2>2. cbk[t].ptr = Get(cbk[t].id)
    BY <1>1, <1>5, <2>1, GetOfOwned DEF TypeOK
  <2>3. CbkOK(t)'
    BY <1>1, <1>3, <1>5, <2>1, <2>2 DEF CbkOK, OwnCtx
  <2>4. ThreadOK(t)'
    BY <1>1, <1>5, <2>3, IdleThread
  <2>5. \A c \in live : Holds(t, c) => ctx[c].id \in fds
    BY <1>2, <2>1 DEF Holds, OwnCtx
  <2> QED BY <2>4, <2>5
<1>6. inbox' \in [Values -> 0 .. MaxMsgs] /\ serving' \in SUBSET Threads /\ used' \in SUBSET Uses
  BY <1>1 DEF TypeOK
<1> QED BY <1>1, <1>2, <1>3, <1>4, <1>5, <1>6, CallStep

\* What the use of an id means when it is neither shared nor invalid.
LEMMA OwnUse ==
  ASSUME NEW t, NEW id, UseOf(t, id) \cap {"share", "invalid"} = {}
  PROVE  id \in desc /\ \E c \in live : ctx[c].thread = t /\ ctx[c].id = id
BY DEF UseOf

\* rteipc_setcb is called.
LEMMA SetCbStep ==
  ASSUME ConInv, NEW t \in Threads, NEW id \in Ids, SetCb(t, id)
  PROVE  ConInv'
<1>1. /\ TypeOK /\ CallsOK /\ status = "running" /\ call[t] = NoCall
      /\ used' = used \cup UseOf(t, id) \cup Reenters(t)
      /\ UseOf(t, id) \cup Reenters(t) \subseteq Uses
      /\ UNCHANGED <<hasdesc, desc, next_entry, entries, live, ctx, fds, status>>
      /\ UNCHANGED <<inbox, cbk, serving>>
  BY DEF ConInv, SetCb, InUser, dtblVars
<1> DEFINE x == [NoCall EXCEPT !.op = "setcb", !.id = id]
<1>2. x \in Call /\ x.op = "setcb" /\ x.id = id
  BY NoCallType DEF Call
<1>3. call' = [call EXCEPT ![t] = x]
  BY DEF SetCb
<1> HIDE DEF x
<1>4. /\ cbk[t] \in Call /\ cbk' = [cbk EXCEPT ![t] = cbk[t]] /\ call[t].op = "none"
      /\ cbk[t] # NoCall => cbk[t].op \in {"event", "read"}
  BY <1>1, CallParts, SameCalls, NoCallType DEF CallsOK
<1>5. ASSUME Connected, call'[t] = x, cbk'[t] = cbk[t]
      PROVE  /\ ThreadOK(t)'
             /\ \A c \in live : Holds(t, c) => Holds(t, c)' \/ ctx[c].id \in fds
  <2>1. CbkOK(t)'
    BY <1>1, <1>5, CbkKept DEF Connected, ThreadOK
  <2>2. ASSUME used' \cap {"share", "invalid"} = {}
        PROVE  \E c \in live' : ctx'[c].thread = t /\ ctx'[c].id = call'[t].id
    <3>1. UseOf(t, id) \cap {"share", "invalid"} = {}
      BY <1>1, <2>2
    <3>2. PICK c \in live : ctx[c].thread = t /\ ctx[c].id = id
      BY <3>1, OwnUse
    <3> QED BY <1>1, <1>2, <1>5, <3>2
  <2>3. ThreadOK(t)'
    BY <1>2, <1>5, <2>1, <2>2 DEF ThreadOK
  <2>4. \A c \in live : Holds(t, c) => Holds(t, c)'
    BY <1>4, <1>5 DEF Holds
  <2> QED BY <2>3, <2>4
<1>6. /\ inbox' \in [Values -> 0 .. MaxMsgs] /\ serving' \in SUBSET Threads
      /\ used \subseteq used' /\ used' \in SUBSET Uses
  BY <1>1 DEF TypeOK
<1> QED BY <1>1, <1>2, <1>3, <1>4, <1>5, <1>6, CallStep

\* rteipc_send or rteipc_evsend has looked the context up.
LEMMA SendStep ==
  ASSUME ConInv, NEW t \in Threads, NEW id \in Ids, Send(t, id)
  PROVE  ConInv'
<1>1. /\ TypeOK /\ CallsOK /\ status = "running" /\ call[t] = NoCall /\ Get(id) # NULL
      /\ used' = used \cup UseOf(t, id) /\ UseOf(t, id) \subseteq Uses
      /\ UNCHANGED <<hasdesc, desc, next_entry, entries, live, ctx, fds, status>>
      /\ UNCHANGED <<inbox, cbk, serving>>
  BY DEF ConInv, Send, InUser, dtblVars
<1>2. PICK p \in Values : p = Get(id)
  BY <1>1, GetType DEF TypeOK, DtblTypeOK
<1> DEFINE x == [NoCall EXCEPT !.op = "send", !.id = id, !.ptr = p]
<1>3. x \in Call /\ x.op = "send" /\ x.id = id /\ x.ptr = p
  BY NoCallType DEF Call
<1>4. call' = [call EXCEPT ![t] = x]
  BY <1>2 DEF Send
<1> HIDE DEF x
<1>5. /\ cbk[t] \in Call /\ cbk' = [cbk EXCEPT ![t] = cbk[t]] /\ call[t].op = "none"
      /\ cbk[t] # NoCall => cbk[t].op \in {"event", "read"}
  BY <1>1, CallParts, SameCalls, NoCallType DEF CallsOK
<1>6. ASSUME Connected, call'[t] = x, cbk'[t] = cbk[t]
      PROVE  /\ ThreadOK(t)'
             /\ \A c \in live : Holds(t, c) => Holds(t, c)' \/ ctx[c].id \in fds
  <2>1. CbkOK(t)'
    BY <1>1, <1>6, CbkKept DEF Connected, ThreadOK
  <2>2. ASSUME used' \cap {"share", "invalid"} = {}
        PROVE  p \in live' /\ ctx'[p].thread = t /\ ctx'[p].bev = "open"
    <3>1. UseOf(t, id) \cap {"share", "invalid"} = {}
      BY <1>1, <2>2
    <3>2. PICK c \in live : ctx[c].thread = t /\ ctx[c].id = id /\ id \in desc
      BY <3>1, OwnUse
    <3>3. c = p
      BY <1>1, <1>2, <1>6, <3>2, GetOwn, IdsType
    <3>4. ctx[c].bev # "freed"
      BY <1>6, <3>2, IdsType DEF Connected, CtxOK
    <3>5. ctx[c].bev \in {"open", "freed"}
      BY <1>1, CtxParts DEF Context
    <3> QED BY <1>1, <3>2, <3>3, <3>4, <3>5
  <2>3. ThreadOK(t)'
    BY <1>3, <1>6, <2>1, <2>2 DEF ThreadOK
  <2>4. \A c \in live : Holds(t, c) => Holds(t, c)'
    BY <1>5, <1>6 DEF Holds
  <2> QED BY <2>3, <2>4
<1>7. /\ inbox' \in [Values -> 0 .. MaxMsgs] /\ serving' \in SUBSET Threads
      /\ used \subseteq used' /\ used' \in SUBSET Uses
  BY <1>1 DEF TypeOK
<1> QED BY <1>1, <1>3, <1>4, <1>5, <1>6, <1>7, CallStep

\* A step that changes neither contexts nor calls.
LEMMA StillStep ==
  ASSUME ConInv, UNCHANGED <<hasdesc, desc, next_entry, entries, live, ctx, fds, status>>,
         UNCHANGED <<call, cbk, used>>,
         inbox' \in [Values -> 0 .. MaxMsgs], serving' \in SUBSET Threads
  PROVE  ConInv'
<1>1. TypeOK' /\ CallsOK' /\ OneCallback'
  BY DEF ConInv, TypeOK, DtblTypeOK, CallsOK, OneCallback
<1>2. ASSUME Connected PROVE Connected'
  BY <1>2 DEF Connected, InSequence, ThreadOK, CbkOK, OwnCtx, CtxOK, WaitsFor, Holds
<1> QED BY <1>1, <1>2 DEF ConInv, ConShape, FirstGeneration, MemoryIsSafe

LEMMA DispatchStep ==
  ASSUME ConInv, NEW t \in Threads, Dispatch(t)
  PROVE  ConInv'
<1>1. serving' \in SUBSET Threads /\ inbox' \in [Values -> 0 .. MaxMsgs]
  BY DEF ConInv, TypeOK, Dispatch
<1> QED BY <1>1, StillStep DEF Dispatch, dtblVars

LEMMA IncomingStep ==
  ASSUME ConInv, NEW c \in Values, Incoming(c)
  PROVE  ConInv'
<1>1. inbox \in [Values -> 0 .. MaxMsgs] /\ inbox[c] \in 0 .. MaxMsgs /\ inbox[c] < MaxMsgs
  BY DEF ConInv, TypeOK, Incoming
<1>2. inbox[c] + 1 \in 0 .. MaxMsgs
  BY <1>1
<1>3. inbox' \in [Values -> 0 .. MaxMsgs] /\ serving' \in SUBSET Threads
  BY <1>1, <1>2 DEF Incoming, ConInv, TypeOK
<1> QED BY <1>3, StillStep DEF Incoming, dtblVars

-----------------------------------------------------------------------------
(* Steps that give a context its owner or its callbacks *)

\* rteipc_connect returns the id.
LEMMA ConnectReturnsStep ==
  ASSUME ConInv, NEW t \in Threads, ConnectReturns(t)
  PROVE  ConInv'
<1>1. /\ TypeOK /\ CallsOK /\ OneCallback /\ status = "running" /\ call[t].op = "socket"
      /\ call' = [call EXCEPT ![t] = NoCall] /\ fds' = fds \cup {call[t].id}
      /\ UNCHANGED <<hasdesc, desc, next_entry, entries, live, ctx, status>>
      /\ UNCHANGED <<inbox, cbk, serving, used>>
  BY DEF ConInv, ConnectReturns, At, dtblVars
<1>2. call[t].id \in Ids /\ cbk[t] = NoCall /\ cbk' = [cbk EXCEPT ![t] = NoCall]
  BY <1>1, SameCalls DEF CallsOK
<1>3. /\ call' \in [Threads -> Call] /\ cbk' \in [Threads -> Call]
      /\ call'[t] = NoCall /\ cbk'[t] = NoCall
      /\ \A u \in Threads \ {t} : call'[u] = call[u] /\ cbk'[u] = cbk[u]
      /\ CallsOK' /\ OneCallback'
  BY <1>1, <1>2, NoCallType, NewCalls
<1>4. TypeOK'
  BY <1>1, <1>2, <1>3 DEF TypeOK, DtblTypeOK
<1>5. ASSUME Connected PROVE Connected'
  <2>1. ThreadOK(t)'
    BY <1>3, IdleThread DEF CbkOK
  <2>2. OwnCtx(t, call[t])
    BY <1>1, <1>5 DEF Connected, ThreadOK
  <2>3. \A c \in live : Holds(t, c) => ctx[c].id \in fds'
    BY <1>1, <1>2, <2>2 DEF Holds, OwnCtx
  <2> QED BY <1>1, <1>3, <1>5, <2>1, <2>3, ThreadStep
<1>6. FirstGeneration' <=> FirstGeneration
  BY <1>1 DEF FirstGeneration
<1> QED BY <1>1, <1>3, <1>4, <1>5, <1>6, Assemble

\* rteipc_setcb sets the callbacks.
LEMMA SetCbReturnsStep ==
  ASSUME ConInv, NEW t \in Threads, NEW cb \in Callbacks, SetCbReturns(t, cb)
  PROVE  ConInv'
<1>1. /\ TypeOK /\ CallsOK /\ OneCallback /\ status = "running" /\ call[t].op = "setcb"
      /\ call' = [call EXCEPT ![t] = NoCall] /\ LockFree
      /\ UNCHANGED <<hasdesc, desc, next_entry, entries, live, fds, status>>
      /\ UNCHANGED <<inbox, cbk, serving, used>>
  BY DEF ConInv, SetCbReturns, At, dtblVars
<1>2. cbk[t] = NoCall /\ cbk' = [cbk EXCEPT ![t] = NoCall]
  BY <1>1, SameCalls DEF LockFree
<1>3. /\ call' \in [Threads -> Call] /\ cbk' \in [Threads -> Call]
      /\ call'[t] = NoCall /\ cbk'[t] = NoCall
      /\ \A u \in Threads \ {t} : call'[u] = call[u] /\ cbk'[u] = cbk[u]
      /\ CallsOK' /\ OneCallback'
  BY <1>1, <1>2, NoCallType, NewCalls
<1>4. /\ ctx' \in [Values -> Context]
      /\ \A c \in live :
           /\ ctx'[c].thread = ctx[c].thread /\ ctx'[c].id = ctx[c].id
           /\ ctx'[c].bev = ctx[c].bev
           /\ ctx'[c].cb = "uninitialised" => ctx[c].cb = "uninitialised"
  <2>1. CASE ctx' = ctx
    BY <1>1, <2>1 DEF TypeOK
  <2>2. CASE Get(call[t].id) \in live /\ ctx' = [ctx EXCEPT ![Get(call[t].id)].cb = cb]
    <3>1. PICK p \in live : ctx' = [ctx EXCEPT ![p] = [ctx[p] EXCEPT !.cb = cb]]
      BY <2>2
    <3>2. p \in Values /\ ctx[p] \in Context /\ live \subseteq Values
      BY <1>1, CtxParts DEF TypeOK
    <3> DEFINE z == [ctx[p] EXCEPT !.cb = cb]
    <3>3. /\ z \in Context /\ z.thread = ctx[p].thread /\ z.id = ctx[p].id
          /\ z.bev = ctx[p].bev /\ z.cb = cb /\ cb # "uninitialised"
      BY <3>2 DEF Context, Callbacks
    <3>4. ctx' = [ctx EXCEPT ![p] = z]
      BY <3>1
    <3> HIDE DEF z
    <3> QED BY <1>1, <3>2, <3>3, <3>4 DEF TypeOK
  <2> QED BY <2>1, <2>2 DEF SetCbReturns
<1>5. TypeOK'
  BY <1>1, <1>3, <1>4 DEF TypeOK, DtblTypeOK
<1>6. ASSUME Connected PROVE Connected'
  <2>1. ThreadOK(t)'
    BY <1>3, IdleThread DEF CbkOK
  <2>2. \A c \in live : ~Holds(t, c)
    BY <1>1, <1>2 DEF Holds
  <2> QED BY <1>1, <1>3, <1>4, <1>6, <2>1, <2>2, ThreadStep
<1>7. FirstGeneration' <=> FirstGeneration
  BY <1>1 DEF FirstGeneration
<1> QED BY <1>1, <1>3, <1>5, <1>6, <1>7, Assemble

-----------------------------------------------------------------------------
(* Steps that allocate, register or free a context *)

LEMMA ConnectStep ==
  ASSUME ConInv, NEW t \in Threads, NEW c \in Values, Connect(t, c)
  PROVE  ConInv'
<1> DEFINE x == [NoCall EXCEPT !.op = "connect", !.ptr = c]
           n == [thread |-> t, id |-> -1, bev |-> "open", cb |-> "uninitialised"]
<1>1. /\ TypeOK /\ CallsOK /\ OneCallback /\ status = "running" /\ call[t] = NoCall
      /\ c \notin live /\ live' = live \cup {c}
      /\ Reenters(t) \subseteq Uses /\ used' = used \cup Reenters(t)
      /\ UNCHANGED <<hasdesc, desc, next_entry, entries, fds, status>>
      /\ UNCHANGED <<cbk, serving>>
  BY DEF ConInv, Connect, InUser, dtblVars
<1>2. /\ call' = [call EXCEPT ![t] = x] /\ ctx' = [ctx EXCEPT ![c] = n]
      /\ inbox' = [inbox EXCEPT ![c] = 0]
  BY DEF Connect
<1>3. x \in Call /\ x.op = "connect" /\ x.ptr = c
  BY NoCallType DEF Call
<1>4. n \in Context /\ n.thread = t /\ n.id = -1 /\ n.bev = "open"
  BY DEF Context
<1> HIDE DEF x, n
<1>5. /\ cbk[t] \in Call /\ cbk' = [cbk EXCEPT ![t] = cbk[t]] /\ call[t].op = "none"
      /\ cbk[t] # NoCall => cbk[t].op \in {"event", "read"}
  BY <1>1, CallParts, SameCalls, NoCallType DEF CallsOK
<1>6. /\ call' \in [Threads -> Call] /\ cbk' \in [Threads -> Call]
      /\ call'[t] = x /\ cbk'[t] = cbk[t]
      /\ \A u \in Threads \ {t} : call'[u] = call[u] /\ cbk'[u] = cbk[u]
      /\ CallsOK' /\ OneCallback'
  BY <1>1, <1>2, <1>3, <1>5, NewCalls
<1>7. /\ ctx' \in [Values -> Context] /\ ctx'[c] = n
      /\ \A d \in live : d # c /\ ctx'[d] = ctx[d]
      /\ inbox' \in [Values -> 0 .. MaxMsgs]
  BY <1>1, <1>2, <1>4 DEF TypeOK
<1>8. TypeOK'
  BY <1>1, <1>6, <1>7 DEF TypeOK, DtblTypeOK
<1>9. ASSUME Connected PROVE Connected'
  <2>1. InSequence' /\ TableGrows /\ Len(entries') \in Nat
    BY <1>1, <1>9, TableUnchanged DEF Connected, InSequence, TypeOK, DtblTypeOK
  <2>2. ThreadOK(t)'
    <3>1. CbkOK(t)'
      BY <1>1, <1>6, <1>7, <1>9 DEF Connected, ThreadOK, CbkOK, OwnCtx
    <3> QED BY <1>1, <1>3, <1>4, <1>6, <1>7, <3>1 DEF ThreadOK
  <2>3. ASSUME NEW d \in live', ctx'[d].thread = t PROVE CtxOK(d)'
    <3>1. CASE d = c
      <4>1. WaitsFor(t, c)'
        BY <1>3, <1>6 DEF WaitsFor
      <4> QED BY <1>4, <1>7, <3>1, <4>1 DEF CtxOK
    <3>2. CASE d \in live
      <4>1. CtxOK(d) /\ ctx'[d] = ctx[d]
        BY <1>7, <1>9, <3>2 DEF Connected
      <4>2. \A u \in Threads : WaitsFor(u, d) => WaitsFor(u, d)'
        BY <1>5, <1>6 DEF WaitsFor
      <4>3. \A u \in Threads : Holds(u, d) => Holds(u, d)'
        BY <1>5, <1>6 DEF Holds
      <4> QED BY <1>1, <2>1, <3>2, <4>1, <4>2, <4>3, CtxKept
    <3> QED BY <1>1, <3>1, <3>2
  <2> QED BY <1>1, <1>4, <1>6, <1>7, <1>9, <2>1, <2>2, <2>3, ShapeStep
<1>10. FirstGeneration' <=> FirstGeneration
  BY <1>1 DEF FirstGeneration
<1> QED BY <1>1, <1>6, <1>8, <1>9, <1>10, Assemble

\* rteipc_connect registers the context under a new id.
LEMMA ConnectRegisterStep ==
  ASSUME ConInv, NEW t \in Threads, ConnectRegister(t)
  PROVE  ConInv'
<1>1. /\ TypeOK /\ CallsOK /\ OneCallback /\ status = "running" /\ call[t].op = "connect"
      /\ LockFree /\ DtblTypeOK
      /\ UNCHANGED <<live, fds, status>> /\ UNCHANGED <<inbox, cbk, serving, used>>
  BY DEF ConInv, ConnectRegister, At, TypeOK
<1>2. PICK c \in Values : c = call[t].ptr
  BY <1>1 DEF CallsOK
<1>3. PICK id \in Ids : /\ DtblSet(c, id) /\ ctx' = [ctx EXCEPT ![c].id = id]
                        /\ call' = [call EXCEPT ![t].op = "socket", ![t].id = id]
  BY <1>2 DEF ConnectRegister
<1> DEFINE x == [call[t] EXCEPT !.op = "socket", !.id = id]
           n == [ctx[c] EXCEPT !.id = id]
<1>4. call[t] \in Call /\ ctx[c] \in Context /\ cbk[t] = NoCall
  BY <1>1, CallParts DEF LockFree, TypeOK
<1>5. x \in Call /\ x.op = "socket" /\ x.id = id /\ x.ptr = c
  BY <1>2, <1>4 DEF Call
<1>6. /\ n \in Context /\ n.id = id /\ n.thread = ctx[c].thread
      /\ n.bev = ctx[c].bev /\ n.cb = ctx[c].cb
  BY <1>4 DEF Context
<1>7. call' = [call EXCEPT ![t] = x] /\ ctx' = [ctx EXCEPT ![c] = n]
  BY <1>1, <1>3 DEF TypeOK
<1> HIDE DEF x, n
<1>8. cbk' = [cbk EXCEPT ![t] = NoCall]
  BY <1>1, <1>4, SameCalls
<1>9. /\ call' \in [Threads -> Call] /\ cbk' \in [Threads -> Call]
      /\ call'[t] = x /\ cbk'[t] = NoCall
      /\ \A u \in Threads \ {t} : call'[u] = call[u] /\ cbk'[u] = cbk[u]
      /\ CallsOK' /\ OneCallback'
  BY <1>1, <1>5, <1>7, <1>8, NoCallType, NewCalls
<1>10. /\ ctx' \in [Values -> Context] /\ ctx'[c] = n
       /\ \A d \in Values \ {c} : ctx'[d] = ctx[d]
  BY <1>1, <1>6, <1>7 DEF TypeOK
<1>11. DtblTypeOK'
  BY <1>1, <1>3, StoreType DEF DtblSet
<1>12. TypeOK'
  BY <1>1, <1>9, <1>10, <1>11 DEF TypeOK
<1>13. entries \in Seq(Entry) /\ Len(entries) \in Nat /\ [id |-> id, value |-> c] \in Entry
  BY <1>1 DEF DtblTypeOK, Entry
<1>14. Len(entries') = Len(entries) + 1
  BY <1>3, <1>13 DEF DtblSet
<1>15. FirstGeneration' => FirstGeneration /\ Len(entries) < Width * MaxEntries
  BY <1>13, <1>14, IdsType DEF FirstGeneration
<1>16. ASSUME FirstGeneration', Connected PROVE Connected'
  <2>1. /\ InSequence' /\ id = Len(entries)
        /\ \A i \in 1 .. Len(entries) : entries'[i] = entries[i]
        /\ entries'[id + 1].value = c
    BY <1>1, <1>3, <1>15, <1>16, StoreInSequence DEF Connected, DtblSet
  <2>2. TableGrows
    BY <1>3, <1>13, <1>14, <2>1 DEF TableGrows, DtblSet
  <2>3. c \in live /\ ctx[c].thread = t /\ ctx[c].id = -1 /\ live \subseteq Values
    BY <1>1, <1>2, <1>16 DEF Connected, ThreadOK, TypeOK
  <2>4. ctx[c].bev = "open"
    BY <1>16, <2>3 DEF Connected, CtxOK
  <2>5. ThreadOK(t)'
    <3>1. OwnCtx(t, call[t])'
      BY <1>1, <1>5, <1>6, <1>9, <1>10, <2>3 DEF OwnCtx
    <3> QED BY <1>5, <1>9, <3>1 DEF ThreadOK, CbkOK
  <2>6. ASSUME NEW d \in live', ctx'[d].thread = t PROVE CtxOK(d)'
    <3>1. CASE d = c
      <4>1. Holds(t, c)'
        BY <1>5, <1>9 DEF Holds
      <4> QED BY <1>6, <1>10, <1>13, <1>14, <2>1, <2>4, <3>1, <4>1 DEF CtxOK
    <3>2. CASE d # c
      <4>1. d \in live /\ CtxOK(d) /\ ctx'[d] = ctx[d]
        BY <1>1, <1>10, <1>16, <2>3, <3>2 DEF Connected
      <4>2. \A u \in Threads : WaitsFor(u, d) => WaitsFor(u, d)'
        BY <1>2, <1>9, <3>2 DEF WaitsFor
      <4>3. \A u \in Threads : Holds(u, d) => Holds(u, d)'
        BY <1>1, <1>4, <1>9 DEF Holds
      <4> QED BY <1>1, <1>13, <1>14, <2>2, <4>1, <4>2, <4>3, CtxKept
    <3> QED BY <3>1, <3>2
  <2>7. \A d \in live : ctx'[d].thread = ctx[d].thread /\ (d # c => ctx'[d] = ctx[d])
    BY <1>6, <1>10, <2>3
  <2>8. -1 \notin fds
    BY <1>1, IdsType DEF TypeOK
  <2> QED BY <1>1, <1>9, <1>13, <1>14, <1>16, <2>1, <2>2, <2>3, <2>5, <2>6, <2>7, <2>8, ShapeStep
<1> QED BY <1>1, <1>9, <1>12, <1>15, <1>16, Assemble

\* A context of thread t is freed that no other call, callback or id refers to.
LEMMA FreeStep ==
  ASSUME TypeOK, Connected, NEW t \in Threads, NEW p \in live, ctx[p].thread = t,
         live' = live \ {p}, \A c \in live \ {p} : ctx'[c] = ctx[c],
         UNCHANGED <<next_entry, entries, used>>, desc' \subseteq desc,
         fds' = fds \ {ctx[p].id}, call'[t] = NoCall, cbk'[t] = NoCall,
         \A u \in Threads \ {t} : call'[u] = call[u] /\ cbk'[u] = cbk[u],
         \A c \in live \ {p} : ~WaitsFor(t, c) /\ ~Holds(t, c)
  PROVE  Connected'
<1>1. InSequence' /\ TableGrows /\ Len(entries') \in Nat
  BY TableUnchanged DEF Connected, InSequence, TypeOK, DtblTypeOK
<1>2. ThreadOK(t)'
  BY IdleThread DEF CbkOK
<1>3. ASSUME NEW c \in live \ {p} PROVE ctx[c].id \in fds' <=> ctx[c].id \in fds
  <2>1. CASE ctx[c].id \in Nat
    BY <2>1, IdsDiffer
  <2>2. CASE ctx[c].id = -1
    BY <2>2, IdsType DEF TypeOK
  <2> QED BY <2>1, <2>2, CtxParts, IdsType
<1>4. ASSUME NEW c \in live' PROVE CtxOK(c)'
  <2>1. c \in live /\ CtxOK(c) /\ ctx'[c] = ctx[c]
    BY DEF Connected
  <2>2. \A u \in Threads : WaitsFor(u, c) => WaitsFor(u, c)'
    BY DEF WaitsFor
  <2>3. \A u \in Threads : Holds(u, c) => Holds(u, c)'
    BY DEF Holds
  <2> QED BY <1>1, <1>3, <2>1, <2>2, <2>3, CtxKept
<1> QED BY <1>1, <1>2, <1>3, <1>4, ShapeStep

LEMMA ConnectFullStep ==
  ASSUME ConInv, NEW t \in Threads, ConnectFull(t)
  PROVE  ConInv'
<1>1. /\ TypeOK /\ CallsOK /\ OneCallback /\ status = "running" /\ call[t].op = "connect"
      /\ LockFree /\ hasdesc' = TRUE /\ UNCHANGED <<desc, next_entry, entries>>
      /\ live' = live \ {call[t].ptr} /\ call' = [call EXCEPT ![t] = NoCall]
      /\ ctx' = [ctx EXCEPT ![call[t].ptr] = Blank]
      /\ UNCHANGED <<inbox, cbk, serving, fds, status, used>>
  BY DEF ConInv, ConnectFull, DtblSetFull, At
<1>2. cbk[t] = NoCall /\ cbk' = [cbk EXCEPT ![t] = NoCall] /\ hasdesc' \in BOOLEAN
  <2>1. hasdesc' \in BOOLEAN
    BY <1>1, Zenon
  <2> QED BY <1>1, <2>1, SameCalls DEF LockFree
<1>3. /\ call' \in [Threads -> Call] /\ cbk' \in [Threads -> Call]
      /\ call'[t] = NoCall /\ cbk'[t] = NoCall
      /\ \A u \in Threads \ {t} : call'[u] = call[u] /\ cbk'[u] = cbk[u]
      /\ CallsOK' /\ OneCallback'
  BY <1>1, <1>2, NoCallType, NewCalls
<1>4. PICK p \in Values : p = call[t].ptr
  BY <1>1 DEF CallsOK
<1>5. Blank \in Context
  BY DEF Blank, Context, Callbacks
<1>6. ctx' \in [Values -> Context] /\ \A c \in Values \ {p} : ctx'[c] = ctx[c]
  BY <1>1, <1>4, <1>5 DEF TypeOK
<1>7. TypeOK'
  BY <1>1, <1>2, <1>3, <1>6 DEF TypeOK, DtblTypeOK
<1>8. ASSUME Connected PROVE Connected'
  <2>1. p \in live /\ ctx[p].thread = t /\ ctx[p].id = -1 /\ live \subseteq Values
    BY <1>1, <1>4, <1>8 DEF Connected, ThreadOK, TypeOK
  <2>2. fds' = fds \ {ctx[p].id}
    BY <1>1, <2>1, IdsType DEF TypeOK
  <2>3. \A c \in live \ {p} : ~WaitsFor(t, c) /\ ~Holds(t, c)
    BY <1>1, <1>2, <1>4 DEF WaitsFor, Holds
  <2>4. \A c \in live \ {p} : ctx'[c] = ctx[c]
    BY <1>6, <2>1
  <2> QED BY <1>1, <1>3, <1>4, <1>8, <2>1, <2>2, <2>3, <2>4, FreeStep
<1>9. FirstGeneration' <=> FirstGeneration
  BY <1>1 DEF FirstGeneration
<1> QED BY <1>1, <1>3, <1>7, <1>8, <1>9, Assemble

\* err_cb returns and connect_event_cb frees the context.
LEMMA EventReturnsStep ==
  ASSUME ConInv, NEW t \in Threads, EventReturns(t)
  PROVE  ConInv'
<1>1. /\ TypeOK /\ CallsOK /\ OneCallback /\ status = "running" /\ call[t] = NoCall
      /\ cbk[t].op = "event" /\ UNCHANGED <<hasdesc, desc, next_entry, entries>>
      /\ live' = live \ {cbk[t].ptr} /\ cbk' = [cbk EXCEPT ![t] = NoCall]
      /\ ctx' = [ctx EXCEPT ![cbk[t].ptr] = Blank] /\ serving' = serving \ {t}
      /\ UNCHANGED <<inbox, call, fds, status, used>>
  BY DEF ConInv, EventReturns, InUser, dtblVars
<1>2. call' = [call EXCEPT ![t] = NoCall] /\ call[t].op = "none" /\ cbk[t] # NoCall
  BY <1>1, SameCalls, NoCallType
<1>3. /\ call' \in [Threads -> Call] /\ cbk' \in [Threads -> Call]
      /\ call'[t] = NoCall /\ cbk'[t] = NoCall
      /\ \A u \in Threads \ {t} : call'[u] = call[u] /\ cbk'[u] = cbk[u]
      /\ CallsOK' /\ OneCallback'
  BY <1>1, <1>2, NoCallType, NewCalls
<1>4. PICK p : p = cbk[t].ptr
  OBVIOUS
<1>5. Blank \in Context
  BY DEF Blank, Context, Callbacks
<1>6. ctx' \in [Values -> Context] /\ \A c \in Values \ {p} : ctx'[c] = ctx[c]
  BY <1>1, <1>4, <1>5 DEF TypeOK
<1>7. TypeOK'
  BY <1>1, <1>3, <1>6 DEF TypeOK, DtblTypeOK
<1>8. ASSUME Connected PROVE Connected'
  <2>1. /\ p \in live /\ ctx[p].thread = t /\ ctx[p].id \notin fds /\ live \subseteq Values
    BY <1>1, <1>2, <1>4, <1>8 DEF Connected, ThreadOK, CbkOK, OwnCtx, TypeOK
  <2>2. fds' = fds \ {ctx[p].id}
    BY <1>1, <2>1
  <2>3. \A c \in live \ {p} : ~WaitsFor(t, c) /\ ~Holds(t, c)
    BY <1>2, <1>4 DEF WaitsFor, Holds
  <2>4. \A c \in live \ {p} : ctx'[c] = ctx[c]
    BY <1>6, <2>1
  <2> QED BY <1>1, <1>3, <1>4, <1>8, <2>1, <2>2, <2>3, <2>4, FreeStep
<1>9. FirstGeneration' <=> FirstGeneration
  BY <1>1 DEF FirstGeneration
<1> QED BY <1>1, <1>3, <1>7, <1>8, <1>9, Assemble

\* bufferevent_free.
LEMMA FreeBev ==
  ASSUME TypeOK, NEW q, NEW f, f = [ctx EXCEPT ![q].bev = "freed"]
  PROVE  /\ f \in [Values -> Context]
         /\ \A c \in Values \ {q} : f[c] = ctx[c]
         /\ q \in Values => /\ f[q].thread = ctx[q].thread /\ f[q].id = ctx[q].id
                            /\ f[q].bev = "freed" /\ f[q].cb = ctx[q].cb
<1>1. ctx \in [Values -> Context] /\ f = [ctx EXCEPT ![q] = [ctx[q] EXCEPT !.bev = "freed"]]
  BY DEF TypeOK
<1> DEFINE z == [ctx[q] EXCEPT !.bev = "freed"]
<1>2. q \in Values => /\ z \in Context /\ z.thread = ctx[q].thread /\ z.id = ctx[q].id
                      /\ z.bev = "freed" /\ z.cb = ctx[q].cb
  BY <1>1 DEF Context
<1>3. f = [ctx EXCEPT ![q] = z]
  BY <1>1
<1> HIDE DEF z
<1>4. CASE q \in Values
  BY <1>1, <1>2, <1>3, <1>4
<1>5. CASE q \notin Values
  BY <1>1, <1>3, <1>5
<1> QED BY <1>4, <1>5

\* connect_event_cb frees the context.
LEMMA EventQuietStep ==
  ASSUME ConInv, NEW t \in Threads, EventQuiet(t)
  PROVE  ConInv'
<1>1. /\ TypeOK /\ CallsOK /\ OneCallback /\ status = "running" /\ call[t].op = "event"
      /\ LockFree /\ desc' = desc \ {call[t].id} /\ UNCHANGED <<hasdesc, next_entry, entries>>
      /\ call' = [call EXCEPT ![t] = NoCall] /\ fds' = fds \ {call[t].id}
      /\ serving' = serving \ {t} /\ UNCHANGED <<inbox, cbk, status, used>>
  BY DEF ConInv, EventQuiet, DtblDel, At
<1>2. PICK p \in live : /\ p = Get(call[t].id) /\ live' = live \ {p}
                        /\ ctx' = [ctx EXCEPT ![call[t].ptr].bev = "freed", ![p] = Blank]
  BY DEF EventQuiet
<1>3. /\ cbk[t] = NoCall /\ cbk' = [cbk EXCEPT ![t] = NoCall] /\ call[t].id \in Ids
      /\ p \in Values
  BY <1>1, SameCalls, CtxParts DEF LockFree, CallsOK
<1>4. /\ call' \in [Threads -> Call] /\ cbk' \in [Threads -> Call]
      /\ call'[t] = NoCall /\ cbk'[t] = NoCall
      /\ \A u \in Threads \ {t} : call'[u] = call[u] /\ cbk'[u] = cbk[u]
      /\ CallsOK' /\ OneCallback'
  BY <1>1, <1>3, NoCallType, NewCalls
<1>5. Blank \in Context
  BY DEF Blank, Context, Callbacks
<1>6. PICK f : f = [ctx EXCEPT ![call[t].ptr].bev = "freed"]
  OBVIOUS
<1>7. f \in [Values -> Context] /\ \A c \in Values \ {call[t].ptr} : f[c] = ctx[c]
  BY <1>1, <1>6, FreeBev
<1>8. ctx' = [f EXCEPT ![p] = Blank]
  BY <1>2, <1>6
<1>9. /\ ctx' \in [Values -> Context]
      /\ \A c \in Values : c # p /\ c # call[t].ptr => ctx'[c] = ctx[c]
  BY <1>3, <1>5, <1>7, <1>8
<1>10. TypeOK'
  BY <1>1, <1>2, <1>4, <1>9 DEF TypeOK, DtblTypeOK
<1>11. ASSUME Connected PROVE Connected'
  <2>1. OwnCtx(t, call[t]) /\ live \subseteq Values
    BY <1>1, <1>11 DEF Connected, ThreadOK, TypeOK
  <2>2. p = call[t].ptr
    BY <1>1, <1>2, <1>3, <1>11, <2>1, GetOfOwned
  <2>3. ctx[p].thread = t /\ fds' = fds \ {ctx[p].id}
    BY <1>1, <2>1, <2>2 DEF OwnCtx
  <2>4. \A c \in live \ {p} : ~WaitsFor(t, c) /\ ~Holds(t, c)
    BY <1>1, <1>3, <2>2 DEF WaitsFor, Holds
  <2>5. \A c \in live \ {p} : ctx'[c] = ctx[c]
    BY <1>9, <2>1, <2>2
  <2>6. desc' \subseteq desc
    BY <1>1
  <2> QED BY <1>1, <1>2, <1>4, <1>11, <2>3, <2>4, <2>5, <2>6, FreeStep
<1>12. FirstGeneration' <=> FirstGeneration
  BY <1>1 DEF FirstGeneration
<1> QED BY <1>1, <1>4, <1>10, <1>11, <1>12, Assemble

\* connect_event_cb locks ctx_mutex and calls err_cb.
LEMMA EventCallsStep ==
  ASSUME ConInv, NEW t \in Threads, EventCalls(t)
  PROVE  ConInv'
<1>1. /\ TypeOK /\ CallsOK /\ OneCallback /\ status = "running" /\ call[t].op = "event"
      /\ LockFree /\ desc' = desc \ {call[t].id} /\ UNCHANGED <<hasdesc, next_entry, entries>>
      /\ call' = [call EXCEPT ![t] = NoCall] /\ fds' = fds \ {call[t].id}
      /\ ctx' = [ctx EXCEPT ![call[t].ptr].bev = "freed"]
      /\ UNCHANGED <<live, inbox, serving, status, used>>
  BY DEF ConInv, EventCalls, DtblDel, At
<1>2. PICK p \in live : /\ p = Get(call[t].id)
                        /\ cbk' = [cbk EXCEPT ![t] = [call[t] EXCEPT !.ptr = p]]
  BY DEF EventCalls
<1>3. /\ cbk[t] = NoCall /\ call[t] \in Call /\ call[t].id \in Ids /\ p \in Values
  BY <1>1, CtxParts, CallParts DEF LockFree, CallsOK
<1> DEFINE y == [call[t] EXCEPT !.ptr = p]
<1>4. y \in Call /\ y.op = "event" /\ y.id = call[t].id /\ y.ptr = p
  BY <1>1, <1>3 DEF Call
<1>5. cbk' = [cbk EXCEPT ![t] = y]
  BY <1>2
<1> HIDE DEF y
<1>6. /\ call' \in [Threads -> Call] /\ cbk' \in [Threads -> Call]
      /\ call'[t] = NoCall /\ cbk'[t] = y
      /\ \A u \in Threads \ {t} : call'[u] = call[u] /\ cbk'[u] = cbk[u]
      /\ CallsOK' /\ OneCallback'
  BY <1>1, <1>4, <1>5, NoCallType, NewCalls
<1>7. PICK q : q = call[t].ptr
  OBVIOUS
<1>8. /\ ctx' \in [Values -> Context] /\ \A c \in Values \ {q} : ctx'[c] = ctx[c]
      /\ q \in Values => ctx'[q].thread = ctx[q].thread /\ ctx'[q].id = ctx[q].id
  BY <1>1, <1>7, FreeBev, ZenonT(30)
<1>9. TypeOK'
  BY <1>1, <1>6, <1>8 DEF TypeOK, DtblTypeOK
<1>10. ASSUME Connected PROVE Connected'
  <2>1. OwnCtx(t, call[t]) /\ live \subseteq Values
    BY <1>1, <1>10 DEF Connected, ThreadOK, TypeOK
  <2>2. p = q
    BY <1>1, <1>2, <1>3, <1>7, <1>10, <2>1, GetOfOwned
  <2>3. ctx[p].thread = t /\ ctx[p].id = call[t].id /\ ctx[p].id \in Nat
    BY <1>3, <1>7, <2>1, <2>2, IdsType DEF OwnCtx
  <2>4. InSequence' /\ TableGrows /\ Len(entries') \in Nat
    BY <1>1, <1>10, TableUnchanged DEF Connected, InSequence, TypeOK, DtblTypeOK
  <2>5. ThreadOK(t)'
    <3>1. CbkOK(t)'
      BY <1>1, <1>3, <1>4, <1>6, <1>8, <2>2, <2>3 DEF CbkOK, OwnCtx
    <3> QED BY <1>6, <3>1, IdleThread
  <2>6. ASSUME NEW c \in live \ {p}
        PROVE  ctx'[c] = ctx[c] /\ (ctx[c].id \in fds' <=> ctx[c].id \in fds)
    <3>1. ctx[c].id # ctx[p].id
      BY <1>1, <1>10, <2>3, IdsDiffer
    <3> QED BY <1>1, <1>8, <2>1, <2>2, <2>3, <3>1
  <2>7. ASSUME NEW c \in live', ctx'[c].thread = t PROVE CtxOK(c)'
    <3>1. CASE c = p
      <4>1. Holds(t, p)'
        BY <1>4, <1>6, NoCallType DEF Holds
      <4>2. /\ ctx[p].id < Len(entries) /\ entries[ctx[p].id + 1].value = p
        BY <1>10, <2>3 DEF Connected, CtxOK
      <4>3. ctx'[p].id = ctx[p].id /\ ctx'[p].id \notin desc'
        BY <1>1, <1>3, <1>8, <2>2, <2>3
      <4> QED BY <1>1, <2>3, <3>1, <4>1, <4>2, <4>3 DEF CtxOK
    <3>2. CASE c # p
      <4>1. c \in live \ {p} /\ CtxOK(c)
        BY <1>1, <1>10, <3>2 DEF Connected
      <4>2. \A u \in Threads : WaitsFor(u, c) => WaitsFor(u, c)'
        BY <1>1, <1>6 DEF WaitsFor
      <4>3. \A u \in Threads : Holds(u, c) => Holds(u, c)'
        BY <1>1, <1>3, <1>6, <1>7, <2>2, <4>1 DEF Holds
      <4> QED BY <1>1, <2>4, <2>6, <4>1, <4>2, <4>3, CtxKept
    <3> QED BY <3>1, <3>2
  <2>8. ctx[p].id \notin fds' /\ fds' \subseteq fds /\ ctx'[p].thread = t
    BY <1>1, <1>3, <1>8, <2>2, <2>3
  <2>9. UNCHANGED <<live, used>> /\ TypeOK
    BY <1>1
  <2>10. \A c \in live : ctx[c].thread # t =>
           /\ c \in live' /\ ctx'[c].thread = ctx[c].thread /\ ctx'[c].id = ctx[c].id
           /\ ctx'[c].bev = ctx[c].bev
           /\ ctx'[c].cb = "uninitialised" => ctx[c].cb = "uninitialised"
           /\ ctx[c].id \in fds' <=> ctx[c].id \in fds
    BY <2>3, <2>6, <2>9
  <2>11. /\ \A c \in live' : ctx'[c].thread = t \/ (c \in live /\ ctx[c].thread # t)
         /\ \A c \in live : ctx[c].thread = t /\ ctx[c].id \in fds' =>
              c \in live' /\ ctx'[c].id = ctx[c].id
    BY <2>6, <2>8, <2>9
  <2> QED BY <1>6, <1>10, <2>4, <2>5, <2>7, <2>8, <2>9, <2>10, <2>11, ShapeStep
<1>11. FirstGeneration' <=> FirstGeneration
  BY <1>1 DEF FirstGeneration
<1> QED BY <1>1, <1>6, <1>9, <1>10, <1>11, Assemble

-----------------------------------------------------------------------------
(* Steps that use freed or uninitialised memory *)

\* Nothing but the status changes, and MemoryIsSafe does not exclude it.
LEMMA UndefinedStep ==
  ASSUME ConInv, Undefined,
         FirstGeneration => used \cap {"share", "invalid", "early", "vain"} # {}
  PROVE  ConInv'
<1>1. /\ status' = "undefined" /\ UNCHANGED <<hasdesc, desc, next_entry, entries>>
      /\ UNCHANGED <<live, ctx, inbox, call, cbk, serving, fds, used>>
  BY DEF Undefined, dtblVars
<1>2. TypeOK' /\ CallsOK' /\ OneCallback'
  BY <1>1 DEF ConInv, TypeOK, DtblTypeOK, CallsOK, OneCallback
<1>3. ConShape'
  BY <1>1 DEF ConShape
<1>4. MemoryIsSafe'
  BY <1>1 DEF MemoryIsSafe, FirstGeneration
<1> QED BY <1>2, <1>3, <1>4 DEF ConInv

LEMMA CallbackUndefinedStep ==
  ASSUME ConInv, NEW t \in Threads, CallbackUndefined(t)
  PROVE  ConInv'
<1>1. /\ TypeOK /\ CallsOK /\ status = "running" /\ call[t].op \in {"event", "read"}
      /\ Undefined
  BY DEF ConInv, CallbackUndefined, At
<1>2. ASSUME FirstGeneration PROVE used \cap {"share", "invalid", "early", "vain"} # {}
  <2>1. Connected /\ ThreadOK(t)
    BY <1>1, <1>2 DEF ConInv, ConShape, Connected
  <2>2. OwnCtx(t, call[t]) /\ call[t].id \in Ids
    BY <1>1, <2>1 DEF ThreadOK, CallsOK
  <2>3. Get(call[t].id) = call[t].ptr
    BY <1>1, <2>1, <2>2, GetOfOwned
  <2>4. ctx[call[t].ptr].cb = "uninitialised"
    BY <2>2, <2>3 DEF CallbackUndefined, OwnCtx
  <2>5. used \cap {"early", "vain"} # {}
    BY <1>1, <2>1, <2>4 DEF ThreadOK
  <2> QED BY <2>5
<1> QED BY <1>1, <1>2, UndefinedStep

LEMMA SetCbUndefinedStep ==
  ASSUME ConInv, NEW t \in Threads, SetCbUndefined(t)
  PROVE  ConInv'
<1>1. /\ TypeOK /\ status = "running" /\ call[t].op = "setcb" /\ Undefined
      /\ Get(call[t].id) \notin live \cup {NULL}
  BY DEF ConInv, SetCbUndefined, At
<1>2. ASSUME FirstGeneration, used \cap {"share", "invalid"} = {} PROVE FALSE
  <2>1. Connected /\ ThreadOK(t)
    BY <1>1, <1>2 DEF ConInv, ConShape, Connected
  <2>2. PICK c \in live : ctx[c].thread = t /\ ctx[c].id = call[t].id
    BY <1>1, <1>2, <2>1 DEF ThreadOK
  <2>3. CASE ctx[c].id \in Nat
    BY <1>1, <2>1, <2>2, <2>3, GetOwn
  <2>4. CASE ctx[c].id = -1
    <3>1. PICK u \in Threads : WaitsFor(u, c)
      BY <2>1, <2>4 DEF Connected, CtxOK
    <3>2. ThreadOK(u) /\ u = t
      BY <2>1, <2>2, <3>1 DEF Connected, ThreadOK, WaitsFor
    <3> QED BY <1>1, <3>1, <3>2 DEF WaitsFor
  <2> QED BY <1>1, <2>3, <2>4, CtxParts, IdsType
<1>3. FirstGeneration => used \cap {"share", "invalid", "early", "vain"} # {}
  BY <1>2
<1> QED BY <1>1, <1>3, UndefinedStep

LEMMA SendUndefinedStep ==
  ASSUME ConInv, NEW t \in Threads, SendUndefined(t)
  PROVE  ConInv'
<1>1. /\ TypeOK /\ status = "running" /\ call[t].op = "send" /\ Undefined
      /\ call[t].ptr \notin live \/ ctx[call[t].ptr].bev = "freed"
  BY DEF ConInv, SendUndefined, At
<1>2. ASSUME FirstGeneration, used \cap {"share", "invalid"} = {} PROVE FALSE
  <2>1. ThreadOK(t)
    BY <1>1, <1>2 DEF ConInv, ConShape, Connected
  <2> QED BY <1>1, <1>2, <2>1 DEF ThreadOK
<1>3. FirstGeneration => used \cap {"share", "invalid", "early", "vain"} # {}
  BY <1>2
<1> QED BY <1>1, <1>3, UndefinedStep

-----------------------------------------------------------------------------
(* The invariant and the theorems *)

LEMMA ConInvInit == Init => ConInv
<1> SUFFICES ASSUME Init PROVE ConInv
  OBVIOUS
<1>1. hasdesc \in BOOLEAN
  BY Zenon DEF Init, DtblInit
<1>2. Blank \in Context /\ NoCall \in Call /\ 0 \in 0 .. MaxMsgs
  BY NoCallType DEF Blank, Context, Callbacks
<1>3. DtblTypeOK /\ InSequence
  BY <1>1, IdsType DEF Init, DtblInit, DtblTypeOK, InSequence
<1>4. TypeOK
  BY <1>2, <1>3 DEF Init, TypeOK
<1>5. \A t \in Threads : call[t] = NoCall /\ cbk[t] = NoCall
  BY DEF Init
<1>6. CallsOK /\ OneCallback
  BY <1>5, NoCallType DEF CallsOK, OneCallback
<1>7. Connected
  BY <1>3, <1>5, NoCallType DEF Connected, Init, ThreadOK, CbkOK
<1> QED BY <1>4, <1>6, <1>7 DEF ConInv, ConShape, MemoryIsSafe, Init

LEMMA ConInvNext == ConInv /\ [Next]_vars => ConInv'
<1> SUFFICES ASSUME ConInv, [Next]_vars PROVE ConInv'
  OBVIOUS
<1>1. ASSUME NEW t \in Threads, LibraryStep(t) PROVE ConInv'
  BY <1>1, ConnectRegisterStep, ConnectFullStep, ConnectReturnsStep, ConnectFailsStep,
     EventQuietStep, EventCallsStep, ReadCallsStep, ReadQuietStep, CallbackUndefinedStep,
     SetCbReturnsStep, SetCbUndefinedStep, SendReturnsStep, SendUndefinedStep, Zenon
  DEF LibraryStep
<1>2. ASSUME NEW t \in Threads, CallbackReturns(t) PROVE ConInv'
  BY <1>2, EventReturnsStep, ReadReturnsStep, Zenon DEF CallbackReturns
<1>3. ASSUME NEW t \in Threads, NEW id \in UserIds, SetCb(t, id) \/ Send(t, id)
      PROVE  ConInv'
  <2>1. id \in Ids
    BY DEF UserIds, ConInv, TypeOK
  <2> QED BY <1>3, <2>1, SetCbStep, SendStep, Zenon
<1>4. CASE UNCHANGED vars
  <2>1. /\ UNCHANGED <<hasdesc, desc, next_entry, entries, live, ctx, fds, status>>
        /\ UNCHANGED <<call, cbk, used>> /\ inbox' = inbox /\ serving' = serving
    BY <1>4 DEF vars
  <2>2. inbox' \in [Values -> 0 .. MaxMsgs] /\ serving' \in SUBSET Threads
    BY <2>1 DEF ConInv, TypeOK
  <2> QED BY <2>1, <2>2, StillStep
<1>5. CASE Next
  BY <1>1, <1>2, <1>3, <1>5, DispatchStep, ConnectStep, EventStep, ReadableStep, IncomingStep,
     Zenon DEF Next
<1> QED BY <1>4, <1>5, Zenon

LEMMA ConInvariant == Spec => []ConInv
BY ConInvInit, ConInvNext, PTL DEF Spec

\* The variables of the client side keep their types.
THEOREM ConTypeCorrect == Spec => []TypeOK
<1>1. ConInv => TypeOK
  BY DEF ConInv
<1> QED BY <1>1, ConInvariant, PTL

\* ctx_mutex keeps two threads from being in a user's callback at once, whatever
\* the callbacks call, and until the first id is handed out a second time the
\* context that a callback was called for is not freed under it: connect_event_cb
\* frees a context only in the thread that runs its callbacks.
THEOREM CallbacksCorrect == Spec => []CallbacksExclusive
<1>1. ConInv => CallbacksExclusive
  <2> SUFFICES ASSUME ConInv PROVE CallbacksExclusive
    OBVIOUS
  <2>1. \A t, u \in Threads : cbk[t] # NoCall /\ cbk[u] # NoCall => t = u
    BY DEF ConInv, OneCallback
  <2>2. ASSUME FirstGeneration, status = "running", NEW t \in Threads, cbk[t] # NoCall
        PROVE  /\ cbk[t].ptr \in live /\ ctx[cbk[t].ptr].id = cbk[t].id
               /\ ctx[cbk[t].ptr].thread = t
    <3>1. ThreadOK(t)
      BY <2>2 DEF ConInv, ConShape, Connected
    <3> QED BY <2>2, <3>1 DEF ThreadOK, CbkOK, OwnCtx
  <2> QED BY <2>1, <2>2 DEF CallbacksExclusive
<1> QED BY <1>1, ConInvariant, PTL

\* No path of rteipc_connect, connect_event_cb or connect_read_cb leaks a context,
\* and no id that rteipc_connect returned outlives its context or leads to another
\* one, until the first id is handed out a second time.
THEOREM ContextsCorrect == Spec => []ContextsAreOwned
<1>1. ConInv => ContextsAreOwned
  <2> SUFFICES ASSUME ConInv, FirstGeneration, status = "running"
               PROVE  /\ \A c \in live : \/ ctx[c].id \in fds
                                         \/ \E t \in Threads : c \in {call[t].ptr, cbk[t].ptr}
                      /\ \A id \in fds : Get(id) \in live /\ ctx[Get(id)].id = id
    BY DEF ContextsAreOwned
  <2>1. TypeOK /\ Connected
    BY DEF ConInv, ConShape
  <2>2. ASSUME NEW c \in live
        PROVE  ctx[c].id \in fds \/ \E t \in Threads : c \in {call[t].ptr, cbk[t].ptr}
    <3>1. CtxOK(c)
      BY <2>1 DEF Connected
    <3> QED BY <3>1 DEF CtxOK, WaitsFor, Holds
  <2> QED BY <2>1, <2>2, FdsLead
<1> QED BY <1>1, ConInvariant, PTL

\* Users that keep to their own connections, set the callbacks before events come,
\* use no id whose connection has ended and never fail to connect meet no freed
\* and no uninitialised memory, for any number of threads: rteipc_send, which takes
\* no lock, is safe because only its own thread frees the context.
THEOREM ConMemoryCorrect == Spec => []MemoryIsSafe
<1>1. ConInv => MemoryIsSafe
  BY DEF ConInv
<1> QED BY <1>1, ConInvariant, PTL

=============================================================================
