------------------------------ MODULE NameList ------------------------------
(***************************************************************************)
(* The users of the list (List) whose nodes have names: the loopback       *)
(* endpoints of ep_loop.c, which are opened, closed and looked up by name, *)
(* and the options of rtemgr.c, which are pushed unless their key is there *)
(* and popped in the end.                                                  *)
(*                                                                         *)
(* The README lets other threads of the process send to a loopback         *)
(* endpoint.  Their lookups walk the list one node at a time, here between *)
(* the operations of the thread that opens and closes.                     *)
(***************************************************************************)
EXTENDS List, Sequences

CONSTANTS
  Names,
  Callbacks,
  Owner,       \* the thread that opens and closes
  Senders,     \* other threads that look names up
  AllocFails   \* whether malloc may return NULL

ASSUME ThreadsAssumption == Owner \notin Senders
ASSUME NoStructureAssumption == NULL \notin [name : Names, cb : Callbacks \cup {NULL}]

VARIABLES
  lo,          \* the structures: [name, cb], or NULL for one that is free
  walk,        \* the lookup of each thread, NULL for none
  status       \* "running", "crashed", or "undefined": freed memory was used

vars == <<listVars, lo, walk, status>>

Threads == {Owner} \cup Senders
Live == {n \in Nodes : lo[n] # NULL}

\* A lookup: what it is for, the name, the callback to set, the iterator's next,
\* and history: whether the name was in the list all the time, and whether a node
\* was removed.
Walk == [op : {"open", "xfer", "setcb"}, key : Names, cb : Callbacks \cup {NULL},
         it : Nodes \cup {NULL}, present : BOOLEAN, disturbed : BOOLEAN]

Init ==
  /\ ListInit
  /\ lo = [n \in Nodes |-> NULL]
  /\ walk = [t \in Threads |-> NULL]
  /\ status = "running"

Listed(k) == \E n \in Live : lo[n].name = k

\* list_each begins: iterator_new, whose result is not checked.
BeginLookup(t, op, k, c) ==
  /\ status = "running" /\ walk[t] = NULL
  /\ op = "open" => t = Owner
  /\ \/ /\ walk' = [walk EXCEPT ![t] = [op |-> op, key |-> k, cb |-> c, it |-> head,
                                        present |-> Listed(k), disturbed |-> FALSE]]
        /\ UNCHANGED status
     \/ AllocFails /\ status' = "crashed" /\ UNCHANGED walk
  /\ UNCHANGED <<listVars, lo>>

\* The lookup of t is at a node.
AtNode(t) == status = "running" /\ walk[t] # NULL /\ walk[t].it # NULL

\* Mutant: the comparison comes after the step to the next node.
MissesFirst(t) == walk[t].it \in Live /\ walk[t].it # head /\ lo[walk[t].it].name = walk[t].key

Matches(t) == walk[t].it \in Live /\ lo[walk[t].it].name = walk[t].key

\* iterator_next gives a node with another name.
Advance(t) ==
  /\ AtNode(t) /\ walk[t].it \in Live /\ ~Matches(t)
  /\ walk' = [walk EXCEPT ![t].it = next[@]]
  /\ UNCHANGED <<listVars, lo, status>>

\* iterator_next reads a node that was freed.
ReadFreed(t) ==
  /\ AtNode(t) /\ walk[t].it \notin Live
  /\ status' = "undefined"
  /\ UNCHANGED <<listVars, lo, walk>>

\* The name is found, and the lookup returns without iterator_destroy: loop_open
\* and parse_opts refuse it, rteipc_xfer_setcb sets the callback.  (What rteipc_xfer
\* writes to the endpoint is in Message.)
Found(t) ==
  /\ AtNode(t) /\ Matches(t)
  /\ walk' = [walk EXCEPT ![t] = NULL]
  /\ lo' = IF walk[t].op = "setcb" THEN [lo EXCEPT ![walk[t].it].cb = walk[t].cb] ELSE lo
  /\ UNCHANGED <<listVars, status>>

\* The lookup has come to the end of the list.
Missed(t) == status = "running" /\ walk[t] # NULL /\ walk[t].it = NULL

\* loop_open and parse_opts add the name.
Add(n) ==
  /\ Missed(Owner) /\ walk[Owner].op = "open" /\ n \notin Live
  /\ ListPush(n)
  /\ lo' = [lo EXCEPT ![n] = [name |-> walk[Owner].key, cb |-> NULL]]
  /\ walk' = [walk EXCEPT ![Owner] = NULL]
  /\ UNCHANGED status

\* The name is not there, or there is no memory for it: an error is returned.
NotFound(t) ==
  /\ Missed(t)
  /\ walk[t].op = "open" => AllocFails \/ Live = Nodes
  /\ walk' = [walk EXCEPT ![t] = NULL]
  /\ UNCHANGED <<listVars, lo, status>>

\* n is freed by the owner; the lookups of the others are not stopped.
Free(n) ==
  /\ lo' = [lo EXCEPT ![n] = NULL]
  /\ walk' = [t \in Threads |->
                IF walk[t] = NULL THEN NULL
                ELSE [walk[t] EXCEPT !.disturbed = TRUE,
                                     !.present = @ /\ walk[t].key # lo[n].name]]
  /\ UNCHANGED status

\* Mutant: the node stays in the list.
CloseLinked(n) ==
  /\ status = "running" /\ walk[Owner] = NULL /\ n \in Live
  /\ Free(n)
  /\ UNCHANGED listVars

\* loop_close.
Close(n) ==
  /\ status = "running" /\ walk[Owner] = NULL /\ n \in Live
  /\ ListRemove(n)
  /\ Free(n)

\* A round of remove_arg_list.
PopArg ==
  /\ status = "running" /\ walk[Owner] = NULL
  /\ ListPop
  /\ Free(tail)

Next ==
  \/ \E t \in Threads, k \in Names :
       \/ \E op \in {"open", "xfer"} : BeginLookup(t, op, k, NULL)
       \/ \E c \in Callbacks : BeginLookup(t, "setcb", k, c)
  \/ \E t \in Threads : Advance(t) \/ ReadFreed(t) \/ Found(t) \/ NotFound(t)
  \/ \E n \in Nodes : Add(n) \/ Close(n)
  \/ PopArg

Spec == Init /\ [][Next]_vars

-----------------------------------------------------------------------------
(* Properties *)

TypeOK ==
  /\ ListTypeOK
  /\ lo \in [Nodes -> [name : Names, cb : Callbacks \cup {NULL}] \cup {NULL}]
  /\ walk \in [Threads -> Walk \cup {NULL}]
  /\ status \in {"running", "crashed", "undefined"}

\* The links of list.c are those of one list: backwards from tail are the nodes
\* that are forwards from head, in the other order, and they are the structures
\* in use.
WellLinked ==
  /\ Len(Chain) = Len(BackChain)
  /\ \A k \in DOMAIN Chain : Chain[k] = BackChain[Len(Chain) + 1 - k]
  /\ {Chain[k] : k \in DOMAIN Chain} = Live

\* A lookup finds a name that is in the list from its beginning to its end, also
\* when nodes are pushed meanwhile by another thread, unless one is removed:
\* list_each has no lock (rteipc_xfer, lookup_lo).
FindsPresent ==
  \A t \in Threads : Missed(t) /\ walk[t].present => walk[t].disturbed

\* No lookup reads freed memory, unless a node is removed during it by another
\* thread.
WalkIsSafe ==
  status = "undefined" => \E t \in Senders : walk[t] # NULL /\ walk[t].disturbed

\* What the README's "threads" may rely on without a lock: lookups between the
\* pushes of another thread, but not between its removals.
LookupsAreSound == FindsPresent /\ WalkIsSafe

\* The list is a sequence of names without duplicates to its users: the links
\* implement NameSeq, and what loop_open and parse_opts have looked up still
\* holds when they push.
Seq_ == [k \in DOMAIN Chain |->
           [node |-> Chain[k],
            name |-> IF Chain[k] \in Live THEN lo[Chain[k]].name ELSE NULL,
            cb   |-> IF Chain[k] \in Live THEN lo[Chain[k]].cb ELSE NULL]]

Abstract == INSTANCE NameSeq WITH items <- Seq_, None <- NULL

ImplementsNameSeq == Abstract!Spec

=============================================================================
