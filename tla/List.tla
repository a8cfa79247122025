-------------------------------- MODULE List --------------------------------
(***************************************************************************)
(* The doubly linked list of list.c.  Nodes are members of the structures  *)
(* of its users, so the list allocates nothing but iterators.  Every       *)
(* operation is one step of the thread that calls it: nothing in list.c    *)
(* takes a lock.                                                           *)
(***************************************************************************)
EXTENDS Integers, FiniteSets

CONSTANTS Nodes, NULL

ASSUME NodesAssumption == IsFiniteSet(Nodes) /\ NULL \notin Nodes

VARIABLES head, tail, prev, next

listVars == <<head, tail, prev, next>>

ListTypeOK ==
  /\ head \in Nodes \cup {NULL} /\ tail \in Nodes \cup {NULL}
  /\ prev \in [Nodes -> Nodes \cup {NULL}]
  /\ next \in [Nodes -> Nodes \cup {NULL}]

\* LIST_INITIALIZER and list_init.
ListInit ==
  /\ head = NULL /\ tail = NULL
  /\ prev = [n \in Nodes |-> NULL] /\ next = [n \in Nodes |-> NULL]

ListEmpty == head = NULL

\* Mutant: a node that is not the first is not linked back.
ListPushForward(n) ==
  /\ head' = IF ListEmpty THEN n ELSE head
  /\ tail' = n
  /\ prev' = [prev EXCEPT ![n] = NULL]
  /\ next' = IF ListEmpty THEN [next EXCEPT ![n] = NULL]
             ELSE [next EXCEPT ![n] = NULL, ![tail] = n]

ListPush(n) ==
  /\ head' = IF ListEmpty THEN n ELSE head
  /\ tail' = n
  /\ prev' = [prev EXCEPT ![n] = IF ListEmpty THEN NULL ELSE tail]
  /\ next' = IF ListEmpty THEN [next EXCEPT ![n] = NULL]
             ELSE [next EXCEPT ![n] = NULL, ![tail] = n]

\* Its result is tail.
ListPop ==
  /\ ~ListEmpty
  /\ tail' = prev[tail]
  /\ head' = IF prev[tail] = NULL THEN NULL ELSE head
  /\ prev' = [prev EXCEPT ![tail] = NULL]
  /\ next' = IF prev[tail] = NULL THEN [next EXCEPT ![tail] = NULL]
             ELSE [next EXCEPT ![tail] = NULL, ![prev[tail]] = NULL]

ListRemove(n) ==
  /\ head' = IF prev[n] = NULL THEN next[n] ELSE head
  /\ tail' = IF next[n] = NULL THEN prev[n] ELSE tail
  /\ prev' = IF next[n] = NULL THEN [prev EXCEPT ![n] = NULL]
             ELSE [prev EXCEPT ![next[n]] = prev[n], ![n] = NULL]
  /\ next' = IF prev[n] = NULL THEN [next EXCEPT ![n] = NULL]
             ELSE [next EXCEPT ![prev[n]] = next[n], ![n] = NULL]

-----------------------------------------------------------------------------
(* The nodes in the order of the links, and back: what an iteration visits.  *)
(* A chain that does not end is longer than the number of nodes.             *)

Follow(first, link) ==
  LET at[k \in 1 .. Cardinality(Nodes) + 1] ==
        IF k = 1 THEN first ELSE IF at[k - 1] = NULL THEN NULL ELSE link[at[k - 1]]
  IN [k \in 1 .. Cardinality({j \in DOMAIN at : at[j] # NULL}) |-> at[k]]

Chain == Follow(head, next)
BackChain == Follow(tail, prev)

=============================================================================
