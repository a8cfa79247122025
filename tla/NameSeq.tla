------------------------------ MODULE NameSeq ------------------------------
(***************************************************************************)
(* What a list of named nodes promises its users: a sequence in which no   *)
(* name and no node occurs twice, that grows at its end, and loses its     *)
(* last member or one that its user names.  NameList implements it.        *)
(***************************************************************************)
EXTENDS Sequences, Integers

CONSTANTS Nodes, Names, Callbacks, None

VARIABLE items    \* records [node, name, cb]

Init == items = <<>>

NewItem(n, k) == [node |-> n, name |-> k, cb |-> None]

\* A name is added that is not in use, with a node that is not in use.
Add(n, k) ==
  /\ \A j \in DOMAIN items : items[j].node # n /\ items[j].name # k
  /\ items' = Append(items, NewItem(n, k))

\* A node is taken out, and the others keep their order.
Delete(n) ==
  \E j \in DOMAIN items :
    /\ items[j].node = n
    /\ items' = [i \in 1 .. Len(items) - 1 |-> items[IF i < j THEN i ELSE i + 1]]

\* The last node is taken out.
DeleteLast ==
  /\ items # <<>>
  /\ items' = SubSeq(items, 1, Len(items) - 1)

\* The callback of one name is set.
SetCb(k, c) ==
  /\ \E j \in DOMAIN items : items[j].name = k
  /\ items' = [j \in DOMAIN items |->
                 IF items[j].name = k THEN [items[j] EXCEPT !.cb = c] ELSE items[j]]

Next ==
  \/ \E n \in Nodes, k \in Names : Add(n, k)
  \/ \E n \in Nodes : Delete(n)
  \/ DeleteLast
  \/ \E k \in Names, c \in Callbacks : SetCb(k, c)

Spec == Init /\ [][Next]_items

=============================================================================
