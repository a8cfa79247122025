--------------------------- MODULE DescTableUse ---------------------------
(***************************************************************************)
(* The descriptor table under the protocol its callers follow              *)
(* (register_endpoint and unregister_endpoint of ep_core.c, rteipc_connect *)
(* and connect_event_cb of connect.c): a pointer is stored once, its owner *)
(* keeps the id that dtbl_set returned, and gives it back with dtbl_del    *)
(* before the pointer is freed.  A freed pointer may be allocated and      *)
(* stored again.                                                           *)
(***************************************************************************)
EXTENDS DescTable

CONSTANT MallocFails   \* whether malloc may return NULL

ASSUME MallocFailsAssumption == MallocFails \in BOOLEAN

VARIABLES
  held,      \* the id the owner of each pointer holds, -1 for none
  forgotten   \* history: dtbl_set has returned an id that it did not store

useVars == <<hasdesc, desc, next_entry, entries, held, forgotten>>

UseInit ==
  /\ DtblInit
  /\ held = [v \in Values |-> -1]
  /\ forgotten = FALSE

Register(v) ==
  /\ held[v] = -1
  /\ \E id \in Ids : DtblSet(v, id) /\ held' = [held EXCEPT ![v] = id]
  /\ UNCHANGED forgotten

\* The owner cannot tell this return value from a success.
RegisterUnstored(v) ==
  /\ MallocFails
  /\ held[v] = -1
  /\ \E id \in Ids : DtblSetUnstored(id) /\ held' = [held EXCEPT ![v] = id]
  /\ forgotten' = TRUE

RegisterFails(v) ==
  /\ held[v] = -1
  /\ DtblSetFull \/ (MallocFails /\ DtblSetNoBitmap)
  /\ UNCHANGED <<held, forgotten>>

Unregister(v) ==
  /\ held[v] # -1
  /\ DtblDel(held[v])
  /\ held' = [held EXCEPT ![v] = -1]
  /\ UNCHANGED forgotten

UseNext ==
  \E v \in Values : \/ Register(v) \/ RegisterUnstored(v)
                    \/ RegisterFails(v) \/ Unregister(v)

UseSpec == UseInit /\ [][UseNext]_useVars

-----------------------------------------------------------------------------
\* The variables of the table and of its callers have their types.
UseTypeOK ==
  /\ DtblTypeOK
  /\ held \in [Values -> Ids \cup {-1}]
  /\ forgotten \in BOOLEAN

\* dtbl_set gives no id to two owners, and the bitmap marks exactly the ids
\* that are held, until an entry could not be allocated.
IdsAreExclusive ==
  ~forgotten =>
    /\ \A v, w \in Values : held[v] = held[w] /\ held[v] # -1 => v = w
    /\ desc = {held[v] : v \in Values} \ {-1}

\* No id has been handed out twice: there are at most as many entries as ids.
UseFirstGeneration == ~forgotten /\ Len(entries) <= Width * MaxEntries

\* In the first generation dtbl_get of a held id returns its owner's pointer.
\* (From the second on it may return the pointer of an earlier owner.)
LookupFindsOwner ==
  UseFirstGeneration => \A v \in Values : held[v] # -1 => Get(held[v]) = v

\* In the first generation the search for a free id, which never goes back to
\* a lower word, fails only when every id is in use.
RefusesOnlyWhenFull == UseFirstGeneration /\ Candidates = {} => desc = Ids

\* The two nested loops of __dtbl_next_id return the free id that is first in
\* cyclic order in the lowest word that has one, and -1 when there is none.
SearchIsFirstFree ==
  IF Candidates = {} THEN NextIdLoop = -1 ELSE IsNextId(NextIdLoop)

\* In the first generation ids are handed out in increasing order: the k-th
\* entry is the one of id k - 1, and the cursor is the number of entries.
GenerationShape ==
  UseFirstGeneration =>
    /\ next_entry = Len(entries)
    /\ \A i \in 1 .. Len(entries) : entries[i].id = i - 1
    /\ \A v \in Values : held[v] # -1 =>
         held[v] < Len(entries) /\ entries[held[v] + 1].value = v

=============================================================================
