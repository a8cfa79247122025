----------------------------- MODULE DescTable -----------------------------
(***************************************************************************)
(* The descriptor table of table.c: a bitmap of MaxEntries words of Width  *)
(* bits that says which ids are in use, a cursor next_entry, and a list of *)
(* entries [id, value].  It holds the endpoints (ep_core.c) and the        *)
(* connections (connect.c) and hands out the ints that the API calls       *)
(* descriptors.  Every operation runs under table->lock, so each one is a  *)
(* single action.                                                          *)
(*                                                                         *)
(* dtbl_del only clears the bit of its id: the entry stays in the list, so *)
(* an id that is handed out again has several entries, and dtbl_get        *)
(* returns the value of the oldest one.                                    *)
(***************************************************************************)
EXTENDS Integers, Sequences

CONSTANTS
  Width,       \* DESC_BIT_WIDTH, bits of a word of the bitmap
  MaxEntries,  \* max_entries, words of the bitmap
  Values,      \* the pointers a caller may store
  NULL,        \* the null pointer
  MaxSets      \* bound: entries that are ever pushed

ASSUME WidthAssumption == Width \in Nat \ {0}
ASSUME MaxEntriesAssumption == MaxEntries \in Nat \ {0}
ASSUME NullAssumption == NULL \notin Values
ASSUME MaxSetsAssumption == MaxSets \in Nat

VARIABLES
  hasdesc,     \* table->desc has been allocated
  desc,        \* the ids whose bit is set
  next_entry,  \* the cursor of the search for a free id
  entries      \* table->entry_list, oldest entry first

dtblVars == <<hasdesc, desc, next_entry, entries>>

Ids == 0 .. Width * MaxEntries - 1

Entry == [id : Ids, value : Values]

WordOf(id) == id \div Width
BitOf(id) == id % Width

-----------------------------------------------------------------------------
(* __dtbl_next_id *)

\* Mutant: no return to the first word when the cursor is past the last one.
ScanWordNoReset == WordOf(next_entry)

\* Mutant: every search begins at the first word.
ScanWordIgnoresCursor == 0

\* Where the search begins: the word and the bit of the cursor, or the first
\* id when the cursor is past the last word.
ScanWord == IF WordOf(next_entry) >= MaxEntries THEN 0 ELSE WordOf(next_entry)

\* Mutant: the search begins at the first bit of the word.
ScanBitIgnoresCursor == 0

ScanBit == IF WordOf(next_entry) >= MaxEntries THEN 0 ELSE BitOf(next_entry)

\* Mutant: i is used without "% width".
NextIdLoopNoWrap ==
  LET loop[k \in Nat] ==
        LET index == ScanWord + (k \div Width)
            id == index * Width + ScanBit + (k % Width)
        IN  CASE index < MaxEntries /\ id \in desc -> loop[k + 1]
              [] index < MaxEntries /\ id \notin desc -> id
              [] OTHER -> -1
  IN  loop[0]

\* The loops of __dtbl_next_id as they are written: what they return from the
\* k-th bit of the search on.
NextIdFrom[k \in Nat] ==
  LET index == ScanWord + (k \div Width)
      bit == (ScanBit + (k % Width)) % Width
      id == index * Width + bit
  IN  CASE index < MaxEntries /\ id \in desc -> NextIdFrom[k + 1]
        [] index < MaxEntries /\ id \notin desc -> id
        [] OTHER -> -1

NextIdLoop == NextIdFrom[0]

\* What they compute.  Every word is searched cyclically from the bit ScanBit.
ScanOffset(id) == IF BitOf(id) >= ScanBit THEN BitOf(id) - ScanBit
                                          ELSE BitOf(id) - ScanBit + Width

\* Mutant: the bits are not consulted.
CandidatesIgnoreBits == {id \in Ids : WordOf(id) >= ScanWord}

\* The search never returns to a word below the one it began in.
Candidates == {id \in Ids \ desc : WordOf(id) >= ScanWord}

\* id is the first free id that the search meets.
IsNextId(id) ==
  /\ id \in Candidates
  /\ \A other \in Candidates :
       \/ WordOf(id) < WordOf(other)
       \/ WordOf(id) = WordOf(other) /\ ScanOffset(id) <= ScanOffset(other)

-----------------------------------------------------------------------------
(* The operations *)

DtblInit ==
  /\ hasdesc = FALSE
  /\ desc = {}
  /\ next_entry = 0
  /\ entries = <<>>

\* dtbl_get: the value of the oldest entry that has the id.
IsOldest(i, id) ==
  /\ entries[i].id = id
  /\ \A j \in 1 .. i - 1 : entries[j].id # id

Get(id) ==
  IF \E i \in 1 .. Len(entries) : entries[i].id = id
    THEN entries[CHOOSE i \in 1 .. Len(entries) : IsOldest(i, id)].value
    ELSE NULL

\* Mutant: the cursor is advanced twice.
DtblSetSkips(val, id) ==
  /\ Len(entries) < MaxSets
  /\ IsNextId(id)
  /\ hasdesc' = TRUE
  /\ entries' = Append(entries, [id |-> id, value |-> val])
  /\ desc' = desc \cup {id}
  /\ next_entry' = id + 2

\* dtbl_set(table, val) stores val and returns id.
DtblSet(val, id) ==
  /\ Len(entries) < MaxSets
  /\ IsNextId(id)
  /\ hasdesc' = TRUE
  /\ entries' = Append(entries, [id |-> id, value |-> val])
  /\ desc' = desc \cup {id}
  /\ next_entry' = id + 1

\* dtbl_set returns id although the malloc of the entry failed: nothing is
\* stored and the bit of id stays clear.
DtblSetUnstored(id) ==
  /\ IsNextId(id)
  /\ hasdesc' = TRUE
  /\ UNCHANGED <<desc, next_entry, entries>>

\* dtbl_set returns -1 because the bitmap cannot be allocated.
DtblSetNoBitmap == ~hasdesc /\ UNCHANGED dtblVars

\* dtbl_set returns -1 because the search fails.
DtblSetFull ==
  /\ Candidates = {}
  /\ hasdesc' = TRUE
  /\ UNCHANGED <<desc, next_entry, entries>>

\* dtbl_del(table, id) of an id that dtbl_set returned.
DtblDel(id) ==
  /\ hasdesc
  /\ desc' = desc \ {id}
  /\ UNCHANGED <<hasdesc, next_entry, entries>>

\* dtbl_set that stores val and returns id, then dtbl_del of that id by the
\* same caller: the entry stays.
DtblSetDel(val, id) ==
  /\ Len(entries) < MaxSets
  /\ IsNextId(id)
  /\ hasdesc' = TRUE
  /\ entries' = Append(entries, [id |-> id, value |-> val])
  /\ next_entry' = id + 1
  /\ UNCHANGED desc

DtblTypeOK ==
  /\ hasdesc \in BOOLEAN
  /\ desc \in SUBSET Ids
  /\ next_entry \in 0 .. Width * MaxEntries
  /\ entries \in Seq(Entry)

=============================================================================
