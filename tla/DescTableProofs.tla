-------------------------- MODULE DescTableProofs --------------------------
(* Proofs about the descriptor table, for every size of the bitmap: first   *)
(* what its operations compute, which the proofs about the endpoints and    *)
(* the connections use too, then the table under the protocol of its        *)
(* callers.                                                                 *)
EXTENDS DescTableUse, WellFoundedInduction, TLAPS

USE WidthAssumption, MaxEntriesAssumption, NullAssumption, MaxSetsAssumption

-----------------------------------------------------------------------------
(* Arithmetic of words and bits *)

\* An id is determined by its word and its bit.
LEMMA WordBit ==
  ASSUME NEW n \in Nat
  PROVE  /\ WordOf(n) \in Nat
         /\ BitOf(n) \in 0 .. Width - 1
         /\ n = Width * WordOf(n) + BitOf(n)
BY DEF WordOf, BitOf

\* The words of the ids are the words of the bitmap.
LEMMA WordInBitmap ==
  ASSUME NEW n \in Nat
  PROVE  n < Width * MaxEntries <=> WordOf(n) < MaxEntries
<1> DEFINE q == WordOf(n)
           r == BitOf(n)
<1>1. q \in Nat /\ r \in 0 .. Width - 1 /\ n = Width * q + r
  BY WordBit
<1> HIDE DEF q, r
<1>2. CASE q < MaxEntries
  <2>1. PICK d \in Nat : MaxEntries = q + 1 + d
    <3>1. MaxEntries - q - 1 \in Nat
      BY <1>1, <1>2
    <3> QED BY <3>1, <1>1
  <2>2. Width * MaxEntries = Width * q + Width + Width * d
    BY <2>1, <1>1
  <2>3. Width * d \in Nat
    OBVIOUS
  <2>4. Width * q \in Nat
    BY <1>1
  <2> QED BY <2>2, <2>3, <2>4, <1>1, <1>2 DEF q
<1>3. CASE q >= MaxEntries
  <2>1. PICK d \in Nat : q = MaxEntries + d
    <3>1. q - MaxEntries \in Nat
      BY <1>1, <1>3
    <3> QED BY <3>1, <1>1
  <2>2. Width * q = Width * MaxEntries + Width * d
    BY <2>1, <1>1
  <2>3. Width * d \in Nat
    OBVIOUS
  <2>4. Width * MaxEntries \in Nat
    OBVIOUS
  <2> QED BY <2>2, <2>3, <2>4, <1>1, <1>3 DEF q
<1> QED BY <1>1, <1>2, <1>3

-----------------------------------------------------------------------------
(* The search for a free id *)

\* While only ids below the cursor are in use and the cursor is inside the
\* bitmap, the search returns the cursor itself.
LEMMA NextIdIsCursor ==
  ASSUME DtblTypeOK, next_entry < Width * MaxEntries,
         desc \subseteq 0 .. next_entry - 1, NEW id, IsNextId(id)
  PROVE  id = next_entry
<1>1. next_entry \in Nat /\ WordOf(next_entry) < MaxEntries
  BY WordInBitmap DEF DtblTypeOK
<1>2. ScanWord = WordOf(next_entry) /\ ScanBit = BitOf(next_entry)
  BY <1>1, WordBit DEF ScanWord, ScanBit
<1>3. next_entry \in Candidates
  BY <1>1, <1>2, WordBit DEF Candidates, Ids, DtblTypeOK
<1>4. id \in Nat /\ WordOf(id) >= WordOf(next_entry)
  BY <1>2 DEF IsNextId, Candidates, Ids
<1>5. /\ WordOf(id) = WordOf(next_entry)
      /\ ScanOffset(id) <= ScanOffset(next_entry)
  BY <1>1, <1>3, <1>4, WordBit DEF IsNextId
<1>6. BitOf(id) = BitOf(next_entry)
  <2>1. /\ BitOf(next_entry) \in Int /\ BitOf(next_entry) >= 0
        /\ BitOf(id) \in Int /\ BitOf(id) >= 0
        /\ BitOf(next_entry) < Width
    BY <1>1, <1>4, WordBit
  <2>2. ScanOffset(next_entry) = 0
    BY <1>2, <2>1 DEF ScanOffset
  <2> QED BY <1>2, <1>5, <2>1, <2>2 DEF ScanOffset
<1> QED BY <1>1, <1>4, <1>5, <1>6, WordBit

\* The search returns a free id of the bitmap.
LEMMA NextIdIsFree ==
  ASSUME NEW id, IsNextId(id)
  PROVE  id \in Ids \ desc
BY DEF IsNextId, Candidates

LEMMA IdsType == Ids \subseteq Nat /\ -1 \notin Ids /\ Width * MaxEntries \in Nat
BY DEF Ids

-----------------------------------------------------------------------------
(* dtbl_get *)

\* The oldest entry of id k - 1 is the k-th one when ids are handed out in
\* increasing order.
LEMMA GetOfShape ==
  ASSUME NEW id \in Nat, id < Len(entries), entries \in Seq(Entry),
         \A i \in 1 .. Len(entries) : entries[i].id = i - 1
  PROVE  Get(id) = entries[id + 1].value
<1> DEFINE k == CHOOSE i \in 1 .. Len(entries) : IsOldest(i, id)
<1>1. Len(entries) \in Nat /\ id + 1 \in 1 .. Len(entries)
  OBVIOUS
<1>2. IsOldest(id + 1, id)
  BY <1>1 DEF IsOldest
<1>3. k \in 1 .. Len(entries) /\ IsOldest(k, id)
  BY <1>1, <1>2
<1>4. k = id + 1
  BY <1>1, <1>3 DEF IsOldest
<1>5. \E i \in 1 .. Len(entries) : entries[i].id = id
  BY <1>1
<1> QED BY <1>4, <1>5 DEF Get

\* dtbl_get returns a stored pointer or NULL.
LEMMA GetType ==
  ASSUME entries \in Seq(Entry), NEW id
  PROVE  Get(id) \in Values \cup {NULL}
<1> DEFINE R == OpToRel(<, Nat)
           T == {i \in 1 .. Len(entries) : entries[i].id = id}
<1>1. CASE T = {}
  BY <1>1 DEF Get
<1>2. CASE T # {}
  <2>1. T \subseteq Nat /\ Len(entries) \in Nat
    OBVIOUS
  <2>2. IsWellFoundedOn(R, Nat)
    BY NatLessThanWellFounded
  <2>3. PICK k \in T : \A j \in T : ~(<<j, k>> \in R)
    <3> HIDE DEF R, T
    <3> QED BY <1>2, <2>1, <2>2, WFMin
  <2>4. \A j \in T : ~(j < k)
    <3>1. R = {ss \in Nat \X Nat : ss[1] < ss[2]}
      BY DEF OpToRel
    <3>2. \A j \in T : j \in Nat /\ k \in Nat
      BY <2>1
    <3> HIDE DEF R, T
    <3> QED BY <2>3, <3>1, <3>2
  <2>5. k \in 1 .. Len(entries) /\ IsOldest(k, id)
    BY <2>1, <2>4 DEF IsOldest
  <2> DEFINE o == CHOOSE i \in 1 .. Len(entries) : IsOldest(i, id)
  <2>6. o \in 1 .. Len(entries)
    BY <2>5
  <2>7. entries[o].value \in Values
    <3> HIDE DEF o
    <3>1. entries[o] \in Entry
      BY <2>6
    <3> QED BY <3>1 DEF Entry
  <2>8. Get(id) = entries[o].value
    BY <1>2 DEF Get
  <2> QED BY <2>7, <2>8
<1> QED BY <1>1, <1>2

-----------------------------------------------------------------------------
(* dtbl_set in the first generation *)

\* Ids are handed out in increasing order: the k-th entry has the id k - 1, and
\* the bits that are set are below the cursor.
InSequence ==
  /\ next_entry = Len(entries)
  /\ \A i \in 1 .. Len(entries) : entries[i].id = i - 1
  /\ desc \subseteq 0 .. next_entry - 1

\* A pointer that is stored while ids are handed out in sequence gets the next
\* id, and the sequence goes on.
LEMMA StoreInSequence ==
  ASSUME DtblTypeOK, InSequence, Len(entries) < Width * MaxEntries,
         NEW id \in Ids, IsNextId(id), NEW val \in Values,
         entries' = Append(entries, [id |-> id, value |-> val]),
         next_entry' = id + 1, desc' \subseteq desc \cup {id}
  PROVE  /\ InSequence'
         /\ id = Len(entries)
         /\ Len(entries') = Len(entries) + 1
         /\ \A i \in 1 .. Len(entries) : entries'[i] = entries[i]
         /\ entries'[id + 1].value = val
<1>1. /\ entries \in Seq(Entry) /\ [id |-> id, value |-> val] \in Entry
      /\ next_entry = Len(entries) /\ Len(entries) \in Nat
  BY DEF DtblTypeOK, Entry, InSequence
<1>2. id = Len(entries)
  BY <1>1, NextIdIsCursor DEF InSequence
<1>3. /\ Len(entries') = Len(entries) + 1
      /\ \A i \in 1 .. Len(entries) : entries'[i] = entries[i]
      /\ entries'[Len(entries) + 1] = [id |-> id, value |-> val]
  BY <1>1
<1>4. \A i \in 1 .. Len(entries') : entries'[i].id = i - 1
  BY <1>1, <1>2, <1>3 DEF InSequence
<1>5. desc' \subseteq 0 .. next_entry' - 1
  BY <1>1, <1>2 DEF InSequence
<1> QED BY <1>1, <1>2, <1>3, <1>4, <1>5 DEF InSequence

\* The types of the table after dtbl_set.
LEMMA StoreType ==
  ASSUME DtblTypeOK, NEW id \in Ids, NEW val \in Values, hasdesc' = TRUE,
         entries' = Append(entries, [id |-> id, value |-> val]),
         next_entry' = id + 1, desc' \subseteq desc \cup {id}
  PROVE  DtblTypeOK'
<1>1. hasdesc' \in BOOLEAN
  BY Zenon
<1>2. [id |-> id, value |-> val] \in Entry
  BY DEF Entry
<1>3. entries' \in Seq(Entry)
  BY <1>2 DEF DtblTypeOK
<1>4. next_entry' \in 0 .. Width * MaxEntries
  BY IdsType DEF Ids
<1>5. desc' \in SUBSET Ids
  BY DEF DtblTypeOK
<1> QED BY <1>1, <1>3, <1>4, <1>5 DEF DtblTypeOK

-----------------------------------------------------------------------------
(* The loops of __dtbl_next_id *)

\* The word, the bit and the id that the loops look at k bits into the search.
SearchWord(k) == ScanWord + (k \div Width)
SearchBit(k) == (ScanBit + (k % Width)) % Width
SearchId(k) == SearchWord(k) * Width + SearchBit(k)

\* The search ends at the step k, past the last word or at a free id.
Ends(k) == SearchWord(k) >= MaxEntries \/ SearchId(k) \notin desc

\* What it returns there.
Outcome(k) == IF SearchWord(k) >= MaxEntries THEN -1 ELSE SearchId(k)

\* j is the first step from k on at which the search ends.
EndsFirst(k, j) ==
  /\ j \in Nat /\ k <= j /\ Ends(j)
  /\ \A i \in Nat : k <= i /\ i < j => ~Ends(i)

\* Division by Width, determined by its equation.
LEMMA DivUnique ==
  ASSUME NEW a \in Nat, NEW q \in Nat, NEW r \in 0 .. Width - 1,
         a = Width * q + r
  PROVE  a \div Width = q /\ a % Width = r
<1>1. PICK p \in Nat, s \in 0 .. Width - 1 :
        p = a \div Width /\ s = a % Width /\ a = Width * p + s
  BY WordBit DEF WordOf, BitOf
<1>2. CASE p < q
  <2>1. PICK d \in Nat : q = p + 1 + d
    <3>1. q - p - 1 \in Nat
      BY <1>2
    <3> QED BY <3>1
  <2>2. Width * q = Width * p + Width + Width * d /\ Width * d \in Nat
    BY <2>1
  <2>3. Width * p \in Nat
    OBVIOUS
  <2> QED BY <1>1, <2>2, <2>3
<1>3. CASE q < p
  <2>1. PICK d \in Nat : p = q + 1 + d
    <3>1. p - q - 1 \in Nat
      BY <1>3
    <3> QED BY <3>1
  <2>2. Width * p = Width * q + Width + Width * d /\ Width * d \in Nat
    BY <2>1
  <2>3. Width * q \in Nat
    OBVIOUS
  <2> QED BY <1>1, <2>2, <2>3
<1>4. CASE p = q
  <2>1. Width * q \in Nat
    OBVIOUS
  <2> QED BY <1>1, <1>4, <2>1
<1> QED BY <1>2, <1>3, <1>4

\* Division by Width is monotone, and so is the remainder within one word.
LEMMA DivMonotone ==
  ASSUME NEW a \in Nat, NEW b \in Nat, a <= b
  PROVE  /\ a \div Width \in Nat /\ b \div Width \in Nat
         /\ a % Width \in 0 .. Width - 1 /\ b % Width \in 0 .. Width - 1
         /\ a \div Width <= b \div Width
         /\ a \div Width = b \div Width => a % Width <= b % Width
<1>1. PICK p \in Nat, s \in 0 .. Width - 1 :
        p = a \div Width /\ s = a % Width /\ a = Width * p + s
  BY WordBit DEF WordOf, BitOf
<1>2. PICK q \in Nat, t \in 0 .. Width - 1 :
        q = b \div Width /\ t = b % Width /\ b = Width * q + t
  BY WordBit DEF WordOf, BitOf
<1>3. p <= q
  <2>1. SUFFICES ASSUME q < p PROVE FALSE
    OBVIOUS
  <2>2. PICK d \in Nat : p = q + 1 + d
    <3>1. p - q - 1 \in Nat
      BY <2>1
    <3> QED BY <3>1
  <2>3. Width * p = Width * q + Width + Width * d /\ Width * d \in Nat
    BY <2>2
  <2>4. Width * q \in Nat
    OBVIOUS
  <2> QED BY <1>1, <1>2, <2>3, <2>4
<1>4. p = q => s <= t
  <2>1. Width * q \in Nat
    OBVIOUS
  <2> QED BY <1>1, <1>2, <2>1
<1> QED BY <1>1, <1>2, <1>3, <1>4

\* The cursor gives the search a word of the bitmap and a bit of a word.
LEMMA ScanType ==
  ASSUME next_entry \in Nat
  PROVE  ScanWord \in 0 .. MaxEntries - 1 /\ ScanBit \in 0 .. Width - 1
<1>1. WordOf(next_entry) \in Nat /\ BitOf(next_entry) \in 0 .. Width - 1
  BY WordBit
<1> QED BY <1>1 DEF ScanWord, ScanBit

\* The k-th step of the search looks at a bit of the word SearchWord(k), at the
\* offset k % Width from the bit it began with.
LEMMA SearchPosition ==
  ASSUME next_entry \in Nat, NEW k \in Nat
  PROVE  /\ SearchWord(k) \in Nat /\ SearchWord(k) >= ScanWord
         /\ SearchId(k) \in Nat
         /\ WordOf(SearchId(k)) = SearchWord(k)
         /\ ScanOffset(SearchId(k)) = k % Width
<1>1. ScanWord \in 0 .. MaxEntries - 1 /\ ScanBit \in 0 .. Width - 1
  BY ScanType
<1>2. PICK s \in 0 .. Width - 1 : k \div Width \in Nat /\ s = k % Width
  BY WordBit DEF WordOf, BitOf
<1>3. SearchWord(k) \in Nat /\ SearchWord(k) >= ScanWord
  BY <1>1, <1>2 DEF SearchWord
<1>4. /\ SearchBit(k) \in 0 .. Width - 1
      /\ SearchBit(k) = ScanBit + s \/ SearchBit(k) = ScanBit + s - Width
  <2>1. PICK a \in Nat : a = ScanBit + s /\ a < Width + Width
    BY <1>1
  <2>2. SearchBit(k) = a % Width
    BY <1>2, <2>1 DEF SearchBit
  <2>3. /\ a % Width \in 0 .. Width - 1
        /\ a % Width = a \/ a % Width = a - Width
    <3>1. CASE a < Width
      <4>1. a = Width * 0 + a /\ a \in 0 .. Width - 1
        BY <3>1
      <4> QED BY <3>1, <4>1, DivUnique
    <3>2. CASE a >= Width
      <4>1. a = Width * 1 + (a - Width) /\ a - Width \in 0 .. Width - 1
        BY <2>1, <3>2
      <4>2. a % Width = a - Width
        BY <4>1, DivUnique
      <4> QED BY <3>2, <4>1, <4>2
    <3> QED BY <3>1, <3>2
  <2> QED BY <1>1, <2>1, <2>2, <2>3
<1>5. SearchId(k) \in Nat /\ SearchId(k) = Width * SearchWord(k) + SearchBit(k)
  BY <1>3, <1>4 DEF SearchId
<1>6. WordOf(SearchId(k)) = SearchWord(k) /\ BitOf(SearchId(k)) = SearchBit(k)
  BY <1>3, <1>4, <1>5, DivUnique DEF WordOf, BitOf
<1>7. ScanOffset(SearchId(k)) = k % Width
  BY <1>1, <1>2, <1>4, <1>6 DEF ScanOffset
<1> QED BY <1>3, <1>5, <1>6, <1>7

\* Every id in a word at or above the one of the cursor is looked at.
LEMMA SearchReaches ==
  ASSUME next_entry \in Nat, NEW id \in Nat, WordOf(id) >= ScanWord
  PROVE  \E k \in Nat : SearchId(k) = id
<1>1. ScanWord \in 0 .. MaxEntries - 1 /\ ScanBit \in 0 .. Width - 1
  BY ScanType
<1>2. /\ WordOf(id) \in Nat /\ BitOf(id) \in 0 .. Width - 1
      /\ id = Width * WordOf(id) + BitOf(id)
  BY WordBit
<1>3. PICK q \in Nat : WordOf(id) = ScanWord + q
  <2>1. WordOf(id) - ScanWord \in Nat
    BY <1>1, <1>2
  <2> QED BY <1>1, <1>2, <2>1
<1>4. PICK r \in 0 .. Width - 1 : r = ScanOffset(id)
  BY <1>1, <1>2 DEF ScanOffset
<1>5. PICK k \in Nat : k = Width * q + r
  <2>1. Width * q \in Nat
    OBVIOUS
  <2>2. Width * q + r \in Nat
    BY <2>1
  <2> QED BY <2>2
<1>6. k \div Width = q /\ k % Width = r
  BY <1>5, DivUnique
<1>7. SearchWord(k) = WordOf(id)
  BY <1>3, <1>6 DEF SearchWord
<1>8. SearchBit(k) = BitOf(id)
  <2>1. CASE BitOf(id) >= ScanBit
    <3>1. ScanBit + r = BitOf(id)
      BY <1>1, <1>2, <1>4, <2>1 DEF ScanOffset
    <3>2. BitOf(id) % Width = BitOf(id)
      <4>1. BitOf(id) \in Nat /\ BitOf(id) = Width * 0 + BitOf(id)
        BY <1>2
      <4> QED BY <1>2, <4>1, DivUnique
    <3> QED BY <1>6, <3>1, <3>2 DEF SearchBit
  <2>2. CASE BitOf(id) < ScanBit
    <3>1. ScanBit + r = Width + BitOf(id)
      BY <1>1, <1>2, <1>4, <2>2 DEF ScanOffset
    <3>2. (Width + BitOf(id)) % Width = BitOf(id)
      <4>1. Width + BitOf(id) \in Nat /\ Width + BitOf(id) = Width * 1 + BitOf(id)
        BY <1>2
      <4> QED BY <1>2, <4>1, DivUnique
    <3> QED BY <1>6, <3>1, <3>2 DEF SearchBit
  <2> QED BY <1>1, <1>2, <2>1, <2>2
<1>9. SearchId(k) = id
  <2>1. SearchId(k) = WordOf(id) * Width + BitOf(id)
    BY <1>7, <1>8 DEF SearchId
  <2>2. WordOf(id) * Width = Width * WordOf(id)
    BY <1>2
  <2> QED BY <1>2, <2>1, <2>2
<1> QED BY <1>9

\* From every step on there is a first one at which the search ends, and only
\* one.
LEMMA EndsFirstExists ==
  ASSUME next_entry \in Nat, NEW k \in Nat
  PROVE  \E j \in Nat : EndsFirst(k, j)
<1> DEFINE R == OpToRel(<, Nat)
           T == {j \in Nat : k <= j /\ Ends(j)}
<1>1. T # {}
  <2>1. PICK e \in Nat : e = Width * (MaxEntries + k) + 0
    OBVIOUS
  <2>2. MaxEntries + k \in Nat /\ 0 \in 0 .. Width - 1
    OBVIOUS
  <2>3. e \div Width = MaxEntries + k
    BY <2>1, <2>2, DivUnique
  <2>4. Ends(e)
    BY <2>3, ScanType DEF Ends, SearchWord
  <2>5. k <= e
    <3>1. PICK w \in Nat : Width = w + 1
      <4>1. Width - 1 \in Nat /\ Width = (Width - 1) + 1
        OBVIOUS
      <4> QED BY <4>1
    <3>2. e = w * MaxEntries + w * k + MaxEntries + k
      BY <2>1, <3>1
    <3>3. w * MaxEntries \in Nat /\ w * k \in Nat
      OBVIOUS
    <3> QED BY <3>2, <3>3
  <2> QED BY <2>4, <2>5
<1>2. T \subseteq Nat
  OBVIOUS
<1>3. IsWellFoundedOn(R, Nat)
  BY NatLessThanWellFounded
<1>4. PICK j \in T : \A i \in T : ~(<<i, j>> \in R)
  <2> HIDE DEF R, T
  <2> QED BY <1>1, <1>2, <1>3, WFMin
<1>5. \A i \in T : ~(i < j)
  <2>1. R = {ss \in Nat \X Nat : ss[1] < ss[2]}
    BY DEF OpToRel
  <2>2. \A i \in T : i \in Nat /\ j \in Nat
    BY <1>2
  <2> HIDE DEF R, T
  <2> QED BY <1>4, <2>1, <2>2
<1> QED BY <1>4, <1>5 DEF EndsFirst

LEMMA EndsFirstUnique ==
  ASSUME NEW k \in Nat, NEW i \in Nat, NEW j \in Nat,
         EndsFirst(k, i), EndsFirst(k, j)
  PROVE  i = j
BY DEF EndsFirst

\* The body of the loops: what is returned k bits into the search when g is
\* what is returned from the later steps.
LoopBody(g, k) ==
  CASE SearchWord(k) < MaxEntries /\ SearchId(k) \in desc -> g[k + 1]
    [] SearchWord(k) < MaxEntries /\ SearchId(k) \notin desc -> SearchId(k)
    [] OTHER -> -1

LEMMA LoopBodyValue ==
  ASSUME next_entry \in Nat, NEW k \in Nat, NEW g
  PROVE  LoopBody(g, k) = IF Ends(k) THEN Outcome(k) ELSE g[k + 1]
<1>1. SearchWord(k) \in Nat
  BY SearchPosition
<1>2. CASE SearchWord(k) >= MaxEntries
  BY <1>1, <1>2 DEF LoopBody, Ends, Outcome
<1>3. CASE SearchWord(k) < MaxEntries /\ SearchId(k) \in desc
  BY <1>1, <1>3 DEF LoopBody, Ends, Outcome
<1>4. CASE SearchWord(k) < MaxEntries /\ SearchId(k) \notin desc
  BY <1>1, <1>4 DEF LoopBody, Ends, Outcome
<1> QED BY <1>1, <1>2, <1>3, <1>4

\* The loops are the function that the recursive definition names.
LoopFunction == CHOOSE g : g = [k \in Nat |-> LoopBody(g, k)]

LEMMA NextIdLoopIsFunction == NextIdLoop = LoopFunction[0]
BY DEF NextIdLoop, NextIdFrom, LoopFunction, LoopBody, SearchWord, SearchBit,
       SearchId

\* Some function satisfies the recursion: the search ends from every step.
LEMMA LoopFunctionExists ==
  ASSUME next_entry \in Nat
  PROVE  LoopFunction = [k \in Nat |-> LoopBody(LoopFunction, k)]
<1> DEFINE E(k) == CHOOSE j \in Nat : EndsFirst(k, j)
           g == [k \in Nat |-> Outcome(E(k))]
<1>1. ASSUME NEW k \in Nat
      PROVE  E(k) \in Nat /\ EndsFirst(k, E(k))
  BY EndsFirstExists
<1> HIDE DEF E
<1>2. ASSUME NEW k \in Nat
      PROVE  g[k] = LoopBody(g, k)
  <2>1. LoopBody(g, k) = IF Ends(k) THEN Outcome(k) ELSE g[k + 1]
    <3> HIDE DEF g
    <3> QED BY LoopBodyValue
  <2>2. CASE Ends(k)
    <3>1. EndsFirst(k, k)
      BY <2>2 DEF EndsFirst
    <3>2. E(k) = k
      BY <1>1, <3>1, EndsFirstUnique
    <3> QED BY <2>1, <2>2, <3>2
  <2>3. CASE ~Ends(k)
    <3>1. k + 1 \in Nat /\ E(k + 1) \in Nat /\ EndsFirst(k + 1, E(k + 1))
      BY <1>1
    <3>2. ASSUME NEW i \in Nat, k <= i, i < E(k + 1)
          PROVE  ~Ends(i)
      <4>1. i = k \/ k + 1 <= i
        BY <3>2
      <4> QED BY <2>3, <3>1, <3>2, <4>1 DEF EndsFirst
    <3>3. EndsFirst(k, E(k + 1))
      BY <3>1, <3>2 DEF EndsFirst
    <3>4. E(k) = E(k + 1)
      BY <1>1, <3>1, <3>3, EndsFirstUnique
    <3> QED BY <2>1, <2>3, <3>1, <3>4
  <2> QED BY <2>2, <2>3
<1>3. g = [k \in Nat |-> LoopBody(g, k)]
  <2>1. g = [k \in Nat |-> g[k]]
    OBVIOUS
  <2> HIDE DEF g
  <2> QED BY <1>2, <2>1
<1> HIDE DEF g
<1> QED BY <1>3 DEF LoopFunction

\* The loops return what the first step that ends them returns.
LEMMA NextIdLoopValue ==
  ASSUME next_entry \in Nat, NEW m \in Nat, EndsFirst(0, m)
  PROVE  NextIdLoop = Outcome(m)
<1> DEFINE f == LoopFunction
           R == OpToRel(<, Nat)
           T == {i \in Nat : i <= m /\ f[i] = Outcome(m)}
<1>1. ASSUME NEW k \in Nat
      PROVE  f[k] = IF Ends(k) THEN Outcome(k) ELSE f[k + 1]
  <2>1. f[k] = LoopBody(f, k)
    BY LoopFunctionExists
  <2> QED BY <2>1, LoopBodyValue
<1>2. m \in T
  BY <1>1 DEF EndsFirst
<1>3. T \subseteq Nat
  OBVIOUS
<1>4. PICK i \in T : \A j \in T : ~(<<j, i>> \in R)
  <2>1. IsWellFoundedOn(R, Nat)
    BY NatLessThanWellFounded
  <2> HIDE DEF R, T
  <2> QED BY <1>2, <1>3, <2>1, WFMin
<1>5. \A j \in T : ~(j < i)
  <2>1. R = {ss \in Nat \X Nat : ss[1] < ss[2]}
    BY DEF OpToRel
  <2>2. \A j \in T : j \in Nat /\ i \in Nat
    BY <1>3
  <2> HIDE DEF R, T
  <2> QED BY <1>4, <2>1, <2>2
<1>6. i = 0
  <2>1. SUFFICES ASSUME i # 0 PROVE FALSE
    OBVIOUS
  <2>2. i \in Nat /\ i <= m /\ f[i] = Outcome(m)
    BY <1>4
  <2>3. PICK j \in Nat : i = j + 1
    <3>1. i - 1 \in Nat
      BY <2>1, <2>2
    <3> QED BY <2>2, <3>1
  <2>4. ~Ends(j)
    BY <2>2, <2>3 DEF EndsFirst
  <2>5. f[j] = f[i]
    BY <1>1, <2>3, <2>4
  <2>6. j \in T
    BY <2>2, <2>3, <2>5
  <2> QED BY <1>5, <2>3, <2>6
<1>7. f[0] = Outcome(m)
  BY <1>4, <1>6
<1> QED BY <1>7, NextIdLoopIsFunction

\* The loops return the first free id of the search, or -1 if there is none.
LEMMA SearchFindsFirst ==
  ASSUME next_entry \in Nat
  PROVE  IF Candidates = {} THEN NextIdLoop = -1 ELSE IsNextId(NextIdLoop)
<1>1. PICK m \in Nat : EndsFirst(0, m)
  BY EndsFirstExists
<1>2. NextIdLoop = Outcome(m)
  BY <1>1, NextIdLoopValue
<1>3. ASSUME NEW c \in Candidates
      PROVE  \E k \in Nat : SearchId(k) = c /\ m <= k /\ SearchWord(k) < MaxEntries
  <2>1. c \in Nat /\ c < Width * MaxEntries /\ c \notin desc /\ WordOf(c) >= ScanWord
    BY IdsType DEF Candidates, Ids
  <2>2. PICK k \in Nat : SearchId(k) = c
    BY <2>1, SearchReaches
  <2>3. SearchWord(k) < MaxEntries
    BY <2>1, <2>2, SearchPosition, WordInBitmap
  <2>4. Ends(k)
    BY <2>1, <2>2 DEF Ends
  <2>5. m <= k
    BY <1>1, <2>4 DEF EndsFirst
  <2> QED BY <2>2, <2>3, <2>5
<1>4. ASSUME NEW k \in Nat, m <= k
      PROVE  /\ SearchWord(m) <= SearchWord(k)
             /\ SearchWord(m) = SearchWord(k) => m % Width <= k % Width
  <2>1. /\ m \div Width \in Nat /\ k \div Width \in Nat
        /\ m \div Width <= k \div Width
        /\ m \div Width = k \div Width => m % Width <= k % Width
    BY <1>4, DivMonotone
  <2>2. ScanWord \in Int
    BY ScanType
  <2> QED BY <2>1, <2>2 DEF SearchWord
<1>5. SearchWord(m) \in Nat
  BY SearchPosition
<1>6. CASE SearchWord(m) >= MaxEntries
  <2>1. Candidates = {}
    <3>1. SUFFICES ASSUME NEW c \in Candidates PROVE FALSE
      OBVIOUS
    <3>2. PICK k \in Nat : m <= k /\ SearchWord(k) < MaxEntries
      BY <1>3
    <3>3. SearchWord(k) \in Nat /\ SearchWord(m) <= SearchWord(k)
      BY <1>4, <3>2, SearchPosition
    <3> QED BY <1>5, <1>6, <3>2, <3>3
  <2>2. NextIdLoop = -1
    BY <1>2, <1>6 DEF Outcome
  <2> QED BY <2>1, <2>2
<1>7. CASE SearchWord(m) < MaxEntries
  <2>1. NextIdLoop = SearchId(m)
    BY <1>2, <1>5, <1>7 DEF Outcome
  <2>2. SearchId(m) \notin desc
    BY <1>1, <1>5, <1>7 DEF EndsFirst, Ends
  <2>3. /\ SearchId(m) \in Nat /\ SearchWord(m) >= ScanWord
        /\ WordOf(SearchId(m)) = SearchWord(m)
        /\ ScanOffset(SearchId(m)) = m % Width
    BY SearchPosition
  <2>4. SearchId(m) < Width * MaxEntries
    BY <1>7, <2>3, WordInBitmap
  <2>5. SearchId(m) \in Candidates
    BY <2>2, <2>3, <2>4, IdsType DEF Candidates, Ids
  <2>6. ASSUME NEW c \in Candidates
        PROVE  \/ WordOf(SearchId(m)) < WordOf(c)
               \/ /\ WordOf(SearchId(m)) = WordOf(c)
                  /\ ScanOffset(SearchId(m)) <= ScanOffset(c)
    <3>1. PICK k \in Nat : SearchId(k) = c /\ m <= k
      BY <1>3
    <3>2. /\ SearchWord(k) \in Nat /\ WordOf(c) = SearchWord(k)
          /\ ScanOffset(c) = k % Width
      BY <3>1, SearchPosition
    <3>3. /\ SearchWord(m) <= SearchWord(k)
          /\ SearchWord(m) = SearchWord(k) => m % Width <= k % Width
      BY <1>4, <3>1
    <3> QED BY <1>5, <2>3, <3>2, <3>3
  <2>7. IsNextId(SearchId(m))
    BY <2>5, <2>6 DEF IsNextId
  <2> QED BY <2>1, <2>5, <2>7
<1> QED BY <1>5, <1>6, <1>7

-----------------------------------------------------------------------------
(* The inductive invariant *)

\* The invariant that every action preserves.
DtblInv == UseTypeOK /\ IdsAreExclusive /\ GenerationShape

\* In the first generation the ids in use are below the cursor.
LEMMA DescBelowCursor ==
  ASSUME DtblInv, UseFirstGeneration
  PROVE  desc \subseteq 0 .. next_entry - 1
<1>1. desc = {held[v] : v \in Values} \ {-1}
  BY DEF DtblInv, IdsAreExclusive, UseFirstGeneration
<1>2. held \in [Values -> Ids \cup {-1}] /\ next_entry \in Nat
  BY DEF DtblInv, UseTypeOK, DtblTypeOK
<1>3. \A v \in Values : held[v] # -1 => held[v] \in Nat /\ held[v] < next_entry
  BY <1>2, IdsType DEF DtblInv, GenerationShape
<1> QED BY <1>1, <1>2, <1>3

LEMMA DtblInvInit == UseInit => DtblInv
<1> SUFFICES ASSUME UseInit PROVE DtblInv
  OBVIOUS
<1>1. UseTypeOK
  <2>1. hasdesc \in BOOLEAN /\ forgotten \in BOOLEAN
    BY Zenon DEF UseInit, DtblInit
  <2>2. held \in [Values -> Ids \cup {-1}]
    BY DEF UseInit
  <2>3. desc \in SUBSET Ids /\ next_entry \in 0 .. Width * MaxEntries
    BY IdsType DEF UseInit, DtblInit
  <2>4. entries \in Seq(Entry)
    BY DEF UseInit, DtblInit
  <2> QED BY <2>1, <2>2, <2>3, <2>4 DEF UseTypeOK, DtblTypeOK
<1>2. IdsAreExclusive
  BY DEF UseInit, DtblInit, IdsAreExclusive
<1>3. GenerationShape
  BY DEF UseInit, DtblInit, GenerationShape
<1> QED BY <1>1, <1>2, <1>3 DEF DtblInv

\* A successful dtbl_set preserves the invariant.
LEMMA RegisterInv ==
  ASSUME DtblInv, NEW v \in Values, Register(v)
  PROVE  DtblInv'
<1>1. PICK id \in Ids : DtblSet(v, id) /\ held' = [held EXCEPT ![v] = id]
  BY DEF Register
<1>2. /\ UseTypeOK /\ DtblTypeOK
      /\ held \in [Values -> Ids \cup {-1}]
      /\ entries \in Seq(Entry)
      /\ id \in Ids \ desc
      /\ forgotten' = forgotten
      /\ entries' = Append(entries, [id |-> id, value |-> v])
      /\ desc' = desc \cup {id}
      /\ next_entry' = id + 1
  BY <1>1, NextIdIsFree DEF DtblInv, UseTypeOK, DtblTypeOK, DtblSet, Register
<1>3. UseTypeOK'
  <2>1. [id |-> id, value |-> v] \in Entry
    BY DEF Entry
  <2>2. entries' \in Seq(Entry)
    BY <1>2, <2>1
  <2>3. next_entry' \in 0 .. Width * MaxEntries
    BY <1>2, IdsType DEF Ids
  <2> QED BY <1>1, <1>2, <2>2, <2>3 DEF UseTypeOK, DtblTypeOK, DtblSet
<1>4. IdsAreExclusive'
  <2> SUFFICES ASSUME ~forgotten'
               PROVE  /\ \A a, b \in Values :
                           held'[a] = held'[b] /\ held'[a] # -1 => a = b
                      /\ desc' = {held'[a] : a \in Values} \ {-1}
    BY DEF IdsAreExclusive
  <2>1. /\ \A a, b \in Values : held[a] = held[b] /\ held[a] # -1 => a = b
        /\ desc = {held[a] : a \in Values} \ {-1}
        /\ held[v] = -1
    BY <1>2 DEF DtblInv, IdsAreExclusive, Register
  <2>2. \A a \in Values : held'[a] = IF a = v THEN id ELSE held[a]
    BY <1>1, <1>2
  <2>3. id # -1 /\ \A a \in Values : held[a] # id
    BY <1>2, <2>1, IdsType
  <2> QED BY <1>2, <2>1, <2>2, <2>3
<1>5. GenerationShape'
  <2> SUFFICES ASSUME UseFirstGeneration' PROVE GenerationShape'
    BY DEF GenerationShape
  <2>1. Len(entries') = Len(entries) + 1 /\ Len(entries) \in Nat
    BY <1>2
  <2>2. UseFirstGeneration /\ Len(entries) < Width * MaxEntries
    BY <1>2, <2>1, IdsType DEF UseFirstGeneration
  <2>3. /\ next_entry = Len(entries)
        /\ \A i \in 1 .. Len(entries) : entries[i].id = i - 1
        /\ \A a \in Values : held[a] # -1 =>
             held[a] < Len(entries) /\ entries[held[a] + 1].value = a
    BY <2>2 DEF DtblInv, GenerationShape
  <2>4. desc \subseteq 0 .. next_entry - 1
    BY <2>2, DescBelowCursor
  <2>5. id = Len(entries)
    <3>1. IsNextId(id)
      BY <1>1 DEF DtblSet
    <3> QED BY <1>2, <2>2, <2>3, <2>4, <3>1, NextIdIsCursor
  <2>6. \A i \in 1 .. Len(entries') :
          entries'[i] = IF i <= Len(entries) THEN entries[i]
                                             ELSE [id |-> id, value |-> v]
    BY <1>2, <2>1
  <2>7. \A i \in 1 .. Len(entries') : entries'[i].id = i - 1
    BY <2>1, <2>3, <2>5, <2>6
  <2>8. \A a \in Values : held'[a] # -1 =>
          held'[a] < Len(entries') /\ entries'[held'[a] + 1].value = a
    <3> SUFFICES ASSUME NEW a \in Values, held'[a] # -1
                 PROVE  held'[a] < Len(entries')
                        /\ entries'[held'[a] + 1].value = a
      OBVIOUS
    <3>1. CASE a = v
      BY <1>1, <1>2, <2>1, <2>5, <2>6, <3>1
    <3>2. CASE a # v
      <4>1. held'[a] = held[a] /\ held[a] \in Nat
        BY <1>1, <1>2, <3>2, IdsType
      <4> QED BY <4>1, <2>1, <2>3, <2>6
    <3> QED BY <3>1, <3>2
  <2> QED BY <1>2, <2>1, <2>5, <2>7, <2>8 DEF GenerationShape
<1> QED BY <1>3, <1>4, <1>5 DEF DtblInv

\* A dtbl_set that returns an id without storing it preserves the invariant.
LEMMA RegisterUnstoredInv ==
  ASSUME DtblInv, NEW v \in Values, RegisterUnstored(v)
  PROVE  DtblInv'
<1>1. PICK id \in Ids : DtblSetUnstored(id) /\ held' = [held EXCEPT ![v] = id]
  BY DEF RegisterUnstored
<1>2. forgotten' = TRUE /\ hasdesc' = TRUE
  BY <1>1 DEF RegisterUnstored, DtblSetUnstored
<1>3. hasdesc' \in BOOLEAN /\ forgotten' \in BOOLEAN
  BY <1>2, Zenon
<1>4. UseTypeOK'
  BY <1>1, <1>3 DEF DtblInv, UseTypeOK, DtblTypeOK, DtblSetUnstored
<1>5. IdsAreExclusive' /\ GenerationShape'
  BY <1>2 DEF IdsAreExclusive, GenerationShape, UseFirstGeneration
<1> QED BY <1>4, <1>5 DEF DtblInv

\* A dtbl_set that returns -1 preserves the invariant.
LEMMA RegisterFailsInv ==
  ASSUME DtblInv, NEW v \in Values, RegisterFails(v)
  PROVE  DtblInv'
<1>1. UNCHANGED <<desc, next_entry, entries, held, forgotten>>
  BY DEF RegisterFails, DtblSetFull, DtblSetNoBitmap, dtblVars
<1>2. hasdesc' = TRUE \/ hasdesc' = hasdesc
  BY DEF RegisterFails, DtblSetFull, DtblSetNoBitmap, dtblVars
<1>3. hasdesc' \in BOOLEAN
  BY <1>2, Zenon DEF DtblInv, UseTypeOK, DtblTypeOK
<1> QED BY <1>1, <1>3 DEF DtblInv, UseTypeOK, DtblTypeOK, IdsAreExclusive,
                          GenerationShape, UseFirstGeneration

\* dtbl_del preserves the invariant.
LEMMA UnregisterInv ==
  ASSUME DtblInv, NEW v \in Values, Unregister(v)
  PROVE  DtblInv'
<1>1. /\ held \in [Values -> Ids \cup {-1}]
      /\ held' = [held EXCEPT ![v] = -1]
      /\ desc' = desc \ {held[v]}
      /\ held[v] # -1
      /\ UNCHANGED <<hasdesc, next_entry, entries, forgotten>>
  BY DEF DtblInv, UseTypeOK, Unregister, DtblDel
<1>2. \A a \in Values : held'[a] = IF a = v THEN -1 ELSE held[a]
  BY <1>1
<1>3. UseTypeOK'
  <2>1. held' \in [Values -> Ids \cup {-1}]
    BY <1>1
  <2> QED BY <1>1, <2>1 DEF DtblInv, UseTypeOK, DtblTypeOK
<1>4. IdsAreExclusive'
  <2> SUFFICES ASSUME ~forgotten
               PROVE  /\ \A a, b \in Values :
                           held'[a] = held'[b] /\ held'[a] # -1 => a = b
                      /\ desc' = {held'[a] : a \in Values} \ {-1}
    BY <1>1 DEF IdsAreExclusive
  <2>1. /\ \A a, b \in Values : held[a] = held[b] /\ held[a] # -1 => a = b
        /\ desc = {held[a] : a \in Values} \ {-1}
    BY DEF DtblInv, IdsAreExclusive
  <2> QED BY <1>1, <1>2, <2>1
<1>5. GenerationShape'
  BY <1>1, <1>2 DEF DtblInv, GenerationShape, UseFirstGeneration
<1> QED BY <1>3, <1>4, <1>5 DEF DtblInv

LEMMA DtblInvStep == DtblInv /\ [UseNext]_useVars => DtblInv'
<1> SUFFICES ASSUME DtblInv, [UseNext]_useVars PROVE DtblInv'
  OBVIOUS
<1>1. CASE UseNext
  BY <1>1, RegisterInv, RegisterUnstoredInv, RegisterFailsInv, UnregisterInv
  DEF UseNext
<1>2. CASE UNCHANGED useVars
  BY <1>2 DEF useVars, DtblInv, UseTypeOK, DtblTypeOK, IdsAreExclusive,
              GenerationShape, UseFirstGeneration
<1> QED BY <1>1, <1>2

LEMMA DtblInvariant == UseSpec => []DtblInv
BY DtblInvInit, DtblInvStep, PTL DEF UseSpec

-----------------------------------------------------------------------------
(* What follows from the invariant *)

LEMMA LookupFromInv == DtblInv => LookupFindsOwner
<1> SUFFICES ASSUME DtblInv, UseFirstGeneration, NEW v \in Values, held[v] # -1
             PROVE  Get(held[v]) = v
  BY DEF LookupFindsOwner
<1>1. held[v] \in Nat /\ entries \in Seq(Entry)
  BY IdsType DEF DtblInv, UseTypeOK, DtblTypeOK
<1>2. /\ \A i \in 1 .. Len(entries) : entries[i].id = i - 1
      /\ held[v] < Len(entries) /\ entries[held[v] + 1].value = v
  BY DEF DtblInv, GenerationShape
<1> QED BY <1>1, <1>2, GetOfShape

LEMMA RefusalFromInv == DtblInv => RefusesOnlyWhenFull
<1> SUFFICES ASSUME DtblInv, UseFirstGeneration, Candidates = {}
             PROVE  Ids \subseteq desc
  BY DEF RefusesOnlyWhenFull, DtblInv, UseTypeOK, DtblTypeOK
<1>1. /\ next_entry = Len(entries) /\ next_entry \in Nat
      /\ next_entry <= Width * MaxEntries
  BY DEF DtblInv, GenerationShape, UseFirstGeneration, UseTypeOK, DtblTypeOK
<1>2. CASE next_entry = Width * MaxEntries
  <2>1. ScanWord = 0
    BY <1>1, <1>2, WordInBitmap, WordBit DEF ScanWord
  <2> QED BY <2>1, WordBit DEF Candidates, Ids
<1>3. CASE next_entry < Width * MaxEntries
  <2>1. desc \subseteq 0 .. next_entry - 1
    BY DescBelowCursor
  <2>2. next_entry \in Ids \ desc
    BY <1>1, <1>3, <2>1, IdsType DEF Ids
  <2>3. WordOf(next_entry) >= ScanWord
    BY <1>1, WordBit DEF ScanWord
  <2> QED BY <2>2, <2>3 DEF Candidates
<1> QED BY <1>1, <1>2, <1>3, IdsType

-----------------------------------------------------------------------------
(* The theorems *)

\* The variables of the table and of its callers always have their types.
THEOREM TypeCorrect == UseSpec => []UseTypeOK
BY DtblInvariant, PTL DEF DtblInv

\* dtbl_set never gives an id to two owners, however often ids are given back
\* and handed out again, as long as every entry can be allocated.
THEOREM ExclusiveIds == UseSpec => []IdsAreExclusive
BY DtblInvariant, PTL DEF DtblInv

\* dtbl_get finds the right pointer for every held id until more entries have
\* been pushed than there are ids.
THEOREM LookupCorrect == UseSpec => []LookupFindsOwner
BY DtblInvariant, LookupFromInv, PTL

\* In that time dtbl_set returns -1 only when all ids are in use.
THEOREM RefusalCorrect == UseSpec => []RefusesOnlyWhenFull
BY DtblInvariant, RefusalFromInv, PTL

LEMMA SearchFromInv == DtblInv => SearchIsFirstFree
<1> SUFFICES ASSUME DtblInv PROVE SearchIsFirstFree
  OBVIOUS
<1>1. next_entry \in Nat
  BY IdsType DEF DtblInv, UseTypeOK, DtblTypeOK
<1> QED BY <1>1, SearchFindsFirst DEF SearchIsFirstFree

\* Wherever the cursor is, the nested loops of __dtbl_next_id return the free id
\* that is first in cyclic order in the lowest word that has one, and -1 exactly
\* when no word from the one of the cursor on has a free id.
THEOREM SearchCorrect == UseSpec => []SearchIsFirstFree
BY DtblInvariant, SearchFromInv, PTL

=============================================================================
