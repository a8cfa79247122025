--------------------------- MODULE NameListProofs ---------------------------
(* Proofs about the list of list.c and its use by names, for every set of    *)
(* nodes, names and threads.                                                 *)
EXTENDS NameList, FiniteSetTheorems, WellFoundedInduction, TLAPS

USE NodesAssumption

-----------------------------------------------------------------------------
(* What following the links gives *)

\* The links lead from first through s, without coming back, to the end.
IsPath(s, first, link) ==
  /\ s \in Seq(Nodes)
  /\ \A i, j \in 1 .. Len(s) : s[i] = s[j] => i = j
  /\ first = IF Len(s) = 0 THEN NULL ELSE s[1]
  /\ \A i \in 1 .. Len(s) : link[s[i]] = IF i = Len(s) THEN NULL ELSE s[i + 1]

\* The recursive function in Follow.
At(first, link) ==
  CHOOSE g : g = [k \in 1 .. Cardinality(Nodes) + 1 |->
    IF k = 1 THEN first ELSE IF g[k - 1] = NULL THEN NULL ELSE link[g[k - 1]]]

LEMMA FollowAt ==
  ASSUME NEW first, NEW link
  PROVE  Follow(first, link) =
           [k \in 1 .. Cardinality({j \in DOMAIN At(first, link) : At(first, link)[j] # NULL})
              |-> At(first, link)[k]]
BY DEF Follow, At

\* A non-empty set of natural numbers has a least element.
LEMMA LeastNumber ==
  ASSUME NEW T \in SUBSET Nat, T # {}
  PROVE  \E j \in T : \A i \in T : j <= i
<1> DEFINE R == OpToRel(<, Nat)
<1>1. R = {ss \in Nat \X Nat : ss[1] < ss[2]}
  BY DEF OpToRel
<1>2. PICK j \in T : \A i \in T : ~(<<i, j>> \in R)
  <2>1. IsWellFoundedOn(R, Nat)
    BY NatLessThanWellFounded
  <2> HIDE DEF R
  <2> QED BY <2>1, WFMin
<1>3. \A i \in T : ~(i < j)
  <2> HIDE DEF R
  <2> QED BY <1>1, <1>2
<1>4. \A i \in T : i \in Nat
  OBVIOUS
<1>5. \A i \in T : j <= i
  BY <1>3, <1>4
<1> QED BY <1>5

\* A list without repetition is not longer than there are nodes.
LEMMA PathIsShort ==
  ASSUME NEW s \in Seq(Nodes), \A i, j \in 1 .. Len(s) : s[i] = s[j] => i = j
  PROVE  Cardinality(Nodes) \in Nat /\ Len(s) <= Cardinality(Nodes)
<1>1. s \in Injection(1 .. Len(s), Nodes)
  BY DEF Injection, IsInjective
<1>2. Cardinality(1 .. Len(s)) <= Cardinality(Nodes)
  BY <1>1, FS_Injection
<1>3. Cardinality(1 .. Len(s)) = Len(s)
  <2>1. Len(s) \in Nat /\ Len(s) \in Int /\ 1 \in Int
    OBVIOUS
  <2>2. Cardinality(1 .. Len(s)) = IF 1 > Len(s) THEN 0 ELSE Len(s) - 1 + 1
    BY <2>1, FS_Interval
  <2> QED BY <2>1, <2>2
<1> QED BY <1>2, <1>3, FS_CardinalityType

\* Follow gives the path.
LEMMA FollowPath ==
  ASSUME NEW s, NEW first, NEW link, IsPath(s, first, link)
  PROVE  Follow(first, link) = s
<1> DEFINE a == At(first, link)
           g == [k \in 1 .. Cardinality(Nodes) + 1 |-> IF k <= Len(s) THEN s[k] ELSE NULL]
<1>0. /\ s \in Seq(Nodes) /\ Len(s) \in Nat
      /\ Cardinality(Nodes) \in Nat /\ Len(s) <= Cardinality(Nodes)
  BY PathIsShort DEF IsPath
<1>1. g = [k \in 1 .. Cardinality(Nodes) + 1 |->
             IF k = 1 THEN first ELSE IF g[k - 1] = NULL THEN NULL ELSE link[g[k - 1]]]
  <2>1. ASSUME NEW k \in 1 .. Cardinality(Nodes) + 1
        PROVE  g[k] = IF k = 1 THEN first ELSE IF g[k - 1] = NULL THEN NULL ELSE link[g[k - 1]]
    <3>1. CASE k = 1
      BY <1>0, <3>1 DEF IsPath
    <3>2. CASE k # 1 /\ k - 1 <= Len(s)
      <4>1. k - 1 \in 1 .. Len(s) /\ k - 1 \in 1 .. Cardinality(Nodes) + 1
        BY <1>0, <3>2
      <4>2. g[k - 1] = s[k - 1] /\ s[k - 1] \in Nodes
        BY <1>0, <3>2, <4>1
      <4>3. link[s[k - 1]] = IF k - 1 = Len(s) THEN NULL ELSE s[(k - 1) + 1]
        BY <4>1 DEF IsPath
      <4>4. g[k] = IF k - 1 = Len(s) THEN NULL ELSE s[(k - 1) + 1]
        BY <1>0, <3>2
      <4> HIDE DEF g
      <4> QED BY <3>2, <4>2, <4>3, <4>4
    <3>3. CASE k # 1 /\ k - 1 > Len(s)
      <4>1. k - 1 \in 1 .. Cardinality(Nodes) + 1
        BY <1>0, <3>3
      <4>2. g[k - 1] = NULL /\ g[k] = NULL
        BY <1>0, <3>3, <4>1
      <4> HIDE DEF g
      <4> QED BY <3>3, <4>2
    <3> QED BY <1>0, <3>1, <3>2, <3>3
  <2> QED BY <2>1
<1>2. a = [k \in 1 .. Cardinality(Nodes) + 1 |->
             IF k = 1 THEN first ELSE IF a[k - 1] = NULL THEN NULL ELSE link[a[k - 1]]]
  <2> HIDE DEF g
  <2> QED BY <1>1 DEF At
<1> HIDE DEF a
<1>3. \A k \in 1 .. Cardinality(Nodes) + 1 : a[k] = g[k]
  <2> DEFINE T == {k \in 1 .. Cardinality(Nodes) + 1 : a[k] # g[k]}
  <2>1. SUFFICES ASSUME T # {} PROVE FALSE
    OBVIOUS
  <2>2. T \in SUBSET Nat
    BY <1>0
  <2>3. PICK k \in T : \A i \in T : k <= i
    <3> HIDE DEF T
    <3> QED BY <2>1, <2>2, LeastNumber
  <2>4. k \in 1 .. Cardinality(Nodes) + 1 /\ a[k] # g[k]
    BY <2>3
  <2>5. k # 1
    <3> HIDE DEF g, T
    <3> QED BY <1>1, <1>2, <2>4
  <2>6. k - 1 \in 1 .. Cardinality(Nodes) + 1
    BY <1>0, <2>4, <2>5
  <2>7. a[k - 1] = g[k - 1]
    <3>1. k - 1 \notin T
      <4> HIDE DEF T
      <4> QED BY <1>0, <2>3, <2>4
    <3> QED BY <3>1, <2>6
  <2> HIDE DEF g, T
  <2>8. a[k] = IF a[k - 1] = NULL THEN NULL ELSE link[a[k - 1]]
    BY <1>2, <2>4, <2>5
  <2>9. g[k] = IF g[k - 1] = NULL THEN NULL ELSE link[g[k - 1]]
    BY <1>1, <2>4, <2>5
  <2> QED BY <2>4, <2>7, <2>8, <2>9
<1>4. {j \in DOMAIN a : a[j] # NULL} = 1 .. Len(s)
  <2>1. DOMAIN a = 1 .. Cardinality(Nodes) + 1
    BY <1>2
  <2>2. \A j \in 1 .. Cardinality(Nodes) + 1 : a[j] = IF j <= Len(s) THEN s[j] ELSE NULL
    BY <1>3
  <2>3. \A j \in 1 .. Len(s) : s[j] # NULL /\ j \in 1 .. Cardinality(Nodes) + 1
    BY <1>0
  <2> HIDE DEF g
  <2> QED BY <1>0, <2>1, <2>2, <2>3
<1>5. Cardinality({j \in DOMAIN a : a[j] # NULL}) = Len(s)
  <2>1. Len(s) \in Int /\ 1 \in Int
    BY <1>0
  <2>2. Cardinality(1 .. Len(s)) = IF 1 > Len(s) THEN 0 ELSE Len(s) - 1 + 1
    BY <2>1, FS_Interval
  <2>3. Cardinality(1 .. Len(s)) = Len(s)
    BY <1>0, <2>2
  <2> QED BY <1>4, <2>3
<1>6. Follow(first, link) = [k \in 1 .. Len(s) |-> a[k]]
  BY <1>5, FollowAt DEF a
<1>7. \A k \in 1 .. Len(s) : a[k] = s[k]
  BY <1>0, <1>3
<1>8. s = [k \in 1 .. Len(s) |-> s[k]]
  BY <1>0
<1> HIDE DEF g
<1> QED BY <1>6, <1>7, <1>8

-----------------------------------------------------------------------------
(* The operations of list.c *)

\* The links are those of the list s, in both directions.
Order(s) ==
  /\ IsPath(s, head, next)
  /\ tail = IF Len(s) = 0 THEN NULL ELSE s[Len(s)]
  /\ \A i \in 1 .. Len(s) : prev[s[i]] = IF i = 1 THEN NULL ELSE s[i - 1]

\* The list s without its j-th node.
Without(s, j) == [i \in 1 .. Len(s) - 1 |-> s[IF i < j THEN i ELSE i + 1]]

LEMMA WithoutParts ==
  ASSUME NEW s \in Seq(Nodes), NEW j \in 1 .. Len(s)
  PROVE  /\ Without(s, j) \in Seq(Nodes)
         /\ Len(Without(s, j)) = Len(s) - 1
         /\ \A i \in 1 .. Len(s) - 1 : Without(s, j)[i] = s[IF i < j THEN i ELSE i + 1]
<1>1. \A i \in 1 .. Len(s) - 1 : s[IF i < j THEN i ELSE i + 1] \in Nodes
  OBVIOUS
<1>2. Len(s) - 1 \in Nat
  OBVIOUS
<1> QED BY <1>1, <1>2 DEF Without

\* Backwards from tail are the nodes of s in the other order.
LEMMA BackPath ==
  ASSUME NEW s, Order(s)
  PROVE  IsPath([k \in 1 .. Len(s) |-> s[Len(s) + 1 - k]], tail, prev)
<1> DEFINE r == [k \in 1 .. Len(s) |-> s[Len(s) + 1 - k]]
<1>0. s \in Seq(Nodes) /\ Len(s) \in Nat
  BY DEF Order, IsPath
<1>1. /\ r \in Seq(Nodes) /\ Len(r) = Len(s)
      /\ \A k \in 1 .. Len(s) : r[k] = s[Len(s) + 1 - k]
  <2>1. \A k \in 1 .. Len(s) : s[Len(s) + 1 - k] \in Nodes
    BY <1>0
  <2> QED BY <1>0, <2>1
<1> HIDE DEF r
<1>2. \A i, j \in 1 .. Len(r) : r[i] = r[j] => i = j
  <2> SUFFICES ASSUME NEW i \in 1 .. Len(r), NEW j \in 1 .. Len(r), r[i] = r[j] PROVE i = j
    OBVIOUS
  <2>1. Len(s) + 1 - i \in 1 .. Len(s) /\ Len(s) + 1 - j \in 1 .. Len(s)
    BY <1>0, <1>1
  <2>2. s[Len(s) + 1 - i] = s[Len(s) + 1 - j]
    BY <1>1
  <2>3. \A a, b \in 1 .. Len(s) : s[a] = s[b] => a = b
    BY DEF Order, IsPath
  <2>4. Len(s) + 1 - i = Len(s) + 1 - j
    BY <2>1, <2>2, <2>3
  <2> QED BY <1>0, <1>1, <2>4
<1>3. tail = IF Len(r) = 0 THEN NULL ELSE r[1]
  BY <1>0, <1>1 DEF Order
<1>4. ASSUME NEW i \in 1 .. Len(r) PROVE prev[r[i]] = IF i = Len(r) THEN NULL ELSE r[i + 1]
  <2>1. Len(s) + 1 - i \in 1 .. Len(s) /\ r[i] = s[Len(s) + 1 - i]
    BY <1>0, <1>1
  <2>2. prev[r[i]] = IF Len(s) + 1 - i = 1 THEN NULL ELSE s[(Len(s) + 1 - i) - 1]
    BY <2>1 DEF Order
  <2>3. i # Len(r) => i + 1 \in 1 .. Len(s) /\ r[i + 1] = s[Len(s) + 1 - (i + 1)]
    BY <1>0, <1>1
  <2>4. Len(s) + 1 - (i + 1) = (Len(s) + 1 - i) - 1 /\ (Len(s) + 1 - i = 1 <=> i = Len(r))
    BY <1>0, <1>1
  <2> QED BY <2>2, <2>3, <2>4
<1>5. IsPath(r, tail, prev)
  BY <1>1, <1>2, <1>3, <1>4 DEF IsPath
<1> QED BY <1>5 DEF r

\* list_push.
LEMMA PushOrder ==
  ASSUME ListTypeOK, NEW s, Order(s), NEW n \in Nodes, \A i \in 1 .. Len(s) : s[i] # n,
         ListPush(n)
  PROVE  Order(Append(s, n))'
<1> DEFINE t == Append(s, n)
<1>0. s \in Seq(Nodes) /\ Len(s) \in Nat /\ \A i \in 1 .. Len(s) : s[i] \in Nodes
  BY DEF Order, IsPath
<1>1. /\ t \in Seq(Nodes) /\ Len(t) = Len(s) + 1
      /\ \A i \in 1 .. Len(s) : t[i] = s[i]
      /\ t[Len(s) + 1] = n
  BY <1>0
<1> HIDE DEF t
<1>2. \A i, j \in 1 .. Len(t) : t[i] = t[j] => i = j
  <2>1. \A i, j \in 1 .. Len(s) : s[i] = s[j] => i = j
    BY DEF Order, IsPath
  <2>2. \A i \in 1 .. Len(t) : i \in 1 .. Len(s) \/ i = Len(s) + 1
    BY <1>0, <1>1
  <2> QED BY <1>1, <2>1, <2>2
<1>3. head' = IF Len(t) = 0 THEN NULL ELSE t[1]
  BY <1>0, <1>1 DEF Order, IsPath, ListPush, ListEmpty
<1>4. tail' = IF Len(t) = 0 THEN NULL ELSE t[Len(t)]
  BY <1>0, <1>1 DEF ListPush
<1>e. ListEmpty <=> Len(s) = 0
  BY <1>0 DEF Order, IsPath, ListEmpty
<1>5. ASSUME NEW i \in 1 .. Len(t) PROVE next'[t[i]] = IF i = Len(t) THEN NULL ELSE t[i + 1]
  <2>1. CASE i = Len(s) + 1
    <3>1. t[i] = n /\ (~ListEmpty => tail \in Nodes /\ tail # n)
      BY <1>0, <1>1, <1>e, <2>1 DEF Order
    <3>2. next'[n] = NULL
      BY <3>1 DEF ListTypeOK, ListPush
    <3> QED BY <1>1, <2>1, <3>1, <3>2
  <2>2. CASE i \in 1 .. Len(s)
    <3>1. t[i] = s[i] /\ s[i] # n /\ s[i] \in Nodes /\ ~ListEmpty
      BY <1>0, <1>1, <1>e, <2>2
    <3>2. tail = s[Len(s)] /\ tail \in Nodes /\ Len(s) \in 1 .. Len(s)
      BY <1>0, <2>2 DEF Order
    <3>3. next'[s[i]] = IF s[i] = tail THEN n ELSE next[s[i]]
      BY <3>1, <3>2 DEF ListTypeOK, ListPush
    <3>4. s[i] = tail <=> i = Len(s)
      BY <2>2, <3>2 DEF Order, IsPath
    <3>5. i # Len(s) => next[s[i]] = s[i + 1] /\ i + 1 \in 1 .. Len(s)
      BY <1>0, <2>2 DEF Order, IsPath
    <3> QED BY <1>0, <1>1, <2>2, <3>1, <3>3, <3>4, <3>5
  <2> QED BY <1>0, <1>1, <2>1, <2>2
<1>6. ASSUME NEW i \in 1 .. Len(t) PROVE prev'[t[i]] = IF i = 1 THEN NULL ELSE t[i - 1]
  <2>1. CASE i = Len(s) + 1
    <3>1. prev'[n] = IF ListEmpty THEN NULL ELSE tail
      BY DEF ListTypeOK, ListPush
    <3>2. Len(s) # 0 => tail = t[i - 1]
      BY <1>0, <1>1, <2>1 DEF Order
    <3> QED BY <1>0, <1>1, <1>e, <2>1, <3>1, <3>2
  <2>2. CASE i \in 1 .. Len(s)
    <3>1. t[i] = s[i] /\ s[i] # n /\ s[i] \in Nodes
      BY <1>0, <1>1, <2>2
    <3>2. prev'[s[i]] = prev[s[i]]
      BY <3>1 DEF ListTypeOK, ListPush
    <3>3. prev[s[i]] = IF i = 1 THEN NULL ELSE s[i - 1]
      BY <2>2 DEF Order
    <3>4. i # 1 => i - 1 \in 1 .. Len(s)
      BY <1>0, <2>2
    <3> QED BY <1>1, <3>1, <3>2, <3>3, <3>4
  <2> QED BY <1>0, <1>1, <2>1, <2>2
<1>7. Order(t)'
  BY <1>1, <1>2, <1>3, <1>4, <1>5, <1>6 DEF Order, IsPath
<1> QED BY <1>7 DEF t

\* list_remove.
LEMMA RemoveOrder ==
  ASSUME ListTypeOK, NEW s, Order(s), NEW j \in 1 .. Len(s), ListRemove(s[j])
  PROVE  Order(Without(s, j))'
<1> DEFINE t == Without(s, j)
           n == s[j]
<1>0. /\ s \in Seq(Nodes) /\ Len(s) \in Nat /\ j \in Nat
      /\ \A i \in 1 .. Len(s) : s[i] \in Nodes /\ s[i] # NULL
      /\ \A i, k \in 1 .. Len(s) : s[i] = s[k] => i = k
  BY DEF Order, IsPath
<1>1. /\ t \in Seq(Nodes) /\ Len(t) = Len(s) - 1
      /\ \A i \in 1 .. Len(t) : t[i] = s[IF i < j THEN i ELSE i + 1]
  BY <1>0, WithoutParts
<1>a. n \in Nodes /\ \A i \in 1 .. Len(s) : s[i] = n <=> i = j
  BY <1>0
<1>b. /\ next[n] = IF j = Len(s) THEN NULL ELSE s[j + 1]
      /\ prev[n] = IF j = 1 THEN NULL ELSE s[j - 1]
      /\ j # Len(s) => j + 1 \in 1 .. Len(s) /\ s[j + 1] # n
      /\ j # 1 => j - 1 \in 1 .. Len(s) /\ s[j - 1] # n
  <2>1. j # Len(s) => j + 1 \in 1 .. Len(s)
    BY <1>0
  <2>2. j # 1 => j - 1 \in 1 .. Len(s)
    BY <1>0
  <2> QED BY <1>0, <1>a, <2>1, <2>2 DEF Order, IsPath
<1>c. /\ next[n] = NULL <=> j = Len(s)
      /\ prev[n] = NULL <=> j = 1
  BY <1>0, <1>b
<1> HIDE DEF t
<1>2. \A i, k \in 1 .. Len(t) : t[i] = t[k] => i = k
  <2> SUFFICES ASSUME NEW i \in 1 .. Len(t), NEW k \in 1 .. Len(t), t[i] = t[k] PROVE i = k
    OBVIOUS
  <2>1. /\ (IF i < j THEN i ELSE i + 1) \in 1 .. Len(s)
        /\ (IF k < j THEN k ELSE k + 1) \in 1 .. Len(s)
    BY <1>0, <1>1
  <2>2. (IF i < j THEN i ELSE i + 1) = (IF k < j THEN k ELSE k + 1)
    BY <1>0, <1>1, <2>1
  <2> QED BY <1>0, <1>1, <2>2
<1>3. head' = IF Len(t) = 0 THEN NULL ELSE t[1]
  <2>1. head' = IF j = 1 THEN next[n] ELSE head
    BY <1>c DEF ListRemove
  <2>2. CASE j = 1
    <3>1. head' = IF Len(s) = 1 THEN NULL ELSE s[2]
      BY <1>b, <2>1, <2>2
    <3>2. Len(s) # 1 => 1 \in 1 .. Len(t) /\ t[1] = s[2]
      BY <1>0, <1>1, <2>2
    <3> QED BY <1>0, <1>1, <3>1, <3>2
  <2>3. CASE j # 1
    <3>1. 1 \in 1 .. Len(t) /\ t[1] = s[1]
      BY <1>0, <1>1, <2>3
    <3>2. head = s[1]
      BY <1>0, <2>3 DEF Order, IsPath
    <3> QED BY <1>1, <2>1, <2>3, <3>1, <3>2
  <2> QED BY <2>2, <2>3
<1>4. tail' = IF Len(t) = 0 THEN NULL ELSE t[Len(t)]
  <2>1. tail' = IF j = Len(s) THEN prev[n] ELSE tail
    BY <1>c DEF ListRemove
  <2>2. CASE j = Len(s)
    <3>1. Len(s) # 1 => Len(t) \in 1 .. Len(t) /\ t[Len(t)] = s[j - 1]
      BY <1>0, <1>1, <2>2
    <3> QED BY <1>0, <1>1, <1>b, <2>1, <2>2, <3>1
  <2>3. CASE j # Len(s)
    <3>1. Len(t) \in 1 .. Len(t) /\ t[Len(t)] = s[Len(s)]
      BY <1>0, <1>1, <2>3
    <3>2. tail = s[Len(s)]
      BY <1>0, <2>3 DEF Order
    <3> QED BY <1>1, <2>1, <2>3, <3>1, <3>2
  <2> QED BY <2>2, <2>3
<1>5. ASSUME NEW i \in 1 .. Len(t) PROVE next'[t[i]] = IF i = Len(t) THEN NULL ELSE t[i + 1]
  <2> DEFINE k == IF i < j THEN i ELSE i + 1
  <2>1. k \in 1 .. Len(s) /\ k # j /\ t[i] = s[k] /\ s[k] # n /\ s[k] \in Nodes
    BY <1>0, <1>1, <1>a
  <2>2. next'[s[k]] = IF j # 1 /\ s[k] = prev[n] THEN next[n] ELSE next[s[k]]
    <3>1. j # 1 => prev[n] \in Nodes /\ prev[n] # n
      BY <1>0, <1>b
    <3> HIDE DEF k, n
    <3> QED BY <1>a, <1>c, <2>1, <3>1 DEF ListRemove, ListTypeOK, n
  <2>3. j # 1 => (s[k] = prev[n] <=> k = j - 1)
    <3> HIDE DEF k
    <3> QED BY <1>0, <1>b, <2>1
  <2>4. next[s[k]] = IF k = Len(s) THEN NULL ELSE s[k + 1]
    <3> HIDE DEF k
    <3> QED BY <2>1 DEF Order, IsPath
  <2>5. CASE j # 1 /\ k = j - 1
    <3>1. i = j - 1
      BY <1>0, <2>5
    <3>2. j # Len(s) => i + 1 \in 1 .. Len(t) /\ t[i + 1] = s[j + 1]
      BY <1>0, <1>1, <3>1
    <3>3. i = Len(t) <=> j = Len(s)
      BY <1>0, <1>1, <3>1
    <3> HIDE DEF k
    <3> QED BY <1>b, <2>1, <2>2, <2>3, <2>5, <3>2, <3>3
  <2>6. CASE j = 1 \/ k # j - 1
    <3>1. i # Len(t) => i + 1 \in 1 .. Len(t) /\ t[i + 1] = s[k + 1]
      BY <1>0, <1>1, <2>6
    <3>2. i = Len(t) <=> k = Len(s)
      BY <1>0, <1>1, <2>6
    <3> HIDE DEF k
    <3> QED BY <2>1, <2>2, <2>3, <2>4, <2>6, <3>1, <3>2
  <2> QED BY <2>5, <2>6
<1>6. ASSUME NEW i \in 1 .. Len(t) PROVE prev'[t[i]] = IF i = 1 THEN NULL ELSE t[i - 1]
  <2> DEFINE k == IF i < j THEN i ELSE i + 1
  <2>1. k \in 1 .. Len(s) /\ k # j /\ t[i] = s[k] /\ s[k] # n /\ s[k] \in Nodes
    BY <1>0, <1>1, <1>a
  <2>2. prev'[s[k]] = IF j # Len(s) /\ s[k] = next[n] THEN prev[n] ELSE prev[s[k]]
    <3>1. j # Len(s) => next[n] \in Nodes /\ next[n] # n
      BY <1>0, <1>b
    <3> HIDE DEF k, n
    <3> QED BY <1>a, <1>c, <2>1, <3>1 DEF ListRemove, ListTypeOK, n
  <2>3. j # Len(s) => (s[k] = next[n] <=> k = j + 1)
    <3> HIDE DEF k
    <3> QED BY <1>0, <1>b, <2>1
  <2>4. prev[s[k]] = IF k = 1 THEN NULL ELSE s[k - 1]
    <3> HIDE DEF k
    <3> QED BY <2>1 DEF Order
  <2>5. CASE j # Len(s) /\ k = j + 1
    <3>1. i = j
      BY <1>0, <2>5
    <3>2. j # 1 => i - 1 \in 1 .. Len(t) /\ t[i - 1] = s[j - 1]
      BY <1>0, <1>1, <3>1
    <3> HIDE DEF k
    <3> QED BY <1>b, <2>1, <2>2, <2>3, <2>5, <3>1, <3>2
  <2>6. CASE j = Len(s) \/ k # j + 1
    <3>1. i # 1 => i - 1 \in 1 .. Len(t) /\ t[i - 1] = s[k - 1]
      BY <1>0, <1>1, <2>6
    <3>2. i = 1 <=> k = 1
      BY <1>0, <1>1, <2>6
    <3> HIDE DEF k
    <3> QED BY <2>1, <2>2, <2>3, <2>4, <2>6, <3>1, <3>2
  <2> QED BY <2>5, <2>6
<1>7. Order(t)'
  BY <1>1, <1>2, <1>3, <1>4, <1>5, <1>6 DEF Order, IsPath
<1> QED BY <1>7 DEF t

\* list_pop takes the last node out.
LEMMA PopRemoves ==
  ASSUME ListTypeOK, NEW s, Order(s), ListPop
  PROVE  Len(s) \in 1 .. Len(s) /\ tail = s[Len(s)] /\ ListRemove(s[Len(s)])
<1>0. s \in Seq(Nodes) /\ Len(s) \in Nat /\ \A i \in 1 .. Len(s) : s[i] \in Nodes /\ s[i] # NULL
  BY DEF Order, IsPath
<1>1. Len(s) \in 1 .. Len(s) /\ tail = s[Len(s)]
  BY <1>0 DEF Order, IsPath, ListPop, ListEmpty
<1>2. next[tail] = NULL
  <2>1. next[s[Len(s)]] = IF Len(s) = Len(s) THEN NULL ELSE s[Len(s) + 1]
    BY <1>1 DEF Order, IsPath
  <2> QED BY <1>1, <2>1
<1>l. Len(s) # 1 => Len(s) - 1 \in 1 .. Len(s) /\ Len(s) - 1 # Len(s)
  <2> DEFINE m == Len(s)
  <2>1. m \in Nat /\ m >= 1
    BY <1>0, <1>1
  <2> HIDE DEF m
  <2>2. m # 1 => m - 1 \in 1 .. m /\ m - 1 # m
    BY <2>1
  <2> QED BY <2>2 DEF m
<1>p. prev[tail] = IF Len(s) = 1 THEN NULL ELSE s[Len(s) - 1]
  <2>1. prev[s[Len(s)]] = IF Len(s) = 1 THEN NULL ELSE s[Len(s) - 1]
    BY <1>1 DEF Order
  <2> QED BY <1>1, <2>1
<1>3. prev[tail] = NULL => head = tail
  BY <1>0, <1>1, <1>l, <1>p DEF Order, IsPath
<1>4. prev[tail] # NULL => prev[tail] # tail
  BY <1>1, <1>l, <1>p DEF Order, IsPath
<1>5. ListRemove(tail)
  <2>1. /\ head' = IF prev[tail] = NULL THEN next[tail] ELSE head
        /\ tail' = IF next[tail] = NULL THEN prev[tail] ELSE tail
        /\ prev' = [prev EXCEPT ![tail] = NULL]
    BY <1>2, <1>3 DEF ListPop
  <2>2. next' = IF prev[tail] = NULL THEN [next EXCEPT ![tail] = NULL]
                ELSE [next EXCEPT ![prev[tail]] = next[tail], ![tail] = NULL]
    <3>1. CASE prev[tail] = NULL
      BY <3>1 DEF ListPop
    <3>2. CASE prev[tail] # NULL
      <4>1. prev[tail] \in Nodes /\ tail \in Nodes
        BY <1>0, <1>1, <3>2 DEF ListTypeOK
      <4>2. next' = [next EXCEPT ![tail] = NULL, ![prev[tail]] = NULL]
        BY <3>2 DEF ListPop
      <4> QED BY <1>2, <1>4, <3>2, <4>1, <4>2 DEF ListTypeOK
    <3> QED BY <3>1, <3>2
  <2> QED BY <1>2, <2>1, <2>2 DEF ListRemove
<1> QED BY <1>1, <1>5

-----------------------------------------------------------------------------
(* The inductive invariant *)

\* The list is s: its nodes are the structures in use, and no name comes twice.
Shape(s) ==
  /\ Order(s)
  /\ \A n \in Nodes : n \in Live <=> \E i \in 1 .. Len(s) : s[i] = n
  /\ \A i, j \in 1 .. Len(s) : lo[s[i]].name = lo[s[j]].name => i = j

\* A lookup during which nothing was removed is at a node in use or at the end,
\* and not behind a name that it must find.
LookupOK(s, t) ==
  walk[t] # NULL /\ ~walk[t].disturbed =>
    /\ walk[t].it # NULL => walk[t].it \in Live
    /\ walk[t].present =>
         \E i, j \in 1 .. Len(s) :
           i <= j /\ walk[t].it = s[i] /\ lo[s[j]].name = walk[t].key

\* Nothing is removed during a lookup of the owner, and it is not behind its name
\* at all: when it has come to the end the name is not in the list.
OwnerOK(s) ==
  walk[Owner] # NULL =>
    /\ ~walk[Owner].disturbed
    /\ \A j \in 1 .. Len(s) : lo[s[j]].name = walk[Owner].key =>
         \E i \in 1 .. j : walk[Owner].it = s[i]

ListOK(s) == Shape(s) /\ OwnerOK(s) /\ \A t \in Threads : LookupOK(s, t)

\* The invariant that every action preserves.
NameInv == TypeOK /\ WalkIsSafe /\ \E s \in Seq(Nodes) : ListOK(s)

-----------------------------------------------------------------------------
(* The types *)

\* What a lookup is made of.
LEMMA WalkParts ==
  ASSUME TypeOK, NEW t \in Threads, walk[t] # NULL
  PROVE  /\ walk[t] \in Walk
         /\ walk[t].key \in Names /\ walk[t].cb \in Callbacks \cup {NULL}
         /\ walk[t].it \in Nodes \cup {NULL}
BY DEF TypeOK, Walk

\* A structure in use has a name.
LEMMA StructureParts ==
  ASSUME TypeOK, NEW n \in Live
  PROVE  /\ n \in Nodes /\ lo[n] \in [name : Names, cb : Callbacks \cup {NULL}]
         /\ lo[n].name \in Names
BY DEF TypeOK, Live

LEMMA TypeInit == Init => TypeOK
BY DEF Init, TypeOK, ListInit, ListTypeOK

\* The operations of list.c keep the types of the links.
LEMMA LinksType ==
  ASSUME ListTypeOK, NEW n \in Nodes, ListPush(n) \/ ListRemove(n)
  PROVE  ListTypeOK'
<1>1. CASE ListPush(n)
  BY <1>1 DEF ListPush, ListTypeOK
<1>2. CASE ListRemove(n)
  BY <1>2 DEF ListRemove, ListTypeOK
<1> QED BY <1>1, <1>2

LEMMA FreeType ==
  ASSUME TypeOK, NEW n \in Nodes, Free(n)
  PROVE  /\ lo' \in [Nodes -> [name : Names, cb : Callbacks \cup {NULL}] \cup {NULL}]
         /\ walk' \in [Threads -> Walk \cup {NULL}]
<1>1. lo' \in [Nodes -> [name : Names, cb : Callbacks \cup {NULL}] \cup {NULL}]
  BY DEF TypeOK, Free
<1>2. ASSUME NEW t \in Threads, walk[t] # NULL
      PROVE  [walk[t] EXCEPT !.disturbed = TRUE,
                             !.present = @ /\ walk[t].key # lo[n].name] \in Walk
  <2>1. walk[t] \in Walk
    BY <1>2, WalkParts
  <2>2. (walk[t].present /\ walk[t].key # lo[n].name) \in BOOLEAN
    OBVIOUS
  <2> QED BY <2>1, <2>2 DEF Walk
<1>3. walk' \in [Threads -> Walk \cup {NULL}]
  BY <1>2 DEF Free
<1> QED BY <1>1, <1>3

LEMMA TypeNext ==
  ASSUME TypeOK, \E s \in Seq(Nodes) : Order(s), [Next]_vars
  PROVE  TypeOK'
<1>1. ASSUME NEW t \in Threads, NEW op \in {"open", "xfer", "setcb"}, NEW k \in Names,
             NEW c \in Callbacks \cup {NULL}, BeginLookup(t, op, k, c)
      PROVE  TypeOK'
  <2>1. Listed(k) \in BOOLEAN /\ FALSE \in BOOLEAN
    BY DEF Listed
  <2>2. [op |-> op, key |-> k, cb |-> c, it |-> head, present |-> Listed(k),
         disturbed |-> FALSE] \in Walk
    BY <2>1 DEF Walk, TypeOK, ListTypeOK
  <2>3. walk' \in [Threads -> Walk \cup {NULL}] /\ status' \in {"running", "crashed", "undefined"}
    BY <1>1, <2>2 DEF BeginLookup, TypeOK
  <2> QED BY <1>1, <2>3 DEF BeginLookup, TypeOK, ListTypeOK, listVars
<1>2. ASSUME NEW t \in Threads, Advance(t) PROVE TypeOK'
  <2>1. walk[t] \in Walk /\ walk[t].it \in Nodes
    BY <1>2, WalkParts DEF Advance, AtNode, Live
  <2>2. [walk[t] EXCEPT !.it = next[walk[t].it]] \in Walk
    BY <2>1 DEF Walk, TypeOK, ListTypeOK
  <2>3. walk' = [walk EXCEPT ![t] = [walk[t] EXCEPT !.it = next[walk[t].it]]]
    BY <1>2 DEF Advance
  <2>4. walk' \in [Threads -> Walk \cup {NULL}]
    BY <2>2, <2>3 DEF TypeOK
  <2> QED BY <1>2, <2>4 DEF Advance, TypeOK, ListTypeOK, listVars
<1>3. ASSUME NEW t \in Threads, ReadFreed(t) PROVE TypeOK'
  BY <1>3 DEF ReadFreed, TypeOK, ListTypeOK, listVars
<1>4. ASSUME NEW t \in Threads, Found(t) PROVE TypeOK'
  <2>1. walk[t].it \in Live /\ walk[t].cb \in Callbacks \cup {NULL}
    BY <1>4, WalkParts DEF Found, AtNode, Matches
  <2>2. [lo[walk[t].it] EXCEPT !.cb = walk[t].cb] \in [name : Names, cb : Callbacks \cup {NULL}]
    BY <2>1, StructureParts
  <2>3. lo' = lo \/ lo' = [lo EXCEPT ![walk[t].it] = [lo[walk[t].it] EXCEPT !.cb = walk[t].cb]]
    BY <1>4 DEF Found
  <2>4. lo' \in [Nodes -> [name : Names, cb : Callbacks \cup {NULL}] \cup {NULL}]
    BY <2>2, <2>3 DEF TypeOK
  <2>5. walk' \in [Threads -> Walk \cup {NULL}]
    BY <1>4 DEF Found, TypeOK
  <2> QED BY <1>4, <2>4, <2>5 DEF Found, TypeOK, ListTypeOK, listVars
<1>5. ASSUME NEW t \in Threads, NotFound(t) PROVE TypeOK'
  <2>1. walk' \in [Threads -> Walk \cup {NULL}]
    BY <1>5 DEF NotFound, TypeOK
  <2> QED BY <1>5, <2>1 DEF NotFound, TypeOK, ListTypeOK, listVars
<1>6. ASSUME NEW n \in Nodes, Add(n) PROVE TypeOK'
  <2>1. ListTypeOK'
    BY <1>6, LinksType DEF Add, TypeOK
  <2>2. walk[Owner].key \in Names /\ Owner \in Threads
    BY <1>6, WalkParts DEF Add, Missed, Threads
  <2>3. lo' \in [Nodes -> [name : Names, cb : Callbacks \cup {NULL}] \cup {NULL}]
    BY <1>6, <2>2 DEF Add, TypeOK
  <2>4. walk' \in [Threads -> Walk \cup {NULL}]
    BY <1>6 DEF Add, TypeOK
  <2> QED BY <1>6, <2>1, <2>3, <2>4 DEF Add, TypeOK
<1>7. ASSUME NEW n \in Nodes, Close(n) PROVE TypeOK'
  <2>1. ListTypeOK'
    BY <1>7, LinksType DEF Close, TypeOK
  <2> QED BY <1>7, <2>1, FreeType DEF Close, Free, TypeOK
<1>8. ASSUME PopArg PROVE TypeOK'
  <2>1. PICK s \in Seq(Nodes) : Order(s)
    OBVIOUS
  <2>2. /\ Len(s) \in 1 .. Len(s) /\ tail = s[Len(s)] /\ ListRemove(s[Len(s)])
        /\ s[Len(s)] \in Nodes
    BY <1>8, <2>1, PopRemoves DEF PopArg, TypeOK
  <2>3. ListTypeOK'
    BY <2>2, LinksType DEF TypeOK
  <2> QED BY <1>8, <2>2, <2>3, FreeType DEF PopArg, Free, TypeOK
<1>9. CASE UNCHANGED vars
  BY <1>9 DEF vars, listVars, TypeOK, ListTypeOK
<1>10. \A t \in Threads, k \in Names :
         /\ \A op \in {"open", "xfer"} : BeginLookup(t, op, k, NULL) => TypeOK'
         /\ \A c \in Callbacks : BeginLookup(t, "setcb", k, c) => TypeOK'
  BY <1>1
<1> QED BY <1>2, <1>3, <1>4, <1>5, <1>6, <1>7, <1>8, <1>9, <1>10 DEF Next

-----------------------------------------------------------------------------
(* Steps that leave the list as it is *)

\* The structures in use and their names do not change.
SameNames == Live' = Live /\ \A n \in Live : lo'[n].name = lo[n].name

LEMMA ShapeParts ==
  ASSUME NEW s, Shape(s)
  PROVE  /\ s \in Seq(Nodes) /\ Len(s) \in Nat
         /\ \A i \in 1 .. Len(s) : s[i] \in Nodes /\ s[i] \in Live /\ s[i] # NULL
         /\ \A i, j \in 1 .. Len(s) : s[i] = s[j] => i = j
         /\ head = IF Len(s) = 0 THEN NULL ELSE s[1]
         /\ \A i \in 1 .. Len(s) : next[s[i]] = IF i = Len(s) THEN NULL ELSE s[i + 1]
         /\ \A n \in Live : \E i \in 1 .. Len(s) : s[i] = n
<1>1. s \in Seq(Nodes) /\ Len(s) \in Nat /\ \A i \in 1 .. Len(s) : s[i] \in Nodes /\ s[i] # NULL
  BY DEF Shape, Order, IsPath
<1>2. \A n \in Live : n \in Nodes
  BY DEF Live
<1> QED BY <1>1, <1>2 DEF Shape, Order, IsPath

LEMMA ShapeKept ==
  ASSUME NEW s, Shape(s), UNCHANGED listVars, SameNames
  PROVE  Shape(s)'
<1>1. \A i \in 1 .. Len(s) : s[i] \in Live
  BY ShapeParts
<1>2. Order(s)'
  BY DEF Shape, Order, IsPath, listVars
<1>3. \A n \in Nodes : n \in Live' <=> \E i \in 1 .. Len(s) : s[i] = n
  BY DEF Shape, SameNames
<1>4. \A i, j \in 1 .. Len(s) : lo'[s[i]].name = lo'[s[j]].name => i = j
  BY <1>1 DEF Shape, SameNames
<1> QED BY <1>2, <1>3, <1>4 DEF Shape

LEMMA LookupKept ==
  ASSUME NEW s, Shape(s), NEW t, LookupOK(s, t), walk'[t] = walk[t], SameNames
  PROVE  LookupOK(s, t)'
<1>1. \A i \in 1 .. Len(s) : s[i] \in Live
  BY ShapeParts
<1> QED BY <1>1 DEF LookupOK, SameNames

LEMMA OwnerKept ==
  ASSUME NEW s, Shape(s), OwnerOK(s), walk'[Owner] = walk[Owner], SameNames
  PROVE  OwnerOK(s)'
<1>1. \A i \in 1 .. Len(s) : s[i] \in Live
  BY ShapeParts
<1> QED BY <1>1 DEF OwnerOK, SameNames

\* A lookup that has ended promises nothing.
LEMMA EndedLookup ==
  ASSUME NEW s, NEW t \in Threads, walk'[t] = NULL
  PROVE  LookupOK(s, t)' /\ (t = Owner => OwnerOK(s)')
BY DEF LookupOK, OwnerOK

\* All that a step of one thread t on its own lookup must show.
LEMMA OneLookup ==
  ASSUME TypeOK, NEW s, ListOK(s), UNCHANGED listVars, SameNames, NEW t \in Threads,
         \A u \in Threads \ {t} : walk'[u] = walk[u],
         LookupOK(s, t)', t = Owner => OwnerOK(s)'
  PROVE  ListOK(s)'
<1>1. Shape(s)'
  BY ShapeKept DEF ListOK
<1>2. \A u \in Threads : LookupOK(s, u)'
  BY LookupKept DEF ListOK
<1>3. OwnerOK(s)'
  <2>1. CASE t = Owner
    BY <2>1
  <2>2. CASE t # Owner
    <3>1. walk'[Owner] = walk[Owner]
      BY <2>2 DEF Threads
    <3> QED BY <3>1, OwnerKept DEF ListOK
  <2> QED BY <2>1, <2>2
<1> QED BY <1>1, <1>2, <1>3 DEF ListOK

LEMMA BeginOK ==
  ASSUME TypeOK, NEW s, ListOK(s), NEW t \in Threads, NEW op, NEW k, NEW c,
         BeginLookup(t, op, k, c)
  PROVE  ListOK(s)'
<1>0. Shape(s)
  BY DEF ListOK
<1>1. UNCHANGED listVars /\ SameNames
  BY DEF BeginLookup, SameNames, Live
<1>2. CASE UNCHANGED walk
  BY <1>0, <1>1, <1>2, ShapeKept, LookupKept, OwnerKept DEF ListOK
<1>3. CASE walk' = [walk EXCEPT ![t] = [op |-> op, key |-> k, cb |-> c, it |-> head,
                                        present |-> Listed(k), disturbed |-> FALSE]]
  <2>1. /\ walk'[t].it = head /\ walk'[t].key = k
        /\ walk'[t].present = Listed(k) /\ walk'[t].disturbed = FALSE
    BY <1>3 DEF TypeOK
  <2>2. /\ head # NULL => head \in Live
        /\ \A j \in 1 .. Len(s) : 1 \in 1 .. Len(s) /\ 1 <= j /\ head = s[1]
    BY <1>0, ShapeParts
  <2>3. Listed(k) => \E i, j \in 1 .. Len(s) : i <= j /\ head = s[i] /\ lo[s[j]].name = k
    <3>1. Listed(k) => \E j \in 1 .. Len(s) : lo[s[j]].name = k
      BY <1>0, ShapeParts DEF Listed
    <3> QED BY <2>2, <3>1
  <2>4. lo' = lo /\ Live' = Live
    BY <1>1 DEF BeginLookup, SameNames
  <2>5. LookupOK(s, t)'
    BY <2>1, <2>2, <2>3, <2>4 DEF LookupOK
  <2>6. t = Owner => OwnerOK(s)'
    <3>1. ASSUME NEW j \in 1 .. Len(s) PROVE \E i \in 1 .. j : head = s[i]
      <4>1. 1 \in 1 .. j
        BY <2>2
      <4> QED BY <2>2, <4>1
    <3> QED BY <2>1, <3>1 DEF OwnerOK
  <2>7. \A u \in Threads \ {t} : walk'[u] = walk[u]
    BY <1>3 DEF TypeOK
  <2> QED BY <1>1, <2>5, <2>6, <2>7, OneLookup
<1> QED BY <1>2, <1>3 DEF BeginLookup

LEMMA AdvanceOK ==
  ASSUME TypeOK, NEW s, ListOK(s), NEW t \in Threads, Advance(t)
  PROVE  ListOK(s)'
<1>0. Shape(s) /\ LookupOK(s, t) /\ (t = Owner => OwnerOK(s))
  BY DEF ListOK
<1>1. UNCHANGED listVars /\ SameNames /\ lo' = lo /\ Live' = Live
  BY DEF Advance, SameNames, Live
<1>2. PICK i \in 1 .. Len(s) : walk[t].it = s[i]
  BY <1>0, ShapeParts DEF Advance
<1>3. walk[t] # NULL /\ lo[s[i]].name # walk[t].key
  BY <1>2 DEF Advance, AtNode, Matches
<1>d. \A a \in 1 .. Len(s) : s[a] = s[i] => a = i
  BY <1>0, ShapeParts
<1>4. /\ walk'[t].it = next[s[i]] /\ walk'[t].key = walk[t].key
      /\ walk'[t].present = walk[t].present /\ walk'[t].disturbed = walk[t].disturbed
  <2>1. walk[t] \in Walk
    BY <1>3, WalkParts
  <2> QED BY <1>2, <2>1 DEF Advance, Walk, TypeOK
<1>5. next[s[i]] = IF i = Len(s) THEN NULL ELSE s[i + 1]
  BY <1>0, ShapeParts
<1>6. \A j \in 1 .. Len(s) : i < j =>
        i + 1 \in 1 .. Len(s) /\ i + 1 <= j /\ i + 1 \in 1 .. j /\ next[s[i]] = s[i + 1]
  BY <1>0, <1>5, ShapeParts
<1>7. next[s[i]] # NULL => next[s[i]] \in Live
  <2>1. i # Len(s) => i + 1 \in 1 .. Len(s)
    BY <1>0, ShapeParts
  <2> QED BY <1>0, <1>5, <2>1, ShapeParts
<1>8. LookupOK(s, t)'
  <2> SUFFICES ASSUME ~walk[t].disturbed, walk[t].present
               PROVE  \E a, b \in 1 .. Len(s) :
                        a <= b /\ next[s[i]] = s[a] /\ lo[s[b]].name = walk[t].key
    BY <1>1, <1>4, <1>7 DEF LookupOK
  <2>1. PICK a \in 1 .. Len(s), b \in 1 .. Len(s) :
          a <= b /\ walk[t].it = s[a] /\ lo[s[b]].name = walk[t].key
    BY <1>0, <1>3 DEF LookupOK
  <2>2. a = i /\ b # i
    <3>1. a = i
      BY <1>2, <1>d, <2>1
    <3>2. b # i
      BY <1>3, <2>1
    <3> QED BY <3>1, <3>2
  <2>3. i < b
    BY <2>1, <2>2
  <2> QED BY <1>6, <2>1, <2>3
<1>9. t = Owner => OwnerOK(s)'
  <2> SUFFICES ASSUME t = Owner, NEW j \in 1 .. Len(s), lo[s[j]].name = walk[t].key
               PROVE  ~walk[t].disturbed /\ \E a \in 1 .. j : next[s[i]] = s[a]
    BY <1>0, <1>1, <1>3, <1>4 DEF OwnerOK
  <2>1. ~walk[t].disturbed
    BY <1>0, <1>3 DEF OwnerOK
  <2>2. PICK a \in 1 .. j : walk[t].it = s[a]
    BY <1>0, <1>3 DEF OwnerOK
  <2>3. a \in 1 .. Len(s)
    BY <1>0, <2>2, ShapeParts
  <2>4. a = i /\ j # i
    <3>1. a = i
      BY <1>2, <1>d, <2>2, <2>3
    <3>2. j # i
      BY <1>3
    <3> QED BY <3>1, <3>2
  <2>5. i < j
    BY <2>2, <2>4
  <2> QED BY <1>6, <2>1, <2>5
<1>10. \A u \in Threads \ {t} : walk'[u] = walk[u]
  BY DEF Advance, TypeOK
<1> QED BY <1>1, <1>8, <1>9, <1>10, OneLookup

\* A lookup ends, and at most the callback of a node in use is set.
LEMMA EndOK ==
  ASSUME TypeOK, NEW s, ListOK(s), NEW t \in Threads, Found(t) \/ NotFound(t)
  PROVE  ListOK(s)'
<1>1. UNCHANGED listVars /\ walk' = [walk EXCEPT ![t] = NULL]
  BY DEF Found, NotFound
<1>2. SameNames
  <2>1. CASE lo' = lo
    BY <2>1 DEF SameNames, Live
  <2>2. CASE lo' # lo
    <3>1. walk[t].it \in Live /\ lo' = [lo EXCEPT ![walk[t].it].cb = walk[t].cb]
      BY <2>2 DEF Found, NotFound, Matches
    <3>2. /\ lo[walk[t].it] \in [name : Names, cb : Callbacks \cup {NULL}]
          /\ walk[t].it \in Nodes
      BY <3>1, StructureParts
    <3>3. walk[t].cb \in Callbacks \cup {NULL}
      BY <2>2, WalkParts DEF Found, NotFound, AtNode
    <3>4. /\ lo'[walk[t].it] \in [name : Names, cb : Callbacks \cup {NULL}]
          /\ lo'[walk[t].it].name = lo[walk[t].it].name
          /\ \A n \in Nodes : n # walk[t].it => lo'[n] = lo[n]
      BY <3>1, <3>2, <3>3 DEF TypeOK
    <3>5. lo'[walk[t].it] # NULL
      BY <3>4, NoStructureAssumption
    <3> QED BY <3>1, <3>2, <3>4, <3>5 DEF SameNames, Live
  <2> QED BY <2>1, <2>2
<1>3. walk'[t] = NULL /\ \A u \in Threads \ {t} : walk'[u] = walk[u]
  BY <1>1 DEF TypeOK
<1> QED BY <1>1, <1>2, <1>3, EndedLookup, OneLookup

-----------------------------------------------------------------------------
(* Steps that change the list *)

\* When the lookup of loop_open has come to the end the name is not in the list.
LEMMA NameIsNew ==
  ASSUME NEW s, ListOK(s), Missed(Owner)
  PROVE  \A j \in 1 .. Len(s) : lo[s[j]].name # walk[Owner].key
<1> SUFFICES ASSUME NEW j \in 1 .. Len(s), lo[s[j]].name = walk[Owner].key PROVE FALSE
  OBVIOUS
<1>1. PICK i \in 1 .. j : walk[Owner].it = s[i]
  BY DEF ListOK, OwnerOK, Missed
<1>2. i \in 1 .. Len(s)
  BY <1>1, ShapeParts DEF ListOK
<1> QED BY <1>1, <1>2, ShapeParts DEF ListOK, Missed

LEMMA AddOK ==
  ASSUME TypeOK, NEW s, ListOK(s), NEW n \in Nodes, Add(n)
  PROVE  ListOK(Append(s, n))'
<1> DEFINE t == Append(s, n)
<1>0. Shape(s) /\ s \in Seq(Nodes) /\ Len(s) \in Nat /\ \A i \in 1 .. Len(s) : s[i] \in Live
  BY ShapeParts DEF ListOK
<1>1. /\ Len(t) = Len(s) + 1 /\ t[Len(s) + 1] = n
      /\ \A i \in 1 .. Len(s) : t[i] = s[i] /\ i \in 1 .. Len(t)
      /\ \A i \in 1 .. Len(t) : i \in 1 .. Len(s) \/ i = Len(s) + 1
      /\ Len(s) + 1 \in 1 .. Len(t)
  BY <1>0
<1>2. Order(t)'
  BY <1>0, PushOrder DEF Shape, Add, TypeOK
<1> HIDE DEF t
<1>3. /\ Live' = Live \cup {n}
      /\ lo'[n].name = walk[Owner].key
      /\ \A m \in Live : lo'[m] = lo[m]
  <2>1. walk[Owner].key \in Names
    BY WalkParts DEF Add, Missed, Threads
  <2>2. [name |-> walk[Owner].key, cb |-> NULL] # NULL
    BY <2>1, NoStructureAssumption
  <2> QED BY <2>2 DEF Add, TypeOK, Live
<1>4. \A m \in Nodes : m \in Live' <=> \E i \in 1 .. Len(t) : t[i] = m
  <2>1. \A m \in Nodes : m \in Live <=> \E i \in 1 .. Len(s) : s[i] = m
    BY <1>0 DEF Shape
  <2> QED BY <1>1, <1>3, <2>1
<1>5. \A i, j \in 1 .. Len(t) : lo'[t[i]].name = lo'[t[j]].name => i = j
  <2>1. \A i \in 1 .. Len(s) : lo'[t[i]].name = lo[s[i]].name
    BY <1>0, <1>1, <1>3
  <2>2. lo'[t[Len(s) + 1]].name = walk[Owner].key
    BY <1>1, <1>3
  <2>3. \A j \in 1 .. Len(s) : lo[s[j]].name # walk[Owner].key
    BY NameIsNew DEF Add
  <2>4. \A i, j \in 1 .. Len(s) : lo[s[i]].name = lo[s[j]].name => i = j
    BY <1>0 DEF Shape
  <2> QED BY <1>1, <2>1, <2>2, <2>3, <2>4
<1>6. Shape(t)'
  BY <1>2, <1>4, <1>5 DEF Shape
<1>7. walk'[Owner] = NULL /\ \A u \in Threads \ {Owner} : walk'[u] = walk[u]
  BY DEF Add, TypeOK, Threads
<1>8. ASSUME NEW u \in Threads PROVE LookupOK(t, u)'
  <2>1. CASE u = Owner
    BY <1>7, <2>1 DEF LookupOK
  <2>2. CASE u # Owner
    <3> SUFFICES ASSUME walk[u] # NULL, ~walk[u].disturbed
                 PROVE  /\ walk[u].it # NULL => walk[u].it \in Live'
                        /\ walk[u].present =>
                             \E i, j \in 1 .. Len(t) :
                               i <= j /\ walk[u].it = t[i] /\ lo'[t[j]].name = walk[u].key
      BY <1>7, <2>2 DEF LookupOK
    <3>1. LookupOK(s, u)
      BY DEF ListOK
    <3>2. walk[u].it # NULL => walk[u].it \in Live'
      BY <1>3, <3>1 DEF LookupOK
    <3>3. ASSUME walk[u].present
          PROVE  \E i, j \in 1 .. Len(t) :
                   i <= j /\ walk[u].it = t[i] /\ lo'[t[j]].name = walk[u].key
      <4>1. PICK i \in 1 .. Len(s), j \in 1 .. Len(s) :
              i <= j /\ walk[u].it = s[i] /\ lo[s[j]].name = walk[u].key
        BY <3>1, <3>3 DEF LookupOK
      <4> QED BY <1>0, <1>1, <1>3, <4>1
    <3> QED BY <3>2, <3>3
  <2> QED BY <2>1, <2>2
<1>9. OwnerOK(t)'
  BY <1>7 DEF OwnerOK
<1>10. ListOK(t)'
  BY <1>6, <1>8, <1>9 DEF ListOK
<1> QED BY <1>10 DEF t

\* A node is taken out of the list and freed.
LEMMA RemoveOK ==
  ASSUME TypeOK, NEW s, ListOK(s), NEW j \in 1 .. Len(s), walk[Owner] = NULL,
         ListRemove(s[j]), Free(s[j])
  PROVE  ListOK(Without(s, j))'
<1> DEFINE t == Without(s, j)
<1>0. /\ Shape(s) /\ s \in Seq(Nodes) /\ Len(s) \in Nat /\ j \in Nat
      /\ \A i \in 1 .. Len(s) : s[i] \in Live /\ s[i] \in Nodes
      /\ \A i, k \in 1 .. Len(s) : s[i] = s[k] => i = k
  BY ShapeParts DEF ListOK
<1>1. /\ Len(t) = Len(s) - 1
      /\ \A i \in 1 .. Len(t) : t[i] = s[IF i < j THEN i ELSE i + 1]
  BY <1>0, WithoutParts
<1>2. Order(t)'
  BY <1>0, RemoveOrder DEF Shape, TypeOK
<1> HIDE DEF t
<1>3. Live' = Live \ {s[j]} /\ \A m \in Live' : lo'[m] = lo[m]
  BY <1>0 DEF Free, TypeOK, Live
<1>4. \A i \in 1 .. Len(t) :
        /\ (IF i < j THEN i ELSE i + 1) \in 1 .. Len(s)
        /\ (IF i < j THEN i ELSE i + 1) # j
        /\ t[i] \in Live'
  <2>1. \A i \in 1 .. Len(t) : /\ (IF i < j THEN i ELSE i + 1) \in 1 .. Len(s)
                               /\ (IF i < j THEN i ELSE i + 1) # j
    BY <1>0, <1>1
  <2> QED BY <1>0, <1>1, <1>3, <2>1
<1>5. \A k \in 1 .. Len(s) : k # j => \E i \in 1 .. Len(t) : t[i] = s[k]
  <2> SUFFICES ASSUME NEW k \in 1 .. Len(s), k # j PROVE \E i \in 1 .. Len(t) : t[i] = s[k]
    OBVIOUS
  <2>1. CASE k < j
    <3>1. k \in 1 .. Len(t)
      BY <1>0, <1>1, <2>1
    <3> QED BY <1>1, <2>1, <3>1
  <2>2. CASE k > j
    <3>1. k - 1 \in 1 .. Len(t) /\ ~(k - 1 < j) /\ (k - 1) + 1 = k
      BY <1>0, <1>1, <2>2
    <3>2. t[k - 1] = s[k]
      BY <1>1, <3>1
    <3> QED BY <3>1, <3>2
  <2> QED BY <1>0, <2>1, <2>2
<1>6. \A m \in Nodes : m \in Live' <=> \E i \in 1 .. Len(t) : t[i] = m
  <2>1. \A m \in Live' : \E i \in 1 .. Len(t) : t[i] = m
    <3> SUFFICES ASSUME NEW m \in Live' PROVE \E i \in 1 .. Len(t) : t[i] = m
      OBVIOUS
    <3>1. PICK k \in 1 .. Len(s) : s[k] = m
      BY <1>0, <1>3, ShapeParts
    <3>2. k # j
      BY <1>3, <3>1
    <3> QED BY <1>5, <3>1, <3>2
  <2> QED BY <1>4, <2>1
<1>7. \A i, k \in 1 .. Len(t) : lo'[t[i]].name = lo'[t[k]].name => i = k
  <2> SUFFICES ASSUME NEW i \in 1 .. Len(t), NEW k \in 1 .. Len(t),
                      lo'[t[i]].name = lo'[t[k]].name
               PROVE  i = k
    OBVIOUS
  <2> DEFINE a == IF i < j THEN i ELSE i + 1
             b == IF k < j THEN k ELSE k + 1
  <2>1. a \in 1 .. Len(s) /\ b \in 1 .. Len(s) /\ t[i] = s[a] /\ t[k] = s[b]
    BY <1>1, <1>4
  <2>2. lo[s[a]].name = lo[s[b]].name
    <3> HIDE DEF a, b
    <3> QED BY <1>3, <1>4, <2>1
  <2>3. a = b
    <3> HIDE DEF a, b
    <3> QED BY <1>0, <2>1, <2>2 DEF Shape
  <2> QED BY <1>0, <1>1, <2>3
<1>8. Shape(t)'
  BY <1>2, <1>6, <1>7 DEF Shape
<1>9. ASSUME NEW u \in Threads PROVE LookupOK(t, u)'
  <2>1. CASE walk[u] = NULL
    BY <2>1 DEF Free, LookupOK
  <2>2. CASE walk[u] # NULL
    <3>1. walk[u] \in Walk
      BY <2>2, WalkParts
    <3>2. walk'[u].disturbed = TRUE
      BY <2>2, <3>1 DEF Free, Walk
    <3> QED BY <3>2 DEF LookupOK
  <2> QED BY <2>1, <2>2
<1>10. OwnerOK(t)'
  BY DEF Free, OwnerOK, Threads
<1>11. ListOK(t)'
  BY <1>8, <1>9, <1>10 DEF ListOK
<1> QED BY <1>11 DEF t

-----------------------------------------------------------------------------
(* The invariant *)

LEMMA NameInit == Init => NameInv
<1> SUFFICES ASSUME Init PROVE NameInv
  OBVIOUS
<1>1. <<>> \in Seq(Nodes) /\ Len(<<>>) = 0
  OBVIOUS
<1>2. Shape(<<>>)
  BY <1>1 DEF Init, ListInit, Shape, Order, IsPath, Live
<1>3. OwnerOK(<<>>) /\ \A t \in Threads : LookupOK(<<>>, t)
  BY DEF Init, OwnerOK, LookupOK, Threads
<1>4. TypeOK /\ WalkIsSafe
  BY TypeInit DEF Init, WalkIsSafe
<1> QED BY <1>1, <1>2, <1>3, <1>4 DEF NameInv, ListOK

LEMMA ListNext ==
  ASSUME TypeOK, NEW s \in Seq(Nodes), ListOK(s), [Next]_vars
  PROVE  \E t \in Seq(Nodes) : ListOK(t)'
<1>1. ASSUME NEW t \in Threads, ReadFreed(t) PROVE ListOK(s)'
  <2>1. UNCHANGED <<listVars, walk, lo>> /\ SameNames
    BY <1>1 DEF ReadFreed, SameNames, Live
  <2> QED BY <2>1, ShapeKept, LookupKept, OwnerKept DEF ListOK
<1>2. ASSUME NEW n \in Nodes, Add(n) PROVE \E t \in Seq(Nodes) : ListOK(t)'
  <2>1. Append(s, n) \in Seq(Nodes)
    OBVIOUS
  <2>2. ListOK(Append(s, n))'
    BY <1>2, AddOK
  <2> QED BY <2>1, <2>2
<1>3. ASSUME NEW j \in 1 .. Len(s), walk[Owner] = NULL, ListRemove(s[j]), Free(s[j])
      PROVE  \E t \in Seq(Nodes) : ListOK(t)'
  <2>1. Without(s, j) \in Seq(Nodes)
    BY WithoutParts
  <2>2. ListOK(Without(s, j))'
    BY <1>3, RemoveOK
  <2> QED BY <2>1, <2>2
<1>4. ASSUME NEW n \in Nodes, Close(n) PROVE \E t \in Seq(Nodes) : ListOK(t)'
  <2>1. PICK j \in 1 .. Len(s) : s[j] = n
    BY <1>4, ShapeParts DEF Close, ListOK
  <2> QED BY <1>3, <1>4, <2>1 DEF Close
<1>5. ASSUME PopArg PROVE \E t \in Seq(Nodes) : ListOK(t)'
  <2>1. Len(s) \in 1 .. Len(s) /\ tail = s[Len(s)] /\ ListRemove(s[Len(s)])
    BY <1>5, PopRemoves DEF PopArg, ListOK, Shape, TypeOK
  <2> QED BY <1>3, <1>5, <2>1 DEF PopArg
<1>6. ASSUME UNCHANGED vars PROVE ListOK(s)'
  <2>1. UNCHANGED <<listVars, walk, lo>> /\ SameNames
    BY <1>6 DEF vars, SameNames, Live
  <2> QED BY <2>1, ShapeKept, LookupKept, OwnerKept DEF ListOK
<1> QED BY <1>1, <1>2, <1>4, <1>5, <1>6, BeginOK, AdvanceOK, EndOK DEF Next

\* Only a lookup that was disturbed meets a node that is not in use.
LEMMA SafeNext ==
  ASSUME TypeOK, NEW s, ListOK(s), WalkIsSafe, [Next]_vars
  PROVE  WalkIsSafe'
<1>1. ASSUME NEW t \in Threads, ReadFreed(t) PROVE WalkIsSafe'
  <2>1. walk[t] # NULL /\ walk[t].disturbed /\ walk' = walk
    BY <1>1 DEF ReadFreed, AtNode, ListOK, LookupOK
  <2>2. t \in Senders
    BY <2>1 DEF ListOK, OwnerOK, Threads
  <2> QED BY <2>1, <2>2 DEF WalkIsSafe
<1>2. ASSUME NEW t \in Threads, NEW op, NEW k, NEW c, BeginLookup(t, op, k, c)
      PROVE  WalkIsSafe'
  BY <1>2 DEF BeginLookup, WalkIsSafe
<1>3. CASE UNCHANGED vars
  BY <1>3 DEF vars, WalkIsSafe
<1>4. CASE \/ \E t \in Threads : Advance(t) \/ Found(t) \/ NotFound(t)
           \/ \E n \in Nodes : Add(n) \/ Close(n)
           \/ PopArg
  BY <1>4 DEF Advance, Found, NotFound, Add, Close, PopArg, AtNode, Missed, Free, WalkIsSafe
<1> QED BY <1>1, <1>2, <1>3, <1>4 DEF Next

LEMMA NameNext == NameInv /\ [Next]_vars => NameInv'
<1> SUFFICES ASSUME NameInv, [Next]_vars PROVE NameInv'
  OBVIOUS
<1>1. PICK s \in Seq(Nodes) : ListOK(s)
  BY DEF NameInv
<1>2. TypeOK'
  BY <1>1, TypeNext DEF NameInv, ListOK, Shape
<1> QED BY <1>1, <1>2, ListNext, SafeNext DEF NameInv

LEMMA NameInvariant == Spec => []NameInv
BY NameInit, NameNext, PTL DEF Spec

-----------------------------------------------------------------------------
(* The properties *)

\* The links of a list in its order give it back.
LEMMA ChainIs ==
  ASSUME NEW s, Shape(s)
  PROVE  Chain = s
BY FollowPath DEF Shape, Order, Chain

LEMMA ChainIsNext ==
  ASSUME NEW s, Shape(s)'
  PROVE  Chain' = s
<1>1. IsPath(s, head', next')
  BY DEF Shape, Order
<1>2. Follow(head', next') = s
  BY <1>1, FollowPath
<1> QED BY <1>2 DEF Chain

LEMMA LinksHold == NameInv => WellLinked
<1> SUFFICES ASSUME NameInv PROVE WellLinked
  OBVIOUS
<1>1. PICK s \in Seq(Nodes) : Shape(s)
  BY DEF NameInv, ListOK
<1> DEFINE r == [k \in 1 .. Len(s) |-> s[Len(s) + 1 - k]]
<1>2. Chain = s /\ Len(s) \in Nat /\ DOMAIN s = 1 .. Len(s)
  BY <1>1, ChainIs
<1>3. BackChain = r
  <2>1. IsPath(r, tail, prev)
    BY <1>1, BackPath DEF Shape
  <2> HIDE DEF r
  <2> QED BY <2>1, FollowPath DEF BackChain
<1>4. Len(r) = Len(s)
  BY <1>2
<1>5. ASSUME NEW k \in 1 .. Len(s) PROVE s[k] = r[Len(s) + 1 - k]
  <2>1. Len(s) + 1 - k \in 1 .. Len(s) /\ Len(s) + 1 - (Len(s) + 1 - k) = k
    BY <1>2
  <2> QED BY <2>1
<1>6. {s[k] : k \in 1 .. Len(s)} = Live
  <2>1. \A n \in Live : n \in Nodes
    BY DEF Live
  <2> QED BY <1>1, <2>1, ShapeParts DEF Shape
<1> HIDE DEF r
<1> QED BY <1>2, <1>3, <1>4, <1>5, <1>6 DEF WellLinked

LEMMA LookupsHold == NameInv => LookupsAreSound
<1> SUFFICES ASSUME NameInv, NEW t \in Threads, Missed(t), walk[t].present
             PROVE  walk[t].disturbed
  BY DEF NameInv, LookupsAreSound, FindsPresent
<1>1. PICK s \in Seq(Nodes) : ListOK(s)
  BY DEF NameInv
<1>2. SUFFICES ASSUME ~walk[t].disturbed PROVE FALSE
  OBVIOUS
<1>3. PICK i \in 1 .. Len(s) : walk[t].it = s[i]
  BY <1>1, <1>2 DEF ListOK, LookupOK, Missed
<1> QED BY <1>1, <1>3, ShapeParts DEF ListOK, Missed

-----------------------------------------------------------------------------
(* The list implements a sequence of names *)

\* A lookup for rteipc_xfer_setcb has a callback to set.
SetsCallback == \A t \in Threads : walk[t] # NULL /\ walk[t].op = "setcb" => walk[t].cb \in Callbacks

LEMMA SetsInit == Init => SetsCallback
BY DEF Init, SetsCallback

LEMMA SetsNext == TypeOK /\ SetsCallback /\ [Next]_vars => SetsCallback'
<1> SUFFICES ASSUME TypeOK, SetsCallback, [Next]_vars, NEW u \in Threads,
                    walk'[u] # NULL, walk'[u].op = "setcb"
             PROVE  walk'[u].cb \in Callbacks
  BY DEF SetsCallback
<1>0. CASE walk'[u] = walk[u]
  BY <1>0 DEF SetsCallback
<1>1. ASSUME NEW t \in Threads, NEW op, NEW k, NEW c, BeginLookup(t, op, k, c),
             op = "setcb" => c \in Callbacks
      PROVE  walk'[u].cb \in Callbacks
  <2>1. walk'[u] # walk[u] => walk'[u].op = op /\ walk'[u].cb = c
    BY <1>1 DEF BeginLookup, TypeOK
  <2> QED BY <1>0, <1>1, <2>1
<1>2. ASSUME NEW t \in Threads, Advance(t) PROVE walk'[u].cb \in Callbacks
  <2>1. walk[t] \in Walk
    BY <1>2, WalkParts DEF Advance, AtNode
  <2>2. u = t => walk'[u].op = walk[t].op /\ walk'[u].cb = walk[t].cb
    BY <1>2, <2>1 DEF Advance, TypeOK, Walk
  <2>3. u # t => walk'[u] = walk[u]
    BY <1>2 DEF Advance, TypeOK
  <2> QED BY <1>0, <1>2, <2>2, <2>3 DEF SetsCallback, Advance, AtNode
<1>3. ASSUME NEW n, Free(n) PROVE walk'[u].cb \in Callbacks
  <2>1. walk[u] # NULL
    BY <1>3 DEF Free
  <2>2. walk[u] \in Walk
    BY <2>1, WalkParts
  <2>3. walk'[u].op = walk[u].op /\ walk'[u].cb = walk[u].cb
    BY <1>3, <2>1, <2>2 DEF Free, Walk
  <2> QED BY <2>1, <2>3 DEF SetsCallback
<1>4. ASSUME \E t \in Threads : walk' = [walk EXCEPT ![t] = NULL]
      PROVE  walk'[u].cb \in Callbacks
  BY <1>0, <1>4 DEF TypeOK
<1>5. ASSUME NEW t \in Threads, Found(t) \/ NotFound(t) \/ ReadFreed(t)
      PROVE  walk'[u].cb \in Callbacks
  BY <1>0, <1>4, <1>5 DEF Found, NotFound, ReadFreed
<1>6. ASSUME NEW n \in Nodes, Add(n) \/ Close(n) PROVE walk'[u].cb \in Callbacks
  BY <1>3, <1>4, <1>6 DEF Add, Close, Threads
<1>7. CASE PopArg
  BY <1>3, <1>7 DEF PopArg
<1>8. CASE UNCHANGED vars
  BY <1>0, <1>8 DEF vars
<1>9. ASSUME NEW t \in Threads, NEW k \in Names, NEW op \in {"open", "xfer"},
             BeginLookup(t, op, k, NULL)
      PROVE  walk'[u].cb \in Callbacks
  BY <1>1, <1>9
<1>10. ASSUME NEW t \in Threads, NEW k \in Names, NEW c \in Callbacks,
              BeginLookup(t, "setcb", k, c)
       PROVE  walk'[u].cb \in Callbacks
  BY <1>1, <1>10
<1> QED BY <1>2, <1>5, <1>6, <1>7, <1>8, <1>9, <1>10 DEF Next

\* The j-th item of the sequence that the list s stands for.
Item(s, j) == [node |-> s[j], name |-> lo[s[j]].name, cb |-> lo[s[j]].cb]

LEMMA SeqIs ==
  ASSUME NEW s, Shape(s)
  PROVE  Seq_ = [j \in 1 .. Len(s) |-> Item(s, j)]
<1>1. Chain = s /\ DOMAIN s = 1 .. Len(s) /\ \A j \in 1 .. Len(s) : s[j] \in Live
  BY ChainIs, ShapeParts
<1> QED BY <1>1 DEF Seq_, Item

LEMMA SeqIsNext ==
  ASSUME NEW s \in Seq(Nodes), Shape(s)'
  PROVE  Seq_' = [j \in 1 .. Len(s) |-> Item(s, j)']
<1>1. Chain' = s /\ DOMAIN s = 1 .. Len(s)
  BY ChainIsNext
<1>2. \A j \in 1 .. Len(s) : s[j] \in Live'
  BY DEF Shape
<1> QED BY <1>1, <1>2 DEF Seq_, Item

\* The sequence is as long as the list.
LEMMA SeqParts ==
  ASSUME NEW s, Shape(s)
  PROVE  /\ DOMAIN Seq_ = 1 .. Len(s) /\ Len(Seq_) = Len(s)
         /\ \A j \in 1 .. Len(s) : Seq_[j] = Item(s, j)
BY SeqIs, ShapeParts

\* Items do not change while the structures of the list do not.
LEMMA SeqKept ==
  ASSUME NEW s \in Seq(Nodes), Shape(s), Shape(s)', lo' = lo
  PROVE  Seq_' = Seq_
<1>1. Seq_ = [j \in 1 .. Len(s) |-> Item(s, j)]
  BY SeqIs
<1>2. Seq_' = [j \in 1 .. Len(s) |-> Item(s, j)']
  BY SeqIsNext
<1>3. \A j \in 1 .. Len(s) : Item(s, j)' = Item(s, j)
  BY DEF Item
<1> QED BY <1>1, <1>2, <1>3

LEMMA AddAdds ==
  ASSUME TypeOK, NEW s \in Seq(Nodes), ListOK(s), NEW n \in Nodes, Add(n)
  PROVE  Abstract!Next
<1> DEFINE t == Append(s, n)
           k == walk[Owner].key
<1>0. Shape(s) /\ Len(s) \in Nat /\ t \in Seq(Nodes) /\ n \notin Live /\ k \in Names
  BY ShapeParts, WalkParts DEF ListOK, Add, Missed, Threads
<1>1. Shape(t)'
  BY AddOK DEF ListOK
<1>2. /\ Len(t) = Len(s) + 1 /\ t[Len(s) + 1] = n
      /\ \A i \in 1 .. Len(s) : t[i] = s[i]
  BY <1>0
<1> HIDE DEF t
<1>3. Seq_' = [j \in 1 .. Len(s) + 1 |-> Item(t, j)']
  BY <1>0, <1>1, <1>2, SeqIsNext
<1>4. ASSUME NEW j \in 1 .. Len(s) PROVE Item(t, j)' = Seq_[j]
  <2>1. s[j] # n /\ s[j] \in Nodes /\ lo'[s[j]] = lo[s[j]]
    BY <1>0, ShapeParts DEF Add, TypeOK
  <2> QED BY <1>0, <1>2, <2>1, SeqParts DEF Item
<1>5. Item(t, Len(s) + 1)' = Abstract!NewItem(n, k)
  BY <1>2 DEF Item, Abstract!NewItem, Add, TypeOK
<1>6. Seq_' = Append(Seq_, Abstract!NewItem(n, k))
  <2> DEFINE m == Len(s)
             x == Abstract!NewItem(n, k)
             f == [j \in 1 .. m |-> Item(s, j)]
  <2>1. Seq_ = f /\ m \in Nat /\ Len(f) = m
    BY <1>0, SeqIs
  <2>2. Append(f, x) = [j \in 1 .. m + 1 |-> IF j = m + 1 THEN x ELSE f[j]]
    <3> HIDE DEF x
    <3> QED BY <2>1
  <2>3. \A j \in 1 .. m + 1 : Item(t, j)' = IF j = m + 1 THEN x ELSE f[j]
    <3>1. \A j \in 1 .. m + 1 : j # m + 1 => j \in 1 .. m
      BY <2>1
    <3> HIDE DEF x, f
    <3> QED BY <1>4, <1>5, <2>1, <3>1 DEF x
  <2> HIDE DEF f, x, m
  <2>4. Seq_' = [j \in 1 .. m + 1 |-> Item(t, j)']
    BY <1>3 DEF m
  <2>5. Seq_' = Append(f, x)
    BY <2>2, <2>3, <2>4
  <2> QED BY <2>1, <2>5 DEF x
<1>7. \A j \in DOMAIN Seq_ : Seq_[j].node # n /\ Seq_[j].name # k
  <2>1. DOMAIN Seq_ = 1 .. Len(s) /\ \A j \in 1 .. Len(s) : Seq_[j] = Item(s, j)
    BY <1>0, SeqParts
  <2>2. \A j \in 1 .. Len(s) : Item(s, j).node = s[j] /\ Item(s, j).name = lo[s[j]].name
    BY DEF Item
  <2>3. \A j \in 1 .. Len(s) : s[j] # n /\ lo[s[j]].name # k
    BY <1>0, ShapeParts, NameIsNew DEF Add
  <2> QED BY <2>1, <2>2, <2>3
<1>8. Abstract!Add(n, k)
  BY <1>6, <1>7 DEF Abstract!Add
<1> QED BY <1>0, <1>8 DEF Abstract!Next

LEMMA RemoveDeletes ==
  ASSUME TypeOK, NEW s \in Seq(Nodes), ListOK(s), NEW j \in 1 .. Len(s), walk[Owner] = NULL,
         ListRemove(s[j]), Free(s[j])
  PROVE  Abstract!Next
<1> DEFINE t == Without(s, j)
<1>0. Shape(s) /\ Len(s) \in Nat /\ j \in Nat /\ s[j] \in Nodes
  BY ShapeParts DEF ListOK
<1>1. /\ t \in Seq(Nodes) /\ Len(t) = Len(s) - 1 /\ Shape(t)'
      /\ \A i \in 1 .. Len(s) - 1 : t[i] = s[IF i < j THEN i ELSE i + 1]
  BY WithoutParts, RemoveOK DEF ListOK
<1> HIDE DEF t
<1>2. Seq_' = [i \in 1 .. Len(s) - 1 |-> Item(t, i)']
  BY <1>1, SeqIsNext
<1>3. ASSUME NEW i \in 1 .. Len(s) - 1
      PROVE  Item(t, i)' = Seq_[IF i < j THEN i ELSE i + 1]
  <2> DEFINE a == IF i < j THEN i ELSE i + 1
  <2>1. a \in 1 .. Len(s) /\ a # j
    BY <1>0
  <2>2. t[i] = s[a]
    BY <1>1
  <2> HIDE DEF a
  <2>3. s[a] # s[j] /\ s[a] \in Nodes
    BY <1>0, <2>1, ShapeParts
  <2>4. lo'[s[a]] = lo[s[a]]
    BY <2>3 DEF Free, TypeOK
  <2>5. Item(t, i)' = Seq_[a]
    BY <1>0, <2>1, <2>2, <2>4, SeqParts DEF Item
  <2> QED BY <2>5 DEF a
<1>4. Seq_' = [i \in 1 .. Len(s) - 1 |-> Seq_[IF i < j THEN i ELSE i + 1]]
  BY <1>2, <1>3
<1>5. j \in DOMAIN Seq_ /\ Len(Seq_) = Len(s) /\ Seq_[j].node = s[j]
  <2>1. Item(s, j).node = s[j]
    BY DEF Item
  <2> QED BY <1>0, <2>1, SeqParts
<1>6. Abstract!Delete(s[j])
  BY <1>4, <1>5 DEF Abstract!Delete
<1> QED BY <1>0, <1>6 DEF Abstract!Next

\* The names of a list are different, so the callback of one item is set.
LEMMA FoundSets ==
  ASSUME TypeOK, SetsCallback, NEW s \in Seq(Nodes), ListOK(s), NEW t \in Threads, Found(t)
  PROVE  Abstract!Next \/ Seq_' = Seq_
<1>0. Shape(s) /\ Shape(s)' /\ Len(s) \in Nat
  BY EndOK, ShapeParts DEF ListOK
<1>1. CASE lo' = lo
  BY <1>0, <1>1, SeqKept
<1>2. CASE lo' # lo
  <2> DEFINE k == walk[t].key
             c == walk[t].cb
  <2>1. /\ lo' = [lo EXCEPT ![walk[t].it].cb = c] /\ c \in Callbacks /\ k \in Names
        /\ walk[t].it \in Live /\ lo[walk[t].it].name = k
    BY <1>2, WalkParts DEF Found, AtNode, Matches, SetsCallback
  <2>2. PICK i \in 1 .. Len(s) : walk[t].it = s[i]
    BY <1>0, <2>1, ShapeParts
  <2> HIDE DEF k, c
  <2>3. \A j \in 1 .. Len(s) : lo[s[j]].name = k <=> j = i
    BY <1>0, <2>1, <2>2 DEF Shape
  <2>4. ASSUME NEW j \in 1 .. Len(s)
        PROVE  Item(s, j)' = IF Item(s, j).name = k THEN [Item(s, j) EXCEPT !.cb = c] ELSE Item(s, j)
    <3>1. s[j] \in Nodes /\ s[j] \in Live
      BY <1>0, ShapeParts
    <3>2. CASE j = i
      <4>1. lo[s[j]] \in [name : Names, cb : Callbacks \cup {NULL}]
        BY <3>1, StructureParts
      <4>2. lo'[s[j]].name = lo[s[j]].name /\ lo'[s[j]].cb = c
        BY <2>1, <2>2, <3>1, <3>2, <4>1 DEF TypeOK
      <4>3. Item(s, j).name = k
        BY <2>3, <3>2 DEF Item
      <4>4. Item(s, j)' = [node |-> s[j], name |-> lo[s[j]].name, cb |-> c]
        BY <4>2 DEF Item
      <4> QED BY <4>3, <4>4 DEF Item
    <3>3. CASE j # i
      <4>1. lo'[s[j]] = lo[s[j]]
        BY <1>0, <2>1, <2>2, <3>1, <3>3, ShapeParts DEF TypeOK
      <4>2. Item(s, j).name # k
        BY <2>3, <3>3 DEF Item
      <4> QED BY <4>1, <4>2 DEF Item
    <3> QED BY <3>2, <3>3
  <2>5. Seq_' = [j \in 1 .. Len(s) |-> Item(s, j)']
    BY <1>0, SeqIsNext
  <2>6. /\ DOMAIN Seq_ = 1 .. Len(s)
        /\ \A j \in 1 .. Len(s) : Seq_[j] = Item(s, j)
    BY <1>0, SeqParts
  <2>7. Seq_' = [j \in DOMAIN Seq_ |->
                   IF Seq_[j].name = k THEN [Seq_[j] EXCEPT !.cb = c] ELSE Seq_[j]]
    BY <2>4, <2>5, <2>6
  <2>8. \E j \in DOMAIN Seq_ : Seq_[j].name = k
    BY <2>3, <2>6 DEF Item
  <2>9. Abstract!SetCb(k, c)
    BY <2>7, <2>8 DEF Abstract!SetCb
  <2> QED BY <2>1, <2>9 DEF Abstract!Next
<1> QED BY <1>1, <1>2

LEMMA SeqInit == Init => Abstract!Init
<1> SUFFICES ASSUME Init PROVE Abstract!Init
  OBVIOUS
<1>1. <<>> \in Seq(Nodes) /\ Len(<<>>) = 0
  OBVIOUS
<1>2. Shape(<<>>)
  BY <1>1 DEF Init, ListInit, Shape, Order, IsPath, Live
<1>3. Seq_ = [j \in 1 .. 0 |-> Item(<<>>, j)]
  BY <1>1, <1>2, SeqIs
<1>4. Seq_ = <<>>
  BY <1>3
<1> QED BY <1>4 DEF Abstract!Init

LEMMA SeqNext == NameInv /\ SetsCallback /\ [Next]_vars => [Abstract!Next]_Seq_
<1> SUFFICES ASSUME NameInv, SetsCallback, [Next]_vars PROVE Abstract!Next \/ Seq_' = Seq_
  OBVIOUS
<1>0. PICK s \in Seq(Nodes) : ListOK(s)
  BY DEF NameInv
<1>t. TypeOK /\ Shape(s)
  BY <1>0 DEF NameInv, ListOK
<1>1. ASSUME UNCHANGED <<listVars, lo>> PROVE Seq_' = Seq_
  <2>1. SameNames
    BY <1>1 DEF SameNames, Live
  <2>2. Shape(s)'
    BY <1>1, <1>t, <2>1, ShapeKept
  <2> QED BY <1>1, <1>t, <2>2, SeqKept
<1>2. ASSUME NEW n \in Nodes, Close(n) PROVE Abstract!Next
  <2>1. PICK j \in 1 .. Len(s) : s[j] = n
    BY <1>2, <1>t, ShapeParts DEF Close
  <2> QED BY <1>0, <1>2, <1>t, <2>1, RemoveDeletes DEF Close
<1>3. CASE PopArg
  <2>1. Len(s) \in 1 .. Len(s) /\ tail = s[Len(s)] /\ ListRemove(s[Len(s)])
    BY <1>3, <1>t, PopRemoves DEF PopArg, Shape, TypeOK
  <2> QED BY <1>0, <1>3, <1>t, <2>1, RemoveDeletes DEF PopArg
<1>4. ASSUME NEW t \in Threads, NEW op, NEW k, NEW c, BeginLookup(t, op, k, c)
      PROVE  Seq_' = Seq_
  BY <1>1, <1>4 DEF BeginLookup
<1>5. ASSUME NEW t \in Threads, Advance(t) \/ ReadFreed(t) \/ NotFound(t) PROVE Seq_' = Seq_
  BY <1>1, <1>5 DEF Advance, ReadFreed, NotFound
<1>6. CASE UNCHANGED vars
  BY <1>1, <1>6 DEF vars
<1> QED BY <1>0, <1>2, <1>3, <1>4, <1>5, <1>6, <1>t, AddAdds, FoundSets DEF Next

-----------------------------------------------------------------------------
(* The theorems *)

\* The types of list.c's links and of their users' structures.
THEOREM NameTypeCorrect == Spec => []TypeOK
<1>1. NameInv => TypeOK
  BY DEF NameInv
<1> QED BY <1>1, NameInvariant, PTL

\* Whatever is pushed, removed and popped, the links of list.c are those of one
\* list, backwards as forwards, of the structures in use.
THEOREM LinksCorrect == Spec => []WellLinked
BY NameInvariant, LinksHold, PTL

\* A lookup between the pushes of another thread finds what is there and reads
\* nothing that was freed (lookup_lo, rteipc_xfer); with removals it may not.
THEOREM LookupsCorrect == Spec => []LookupsAreSound
BY NameInvariant, LookupsHold, PTL

\* The linked structures with their lookups implement a sequence in which no name
\* comes twice: what loop_open looked up still holds when it pushes.
THEOREM NameSeqRefined == Spec => ImplementsNameSeq
<1>1. Init /\ [][Next]_vars /\ []NameInv => []SetsCallback
  <2>1. NameInv => TypeOK
    BY DEF NameInv
  <2> QED BY <2>1, SetsInit, SetsNext, PTL
<1>2. Spec => Abstract!Init /\ [][Abstract!Next]_Seq_
  BY <1>1, NameInvariant, SeqInit, SeqNext, PTL DEF Spec
<1> QED BY <1>2 DEF ImplementsNameSeq, Abstract!Spec

=============================================================================
