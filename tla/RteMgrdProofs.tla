--------------------------- MODULE RteMgrdProofs ---------------------------
(* Proofs about the routing daemon, for every set of names and addresses    *)
(* every number of messages and every size of the endpoint table.           *)
EXTENDS RteMgrd, SequenceTheorems, TLAPS

USE NamesAssumption, AddrsAssumption, MgrBoundsAssumption

-----------------------------------------------------------------------------
(* The inductive invariant *)

\* The types of what the invariant reads: not of the messages that have left.
MgrType ==
  /\ live \in SUBSET AllAddrs
  /\ iface \in [AllAddrs -> Interface]
  /\ loop \in [AllNames -> AllAddrs \cup {NULL}]
  /\ orphans \in SUBSET AllNames
  /\ count \in 0 .. MaxMsgs

\* The invariant that every action preserves.
MgrInv ==
  /\ MgrType
  /\ NamesAreUnique /\ CallbacksFindInterface
  /\ ManagedHasNoPartner /\ RoutesAreMutual /\ RoutedHasNoPending
  /\ MemoryIsSafe

-----------------------------------------------------------------------------
(* Interfaces *)

LEMMA IfaceParts ==
  ASSUME MgrType, NEW i \in AllAddrs
  PROVE  /\ iface[i] \in Interface /\ iface[i].name \in AllNames
         /\ iface[i].partner \in AllAddrs \cup {NULL}
         /\ iface[i].pending \in Seq(Message)
BY DEF MgrType, Interface

LEMMA NullIsNoAddress == NULL \notin AllAddrs
BY DEF AllAddrs

\* A new interface has no partner and nothing pending.
LEMMA NewIfaceType ==
  ASSUME NEW name \in AllNames, NEW managed \in BOOLEAN
  PROVE  /\ NewIface(name, managed) \in Interface
         /\ NewIface(name, managed).name = name
         /\ NewIface(name, managed).managed = managed
         /\ NewIface(name, managed).partner = NULL
         /\ NewIface(name, managed).pending = <<>>
<1>1. <<>> \in Seq(Message)
  OBVIOUS
<1> QED BY <1>1 DEF NewIface, Interface

LEMMA WithPending ==
  ASSUME NEW x \in Interface, NEW q \in Seq(Message)
  PROVE  /\ [x EXCEPT !.pending = q] \in Interface
         /\ [x EXCEPT !.pending = q].name = x.name
         /\ [x EXCEPT !.pending = q].managed = x.managed
         /\ [x EXCEPT !.pending = q].partner = x.partner
         /\ [x EXCEPT !.pending = q].pending = q
BY DEF Interface

LEMMA WithPartner ==
  ASSUME NEW x \in Interface, NEW p \in AllAddrs
  PROVE  /\ [x EXCEPT !.partner = p] \in Interface
         /\ [x EXCEPT !.partner = p].name = x.name
         /\ [x EXCEPT !.partner = p].managed = x.managed
         /\ [x EXCEPT !.partner = p].pending = x.pending
         /\ [x EXCEPT !.partner = p].partner = p
BY DEF Interface

LEMMA GarbageType == Garbage \in Interface
<1>1. Ctl \in AllNames /\ TRUE \in BOOLEAN
  BY Zenon DEF AllNames
<1> QED BY <1>1, NewIfaceType DEF Garbage

\* iface_lookup_by_name finds an interface of that name.
LEMMA LookupFinds ==
  ASSUME NEW name, Lookup(name) # NULL
  PROVE  Lookup(name) \in live /\ iface[Lookup(name)].name = name
<1>1. Named(name) # {}
  BY DEF Lookup
<1>2. Lookup(name) \in Named(name)
  BY <1>1 DEF Lookup
<1> QED BY <1>2 DEF Named

\* Where iface_forget clears a partner.
Cleared(f, i, j) ==
  IF f[i].managed THEN j \in live \ {i} /\ f[j].partner = i
                  ELSE f[i].partner # NULL /\ j \in {f[i].partner, i}

\* iface_forget changes nothing but the partners it clears.
LEMMA ForgetEffect ==
  ASSUME NEW f \in [AllAddrs -> Interface], NEW i \in AllAddrs
  PROVE  /\ Forget(f, i) \in [AllAddrs -> Interface]
         /\ \A j \in AllAddrs :
              /\ Forget(f, i)[j].name = f[j].name
              /\ Forget(f, i)[j].managed = f[j].managed
              /\ Forget(f, i)[j].pending = f[j].pending
              /\ Forget(f, i)[j].partner =
                   IF Cleared(f, i, j) THEN NULL ELSE f[j].partner
<1> DEFINE Nul(x) == [x EXCEPT !.partner = NULL]
<1>1. ASSUME NEW x \in Interface
      PROVE  /\ Nul(x) \in Interface /\ Nul(x).name = x.name
             /\ Nul(x).managed = x.managed /\ Nul(x).pending = x.pending
             /\ Nul(x).partner = NULL
  BY DEF Interface
<1>2. \A j \in AllAddrs : f[j] \in Interface
  OBVIOUS
<1>3. CASE f[i].managed
  <2>1. Forget(f, i) = [j \in AllAddrs |-> IF j \in live \ {i} /\ f[j].partner = i
                          THEN Nul(f[j]) ELSE f[j]]
    BY <1>3 DEF Forget
  <2>2. \A j \in AllAddrs : Cleared(f, i, j) <=> j \in live \ {i} /\ f[j].partner = i
    BY <1>3 DEF Cleared
  <2> HIDE DEF Nul
  <2> QED BY <1>1, <1>2, <2>1, <2>2
<1>4. CASE ~f[i].managed /\ f[i].partner = NULL
  <2>1. Forget(f, i) = f /\ \A j \in AllAddrs : ~Cleared(f, i, j)
    BY <1>4 DEF Forget, Cleared
  <2> QED BY <2>1
<1>5. CASE ~f[i].managed /\ f[i].partner # NULL
  <2>1. PICK p \in AllAddrs : p = f[i].partner
    BY <1>2, <1>5 DEF Interface
  <2>2. \A j \in AllAddrs : Cleared(f, i, j) <=> j \in {p, i}
    BY <1>5, <2>1 DEF Cleared
  <2>3. Forget(f, i) = Clear(Clear(f, p), i)
    BY <1>5, <2>1 DEF Forget
  <2>4. ASSUME NEW g \in [AllAddrs -> Interface], NEW k \in AllAddrs
        PROVE  /\ Clear(g, k) \in [AllAddrs -> Interface]
               /\ Clear(g, k)[k] = Nul(g[k])
               /\ \A j \in AllAddrs \ {k} : Clear(g, k)[j] = g[j]
    <3>1. g[k] \in Interface
      OBVIOUS
    <3>2. Nul(g[k]) \in Interface
      BY <1>1, <3>1
    <3>3. Clear(g, k) = [g EXCEPT ![k] = Nul(g[k])]
      BY DEF Clear
    <3> HIDE DEF Nul
    <3> QED BY <3>2, <3>3
  <2> HIDE DEF Nul
  <2>5. PICK g \in [AllAddrs -> Interface] : g = Clear(f, p)
    BY <2>4
  <2>6. PICK h \in [AllAddrs -> Interface] : h = Forget(f, i) /\ h = Clear(g, i)
    BY <2>3, <2>4, <2>5
  <2>7. /\ \A j \in AllAddrs \ {p, i} : h[j] = f[j]
        /\ g[p] = Nul(f[p])
        /\ p # i => h[p] = g[p] /\ g[i] = f[i]
        /\ h[i] = Nul(g[i])
    <3>1. /\ g[p] = Nul(f[p])
          /\ \A j \in AllAddrs \ {p} : g[j] = f[j]
      BY <2>4, <2>5
    <3>2. /\ h[i] = Nul(g[i])
          /\ \A j \in AllAddrs \ {i} : h[j] = g[j]
      BY <2>4, <2>6
    <3> QED BY <3>1, <3>2
  <2>8. ASSUME NEW j \in AllAddrs
        PROVE  /\ h[j].name = f[j].name /\ h[j].managed = f[j].managed
               /\ h[j].pending = f[j].pending
               /\ h[j].partner = IF j \in {p, i} THEN NULL ELSE f[j].partner
    <3>1. /\ g[p].name = f[p].name /\ g[p].managed = f[p].managed
          /\ g[p].pending = f[p].pending /\ g[p].partner = NULL
      BY <1>1, <1>2, <2>7
    <3>2. /\ h[i].name = g[i].name /\ h[i].managed = g[i].managed
          /\ h[i].pending = g[i].pending /\ h[i].partner = NULL
      BY <1>1, <2>5, <2>7
    <3> QED BY <2>7, <3>1, <3>2
  <2> QED BY <2>2, <2>6, <2>8
<1> QED BY <1>3, <1>4, <1>5

-----------------------------------------------------------------------------
(* What steps that change little keep *)

LEMMA NamesKept ==
  ASSUME MgrType, NamesAreUnique, live' = live, orphans' = orphans,
         \A i \in live : iface'[i].name = iface[i].name,
         \A n \in AllNames : loop'[n] = NULL <=> loop[n] = NULL,
         incidents \subseteq incidents'
  PROVE  NamesAreUnique'
<1>1. {iface'[i].name : i \in live'} = {iface[i].name : i \in live}
  OBVIOUS
<1>2. {n \in AllNames : loop'[n] # NULL} = {n \in AllNames : loop[n] # NULL}
  OBVIOUS
<1>3. \A n \in orphans' : loop'[n] # NULL /\ "unstored" \in incidents'
  BY DEF MgrType, NamesAreUnique
<1>4. \A i, j \in live' : iface'[i].name = iface'[j].name => i = j
  BY DEF NamesAreUnique
<1> QED BY <1>1, <1>2, <1>3, <1>4 DEF NamesAreUnique

LEMMA CallbacksKept ==
  ASSUME CallbacksFindInterface, live' \subseteq live, loop' = loop,
         \A i \in live' : iface'[i].name = iface[i].name, incidents \subseteq incidents'
  PROVE  CallbacksFindInterface'
BY DEF CallbacksFindInterface

LEMMA SafeKept ==
  ASSUME MemoryIsSafe, status' = status, incidents \subseteq incidents'
  PROVE  MemoryIsSafe'
BY DEF MemoryIsSafe

\* A step that changes no interface and no loopback endpoint.
LEMMA QuietStep ==
  ASSUME MgrInv, UNCHANGED <<live, iface, loop, orphans, status, incidents>>,
         count' \in 0 .. MaxMsgs
  PROVE  MgrInv'
<1>1. MgrType'
  BY DEF MgrInv, MgrType
<1>2. NamesAreUnique' /\ CallbacksFindInterface' /\ MemoryIsSafe'
  BY NamesKept, CallbacksKept, SafeKept DEF MgrInv
<1>3. ManagedHasNoPartner' /\ RoutesAreMutual' /\ RoutedHasNoPending'
  BY DEF MgrInv, ManagedHasNoPartner, RoutesAreMutual, RoutedHasNoPending
<1> QED BY <1>1, <1>2, <1>3 DEF MgrInv

\* A message that is received keeps the count in its bounds.
LEMMA ReceiveCounts ==
  ASSUME MgrType, NEW name \in AllNames, Receive(name)
  PROVE  count' \in 0 .. MaxMsgs /\ Msg(name) \in Message
<1>1. count \in 0 .. MaxMsgs /\ count < MaxMsgs /\ count' = count + 1
  BY DEF MgrType, Receive
<1>2. count + 1 \in 1 .. MaxMsgs /\ count + 1 \in 0 .. MaxMsgs
  BY <1>1
<1> QED BY <1>1, <1>2 DEF Msg, Message

-----------------------------------------------------------------------------
(* The handlers *)

LEMMA RawRoutedStep ==
  ASSUME MgrInv, NEW name \in Names, RawRouted(name)
  PROVE  MgrInv'
<1>1. name \in AllNames /\ Receive(name)
      /\ UNCHANGED <<live, iface, loop, orphans, status, incidents>>
  BY DEF RawRouted, AllNames
<1> QED BY <1>1, ReceiveCounts, QuietStep DEF MgrInv

LEMMA ManagedStep ==
  ASSUME MgrInv, NEW name \in AllNames, Managed(name)
  PROVE  MgrInv'
<1>1. Receive(name) /\ UNCHANGED <<live, iface, loop, orphans, status, incidents>>
  BY DEF Managed
<1> QED BY <1>1, ReceiveCounts, QuietStep DEF MgrInv

LEMMA RawPendingStep ==
  ASSUME MgrInv, NEW name \in Names, RawPending(name)
  PROVE  MgrInv'
<1>1. /\ name \in AllNames /\ Receive(name) /\ MgrType
      /\ UNCHANGED <<live, loop, orphans, status>> /\ incidents \subseteq incidents'
  BY DEF RawPending, AllNames, MgrInv
<1>2. count' \in 0 .. MaxMsgs /\ Msg(name) \in Message
  BY <1>1, ReceiveCounts
<1>3. PICK self \in live : /\ self = loop[name] /\ iface[self].partner = NULL
                           /\ \/ iface' = [iface EXCEPT ![self].pending =
                                            Enqueue(@, Msg(name))]
                              \/ iface' = iface
  BY DEF RawPending
<1>4. self \in AllAddrs /\ iface[self] \in Interface /\ iface[self].pending \in Seq(Message)
  BY <1>1, IfaceParts DEF MgrType
<1>5. PICK q \in Seq(Message) : q = Append(iface[self].pending, Msg(name))
  <2>1. Append(iface[self].pending, Msg(name)) \in Seq(Message)
    BY <1>2, <1>4
  <2> QED BY <2>1
<1>6. /\ iface' \in [AllAddrs -> Interface]
      /\ \A j \in AllAddrs : /\ iface'[j].name = iface[j].name
                             /\ iface'[j].managed = iface[j].managed
                             /\ iface'[j].partner = iface[j].partner
                             /\ j # self => iface'[j] = iface[j]
  <2>1. CASE iface' = iface
    BY <1>1, <2>1 DEF MgrType
  <2>2. CASE iface' = [iface EXCEPT ![self].pending = Enqueue(@, Msg(name))]
    <3>1. iface' = [iface EXCEPT ![self] = [iface[self] EXCEPT !.pending = q]]
      BY <1>5, <2>2 DEF Enqueue
    <3>2. PICK x \in Interface : /\ x = [iface[self] EXCEPT !.pending = q]
                                 /\ x.name = iface[self].name
                                 /\ x.managed = iface[self].managed
                                 /\ x.partner = iface[self].partner
      BY <1>4, WithPending
    <3> QED BY <1>1, <1>4, <3>1, <3>2 DEF MgrType
  <2> QED BY <1>3, <2>1, <2>2
<1>7. MgrType'
  BY <1>1, <1>2, <1>6 DEF MgrType
<1>8. live \subseteq AllAddrs
  BY <1>1 DEF MgrType
<1>9. NamesAreUnique' /\ CallbacksFindInterface' /\ MemoryIsSafe'
  BY <1>1, <1>6, <1>8, NamesKept, CallbacksKept, SafeKept DEF MgrInv
<1>10. ManagedHasNoPartner' /\ RoutesAreMutual'
  BY <1>1, <1>6, <1>8 DEF MgrInv, ManagedHasNoPartner, RoutesAreMutual
<1>11. RoutedHasNoPending'
  BY <1>1, <1>3, <1>6, <1>8 DEF MgrInv, RoutedHasNoPending
<1> QED BY <1>7, <1>9, <1>10, <1>11 DEF MgrInv

\* As long as there was no incident but a lack of memory, every loopback
\* endpoint leads to an interface, and every partner is one.
LEMMA NothingFreedIsUsed ==
  ASSUME MgrInv, incidents \subseteq {"nomem"}
  PROVE  /\ \A n \in AllNames : loop[n] # NULL => loop[n] \in live
         /\ \A i \in live : iface[i].partner # NULL => iface[i].partner \in live
<1>1. /\ "duplicate" \notin incidents /\ "reroute" \notin incidents
      /\ "unstored" \notin incidents
  OBVIOUS
<1>2. ASSUME NEW n \in AllNames, loop[n] # NULL PROVE loop[n] \in live
  <2>1. PICK i \in live : iface[i].name = n
    BY <1>1, <1>2 DEF MgrInv, NamesAreUnique
  <2> QED BY <1>1, <2>1 DEF MgrInv, CallbacksFindInterface
<1>3. \A i \in live : iface[i].partner # NULL => iface[i].partner \in live
  BY <1>1 DEF MgrInv, RoutesAreMutual
<1> QED BY <1>2, <1>3

\* A step after which the model ends, with the incident that explains it.
LEMMA UndefinedStep ==
  ASSUME MgrInv, UNCHANGED <<live, iface, loop, orphans>>, count' \in 0 .. MaxMsgs,
         incidents \subseteq incidents', ~(incidents' \subseteq {"nomem"})
  PROVE  MgrInv'
<1>1. MgrType'
  BY DEF MgrInv, MgrType
<1>2. NamesAreUnique' /\ CallbacksFindInterface'
  BY NamesKept, CallbacksKept DEF MgrInv
<1>3. ManagedHasNoPartner' /\ RoutesAreMutual' /\ RoutedHasNoPending'
  BY DEF MgrInv, ManagedHasNoPartner, RoutesAreMutual, RoutedHasNoPending
<1> QED BY <1>1, <1>2, <1>3 DEF MgrInv, MemoryIsSafe

LEMMA HandlerUsesFreedStep ==
  ASSUME MgrInv, NEW name \in Names, HandlerUsesFreed(name)
  PROVE  MgrInv'
<1>1. /\ name \in AllNames /\ Receive(name) /\ loop[name] # NULL
      /\ UNCHANGED <<live, iface, loop, orphans, incidents>>
  BY DEF HandlerUsesFreed, AllNames, Receive
<1>2. count' \in 0 .. MaxMsgs
  BY <1>1, ReceiveCounts DEF MgrInv
<1>3. ~(incidents \subseteq {"nomem"})
  BY <1>1, NothingFreedIsUsed DEF HandlerUsesFreed
<1> QED BY <1>1, <1>2, <1>3, UndefinedStep

LEMMA CommandUsesFreedStep ==
  ASSUME MgrInv, CommandUsesFreed
  PROVE  MgrInv'
<1>1. UNCHANGED <<live, iface, loop, orphans, count, incidents>>
  BY DEF CommandUsesFreed
<1>2. ~(incidents \subseteq {"nomem"})
  BY NothingFreedIsUsed DEF CommandUsesFreed
<1> QED BY <1>1, <1>2, UndefinedStep DEF MgrInv, MgrType

-----------------------------------------------------------------------------
(* iface_forget and the commands that call it *)

\* What iface_forget(i) leaves behind, whether or not i is then freed.
LEMMA RoutesForgotten ==
  ASSUME MgrInv, NEW i \in live, live' = live \/ live' = live \ {i},
         incidents \subseteq incidents',
         \A j \in live' : /\ iface'[j].managed = iface[j].managed
                          /\ iface'[j].pending = iface[j].pending
                          /\ iface'[j].partner =
                               IF Cleared(iface, i, j) THEN NULL ELSE iface[j].partner
  PROVE  ManagedHasNoPartner' /\ RoutesAreMutual' /\ RoutedHasNoPending'
<1>1. live' \subseteq live
  OBVIOUS
<1>2. ManagedHasNoPartner'
  BY <1>1 DEF MgrInv, ManagedHasNoPartner
<1>3. RoutedHasNoPending'
  BY <1>1 DEF MgrInv, RoutedHasNoPending
<1>4. ASSUME "reroute" \notin incidents', NEW j \in live', iface'[j].partner # NULL
      PROVE  /\ iface'[j].partner \in live' \ {j}
             /\ ~iface'[iface'[j].partner].managed => iface'[iface'[j].partner].partner = j
  <2>1. j \in live /\ ~Cleared(iface, i, j) /\ iface'[j].partner = iface[j].partner
    BY <1>1, <1>4
  <2>2. PICK q \in live : /\ q = iface[j].partner /\ q # j
                          /\ ~iface[q].managed => iface[q].partner = j
    BY <1>4, <2>1 DEF MgrInv, RoutesAreMutual
  <2>3. j \in AllAddrs /\ NULL \notin AllAddrs /\ i \in AllAddrs
    BY <2>1, NullIsNoAddress DEF MgrInv, MgrType
  <2>4. ~iface[j].managed /\ iface[j].partner # NULL
    BY <1>4, <2>1 DEF MgrInv, ManagedHasNoPartner
  <2>5. q # i
    BY <2>1, <2>2, <2>3 DEF Cleared
  <2>6. q \in live' /\ iface'[q].managed = iface[q].managed
    BY <2>2, <2>5
  <2>7. ASSUME ~iface[q].managed PROVE ~Cleared(iface, i, q)
    <3>1. iface[q].partner = j
      BY <2>2, <2>7
    <3>2. CASE iface[i].managed
      BY <2>4, <3>1, <3>2 DEF Cleared
    <3>3. CASE ~iface[i].managed
      <4>1. ASSUME q = iface[i].partner, iface[i].partner # NULL PROVE FALSE
        <5>1. "reroute" \notin incidents
          BY <1>4
        <5>2. iface[q].partner = i
          BY <2>7, <4>1, <5>1 DEF MgrInv, RoutesAreMutual
        <5> QED BY <2>1, <3>1, <3>3, <4>1, <5>2 DEF Cleared
      <4> QED BY <2>5, <3>3, <4>1 DEF Cleared
    <3> QED BY <3>2, <3>3
  <2> QED BY <2>1, <2>2, <2>6, <2>7
<1>5. RoutesAreMutual'
  BY <1>4 DEF RoutesAreMutual
<1> QED BY <1>2, <1>3, <1>5

LEMMA CmdForgetStep ==
  ASSUME MgrInv, NEW name \in AllNames, CmdForget(name)
  PROVE  MgrInv'
<1>1. PICK i \in live : iface' = Forget(iface, i)
  BY LookupFinds DEF CmdForget
<1>2. UNCHANGED <<live, loop, orphans, count, status, incidents>> /\ MgrType
  BY DEF CmdForget, MgrInv
<1>3. i \in AllAddrs /\ live \subseteq AllAddrs /\ iface \in [AllAddrs -> Interface]
  BY <1>2 DEF MgrType
<1>4. /\ iface' \in [AllAddrs -> Interface]
      /\ \A j \in AllAddrs :
           /\ iface'[j].name = iface[j].name
           /\ iface'[j].managed = iface[j].managed
           /\ iface'[j].pending = iface[j].pending
           /\ iface'[j].partner = IF Cleared(iface, i, j) THEN NULL ELSE iface[j].partner
  BY <1>1, <1>3, ForgetEffect
<1>5. MgrType'
  BY <1>2, <1>4 DEF MgrType
<1>6. NamesAreUnique' /\ CallbacksFindInterface' /\ MemoryIsSafe'
  BY <1>2, <1>3, <1>4, NamesKept, CallbacksKept, SafeKept DEF MgrInv
<1>7. ManagedHasNoPartner' /\ RoutesAreMutual' /\ RoutedHasNoPending'
  BY <1>2, <1>3, <1>4, RoutesForgotten
<1> QED BY <1>5, <1>6, <1>7 DEF MgrInv

LEMMA CmdCloseStep ==
  ASSUME MgrInv, NEW name \in AllNames, CmdClose(name)
  PROVE  MgrInv'
<1>1. PICK i \in live : /\ iface[i].name = name /\ live' = live \ {i}
                        /\ iface' = [Forget(iface, i) EXCEPT ![i] = Garbage]
  BY LookupFinds DEF CmdClose
<1>2. /\ loop' = [loop EXCEPT ![name] = NULL] /\ count' = count /\ orphans' = orphans
      /\ \/ status' = status /\ incidents' = incidents
         \/ incidents' = incidents \cup {"ctlclosed"}
      /\ MgrType
  BY DEF CmdClose, MgrInv
<1>3. /\ i \in AllAddrs /\ live \subseteq AllAddrs /\ iface \in [AllAddrs -> Interface]
      /\ loop \in [AllNames -> AllAddrs \cup {NULL}] /\ NULL \notin AllAddrs
  BY <1>2, NullIsNoAddress DEF MgrType
<1>4. PICK f \in [AllAddrs -> Interface] :
        /\ f = Forget(iface, i)
        /\ \A j \in AllAddrs :
             /\ f[j].name = iface[j].name
             /\ f[j].managed = iface[j].managed
             /\ f[j].pending = iface[j].pending
             /\ f[j].partner = IF Cleared(iface, i, j) THEN NULL ELSE iface[j].partner
  BY <1>3, ForgetEffect
<1>5. iface' \in [AllAddrs -> Interface] /\ \A j \in AllAddrs \ {i} : iface'[j] = f[j]
  BY <1>1, <1>4, GarbageType
<1>6. /\ loop' \in [AllNames -> AllAddrs \cup {NULL}] /\ loop'[name] = NULL
      /\ \A n \in AllNames \ {name} : loop'[n] = loop[n]
  BY <1>2, <1>3
<1>7. MgrType'
  BY <1>1, <1>2, <1>5, <1>6 DEF MgrType
<1>8. live' \subseteq live /\ \A j \in live' : j \in AllAddrs \ {i} /\ iface'[j] = f[j]
  BY <1>1, <1>3, <1>5
<1>9. incidents \subseteq incidents'
  BY <1>2
<1>10. ManagedHasNoPartner' /\ RoutesAreMutual' /\ RoutedHasNoPending'
  BY <1>1, <1>4, <1>8, <1>9, RoutesForgotten
<1>11. \A j \in live' : iface'[j].name = iface[j].name /\ iface[j].name # name
  BY <1>1, <1>4, <1>8 DEF MgrInv, NamesAreUnique
<1>12. NamesAreUnique'
  <2>1. \A j, k \in live' : iface'[j].name = iface'[k].name => j = k
    BY <1>8, <1>11 DEF MgrInv, NamesAreUnique
  <2>2. {iface[j].name : j \in live} = {n \in AllNames : loop[n] # NULL} \ orphans
    BY DEF MgrInv, NamesAreUnique
  <2>3. {iface'[j].name : j \in live'} = {iface[j].name : j \in live} \ {name}
    <3>1. {iface'[j].name : j \in live'} = {iface[j].name : j \in live'}
      BY <1>11
    <3>2. {iface[j].name : j \in live'} = {iface[j].name : j \in live} \ {name}
      BY <1>1, <1>11
    <3> QED BY <3>1, <3>2
  <2>4. {n \in AllNames : loop'[n] # NULL} = {n \in AllNames : loop[n] # NULL} \ {name}
    BY <1>6
  <2>5. name \notin orphans
    BY <1>1, <2>2
  <2>6. \A n \in orphans' : loop'[n] # NULL /\ "unstored" \in incidents'
    BY <1>2, <1>6, <1>9, <2>5 DEF MgrInv, MgrType, NamesAreUnique
  <2> QED BY <1>2, <2>1, <2>2, <2>3, <2>4, <2>6 DEF NamesAreUnique
<1>13. CallbacksFindInterface'
  <2>1. \A j \in live' : loop'[iface'[j].name] = loop[iface[j].name]
    BY <1>2, <1>6, <1>8, <1>11, IfaceParts
  <2> QED BY <1>8, <1>9, <2>1 DEF MgrInv, CallbacksFindInterface
<1>14. MemoryIsSafe'
  <2>1. CASE status' = status /\ incidents' = incidents
    BY <2>1, SafeKept DEF MgrInv
  <2>2. CASE incidents' = incidents \cup {"ctlclosed"}
    <3>1. "ctlclosed" \in incidents'
      BY <2>2
    <3> QED BY <3>1 DEF MemoryIsSafe
  <2> QED BY <1>2, <2>1, <2>2
<1> QED BY <1>7, <1>10, <1>12, <1>13, <1>14 DEF MgrInv

-----------------------------------------------------------------------------
(* do_rtecmd_open *)

LEMMA CmdOpenStep ==
  ASSUME MgrInv, NEW name \in Names, NEW managed \in BOOLEAN, NEW i \in Addrs,
         CmdOpen(name, managed, i)
  PROVE  MgrInv'
<1>1. /\ i \notin live /\ loop[name] = NULL /\ live' = live \cup {i}
      /\ iface' = [iface EXCEPT ![i] = NewIface(name, managed)]
      /\ loop' = [loop EXCEPT ![name] = i]
      /\ UNCHANGED <<orphans, count, status, incidents>>
  BY DEF CmdOpen
<1>2. /\ MgrType /\ i \in AllAddrs /\ name \in AllNames /\ live \subseteq AllAddrs
      /\ iface \in [AllAddrs -> Interface] /\ NULL \notin AllAddrs
      /\ loop \in [AllNames -> AllAddrs \cup {NULL}]
  BY NullIsNoAddress DEF MgrInv, MgrType, AllAddrs, AllNames
<1>3. /\ iface' \in [AllAddrs -> Interface] /\ iface'[i] = NewIface(name, managed)
      /\ \A j \in AllAddrs \ {i} : iface'[j] = iface[j]
  BY <1>1, <1>2, NewIfaceType
<1>4. iface'[i].name = name /\ iface'[i].partner = NULL
  BY <1>2, <1>3, NewIfaceType
<1>5. /\ loop' \in [AllNames -> AllAddrs \cup {NULL}] /\ loop'[name] = i
      /\ \A n \in AllNames \ {name} : loop'[n] = loop[n]
  BY <1>1, <1>2
<1>6. MgrType'
  BY <1>1, <1>2, <1>3, <1>5 DEF MgrType
<1>7. \A j \in live : j # i /\ iface'[j] = iface[j]
  BY <1>1, <1>2, <1>3
<1>8. /\ {iface[j].name : j \in live} = {n \in AllNames : loop[n] # NULL} \ orphans
      /\ name \notin orphans
  BY <1>1 DEF MgrInv, NamesAreUnique
<1>9. \A j \in live : iface[j].name # name
  BY <1>1, <1>8
<1>10. NamesAreUnique'
  <2>1. \A j, k \in live' : iface'[j].name = iface'[k].name => j = k
    BY <1>1, <1>4, <1>7, <1>9 DEF MgrInv, NamesAreUnique
  <2>2. {iface'[j].name : j \in live'} = {iface[j].name : j \in live} \cup {name}
    BY <1>1, <1>4, <1>7
  <2>3. {n \in AllNames : loop'[n] # NULL} = {n \in AllNames : loop[n] # NULL} \cup {name}
    BY <1>2, <1>5
  <2>4. \A n \in orphans' : loop'[n] # NULL /\ "unstored" \in incidents'
    BY <1>1, <1>2, <1>5, <1>8 DEF MgrInv, MgrType, NamesAreUnique
  <2>5. {iface'[j].name : j \in live'} = {n \in AllNames : loop'[n] # NULL} \ orphans'
    BY <1>1, <1>8, <2>2, <2>3
  <2> QED BY <2>1, <2>4, <2>5 DEF NamesAreUnique
<1>11. CallbacksFindInterface'
  <2>1. \A j \in live : loop'[iface'[j].name] = loop[iface[j].name]
    BY <1>2, <1>5, <1>7, <1>9, IfaceParts
  <2> QED BY <1>1, <1>4, <1>5, <2>1 DEF MgrInv, CallbacksFindInterface
<1>12. ManagedHasNoPartner' /\ RoutedHasNoPending'
  BY <1>1, <1>4, <1>7 DEF MgrInv, ManagedHasNoPartner, RoutedHasNoPending
<1>13. RoutesAreMutual'
  BY <1>1, <1>4, <1>7 DEF MgrInv, RoutesAreMutual
<1>14. MemoryIsSafe'
  BY <1>1, SafeKept DEF MgrInv
<1> QED BY <1>6, <1>10, <1>11, <1>12, <1>13, <1>14 DEF MgrInv

\* An open that is undone touches no interface, except one that a replaced route
\* has left with the address that is freed again.
LEMMA UndoneEffect ==
  ASSUME MgrType, NEW name \in AllNames, NEW managed \in BOOLEAN, NEW i \in Addrs,
         i \notin live, iface' = OpenUndone(name, managed, i)
  PROVE  /\ iface' \in [AllAddrs -> Interface]
         /\ \A j \in live : /\ iface'[j].name = iface[j].name
                            /\ iface'[j].managed = iface[j].managed
                            /\ iface'[j].pending = iface[j].pending
                            /\ \/ iface'[j].partner = iface[j].partner
                               \/ iface'[j].partner = NULL /\ iface[j].partner = i
<1>1. /\ i \in AllAddrs /\ live \subseteq AllAddrs /\ iface \in [AllAddrs -> Interface]
  BY DEF MgrType, AllAddrs
<1>2. PICK f \in [AllAddrs -> Interface] :
        /\ f = [iface EXCEPT ![i] = NewIface(name, managed)]
        /\ f[i].partner = NULL
        /\ \A j \in live : f[j] = iface[j]
  <2>1. PICK x \in Interface : x = NewIface(name, managed) /\ x.partner = NULL
    BY NewIfaceType
  <2>2. [iface EXCEPT ![i] = x] \in [AllAddrs -> Interface]
    BY <1>1
  <2>3. [iface EXCEPT ![i] = x][i] = x
    BY <1>1
  <2>4. \A j \in live : [iface EXCEPT ![i] = x][j] = iface[j]
    BY <1>1
  <2> QED BY <2>1, <2>2, <2>3, <2>4
<1>3. PICK g \in [AllAddrs -> Interface] :
        /\ g = Forget(f, i)
        /\ \A j \in AllAddrs :
             /\ g[j].name = f[j].name /\ g[j].managed = f[j].managed
             /\ g[j].pending = f[j].pending
             /\ g[j].partner = IF Cleared(f, i, j) THEN NULL ELSE f[j].partner
  BY <1>1, ForgetEffect
<1>4. iface' = [g EXCEPT ![i] = Garbage]
  BY <1>2, <1>3 DEF OpenUndone
<1>5. iface' \in [AllAddrs -> Interface] /\ \A j \in live : iface'[j] = g[j]
  BY <1>1, <1>4, GarbageType
<1>6. \A j \in live : Cleared(f, i, j) => iface[j].partner = i
  BY <1>2 DEF Cleared
<1>7. ASSUME NEW j \in live
      PROVE  /\ iface'[j].name = iface[j].name
             /\ iface'[j].managed = iface[j].managed
             /\ iface'[j].pending = iface[j].pending
             /\ \/ iface'[j].partner = iface[j].partner
                \/ iface'[j].partner = NULL /\ iface[j].partner = i
  <2>1. j \in AllAddrs /\ iface'[j] = g[j] /\ f[j] = iface[j]
    BY <1>1, <1>2, <1>5
  <2>2. /\ g[j].name = iface[j].name /\ g[j].managed = iface[j].managed
        /\ g[j].pending = iface[j].pending
        /\ g[j].partner = IF Cleared(f, i, j) THEN NULL ELSE iface[j].partner
    BY <1>3, <2>1
  <2>3. CASE Cleared(f, i, j)
    BY <1>6, <2>1, <2>2, <2>3
  <2>4. CASE ~Cleared(f, i, j)
    BY <2>1, <2>2, <2>4
  <2> QED BY <2>3, <2>4
<1> QED BY <1>5, <1>7

LEMMA UndoneStep ==
  ASSUME MgrInv, NEW name \in AllNames, NEW managed \in BOOLEAN, NEW i \in Addrs,
         \/ CmdOpenFails(name, managed, i) \/ CmdOpenDuplicate(name, managed, i)
         \/ CmdOpenUnstored(name, managed, i) /\ UNCHANGED status
  PROVE  MgrInv'
<1>1. /\ i \notin live /\ iface' = OpenUndone(name, managed, i)
      /\ UNCHANGED <<live, count, status>> /\ MgrType
      /\ \/ loop' = loop /\ UNCHANGED <<orphans, incidents>>
         \/ /\ loop' = [loop EXCEPT ![name] = i] /\ loop[name] # NULL
            /\ incidents' = incidents \cup {"duplicate"} /\ UNCHANGED orphans
         \/ /\ loop' = [loop EXCEPT ![name] = i] /\ loop[name] = NULL
            /\ incidents' = incidents \cup {"unstored"}
            /\ orphans' = orphans \cup {name}
  BY DEF CmdOpenFails, CmdOpenDuplicate, CmdOpenUnstored, Command, MgrInv
<1>2. /\ i \in AllAddrs /\ NULL \notin AllAddrs /\ live \subseteq AllAddrs
      /\ loop \in [AllNames -> AllAddrs \cup {NULL}] /\ incidents \subseteq incidents'
  BY <1>1, NullIsNoAddress DEF MgrType, AllAddrs
<1>3. /\ iface' \in [AllAddrs -> Interface]
      /\ \A j \in live : /\ iface'[j].name = iface[j].name
                         /\ iface'[j].managed = iface[j].managed
                         /\ iface'[j].pending = iface[j].pending
                         /\ \/ iface'[j].partner = iface[j].partner
                            \/ iface'[j].partner = NULL /\ iface[j].partner = i
  BY <1>1, UndoneEffect
<1>4. /\ loop' \in [AllNames -> AllAddrs \cup {NULL}] /\ orphans' \in SUBSET AllNames
      /\ \A n \in AllNames : n = name \/ loop'[n] = loop[n]
  BY <1>1, <1>2 DEF MgrType
<1>5. MgrType'
  BY <1>1, <1>3, <1>4 DEF MgrType
<1>6. NamesAreUnique' /\ CallbacksFindInterface'
  <2>1. CASE loop' = loop /\ UNCHANGED <<orphans, incidents>>
    BY <1>1, <1>2, <1>3, <2>1, NamesKept, CallbacksKept DEF MgrInv
  <2>2. CASE /\ loop' = [loop EXCEPT ![name] = i] /\ loop[name] # NULL
             /\ incidents' = incidents \cup {"duplicate"} /\ UNCHANGED orphans
    <3>1. \A n \in AllNames : loop'[n] = NULL <=> loop[n] = NULL
      BY <1>2, <2>2
    <3>2. NamesAreUnique'
      BY <1>1, <1>2, <1>3, <2>2, <3>1, NamesKept DEF MgrInv
    <3> QED BY <2>2, <3>2 DEF CallbacksFindInterface
  <2>3. CASE /\ loop' = [loop EXCEPT ![name] = i] /\ loop[name] = NULL
             /\ incidents' = incidents \cup {"unstored"}
             /\ orphans' = orphans \cup {name}
    <3>1. /\ \A j, k \in live : iface[j].name = iface[k].name => j = k
          /\ {iface[j].name : j \in live} = {n \in AllNames : loop[n] # NULL} \ orphans
          /\ \A n \in orphans : n \in AllNames /\ loop[n] # NULL
      BY DEF MgrInv, MgrType, NamesAreUnique
    <3>2. {iface'[j].name : j \in live'} = {iface[j].name : j \in live}
      BY <1>1, <1>3
    <3>3. {n \in AllNames : loop'[n] # NULL} \ orphans'
            = {n \in AllNames : loop[n] # NULL} \ orphans
      BY <1>2, <1>4, <2>3
    <3>4. \A n \in orphans' : loop'[n] # NULL /\ "unstored" \in incidents'
      BY <1>2, <1>4, <2>3, <3>1
    <3>5. \A j, k \in live' : iface'[j].name = iface'[k].name => j = k
      BY <1>1, <1>3, <3>1
    <3>6. NamesAreUnique'
      BY <3>1, <3>2, <3>3, <3>4, <3>5 DEF NamesAreUnique
    <3>7. \A j \in live : iface[j].name \in AllNames /\ iface[j].name # name
      BY <2>3, <3>1
    <3>8. \A j \in live : loop'[iface'[j].name] = loop[iface[j].name]
      BY <1>3, <1>4, <3>7
    <3>9. CallbacksFindInterface'
      BY <1>1, <1>2, <3>8 DEF MgrInv, CallbacksFindInterface
    <3> QED BY <3>6, <3>9
  <2> QED BY <1>1, <2>1, <2>2, <2>3
<1>7. ManagedHasNoPartner' /\ RoutedHasNoPending'
  BY <1>1, <1>2, <1>3 DEF MgrInv, ManagedHasNoPartner, RoutedHasNoPending
<1>8. RoutesAreMutual'
  <2> SUFFICES ASSUME "reroute" \notin incidents PROVE RoutesAreMutual'
    BY <1>2 DEF RoutesAreMutual
  <2>1. \A j \in live : iface[j].partner # i
    BY <1>1, <1>2 DEF MgrInv, RoutesAreMutual
  <2>2. \A j \in live : iface'[j].partner = iface[j].partner
    BY <1>3, <2>1
  <2> QED BY <1>1, <1>3, <2>2 DEF MgrInv, RoutesAreMutual
<1>9. MemoryIsSafe'
  BY <1>1, <1>2, SafeKept DEF MgrInv
<1> QED BY <1>5, <1>6, <1>7, <1>8, <1>9 DEF MgrInv

\* An open whose loopback endpoint has no table entry.
LEMMA CmdOpenUnstoredStep ==
  ASSUME MgrInv, NEW name \in Names, NEW managed \in BOOLEAN, NEW i \in Addrs,
         CmdOpenUnstored(name, managed, i)
  PROVE  MgrInv'
<1>1. CASE UNCHANGED <<iface, loop, orphans>>
  <2>1. /\ UNCHANGED <<live, count>> /\ incidents \subseteq incidents'
        /\ "unstored" \in incidents'
    BY DEF CmdOpenUnstored
  <2> QED BY <1>1, <2>1, UndefinedStep DEF MgrInv, MgrType
<1>2. CASE UNCHANGED status
  BY <1>2, UndoneStep DEF AllNames
<1> QED BY <1>1, <1>2 DEF CmdOpenUnstored

LEMMA CmdOpenReusesIdStep ==
  ASSUME MgrInv, CmdOpenReusesId
  PROVE  MgrInv'
<1>1. /\ UNCHANGED <<live, iface, loop, orphans, count>> /\ incidents \subseteq incidents'
      /\ "idreused" \in incidents'
  BY DEF CmdOpenReusesId
<1> QED BY <1>1, UndefinedStep DEF MgrInv, MgrType

-----------------------------------------------------------------------------
(* The pending queues: do_rtecmd_cat and do_rtecmd_route *)

\* The queue without its first k messages.
LEMMA FlushedEffect ==
  ASSUME MgrType, NEW i \in AllAddrs, NEW k \in FlushLengths(i)
  PROVE  /\ k \in 0 .. Len(iface[i].pending)
         /\ Flushed(i, k) \in Interface /\ Flushed(i, k).name = iface[i].name
         /\ Flushed(i, k).managed = iface[i].managed
         /\ Flushed(i, k).partner = iface[i].partner
         /\ k = Len(iface[i].pending) => Flushed(i, k).pending = <<>>
<1>1. PICK s \in Seq(Message) : s = iface[i].pending
  BY IfaceParts
<1>2. iface[i] \in Interface /\ Len(s) \in Nat
  BY <1>1, IfaceParts
<1>3. k \in 0 .. Len(s)
  BY <1>1, <1>2 DEF FlushLengths
<1>4. PICK q \in Seq(Message) : q = SubSeq(s, k + 1, Len(s))
  <2>1. \A j \in k + 1 .. Len(s) : j \in 1 .. Len(s)
    BY <1>2, <1>3
  <2>2. SubSeq(s, k + 1, Len(s)) \in Seq(Message)
    BY <1>2, <1>3, <2>1, SubSeqProperties
  <2> QED BY <2>2
<1>5. k = Len(s) => q = <<>>
  BY <1>2, <1>4, SubSeqEmpty
<1>6. Flushed(i, k) = [iface[i] EXCEPT !.pending = q]
  BY <1>1, <1>4 DEF Flushed
<1> QED BY <1>1, <1>2, <1>3, <1>5, <1>6, WithPending

LEMMA CmdCatStep ==
  ASSUME MgrInv, NEW name \in AllNames, CmdCat(name)
  PROVE  MgrInv'
<1>1. PICK i \in live : /\ iface[i].partner = NULL
                        /\ \E k \in FlushLengths(i) :
                             iface' = [iface EXCEPT ![i] = Flushed(i, k)]
  BY LookupFinds DEF CmdCat
<1>2. PICK k \in FlushLengths(i) : iface' = [iface EXCEPT ![i] = Flushed(i, k)]
  BY <1>1
<1>3. UNCHANGED <<live, loop, orphans, count, status>> /\ incidents \subseteq incidents' /\ MgrType
  BY DEF CmdCat, MgrInv
<1>4. i \in AllAddrs /\ live \subseteq AllAddrs /\ iface \in [AllAddrs -> Interface]
  BY <1>3 DEF MgrType
<1>5. PICK x \in Interface : /\ x = Flushed(i, k) /\ x.name = iface[i].name
                             /\ x.managed = iface[i].managed
                             /\ x.partner = iface[i].partner
  BY <1>3, <1>4, FlushedEffect
<1>6. /\ iface' \in [AllAddrs -> Interface]
      /\ \A j \in AllAddrs : /\ iface'[j].name = iface[j].name
                             /\ iface'[j].managed = iface[j].managed
                             /\ iface'[j].partner = iface[j].partner
                             /\ j # i => iface'[j] = iface[j]
  BY <1>2, <1>4, <1>5
<1>7. MgrType'
  BY <1>3, <1>6 DEF MgrType
<1>8. NamesAreUnique' /\ CallbacksFindInterface' /\ MemoryIsSafe'
  BY <1>3, <1>4, <1>6, NamesKept, CallbacksKept, SafeKept DEF MgrInv
<1>9. ManagedHasNoPartner' /\ RoutesAreMutual'
  BY <1>3, <1>4, <1>6 DEF MgrInv, ManagedHasNoPartner, RoutesAreMutual
<1>10. RoutedHasNoPending'
  BY <1>1, <1>3, <1>4, <1>6 DEF MgrInv, RoutedHasNoPending
<1> QED BY <1>7, <1>8, <1>9, <1>10 DEF MgrInv

\* One side of a new route.
LEMMA RoutedEffect ==
  ASSUME MgrType, NEW i \in AllAddrs, NEW p \in AllAddrs, NEW k \in FlushLengths(i)
  PROVE  /\ Routed(i, p, k) \in Interface /\ Routed(i, p, k).name = iface[i].name
         /\ Routed(i, p, k).managed = iface[i].managed
         /\ iface[i].managed => Routed(i, p, k) = iface[i]
         /\ ~iface[i].managed =>
              /\ Routed(i, p, k).partner = p
              /\ k = Len(iface[i].pending) => Routed(i, p, k).pending = <<>>
<1>1. CASE iface[i].managed
  BY <1>1, IfaceParts DEF Routed
<1>2. CASE ~iface[i].managed
  <2>1. PICK x \in Interface : /\ x = Flushed(i, k) /\ x.name = iface[i].name
                               /\ x.managed = iface[i].managed
                               /\ k = Len(iface[i].pending) => x.pending = <<>>
    BY FlushedEffect
  <2> DEFINE y == [x EXCEPT !.partner = p]
  <2>2. /\ y \in Interface /\ y.name = x.name /\ y.managed = x.managed
        /\ y.pending = x.pending /\ y.partner = p
    BY WithPartner
  <2>3. Routed(i, p, k) = y
    BY <1>2, <2>1 DEF Routed
  <2> HIDE DEF y
  <2> QED BY <1>2, <2>1, <2>2, <2>3
<1> QED BY <1>1, <1>2

LEMMA CmdRouteStep ==
  ASSUME MgrInv, NEW lname \in AllNames, NEW rname \in AllNames, CmdRoute(lname, rname)
  PROVE  MgrInv'
<1>1. PICK l \in live, r \in live :
        /\ l # r /\ (~iface[l].managed \/ ~iface[r].managed)
        /\ \E kl \in FlushLengths(l), kr \in FlushLengths(r) :
             /\ iface' = [iface EXCEPT ![l] = Routed(l, r, kl), ![r] = Routed(r, l, kr)]
             /\ incidents' = incidents
                  \cup (IF Reroutes(l, r) \/ Reroutes(r, l) THEN {"reroute"} ELSE {})
                  \cup (IF \/ kl < Len(iface[l].pending)
                           \/ kr < Len(iface[r].pending) THEN {"nomem"} ELSE {})
  BY LookupFinds DEF CmdRoute
<1>2. PICK kl \in FlushLengths(l), kr \in FlushLengths(r) :
        /\ iface' = [iface EXCEPT ![l] = Routed(l, r, kl), ![r] = Routed(r, l, kr)]
        /\ incidents' = incidents
             \cup (IF Reroutes(l, r) \/ Reroutes(r, l) THEN {"reroute"} ELSE {})
             \cup (IF \/ kl < Len(iface[l].pending)
                      \/ kr < Len(iface[r].pending) THEN {"nomem"} ELSE {})
  BY <1>1
<1>3. UNCHANGED <<live, loop, orphans, count, status>> /\ MgrType
  BY DEF CmdRoute, MgrInv
<1>4. /\ l \in AllAddrs /\ r \in AllAddrs /\ live \subseteq AllAddrs
      /\ iface \in [AllAddrs -> Interface] /\ NULL \notin AllAddrs
  BY <1>3, NullIsNoAddress DEF MgrType
<1>5. /\ incidents \subseteq incidents'
      /\ "reroute" \notin incidents' => ~Reroutes(l, r) /\ ~Reroutes(r, l)
      /\ "nomem" \notin incidents' => ~(kl < Len(iface[l].pending))
                                      /\ ~(kr < Len(iface[r].pending))
  BY <1>2
<1>6. "nomem" \notin incidents' => kl = Len(iface[l].pending) /\ kr = Len(iface[r].pending)
  <2>1. kl \in 0 .. Len(iface[l].pending) /\ kr \in 0 .. Len(iface[r].pending)
    BY <1>3, <1>4, FlushedEffect
  <2>2. Len(iface[l].pending) \in Nat /\ Len(iface[r].pending) \in Nat
    BY <1>3, <1>4, IfaceParts
  <2> QED BY <1>5, <2>1, <2>2
<1>7. PICK L \in Interface :
        /\ L = Routed(l, r, kl) /\ L.name = iface[l].name /\ L.managed = iface[l].managed
        /\ iface[l].managed => L = iface[l]
        /\ ~iface[l].managed =>
             /\ L.partner = r /\ (kl = Len(iface[l].pending) => L.pending = <<>>)
  BY <1>3, <1>4, RoutedEffect
<1>8. PICK R \in Interface :
        /\ R = Routed(r, l, kr) /\ R.name = iface[r].name /\ R.managed = iface[r].managed
        /\ iface[r].managed => R = iface[r]
        /\ ~iface[r].managed =>
             /\ R.partner = l /\ (kr = Len(iface[r].pending) => R.pending = <<>>)
  BY <1>3, <1>4, RoutedEffect
<1>9. /\ iface' \in [AllAddrs -> Interface] /\ iface'[l] = L /\ iface'[r] = R
      /\ \A j \in AllAddrs \ {l, r} : iface'[j] = iface[j]
  BY <1>1, <1>2, <1>4, <1>7, <1>8
<1>10. \A j \in live : /\ iface'[j].name = iface[j].name
                       /\ iface'[j].managed = iface[j].managed
  BY <1>4, <1>7, <1>8, <1>9
<1>11. MgrType'
  BY <1>3, <1>9 DEF MgrType
<1>12. NamesAreUnique' /\ CallbacksFindInterface' /\ MemoryIsSafe'
  BY <1>3, <1>5, <1>10, NamesKept, CallbacksKept, SafeKept DEF MgrInv
<1>13. ManagedHasNoPartner'
  BY <1>3, <1>4, <1>7, <1>8, <1>9, <1>10 DEF MgrInv, ManagedHasNoPartner
<1>14. RoutedHasNoPending'
  <2> SUFFICES ASSUME "nomem" \notin incidents', NEW j \in live, iface'[j].partner # NULL
               PROVE  iface'[j].pending = <<>>
    BY <1>3 DEF RoutedHasNoPending
  <2>1. "nomem" \notin incidents
    BY <1>5
  <2>2. iface[j].partner # NULL => iface[j].pending = <<>>
    BY <2>1 DEF MgrInv, RoutedHasNoPending
  <2>3. iface[j].managed => iface[j].partner = NULL
    BY DEF MgrInv, ManagedHasNoPartner
  <2>4. CASE j = l
    BY <1>6, <1>7, <1>9, <2>2, <2>4
  <2>5. CASE j = r
    BY <1>6, <1>8, <1>9, <2>2, <2>5
  <2>6. CASE j \notin {l, r}
    BY <1>4, <1>9, <2>2, <2>6
  <2> QED BY <2>4, <2>5, <2>6
<1>15. RoutesAreMutual'
  <2> SUFFICES ASSUME "reroute" \notin incidents', NEW j \in live, iface'[j].partner # NULL
               PROVE  /\ iface'[j].partner \in live \ {j}
                      /\ ~iface'[iface'[j].partner].managed
                           => iface'[iface'[j].partner].partner = j
    BY <1>3 DEF RoutesAreMutual
  <2>1. "reroute" \notin incidents /\ ~Reroutes(l, r) /\ ~Reroutes(r, l)
    BY <1>5
  <2>2. ASSUME NEW i \in live, iface[i].partner # NULL
        PROVE  /\ iface[i].partner \in live \ {i}
               /\ ~iface[iface[i].partner].managed => iface[iface[i].partner].partner = i
    BY <2>1, <2>2 DEF MgrInv, RoutesAreMutual
  <2>3. \A i \in live : iface[i].managed => iface[i].partner = NULL
    BY DEF MgrInv, ManagedHasNoPartner
  <2>4. CASE j = l
    <3>1. ~iface[l].managed /\ iface'[l].partner = r
      BY <1>7, <1>9, <2>3, <2>4
    <3> QED BY <1>1, <1>8, <1>9, <2>4, <3>1
  <2>5. CASE j = r
    <3>1. ~iface[r].managed /\ iface'[r].partner = l
      BY <1>8, <1>9, <2>3, <2>5
    <3> QED BY <1>1, <1>7, <1>9, <2>5, <3>1
  <2>6. CASE j \notin {l, r}
    <3>1. iface'[j] = iface[j] /\ iface[j].partner # NULL /\ ~iface[j].managed
      BY <1>4, <1>9, <2>3, <2>6
    <3>2. PICK q \in live : /\ q = iface[j].partner /\ q # j
                            /\ ~iface[q].managed => iface[q].partner = j
      BY <2>2, <3>1
    <3>3. ASSUME ~iface[q].managed PROVE q \notin {l, r}
      <4>1. iface[q].partner = j /\ j # NULL
        BY <1>4, <3>2, <3>3
      <4>2. q = l => Reroutes(l, r)
        BY <2>6, <3>1, <3>3, <4>1 DEF Reroutes
      <4>3. q = r => Reroutes(r, l)
        BY <2>6, <3>1, <3>3, <4>1 DEF Reroutes
      <4> QED BY <2>1, <4>2, <4>3
    <3>4. ~iface'[q].managed => iface'[q].partner = j
      BY <1>4, <1>9, <1>10, <3>2, <3>3
    <3> QED BY <3>1, <3>2, <3>4
  <2> QED BY <2>4, <2>5, <2>6
<1> QED BY <1>11, <1>12, <1>13, <1>14, <1>15 DEF MgrInv

-----------------------------------------------------------------------------
(* The theorems *)

LEMMA MgrInvInit == Init => MgrInv
<1> SUFFICES ASSUME Init PROVE MgrInv
  OBVIOUS
<1>1. Ctl \in AllNames /\ CtlAddr \in AllAddrs /\ TRUE \in BOOLEAN
  BY Zenon DEF AllNames, AllAddrs
<1>2. PICK x \in Interface : /\ x = NewIface(Ctl, TRUE) /\ x.name = Ctl
                             /\ x.partner = NULL /\ x.pending = <<>>
  BY <1>1, NewIfaceType
<1>3. iface = [i \in AllAddrs |-> x] /\ live = {CtlAddr}
  BY <1>2 DEF Init
<1>4. iface[CtlAddr] = x
  BY <1>1, <1>3
<1>5. /\ loop \in [AllNames -> AllAddrs \cup {NULL}] /\ loop[Ctl] = CtlAddr
      /\ \A n \in AllNames \ {Ctl} : loop[n] = NULL
  BY <1>1 DEF Init
<1>6. MgrType
  <2>1. iface \in [AllAddrs -> Interface]
    BY <1>3
  <2>2. count \in 0 .. MaxMsgs
    BY DEF Init
  <2>3. live \in SUBSET AllAddrs /\ orphans = {}
    BY <1>1, <1>3 DEF Init
  <2> QED BY <1>5, <2>1, <2>2, <2>3 DEF MgrType
<1>7. NamesAreUnique
  <2>1. CtlAddr # NULL
    OBVIOUS
  <2>2. {n \in AllNames : loop[n] # NULL} = {Ctl} /\ orphans = {}
    BY <1>1, <1>5, <2>1 DEF Init
  <2>3. {iface[i].name : i \in live} = {Ctl}
    BY <1>2, <1>3, <1>4
  <2> QED BY <1>3, <2>2, <2>3 DEF NamesAreUnique
<1>8. CallbacksFindInterface
  BY <1>2, <1>3, <1>4, <1>5 DEF CallbacksFindInterface
<1>9. ManagedHasNoPartner /\ RoutesAreMutual /\ RoutedHasNoPending
  BY <1>2, <1>3, <1>4 DEF ManagedHasNoPartner, RoutesAreMutual, RoutedHasNoPending
<1> QED BY <1>6, <1>7, <1>8, <1>9 DEF MgrInv, MemoryIsSafe, Init

LEMMA MgrInvNext == MgrInv /\ [Next]_vars => MgrInv'
<1> SUFFICES ASSUME MgrInv, [Next]_vars PROVE MgrInv'
  OBVIOUS
<1>1. CASE UNCHANGED vars
  BY <1>1, QuietStep DEF vars, MgrInv, MgrType
<1>2. CASE \E name \in AllNames : Managed(name)
  BY <1>2, ManagedStep
<1>3. CASE \E name \in Names : \/ RawPending(name) \/ RawRouted(name)
                               \/ HandlerUsesFreed(name)
  BY <1>3, RawPendingStep, RawRoutedStep, HandlerUsesFreedStep
<1>4. CASE \E name \in Names, managed \in BOOLEAN, i \in Addrs : CmdOpen(name, managed, i)
  BY <1>4, CmdOpenStep
<1>5. CASE \E name \in AllNames, managed \in BOOLEAN, i \in Addrs :
             CmdOpenFails(name, managed, i) \/ CmdOpenDuplicate(name, managed, i)
  BY <1>5, UndoneStep
<1>6. CASE \E name \in AllNames : CmdClose(name) \/ CmdForget(name) \/ CmdCat(name)
  BY <1>6, CmdCloseStep, CmdForgetStep, CmdCatStep
<1>7. CASE \E l, r \in AllNames : CmdRoute(l, r)
  BY <1>7, CmdRouteStep
<1>8. CASE CommandUsesFreed
  BY <1>8, CommandUsesFreedStep
<1>9. CASE \E name \in Names, managed \in BOOLEAN, i \in Addrs :
             CmdOpenUnstored(name, managed, i)
  BY <1>9, CmdOpenUnstoredStep
<1>10. CASE CmdOpenReusesId
  BY <1>10, CmdOpenReusesIdStep
<1> QED BY <1>1, <1>2, <1>3, <1>4, <1>5, <1>6, <1>7, <1>8, <1>9, <1>10, Zenon DEF Next

LEMMA MgrInvariant == Spec => []MgrInv
BY MgrInvInit, MgrInvNext, PTL DEF Spec

\* A name of a command means one interface; the loopback endpoints are those of
\* the interfaces and, once a table entry could not be allocated, those such opens
\* left behind; and as long as no open has reused a name the data of a device
\* reaches the interface that was opened for it.
THEOREM InterfacesCorrect == Spec => []InterfacesAreFound
<1>1. MgrInv => InterfacesAreFound
  BY DEF MgrInv, InterfacesAreFound
<1> QED BY <1>1, MgrInvariant, PTL

\* The routes that route, forget, close and failed opens leave behind: a managed
\* interface has no partner; without a replaced route partners exist and routes
\* are mutual; without a lack of memory a routed interface has nothing pending.
THEOREM RoutesCorrect == Spec => []RoutesAreSound
<1>1. MgrInv => RoutesAreSound
  BY DEF MgrInv, RoutesAreSound
<1> QED BY <1>1, MgrInvariant, PTL

\* In the first generation of endpoint ids, only a replaced route, a reused name,
\* the end of the control interface or a table entry that could not be allocated
\* makes the daemon use freed memory: no other sequence of commands and messages,
\* failed opens and failed allocations of messages included.
THEOREM DaemonMemoryCorrect == Spec => []MemoryIsSafe
<1>1. MgrInv => MemoryIsSafe
  BY DEF MgrInv
<1> QED BY <1>1, MgrInvariant, PTL


-----------------------------------------------------------------------------
(* Where the messages are *)

\* Of the interfaces L with the pending queues p, of what the destinations got o
\* and of the dropped messages x: every number from 1 to c is at one place, and
\* no other number is at any.
Numbered(L, p, o, x, c) ==
  /\ \A n \in AllNames : \A j \in 1 .. Len(o[n]) : o[n][j].n \in 1 .. c
  /\ \A i \in L : \A j \in 1 .. Len(p[i]) : p[i][j].n \in 1 .. c
  /\ \A m \in x : m.n \in 1 .. c

OnceOut(o) ==
  \A n, s \in AllNames : \A j \in 1 .. Len(o[n]), k \in 1 .. Len(o[s]) :
    o[n][j].n = o[s][k].n => n = s /\ j = k

OncePending(L, p) ==
  \A i, s \in L : \A j \in 1 .. Len(p[i]), k \in 1 .. Len(p[s]) :
    p[i][j].n = p[s][k].n => i = s /\ j = k

OnceLost(x) == \A m, s \in x : m.n = s.n => m = s

Apart(L, p, o, x) ==
  /\ \A n \in AllNames, i \in L : \A j \in 1 .. Len(o[n]), k \in 1 .. Len(p[i]) :
       o[n][j].n # p[i][k].n
  /\ \A n \in AllNames, m \in x : \A j \in 1 .. Len(o[n]) : o[n][j].n # m.n
  /\ \A i \in L, m \in x : \A j \in 1 .. Len(p[i]) : p[i][j].n # m.n

\* The number k is somewhere.
Somewhere(L, p, o, x, k) ==
  \/ \E n \in AllNames : \E j \in 1 .. Len(o[n]) : o[n][j].n = k
  \/ \E i \in L : \E j \in 1 .. Len(p[i]) : p[i][j].n = k
  \/ \E m \in x : m.n = k

Kept(L, p, o, x, c) ==
  /\ Numbered(L, p, o, x, c)
  /\ OnceOut(o) /\ OncePending(L, p) /\ OnceLost(x) /\ Apart(L, p, o, x)
  /\ \A k \in 1 .. c : Somewhere(L, p, o, x, k)

\* The order of the messages of one source.  The queue of an interface holds
\* messages of its own name nm[i] only, and no two queues with messages have the
\* same name: so what one queue hands over cannot overtake what is in another.
Ordered(L, p, o, nm) ==
  /\ \A n \in AllNames : \A j, k \in 1 .. Len(o[n]) :
       j < k /\ o[n][j].src = o[n][k].src => o[n][j].n < o[n][k].n
  /\ \A i \in L : \A j, k \in 1 .. Len(p[i]) : j < k => p[i][j].n < p[i][k].n
  /\ \A i \in L, n \in AllNames : \A j \in 1 .. Len(o[n]), k \in 1 .. Len(p[i]) :
       o[n][j].src = p[i][k].src => o[n][j].n < p[i][k].n
  /\ \A i \in L : \A k \in 1 .. Len(p[i]) : p[i][k].src = nm[i]
  /\ \A i, j \in L : nm[i] = nm[j] /\ Len(p[i]) > 0 /\ Len(p[j]) > 0 => i = j

Pend == [i \in live |-> iface[i].pending]
NameOf == [i \in live |-> iface[i].name]

\* The invariant of the messages.  The control interface is managed, and managed
\* interfaces have no pending messages.
MsgInv ==
  /\ out \in [AllNames -> Seq(Message)] /\ lost \in SUBSET Message
  /\ \A i \in live : iface[i].name = Ctl => iface[i].managed
  /\ \A i \in live : iface[i].managed => iface[i].pending = <<>>
  /\ Kept(live, Pend, out, lost, count)
  /\ incidents \cap {"nomem", "duplicate"} = {} => Ordered(live, Pend, out, NameOf)

-----------------------------------------------------------------------------
(* Messages move from the front of a queue *)

\* A choice of positions is an increasing function on 1 .. m.
LEMMA ChoiceShape ==
  ASSUME NEW k \in Nat, NEW f \in Choices(k)
  PROVE  \E m \in 0 .. k : /\ DOMAIN f = 1 .. m /\ f \in [1 .. m -> 1 .. k]
                           /\ \A a, b \in 1 .. m : a < b => f[a] < f[b]
<1>1. PICK m \in 0 .. k : /\ f \in [1 .. m -> 1 .. k]
                          /\ \A a, b \in 1 .. m : a < b => f[a] < f[b]
  BY DEF Choices
<1> QED BY <1>1

\* All positions, and none of them, are choices.
LEMMA AllChosen ==
  ASSUME NEW k \in Nat
  PROVE  [a \in 1 .. k |-> a] \in Choices(k)
<1> DEFINE f == [a \in 1 .. k |-> a]
<1>1. f \in [1 .. k -> 1 .. k] /\ \A a, b \in 1 .. k : a < b => f[a] < f[b]
  OBVIOUS
<1>2. k \in 0 .. k
  OBVIOUS
<1> HIDE DEF f
<1> QED BY <1>1, <1>2 DEF Choices, f

LEMMA NoneChosen ==
  ASSUME NEW k \in Nat
  PROVE  [a \in 1 .. 0 |-> a] \in Choices(k)
<1> DEFINE f == [a \in 1 .. 0 |-> a]
<1>1. f \in [1 .. 0 -> 1 .. k] /\ \A a, b \in 1 .. 0 : a < b => f[a] < f[b]
  OBVIOUS
<1>2. 0 \in 0 .. k
  OBVIOUS
<1> HIDE DEF f
<1> QED BY <1>1, <1>2 DEF Choices, f

\* The first k messages of the queue of i leave: the chosen ones go to n in their
\* order, and the others are dropped.
Moved(p, o, x, p2, o2, x2, i, n, k, f) ==
  /\ p2 = [p EXCEPT ![i] = SubSeq(@, k + 1, Len(@))]
  /\ o2 = [o EXCEPT ![n] = @ \o [a \in DOMAIN f |-> p[i][f[a]]]]
  /\ x2 = x \cup {p[i][b] : b \in {y \in 1 .. k : \A a \in DOMAIN f : f[a] # y}}

\* The same position by position: m messages are chosen.
WasAt(L, p, o, x, p2, o2, x2, i, n, k, f, m) ==
  /\ DOMAIN f = 1 .. m /\ f \in [1 .. m -> 1 .. k]
  /\ \A a, b \in 1 .. m : a < b => f[a] < f[b]
  /\ p2 \in [L -> Seq(Message)] /\ o2 \in [AllNames -> Seq(Message)]
  /\ x2 \in SUBSET Message
  /\ \A j \in L \ {i} : p2[j] = p[j]
  /\ Len(p2[i]) = Len(p[i]) - k
  /\ \A q \in 1 .. Len(p2[i]) : p2[i][q] = p[i][q + k]
  /\ \A s \in AllNames \ {n} : o2[s] = o[s]
  /\ Len(o2[n]) = Len(o[n]) + m
  /\ \A j \in 1 .. Len(o[n]) : o2[n][j] = o[n][j]
  /\ \A a \in 1 .. m : o2[n][Len(o[n]) + a] = p[i][f[a]]
  /\ x2 = x \cup {p[i][b] : b \in {y \in 1 .. k : \A a \in 1 .. m : f[a] # y}}

LEMMA MovedEffect ==
  ASSUME NEW L, NEW p \in [L -> Seq(Message)], NEW o \in [AllNames -> Seq(Message)],
         NEW x \in SUBSET Message, NEW i \in L, NEW n \in AllNames,
         NEW k \in 0 .. Len(p[i]), NEW f \in Choices(k), NEW p2, NEW o2, NEW x2,
         Moved(p, o, x, p2, o2, x2, i, n, k, f)
  PROVE  \E m \in 0 .. k : WasAt(L, p, o, x, p2, o2, x2, i, n, k, f, m)
<1>1. PICK s \in Seq(Message) : s = p[i]
  OBVIOUS
<1>2. Len(s) \in Nat /\ k \in Nat /\ k <= Len(s)
  BY <1>1
<1>3. PICK m \in 0 .. k : /\ DOMAIN f = 1 .. m /\ f \in [1 .. m -> 1 .. k]
                          /\ \A a, b \in 1 .. m : a < b => f[a] < f[b]
  BY <1>2, ChoiceShape
<1>4. PICK t \in Seq(Message) : /\ t = SubSeq(s, k + 1, Len(s))
                                /\ Len(t) = Len(s) - k
                                /\ \A q \in 1 .. Len(t) : t[q] = s[q + k]
  <2>1. \A j \in k + 1 .. Len(s) : j \in 1 .. Len(s)
    BY <1>2
  <2>2. SubSeq(s, k + 1, Len(s)) \in Seq(Message)
    BY <1>2, <2>1, SubSeqProperties
  <2>3. Len(SubSeq(s, k + 1, Len(s))) = Len(s) - k
    BY <1>2, <2>1, SubSeqProperties
  <2>4. \A q \in 1 .. Len(s) - k : SubSeq(s, k + 1, Len(s))[q] = s[q + k]
    BY <1>2, <2>1, SubSeqProperties
  <2> QED BY <2>2, <2>3, <2>4
<1>5. PICK u \in Seq(Message) : /\ u = [a \in DOMAIN f |-> p[i][f[a]]]
                                /\ Len(u) = m /\ \A a \in 1 .. m : u[a] = s[f[a]]
  <2>1. \A a \in 1 .. m : s[f[a]] \in Message
    <3>1. \A a \in 1 .. m : f[a] \in 1 .. Len(s)
      BY <1>2, <1>3
    <3> QED BY <3>1, ElementOfSeq
  <2>2. [a \in 1 .. m |-> s[f[a]]] \in [1 .. m -> Message]
    BY <2>1
  <2>3. [a \in 1 .. m |-> s[f[a]]] \in Seq(Message)
    BY <1>2, <1>3, <2>2
  <2>4. Len([a \in 1 .. m |-> s[f[a]]]) = m
    BY <1>2, <1>3
  <2> QED BY <1>1, <1>3, <2>3, <2>4
<1>6. /\ p2 = [p EXCEPT ![i] = t] /\ o2 = [o EXCEPT ![n] = o[n] \o u]
      /\ x2 = x \cup {s[b] : b \in {y \in 1 .. k : \A a \in 1 .. m : f[a] # y}}
  BY <1>1, <1>3, <1>4, <1>5 DEF Moved
<1>7. PICK v \in Seq(Message) :
        /\ v = o[n] \o u /\ Len(v) = Len(o[n]) + m
        /\ \A j \in 1 .. Len(o[n]) : v[j] = o[n][j]
        /\ \A a \in 1 .. m : v[Len(o[n]) + a] = u[a]
  <2>1. PICK w \in Seq(Message) : w = o[n]
    OBVIOUS
  <2>2. /\ w \o u \in Seq(Message) /\ Len(w \o u) = Len(w) + m
        /\ \A j \in 1 .. Len(w) : (w \o u)[j] = w[j]
        /\ \A a \in 1 .. m : (w \o u)[Len(w) + a] = u[a]
    BY <1>5
  <2> QED BY <2>1, <2>2
<1>8. x2 \in SUBSET Message
  <2>1. \A b \in 1 .. k : s[b] \in Message
    <3>1. \A b \in 1 .. k : b \in 1 .. Len(s)
      BY <1>2
    <3> QED BY <3>1, ElementOfSeq
  <2> QED BY <1>6, <2>1
<1>9. /\ p2 \in [L -> Seq(Message)] /\ p2[i] = t /\ \A j \in L \ {i} : p2[j] = p[j]
  BY <1>6
<1>10. /\ o2 \in [AllNames -> Seq(Message)] /\ o2[n] = v
       /\ \A j \in AllNames \ {n} : o2[j] = o[j]
  BY <1>6, <1>7
<1>11. /\ Len(p2[i]) = Len(p[i]) - k
       /\ \A q \in 1 .. Len(p2[i]) : p2[i][q] = p[i][q + k]
  BY <1>1, <1>4, <1>9
<1>12. /\ Len(o2[n]) = Len(o[n]) + m
       /\ \A j \in 1 .. Len(o[n]) : o2[n][j] = o[n][j]
       /\ \A a \in 1 .. m : o2[n][Len(o[n]) + a] = p[i][f[a]]
  BY <1>1, <1>5, <1>7, <1>10
<1>13. x2 = x \cup {p[i][b] : b \in {y \in 1 .. k : \A a \in 1 .. m : f[a] # y}}
  BY <1>1, <1>6, Zenon
<1>14. WasAt(L, p, o, x, p2, o2, x2, i, n, k, f, m)
  BY <1>3, <1>8, <1>9, <1>10, <1>11, <1>12, <1>13, Zenon DEF WasAt
<1> QED BY <1>14

\* A move keeps every message.
LEMMA MoveKeeps ==
  ASSUME NEW L, NEW p \in [L -> Seq(Message)], NEW o \in [AllNames -> Seq(Message)],
         NEW x \in SUBSET Message, NEW c \in Nat, Kept(L, p, o, x, c),
         NEW i \in L, NEW n \in AllNames,
         NEW k \in 0 .. Len(p[i]), NEW f \in Choices(k), NEW p2, NEW o2, NEW x2,
         Moved(p, o, x, p2, o2, x2, i, n, k, f)
  PROVE  Kept(L, p2, o2, x2, c)
<1>0. PICK m \in 0 .. k : WasAt(L, p, o, x, p2, o2, x2, i, n, k, f, m)
  BY MovedEffect
<1>1. /\ f \in [1 .. m -> 1 .. k] /\ \A a, b \in 1 .. m : a < b => f[a] < f[b]
      /\ p2 \in [L -> Seq(Message)] /\ o2 \in [AllNames -> Seq(Message)]
      /\ \A j \in L \ {i} : p2[j] = p[j]
      /\ Len(p2[i]) = Len(p[i]) - k
      /\ \A q \in 1 .. Len(p2[i]) : p2[i][q] = p[i][q + k]
      /\ \A s \in AllNames \ {n} : o2[s] = o[s]
      /\ Len(o2[n]) = Len(o[n]) + m
      /\ \A j \in 1 .. Len(o[n]) : o2[n][j] = o[n][j]
      /\ \A a \in 1 .. m : o2[n][Len(o[n]) + a] = p[i][f[a]]
      /\ x2 = x \cup {p[i][b] : b \in {y \in 1 .. k : \A a \in 1 .. m : f[a] # y}}
  BY <1>0, Zenon DEF WasAt
<1>2. /\ \A j \in L : Len(p[j]) \in Nat /\ Len(p2[j]) \in Nat
      /\ \A s \in AllNames : Len(o[s]) \in Nat /\ Len(o2[s]) \in Nat
      /\ k \in Nat /\ k <= Len(p[i]) /\ m \in Nat
  BY <1>1
\* Every position after the move has the message of a position before it.
<1>3. ASSUME NEW j \in L, NEW q \in 1 .. Len(p2[j])
      PROVE  \E r \in 1 .. Len(p[j]) : /\ p2[j][q] = p[j][r]
                                       /\ r = IF j = i THEN q + k ELSE q
  <2>1. CASE j = i
    <3>1. q + k \in 1 .. Len(p[i]) /\ p2[i][q] = p[i][q + k]
      BY <1>1, <1>2, <1>3, <2>1
    <3> QED BY <2>1, <3>1
  <2>2. CASE j # i
    BY <1>1, <1>3, <2>2
  <2> QED BY <2>1, <2>2
<1> DEFINE Old(s, j) == j \in 1 .. Len(o[s]) /\ o2[s][j] = o[s][j]
           Chosen(s, j, a) == /\ s = n /\ j = Len(o[n]) + a
                              /\ f[a] \in 1 .. k /\ f[a] \in 1 .. Len(p[i])
                              /\ o2[s][j] = p[i][f[a]]
<1>4. ASSUME NEW s \in AllNames, NEW j \in 1 .. Len(o2[s])
      PROVE  Old(s, j) \/ \E a \in 1 .. m : Chosen(s, j, a)
  <2>1. CASE s # n
    BY <1>1, <1>4, <2>1
  <2>2. CASE s = n /\ j <= Len(o[n])
    <3>1. j \in 1 .. Len(o[n])
      BY <1>2, <1>4, <2>2
    <3> QED BY <1>1, <2>2, <3>1
  <2>3. CASE s = n /\ j > Len(o[n])
    <3>1. PICK a \in 1 .. m : j = Len(o[n]) + a
      <4>1. j - Len(o[n]) \in 1 .. m /\ j = Len(o[n]) + (j - Len(o[n]))
        BY <1>1, <1>2, <1>4, <2>3
      <4> QED BY <4>1
    <3>2. f[a] \in 1 .. k
      BY <1>1
    <3>3. f[a] \in 1 .. Len(p[i])
      BY <1>2, <3>2
    <3>4. o2[s][j] = p[i][f[a]]
      BY <1>1, <2>3, <3>1
    <3> QED BY <2>3, <3>1, <3>2, <3>3, <3>4
  <2> QED BY <1>2, <1>4, <2>1, <2>2, <2>3
<1> HIDE DEF Old, Chosen
<1>5. ASSUME NEW y \in x2
      PROVE  \/ y \in x
             \/ \E b \in 1 .. k : /\ b \in 1 .. Len(p[i]) /\ y = p[i][b]
                                  /\ \A a \in 1 .. m : f[a] # b
  <2>0. x2 = x \cup {p[i][b] : b \in {z \in 1 .. k : \A a \in 1 .. m : f[a] # z}}
    BY <1>1, Zenon
  <2>1. y \in x \/ \E b \in 1 .. k : y = p[i][b] /\ \A a \in 1 .. m : f[a] # b
    BY <1>5, <2>0, Zenon
  <2>2. \A b \in 1 .. k : b \in 1 .. Len(p[i])
    BY <1>2
  <2> QED BY <2>1, <2>2, Zenon
<1>6. /\ Numbered(L, p, o, x, c) /\ OnceOut(o) /\ OncePending(L, p) /\ OnceLost(x)
      /\ Apart(L, p, o, x) /\ \A b \in 1 .. c : Somewhere(L, p, o, x, b)
  BY DEF Kept
<1>7. Numbered(L, p2, o2, x2, c)
  <2>1. ASSUME NEW s \in AllNames, NEW j \in 1 .. Len(o2[s]) PROVE o2[s][j].n \in 1 .. c
    <3>1. CASE Old(s, j)
      BY <1>6, <3>1, Zenon DEF Numbered, Old
    <3>2. CASE \E a \in 1 .. m : Chosen(s, j, a)
      BY <1>6, <3>2, Zenon DEF Numbered, Chosen
    <3> QED BY <1>4, <3>1, <3>2
  <2>2. ASSUME NEW s \in L, NEW j \in 1 .. Len(p2[s]) PROVE p2[s][j].n \in 1 .. c
    <3>1. PICK r \in 1 .. Len(p[s]) : p2[s][j] = p[s][r]
      BY <1>3, Zenon
    <3> QED BY <1>6, <3>1, Zenon DEF Numbered
  <2>3. \A y \in x2 : y.n \in 1 .. c
    BY <1>5, <1>6 DEF Numbered
  <2> QED BY <2>1, <2>2, <2>3 DEF Numbered
<1>8. OncePending(L, p2)
  <2> SUFFICES ASSUME NEW a \in L, NEW b \in L, NEW j \in 1 .. Len(p2[a]),
                      NEW q \in 1 .. Len(p2[b]), p2[a][j].n = p2[b][q].n
               PROVE  a = b /\ j = q
    BY DEF OncePending
  <2>1. PICK r \in 1 .. Len(p[a]) : p2[a][j] = p[a][r] /\ r = IF a = i THEN j + k ELSE j
    BY <1>3
  <2>2. PICK t \in 1 .. Len(p[b]) : p2[b][q] = p[b][t] /\ t = IF b = i THEN q + k ELSE q
    BY <1>3
  <2>3. a = b /\ r = t
    <3>1. p[a][r].n = p[b][t].n
      BY <2>1, <2>2
    <3> QED BY <1>6, <3>1 DEF OncePending
  <2> QED BY <1>2, <2>1, <2>2, <2>3
<1>9. OnceOut(o2)
  <2> SUFFICES ASSUME NEW s \in AllNames, NEW t \in AllNames, NEW j \in 1 .. Len(o2[s]),
                      NEW q \in 1 .. Len(o2[t]), o2[s][j].n = o2[t][q].n
               PROVE  s = t /\ j = q
    BY DEF OnceOut
  <2>1. CASE Old(s, j)
    <3>1. CASE Old(t, q)
      BY <1>6, <2>1, <3>1 DEF OnceOut, Old
    <3>2. CASE \E a \in 1 .. m : Chosen(t, q, a)
      BY <1>6, <2>1, <3>2 DEF Apart, Old, Chosen
    <3> QED BY <1>4, <3>1, <3>2
  <2>2. CASE \E a \in 1 .. m : Chosen(s, j, a)
    <3>0. PICK a \in 1 .. m : Chosen(s, j, a)
      BY <2>2
    <3>1. /\ s = n /\ j = Len(o[n]) + a /\ f[a] \in 1 .. Len(p[i])
          /\ o2[s][j] = p[i][f[a]]
      BY <3>0 DEF Chosen
    <3>2. CASE Old(t, q)
      BY <1>6, <3>1, <3>2 DEF Apart, Old
    <3>3. CASE \E b \in 1 .. m : Chosen(t, q, b)
      <4>0. PICK b \in 1 .. m : Chosen(t, q, b)
        BY <3>3
      <4>1. /\ t = n /\ q = Len(o[n]) + b /\ f[b] \in 1 .. Len(p[i])
            /\ o2[t][q] = p[i][f[b]]
        BY <4>0 DEF Chosen
      <4>2. f[a] = f[b]
        <5>1. PICK u \in 1 .. Len(p[i]), v \in 1 .. Len(p[i]) : u = f[a] /\ v = f[b]
          BY <3>1, <4>1
        <5>2. p[i][u].n = p[i][v].n
          BY <3>1, <4>1, <5>1
        <5>3. u = v
          BY <1>6, <5>2 DEF OncePending
        <5> QED BY <5>1, <5>3
      <4>3. (a < b => f[a] < f[b]) /\ (b < a => f[b] < f[a])
        BY <1>1
      <4>4. f[a] \in Int
        BY <3>1
      <4>5. a = b
        BY <1>2, <4>2, <4>3, <4>4
      <4> QED BY <3>1, <4>1, <4>5
    <3> QED BY <1>4, <3>2, <3>3
  <2> QED BY <1>4, <2>1, <2>2
<1>10. OnceLost(x2)
  <2> SUFFICES ASSUME NEW y \in x2, NEW z \in x2, y.n = z.n PROVE y = z
    BY DEF OnceLost
  <2>1. CASE y \in x /\ z \in x
    BY <1>6, <2>1 DEF OnceLost
  <2>2. CASE y \in x /\ \E b \in 1 .. Len(p[i]) : z = p[i][b]
    BY <1>6, <2>2 DEF Apart
  <2>3. CASE z \in x /\ \E b \in 1 .. Len(p[i]) : y = p[i][b]
    BY <1>6, <2>3 DEF Apart
  <2>4. CASE (\E a \in 1 .. Len(p[i]) : y = p[i][a]) /\ \E b \in 1 .. Len(p[i]) : z = p[i][b]
    BY <1>6, <2>4 DEF OncePending
  <2> QED BY <1>5, <2>1, <2>2, <2>3, <2>4
<1>11. Apart(L, p2, o2, x2)
  <2>1. ASSUME NEW s \in AllNames, NEW j \in 1 .. Len(o2[s]), NEW b \in L,
               NEW q \in 1 .. Len(p2[b]), o2[s][j].n = p2[b][q].n
        PROVE  FALSE
    <3>1. PICK t \in 1 .. Len(p[b]) : p2[b][q] = p[b][t] /\ t = IF b = i THEN q + k ELSE q
      BY <1>3
    <3>2. CASE Old(s, j)
      BY <1>6, <2>1, <3>1, <3>2 DEF Apart, Old
    <3>3. CASE \E a \in 1 .. m : Chosen(s, j, a)
      <4>1. PICK r \in 1 .. k : r \in 1 .. Len(p[i]) /\ o2[s][j] = p[i][r]
        BY <3>3 DEF Chosen
      <4>2. b = i /\ r = t
        <5>1. p[b][t].n = p[i][r].n
          BY <2>1, <3>1, <4>1
        <5> QED BY <1>6, <4>1, <5>1 DEF OncePending
      <4> QED BY <1>2, <3>1, <4>1, <4>2
    <3> QED BY <1>4, <3>2, <3>3
  <2>2. ASSUME NEW s \in AllNames, NEW j \in 1 .. Len(o2[s]), NEW y \in x2,
               o2[s][j].n = y.n
        PROVE  FALSE
    <3>1. CASE Old(s, j)
      <4>1. CASE y \in x
        BY <1>6, <2>2, <3>1, <4>1 DEF Apart, Old
      <4>2. CASE \E b \in 1 .. Len(p[i]) : y = p[i][b]
        BY <1>6, <2>2, <3>1, <4>2 DEF Apart, Old
      <4> QED BY <1>5, <4>1, <4>2
    <3>2. CASE \E a \in 1 .. m : Chosen(s, j, a)
      <4>0. PICK a \in 1 .. m : Chosen(s, j, a)
        BY <3>2
      <4>1. f[a] \in 1 .. Len(p[i]) /\ o2[s][j] = p[i][f[a]]
        BY <4>0 DEF Chosen
      <4>2. CASE y \in x
        BY <1>6, <2>2, <4>1, <4>2 DEF Apart
      <4>3. CASE \E b \in 1 .. Len(p[i]) : y = p[i][b] /\ \A d \in 1 .. m : f[d] # b
        <5>1. PICK b \in 1 .. Len(p[i]) : y = p[i][b] /\ \A d \in 1 .. m : f[d] # b
          BY <4>3
        <5>2. b = f[a]
          <6>1. p[i][f[a]].n = p[i][b].n
            BY <2>2, <4>1, <5>1
          <6> QED BY <1>6, <4>1, <6>1 DEF OncePending
        <5> QED BY <4>1, <5>1, <5>2
      <4> QED BY <1>5, <4>2, <4>3
    <3> QED BY <1>4, <3>1, <3>2
  <2>3. ASSUME NEW b \in L, NEW q \in 1 .. Len(p2[b]), NEW y \in x2, p2[b][q].n = y.n
        PROVE  FALSE
    <3>1. PICK t \in 1 .. Len(p[b]) : p2[b][q] = p[b][t] /\ t = IF b = i THEN q + k ELSE q
      BY <1>3
    <3>2. CASE y \in x
      BY <1>6, <2>3, <3>1, <3>2 DEF Apart
    <3>3. CASE \E r \in 1 .. k : r \in 1 .. Len(p[i]) /\ y = p[i][r]
      <4>1. PICK r \in 1 .. k : r \in 1 .. Len(p[i]) /\ y = p[i][r]
        BY <3>3
      <4>2. b = i /\ r = t
        BY <1>6, <2>3, <3>1, <4>1 DEF OncePending
      <4> QED BY <1>2, <3>1, <4>1, <4>2
    <3> QED BY <1>5, <3>2, <3>3
  <2> QED BY <2>1, <2>2, <2>3, Zenon DEF Apart
<1>12. ASSUME NEW b \in 1 .. c PROVE Somewhere(L, p2, o2, x2, b)
  <2>1. CASE \E s \in AllNames : \E j \in 1 .. Len(o[s]) : o[s][j].n = b
    <3>0. PICK s \in AllNames : \E j \in 1 .. Len(o[s]) : o[s][j].n = b
      BY <2>1
    <3>1. PICK j \in 1 .. Len(o[s]) : o[s][j].n = b
      BY <3>0
    <3>2. j \in 1 .. Len(o2[s]) /\ o2[s][j] = o[s][j]
      <4>1. CASE s # n
        BY <1>1, <4>1
      <4>2. CASE s = n
        BY <1>1, <1>2, <4>2
      <4> QED BY <4>1, <4>2
    <3> QED BY <3>1, <3>2 DEF Somewhere
  <2>2. CASE \E j \in L : \E q \in 1 .. Len(p[j]) : p[j][q].n = b
    <3>0. PICK j \in L : \E q \in 1 .. Len(p[j]) : p[j][q].n = b
      BY <2>2
    <3>1. PICK q \in 1 .. Len(p[j]) : p[j][q].n = b
      BY <3>0
    <3>2. CASE j # i
      BY <1>1, <3>1, <3>2 DEF Somewhere
    <3>3. CASE j = i /\ q > k
      <4>1. q - k \in 1 .. Len(p2[i]) /\ (q - k) + k = q
        BY <1>1, <1>2, <3>3
      <4>2. p2[i][q - k].n = b
        BY <1>1, <3>1, <3>3, <4>1
      <4> QED BY <4>1, <4>2 DEF Somewhere
    <3>4. CASE j = i /\ q <= k /\ \E a \in 1 .. m : f[a] = q
      <4>1. PICK a \in 1 .. m : f[a] = q
        BY <3>4
      <4>2. Len(o[n]) + a \in 1 .. Len(o2[n]) /\ o2[n][Len(o[n]) + a] = p[i][q]
        BY <1>1, <1>2, <4>1
      <4> QED BY <3>1, <3>4, <4>2 DEF Somewhere
    <3>5. CASE j = i /\ q <= k /\ \A a \in 1 .. m : f[a] # q
      <4>1. q \in 1 .. k
        BY <1>2, <3>5
      <4>2. p[i][q] \in x2
        BY <1>1, <3>5, <4>1
      <4> QED BY <3>1, <3>5, <4>2 DEF Somewhere
    <3> QED BY <1>2, <3>2, <3>3, <3>4, <3>5
  <2>3. CASE \E y \in x : y.n = b
    BY <1>1, <2>3 DEF Somewhere
  <2> QED BY <1>6, <2>1, <2>2, <2>3 DEF Somewhere
<1> QED BY <1>7, <1>8, <1>9, <1>10, <1>11, <1>12 DEF Kept

\* A move of a whole queue keeps the order.
LEMMA MoveOrders ==
  ASSUME NEW L, NEW p \in [L -> Seq(Message)], NEW o \in [AllNames -> Seq(Message)],
         NEW x \in SUBSET Message, NEW c \in Nat, Kept(L, p, o, x, c),
         NEW nm, Ordered(L, p, o, nm), NEW i \in L, NEW n \in AllNames,
         NEW k \in 0 .. Len(p[i]), k = Len(p[i]), NEW f \in Choices(k),
         NEW p2, NEW o2, NEW x2, Moved(p, o, x, p2, o2, x2, i, n, k, f)
  PROVE  Ordered(L, p2, o2, nm)
<1>0. PICK m \in 0 .. k : WasAt(L, p, o, x, p2, o2, x2, i, n, k, f, m)
  BY MovedEffect
<1>1. /\ f \in [1 .. m -> 1 .. k] /\ \A a, b \in 1 .. m : a < b => f[a] < f[b]
      /\ p2 \in [L -> Seq(Message)] /\ o2 \in [AllNames -> Seq(Message)]
      /\ \A j \in L \ {i} : p2[j] = p[j]
      /\ Len(p2[i]) = Len(p[i]) - k
      /\ \A s \in AllNames \ {n} : o2[s] = o[s]
      /\ Len(o2[n]) = Len(o[n]) + m
      /\ \A j \in 1 .. Len(o[n]) : o2[n][j] = o[n][j]
      /\ \A a \in 1 .. m : o2[n][Len(o[n]) + a] = p[i][f[a]]
  BY <1>0, Zenon DEF WasAt
<1>2. /\ \A j \in L : Len(p[j]) \in Nat /\ Len(p2[j]) \in Nat
      /\ \A s \in AllNames : Len(o[s]) \in Nat /\ Len(o2[s]) \in Nat
      /\ k \in Nat /\ m \in Nat
  BY <1>1
\* Only the queue of i changes: it is empty.
<1>3. ASSUME NEW j \in L, NEW q \in 1 .. Len(p2[j])
      PROVE  j # i /\ p2[j] = p[j] /\ q \in 1 .. Len(p[j])
  <2>1. Len(p2[i]) = 0
    BY <1>1, <1>2
  <2>2. j # i
    BY <1>3, <2>1
  <2> QED BY <1>1, <1>3, <2>2
<1> DEFINE Old(s, j) == j \in 1 .. Len(o[s]) /\ o2[s][j] = o[s][j]
           Chosen(s, j, a) == /\ s = n /\ j = Len(o[n]) + a
                              /\ f[a] \in 1 .. Len(p[i]) /\ o2[s][j] = p[i][f[a]]
<1>4. ASSUME NEW s \in AllNames, NEW j \in 1 .. Len(o2[s]), ~Old(s, j)
      PROVE  \E a \in 1 .. m : Chosen(s, j, a)
  <2>1. s = n
    BY <1>1, <1>4
  <2>2. j > Len(o[n])
    BY <1>1, <1>2, <1>4, <2>1
  <2>3. PICK a \in 1 .. m : j = Len(o[n]) + a
    <3>1. /\ Len(o2[n]) = Len(o[n]) + m /\ j \in 1 .. Len(o2[n])
          /\ Len(o[n]) \in Nat /\ m \in Nat
      BY <1>1, <1>2, <1>4, <2>1
    <3>2. j - Len(o[n]) \in 1 .. m /\ j = Len(o[n]) + (j - Len(o[n]))
      BY <2>2, <3>1
    <3> QED BY <3>2
  <2>4. f[a] \in 1 .. Len(p[i])
    BY <1>1
  <2> QED BY <1>1, <2>1, <2>2, <2>3, <2>4
<1> HIDE DEF Old, Chosen
<1>5. /\ \A s \in AllNames : \A j, q \in 1 .. Len(o[s]) :
           j < q /\ o[s][j].src = o[s][q].src => o[s][j].n < o[s][q].n
      /\ \A j \in L : \A q, r \in 1 .. Len(p[j]) : q < r => p[j][q].n < p[j][r].n
      /\ \A j \in L, s \in AllNames : \A q \in 1 .. Len(o[s]), r \in 1 .. Len(p[j]) :
           o[s][q].src = p[j][r].src => o[s][q].n < p[j][r].n
      /\ \A j \in L : \A r \in 1 .. Len(p[j]) : p[j][r].src = nm[j]
      /\ \A j, s \in L : nm[j] = nm[s] /\ Len(p[j]) > 0 /\ Len(p[s]) > 0 => j = s
  BY DEF Ordered
<1>6. ASSUME NEW s \in AllNames, NEW j \in 1 .. Len(o2[s]), NEW q \in 1 .. Len(o2[s]),
             j < q, o2[s][j].src = o2[s][q].src
      PROVE  o2[s][j].n < o2[s][q].n
  <2>1. CASE Old(s, q)
    <3>1. j \in 1 .. Len(o[s])
      BY <1>2, <1>6, <2>1 DEF Old
    <3>2. o2[s][j] = o[s][j]
      <4>1. CASE s = n
        BY <1>1, <3>1, <4>1
      <4>2. CASE s # n
        BY <1>1, <4>2
      <4> QED BY <4>1, <4>2
    <3> QED BY <1>5, <1>6, <2>1, <3>1, <3>2 DEF Old
  <2>2. CASE ~Old(s, q)
    <3>0. PICK b \in 1 .. m : Chosen(s, q, b)
      BY <1>4, <2>2
    <3>1. q = Len(o[n]) + b /\ f[b] \in 1 .. Len(p[i]) /\ o2[s][q] = p[i][f[b]]
      BY <3>0 DEF Chosen
    <3>2. CASE Old(s, j)
      <4>1. PICK v \in 1 .. Len(p[i]) : o2[s][q] = p[i][v]
        BY <3>1
      <4> QED BY <1>5, <1>6, <3>2, <4>1 DEF Old
    <3>3. CASE ~Old(s, j)
      <4>0. PICK a \in 1 .. m : Chosen(s, j, a)
        BY <1>4, <3>3
      <4>1. j = Len(o[n]) + a /\ f[a] \in 1 .. Len(p[i]) /\ o2[s][j] = p[i][f[a]]
        BY <4>0 DEF Chosen
      <4>2. f[a] < f[b]
        <5>1. a < b
          BY <1>2, <1>6, <3>1, <4>1
        <5> QED BY <1>1, <5>1
      <4>3. PICK u \in 1 .. Len(p[i]), v \in 1 .. Len(p[i]) :
              u < v /\ o2[s][j] = p[i][u] /\ o2[s][q] = p[i][v]
        BY <3>1, <4>1, <4>2
      <4> QED BY <1>5, <4>3
    <3> QED BY <3>2, <3>3
  <2> QED BY <2>1, <2>2
<1>7. ASSUME NEW j \in L, NEW q \in 1 .. Len(p2[j]), NEW r \in 1 .. Len(p2[j]), q < r
      PROVE  p2[j][q].n < p2[j][r].n
  <2>1. p2[j] = p[j] /\ q \in 1 .. Len(p[j]) /\ r \in 1 .. Len(p[j])
    BY <1>3
  <2> QED BY <1>5, <1>7, <2>1
<1>8. ASSUME NEW j \in L, NEW s \in AllNames, NEW q \in 1 .. Len(o2[s]),
             NEW r \in 1 .. Len(p2[j]), o2[s][q].src = p2[j][r].src
      PROVE  o2[s][q].n < p2[j][r].n
  <2>1. j # i /\ p2[j] = p[j] /\ r \in 1 .. Len(p[j])
    BY <1>3
  <2>2. CASE Old(s, q)
    BY <1>5, <1>8, <2>1, <2>2 DEF Old
  <2>3. CASE ~Old(s, q)
    <3>0. PICK b \in 1 .. m : Chosen(s, q, b)
      BY <1>4, <2>3
    <3>1. PICK v \in 1 .. Len(p[i]) : o2[s][q] = p[i][v]
      BY <3>0 DEF Chosen
    <3>2. p[i][v].src = nm[i] /\ p[j][r].src = nm[j]
      BY <1>5, <2>1
    <3>3. nm[i] = nm[j]
      BY <1>8, <2>1, <3>1, <3>2
    <3>4. Len(p[i]) > 0 /\ Len(p[j]) > 0
      BY <1>2, <2>1
    <3> QED BY <1>5, <2>1, <3>3, <3>4
  <2> QED BY <2>2, <2>3
<1>9. ASSUME NEW j \in L, NEW r \in 1 .. Len(p2[j]) PROVE p2[j][r].src = nm[j]
  <2>1. p2[j] = p[j] /\ r \in 1 .. Len(p[j])
    BY <1>3
  <2> QED BY <1>5, <2>1
<1>10. ASSUME NEW j \in L, NEW s \in L, nm[j] = nm[s], Len(p2[j]) > 0, Len(p2[s]) > 0
       PROVE  j = s
  <2>1. 1 \in 1 .. Len(p2[j]) /\ 1 \in 1 .. Len(p2[s])
    BY <1>2, <1>10
  <2>2. p2[j] = p[j] /\ p2[s] = p[s]
    BY <1>3, <2>1
  <2> QED BY <1>5, <1>10, <2>2
<1> QED BY <1>6, <1>7, <1>8, <1>9, <1>10 DEF Ordered

\* Interfaces without pending messages come and go.
LEMMA FrameKeeps ==
  ASSUME NEW L, NEW p, NEW o, NEW x, NEW c, Kept(L, p, o, x, c), NEW M, NEW q,
         \A i \in L : Len(p[i]) = 0 \/ (i \in M /\ q[i] = p[i]),
         \A i \in M : Len(q[i]) = 0 \/ (i \in L /\ q[i] = p[i])
  PROVE  Kept(M, q, o, x, c)
<1>1. ASSUME NEW i \in M, NEW j \in 1 .. Len(q[i])
      PROVE  i \in L /\ q[i] = p[i] /\ j \in 1 .. Len(p[i])
  BY <1>1
<1>2. ASSUME NEW i \in L, NEW j \in 1 .. Len(p[i])
      PROVE  i \in M /\ q[i] = p[i] /\ j \in 1 .. Len(q[i])
  BY <1>2
<1>3. /\ Numbered(L, p, o, x, c) /\ OnceOut(o) /\ OncePending(L, p) /\ OnceLost(x)
      /\ Apart(L, p, o, x) /\ \A b \in 1 .. c : Somewhere(L, p, o, x, b)
  BY DEF Kept
<1>4. Numbered(M, q, o, x, c)
  BY <1>1, <1>3, Zenon DEF Numbered
<1>5. OncePending(M, q)
  BY <1>1, <1>3 DEF OncePending
<1>6. Apart(M, q, o, x)
  <2>1. ASSUME NEW n \in AllNames, NEW i \in M, NEW j \in 1 .. Len(o[n]),
               NEW k \in 1 .. Len(q[i])
        PROVE  o[n][j].n # q[i][k].n
    BY <1>1, <1>3 DEF Apart
  <2>2. ASSUME NEW i \in M, NEW m \in x, NEW j \in 1 .. Len(q[i])
        PROVE  q[i][j].n # m.n
    BY <1>1, <1>3 DEF Apart
  <2> QED BY <1>3, <2>1, <2>2 DEF Apart
<1>7. ASSUME NEW b \in 1 .. c PROVE Somewhere(M, q, o, x, b)
  <2>1. CASE \E i \in L : \E j \in 1 .. Len(p[i]) : p[i][j].n = b
    BY <1>2, <2>1, Zenon DEF Somewhere
  <2>2. CASE ~\E i \in L : \E j \in 1 .. Len(p[i]) : p[i][j].n = b
    BY <1>3, <2>2, Zenon DEF Somewhere
  <2> QED BY <2>1, <2>2
<1> QED BY <1>3, <1>4, <1>5, <1>6, <1>7 DEF Kept

LEMMA FrameOrders ==
  ASSUME NEW L, NEW p, NEW o, NEW nm, Ordered(L, p, o, nm), NEW M, NEW q, NEW nq,
         \A i \in M : \/ Len(q[i]) = 0
                      \/ i \in L /\ q[i] = p[i] /\ nq[i] = nm[i]
  PROVE  Ordered(M, q, o, nq)
<1>1. ASSUME NEW i \in M, NEW j \in 1 .. Len(q[i])
      PROVE  i \in L /\ q[i] = p[i] /\ nq[i] = nm[i] /\ j \in 1 .. Len(p[i])
  BY <1>1
<1>2. ASSUME NEW i \in M, NEW j \in 1 .. Len(q[i]), NEW k \in 1 .. Len(q[i]), j < k
      PROVE  q[i][j].n < q[i][k].n
  <2>1. i \in L /\ q[i] = p[i] /\ j \in 1 .. Len(p[i]) /\ k \in 1 .. Len(p[i])
    BY <1>1
  <2> QED BY <1>2, <2>1 DEF Ordered
<1>3. ASSUME NEW i \in M, NEW n \in AllNames, NEW j \in 1 .. Len(o[n]),
             NEW k \in 1 .. Len(q[i]), o[n][j].src = q[i][k].src
      PROVE  o[n][j].n < q[i][k].n
  <2>1. i \in L /\ q[i] = p[i] /\ k \in 1 .. Len(p[i])
    BY <1>1
  <2> QED BY <1>3, <2>1 DEF Ordered
<1>4. ASSUME NEW i \in M, NEW k \in 1 .. Len(q[i]) PROVE q[i][k].src = nq[i]
  <2>1. i \in L /\ q[i] = p[i] /\ nq[i] = nm[i] /\ k \in 1 .. Len(p[i])
    BY <1>1
  <2> QED BY <2>1 DEF Ordered
<1>5. ASSUME NEW i \in M, NEW j \in M, nq[i] = nq[j], Len(q[i]) > 0, Len(q[j]) > 0
      PROVE  i = j
  <2>1. /\ i \in L /\ q[i] = p[i] /\ nq[i] = nm[i]
        /\ j \in L /\ q[j] = p[j] /\ nq[j] = nm[j]
    BY <1>5
  <2> QED BY <1>5, <2>1 DEF Ordered
<1>6. \A n \in AllNames : \A j, k \in 1 .. Len(o[n]) :
        j < k /\ o[n][j].src = o[n][k].src => o[n][j].n < o[n][k].n
  BY DEF Ordered
<1> QED BY <1>2, <1>3, <1>4, <1>5, <1>6 DEF Ordered

\* The queue of i gets longer by one message.
Longer(L, p, q, i, msg) ==
  /\ q \in [L -> Seq(Message)] /\ \A j \in L \ {i} : q[j] = p[j]
  /\ Len(q[i]) = Len(p[i]) + 1 /\ q[i][Len(p[i]) + 1] = msg
  /\ \A j \in 1 .. Len(p[i]) : q[i][j] = p[i][j]
  /\ \A j \in L : \A r \in 1 .. Len(q[j]) :
       \/ r \in 1 .. Len(p[j]) /\ q[j][r] = p[j][r]
       \/ j = i /\ r = Len(p[i]) + 1 /\ q[j][r] = msg

LEMMA LongerQueue ==
  ASSUME NEW L, NEW p \in [L -> Seq(Message)], NEW i \in L, NEW msg \in Message,
         NEW q, q = [p EXCEPT ![i] = Append(@, msg)]
  PROVE  Longer(L, p, q, i, msg)
<1>1. /\ q \in [L -> Seq(Message)] /\ \A j \in L \ {i} : q[j] = p[j]
      /\ Len(q[i]) = Len(p[i]) + 1 /\ q[i][Len(p[i]) + 1] = msg
      /\ \A j \in 1 .. Len(p[i]) : q[i][j] = p[i][j]
  <2>1. PICK s \in Seq(Message) : s = p[i]
    OBVIOUS
  <2>2. PICK t \in Seq(Message) : /\ t = Append(s, msg) /\ Len(t) = Len(s) + 1
                                  /\ t[Len(s) + 1] = msg
                                  /\ \A j \in 1 .. Len(s) : t[j] = s[j]
    <3>1. /\ Append(s, msg) \in Seq(Message) /\ Len(Append(s, msg)) = Len(s) + 1
          /\ \A j \in 1 .. Len(s) : Append(s, msg)[j] = s[j]
          /\ Append(s, msg)[Len(s) + 1] = msg
      BY AppendProperties
    <3> QED BY <3>1, Zenon
  <2>3. q = [p EXCEPT ![i] = t]
    BY <2>1, <2>2
  <2> QED BY <2>1, <2>2, <2>3
<1>2. \A j \in L : Len(p[j]) \in Nat /\ Len(q[j]) \in Nat
  BY <1>1
<1>3. ASSUME NEW j \in L, NEW r \in 1 .. Len(q[j])
      PROVE  \/ r \in 1 .. Len(p[j]) /\ q[j][r] = p[j][r]
             \/ j = i /\ r = Len(p[i]) + 1 /\ q[j][r] = msg
  <2>1. CASE j # i
    BY <1>1, <1>3, <2>1
  <2>2. CASE j = i
    BY <1>1, <1>2, <1>3, <2>2
  <2> QED BY <2>1, <2>2
<1> QED BY <1>1, <1>3 DEF Longer

\* A message arrives at the end of a queue.
LEMMA ArriveKeeps ==
  ASSUME NEW L, NEW p \in [L -> Seq(Message)], NEW o, NEW x, NEW c \in Nat,
         Kept(L, p, o, x, c), NEW i \in L, NEW msg \in Message, msg.n = c + 1,
         NEW q, Longer(L, p, q, i, msg)
  PROVE  Kept(L, q, o, x, c + 1)
<1>1. /\ q \in [L -> Seq(Message)] /\ \A j \in L \ {i} : q[j] = p[j]
      /\ Len(q[i]) = Len(p[i]) + 1 /\ q[i][Len(p[i]) + 1] = msg
      /\ \A j \in 1 .. Len(p[i]) : q[i][j] = p[i][j]
  BY DEF Longer
<1>2. \A j \in L : Len(p[j]) \in Nat /\ Len(q[j]) \in Nat
  BY <1>1
<1>3. ASSUME NEW j \in L, NEW r \in 1 .. Len(q[j])
      PROVE  \/ r \in 1 .. Len(p[j]) /\ q[j][r] = p[j][r]
             \/ j = i /\ r = Len(p[i]) + 1 /\ q[j][r] = msg
  BY DEF Longer
<1>4. /\ Numbered(L, p, o, x, c) /\ OnceOut(o) /\ OncePending(L, p) /\ OnceLost(x)
      /\ Apart(L, p, o, x) /\ \A b \in 1 .. c : Somewhere(L, p, o, x, b)
  BY DEF Kept
<1>5. Numbered(L, q, o, x, c + 1)
  <2>1. ASSUME NEW j \in L, NEW r \in 1 .. Len(q[j]) PROVE q[j][r].n \in 1 .. c + 1
    <3>1. CASE r \in 1 .. Len(p[j]) /\ q[j][r] = p[j][r]
      <4>1. q[j][r].n \in 1 .. c
        BY <1>4, <3>1 DEF Numbered
      <4> QED BY <4>1
    <3>2. CASE q[j][r] = msg
      BY <3>2
    <3> QED BY <1>3, <3>1, <3>2
  <2>2. \A n \in AllNames : \A j \in 1 .. Len(o[n]) : o[n][j].n \in 1 .. c + 1
    BY <1>4 DEF Numbered
  <2>3. \A m \in x : m.n \in 1 .. c + 1
    BY <1>4 DEF Numbered
  <2> QED BY <2>1, <2>2, <2>3 DEF Numbered
<1>6. ASSUME NEW j \in L, NEW r \in 1 .. Len(q[j]), q[j][r].n # c + 1
      PROVE  r \in 1 .. Len(p[j]) /\ q[j][r] = p[j][r]
  BY <1>3, <1>6
<1>7. ASSUME NEW j \in L, NEW r \in 1 .. Len(q[j]), q[j][r].n = c + 1
      PROVE  j = i /\ r = Len(p[i]) + 1
  <2>1. ~(r \in 1 .. Len(p[j]) /\ q[j][r] = p[j][r])
    <3>1. SUFFICES ASSUME r \in 1 .. Len(p[j]), q[j][r] = p[j][r] PROVE FALSE
      OBVIOUS
    <3>2. p[j][r].n \in 1 .. c
      BY <1>4, <3>1 DEF Numbered
    <3> QED BY <1>7, <3>1, <3>2
  <2> QED BY <1>3, <2>1
<1>8. OncePending(L, q)
  <2> SUFFICES ASSUME NEW j \in L, NEW s \in L, NEW r \in 1 .. Len(q[j]),
                      NEW t \in 1 .. Len(q[s]), q[j][r].n = q[s][t].n
               PROVE  j = s /\ r = t
    BY DEF OncePending
  <2>1. CASE q[j][r].n = c + 1
    BY <1>7, <2>1
  <2>2. CASE q[j][r].n # c + 1
    <3>1. /\ r \in 1 .. Len(p[j]) /\ q[j][r] = p[j][r]
          /\ t \in 1 .. Len(p[s]) /\ q[s][t] = p[s][t]
      BY <1>6, <2>2
    <3> QED BY <1>4, <3>1 DEF OncePending
  <2> QED BY <2>1, <2>2
<1>9. Apart(L, q, o, x)
  <2>1. ASSUME NEW n \in AllNames, NEW j \in L, NEW s \in 1 .. Len(o[n]),
               NEW r \in 1 .. Len(q[j])
        PROVE  o[n][s].n # q[j][r].n
    <3>1. CASE q[j][r].n = c + 1
      <4>1. o[n][s].n \in 1 .. c
        BY <1>4 DEF Numbered
      <4> QED BY <3>1, <4>1
    <3>2. CASE q[j][r].n # c + 1
      <4>1. r \in 1 .. Len(p[j]) /\ q[j][r] = p[j][r]
        BY <1>6, <3>2
      <4> QED BY <1>4, <4>1 DEF Apart
    <3> QED BY <3>1, <3>2
  <2>2. ASSUME NEW j \in L, NEW m \in x, NEW r \in 1 .. Len(q[j])
        PROVE  q[j][r].n # m.n
    <3>1. CASE q[j][r].n = c + 1
      <4>1. m.n \in 1 .. c
        BY <1>4 DEF Numbered
      <4> QED BY <3>1, <4>1
    <3>2. CASE q[j][r].n # c + 1
      <4>1. r \in 1 .. Len(p[j]) /\ q[j][r] = p[j][r]
        BY <1>6, <3>2
      <4> QED BY <1>4, <4>1 DEF Apart
    <3> QED BY <3>1, <3>2
  <2> QED BY <1>4, <2>1, <2>2 DEF Apart
<1>10. ASSUME NEW b \in 1 .. c + 1 PROVE Somewhere(L, q, o, x, b)
  <2>1. CASE b = c + 1
    <3>1. Len(p[i]) + 1 \in 1 .. Len(q[i])
      BY <1>1, <1>2
    <3> QED BY <1>1, <2>1, <3>1 DEF Somewhere
  <2>2. CASE b # c + 1
    <3>1. b \in 1 .. c
      BY <2>2
    <3>2. CASE \E j \in L : \E r \in 1 .. Len(p[j]) : p[j][r].n = b
      <4>1. PICK j \in L : \E r \in 1 .. Len(p[j]) : p[j][r].n = b
        BY <3>2
      <4>2. PICK r \in 1 .. Len(p[j]) : p[j][r].n = b
        BY <4>1
      <4>3. r \in 1 .. Len(q[j]) /\ q[j][r] = p[j][r]
        <5>1. CASE j = i
          BY <1>1, <1>2, <5>1
        <5>2. CASE j # i
          BY <1>1, <5>2
        <5> QED BY <5>1, <5>2
      <4> QED BY <4>2, <4>3 DEF Somewhere
    <3>3. CASE ~\E j \in L : \E r \in 1 .. Len(p[j]) : p[j][r].n = b
      BY <1>4, <3>1, <3>3, Zenon DEF Somewhere
    <3> QED BY <3>2, <3>3
  <2> QED BY <2>1, <2>2
<1> QED BY <1>1, <1>4, <1>5, <1>8, <1>9, <1>10 DEF Kept

LEMMA ArriveOrders ==
  ASSUME NEW L, NEW p \in [L -> Seq(Message)], NEW o, NEW x, NEW c \in Nat,
         Kept(L, p, o, x, c), NEW i \in L, NEW msg \in Message, msg.n = c + 1,
         NEW q, Longer(L, p, q, i, msg),
         NEW nm, Ordered(L, p, o, nm), msg.src = nm[i],
         \A j \in L : nm[j] = nm[i] /\ Len(p[j]) > 0 => j = i
  PROVE  Ordered(L, q, o, nm)
<1>1. /\ q \in [L -> Seq(Message)] /\ \A j \in L \ {i} : q[j] = p[j]
      /\ Len(q[i]) = Len(p[i]) + 1 /\ q[i][Len(p[i]) + 1] = msg
      /\ \A j \in 1 .. Len(p[i]) : q[i][j] = p[i][j]
  BY DEF Longer
<1>2. \A j \in L : Len(p[j]) \in Nat /\ Len(q[j]) \in Nat
  BY <1>1
<1>3. ASSUME NEW j \in L, NEW r \in 1 .. Len(q[j])
      PROVE  \/ r \in 1 .. Len(p[j]) /\ q[j][r] = p[j][r]
             \/ j = i /\ r = Len(p[i]) + 1 /\ q[j][r] = msg
  BY DEF Longer
<1>4. Numbered(L, p, o, x, c)
  BY DEF Kept
<1>5. ASSUME NEW j \in L, NEW r \in 1 .. Len(q[j]), NEW s \in 1 .. Len(q[j]), r < s
      PROVE  q[j][r].n < q[j][s].n
  <2>1. CASE s \in 1 .. Len(p[j]) /\ q[j][s] = p[j][s]
    <3>1. r \in 1 .. Len(p[j])
      BY <1>2, <1>5, <2>1
    <3>2. q[j][r] = p[j][r]
      BY <1>2, <1>3, <3>1
    <3> QED BY <1>5, <2>1, <3>1, <3>2 DEF Ordered
  <2>2. CASE j = i /\ s = Len(p[i]) + 1 /\ q[j][s] = msg
    <3>1. r \in 1 .. Len(p[j])
      BY <1>2, <1>5, <2>2
    <3>2. q[j][r] = p[j][r]
      BY <1>1, <2>2, <3>1
    <3>3. q[j][r].n \in 1 .. c
      BY <1>4, <3>1, <3>2 DEF Numbered
    <3> QED BY <2>2, <3>3
  <2> QED BY <1>3, <2>1, <2>2
<1>6. ASSUME NEW j \in L, NEW n \in AllNames, NEW s \in 1 .. Len(o[n]),
             NEW r \in 1 .. Len(q[j]), o[n][s].src = q[j][r].src
      PROVE  o[n][s].n < q[j][r].n
  <2>1. CASE r \in 1 .. Len(p[j]) /\ q[j][r] = p[j][r]
    BY <1>6, <2>1 DEF Ordered
  <2>2. CASE q[j][r] = msg
    <3>1. o[n][s].n \in 1 .. c
      BY <1>4 DEF Numbered
    <3> QED BY <2>2, <3>1
  <2> QED BY <1>3, <2>1, <2>2
<1>7. ASSUME NEW j \in L, NEW r \in 1 .. Len(q[j]) PROVE q[j][r].src = nm[j]
  <2>1. CASE r \in 1 .. Len(p[j]) /\ q[j][r] = p[j][r]
    BY <2>1 DEF Ordered
  <2>2. CASE j = i /\ q[j][r] = msg
    BY <2>2
  <2> QED BY <1>3, <2>1, <2>2
<1>8. ASSUME NEW j \in L, NEW s \in L, nm[j] = nm[s], Len(q[j]) > 0, Len(q[s]) > 0
      PROVE  j = s
  <2>1. CASE j # i /\ s # i
    BY <1>1, <1>8, <2>1 DEF Ordered
  <2>2. CASE j = i \/ s = i
    BY <1>1, <1>8, <2>2
  <2> QED BY <2>1, <2>2
<1>9. \A n \in AllNames : \A j, k \in 1 .. Len(o[n]) :
        j < k /\ o[n][j].src = o[n][k].src => o[n][j].n < o[n][k].n
  BY DEF Ordered
<1> QED BY <1>5, <1>6, <1>7, <1>8, <1>9 DEF Ordered

\* A message that arrives and leaves, or is dropped, at once: it passes the queue
\* of an interface v that nobody else uses.
Passed(o, x, o2, x2, n, f, msg) ==
  /\ o2 = [o EXCEPT ![n] = @ \o [a \in DOMAIN f |-> <<msg>>[f[a]]]]
  /\ x2 = x \cup {<<msg>>[b] : b \in {y \in 1 .. 1 : \A a \in DOMAIN f : f[a] # y}}

\* Nothing of the source s waits in a queue.
NoneWaits(L, p, nm, s) == \A j \in L : nm[j] = s => Len(p[j]) = 0

LEMMA PassKeeps ==
  ASSUME NEW L, NEW p \in [L -> Seq(Message)], NEW o \in [AllNames -> Seq(Message)],
         NEW x \in SUBSET Message, NEW c \in Nat, Kept(L, p, o, x, c),
         NEW msg \in Message, msg.n = c + 1, NEW n \in AllNames, NEW f \in Choices(1),
         NEW o2, NEW x2, Passed(o, x, o2, x2, n, f, msg), NEW nm
  PROVE  /\ o2 \in [AllNames -> Seq(Message)] /\ x2 \in SUBSET Message
         /\ Kept(L, p, o2, x2, c + 1)
         /\ Ordered(L, p, o, nm) /\ NoneWaits(L, p, nm, msg.src) => Ordered(L, p, o2, nm)
<1>14. PICK v : v \notin L
  BY NoSetContainsEverything
<1> DEFINE L1 == L \cup {v}
           p0 == [j \in L1 |-> IF j = v THEN <<>> ELSE p[j]]
           p1 == [p0 EXCEPT ![v] = Append(@, msg)]
           p2 == [p1 EXCEPT ![v] = SubSeq(@, 1 + 1, Len(@))]
<1>1. /\ v \in L1 /\ L \subseteq L1 /\ p0 \in [L1 -> Seq(Message)]
      /\ Len(p0[v]) = 0 /\ p0[v] = <<>> /\ \A j \in L : p0[j] = p[j]
      /\ \A j \in L1 : j = v \/ j \in L
  BY <1>14
<1>2. p1 = [p0 EXCEPT ![v] = Append(@, msg)]
  OBVIOUS
<1>3. p2 = [p1 EXCEPT ![v] = SubSeq(@, 1 + 1, Len(@))]
  OBVIOUS
<1>4. p1[v] = <<msg>>
  <2>1. Append(<<>>, msg) = <<msg>>
    OBVIOUS
  <2> QED BY <1>1, <2>1
<1> HIDE DEF L1, p0, p1, p2
<1>5. Kept(L1, p0, o, x, c)
  <2>1. /\ \A j \in L : Len(p[j]) = 0 \/ (j \in L1 /\ p0[j] = p[j])
        /\ \A j \in L1 : Len(p0[j]) = 0 \/ (j \in L /\ p0[j] = p[j])
    BY <1>1
  <2> QED BY <2>1, FrameKeeps
<1>13. Longer(L1, p0, p1, v, msg)
  BY <1>1, <1>2, LongerQueue
<1>6. p1 \in [L1 -> Seq(Message)] /\ Kept(L1, p1, o, x, c + 1)
  <2>1. p1 \in [L1 -> Seq(Message)]
    BY <1>13 DEF Longer
  <2> QED BY <1>1, <1>5, <1>13, <2>1, ArriveKeeps
<1>7. Moved(p1, o, x, p2, o2, x2, v, n, 1, f)
  BY <1>3, <1>4 DEF Moved, Passed
<1>8. Len(p1[v]) = 1 /\ 1 \in 0 .. Len(p1[v]) /\ c + 1 \in Nat
  BY <1>4
<1>9. Kept(L1, p2, o2, x2, c + 1)
  BY <1>1, <1>6, <1>7, <1>8, MoveKeeps
<1>10. /\ o2 \in [AllNames -> Seq(Message)] /\ x2 \in SUBSET Message
       /\ Len(p2[v]) = 0 /\ \A j \in L : p2[j] = p[j]
  <2>1. PICK m \in 0 .. 1 : WasAt(L1, p1, o, x, p2, o2, x2, v, n, 1, f, m)
    BY <1>1, <1>6, <1>7, <1>8, MovedEffect
  <2>2. /\ o2 \in [AllNames -> Seq(Message)] /\ x2 \in SUBSET Message
        /\ Len(p2[v]) = Len(p1[v]) - 1 /\ \A j \in L1 \ {v} : p2[j] = p1[j]
    BY <2>1, Zenon DEF WasAt
  <2>3. \A j \in L1 \ {v} : p1[j] = p0[j]
    BY <1>13 DEF Longer
  <2>4. \A j \in L : p2[j] = p[j]
    <3>1. \A j \in L : j \in L1 \ {v}
      BY <1>1, <1>14
    <3> QED BY <1>1, <2>2, <2>3, <3>1
  <2>5. Len(p2[v]) = 0
    BY <1>8, <2>2
  <2> QED BY <2>2, <2>4, <2>5
<1>11. Kept(L, p, o2, x2, c + 1)
  <2>1. /\ \A j \in L1 : Len(p2[j]) = 0 \/ (j \in L /\ p[j] = p2[j])
        /\ \A j \in L : Len(p[j]) = 0 \/ (j \in L1 /\ p[j] = p2[j])
    BY <1>1, <1>10
  <2> QED BY <1>9, <2>1, FrameKeeps
<1>12. ASSUME Ordered(L, p, o, nm), NoneWaits(L, p, nm, msg.src)
       PROVE  Ordered(L, p, o2, nm)
  <2> DEFINE nv == [j \in L1 |-> IF j = v THEN msg.src ELSE nm[j]]
  <2>1. msg.src = nv[v] /\ \A j \in L : nv[j] = nm[j]
    BY <1>1, <1>14
  <2> HIDE DEF nv
  <2>2. Ordered(L1, p0, o, nv)
    <3>1. \A j \in L1 : \/ Len(p0[j]) = 0
                        \/ j \in L /\ p0[j] = p[j] /\ nv[j] = nm[j]
      BY <1>1, <2>1
    <3> QED BY <1>12, <3>1, FrameOrders
  <2>3. \A j \in L1 : nv[j] = nv[v] /\ Len(p0[j]) > 0 => j = v
    BY <1>1, <1>12, <2>1 DEF NoneWaits
  <2>4. Ordered(L1, p1, o, nv)
    BY <1>1, <1>5, <1>13, <1>14, <2>1, <2>2, <2>3, ArriveOrders, SMTT(30)
  <2>5. Ordered(L1, p2, o2, nv)
    BY <1>1, <1>6, <1>7, <1>8, <2>4, MoveOrders
  <2>6. \A j \in L : \/ Len(p[j]) = 0
                     \/ j \in L1 /\ p[j] = p2[j] /\ nm[j] = nv[j]
    BY <1>1, <1>10, <2>1
  <2> QED BY <2>5, <2>6, FrameOrders
<1> QED BY <1>10, <1>11, <1>12

-----------------------------------------------------------------------------
(* What the steps do to the messages *)

LEMMA MsgTypes ==
  ASSUME MgrInv, MsgInv
  PROVE  /\ Pend \in [live -> Seq(Message)] /\ count \in Nat /\ NULL \notin live
         /\ live \subseteq AllAddrs
         /\ \A i \in live : Pend[i] = iface[i].pending /\ NameOf[i] = iface[i].name
         /\ out \in [AllNames -> Seq(Message)] /\ lost \in SUBSET Message
         /\ Kept(live, Pend, out, lost, count)
<1>1. /\ MgrType /\ live \subseteq AllAddrs /\ count \in Nat
  BY DEF MgrInv, MgrType
<1>2. \A i \in live : iface[i].pending \in Seq(Message)
  BY <1>1, IfaceParts
<1>3. Pend \in [live -> Seq(Message)]
  BY <1>2 DEF Pend
<1>4. \A i \in live : Pend[i] = iface[i].pending /\ NameOf[i] = iface[i].name
  BY DEF Pend, NameOf
<1>5. NULL \notin live
  BY <1>1, NullIsNoAddress
<1> QED BY <1>1, <1>3, <1>4, <1>5 DEF MsgInv

\* A step that leaves the messages where they are.
LEMMA MsgQuiet ==
  ASSUME MgrInv, MsgInv, UNCHANGED <<live, out, lost, count>>,
         incidents \subseteq incidents',
         \A i \in live : /\ iface'[i].name = iface[i].name
                         /\ iface'[i].managed = iface[i].managed
                         /\ iface'[i].pending = iface[i].pending
  PROVE  MsgInv'
<1>1. Pend' = Pend /\ NameOf' = NameOf
  BY DEF Pend, NameOf
<1>2. Kept(live, Pend, out, lost, count)'
  BY <1>1 DEF MsgInv
<1>3. (incidents \cap {"nomem", "duplicate"} = {} => Ordered(live, Pend, out, NameOf))'
  BY <1>1 DEF MsgInv
<1>4. \A i \in live' : /\ iface'[i].name = Ctl => iface'[i].managed
                       /\ iface'[i].managed => iface'[i].pending = <<>>
  BY DEF MsgInv
<1> QED BY <1>2, <1>3, <1>4 DEF MsgInv

\* A step that passes the message of the source name on, or drops it.
LEMMA MsgPass ==
  ASSUME MgrInv, MsgInv, NEW name \in AllNames, Receive(name), NEW n \in AllNames,
         NEW f \in Choices(1), Passed(out, lost, out', lost', n, f, Msg(name)),
         UNCHANGED <<live, iface>>, incidents \subseteq incidents',
         incidents' \cap {"nomem", "duplicate"} = {} =>
           \A i \in live : iface[i].name = name => Len(iface[i].pending) = 0
  PROVE  MsgInv'
<1>1. /\ Pend \in [live -> Seq(Message)] /\ count \in Nat /\ NULL \notin live
      /\ \A i \in live : Pend[i] = iface[i].pending /\ NameOf[i] = iface[i].name
      /\ out \in [AllNames -> Seq(Message)] /\ lost \in SUBSET Message
      /\ Kept(live, Pend, out, lost, count)
  BY MsgTypes
<1>2. Msg(name) \in Message /\ Msg(name).n = count + 1 /\ Msg(name).src = name
  BY ReceiveCounts DEF MgrInv, Msg
<1>3. count' = count + 1
  BY DEF Receive
<1>4. Pend' = Pend /\ NameOf' = NameOf
  BY DEF Pend, NameOf
<1>5. /\ out' \in [AllNames -> Seq(Message)] /\ lost' \in SUBSET Message
      /\ Kept(live, Pend, out', lost', count + 1)
      /\ Ordered(live, Pend, out, NameOf) /\ NoneWaits(live, Pend, NameOf, Msg(name).src)
           => Ordered(live, Pend, out', NameOf)
  <2>1. PICK L, p, o, x, c, msg, o2, x2, nm :
          /\ L = live /\ p = Pend /\ o = out /\ x = lost /\ c = count
          /\ msg = Msg(name) /\ o2 = out' /\ x2 = lost' /\ nm = NameOf
    BY Zenon
  <2>2. /\ p \in [L -> Seq(Message)] /\ o \in [AllNames -> Seq(Message)]
        /\ x \in SUBSET Message /\ c \in Nat /\ Kept(L, p, o, x, c)
        /\ msg \in Message /\ msg.n = c + 1 /\ Passed(o, x, o2, x2, n, f, msg)
    BY <1>1, <1>2, <2>1
  <2>3. /\ o2 \in [AllNames -> Seq(Message)] /\ x2 \in SUBSET Message
        /\ Kept(L, p, o2, x2, c + 1)
        /\ Ordered(L, p, o, nm) /\ NoneWaits(L, p, nm, msg.src) => Ordered(L, p, o2, nm)
    BY <2>2, PassKeeps
  <2> QED BY <2>1, <2>3
<1>6. Kept(live, Pend, out, lost, count)'
  BY <1>3, <1>4, <1>5
<1>7. ASSUME incidents' \cap {"nomem", "duplicate"} = {}
      PROVE  Ordered(live, Pend, out', NameOf)
  <2>1. Ordered(live, Pend, out, NameOf)
    BY <1>7 DEF MsgInv
  <2>2. NoneWaits(live, Pend, NameOf, Msg(name).src)
    BY <1>1, <1>2, <1>7 DEF NoneWaits
  <2> QED BY <1>5, <2>1, <2>2
<1>8. (incidents \cap {"nomem", "duplicate"} = {} => Ordered(live, Pend, out, NameOf))'
  BY <1>4, <1>7
<1>9. \A i \in live' : /\ iface'[i].name = Ctl => iface'[i].managed
                       /\ iface'[i].managed => iface'[i].pending = <<>>
  BY DEF MsgInv
<1> QED BY <1>5, <1>6, <1>8, <1>9 DEF MsgInv

\* The two ways in which one message passes.
LEMMA PassedOut ==
  ASSUME NEW o \in [AllNames -> Seq(Message)], NEW x, NEW n \in AllNames,
         NEW msg \in Message, NEW o2, o2 = [o EXCEPT ![n] = Append(@, msg)]
  PROVE  \E f \in Choices(1) : Passed(o, x, o2, x, n, f, msg)
<1> DEFINE f == [a \in 1 .. 1 |-> a]
<1>1. f \in Choices(1)
  BY AllChosen
<1>2. DOMAIN f = 1 .. 1 /\ \A a \in 1 .. 1 : f[a] = a
  OBVIOUS
<1> HIDE DEF f
<1>3. [a \in DOMAIN f |-> <<msg>>[f[a]]] = <<msg>>
  <2>1. [a \in DOMAIN f |-> <<msg>>[f[a]]] = [a \in 1 .. 1 |-> <<msg>>[a]]
    BY <1>2
  <2>2. [a \in 1 .. 1 |-> <<msg>>[a]] = <<msg>>
    OBVIOUS
  <2> QED BY <2>1, <2>2
<1>4. {y \in 1 .. 1 : \A a \in DOMAIN f : f[a] # y} = {}
  BY <1>2
<1>5. x = x \cup {<<msg>>[b] : b \in {y \in 1 .. 1 : \A a \in DOMAIN f : f[a] # y}}
  BY <1>4
<1>6. Append(o[n], msg) = o[n] \o <<msg>>
  BY AppendIsConcat
<1>7. o2 = [o EXCEPT ![n] = o[n] \o [a \in DOMAIN f |-> <<msg>>[f[a]]]]
  BY <1>3, <1>6
<1>8. Passed(o, x, o2, x, n, f, msg)
  BY <1>5, <1>7, Zenon DEF Passed
<1> QED BY <1>1, <1>8

LEMMA PassedLost ==
  ASSUME NEW o \in [AllNames -> Seq(Message)], NEW x, NEW n \in AllNames,
         NEW msg \in Message
  PROVE  \E f \in Choices(1) : Passed(o, x, o, x \cup {msg}, n, f, msg)
<1> DEFINE f == [a \in 1 .. 0 |-> a]
<1>1. f \in Choices(1)
  BY NoneChosen
<1>2. DOMAIN f = 1 .. 0
  OBVIOUS
<1> HIDE DEF f
<1>3. [a \in DOMAIN f |-> <<msg>>[f[a]]] = <<>>
  BY <1>2
<1>4. {y \in 1 .. 1 : \A a \in DOMAIN f : f[a] # y} = {1}
  BY <1>2
<1>5. {<<msg>>[b] : b \in {1}} = {msg}
  OBVIOUS
<1>6. x \cup {msg} = x \cup {<<msg>>[b] : b \in {y \in 1 .. 1 :
                                                \A a \in DOMAIN f : f[a] # y}}
  BY <1>4, <1>5
<1>7. o[n] \o <<>> = o[n]
  OBVIOUS
<1>8. o = [o EXCEPT ![n] = o[n] \o [a \in DOMAIN f |-> <<msg>>[f[a]]]]
  BY <1>3, <1>7
<1>9. Passed(o, x, o, x \cup {msg}, n, f, msg)
  BY <1>6, <1>8, Zenon DEF Passed
<1> QED BY <1>1, <1>9

\* The first k messages of a queue.
LEMMA Prefix ==
  ASSUME NEW s \in Seq(Message), NEW k \in 0 .. Len(s)
  PROVE  /\ SubSeq(s, 1, k) \in Seq(Message) /\ Len(SubSeq(s, 1, k)) = k
         /\ \A b \in 1 .. k : SubSeq(s, 1, k)[b] = s[b]
         /\ SubSeq(s, 1, k) = [b \in 1 .. k |-> s[b]]
         /\ Elems(SubSeq(s, 1, k)) = {s[b] : b \in 1 .. k}
<1>1. Len(s) \in Nat /\ k \in Nat /\ \A b \in 1 .. k : b \in 1 .. Len(s)
  OBVIOUS
<1>2. /\ SubSeq(s, 1, k) \in Seq(Message) /\ Len(SubSeq(s, 1, k)) = k
      /\ \A b \in 1 .. k : SubSeq(s, 1, k)[b] = s[b]
  <2>1. SubSeq(s, 1, k) \in Seq(Message)
    BY <1>1, SubSeqProperties
  <2>2. Len(SubSeq(s, 1, k)) = k
    BY <1>1, SubSeqProperties
  <2>3. \A b \in 1 .. k : SubSeq(s, 1, k)[b] = s[b]
    BY <1>1, SubSeqProperties
  <2> QED BY <2>1, <2>2, <2>3
<1>3. PICK t \in Seq(Message) : t = SubSeq(s, 1, k)
  BY <1>2
<1>4. t = [b \in 1 .. Len(t) |-> t[b]]
  OBVIOUS
<1>5. t = [b \in 1 .. k |-> s[b]]
  BY <1>2, <1>3, <1>4
<1>6. {t[b] : b \in 1 .. Len(t)} = {s[b] : b \in 1 .. k}
  BY <1>2, <1>3
<1> QED BY <1>2, <1>3, <1>5, <1>6 DEF Elems

\* All of the first k messages go to n.
LEMMA MovedOut ==
  ASSUME NEW L, NEW p \in [L -> Seq(Message)], NEW o, NEW x,
         NEW i \in L, NEW n \in AllNames, NEW k \in 0 .. Len(p[i]),
         NEW p2, p2 = [p EXCEPT ![i] = SubSeq(@, k + 1, Len(@))],
         NEW o2, o2 = [o EXCEPT ![n] = @ \o SubSeq(p[i], 1, k)]
  PROVE  \E f \in Choices(k) : Moved(p, o, x, p2, o2, x, i, n, k, f)
<1> DEFINE f == [a \in 1 .. k |-> a]
<1>1. p[i] \in Seq(Message) /\ k \in Nat
  OBVIOUS
<1>2. f \in Choices(k)
  BY <1>1, AllChosen
<1>3. DOMAIN f = 1 .. k /\ \A a \in 1 .. k : f[a] = a
  OBVIOUS
<1> HIDE DEF f
<1>4. [a \in DOMAIN f |-> p[i][f[a]]] = SubSeq(p[i], 1, k)
  <2>1. [a \in DOMAIN f |-> p[i][f[a]]] = [a \in 1 .. k |-> p[i][a]]
    BY <1>3
  <2>2. SubSeq(p[i], 1, k) = [a \in 1 .. k |-> p[i][a]]
    BY <1>1, Prefix
  <2> QED BY <2>1, <2>2
<1>5. {y \in 1 .. k : \A a \in DOMAIN f : f[a] # y} = {}
  BY <1>3
<1>6. x = x \cup {p[i][b] : b \in {y \in 1 .. k : \A a \in DOMAIN f : f[a] # y}}
  BY <1>5
<1>7. Moved(p, o, x, p2, o2, x, i, n, k, f)
  BY <1>4, <1>6, Zenon DEF Moved
<1> QED BY <1>2, <1>7

\* All of them are dropped.
LEMMA MovedLost ==
  ASSUME NEW L, NEW p \in [L -> Seq(Message)], NEW o \in [AllNames -> Seq(Message)],
         NEW x, NEW i \in L, NEW n \in AllNames, NEW k \in 0 .. Len(p[i]),
         NEW p2, p2 = [p EXCEPT ![i] = SubSeq(@, k + 1, Len(@))],
         NEW x2, x2 = x \cup {p[i][b] : b \in 1 .. k}
  PROVE  \E f \in Choices(k) : Moved(p, o, x, p2, o, x2, i, n, k, f)
<1> DEFINE f == [a \in 1 .. 0 |-> a]
<1>1. k \in Nat
  OBVIOUS
<1>2. f \in Choices(k)
  BY <1>1, NoneChosen
<1>3. DOMAIN f = 1 .. 0
  OBVIOUS
<1> HIDE DEF f
<1>4. [a \in DOMAIN f |-> p[i][f[a]]] = <<>>
  BY <1>3
<1>5. {y \in 1 .. k : \A a \in DOMAIN f : f[a] # y} = 1 .. k
  BY <1>3
<1>6. x2 = x \cup {p[i][b] : b \in {y \in 1 .. k : \A a \in DOMAIN f : f[a] # y}}
  BY <1>5
<1>7. o[n] \o <<>> = o[n]
  OBVIOUS
<1>8. o = [o EXCEPT ![n] = o[n] \o [a \in DOMAIN f |-> p[i][f[a]]]]
  BY <1>4, <1>7
<1>9. Moved(p, o, x, p2, o, x2, i, n, k, f)
  BY <1>6, <1>8, Zenon DEF Moved
<1> QED BY <1>2, <1>9

\* Of the messages ms the chosen ones go to n, and the others are dropped.
Forwarded(o, x, o2, x2, n, ms, f) ==
  /\ o2 = [o EXCEPT ![n] = @ \o [a \in DOMAIN f |-> ms[f[a]]]]
  /\ x2 = x \cup {ms[b] : b \in {y \in 1 .. Len(ms) : \A a \in DOMAIN f : f[a] # y}}

\* Some of them go to n, in a buffer of fixed size.
LEMMA MovedSome ==
  ASSUME NEW L, NEW p \in [L -> Seq(Message)], NEW o, NEW x,
         NEW i \in L, NEW n \in AllNames, NEW k \in 0 .. Len(p[i]),
         NEW p2, p2 = [p EXCEPT ![i] = SubSeq(@, k + 1, Len(@))],
         NEW ms, ms = SubSeq(p[i], 1, k), NEW f \in Choices(Len(ms)),
         NEW o2, NEW x2, Forwarded(o, x, o2, x2, n, ms, f)
  PROVE  \E g \in Choices(k) : Moved(p, o, x, p2, o2, x2, i, n, k, g)
<1>1. p[i] \in Seq(Message) /\ k \in Nat
  OBVIOUS
<1>2. Len(ms) = k /\ \A b \in 1 .. k : ms[b] = p[i][b]
  BY <1>1, Prefix
<1>3. f \in Choices(k)
  BY <1>2
<1>4. PICK m \in 0 .. k : DOMAIN f = 1 .. m /\ f \in [1 .. m -> 1 .. k]
  BY <1>1, <1>3, ChoiceShape
<1>5. [a \in DOMAIN f |-> ms[f[a]]] = [a \in DOMAIN f |-> p[i][f[a]]]
  BY <1>2, <1>4
<1>6. {ms[b] : b \in {y \in 1 .. Len(ms) : \A a \in DOMAIN f : f[a] # y}}
        = {p[i][b] : b \in {y \in 1 .. k : \A a \in DOMAIN f : f[a] # y}}
  BY <1>2
<1>7. Moved(p, o, x, p2, o2, x2, i, n, k, f)
  BY <1>5, <1>6, Zenon DEF Moved, Forwarded
<1> QED BY <1>3, <1>7

LEMMA ForwardEffect ==
  ASSUME NEW partner, NEW ms, RawForward(partner, ms)
  PROVE  \E f \in Choices(Len(ms)) :
           Forwarded(out, lost, out', lost', iface[partner].name, ms, f)
BY Zenon DEF RawForward, Forwarded

-----------------------------------------------------------------------------
(* The messages in every step *)

LEMMA CmdForgetMsgs ==
  ASSUME MgrInv, MsgInv, NEW name \in AllNames, CmdForget(name)
  PROVE  MsgInv'
<1>1. PICK i \in live : iface' = Forget(iface, i)
  BY LookupFinds DEF CmdForget
<1>2. UNCHANGED <<live, out, lost, count, incidents>>
  BY DEF CmdForget
<1>3. i \in AllAddrs /\ live \subseteq AllAddrs /\ iface \in [AllAddrs -> Interface]
  BY DEF MgrInv, MgrType
<1>4. \A j \in live : /\ iface'[j].name = iface[j].name
                      /\ iface'[j].managed = iface[j].managed
                      /\ iface'[j].pending = iface[j].pending
  BY <1>1, <1>3, ForgetEffect
<1> QED BY <1>2, <1>4, MsgQuiet

LEMMA UndoneMsgs ==
  ASSUME MgrInv, MsgInv, NEW name \in AllNames, NEW managed \in BOOLEAN, NEW i \in Addrs,
         \/ CmdOpenFails(name, managed, i) \/ CmdOpenDuplicate(name, managed, i)
         \/ CmdOpenUnstored(name, managed, i) /\ UNCHANGED status
  PROVE  MsgInv'
<1>1. /\ i \notin live /\ iface' = OpenUndone(name, managed, i) /\ MgrType
      /\ UNCHANGED <<live, out, lost, count>> /\ incidents \subseteq incidents'
  BY DEF CmdOpenFails, CmdOpenDuplicate, CmdOpenUnstored, Command, MgrInv
<1>2. \A j \in live : /\ iface'[j].name = iface[j].name
                      /\ iface'[j].managed = iface[j].managed
                      /\ iface'[j].pending = iface[j].pending
  BY <1>1, UndoneEffect
<1> QED BY <1>1, <1>2, MsgQuiet

LEMMA CmdOpenUnstoredMsgs ==
  ASSUME MgrInv, MsgInv, NEW name \in Names, NEW managed \in BOOLEAN, NEW i \in Addrs,
         CmdOpenUnstored(name, managed, i)
  PROVE  MsgInv'
<1>1. CASE UNCHANGED <<iface, loop, orphans>>
  BY <1>1, MsgQuiet DEF CmdOpenUnstored
<1>2. CASE UNCHANGED status
  BY <1>2, UndoneMsgs DEF AllNames
<1> QED BY <1>1, <1>2 DEF CmdOpenUnstored

\* As long as no name was reused, the interface that gets the data of a device is
\* the only one of that name.
LEMMA OwnInterface ==
  ASSUME MgrInv, NEW name \in AllNames, loop[name] # NULL, name \notin orphans,
         "duplicate" \notin incidents
  PROVE  /\ loop[name] \in live /\ iface[loop[name]].name = name
         /\ \A i \in live : iface[i].name = name => i = loop[name]
<1>1. PICK i \in live : iface[i].name = name
  BY DEF MgrInv, NamesAreUnique
<1>2. i = loop[name]
  BY <1>1 DEF MgrInv, CallbacksFindInterface
<1> QED BY <1>1, <1>2 DEF MgrInv, NamesAreUnique

LEMMA RawRoutedMsgs ==
  ASSUME MgrInv, MsgInv, NEW name \in Names, RawRouted(name)
  PROVE  MsgInv'
<1>1. /\ name \in AllNames /\ Receive(name) /\ loop[name] # NULL /\ name \notin orphans
      /\ UNCHANGED <<live, iface, incidents>>
  BY DEF RawRouted, AllNames, Receive
<1>2. PICK partner \in live : /\ partner = iface[loop[name]].partner
                              /\ RawForward(partner, <<Msg(name)>>)
  BY DEF RawRouted
<1>3. PICK n \in AllNames : n = iface[partner].name
  BY <1>2, IfaceParts DEF MgrInv, MgrType
<1>4. Len(<<Msg(name)>>) = 1
  OBVIOUS
<1>5. PICK f \in Choices(1) : Passed(out, lost, out', lost', n, f, Msg(name))
  BY <1>2, <1>3, <1>4 DEF RawForward, Passed
<1>6. ASSUME incidents' \cap {"nomem", "duplicate"} = {}, NEW i \in live,
             iface[i].name = name
      PROVE  Len(iface[i].pending) = 0
  <2>1. "nomem" \notin incidents /\ "duplicate" \notin incidents
    BY <1>1, <1>6
  <2>2. i = loop[name]
    BY <1>1, <1>6, <2>1, OwnInterface
  <2>3. partner # NULL
    BY <1>2, NullIsNoAddress DEF MgrInv, MgrType
  <2>4. iface[i].pending = <<>>
    BY <1>2, <2>1, <2>2, <2>3 DEF MgrInv, RoutedHasNoPending
  <2> QED BY <2>4
<1> QED BY <1>1, <1>5, <1>6, MsgPass

LEMMA ManagedMsgs ==
  ASSUME MgrInv, MsgInv, NEW name \in AllNames, Managed(name)
  PROVE  MsgInv'
<1>1. Receive(name) /\ loop[name] # NULL /\ name \notin orphans /\ UNCHANGED <<live, iface, incidents>>
  BY DEF Managed, Receive
<1>2. Msg(name) \in Message /\ out \in [AllNames -> Seq(Message)]
  BY <1>1, ReceiveCounts DEF MgrInv, MsgInv
<1>3. PICK n \in AllNames : \E f \in Choices(1) :
        Passed(out, lost, out', lost', n, f, Msg(name))
  <2>1. CASE \E dest \in AllNames : /\ out' = [out EXCEPT ![dest] = Append(@, Msg(name))]
                                    /\ lost' = lost
    <3>1. PICK dest \in AllNames : /\ out' = [out EXCEPT ![dest] = Append(@, Msg(name))]
                                   /\ lost' = lost
      BY <2>1
    <3>2. PICK o, o2, x, msg : o = out /\ o2 = out' /\ x = lost /\ msg = Msg(name)
      BY Zenon
    <3>3. \E f \in Choices(1) : Passed(o, x, o2, x, dest, f, msg)
      BY <1>2, <3>1, <3>2, PassedOut
    <3> QED BY <3>1, <3>2, <3>3
  <2>2. CASE lost' = lost \cup {Msg(name)} /\ out' = out
    <3>1. PICK o, x, msg : o = out /\ x = lost /\ msg = Msg(name)
      BY Zenon
    <3>2. \E f \in Choices(1) : Passed(o, x, o, x \cup {msg}, name, f, msg)
      BY <1>2, <3>1, PassedLost
    <3> QED BY <2>2, <3>1, <3>2
  <2> QED BY <2>1, <2>2 DEF Managed
<1>4. ASSUME incidents' \cap {"nomem", "duplicate"} = {}, NEW i \in live,
             iface[i].name = name
      PROVE  Len(iface[i].pending) = 0
  <2>1. "duplicate" \notin incidents
    BY <1>1, <1>4
  <2>2. i = loop[name]
    BY <1>1, <1>4, <2>1, OwnInterface
  <2>3. iface[i].managed
    BY <1>4, <2>2 DEF Managed, MsgInv
  <2>4. iface[i].pending = <<>>
    BY <2>3 DEF MsgInv
  <2> QED BY <2>4
<1> QED BY <1>1, <1>3, <1>4, MsgPass

LEMMA HandlerUsesFreedMsgs ==
  ASSUME MgrInv, MsgInv, NEW name \in Names, HandlerUsesFreed(name)
  PROVE  MsgInv'
<1>1. /\ name \in AllNames /\ Receive(name) /\ loop[name] # NULL /\ name \notin orphans
      /\ UNCHANGED <<live, iface, incidents, out>> /\ lost' = lost \cup {Msg(name)}
  BY DEF HandlerUsesFreed, AllNames, Receive
<1>2. Msg(name) \in Message /\ out \in [AllNames -> Seq(Message)]
  BY <1>1, ReceiveCounts DEF MgrInv, MsgInv
<1>3. PICK f \in Choices(1) : Passed(out, lost, out', lost', name, f, Msg(name))
  <2>1. PICK o, x, msg : o = out /\ x = lost /\ msg = Msg(name)
    BY Zenon
  <2>2. \E f \in Choices(1) : Passed(o, x, o, x \cup {msg}, name, f, msg)
    BY <1>1, <1>2, <2>1, PassedLost
  <2> QED BY <1>1, <2>1, <2>2
<1>4. ASSUME incidents' \cap {"nomem", "duplicate"} = {}, NEW i \in live,
             iface[i].name = name
      PROVE  Len(iface[i].pending) = 0
  <2>1. "nomem" \notin incidents /\ "duplicate" \notin incidents
    BY <1>1, <1>4
  <2>2. i = loop[name]
    BY <1>1, <1>4, <2>1, OwnInterface
  <2>3. iface[i].partner # NULL
    BY <2>2 DEF HandlerUsesFreed
  <2>4. iface[i].pending = <<>>
    BY <2>1, <2>3 DEF MgrInv, RoutedHasNoPending
  <2> QED BY <2>4
<1> QED BY <1>1, <1>3, <1>4, MsgPass

LEMMA RawPendingMsgs ==
  ASSUME MgrInv, MsgInv, NEW name \in Names, RawPending(name)
  PROVE  MsgInv'
<1>1. /\ name \in AllNames /\ Receive(name) /\ loop[name] # NULL /\ name \notin orphans
      /\ UNCHANGED <<live, out>> /\ incidents \subseteq incidents' /\ count' = count + 1
  BY DEF RawPending, AllNames, Receive
<1>2. PICK msg \in Message : msg = Msg(name) /\ msg.n = count + 1 /\ msg.src = name
  BY <1>1, ReceiveCounts DEF MgrInv, Msg
<1>3. /\ Pend \in [live -> Seq(Message)] /\ count \in Nat /\ live \subseteq AllAddrs
      /\ \A i \in live : Pend[i] = iface[i].pending /\ NameOf[i] = iface[i].name
      /\ out \in [AllNames -> Seq(Message)] /\ lost \in SUBSET Message
      /\ Kept(live, Pend, out, lost, count)
  BY MsgTypes
<1>4. PICK self \in live : self = loop[name] /\ ~iface[self].managed
  BY DEF RawPending
<1>5. CASE /\ iface' = [iface EXCEPT ![self].pending = Enqueue(@, Msg(name))]
           /\ lost' = lost /\ incidents' = incidents
  <2>1. self \in AllAddrs /\ iface \in [AllAddrs -> Interface] /\ iface[self] \in Interface
    BY <1>3 DEF MgrInv, MgrType
  <2>2. PICK q \in Seq(Message) : q = Append(iface[self].pending, msg)
    <3>1. iface[self].pending \in Seq(Message)
      BY <1>3
    <3>2. Append(iface[self].pending, msg) \in Seq(Message)
      BY <3>1
    <3> QED BY <3>2
  <2>3. iface' = [iface EXCEPT ![self] = [iface[self] EXCEPT !.pending = q]]
    BY <1>2, <1>5, <2>2 DEF Enqueue
  <2>4. PICK y \in Interface : /\ y = [iface[self] EXCEPT !.pending = q]
                               /\ y.name = iface[self].name
                               /\ y.managed = iface[self].managed /\ y.pending = q
    BY <2>1, <2>2, WithPending
  <2>5. iface'[self] = y /\ \A j \in AllAddrs \ {self} : iface'[j] = iface[j]
    BY <2>1, <2>3, <2>4
  <2>6. NameOf' = NameOf
    BY <1>1, <1>3, <2>4, <2>5 DEF NameOf
  <2>7. Pend' = [Pend EXCEPT ![self] = Append(@, msg)]
    <3>1. Pend' = [j \in live |-> iface'[j].pending]
      BY <1>1 DEF Pend
    <3>2. \A j \in live : iface'[j].pending = IF j = self THEN q ELSE Pend[j]
      BY <1>3, <2>4, <2>5
    <3>3. [Pend EXCEPT ![self] = q] = [j \in live |-> IF j = self THEN q ELSE Pend[j]]
      BY <1>3
    <3>4. q = Append(Pend[self], msg)
      BY <1>3, <2>2
    <3> QED BY <3>1, <3>2, <3>3, <3>4
  <2>8. PICK L, p, q2, o, x, c, nm :
          /\ L = live /\ p = Pend /\ q2 = Pend' /\ o = out /\ x = lost /\ c = count
          /\ nm = NameOf
    BY Zenon
  <2>9. /\ p \in [L -> Seq(Message)] /\ c \in Nat /\ Kept(L, p, o, x, c) /\ self \in L
        /\ msg.n = c + 1 /\ Longer(L, p, q2, self, msg)
    <3>1. /\ p \in [L -> Seq(Message)] /\ c \in Nat /\ Kept(L, p, o, x, c) /\ self \in L
          /\ msg.n = c + 1 /\ q2 = [p EXCEPT ![self] = Append(@, msg)]
      BY <1>2, <1>3, <2>7, <2>8
    <3> QED BY <3>1, LongerQueue
  <2>10. Kept(L, q2, o, x, c + 1)
    BY <2>9, ArriveKeeps
  <2>11. Kept(live, Pend, out, lost, count)'
    BY <1>1, <1>5, <2>8, <2>10
  <2>12. ASSUME incidents' \cap {"nomem", "duplicate"} = {} PROVE Ordered(L, q2, o, nm)
    <3>1. "duplicate" \notin incidents /\ Ordered(L, p, o, nm)
      BY <1>5, <2>8, <2>12 DEF MsgInv
    <3>2. msg.src = nm[self]
      BY <1>1, <1>2, <1>3, <1>4, <2>8, <3>1, OwnInterface
    <3>3. \A j \in L : nm[j] = nm[self] /\ Len(p[j]) > 0 => j = self
      BY <1>3, <2>8 DEF MgrInv, NamesAreUnique
    <3> QED BY <2>9, <3>1, <3>2, <3>3, ArriveOrders
  <2>13. (incidents \cap {"nomem", "duplicate"} = {} => Ordered(live, Pend, out, NameOf))'
    BY <1>1, <2>6, <2>8, <2>12
  <2>14. ASSUME NEW i \in live
         PROVE  /\ iface'[i].name = Ctl => iface'[i].managed
                /\ iface'[i].managed => iface'[i].pending = <<>>
    <3>1. /\ iface[i].name = Ctl => iface[i].managed
          /\ iface[i].managed => iface[i].pending = <<>>
      BY DEF MsgInv
    <3>2. CASE i = self
      BY <1>4, <2>4, <2>5, <3>1, <3>2
    <3>3. CASE i # self
      BY <1>3, <2>5, <3>1, <3>3
    <3> QED BY <3>2, <3>3
  <2> QED BY <1>1, <1>3, <1>5, <2>11, <2>13, <2>14 DEF MsgInv
<1>6. CASE /\ lost' = lost \cup {Msg(name)} /\ iface' = iface
           /\ incidents' = incidents \cup {"nomem"}
  <2>1. PICK o, x : o = out /\ x = lost
    BY Zenon
  <2>2. \E f \in Choices(1) : Passed(o, x, o, x \cup {msg}, name, f, msg)
    BY <1>1, <1>3, <2>1, PassedLost
  <2>3. PICK f \in Choices(1) : Passed(out, lost, out', lost', name, f, Msg(name))
    BY <1>1, <1>2, <1>6, <2>1, <2>2
  <2>4. ~(incidents' \cap {"nomem", "duplicate"} = {})
    BY <1>6
  <2> QED BY <1>1, <1>6, <2>3, <2>4, MsgPass
<1> QED BY <1>4, <1>5, <1>6 DEF RawPending

LEMMA CmdOpenMsgs ==
  ASSUME MgrInv, MsgInv, NEW name \in Names, NEW managed \in BOOLEAN, NEW i \in Addrs,
         CmdOpen(name, managed, i)
  PROVE  MsgInv'
<1>1. /\ i \notin live /\ live' = live \cup {i}
      /\ iface' = [iface EXCEPT ![i] = NewIface(name, managed)]
      /\ UNCHANGED <<out, lost, count, incidents>>
  BY DEF CmdOpen
<1>2. /\ i \in AllAddrs /\ name \in AllNames /\ name # Ctl
      /\ iface \in [AllAddrs -> Interface]
  BY DEF MgrInv, MgrType, AllAddrs, AllNames
<1>3. /\ Pend \in [live -> Seq(Message)] /\ live \subseteq AllAddrs
      /\ \A j \in live : Pend[j] = iface[j].pending /\ NameOf[j] = iface[j].name
      /\ out \in [AllNames -> Seq(Message)] /\ lost \in SUBSET Message
      /\ Kept(live, Pend, out, lost, count)
  BY MsgTypes
<1>4. /\ iface'[i].name = name /\ iface'[i].pending = <<>>
      /\ \A j \in live : j # i /\ iface'[j] = iface[j]
  <2>1. PICK y \in Interface : y = NewIface(name, managed) /\ y.name = name /\ y.pending = <<>>
    BY <1>2, NewIfaceType
  <2> QED BY <1>1, <1>2, <1>3, <2>1
<1>5. PICK L, p, o, x, c, nm, M, q, nq :
        /\ L = live /\ p = Pend /\ o = out /\ x = lost /\ c = count /\ nm = NameOf
        /\ M = live' /\ q = Pend' /\ nq = NameOf'
  BY Zenon
<1>6. /\ \A j \in M : q[j] = iface'[j].pending /\ nq[j] = iface'[j].name
      /\ M = L \cup {i} /\ i \notin L
  BY <1>1, <1>5 DEF Pend, NameOf
<1>7. /\ \A j \in L : j \in M /\ q[j] = p[j] /\ nq[j] = nm[j]
      /\ \A j \in M : Len(q[j]) = 0 \/ (j \in L /\ q[j] = p[j] /\ nq[j] = nm[j])
  BY <1>3, <1>4, <1>5, <1>6
<1>8. Kept(M, q, o, x, c)
  BY <1>3, <1>5, <1>7, FrameKeeps
<1>9. Kept(live, Pend, out, lost, count)'
  BY <1>1, <1>5, <1>8
<1>10. Ordered(L, p, o, nm) => Ordered(M, q, o, nq)
  BY <1>7, FrameOrders
<1>11. (incidents \cap {"nomem", "duplicate"} = {} => Ordered(live, Pend, out, NameOf))'
  BY <1>1, <1>5, <1>10 DEF MsgInv
<1>12. \A j \in live' : /\ iface'[j].name = Ctl => iface'[j].managed
                        /\ iface'[j].managed => iface'[j].pending = <<>>
  BY <1>1, <1>2, <1>4 DEF MsgInv
<1> QED BY <1>1, <1>3, <1>9, <1>11, <1>12 DEF MsgInv

\* What is left of the queue.
LEMMA FlushedPending ==
  ASSUME MgrType, NEW i \in AllAddrs, NEW k
  PROVE  Flushed(i, k).pending = SubSeq(iface[i].pending, k + 1, Len(iface[i].pending))
<1>1. PICK y \in Interface : y = iface[i]
  BY IfaceParts
<1>2. Flushed(i, k) = [y EXCEPT !.pending = SubSeq(y.pending, k + 1, Len(y.pending))]
  BY <1>1 DEF Flushed
<1>3. PICK s : s = SubSeq(y.pending, k + 1, Len(y.pending))
  BY Zenon
<1>4. [y EXCEPT !.pending = s].pending = s
  BY DEF Interface
<1> QED BY <1>1, <1>2, <1>3, <1>4

\* The first k messages of the queue of i leave, and nothing else changes.
LEMMA MsgMoved ==
  ASSUME MgrInv, MsgInv, UNCHANGED <<live, count>>, incidents \subseteq incidents',
         \A j \in live : /\ iface'[j].name = iface[j].name
                         /\ iface'[j].managed = iface[j].managed,
         NEW i \in live, NEW n \in AllNames, NEW k \in 0 .. Len(iface[i].pending),
         NEW f \in Choices(k), Moved(Pend, out, lost, Pend', out', lost', i, n, k, f),
         incidents' \cap {"nomem", "duplicate"} = {} => k = Len(iface[i].pending)
  PROVE  MsgInv'
<1>1. /\ Pend \in [live -> Seq(Message)] /\ count \in Nat
      /\ \A j \in live : Pend[j] = iface[j].pending /\ NameOf[j] = iface[j].name
      /\ out \in [AllNames -> Seq(Message)] /\ lost \in SUBSET Message
      /\ Kept(live, Pend, out, lost, count)
  BY MsgTypes
<1>2. NameOf' = NameOf /\ \A j \in live : Pend'[j] = iface'[j].pending
  BY DEF NameOf, Pend
<1>3. PICK L, p, o, x, c, nm, p2, o2, x2 :
        /\ L = live /\ p = Pend /\ o = out /\ x = lost /\ c = count /\ nm = NameOf
        /\ p2 = Pend' /\ o2 = out' /\ x2 = lost'
  BY Zenon
<1>4. /\ p2 \in [L -> Seq(Message)] /\ o2 \in [AllNames -> Seq(Message)]
      /\ x2 \in SUBSET Message
      /\ Kept(L, p2, o2, x2, c)
      /\ k = Len(p[i]) /\ Ordered(L, p, o, nm) => Ordered(L, p2, o2, nm)
      /\ k = Len(p[i]) => Len(p2[i]) = 0
      /\ \A j \in L \ {i} : p2[j] = p[j]
  <2>1. /\ p \in [L -> Seq(Message)] /\ c \in Nat /\ i \in L
        /\ o \in [AllNames -> Seq(Message)] /\ x \in SUBSET Message
        /\ Kept(L, p, o, x, c) /\ k \in 0 .. Len(p[i])
        /\ Moved(p, o, x, p2, o2, x2, i, n, k, f)
    BY <1>1, <1>3
  <2>2. /\ Kept(L, p2, o2, x2, c)
        /\ \E m \in 0 .. k : WasAt(L, p, o, x, p2, o2, x2, i, n, k, f, m)
    BY <2>1, MoveKeeps, MovedEffect
  <2>3. /\ p2 \in [L -> Seq(Message)] /\ o2 \in [AllNames -> Seq(Message)]
        /\ x2 \in SUBSET Message /\ Len(p2[i]) = Len(p[i]) - k
        /\ \A j \in L \ {i} : p2[j] = p[j]
    BY <2>2 DEF WasAt
  <2>4. ASSUME k = Len(p[i]), Ordered(L, p, o, nm) PROVE Ordered(L, p2, o2, nm)
    BY <2>1, <2>4, MoveOrders
  <2>5. k = Len(p[i]) => Len(p2[i]) = 0
    BY <2>1, <2>3
  <2> QED BY <2>2, <2>3, <2>4, <2>5
<1>5. /\ out' \in [AllNames -> Seq(Message)] /\ lost' \in SUBSET Message
      /\ Kept(live, Pend, out, lost, count)'
  BY <1>3, <1>4
<1>6. ASSUME incidents' \cap {"nomem", "duplicate"} = {} PROVE Ordered(L, p2, o2, nm)
  <2>1. Ordered(L, p, o, nm)
    BY <1>3, <1>6 DEF MsgInv
  <2> QED BY <1>1, <1>3, <1>4, <1>6, <2>1
<1>7. (incidents \cap {"nomem", "duplicate"} = {} => Ordered(live, Pend, out, NameOf))'
  BY <1>2, <1>3, <1>6
<1>8. ASSUME NEW j \in live
      PROVE  /\ iface'[j].name = Ctl => iface'[j].managed
             /\ iface'[j].managed => iface'[j].pending = <<>>
  <2>1. /\ iface[j].name = Ctl => iface[j].managed
        /\ iface[j].managed => iface[j].pending = <<>>
    BY DEF MsgInv
  <2>2. ASSUME iface[j].managed PROVE iface'[j].pending = <<>>
    <3>1. CASE j # i
      BY <1>1, <1>2, <1>3, <1>4, <2>1, <2>2, <3>1
    <3>2. CASE j = i
      <4>1. p[i] = <<>>
        BY <1>1, <1>3, <2>1, <2>2, <3>2
      <4>2. Len(p[i]) = 0 /\ k \in 0 .. Len(p[i])
        BY <1>1, <1>3, <4>1
      <4>3. Len(p2[i]) = 0 /\ p2[i] \in Seq(Message)
        BY <1>3, <1>4, <4>2
      <4>4. p2[i] = <<>>
        BY <4>3
      <4> QED BY <1>2, <1>3, <3>2, <4>4
    <3> QED BY <3>1, <3>2
  <2> QED BY <2>1, <2>2
<1> QED BY <1>5, <1>7, <1>8 DEF MsgInv

\* The queue of i in iface_trigger and cat.
LEMMA FlushedQueue ==
  ASSUME MgrType, NEW i \in live, NEW k \in FlushLengths(i),
         live' = live, iface' = [iface EXCEPT ![i] = Flushed(i, k)]
  PROVE  /\ Pend' = [Pend EXCEPT ![i] = SubSeq(@, k + 1, Len(@))]
         /\ \A j \in live : /\ iface'[j].name = iface[j].name
                            /\ iface'[j].managed = iface[j].managed
<1>1. i \in AllAddrs /\ live \subseteq AllAddrs /\ iface \in [AllAddrs -> Interface]
  BY DEF MgrType
<1>2. PICK y \in Interface : /\ y = Flushed(i, k) /\ y.name = iface[i].name
                             /\ y.managed = iface[i].managed
  BY <1>1, FlushedEffect
<1>3. iface'[i] = y /\ \A j \in live \ {i} : iface'[j] = iface[j]
  BY <1>1, <1>2
<1>4. y.pending = SubSeq(iface[i].pending, k + 1, Len(iface[i].pending))
  BY <1>1, <1>2, FlushedPending
<1>5. Pend' = [j \in live |-> iface'[j].pending] /\ Pend = [j \in live |-> iface[j].pending]
  BY DEF Pend
<1>6. Pend' = [Pend EXCEPT ![i] = y.pending]
  BY <1>3, <1>5
<1>7. Pend[i] = iface[i].pending
  BY <1>5
<1> QED BY <1>2, <1>3, <1>4, <1>6, <1>7

LEMMA CmdCatMsgs ==
  ASSUME MgrInv, MsgInv, NEW name \in AllNames, CmdCat(name)
  PROVE  MsgInv'
<1> DEFINE Sent(i, k) ==
             /\ iface' = [iface EXCEPT ![i] = Flushed(i, k)]
             /\ \/ /\ k = Len(iface[i].pending) /\ incidents' = incidents /\ lost' = lost
                   /\ out' = [out EXCEPT ![Ctl] = @ \o SubSeq(iface[i].pending, 1, k)]
                \/ /\ k = Len(iface[i].pending) \/ incidents' = incidents \cup {"nomem"}
                   /\ incidents \subseteq incidents' /\ out' = out
                   /\ lost' = lost \cup Elems(SubSeq(iface[i].pending, 1, k))
<1>1. PICK i \in live : \E k \in FlushLengths(i) : Sent(i, k)
  BY LookupFinds DEF CmdCat
<1>2. PICK k \in FlushLengths(i) : Sent(i, k)
  BY <1>1
<1>3. UNCHANGED <<live, count>> /\ incidents \subseteq incidents'
  BY <1>2 DEF CmdCat
<1>4. MgrType /\ i \in AllAddrs /\ Ctl \in AllNames
  BY DEF MgrInv, MgrType, AllNames
<1>5. /\ Pend' = [Pend EXCEPT ![i] = SubSeq(@, k + 1, Len(@))]
      /\ \A j \in live : /\ iface'[j].name = iface[j].name
                         /\ iface'[j].managed = iface[j].managed
  BY <1>2, <1>3, <1>4, FlushedQueue
<1>6. k \in 0 .. Len(iface[i].pending)
  BY <1>4, FlushedEffect
<1>7. incidents' \cap {"nomem", "duplicate"} = {} => k = Len(iface[i].pending)
  BY <1>2
<1>8. /\ Pend \in [live -> Seq(Message)] /\ Pend[i] = iface[i].pending
      /\ out \in [AllNames -> Seq(Message)]
  BY MsgTypes
<1>9. PICK L, p, o, x, p2, o2, x2 :
        /\ L = live /\ p = Pend /\ o = out /\ x = lost
        /\ p2 = Pend' /\ o2 = out' /\ x2 = lost'
  BY Zenon
<1>10. /\ p \in [L -> Seq(Message)] /\ i \in L /\ k \in 0 .. Len(p[i])
       /\ o \in [AllNames -> Seq(Message)]
       /\ p2 = [p EXCEPT ![i] = SubSeq(@, k + 1, Len(@))]
  BY <1>5, <1>6, <1>8, <1>9
<1>11. \E f \in Choices(k) : Moved(p, o, x, p2, o2, x2, i, Ctl, k, f)
  <2>1. CASE lost' = lost /\ out' = [out EXCEPT ![Ctl] = @ \o SubSeq(iface[i].pending, 1, k)]
    <3>1. x2 = x /\ o2 = [o EXCEPT ![Ctl] = @ \o SubSeq(p[i], 1, k)]
      BY <1>8, <1>9, <2>1
    <3>2. \E f \in Choices(k) : Moved(p, o, x, p2, o2, x, i, Ctl, k, f)
      BY <1>4, <1>10, <3>1, MovedOut
    <3> QED BY <3>1, <3>2
  <2>2. CASE out' = out /\ lost' = lost \cup Elems(SubSeq(iface[i].pending, 1, k))
    <3>1. o2 = o /\ x2 = x \cup Elems(SubSeq(p[i], 1, k))
      BY <1>8, <1>9, <2>2
    <3>2. Elems(SubSeq(p[i], 1, k)) = {p[i][b] : b \in 1 .. k}
      BY <1>10, Prefix
    <3>3. x2 = x \cup {p[i][b] : b \in 1 .. k}
      BY <3>1, <3>2
    <3>4. \E f \in Choices(k) : Moved(p, o, x, p2, o, x2, i, Ctl, k, f)
      BY <1>4, <1>10, <3>3, MovedLost
    <3> QED BY <3>1, <3>4
  <2> QED BY <1>2, <2>1, <2>2
<1>12. PICK f \in Choices(k) : Moved(Pend, out, lost, Pend', out', lost', i, Ctl, k, f)
  BY <1>9, <1>11
<1> QED BY <1>3, <1>4, <1>5, <1>6, <1>7, <1>12, MsgMoved

LEMMA CmdCloseMsgs ==
  ASSUME MgrInv, MsgInv, NEW name \in AllNames, CmdClose(name)
  PROVE  MsgInv'
<1>1. PICK i \in live : /\ live' = live \ {i}
                        /\ iface' = [Forget(iface, i) EXCEPT ![i] = Garbage]
                        /\ lost' = lost \cup Elems(iface[i].pending)
  BY LookupFinds DEF CmdClose
<1>2. UNCHANGED <<out, count>> /\ incidents \subseteq incidents'
  BY DEF CmdClose
<1>3. i \in AllAddrs /\ live \subseteq AllAddrs /\ iface \in [AllAddrs -> Interface]
  BY DEF MgrInv, MgrType
<1>4. \A j \in live' : /\ j \in live /\ j # i
                       /\ iface'[j].name = iface[j].name
                       /\ iface'[j].managed = iface[j].managed
                       /\ iface'[j].pending = iface[j].pending
  <2>1. PICK f \in [AllAddrs -> Interface] :
          /\ f = Forget(iface, i)
          /\ \A j \in AllAddrs : /\ f[j].name = iface[j].name
                                 /\ f[j].managed = iface[j].managed
                                 /\ f[j].pending = iface[j].pending
    BY <1>3, ForgetEffect
  <2>2. \A j \in AllAddrs \ {i} : iface'[j] = f[j]
    BY <1>1, <2>1
  <2> QED BY <1>1, <1>3, <2>1, <2>2
<1>5. /\ Pend \in [live -> Seq(Message)] /\ count \in Nat
      /\ \A j \in live : Pend[j] = iface[j].pending /\ NameOf[j] = iface[j].name
      /\ out \in [AllNames -> Seq(Message)] /\ lost \in SUBSET Message
      /\ Kept(live, Pend, out, lost, count)
  BY MsgTypes
<1>6. PICK L, p, o, x, c, nm, M, q, nq, x2, p2, k :
        /\ L = live /\ p = Pend /\ o = out /\ x = lost /\ c = count /\ nm = NameOf
        /\ M = live' /\ q = Pend' /\ nq = NameOf' /\ x2 = lost'
        /\ p2 = [Pend EXCEPT ![i] = SubSeq(@, Len(Pend[i]) + 1, Len(@))]
        /\ k = Len(Pend[i])
  BY Zenon
<1>7. /\ p \in [L -> Seq(Message)] /\ o \in [AllNames -> Seq(Message)]
      /\ x \in SUBSET Message /\ c \in Nat /\ Kept(L, p, o, x, c) /\ i \in L
      /\ p2 = [p EXCEPT ![i] = SubSeq(@, k + 1, Len(@))] /\ k = Len(p[i])
  BY <1>5, <1>6
<1>8. k \in 0 .. Len(p[i])
  BY <1>7
<1>9. x2 = x \cup {p[i][b] : b \in 1 .. k}
  BY <1>1, <1>5, <1>6, <1>7 DEF Elems
<1>10. PICK f \in Choices(k) : Moved(p, o, x, p2, o, x2, i, name, k, f)
  BY <1>7, <1>8, <1>9, MovedLost
<1>11. /\ x2 \in SUBSET Message /\ Kept(L, p2, o, x2, c) /\ Len(p2[i]) = 0
       /\ \A j \in L \ {i} : p2[j] = p[j]
  <2>1. /\ Kept(L, p2, o, x2, c)
        /\ \E m \in 0 .. k : WasAt(L, p, o, x, p2, o, x2, i, name, k, f, m)
    BY <1>7, <1>8, <1>10, MoveKeeps, MovedEffect
  <2>2. /\ x2 \in SUBSET Message /\ Len(p2[i]) = Len(p[i]) - k
        /\ \A j \in L \ {i} : p2[j] = p[j]
    BY <2>1 DEF WasAt
  <2> QED BY <1>7, <1>8, <2>1, <2>2
<1>12. Ordered(L, p, o, nm) => Ordered(L, p2, o, nm)
  <2> SUFFICES ASSUME Ordered(L, p, o, nm) PROVE Ordered(L, p2, o, nm)
    OBVIOUS
  <2> QED BY <1>7, <1>8, <1>10, MoveOrders
<1>13. /\ \A j \in L : Len(p2[j]) = 0 \/ (j \in M /\ q[j] = p2[j])
       /\ \A j \in M : j \in L /\ q[j] = p2[j] /\ nq[j] = nm[j]
  <2>1. \A j \in M : q[j] = iface'[j].pending /\ nq[j] = iface'[j].name
    BY <1>6 DEF Pend, NameOf
  <2>2. \A j \in M : j \in L \ {i} /\ q[j] = p[j] /\ nq[j] = nm[j]
    BY <1>4, <1>5, <1>6, <2>1
  <2>3. \A j \in L \ {i} : j \in M
    BY <1>1, <1>6
  <2> QED BY <1>11, <2>2, <2>3
<1>14. Kept(M, q, o, x2, c)
  BY <1>11, <1>13, FrameKeeps
<1>15. Kept(live, Pend, out, lost, count)' /\ lost' \in SUBSET Message
  BY <1>2, <1>6, <1>11, <1>14
<1>16. Ordered(L, p2, o, nm) => Ordered(M, q, o, nq)
  BY <1>13, FrameOrders
<1>17. (incidents \cap {"nomem", "duplicate"} = {} => Ordered(live, Pend, out, NameOf))'
  <2> SUFFICES ASSUME incidents' \cap {"nomem", "duplicate"} = {}
               PROVE  Ordered(M, q, o, nq)
    BY <1>2, <1>6
  <2>1. Ordered(L, p, o, nm)
    BY <1>2, <1>6 DEF MsgInv
  <2> QED BY <1>12, <1>16, <2>1
<1>18. \A j \in live' : /\ iface'[j].name = Ctl => iface'[j].managed
                        /\ iface'[j].managed => iface'[j].pending = <<>>
  BY <1>4 DEF MsgInv
<1> QED BY <1>2, <1>5, <1>15, <1>17, <1>18 DEF MsgInv

\* The queue of a raw interface that gets a partner.
LEMMA RoutedPending ==
  ASSUME MgrType, NEW i \in AllAddrs, NEW p \in AllAddrs, NEW k \in FlushLengths(i),
         ~iface[i].managed
  PROVE  Routed(i, p, k).pending = SubSeq(iface[i].pending, k + 1, Len(iface[i].pending))
<1>1. PICK x \in Interface : x = Flushed(i, k)
  BY FlushedEffect
<1>2. Routed(i, p, k) = [x EXCEPT !.partner = p]
  BY <1>1 DEF Routed
<1> QED BY <1>1, <1>2, FlushedPending, WithPartner

\* A route between a raw interface l and a managed one r.
LEMMA RouteToManaged ==
  ASSUME MgrInv, MsgInv, NEW l \in live, NEW r \in live, NEW k \in FlushLengths(l),
         ~iface[l].managed, UNCHANGED <<live, count>>, incidents \subseteq incidents',
         iface'[l] = Routed(l, r, k), \A j \in live \ {l} : iface'[j] = iface[j],
         incidents' \cap {"nomem", "duplicate"} = {} => k = Len(iface[l].pending),
         RawForward(r, SubSeq(iface[l].pending, 1, k))
  PROVE  MsgInv'
<1>1. /\ MgrType /\ l \in AllAddrs /\ r \in AllAddrs
      /\ iface[r].name \in AllNames
  BY IfaceParts DEF MgrInv, MgrType
<1>2. /\ Pend \in [live -> Seq(Message)]
      /\ \A j \in live : Pend[j] = iface[j].pending
  BY MsgTypes
<1>3. k \in 0 .. Len(iface[l].pending)
  BY <1>1, FlushedEffect
<1>4. \A j \in live : /\ iface'[j].name = iface[j].name
                      /\ iface'[j].managed = iface[j].managed
  BY <1>1, RoutedEffect
<1>5. Pend' = [Pend EXCEPT ![l] = SubSeq(@, k + 1, Len(@))]
  <2>1. iface'[l].pending = SubSeq(iface[l].pending, k + 1, Len(iface[l].pending))
    BY <1>1, RoutedPending
  <2>2. PICK s : s = SubSeq(iface[l].pending, k + 1, Len(iface[l].pending))
    BY Zenon
  <2>3. Pend' = [j \in live |-> iface'[j].pending]
    BY DEF Pend
  <2>4. Pend' = [Pend EXCEPT ![l] = s]
    BY <1>2, <2>1, <2>2, <2>3
  <2> QED BY <1>2, <2>2, <2>4
<1>6. PICK L, p, o, x, p2, o2, x2, ms, n :
        /\ L = live /\ p = Pend /\ o = out /\ x = lost
        /\ p2 = Pend' /\ o2 = out' /\ x2 = lost'
        /\ ms = SubSeq(iface[l].pending, 1, k) /\ n = iface[r].name
  BY Zenon
<1>7. PICK f \in Choices(Len(ms)) : Forwarded(o, x, o2, x2, n, ms, f)
  <2>1. \E f \in Choices(Len(ms)) : Forwarded(out, lost, out', lost', n, ms, f)
    BY <1>6, ForwardEffect
  <2> QED BY <1>6, <2>1
<1>8. /\ p \in [L -> Seq(Message)] /\ l \in L /\ n \in AllNames /\ k \in 0 .. Len(p[l])
      /\ p2 = [p EXCEPT ![l] = SubSeq(@, k + 1, Len(@))] /\ ms = SubSeq(p[l], 1, k)
  BY <1>1, <1>2, <1>3, <1>5, <1>6
<1>9. PICK g \in Choices(k) : Moved(p, o, x, p2, o2, x2, l, n, k, g)
  BY <1>7, <1>8, MovedSome
<1>10. Moved(Pend, out, lost, Pend', out', lost', l, n, k, g)
  BY <1>6, <1>9
<1> QED BY <1>3, <1>4, <1>8, <1>10, MsgMoved

\* A route between two raw interfaces: both queues are handed over.
LEMMA RouteBothRaw ==
  ASSUME MgrInv, MsgInv, NEW l \in live, NEW r \in live, l # r,
         NEW kl \in FlushLengths(l), NEW kr \in FlushLengths(r),
         NEW lname \in AllNames, NEW rname \in AllNames, lname # rname,
         ~iface[l].managed, ~iface[r].managed,
         UNCHANGED <<live, count, lost>>, incidents \subseteq incidents',
         iface'[l] = Routed(l, r, kl), iface'[r] = Routed(r, l, kr),
         \A j \in live \ {l, r} : iface'[j] = iface[j],
         incidents' \cap {"nomem", "duplicate"} = {} =>
           kl = Len(iface[l].pending) /\ kr = Len(iface[r].pending),
         out' = [out EXCEPT ![rname] = @ \o SubSeq(iface[l].pending, 1, kl),
                            ![lname] = @ \o SubSeq(iface[r].pending, 1, kr)]
  PROVE  MsgInv'
<1>1. MgrType /\ l \in AllAddrs /\ r \in AllAddrs
  BY DEF MgrInv, MgrType
<1>2. /\ Pend \in [live -> Seq(Message)] /\ count \in Nat
      /\ \A j \in live : Pend[j] = iface[j].pending /\ NameOf[j] = iface[j].name
      /\ out \in [AllNames -> Seq(Message)] /\ lost \in SUBSET Message
      /\ Kept(live, Pend, out, lost, count)
  BY MsgTypes
<1>3. kl \in 0 .. Len(iface[l].pending) /\ kr \in 0 .. Len(iface[r].pending)
  BY <1>1, FlushedEffect
<1>4. /\ iface'[l].name = iface[l].name /\ iface'[l].managed = iface[l].managed
      /\ iface'[r].name = iface[r].name /\ iface'[r].managed = iface[r].managed
  BY <1>1, RoutedEffect
<1>5. /\ iface'[l].pending = SubSeq(iface[l].pending, kl + 1, Len(iface[l].pending))
      /\ iface'[r].pending = SubSeq(iface[r].pending, kr + 1, Len(iface[r].pending))
  BY <1>1, RoutedPending
<1>6. PICK L, p, p1, p2, o, o1, o2, x, c, nm :
        /\ L = live /\ p = Pend /\ p2 = Pend' /\ o = out /\ o2 = out' /\ x = lost
        /\ c = count /\ nm = NameOf
        /\ p1 = [Pend EXCEPT ![l] = SubSeq(@, kl + 1, Len(@))]
        /\ o1 = [out EXCEPT ![rname] = @ \o SubSeq(iface[l].pending, 1, kl)]
  BY Zenon
<1>7. /\ p \in [L -> Seq(Message)] /\ o \in [AllNames -> Seq(Message)]
      /\ x \in SUBSET Message /\ c \in Nat /\ Kept(L, p, o, x, c) /\ l \in L /\ r \in L
      /\ kl \in 0 .. Len(p[l]) /\ kr \in 0 .. Len(p[r])
      /\ p1 = [p EXCEPT ![l] = SubSeq(@, kl + 1, Len(@))]
      /\ o1 = [o EXCEPT ![rname] = @ \o SubSeq(p[l], 1, kl)]
  BY <1>2, <1>3, <1>6
<1>8. PICK f \in Choices(kl) : Moved(p, o, x, p1, o1, x, l, rname, kl, f)
  BY <1>7, MovedOut
<1>9. /\ Kept(L, p1, o1, x, c)
      /\ \E m \in 0 .. kl : WasAt(L, p, o, x, p1, o1, x, l, rname, kl, f, m)
  BY <1>7, <1>8, MoveKeeps, MovedEffect
<1>10. /\ p1 \in [L -> Seq(Message)] /\ o1 \in [AllNames -> Seq(Message)]
       /\ \A j \in L \ {l} : p1[j] = p[j]
  BY <1>9 DEF WasAt
<1>11. p1[r] = p[r] /\ kr \in 0 .. Len(p1[r])
  BY <1>7, <1>10
<1>12. p2 = [p1 EXCEPT ![r] = SubSeq(@, kr + 1, Len(@))]
  <2>1. PICK s, t : /\ s = SubSeq(p[l], kl + 1, Len(p[l]))
                    /\ t = SubSeq(p[r], kr + 1, Len(p[r]))
    BY Zenon
  <2>2. iface'[l].pending = s /\ iface'[r].pending = t
    BY <1>2, <1>5, <1>6, <2>1
  <2>3. p2 = [j \in L |-> iface'[j].pending]
    BY <1>6 DEF Pend
  <2>4. p2 = [j \in L |-> IF j = r THEN t ELSE IF j = l THEN s ELSE p[j]]
    <3>1. \A j \in L \ {l, r} : iface'[j].pending = p[j]
      BY <1>2, <1>6
    <3> QED BY <2>2, <2>3, <3>1
  <2>5. p1[l] = s
    BY <1>7, <2>1
  <2>6. p2 = [p1 EXCEPT ![r] = t]
    BY <1>10, <2>4, <2>5
  <2> QED BY <1>11, <2>1, <2>6
<1>13. o2 = [o1 EXCEPT ![lname] = @ \o SubSeq(p1[r], 1, kr)]
  <2>1. PICK s, t : s = SubSeq(p[l], 1, kl) /\ t = SubSeq(p[r], 1, kr)
    BY Zenon
  <2>2. o2 = [o EXCEPT ![rname] = @ \o s, ![lname] = @ \o t]
    BY <1>2, <1>6, <2>1
  <2>3. o1 = [o EXCEPT ![rname] = @ \o s]
    BY <1>7, <2>1
  <2>4. [o EXCEPT ![rname] = @ \o s, ![lname] = @ \o t] =
          [[o EXCEPT ![rname] = @ \o s] EXCEPT ![lname] = @ \o t]
    BY <1>7
  <2> QED BY <1>11, <2>1, <2>2, <2>3, <2>4
<1>14. PICK g \in Choices(kr) : Moved(p1, o1, x, p2, o2, x, r, lname, kr, g)
  BY <1>7, <1>10, <1>11, <1>12, <1>13, MovedOut
<1>15. /\ Kept(L, p2, o2, x, c)
       /\ \E m \in 0 .. kr : WasAt(L, p1, o1, x, p2, o2, x, r, lname, kr, g, m)
  BY <1>7, <1>9, <1>10, <1>11, <1>14, MoveKeeps, MovedEffect
<1>16. o2 \in [AllNames -> Seq(Message)]
  BY <1>15 DEF WasAt
<1>17. out' \in [AllNames -> Seq(Message)] /\ Kept(live, Pend, out, lost, count)'
  BY <1>6, <1>15, <1>16
<1>18. NameOf' = NameOf
  BY <1>4 DEF NameOf
<1>19. ASSUME incidents' \cap {"nomem", "duplicate"} = {} PROVE Ordered(L, p2, o2, nm)
  <2>1. /\ Ordered(L, p, o, nm) /\ kl = Len(p[l]) /\ kr = Len(p1[r])
    BY <1>2, <1>6, <1>11, <1>19 DEF MsgInv
  <2>2. Ordered(L, p1, o1, nm)
    BY <1>7, <1>8, <2>1, MoveOrders
  <2> QED BY <1>7, <1>9, <1>10, <1>11, <1>14, <2>1, <2>2, MoveOrders
<1>20. (incidents \cap {"nomem", "duplicate"} = {} => Ordered(live, Pend, out, NameOf))'
  BY <1>6, <1>18, <1>19
<1>21. ASSUME NEW j \in live
       PROVE  /\ iface'[j].name = Ctl => iface'[j].managed
              /\ iface'[j].managed => iface'[j].pending = <<>>
  <2>1. /\ iface[j].name = Ctl => iface[j].managed
        /\ iface[j].managed => iface[j].pending = <<>>
    BY DEF MsgInv
  <2>2. CASE j \notin {l, r}
    BY <2>1, <2>2
  <2>3. CASE j = l
    BY <1>4, <2>1, <2>3
  <2>4. CASE j = r
    BY <1>4, <2>1, <2>4
  <2> QED BY <2>2, <2>3, <2>4
<1> QED BY <1>2, <1>17, <1>20, <1>21 DEF MsgInv

LEMMA CmdRouteMsgs ==
  ASSUME MgrInv, MsgInv, NEW lname \in AllNames, NEW rname \in AllNames,
         CmdRoute(lname, rname)
  PROVE  MsgInv'
<1> DEFINE Sent(l, r, kl, kr) ==
             LET toR == SubSeq(iface[l].pending, 1, kl)
                 toL == SubSeq(iface[r].pending, 1, kr)
             IN  \/ ~iface[r].managed /\ ~iface[l].managed
                    /\ out' = [out EXCEPT ![rname] = @ \o toR, ![lname] = @ \o toL]
                    /\ UNCHANGED lost
                 \/ iface[r].managed /\ RawForward(r, toR)
                 \/ iface[l].managed /\ RawForward(l, toL)
           Done(l, r, kl, kr) ==
             /\ iface' = [iface EXCEPT ![l] = Routed(l, r, kl), ![r] = Routed(r, l, kr)]
             /\ Sent(l, r, kl, kr)
             /\ incidents' = incidents
                   \cup (IF Reroutes(l, r) \/ Reroutes(r, l) THEN {"reroute"} ELSE {})
                   \cup (IF \/ kl < Len(iface[l].pending)
                            \/ kr < Len(iface[r].pending) THEN {"nomem"} ELSE {})
<1>1. PICK l \in live, r \in live :
        /\ l # r /\ lname # rname /\ (~iface[l].managed \/ ~iface[r].managed)
        /\ \E kl \in FlushLengths(l), kr \in FlushLengths(r) : Done(l, r, kl, kr)
  <2>1. /\ Lookup(lname) # NULL /\ Lookup(rname) # NULL /\ Lookup(lname) # Lookup(rname)
        /\ ~iface[Lookup(lname)].managed \/ ~iface[Lookup(rname)].managed
        /\ \E kl \in FlushLengths(Lookup(lname)), kr \in FlushLengths(Lookup(rname)) :
             Done(Lookup(lname), Lookup(rname), kl, kr)
    BY Zenon DEF CmdRoute
  <2>2. Lookup(lname) \in live /\ Lookup(rname) \in live
    BY <2>1, LookupFinds
  <2> HIDE DEF Done
  <2> QED BY <2>1, <2>2
<1>2. PICK kl \in FlushLengths(l), kr \in FlushLengths(r) : Done(l, r, kl, kr)
  BY <1>1
<1>3. UNCHANGED <<live, count>> /\ incidents \subseteq incidents' /\ Sent(l, r, kl, kr)
  BY <1>2 DEF CmdRoute
<1>4. MgrType /\ l \in AllAddrs /\ r \in AllAddrs /\ iface \in [AllAddrs -> Interface]
      /\ live \subseteq AllAddrs
  BY DEF MgrInv, MgrType
<1>5. /\ iface'[l] = Routed(l, r, kl) /\ iface'[r] = Routed(r, l, kr)
      /\ \A j \in live \ {l, r} : iface'[j] = iface[j]
  BY <1>1, <1>2, <1>4
<1>6. "nomem" \notin incidents' => kl = Len(iface[l].pending) /\ kr = Len(iface[r].pending)
  <2>1. kl \in 0 .. Len(iface[l].pending) /\ kr \in 0 .. Len(iface[r].pending)
    BY <1>4, FlushedEffect
  <2>2. Len(iface[l].pending) \in Nat /\ Len(iface[r].pending) \in Nat
    BY <1>4, IfaceParts
  <2> QED BY <1>2, <2>1, <2>2
<1>7. incidents' \cap {"nomem", "duplicate"} = {} =>
        kl = Len(iface[l].pending) /\ kr = Len(iface[r].pending)
  BY <1>6
<1>8. CASE ~iface[r].managed /\ ~iface[l].managed
  <2>1. /\ lost' = lost
        /\ out' = [out EXCEPT ![rname] = @ \o SubSeq(iface[l].pending, 1, kl),
                              ![lname] = @ \o SubSeq(iface[r].pending, 1, kr)]
    BY <1>3, <1>8
  <2> QED BY <1>1, <1>3, <1>5, <1>7, <1>8, <2>1, RouteBothRaw
<1>9. CASE iface[r].managed
  <2>1. ~iface[l].managed /\ RawForward(r, SubSeq(iface[l].pending, 1, kl))
    BY <1>1, <1>3, <1>9
  <2>2. iface'[r] = iface[r]
    BY <1>4, <1>5, <1>9 DEF Routed
  <2>3. \A j \in live \ {l} : iface'[j] = iface[j]
    BY <1>5, <2>2
  <2> QED BY <1>3, <1>5, <1>7, <2>1, <2>3, RouteToManaged
<1>10. CASE iface[l].managed
  <2>1. ~iface[r].managed /\ RawForward(l, SubSeq(iface[r].pending, 1, kr))
    BY <1>1, <1>3, <1>10
  <2>2. iface'[l] = iface[l]
    BY <1>4, <1>5, <1>10 DEF Routed
  <2>3. \A j \in live \ {r} : iface'[j] = iface[j]
    BY <1>5, <2>2
  <2> QED BY <1>3, <1>5, <1>7, <2>1, <2>3, RouteToManaged
<1> QED BY <1>8, <1>9, <1>10

LEMMA MsgInvInit == Init => MsgInv
<1> SUFFICES ASSUME Init PROVE MsgInv
  OBVIOUS
<1>1. /\ live = {CtlAddr} /\ iface[CtlAddr] = NewIface(Ctl, TRUE) /\ count = 0
      /\ out = [n \in AllNames |-> <<>>] /\ lost = {}
  BY DEF Init, AllAddrs
<1>2. Ctl \in AllNames /\ TRUE \in BOOLEAN
  BY Zenon DEF AllNames
<1>3. iface[CtlAddr].pending = <<>> /\ iface[CtlAddr].managed
  <2>1. /\ NewIface(Ctl, TRUE).pending = <<>> /\ NewIface(Ctl, TRUE).managed = TRUE
    BY <1>2, NewIfaceType, Zenon
  <2> QED BY <1>1, <2>1, Zenon
<1>4. <<>> \in Seq(Message) /\ Len(<<>>) = 0
  OBVIOUS
<1>5. /\ \A n \in AllNames : Len(out[n]) = 0
      /\ \A i \in live : Len(Pend[i]) = 0
  <2>1. \A n \in AllNames : out[n] = <<>>
    BY <1>1
  <2>2. Pend[CtlAddr] = <<>>
    BY <1>1, <1>3 DEF Pend
  <2> QED BY <1>1, <1>4, <2>1, <2>2
<1>6. out \in [AllNames -> Seq(Message)] /\ lost \in SUBSET Message
  BY <1>1, <1>4
<1>7. Kept(live, Pend, out, lost, count)
  BY <1>1, <1>5 DEF Kept, Numbered, OnceOut, OncePending, OnceLost, Apart
<1>8. Ordered(live, Pend, out, NameOf)
  BY <1>5 DEF Ordered
<1>9. \A i \in live : /\ iface[i].name = Ctl => iface[i].managed
                      /\ iface[i].managed => iface[i].pending = <<>>
  BY <1>1, <1>3
<1> QED BY <1>6, <1>7, <1>8, <1>9 DEF MsgInv

LEMMA MsgInvNext == MgrInv /\ MsgInv /\ [Next]_vars => MsgInv'
<1> SUFFICES ASSUME MgrInv, MsgInv, [Next]_vars PROVE MsgInv'
  OBVIOUS
<1>1. CASE UNCHANGED vars
  BY <1>1, MsgQuiet DEF vars
<1>2. CASE \E name \in AllNames : Managed(name)
  BY <1>2, ManagedMsgs
<1>3. CASE \E name \in Names : \/ RawPending(name) \/ RawRouted(name)
                               \/ HandlerUsesFreed(name)
  BY <1>3, RawPendingMsgs, RawRoutedMsgs, HandlerUsesFreedMsgs
<1>4. CASE \E name \in Names, managed \in BOOLEAN, i \in Addrs : CmdOpen(name, managed, i)
  BY <1>4, CmdOpenMsgs
<1>5. CASE \E name \in AllNames, managed \in BOOLEAN, i \in Addrs :
             CmdOpenFails(name, managed, i) \/ CmdOpenDuplicate(name, managed, i)
  BY <1>5, UndoneMsgs
<1>6. CASE \E name \in AllNames : CmdClose(name) \/ CmdForget(name) \/ CmdCat(name)
  BY <1>6, CmdCloseMsgs, CmdForgetMsgs, CmdCatMsgs
<1>7. CASE \E l, r \in AllNames : CmdRoute(l, r)
  BY <1>7, CmdRouteMsgs
<1>8. CASE CommandUsesFreed
  BY <1>8, MsgQuiet DEF CommandUsesFreed
<1>9. CASE \E name \in Names, managed \in BOOLEAN, i \in Addrs :
             CmdOpenUnstored(name, managed, i)
  BY <1>9, CmdOpenUnstoredMsgs
<1>10. CASE CmdOpenReusesId
  BY <1>10, MsgQuiet DEF CmdOpenReusesId
<1> QED BY <1>1, <1>2, <1>3, <1>4, <1>5, <1>6, <1>7, <1>8, <1>9, <1>10, Zenon DEF Next

\* A number that is somewhere is at one place.
LEMMA OnePlace ==
  ASSUME MgrInv, MsgInv, NEW k \in 1 .. count
  PROVE  \E q \in Places(k) : Places(k) = {q}
<1>1. /\ \A i \in live : Pend[i] = iface[i].pending
      /\ Kept(live, Pend, out, lost, count)
  BY MsgTypes
<1> DEFINE O(n) == {j \in 1 .. Len(out[n]) : out[n][j].n = k}
           P(i) == {j \in 1 .. Len(iface[i].pending) : iface[i].pending[j].n = k}
           X == {m \in lost : m.n = k}
           A == UNION {{<<"out", n, j>> : j \in O(n)} : n \in AllNames}
           B == UNION {{<<"pending", i, j>> : j \in P(i)} : i \in live}
           C == {<<"lost", m, 0>> : m \in X}
<1>2. /\ \A n, s \in AllNames : \A j \in O(n), h \in O(s) : n = s /\ j = h
      /\ \A i, s \in live : \A j \in P(i), h \in P(s) : i = s /\ j = h
      /\ \A m, s \in X : m = s
  <2>1. \A n, s \in AllNames : \A j \in O(n), h \in O(s) : n = s /\ j = h
    BY <1>1 DEF Kept, OnceOut
  <2>2. ASSUME NEW i \in live, NEW s \in live, NEW j \in P(i), NEW h \in P(s)
        PROVE  i = s /\ j = h
    <3>1. /\ j \in 1 .. Len(Pend[i]) /\ h \in 1 .. Len(Pend[s])
          /\ Pend[i][j].n = k /\ Pend[s][h].n = k
      BY <1>1
    <3>2. OncePending(live, Pend)
      BY <1>1 DEF Kept
    <3> QED BY <3>1, <3>2 DEF OncePending
  <2>3. \A m, s \in X : m = s
    BY <1>1 DEF Kept, OnceLost
  <2> HIDE DEF O, P, X
  <2> QED BY <2>1, <2>2, <2>3
<1>3. /\ \A n \in AllNames, i \in live : O(n) = {} \/ P(i) = {}
      /\ \A n \in AllNames : O(n) = {} \/ X = {}
      /\ \A i \in live : P(i) = {} \/ X = {}
  BY <1>1 DEF Kept, Apart
<1>4. \/ \E n \in AllNames : O(n) # {}
      \/ \E i \in live : P(i) # {}
      \/ X # {}
  BY <1>1 DEF Kept, Somewhere
<1>5. Places(k) = A \cup B \cup C
  BY DEF Places
<1> HIDE DEF O, P, X
<1>6. \A q : q \in Places(k) <=> \/ \E n \in AllNames : \E j \in O(n) : q = <<"out", n, j>>
                                 \/ \E i \in live : \E j \in P(i) : q = <<"pending", i, j>>
                                 \/ \E m \in X : q = <<"lost", m, 0>>
  <2>1. \A q : q \in A <=> \E n \in AllNames : \E j \in O(n) : q = <<"out", n, j>>
    OBVIOUS
  <2>2. \A q : q \in B <=> \E i \in live : \E j \in P(i) : q = <<"pending", i, j>>
    OBVIOUS
  <2>3. \A q : q \in C <=> \E m \in X : q = <<"lost", m, 0>>
    OBVIOUS
  <2> HIDE DEF A, B, C
  <2> QED BY <1>5, <2>1, <2>2, <2>3
<1>7. \A q, s \in Places(k) : q = s
  <2> SUFFICES ASSUME NEW q \in Places(k), NEW s \in Places(k) PROVE q = s
    OBVIOUS
  <2>1. CASE \E n \in AllNames : \E j \in O(n) : q = <<"out", n, j>>
    BY <1>2, <1>3, <1>6, <2>1
  <2>2. CASE \E i \in live : \E j \in P(i) : q = <<"pending", i, j>>
    BY <1>2, <1>3, <1>6, <2>2
  <2>3. CASE \E m \in X : q = <<"lost", m, 0>>
    BY <1>2, <1>3, <1>6, <2>3
  <2> QED BY <1>6, <2>1, <2>2, <2>3
<1>8. PICK q : q \in Places(k)
  BY <1>4, <1>6
<1>9. Places(k) = {q}
  BY <1>7, <1>8
<1> QED BY <1>8, <1>9

LEMMA OrderHolds == MgrInv /\ MsgInv => InOrder
<1> SUFFICES ASSUME MgrInv, MsgInv, incidents \cap {"nomem", "duplicate"} = {}
             PROVE  /\ \A n \in AllNames : \A j, k \in 1 .. Len(out[n]) :
                         j < k /\ out[n][j].src = out[n][k].src => out[n][j].n < out[n][k].n
                    /\ \A i \in live : \A k \in 1 .. Len(iface[i].pending) :
                         /\ k < Len(iface[i].pending) =>
                              iface[i].pending[k].n < iface[i].pending[k + 1].n
                         /\ \A n \in AllNames : \A x \in Elems(out[n]) :
                              x.src = iface[i].pending[k].src => x.n < iface[i].pending[k].n
  BY DEF InOrder
<1>1. /\ \A i \in live : Pend[i] = iface[i].pending /\ Len(Pend[i]) \in Nat
      /\ Ordered(live, Pend, out, NameOf)
  BY MsgTypes DEF MsgInv
<1>2. \A n \in AllNames : \A j, k \in 1 .. Len(out[n]) :
        j < k /\ out[n][j].src = out[n][k].src => out[n][j].n < out[n][k].n
  BY <1>1 DEF Ordered
<1>3. ASSUME NEW i \in live, NEW k \in 1 .. Len(Pend[i]), k < Len(Pend[i])
      PROVE  Pend[i][k].n < Pend[i][k + 1].n
  <2>1. k + 1 \in 1 .. Len(Pend[i]) /\ k < k + 1
    BY <1>1, <1>3
  <2> QED BY <1>1, <2>1 DEF Ordered
<1>4. ASSUME NEW i \in live, NEW k \in 1 .. Len(Pend[i]), NEW n \in AllNames,
             NEW x \in Elems(out[n]), x.src = Pend[i][k].src
      PROVE  x.n < Pend[i][k].n
  <2>1. PICK j \in 1 .. Len(out[n]) : x = out[n][j]
    BY DEF Elems
  <2> QED BY <1>1, <1>4, <2>1 DEF Ordered
<1> QED BY <1>1, <1>2, <1>3, <1>4

\* The handlers, iface_trigger and cat keep every message, in the order in which it
\* came: each is at one place, and as long as no allocation fails and no name is
\* reused the messages of one source never overtake each other.
THEOREM MessagesCorrect == Spec => []MessagesAreKept
<1>1. MgrInv /\ MsgInv => MessagesAreKept
  BY OnePlace, OrderHolds DEF MessagesAreKept, MessagesConserved
<1>2. MgrInv /\ MsgInv /\ [Next]_vars => MgrInv' /\ MsgInv'
  BY MgrInvNext, MsgInvNext
<1> QED BY <1>1, <1>2, MgrInvInit, MsgInvInit, PTL DEF Spec

=============================================================================
