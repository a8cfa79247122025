--------------------------- MODULE EndpointProofs ---------------------------
(* Proofs about the endpoint core, for every size of the descriptor table   *)
(* and every set of endpoints and bufferevent pairs.                        *)
(* Of DescTableProofs they use what the operations of the table compute; the *)
(* variables of its callers' protocol (DescTableUse) play no part here.      *)
EXTENDS Endpoint, DescTableProofs

USE NullAssumption, TypesAssumption, PairsAssumption

-----------------------------------------------------------------------------
(* The inductive invariant *)

\* In the first generation ids are handed out in sequence, the caller holds
\* the ids of the allocated endpoints, and the entry of each leads to it.
HandleShape ==
  FirstGeneration =>
    /\ InSequence
    /\ fds = {core[c].id : c \in live}
    /\ \A c \in live : /\ core[c].id \in Nat /\ core[c].id < Len(entries)
                       /\ entries[core[c].id + 1].value = c

\* The invariant that every action preserves.
EpInv == TypeOK /\ BindingsAreMutual /\ HandleShape /\ FirstGenerationIsSafe

-----------------------------------------------------------------------------
(* Lookups *)

LEMMA HandlesFromShape ==
  ASSUME TypeOK, HandleShape
  PROVE  HandlesFindEndpoints
<1> SUFFICES ASSUME FirstGeneration, NEW c \in live PROVE Get(core[c].id) = c
  BY DEF HandleShape, HandlesFindEndpoints
<1> QED BY GetOfShape DEF HandleShape, InSequence, TypeOK, DtblTypeOK

\* In the first generation every id that the caller holds finds its endpoint.
LEMMA HeldFinds ==
  ASSUME TypeOK, HandleShape, FirstGeneration, NEW id \in fds
  PROVE  Get(id) \in live /\ core[Get(id)].id = id
<1>1. PICK c \in live : id = core[c].id
  BY DEF HandleShape
<1>2. Get(core[c].id) = c
  BY HandlesFromShape DEF HandlesFindEndpoints
<1> QED BY <1>1, <1>2

-----------------------------------------------------------------------------
(* Bufferevent pairs *)

LEMMA OtherEndDiffers ==
  ASSUME NEW b \in Bevs, b # NoBev
  PROVE  /\ OtherEnd(b) \in Bevs /\ OtherEnd(b) # NoBev /\ OtherEnd(b) # b
         /\ OtherEnd(b)[1] = b[1] /\ OtherEnd(OtherEnd(b)) = b
<1>1. b \in Pairs \X {0, 1}
  BY DEF Bevs
<1>2. PICK p \in Pairs, e \in {0, 1} : b = <<p, e>>
  BY <1>1
<1>3. OtherEnd(b) = <<p, 1 - e>> /\ 1 - e \in {0, 1} /\ 1 - e # e
  BY <1>2 DEF OtherEnd
<1>4. OtherEnd(<<p, 1 - e>>) = <<p, e>>
  BY <1>2 DEF OtherEnd
<1> QED BY <1>2, <1>3, <1>4 DEF Bevs, NoBev

\* The one endpoint that holds the other end of ep's pair.
IsPartner(c, d) ==
  /\ d \in live /\ d # c
  /\ BoundTogether(c, d)
  /\ EpCompatible(c, d)
  /\ \A e \in live \ {c, d} : core[e].bev[1] # core[c].bev[1]

LEMMA PartnerExists ==
  ASSUME TypeOK, BindingsAreMutual, status = "running", NEW c \in live, core[c].bev # NoBev
  PROVE  \E d \in live : IsPartner(c, d)
BY DEF BindingsAreMutual, IsPartner

LEMMA CoreParts ==
  ASSUME TypeOK, NEW c \in live
  PROVE  c \in Values /\ core[c] \in Core /\ core[c].bev \in Bevs
BY DEF TypeOK, Core

\* To be bound together is symmetric.
LEMMA PartnerSymmetric ==
  ASSUME TypeOK, NEW c \in live, NEW d \in live, IsPartner(c, d)
  PROVE  IsPartner(d, c) /\ core[d].bev # NoBev /\ core[d].bev[1] = core[c].bev[1]
<1>1. /\ core[d].bev # NoBev /\ core[d].bev[1] = core[c].bev[1]
      /\ core[c].bev = OtherEnd(core[d].bev)
  BY CoreParts, OtherEndDiffers DEF IsPartner, BoundTogether
<1> QED BY <1>1 DEF IsPartner, BoundTogether, EpCompatible

\* Two endpoints at the same pair are partners.
LEMMA SamePair ==
  ASSUME NEW c \in live, NEW d, IsPartner(c, d),
         NEW e \in live, e # c, core[e].bev[1] = core[c].bev[1]
  PROVE  e = d
BY DEF IsPartner

\* The partner that unbind_endpoint finds is the endpoint at the other end.
LEMMA SoundPartner ==
  ASSUME TypeOK, BindingsAreMutual, status = "running", NEW ep \in live, UnbindSound(ep)
  PROVE  PartnerOf(ep) \in live /\ IsPartner(ep, PartnerOf(ep))
<1>1. PICK d \in live : IsPartner(ep, d)
  BY PartnerExists DEF UnbindSound
<1> DEFINE p == PartnerOf(ep)
<1>2. p \in live /\ core[p].bev = OtherEnd(core[ep].bev) /\ core[ep].bev # NoBev
  BY DEF UnbindSound
<1> HIDE DEF p
<1>3. p # ep /\ core[p].bev[1] = core[ep].bev[1]
  BY <1>2, CoreParts, OtherEndDiffers
<1>4. p = d
  BY <1>1, <1>2, <1>3, SamePair
<1> QED BY <1>1, <1>2, <1>4 DEF p

-----------------------------------------------------------------------------
(* Binding and unbinding *)

\* What unbind_endpoint changes.
LEMMA UnbindEffect ==
  ASSUME TypeOK, NEW ep \in Values, NEW d \in Values, ep # d, UnbindBoth(ep, d)
  PROVE  /\ core' \in [Values -> Core]
         /\ core'[ep].bev = NoBev /\ core'[d].bev = NoBev
         /\ \A c \in Values : core'[c].id = core[c].id /\ core'[c].type = core[c].type
         /\ \A c \in Values \ {ep, d} : core'[c] = core[c]
<1>1. /\ core \in [Values -> Core]
      /\ core' = [core EXCEPT ![ep] = Unbound(core[ep]), ![d] = Unbound(core[d])]
  BY DEF TypeOK, UnbindBoth
<1>2. ASSUME NEW x \in Core
      PROVE  /\ Unbound(x) \in Core /\ Unbound(x).bev = NoBev
             /\ Unbound(x).id = x.id /\ Unbound(x).type = x.type
  BY DEF Unbound, Core, Bevs
<1>3. core[ep] \in Core /\ core[d] \in Core
  BY <1>1
<1>4. /\ core' \in [Values -> Core]
      /\ core'[ep] = Unbound(core[ep]) /\ core'[d] = Unbound(core[d])
      /\ \A c \in Values \ {ep, d} : core'[c] = core[c]
  <2>1. Unbound(core[ep]) \in Core /\ Unbound(core[d]) \in Core
    BY <1>2, <1>3
  <2> QED BY <1>1, <2>1
<1>5. \A c \in Values : core'[c].id = core[c].id /\ core'[c].type = core[c].type
  BY <1>2, <1>3, <1>4
<1> QED BY <1>2, <1>3, <1>4, <1>5

\* Unbinding a pair leaves the other bindings mutual, whether or not the
\* endpoint is freed afterwards.
LEMMA MutualUnbind ==
  ASSUME TypeOK, BindingsAreMutual, status = "running", status' = status,
         NEW ep \in live, UnbindSound(ep), UnbindBoth(ep, PartnerOf(ep)),
         live' \subseteq live, live \ {ep} \subseteq live'
  PROVE  BindingsAreMutual'
<1> DEFINE p == PartnerOf(ep)
<1>1. /\ p \in live /\ IsPartner(ep, p) /\ p # ep /\ UnbindBoth(ep, p)
      /\ ep \in Values /\ p \in Values
  BY SoundPartner, CoreParts DEF IsPartner
<1> HIDE DEF p
<1>2. /\ core'[ep].bev = NoBev /\ core'[p].bev = NoBev
      /\ \A c \in Values \ {ep, p} : core'[c] = core[c]
  BY <1>1, UnbindEffect
<1>3. IsPartner(p, ep)
  BY <1>1, PartnerSymmetric
<1>4. ASSUME NEW c \in live', core'[c].bev # NoBev
      PROVE  \E d \in live' :
               /\ d # c /\ BoundTogether(c, d)' /\ EpCompatible(c, d)'
               /\ \A e \in live' \ {c, d} : core'[e].bev[1] # core'[c].bev[1]
  <2>1. c \in live /\ c \in Values /\ c # ep /\ c # p
    BY <1>2, <1>4, CoreParts
  <2>2. core'[c] = core[c]
    BY <1>2, <2>1
  <2>3. PICK d \in live : IsPartner(c, d)
    BY <1>4, <2>1, <2>2, PartnerExists
  <2>4. IsPartner(d, c)
    BY <2>1, <2>3, PartnerSymmetric
  <2>5. d # ep /\ d # p
    <3>1. ASSUME d = ep PROVE FALSE
      <4>1. core[c].bev[1] = core[ep].bev[1]
        BY <2>1, <2>3, <3>1, PartnerSymmetric
      <4> QED BY <1>1, <2>1, <4>1, SamePair
    <3>2. ASSUME d = p PROVE FALSE
      <4>1. core[c].bev[1] = core[p].bev[1]
        BY <2>1, <2>3, <3>2, PartnerSymmetric
      <4> QED BY <1>1, <1>3, <2>1, <4>1, SamePair
    <3> QED BY <3>1, <3>2
  <2>6. d \in live' /\ d \in Values /\ core'[d] = core[d] /\ d # c
    BY <1>2, <2>3, <2>5, CoreParts DEF IsPartner
  <2>7. BoundTogether(c, d)' /\ EpCompatible(c, d)'
    BY <2>2, <2>3, <2>6 DEF IsPartner, BoundTogether, EpCompatible
  <2>8. ASSUME NEW e \in live' \ {c, d} PROVE core'[e].bev[1] # core'[c].bev[1]
    <3>1. e \in live /\ e \in Values
      BY CoreParts
    <3>2. core[e].bev[1] # core[c].bev[1]
      BY <2>3, <3>1 DEF IsPartner
    <3>3. CASE e \notin {ep, p}
      BY <1>2, <2>2, <3>1, <3>2, <3>3
    <3>4. CASE e \in {ep, p}
      <4>1. core'[e].bev[1] = NULL
        BY <1>2, <3>4 DEF NoBev
      <4>2. core[c].bev[1] \in Pairs
        BY <1>4, <2>1, <2>2, CoreParts DEF Bevs
      <4> QED BY <2>2, <4>1, <4>2
    <3> QED BY <3>3, <3>4
  <2> QED BY <2>6, <2>7, <2>8
<1> QED BY <1>4 DEF BindingsAreMutual

\* A new or an unbound endpoint that comes or goes, and one that changes
\* nothing, leave the bindings mutual.
LEMMA MutualKept ==
  ASSUME TypeOK, BindingsAreMutual, status = "running", NEW c \in Values,
         c \in live => core[c].bev = NoBev,
         live' = live \cup {c} \/ live' = live \ {c},
         c \in live' => core'[c].bev = NoBev,
         \A x \in Values \ {c} : core'[x] = core[x]
  PROVE  BindingsAreMutual'
<1>1. ASSUME NEW x \in live', core'[x].bev # NoBev
      PROVE  \E d \in live' :
               /\ d # x /\ BoundTogether(x, d)' /\ EpCompatible(x, d)'
               /\ \A e \in live' \ {x, d} : core'[e].bev[1] # core'[x].bev[1]
  <2>1. x # c /\ x \in live /\ x \in Values /\ core'[x] = core[x]
    <3>1. x # c /\ x \in live
      BY <1>1
    <3> QED BY <3>1, CoreParts
  <2>2. PICK d \in live : IsPartner(x, d)
    BY <1>1, <2>1, PartnerExists
  <2>3. d # c
    BY <2>1, <2>2, PartnerSymmetric
  <2>4. d \in live' /\ d \in Values /\ core'[d] = core[d] /\ d # x
    BY <2>2, <2>3, CoreParts DEF IsPartner
  <2>5. BoundTogether(x, d)' /\ EpCompatible(x, d)'
    BY <2>1, <2>2, <2>4 DEF IsPartner, BoundTogether, EpCompatible
  <2>6. ASSUME NEW e \in live' \ {x, d} PROVE core'[e].bev[1] # core'[x].bev[1]
    <3>1. CASE e = c
      <4>1. core'[e].bev[1] = NULL
        BY <3>1 DEF NoBev
      <4>2. core[x].bev[1] \in Pairs
        BY <1>1, <2>1, CoreParts DEF Bevs
      <4> QED BY <2>1, <4>1, <4>2
    <3>2. CASE e # c
      <4>1. e \in live /\ e \in Values
        BY <3>2, CoreParts
      <4> QED BY <2>1, <2>2, <3>2, <4>1 DEF IsPartner
    <3> QED BY <3>1, <3>2
  <2> QED BY <2>4, <2>5, <2>6
<1> QED BY <1>1 DEF BindingsAreMutual

\* A change of the bindings alone leaves the correspondence as it is.
LEMMA HandleKept ==
  ASSUME HandleShape, UNCHANGED <<desc, next_entry, entries, live, fds, unstored>>,
         \A c \in live : core'[c].id = core[c].id
  PROVE  HandleShape'
<1> SUFFICES ASSUME FirstGeneration PROVE HandleShape'
  BY DEF HandleShape, FirstGeneration
<1>1. InSequence'
  BY DEF HandleShape, InSequence
<1>2. fds' = {core'[c].id : c \in live'}
  BY DEF HandleShape
<1>3. \A c \in live' : /\ core'[c].id \in Nat /\ core'[c].id < Len(entries')
                       /\ entries'[core'[c].id + 1].value = c
  BY DEF HandleShape
<1> QED BY <1>1, <1>2, <1>3 DEF HandleShape

\* bind_endpoint gives the two endpoints the ends of a pair no one else has.
LEMMA BindStep ==
  ASSUME EpInv, NEW lh \in Ids, NEW rh \in Ids, Bind(lh, rh)
  PROVE  EpInv'
<1>0. PICK le \in live, re \in live : le = Get(lh) /\ re = Get(rh)
  BY DEF Bind
<1>1. /\ status = "running" /\ UNCHANGED <<hasdesc, desc, next_entry, entries>>
      /\ UNCHANGED <<live, fds, status, unstored>>
      /\ le \in live /\ re \in live /\ le # re
      /\ EpCompatible(le, re)
      /\ core[le].bev = NoBev /\ core[re].bev = NoBev
  BY <1>0 DEF Bind, dtblVars
<1>2. PICK p \in FreePairs : BindEndpoint(le, re, p)
  BY <1>0 DEF Bind
<1>3. /\ TypeOK /\ le \in Values /\ re \in Values /\ core[le] \in Core /\ core[re] \in Core
      /\ core \in [Values -> Core] /\ p \in Pairs
      /\ core[le].id \in Ids \cup {-1} /\ core[re].id \in Ids \cup {-1}
      /\ \A c \in live : core[c].bev[1] # p
  BY <1>1, CoreParts DEF EpInv, TypeOK, FreePairs, Core
<1> DEFINE L == [core[le] EXCEPT !.bev = <<p, 0>>, !.partner_id = core[re].id]
           R == [core[re] EXCEPT !.bev = <<p, 1>>, !.partner_id = core[le].id]
<1>4. /\ L \in Core /\ L.bev = <<p, 0>> /\ L.partner_id = core[re].id
      /\ L.id = core[le].id /\ L.type = core[le].type
      /\ R \in Core /\ R.bev = <<p, 1>> /\ R.partner_id = core[le].id
      /\ R.id = core[re].id /\ R.type = core[re].type
  BY <1>3 DEF Core, Bevs
<1>5. core' = [core EXCEPT ![le] = L, ![re] = R]
  BY <1>2 DEF BindEndpoint
<1> HIDE DEF L, R
<1>6. /\ core' \in [Values -> Core] /\ core'[le] = L /\ core'[re] = R
      /\ \A c \in Values \ {le, re} : core'[c] = core[c]
      /\ \A c \in Values : core'[c].id = core[c].id
  BY <1>1, <1>3, <1>4, <1>5
<1>7. TypeOK'
  BY <1>1, <1>6 DEF EpInv, TypeOK, DtblTypeOK
<1>8. BindingsAreMutual'
  <2> DEFINE Goal(x) == \E d \in live' :
               /\ d # x /\ BoundTogether(x, d)' /\ EpCompatible(x, d)'
               /\ \A e \in live' \ {x, d} : core'[e].bev[1] # core'[x].bev[1]
  <2>1. /\ OtherEnd(<<p, 0>>) = <<p, 1>> /\ OtherEnd(<<p, 1>>) = <<p, 0>>
        /\ <<p, 0>> # NoBev /\ <<p, 1>> # NoBev
    BY <1>3 DEF OtherEnd, NoBev
  <2>2. /\ BoundTogether(le, re)' /\ BoundTogether(re, le)'
        /\ EpCompatible(le, re)' /\ EpCompatible(re, le)'
    <3>1. /\ core'[le].bev = <<p, 0>> /\ core'[re].bev = <<p, 1>>
          /\ core'[le].partner_id = core'[re].id /\ core'[re].partner_id = core'[le].id
          /\ core'[le].type = core[le].type /\ core'[re].type = core[re].type
      BY <1>4, <1>6
    <3>2. BoundTogether(le, re)' /\ BoundTogether(re, le)'
      BY <2>1, <3>1 DEF BoundTogether
    <3>3. EpCompatible(le, re)' /\ EpCompatible(re, le)'
      BY <1>1, <3>1 DEF EpCompatible
    <3> QED BY <3>2, <3>3
  <2>3. \A e \in live \ {le, re} : core'[e].bev[1] # p
    BY <1>3, <1>6, CoreParts
  <2>4. core'[le].bev[1] = p /\ core'[re].bev[1] = p
    BY <1>4, <1>6
  <2>5. Goal(le)
    <3>1. \A e \in live' \ {le, re} : core'[e].bev[1] # core'[le].bev[1]
      BY <1>1, <2>3, <2>4
    <3>2. re \in live' /\ re # le
      BY <1>1
    <3> QED BY <2>2, <3>1, <3>2, Zenon
  <2>6. Goal(re)
    <3>1. \A e \in live' \ {re, le} : core'[e].bev[1] # core'[re].bev[1]
      BY <1>1, <2>3, <2>4
    <3>2. le \in live' /\ le # re
      BY <1>1
    <3> QED BY <2>2, <3>1, <3>2, Zenon
  <2>7. ASSUME NEW x \in live, x # le, x # re, core'[x].bev # NoBev PROVE Goal(x)
    <3>1. x \in Values /\ core'[x] = core[x]
      BY <1>3, <1>6, <2>7, CoreParts
    <3>2. PICK d \in live : IsPartner(x, d)
      BY <1>1, <2>7, <3>1, PartnerExists DEF EpInv
    <3>3. d # le /\ d # re /\ d # x
      BY <1>1, <1>3, <3>2, PartnerSymmetric DEF IsPartner
    <3>4. d \in Values /\ core'[d] = core[d]
      BY <1>3, <1>6, <3>3, CoreParts
    <3>5. BoundTogether(x, d)' /\ EpCompatible(x, d)'
      BY <3>1, <3>2, <3>4 DEF IsPartner, BoundTogether, EpCompatible
    <3>6. ASSUME NEW e \in live \ {x, d} PROVE core'[e].bev[1] # core'[x].bev[1]
      <4>1. CASE e \in {le, re}
        BY <1>3, <2>4, <3>1, <4>1
      <4>2. CASE e \notin {le, re}
        <5>1. e \in Values /\ core'[e] = core[e]
          BY <1>3, <1>6, <4>2, CoreParts
        <5> QED BY <3>1, <3>2, <5>1 DEF IsPartner
      <4> QED BY <4>1, <4>2
    <3> QED BY <1>1, <3>3, <3>5, <3>6
  <2>8. \A x \in live' : core'[x].bev # NoBev => Goal(x)
    <3> HIDE DEF Goal
    <3> QED BY <1>1, <2>5, <2>6, <2>7
  <2> QED BY <2>8 DEF BindingsAreMutual
<1>9. HandleShape'
  <2>1. \A c \in live : core'[c].id = core[c].id
    BY <1>3, <1>6, CoreParts
  <2> QED BY <1>1, <2>1, HandleKept DEF EpInv
<1>10. FirstGenerationIsSafe'
  BY <1>1 DEF EpInv, FirstGenerationIsSafe, FirstGeneration
<1> QED BY <1>7, <1>8, <1>9, <1>10 DEF EpInv

LEMMA UnbindStep ==
  ASSUME EpInv, NEW id \in Ids, Unbind(id)
  PROVE  EpInv'
<1> DEFINE ep == Get(id)
           p == PartnerOf(ep)
<1>1. /\ status = "running" /\ UNCHANGED <<hasdesc, desc, next_entry, entries>>
      /\ UNCHANGED <<live, fds, status, unstored>>
      /\ ep \in live /\ UnbindSound(ep) /\ UnbindBoth(ep, p)
  BY DEF Unbind, dtblVars
<1> HIDE DEF ep
<1>2. BindingsAreMutual'
  BY <1>1, MutualUnbind DEF EpInv
<1>3. p \in live /\ p # ep /\ p \in Values /\ ep \in Values
  BY <1>1, SoundPartner, CoreParts DEF EpInv, IsPartner
<1> HIDE DEF p
<1>4. core' \in [Values -> Core] /\ \A c \in Values : core'[c].id = core[c].id
  BY <1>1, <1>3, UnbindEffect DEF EpInv
<1>5. TypeOK'
  BY <1>1, <1>4 DEF EpInv, TypeOK, DtblTypeOK
<1>6. HandleShape'
  BY <1>1, <1>4, CoreParts DEF EpInv, HandleShape, FirstGeneration, InSequence
<1>7. FirstGenerationIsSafe'
  BY <1>1 DEF EpInv, FirstGenerationIsSafe, FirstGeneration
<1> QED BY <1>2, <1>5, <1>6, <1>7 DEF EpInv

\* rteipc_close gives back the id, unbinds and frees the endpoint.
LEMMA CloseStep ==
  ASSUME EpInv, NEW id \in Ids, Close(id)
  PROVE  EpInv'
<1> DEFINE ep == Get(id)
           p == PartnerOf(ep)
<1>1. /\ status = "running" /\ id \in fds
      /\ UNCHANGED <<hasdesc, next_entry, entries, status, unstored>>
      /\ desc' = desc \ {core[ep].id}
      /\ ep \in live /\ live' = live \ {ep} /\ fds' = fds \ {id}
      /\ \/ core[ep].bev = NoBev /\ core' = core
         \/ UnbindSound(ep) /\ UnbindBoth(ep, p)
  BY DEF Close, DtblDel, UnbindIdle
<1>2. TypeOK /\ ep \in Values
  BY <1>1, CoreParts DEF EpInv
<1> HIDE DEF ep
<1>3. /\ BindingsAreMutual'
      /\ core' \in [Values -> Core] /\ \A c \in Values : core'[c].id = core[c].id
  <2>1. CASE core[ep].bev = NoBev /\ core' = core
    <3>1. BindingsAreMutual'
      BY <1>1, <1>2, <2>1, MutualKept DEF EpInv
    <3> QED BY <1>2, <2>1, <3>1 DEF TypeOK
  <2>2. CASE UnbindSound(ep) /\ UnbindBoth(ep, p)
    <3>1. p \in live /\ p # ep /\ p \in Values
      BY <1>1, <1>2, <2>2, SoundPartner, CoreParts DEF EpInv, IsPartner
    <3>2. core' \in [Values -> Core] /\ \A c \in Values : core'[c].id = core[c].id
      <4> HIDE DEF p
      <4> QED BY <1>2, <2>2, <3>1, UnbindEffect
    <3> QED BY <1>1, <1>2, <2>2, <3>2, MutualUnbind DEF EpInv
  <2> QED BY <1>1, <2>1, <2>2
<1>4. TypeOK'
  BY <1>1, <1>2, <1>3 DEF TypeOK, DtblTypeOK
<1>5. HandleShape'
  <2> SUFFICES ASSUME FirstGeneration PROVE HandleShape'
    BY <1>1 DEF HandleShape, FirstGeneration
  <2>1. core[ep].id = id
    BY <1>1, HeldFinds DEF EpInv, ep
  <2>2. /\ InSequence /\ fds = {core[c].id : c \in live}
        /\ \A c \in live : /\ core[c].id \in Nat /\ core[c].id < Len(entries)
                           /\ entries[core[c].id + 1].value = c
    BY DEF EpInv, HandleShape
  <2>3. InSequence'
    BY <1>1, <2>2 DEF InSequence
  <2>4. \A c \in live : c # ep => core[c].id # id
    BY <1>1, <2>1, <2>2
  <2>5. fds' = {core'[c].id : c \in live'}
    <3>1. fds' = {core[c].id : c \in live \ {ep}}
      BY <1>1, <2>1, <2>2, <2>4
    <3>2. \A c \in live \ {ep} : core'[c].id = core[c].id
      BY <1>2, <1>3, CoreParts
    <3> QED BY <1>1, <3>1, <3>2
  <2>6. \A c \in live' : /\ core'[c].id \in Nat /\ core'[c].id < Len(entries)
                         /\ entries[core'[c].id + 1].value = c
    BY <1>1, <1>2, <1>3, <2>2, CoreParts
  <2> QED BY <1>1, <2>3, <2>5, <2>6 DEF HandleShape
<1>6. FirstGenerationIsSafe'
  BY <1>1 DEF EpInv, FirstGenerationIsSafe, FirstGeneration
<1> QED BY <1>3, <1>4, <1>5, <1>6 DEF EpInv

\* A change of the table that the endpoints do not see: an id whose entry is not
\* stored, or an entry whose endpoint is destroyed again.
LEMMA TableStep ==
  ASSUME EpInv, UNCHANGED epVars, DtblTypeOK',
         \/ entries' = entries /\ desc' = desc /\ next_entry' = next_entry
         \/ \E c \in Values, id \in Ids : DtblSetDel(c, id)
  PROVE  EpInv'
<1>1. UNCHANGED <<live, core, fds, status, unstored>>
  BY DEF epVars
<1>2. TypeOK'
  BY <1>1 DEF EpInv, TypeOK
<1>3. BindingsAreMutual'
  BY <1>1 DEF EpInv, BindingsAreMutual, BoundTogether, EpCompatible
<1>4. entries \in Seq(Entry) /\ Len(entries) \in Nat
  BY DEF EpInv, TypeOK, DtblTypeOK
<1>5. CASE entries' = entries /\ desc' = desc /\ next_entry' = next_entry
  <2>1. HandleShape'
    BY <1>1, <1>5, HandleKept DEF EpInv
  <2> QED BY <1>1, <1>2, <1>3, <1>5, <2>1
          DEF EpInv, FirstGenerationIsSafe, FirstGeneration
<1>6. CASE \E c \in Values, id \in Ids : DtblSetDel(c, id)
  <2>1. PICK c \in Values, id \in Ids : DtblSetDel(c, id)
    BY <1>6
  <2>2. [id |-> id, value |-> c] \in Entry
    BY DEF Entry
  <2>3. Len(entries') = Len(entries) + 1
    BY <1>4, <2>1, <2>2 DEF DtblSetDel
  <2>4. FirstGeneration' => FirstGeneration /\ Len(entries) < Width * MaxEntries
    BY <1>1, <1>4, <2>3, IdsType DEF FirstGeneration
  <2>5. FirstGenerationIsSafe'
    BY <1>1, <2>4 DEF EpInv, FirstGenerationIsSafe
  <2>6. HandleShape'
    <3> SUFFICES ASSUME FirstGeneration' PROVE HandleShape'
      BY DEF HandleShape
    <3>1. FirstGeneration /\ Len(entries) < Width * MaxEntries /\ InSequence
      BY <2>4 DEF EpInv, HandleShape
    <3>2. /\ InSequence' /\ \A i \in 1 .. Len(entries) : entries'[i] = entries[i]
      BY <2>1, <3>1, StoreInSequence DEF DtblSetDel, EpInv, TypeOK
    <3>3. \A d \in live : /\ core[d].id \in Nat /\ core[d].id < Len(entries)
                          /\ entries[core[d].id + 1].value = d
      BY <3>1 DEF EpInv, HandleShape
    <3>4. \A d \in live' : /\ core'[d].id \in Nat /\ core'[d].id < Len(entries')
                           /\ entries'[core'[d].id + 1].value = d
      BY <1>1, <1>4, <2>3, <3>2, <3>3
    <3>5. fds' = {core'[d].id : d \in live'}
      BY <1>1, <3>1 DEF EpInv, HandleShape
    <3> QED BY <3>2, <3>4, <3>5 DEF HandleShape
  <2> QED BY <1>2, <1>3, <2>5, <2>6 DEF EpInv
<1> QED BY <1>5, <1>6

LEMMA OpenBackendFailsStep ==
  ASSUME EpInv, NEW c \in Values, OpenBackendFails(c)
  PROVE  EpInv'
<1>1. UNCHANGED epVars /\ DtblTypeOK
  BY DEF OpenBackendFails, EpInv, TypeOK
<1>2. PICK id \in Ids : DtblSetDel(c, id) \/ DtblSetUnstored(id)
  BY DEF OpenBackendFails
<1>3. CASE DtblSetDel(c, id)
  <2>1. DtblTypeOK'
    BY <1>1, <1>3, StoreType DEF DtblSetDel
  <2> QED BY <1>1, <1>3, <2>1, TableStep
<1>4. CASE DtblSetUnstored(id)
  <2>1. hasdesc' \in BOOLEAN
    BY <1>4, Zenon DEF DtblSetUnstored
  <2>2. DtblTypeOK' /\ entries' = entries /\ desc' = desc /\ next_entry' = next_entry
    BY <1>1, <1>4, <2>1 DEF DtblSetUnstored, DtblTypeOK
  <2> QED BY <1>1, <2>2, TableStep
<1> QED BY <1>2, <1>3, <1>4

LEMMA OpenRegisterFailsStep ==
  ASSUME EpInv, NEW c \in Values, OpenRegisterFails(c)
  PROVE  EpInv'
<1>1. UNCHANGED epVars /\ DtblTypeOK
  BY DEF OpenRegisterFails, EpInv, TypeOK
<1>2. hasdesc' \in BOOLEAN
  <2>1. CASE DtblSetFull
    BY <2>1, Zenon DEF DtblSetFull
  <2>2. CASE DtblSetNoBitmap
    BY <1>1, <2>2 DEF DtblSetNoBitmap, dtblVars, DtblTypeOK
  <2> QED BY <2>1, <2>2 DEF OpenRegisterFails
<1>3. entries' = entries /\ desc' = desc /\ next_entry' = next_entry
  BY DEF OpenRegisterFails, DtblSetFull, DtblSetNoBitmap, dtblVars
<1>4. DtblTypeOK'
  BY <1>1, <1>2, <1>3 DEF DtblTypeOK
<1> QED BY <1>1, <1>3, <1>4, TableStep

\* What rteipc_open does to the endpoints.
LEMMA NewEndpoint ==
  ASSUME TypeOK, NEW c \in Values, NEW type \in Types, NEW id \in Ids,
         core' = [core EXCEPT ![c] = NewCore(id, type)]
  PROVE  /\ core' \in [Values -> Core] /\ core'[c].id = id /\ core'[c].bev = NoBev
         /\ \A x \in Values \ {c} : core'[x] = core[x]
<1>1. /\ NewCore(id, type) \in Core
      /\ NewCore(id, type).id = id /\ NewCore(id, type).bev = NoBev
  BY DEF NewCore, Core, Bevs
<1> QED BY <1>1 DEF TypeOK

\* rteipc_open stores the endpoint in the table and returns its id.
LEMMA OpenStep ==
  ASSUME EpInv, NEW c \in Values, NEW type \in Types, Open(c, type)
  PROVE  EpInv'
<1>1. PICK id \in Ids : /\ DtblSet(c, id)
                        /\ core' = [core EXCEPT ![c] = NewCore(id, type)]
                        /\ fds' = fds \cup {id}
  BY DEF Open
<1>2. /\ status = "running" /\ c \notin live /\ live' = live \cup {c}
      /\ UNCHANGED <<status, unstored>>
      /\ TypeOK /\ DtblTypeOK /\ BindingsAreMutual /\ HandleShape
  BY DEF Open, EpInv, TypeOK
<1>3. /\ core' \in [Values -> Core] /\ core'[c].id = id /\ core'[c].bev = NoBev
      /\ \A x \in Values \ {c} : core'[x] = core[x]
  BY <1>1, <1>2, NewEndpoint
<1>4. DtblTypeOK'
  BY <1>1, <1>2, StoreType DEF DtblSet
<1>5. TypeOK'
  BY <1>1, <1>2, <1>3, <1>4 DEF TypeOK
<1>6. BindingsAreMutual'
  BY <1>2, <1>3, MutualKept
<1>7. /\ entries \in Seq(Entry) /\ Len(entries) \in Nat
      /\ [id |-> id, value |-> c] \in Entry
  BY <1>2 DEF DtblTypeOK, Entry
<1>8. Len(entries') = Len(entries) + 1
  BY <1>1, <1>7 DEF DtblSet
<1>9. FirstGeneration' => FirstGeneration /\ Len(entries) < Width * MaxEntries
  BY <1>2, <1>7, <1>8, IdsType DEF FirstGeneration
<1>10. HandleShape'
  <2> SUFFICES ASSUME FirstGeneration' PROVE HandleShape'
    BY DEF HandleShape
  <2>1. /\ Len(entries) < Width * MaxEntries /\ InSequence
        /\ fds = {core[d].id : d \in live}
        /\ \A d \in live : /\ core[d].id \in Nat /\ core[d].id < Len(entries)
                           /\ entries[core[d].id + 1].value = d
    BY <1>2, <1>9 DEF HandleShape
  <2>2. /\ InSequence' /\ id = Len(entries)
        /\ \A i \in 1 .. Len(entries) : entries'[i] = entries[i]
        /\ entries'[id + 1].value = c
    BY <1>1, <1>2, <2>1, StoreInSequence DEF DtblSet
  <2>3. \A d \in live : core'[d].id = core[d].id
    BY <1>2, <1>3, CoreParts
  <2>4. fds' = {core'[d].id : d \in live'}
    BY <1>1, <1>2, <1>3, <2>1, <2>3
  <2>5. ASSUME NEW d \in live'
        PROVE  /\ core'[d].id \in Nat /\ core'[d].id < Len(entries')
               /\ entries'[core'[d].id + 1].value = d
    <3>1. CASE d = c
      BY <1>3, <1>7, <1>8, <2>2, <3>1
    <3>2. CASE d \in live
      BY <1>7, <1>8, <2>1, <2>2, <2>3, <3>2
    <3> QED BY <1>2, <3>1, <3>2
  <2> QED BY <2>2, <2>4, <2>5 DEF HandleShape
<1>11. FirstGenerationIsSafe'
  BY <1>2 DEF FirstGenerationIsSafe
<1> QED BY <1>5, <1>6, <1>10, <1>11 DEF EpInv

\* An id without an entry ends the first generation.
LEMMA OpenUnstoredStep ==
  ASSUME EpInv, NEW c \in Values, NEW type \in Types, OpenUnstored(c, type)
  PROVE  EpInv'
<1>1. PICK id \in Ids : /\ DtblSetUnstored(id)
                        /\ core' = [core EXCEPT ![c] = NewCore(id, type)]
                        /\ fds' = fds \cup {id}
  BY DEF OpenUnstored
<1>2. /\ status = "running" /\ c \notin live /\ live' = live \cup {c}
      /\ unstored' = TRUE /\ status' = status
      /\ TypeOK /\ DtblTypeOK /\ BindingsAreMutual
  BY DEF OpenUnstored, EpInv, TypeOK
<1>3. /\ core' \in [Values -> Core] /\ core'[c].id = id /\ core'[c].bev = NoBev
      /\ \A x \in Values \ {c} : core'[x] = core[x]
  BY <1>1, <1>2, NewEndpoint
<1>4. hasdesc' \in BOOLEAN /\ unstored' \in BOOLEAN
  BY <1>1, <1>2, Zenon DEF DtblSetUnstored
<1>5. TypeOK'
  BY <1>1, <1>2, <1>3, <1>4 DEF TypeOK, DtblTypeOK, DtblSetUnstored
<1>6. BindingsAreMutual'
  BY <1>2, <1>3, MutualKept
<1>7. ~FirstGeneration'
  BY <1>2, Zenon DEF FirstGeneration
<1> QED BY <1>5, <1>6, <1>7 DEF EpInv, HandleShape, FirstGenerationIsSafe

\* In the first generation no id is without an endpoint, no assertion fails and
\* no freed endpoint is used: the actions below
\* need a later one.
LEMMA BadNeedsReuse ==
  ASSUME EpInv, NEW id \in Ids,
         CloseInvalid(id) \/ AssertFails(id) \/ UseFreed(id)
  PROVE  ~FirstGeneration
<1> SUFFICES ASSUME FirstGeneration PROVE FALSE
  OBVIOUS
<1>1. status = "running" /\ id \in fds /\ TypeOK /\ HandleShape /\ BindingsAreMutual
  BY DEF CloseInvalid, AssertFails, UseFreed, EpInv
<1>2. PICK ep \in live : ep = Get(id)
  BY <1>1, HeldFinds
<1>3. ep \in Values /\ live \subseteq Values
  BY <1>1, CoreParts DEF TypeOK
<1>4. CASE core[ep].bev = NoBev
  BY <1>2, <1>3, <1>4
     DEF CloseInvalid, AssertFails, UseFreed, UnbindAsserts, UnbindReadsFreed
<1>5. CASE core[ep].bev # NoBev
  <2>1. PICK d \in live : IsPartner(ep, d)
    BY <1>1, <1>5, PartnerExists
  <2>2. PartnerOf(ep) = d
    BY <1>1, <2>1, HandlesFromShape
       DEF PartnerOf, IsPartner, BoundTogether, HandlesFindEndpoints
  <2>3. core[d].bev = OtherEnd(core[ep].bev) /\ d # NULL
    BY <1>3, <2>1 DEF IsPartner, BoundTogether
  <2> QED BY <1>2, <1>3, <2>1, <2>2, <2>3
          DEF CloseInvalid, AssertFails, UseFreed, UnbindAsserts, UnbindReadsFreed
<1> QED BY <1>4, <1>5

LEMMA BadStep ==
  ASSUME EpInv, NEW id \in Ids,
         CloseInvalid(id) \/ AssertFails(id) \/ UseFreed(id)
  PROVE  EpInv'
<1>1. ~FirstGeneration
  BY BadNeedsReuse
<1>2. UNCHANGED <<hasdesc, desc, next_entry, entries, live, core, unstored>>
  BY DEF CloseInvalid, AssertFails, UseFreed, dtblVars
<1>3. /\ fds' \subseteq fds
      /\ status' = status \/ status' \in {"aborted", "undefined"}
  BY DEF CloseInvalid, AssertFails, UseFreed
<1>4. TypeOK'
  BY <1>2, <1>3 DEF EpInv, TypeOK, DtblTypeOK
<1>5. BindingsAreMutual'
  BY <1>2, <1>3 DEF EpInv, BindingsAreMutual, BoundTogether, EpCompatible
<1> QED BY <1>1, <1>2, <1>4, <1>5
        DEF EpInv, HandleShape, FirstGenerationIsSafe, FirstGeneration

-----------------------------------------------------------------------------
(* The theorems *)

LEMMA EpInvInit == Init => EpInv
<1> SUFFICES ASSUME Init PROVE EpInv
  OBVIOUS
<1>1. hasdesc \in BOOLEAN /\ unstored \in BOOLEAN
  BY Zenon DEF Init, DtblInit
<1>2. entries = <<>> /\ entries \in Seq(Entry) /\ Len(entries) = 0
  BY DEF Init, DtblInit
<1>3. core \in [Values -> Core]
  BY DEF Init, NewCore, Core, Bevs, EpTypes
<1>4. TypeOK
  BY <1>1, <1>2, <1>3, IdsType DEF Init, DtblInit, TypeOK, DtblTypeOK
<1>5. BindingsAreMutual
  BY DEF Init, BindingsAreMutual
<1>6. InSequence
  BY <1>2 DEF Init, DtblInit, InSequence
<1>7. HandleShape
  BY <1>6 DEF Init, HandleShape
<1> QED BY <1>4, <1>5, <1>7 DEF EpInv, FirstGenerationIsSafe, Init

LEMMA EpInvNext == EpInv /\ [Next]_vars => EpInv'
<1> SUFFICES ASSUME EpInv, [Next]_vars PROVE EpInv'
  OBVIOUS
<1>1. CASE UNCHANGED vars
  <2>1. /\ UNCHANGED epVars /\ DtblTypeOK'
        /\ entries' = entries /\ desc' = desc /\ next_entry' = next_entry
    BY <1>1 DEF vars, epVars, EpInv, TypeOK, DtblTypeOK
  <2> QED BY <2>1, TableStep
<1>2. CASE \E c \in Values, type \in Types : Open(c, type) \/ OpenUnstored(c, type)
  BY <1>2, OpenStep, OpenUnstoredStep
<1>3. CASE \E c \in Values : OpenBackendFails(c) \/ OpenRegisterFails(c)
  BY <1>3, OpenBackendFailsStep, OpenRegisterFailsStep
<1>4. CASE \E id \in Ids : \/ Close(id) \/ CloseInvalid(id)
                           \/ Unbind(id) \/ AssertFails(id) \/ UseFreed(id)
  BY <1>4, CloseStep, UnbindStep, BadStep
<1>5. CASE \E lh, rh \in Ids : Bind(lh, rh)
  BY <1>5, BindStep
<1> QED BY <1>1, <1>2, <1>3, <1>4, <1>5, Zenon DEF Next

LEMMA EpInvariant == Spec => []EpInv
BY EpInvInit, EpInvNext, PTL DEF Spec

\* The state of the endpoint core is well typed on every path of ep.c, those
\* that fail included.
THEOREM EpTypeCorrect == Spec => []TypeOK
<1>1. EpInv => TypeOK
  BY DEF EpInv
<1> QED BY <1>1, EpInvariant, PTL

\* rteipc_bind and unbind_endpoint keep every binding mutual and between two
\* compatible endpoints, even when ids have been handed out again.
THEOREM BindingsCorrect == Spec => []BindingsAreMutual
<1>1. EpInv => BindingsAreMutual
  BY DEF EpInv
<1> QED BY <1>1, EpInvariant, PTL

\* In the first generation the ids that rteipc_open returned lead to the
\* endpoints they were returned for, and no endpoint is leaked.
THEOREM HandlesCorrect == Spec => []HandlesFindEndpoints
<1>1. EpInv => HandlesFindEndpoints
  BY HandlesFromShape DEF EpInv
<1> QED BY <1>1, EpInvariant, PTL

\* In the first generation no assertion of unbind_endpoint fails and no freed
\* endpoint is used.
THEOREM FirstGenerationCorrect == Spec => []FirstGenerationIsSafe
<1>1. EpInv => FirstGenerationIsSafe
  BY DEF EpInv
<1> QED BY <1>1, EpInvariant, PTL

=============================================================================
