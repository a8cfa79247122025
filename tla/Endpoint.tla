----------------------------- MODULE Endpoint -----------------------------
(***************************************************************************)
(* The endpoint core: ep_core.c and the API of ep.c (rteipc_open,          *)
(* rteipc_close, rteipc_bind, rteipc_unbind) over the descriptor table.    *)
(*                                                                         *)
(* An endpoint is a heap object (struct ep_core) at an address of Values.  *)
(* A freed address may be allocated again.  A binding is a bufferevent     *)
(* pair whose two ends are stored in the bev fields of the two endpoints,  *)
(* each of which also records the id of the other.  Endpoints are looked   *)
(* up through dtbl_get, which may return the address of an endpoint that   *)
(* has been freed, or that has become another endpoint.                    *)
(*                                                                         *)
(* The caller follows the API: it passes only ids that rteipc_open         *)
(* returned and rteipc_close has not yet been given.                       *)
(***************************************************************************)
EXTENDS DescTable

CONSTANTS
  Types,      \* the endpoint types the callers open
  Pairs,      \* addresses of bufferevent pairs
  AllocFails  \* whether malloc may return NULL

\* The types of ep.h whose endpoints are all created by rteipc_open.
EpTypes == {"ipc", "inet", "tty", "gpio", "spi", "i2c", "sysfs", "loop"}

ASSUME TypesAssumption == Types \subseteq EpTypes
ASSUME PairsAssumption == NULL \notin Pairs
ASSUME EpAllocFailsAssumption == AllocFails \in BOOLEAN

VARIABLES
  live,     \* the addresses of the allocated endpoints
  core,     \* the contents of struct ep_core at each address
  fds,      \* the ids that the caller holds
  status,   \* "running", "aborted" (an assertion failed), or "undefined"
            \* (freed memory was used)
  unstored  \* history: dtbl_set has returned an id that it did not store

epVars == <<live, core, fds, status, unstored>>
vars == <<hasdesc, desc, next_entry, entries, live, core, fds, status, unstored>>

NoBev == <<NULL, 0>>
Bevs == (Pairs \X {0, 1}) \cup {NoBev}

\* bufferevent_pair_get_partner
OtherEnd(bev) == <<bev[1], 1 - bev[2]>>

Core == [id : Ids \cup {-1}, partner_id : Ids \cup {-1}, type : EpTypes,
         bev : Bevs]

-----------------------------------------------------------------------------
(* Compatibility of types: the masks of the *_compatible functions *)

CompatibleWith(type) ==
  CASE type \in {"ipc", "inet", "loop"} -> EpTypes
    [] type = "tty" -> {"ipc", "inet", "tty"}
    [] OTHER -> {"ipc", "inet"}

\* ep_compatible: one direction is enough for rteipc_bind.
EpCompatible(lh, rh) ==
  core[rh].type \in CompatibleWith(core[lh].type)
  \/ core[lh].type \in CompatibleWith(core[rh].type)

-----------------------------------------------------------------------------
(* Binding *)

\* The pairs that no endpoint refers to.
FreePairs == {p \in Pairs : \A c \in live : core[c].bev[1] # p}

\* Mutant: each endpoint records its own id.
BindEndpointOwnId(lh, rh, p) ==
  core' = [core EXCEPT
    ![lh] = [@ EXCEPT !.bev = <<p, 0>>, !.partner_id = core[lh].id],
    ![rh] = [@ EXCEPT !.bev = <<p, 1>>, !.partner_id = core[rh].id]]

\* bind_endpoint with a new pair.
BindEndpoint(lh, rh, p) ==
  core' = [core EXCEPT
    ![lh] = [@ EXCEPT !.bev = <<p, 0>>, !.partner_id = core[rh].id],
    ![rh] = [@ EXCEPT !.bev = <<p, 1>>, !.partner_id = core[lh].id]]

\* The value that unbind_endpoint gives to an endpoint.
Unbound(c) == [c EXCEPT !.bev = NoBev, !.partner_id = -1]

\* Mutant: only the given endpoint is cleared.
UnbindOne(ep, partner) == core' = [core EXCEPT ![ep] = Unbound(@)]

\* unbind_endpoint frees both ends and clears both endpoints.
UnbindBoth(ep, partner) ==
  core' = [core EXCEPT ![ep] = Unbound(@), ![partner] = Unbound(@)]

\* unbind_endpoint(ep) when it has nothing to do, when its assertions hold,
\* when one of them fails, and when it reads a partner that has been freed.
PartnerOf(ep) == Get(core[ep].partner_id)

UnbindIdle(ep) == core[ep].bev = NoBev

UnbindSound(ep) ==
  /\ core[ep].bev # NoBev
  /\ PartnerOf(ep) \in live
  /\ core[PartnerOf(ep)].bev = OtherEnd(core[ep].bev)

UnbindAsserts(ep) ==
  /\ core[ep].bev # NoBev
  /\ \/ PartnerOf(ep) = NULL
     \/ /\ PartnerOf(ep) \in live
        /\ core[PartnerOf(ep)].bev # OtherEnd(core[ep].bev)

UnbindReadsFreed(ep) ==
  /\ core[ep].bev # NoBev
  /\ PartnerOf(ep) \notin live \cup {NULL}

-----------------------------------------------------------------------------
(* The API *)

NewCore(id, type) == [id |-> id, partner_id |-> -1, type |-> type, bev |-> NoBev]

Init ==
  /\ DtblInit
  /\ live = {}
  /\ core = [c \in Values |-> NewCore(-1, "loop")]
  /\ fds = {}
  /\ status = "running"
  /\ unstored = FALSE

\* rteipc_open succeeds.
Open(c, type) ==
  /\ status = "running" /\ c \notin live
  /\ \E id \in Ids : /\ DtblSet(c, id)
                     /\ core' = [core EXCEPT ![c] = NewCore(id, type)]
                     /\ fds' = fds \cup {id}
  /\ live' = live \cup {c}
  /\ UNCHANGED <<status, unstored>>

\* rteipc_open registers the endpoint, but ops->open fails: the endpoint is
\* unregistered and destroyed, its entry stays in the table.
OpenBackendFails(c) ==
  /\ status = "running" /\ c \notin live
  /\ \E id \in Ids : DtblSetDel(c, id) \/ (AllocFails /\ DtblSetUnstored(id))
  /\ UNCHANGED epVars

\* rteipc_open cannot register the endpoint.
OpenRegisterFails(c) ==
  /\ status = "running" /\ c \notin live
  /\ DtblSetFull \/ (AllocFails /\ DtblSetNoBitmap)
  /\ UNCHANGED epVars

\* rteipc_open succeeds with an id whose entry could not be allocated.
OpenUnstored(c, type) ==
  /\ AllocFails
  /\ status = "running" /\ c \notin live
  /\ \E id \in Ids : /\ DtblSetUnstored(id)
                     /\ core' = [core EXCEPT ![c] = NewCore(id, type)]
                     /\ fds' = fds \cup {id}
  /\ live' = live \cup {c}
  /\ unstored' = TRUE
  /\ UNCHANGED status

\* rteipc_close(id): unregister_endpoint clears the bit of the id that the
\* endpoint records and unbinds, then the endpoint is freed.
Close(id) ==
  /\ status = "running" /\ id \in fds
  /\ LET ep == Get(id) IN
       /\ ep \in live
       /\ DtblDel(core[ep].id)
       /\ \/ UnbindIdle(ep) /\ UNCHANGED core
          \/ UnbindSound(ep) /\ UnbindBoth(ep, PartnerOf(ep))
       /\ live' = live \ {ep}
  /\ fds' = fds \ {id}
  /\ UNCHANGED <<status, unstored>>

\* rteipc_close of an id that is not in the table.
CloseInvalid(id) ==
  /\ status = "running" /\ id \in fds
  /\ Get(id) = NULL
  /\ fds' = fds \ {id}
  /\ UNCHANGED <<dtblVars, live, core, status, unstored>>

\* rteipc_bind succeeds.  (A call that finds no endpoint, the same endpoint
\* twice, incompatible types, a busy endpoint or no memory changes nothing.)
Bind(lh, rh) ==
  /\ status = "running" /\ lh \in fds /\ rh \in fds
  /\ LET le == Get(lh)
         re == Get(rh)
     IN  /\ le \in live /\ re \in live /\ le # re
         /\ EpCompatible(le, re)
         /\ core[le].bev = NoBev /\ core[re].bev = NoBev
         /\ \E p \in FreePairs : BindEndpoint(le, re, p)
  /\ UNCHANGED <<dtblVars, live, fds, status, unstored>>

\* rteipc_unbind of an endpoint that is bound.
Unbind(id) ==
  /\ status = "running" /\ id \in fds
  /\ LET ep == Get(id) IN
       /\ ep \in live
       /\ UnbindSound(ep)
       /\ UnbindBoth(ep, PartnerOf(ep))
  /\ UNCHANGED <<dtblVars, live, fds, status, unstored>>

\* rteipc_close or rteipc_unbind fails an assertion of unbind_endpoint.
AssertFails(id) ==
  /\ status = "running" /\ id \in fds
  /\ Get(id) \in live /\ UnbindAsserts(Get(id))
  /\ status' = "aborted"
  /\ UNCHANGED <<dtblVars, live, core, fds, unstored>>

\* rteipc_close, rteipc_bind or rteipc_unbind uses an endpoint that has been
\* freed.
UseFreed(id) ==
  /\ status = "running" /\ id \in fds
  /\ \/ Get(id) \notin live \cup {NULL}
     \/ Get(id) \in live /\ UnbindReadsFreed(Get(id))
  /\ status' = "undefined"
  /\ UNCHANGED <<dtblVars, live, core, fds, unstored>>

Next ==
  \/ \E c \in Values, type \in Types : Open(c, type) \/ OpenUnstored(c, type)
  \/ \E c \in Values : OpenBackendFails(c) \/ OpenRegisterFails(c)
  \/ \E id \in Ids : \/ Close(id) \/ CloseInvalid(id)
                     \/ Unbind(id) \/ AssertFails(id) \/ UseFreed(id)
  \/ \E lh, rh \in Ids : Bind(lh, rh)

Spec == Init /\ [][Next]_vars

-----------------------------------------------------------------------------
(* Properties *)

\* The variables have their types.
TypeOK ==
  /\ DtblTypeOK
  /\ live \in SUBSET Values
  /\ core \in [Values -> Core]
  /\ fds \in SUBSET Ids
  /\ status \in {"running", "aborted", "undefined"}
  /\ unstored \in BOOLEAN

\* c and d hold the two ends of one pair and each records the other's id.
BoundTogether(c, d) ==
  /\ core[c].bev # NoBev
  /\ core[d].bev = OtherEnd(core[c].bev)
  /\ core[c].partner_id = core[d].id
  /\ core[d].partner_id = core[c].id

\* "Each endpoint can be bound to any other but only one at the same time"
\* (ep.h): as long as the program runs, and whatever ids have been handed out
\* again, a bound endpoint has exactly one partner, the binding is mutual, and
\* the types allow it.
BindingsAreMutual ==
  status = "running" =>
    \A c \in live : core[c].bev # NoBev =>
      \E d \in live :
        /\ d # c
        /\ BoundTogether(c, d)
        /\ EpCompatible(c, d)
        /\ \A e \in live \ {c, d} : core[e].bev[1] # core[c].bev[1]

\* No id has been handed out twice.
FirstGeneration == ~unstored /\ Len(entries) <= Width * MaxEntries

\* In the first generation the ids that the caller holds and the allocated
\* endpoints correspond one to one: rteipc_open leaks no endpoint on any path,
\* and every id leads to the endpoint that was opened under it.
HandlesFindEndpoints ==
  FirstGeneration =>
    /\ fds = {core[c].id : c \in live}
    /\ \A c \in live : Get(core[c].id) = c

\* In the first generation no call of the API uses freed memory or fails an
\* assertion of unbind_endpoint.
FirstGenerationIsSafe == FirstGeneration => status = "running"

\* assert(partner) and assert(partner->ep.bev == pair) in unbind_endpoint: the
\* descriptor that an endpoint keeps for its partner leads to the endpoint
\* that holds the other end of the pair.
UnbindAssertsHold == status # "aborted"

=============================================================================
