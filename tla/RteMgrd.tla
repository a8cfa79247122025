------------------------------ MODULE RteMgrd ------------------------------
(***************************************************************************)
(* The routing daemon rtemgrd.c: its interfaces, the routes between them,  *)
(* and the commands of the control port.                                   *)
(*                                                                         *)
(* An interface is a heap object (struct interface) at an address of       *)
(* Addrs that joins a device with a loopback endpoint of the same name.    *)
(* What a device sends reaches default_domain_handler with the argument    *)
(* that was last set for the loopback name, and what is given to           *)
(* rteipc_xfer(name) reaches the device of that name.  A raw interface     *)
(* passes its data to its partner, or keeps it in its pending queue when   *)
(* it has none; a managed interface finds the destination in the data.     *)
(*                                                                         *)
(* The two endpoints of an interface take their ids from the endpoint      *)
(* table, which gives out MaxIds ids before it uses one again.  The model  *)
(* covers that first generation, in which an id finds its own endpoint     *)
(* (HandlesFindEndpoints of module Endpoint), and ends when an id is used  *)
(* again.                                                                  *)
(*                                                                         *)
(* The daemon is one thread: each callback is one action.  Messages are    *)
(* numbered in the order in which they reach the daemon.  There is one     *)
(* domain, as in the code.                                                 *)
(***************************************************************************)
EXTENDS Integers, Sequences, FiniteSets

CONSTANTS
  Names,       \* names that clients give to interfaces
  Ctl,         \* the name of the control interface, RTEMGRD_CTLPORT
  Addrs,       \* heap addresses of interfaces
  CtlAddr,     \* the address of ctrl_iface
  NULL,
  MaxMsgs,     \* bound: messages that reach the daemon
  MaxIds,      \* ids of the endpoint table, MAX_NR_EP
  AllocFails   \* whether malloc may return NULL

ASSUME NamesAssumption == Ctl \notin Names
ASSUME AddrsAssumption == CtlAddr \notin Addrs /\ NULL \notin Addrs \cup {CtlAddr}
ASSUME MgrBoundsAssumption == MaxMsgs \in Nat /\ MaxIds \in Nat \ {0, 1}
ASSUME MgrAllocFailsAssumption == AllocFails \in BOOLEAN

VARIABLES
  live,        \* default_domain.iface_list: the allocated interfaces
  iface,       \* the contents of struct interface at each address
  loop,        \* lo->arg of the loopback endpoint of each name, NULL: no loop
  orphans,     \* names whose loopback endpoint stays without an interface and
               \* without a binding
  out,         \* what was given to rteipc_xfer for each name
  lost,        \* history: messages the daemon has dropped
  count,       \* messages received so far
  used,        \* entries stored in the endpoint table so far
  status,      \* "running", or "undefined" once freed memory was used or an
               \* id of the endpoint table may be used again
  incidents    \* history: which of "reroute", "duplicate", "nomem",
               \* "ctlclosed", "unstored" and "idreused" have happened

vars == <<live, iface, loop, orphans, out, lost, count, used, status, incidents>>

AllNames == Names \cup {Ctl}
AllAddrs == Addrs \cup {CtlAddr}
Message == [src : AllNames, n : 1 .. MaxMsgs]
Interface == [name : AllNames, managed : BOOLEAN, partner : AllAddrs \cup {NULL},
              pending : Seq(Message)]

\* The elements of a sequence.
Elems(s) == {s[k] : k \in 1 .. Len(s)}

\* iface_lookup_by_name.  An interface is in the list from iface_new to
\* iface_free; the order of the list is left out because names are unique in
\* it (NamesAreUnique).
Named(name) == {i \in live : iface[i].name = name}
Lookup(name) == IF Named(name) = {} THEN NULL ELSE CHOOSE i \in Named(name) : TRUE

\* iface_new and the fields that iface_build sets.
NewIface(name, managed) ==
  [name |-> name, managed |-> managed, partner |-> NULL, pending |-> <<>>]

\* The contents of freed memory, which no action reads.
Garbage == NewIface(Ctl, TRUE)

Init ==
  /\ live = {CtlAddr}
  /\ iface = [i \in AllAddrs |-> NewIface(Ctl, TRUE)]
  /\ loop = [n \in AllNames |-> IF n = Ctl THEN CtlAddr ELSE NULL]
  /\ orphans = {}
  /\ out = [n \in AllNames |-> <<>>]
  /\ lost = {}
  /\ count = 0
  /\ used = 2
  /\ status = "running"
  /\ incidents = {}

-----------------------------------------------------------------------------
(* Data from a device *)

\* The next message, from the device behind the loopback endpoint name.
Msg(name) == [src |-> name, n |-> count + 1]

Receive(name) ==
  /\ status = "running" /\ count < MaxMsgs
  /\ loop[name] # NULL /\ name \notin orphans
  /\ count' = count + 1

\* iface_pending adds the message behind the queue.
Enqueue(queue, m) == Append(queue, m)

\* iface_raw_handler without a partner.
RawPending(name) ==
  /\ Receive(name)
  /\ LET self == loop[name] IN
       /\ self \in live /\ ~iface[self].managed /\ iface[self].partner = NULL
       /\ \/ /\ iface' = [iface EXCEPT ![self].pending = Enqueue(@, Msg(name))]
             /\ UNCHANGED <<lost, incidents>>
          \/ /\ AllocFails
             /\ lost' = lost \cup {Msg(name)}
             /\ incidents' = incidents \cup {"nomem"}
             /\ UNCHANGED iface
  /\ UNCHANGED <<live, loop, orphans, out, used, status>>

\* The ways to choose some of the positions 1 .. n, in their order.
Choices(n) ==
  UNION {{f \in [1 .. m -> 1 .. n] : \A a, b \in 1 .. m : a < b => f[a] < f[b]} :
           m \in 0 .. n}

\* iface_raw_handler for the messages ms: a raw partner gets them as they are;
\* a managed one in a buffer of fixed size, and those that do not fit are
\* dropped.
RawForward(partner, ms) ==
  LET name == iface[partner].name IN
  \E fit \in Choices(Len(ms)) :
    /\ ~iface[partner].managed => DOMAIN fit = 1 .. Len(ms)
    /\ out' = [out EXCEPT ![name] = @ \o [a \in DOMAIN fit |-> ms[fit[a]]]]
    /\ lost' = lost \cup {ms[b] : b \in {x \in 1 .. Len(ms) :
                                           \A a \in DOMAIN fit : fit[a] # x}}

RawRouted(name) ==
  /\ Receive(name)
  /\ LET self == loop[name] IN
       /\ self \in live /\ ~iface[self].managed
       /\ iface[self].partner \in live
       /\ RawForward(iface[self].partner, <<Msg(name)>>)
  /\ UNCHANGED <<live, iface, loop, orphans, used, status, incidents>>

\* iface_managed_handler, for a managed interface and for an XFER command:
\* the data names its destination; it is dropped when there is no such
\* interface or when it is malformed.
Managed(name) ==
  /\ Receive(name)
  /\ name = Ctl \/ (loop[name] \in live /\ iface[loop[name]].managed)
  /\ \/ \E dest \in {d \in AllNames : Lookup(d) # NULL} :
          /\ out' = [out EXCEPT ![dest] = Append(@, Msg(name))]
          /\ UNCHANGED lost
     \/ /\ lost' = lost \cup {Msg(name)}
        /\ UNCHANGED out
  /\ UNCHANGED <<live, iface, loop, orphans, used, status, incidents>>

\* A callback whose argument, or whose partner, has been freed.
HandlerUsesFreed(name) ==
  /\ Receive(name) /\ name # Ctl
  /\ \/ loop[name] \notin live
     \/ /\ ~iface[loop[name]].managed
        /\ iface[loop[name]].partner \notin live \cup {NULL}
  /\ status' = "undefined"
  /\ lost' = lost \cup {Msg(name)}
  /\ UNCHANGED <<live, iface, loop, orphans, out, used, incidents>>

-----------------------------------------------------------------------------
(* Forgetting and freeing an interface *)

\* Clears the partner of i in the interfaces f.
Clear(f, i) == [f EXCEPT ![i].partner = NULL]

\* Mutant: a raw interface clears only its own side.
ForgetOneSide(f, i) ==
  IF f[i].managed
    THEN [j \in AllAddrs |-> IF j \in live \ {i} /\ f[j].partner = i
                               THEN [f[j] EXCEPT !.partner = NULL] ELSE f[j]]
    ELSE Clear(f, i)

\* Mutant: a managed interface is not looked for in the list.
ForgetRawOnly(f, i) ==
  IF ~f[i].managed /\ f[i].partner # NULL
    THEN Clear(Clear(f, f[i].partner), i) ELSE f

\* iface_forget(i), given the interfaces f: a raw interface clears its
\* partner's partner and its own; for a managed one every interface of the
\* list whose partner it is.
Forget(f, i) ==
  IF f[i].managed
    THEN [j \in AllAddrs |-> IF j \in live \ {i} /\ f[j].partner = i
                               THEN [f[j] EXCEPT !.partner = NULL] ELSE f[j]]
    ELSE IF f[i].partner # NULL THEN Clear(Clear(f, f[i].partner), i) ELSE f

\* iface_forget writes through a partner that has been freed.
ForgetUsesFreed(i) == /\ ~iface[i].managed
                      /\ iface[i].partner \notin live \cup {NULL}

\* A command needs the control interface's loopback endpoint.
Command == status = "running" /\ loop[Ctl] # NULL

-----------------------------------------------------------------------------
(* Commands *)

\* do_rtecmd_open succeeds: the name is new, and both endpoints open and bind.
CmdOpen(name, managed, i) ==
  /\ Command /\ used + 2 <= MaxIds
  /\ i \notin live /\ loop[name] = NULL
  /\ used' = used + 2
  /\ iface' = [iface EXCEPT ![i] = NewIface(name, managed)]
  /\ live' = live \cup {i}
  /\ loop' = [loop EXCEPT ![name] = i]
  /\ UNCHANGED <<orphans, out, lost, count, status, incidents>>

\* Every id is held: two by each interface.
TableFull == used = MaxIds /\ 2 * Cardinality(live) = MaxIds

\* The entries that an open that fails may have stored in the endpoint table.
\* The entry of an endpoint that cannot be opened counts: its id is not given
\* out again in the first generation.
EntriesStored ==
  {n \in (IF AllocFails \/ TableFull THEN 0 ELSE 1) .. 2 : used + n <= MaxIds}

\* The interfaces after an open that failed: iface_free has undone it, and
\* iface_forget may have found its address in another interface.
OpenUndone(name, managed, i) ==
  [Forget([iface EXCEPT ![i] = NewIface(name, managed)], i) EXCEPT ![i] = Garbage]

\* Mutant: a failed open does not close the loopback endpoint.
CmdOpenFailsKeepsLoop(name, managed, i) ==
  /\ Command
  /\ i \notin live /\ loop[name] = NULL
  /\ \E n \in EntriesStored : used' = used + n
  /\ iface' = OpenUndone(name, managed, i)
  /\ loop' = [loop EXCEPT ![name] = i]
  /\ UNCHANGED <<live, orphans, out, lost, count, status, incidents>>

\* do_rtecmd_open fails because the table is full, an endpoint or the binding
\* fails, or the entry of the device's endpoint cannot be allocated.  iface_free
\* closes the loopback endpoint if it was opened.
CmdOpenFails(name, managed, i) ==
  /\ Command
  /\ i \notin live /\ loop[name] = NULL
  /\ \E n \in EntriesStored : used' = used + n
  /\ iface' = OpenUndone(name, managed, i)
  /\ UNCHANGED <<live, loop, orphans, out, lost, count, status, incidents>>

\* do_rtecmd_open with a name that is in use: rteipc_open(name) fails, but
\* rteipc_xfer_setcb(name) finds the loopback endpoint of the interface that
\* has the name and gives it the new interface, which is then freed.
CmdOpenDuplicate(name, managed, i) ==
  /\ Command
  /\ i \notin live /\ loop[name] # NULL
  /\ \E n \in EntriesStored : used' = used + n
  /\ iface' = OpenUndone(name, managed, i)
  /\ loop' = [loop EXCEPT ![name] = i]
  /\ incidents' = incidents \cup {"duplicate"}
  /\ UNCHANGED <<live, orphans, out, lost, count, status>>

\* do_rtecmd_open when the table entry of the loopback endpoint cannot be
\* allocated: dtbl_set returns the id but does not store the endpoint.
\*   - When the device's endpoint is stored, it gets the same id.  Either it is
\*     opened and the binding of the id with itself fails, and iface_free closes
\*     the id twice, or it fails to open and iface_free closes an id whose entry
\*     leads to the freed endpoint.
\*   - When it is not stored, the id of the loopback endpoint finds nothing: the
\*     loopback endpoint stays, never bound, with the freed interface as its
\*     argument.
CmdOpenUnstored(name, managed, i) ==
  /\ Command /\ AllocFails /\ used < MaxIds
  /\ i \notin live /\ loop[name] = NULL
  /\ incidents' = incidents \cup {"unstored"}
  /\ \/ /\ status' = "undefined"
        /\ UNCHANGED <<iface, loop, orphans>>
     \/ /\ iface' = OpenUndone(name, managed, i)
        /\ loop' = [loop EXCEPT ![name] = i]
        /\ orphans' = orphans \cup {name}
        /\ UNCHANGED status
  /\ UNCHANGED <<live, out, lost, count, used>>

\* do_rtecmd_open when the table has no fresh id for both endpoints, though
\* some id is free: dtbl_set may return one that has an entry already, and
\* rteipc_bind and rteipc_close find the endpoint that had the id first.  The
\* model ends here; Endpoint goes on.
CmdOpenReusesId ==
  /\ Command /\ used + 2 > MaxIds /\ ~TableFull
  /\ status' = "undefined"
  /\ incidents' = incidents \cup {"idreused"}
  /\ UNCHANGED <<live, iface, loop, orphans, out, lost, count, used>>

\* do_rtecmd_close of one name: iface_free closes the endpoints, removes the
\* interface from the list, forgets its routes and frees it.  A command with
\* several names is several of these steps, the control interface last (the
\* order does not change the state they end in).  When it was the control interface
\* and its input holds another command, loop_on_data goes on with the freed
\* struct loop.
CmdClose(name) ==
  /\ Command
  /\ LET i == Lookup(name) IN
       /\ i # NULL /\ ~ForgetUsesFreed(i)
       /\ live' = live \ {i}
       /\ iface' = [Forget(iface, i) EXCEPT ![i] = Garbage]
       /\ lost' = lost \cup Elems(iface[i].pending)
  /\ loop' = [loop EXCEPT ![name] = NULL]
  /\ \/ name # Ctl /\ UNCHANGED <<status, incidents>>
     \/ /\ name = Ctl
        /\ status' \in {"running", "undefined"}
        /\ incidents' = incidents \cup {"ctlclosed"}
  /\ UNCHANGED <<orphans, out, count, used>>

\* Is the route from i, a raw interface with a raw partner, replaced?
Reroutes(i, partner) ==
  /\ ~iface[i].managed
  /\ iface[i].partner \notin {NULL, partner}
  /\ ~iface[iface[i].partner].managed

\* Mutant: the last message is not removed from the queue.
FlushedButOne(i, k) ==
  [iface[i] EXCEPT !.pending = SubSeq(@, IF k = 0 THEN 1 ELSE k, Len(@))]

\* iface_trigger(i) hands the pending messages to the new partner.  When a
\* malloc fails it stops after the first k.
Flushed(i, k) ==
  [iface[i] EXCEPT !.pending = SubSeq(@, k + 1, Len(@))]

FlushLengths(i) == IF AllocFails THEN 0 .. Len(iface[i].pending)
                                 ELSE {Len(iface[i].pending)}

\* One side of a new route: a raw interface gets the partner and its queue is
\* triggered, a managed one stays as it is.
Routed(i, partner, k) ==
  IF iface[i].managed THEN iface[i] ELSE [Flushed(i, k) EXCEPT !.partner = partner]

\* do_rtecmd_route: each raw side gets the other as its partner and pushes out
\* its pending messages.
CmdRoute(lname, rname) ==
  /\ Command
  /\ LET l == Lookup(lname)
         r == Lookup(rname)
     IN  /\ l # NULL /\ r # NULL /\ l # r
         /\ ~iface[l].managed \/ ~iface[r].managed
         /\ \E kl \in FlushLengths(l), kr \in FlushLengths(r) :
              /\ iface' = [iface EXCEPT ![l] = Routed(l, r, kl),
                                        ![r] = Routed(r, l, kr)]
              /\ LET toR == SubSeq(iface[l].pending, 1, kl)
                     toL == SubSeq(iface[r].pending, 1, kr)
                 IN  \/ ~iface[r].managed /\ ~iface[l].managed
                        /\ out' = [out EXCEPT ![rname] = @ \o toR, ![lname] = @ \o toL]
                        /\ UNCHANGED lost
                     \/ iface[r].managed /\ RawForward(r, toR)
                     \/ iface[l].managed /\ RawForward(l, toL)
              /\ incidents' = incidents
                   \cup (IF Reroutes(l, r) \/ Reroutes(r, l) THEN {"reroute"} ELSE {})
                   \cup (IF \/ kl < Len(iface[l].pending)
                            \/ kr < Len(iface[r].pending) THEN {"nomem"} ELSE {})
  /\ UNCHANGED <<live, loop, orphans, count, used, status>>

\* do_rtecmd_forget.
CmdForget(name) ==
  /\ Command
  /\ LET i == Lookup(name) IN
       /\ i # NULL /\ ~ForgetUsesFreed(i)
       /\ iface' = Forget(iface, i)
  /\ UNCHANGED <<live, loop, orphans, out, lost, count, used, status, incidents>>

\* do_rtecmd_cat of an interface without a partner: the pending messages go
\* into the reply, which is dropped when it exceeds the reply buffer.  When a
\* malloc fails the messages read so far are dropped and an error is replied.
CmdCat(name) ==
  /\ Command
  /\ LET i == Lookup(name) IN
       /\ i # NULL /\ iface[i].partner = NULL /\ iface[i].pending # <<>>
       /\ \E k \in FlushLengths(i) :
            LET ms == SubSeq(iface[i].pending, 1, k) IN
            /\ iface' = [iface EXCEPT ![i] = Flushed(i, k)]
            /\ \/ /\ k = Len(iface[i].pending)
                  /\ out' = [out EXCEPT ![Ctl] = @ \o ms]
                  /\ UNCHANGED <<lost, incidents>>
               \/ /\ k = Len(iface[i].pending)
                  /\ lost' = lost \cup Elems(ms)
                  /\ UNCHANGED <<out, incidents>>
               \/ /\ AllocFails
                  /\ lost' = lost \cup Elems(ms)
                  /\ incidents' = incidents \cup {"nomem"}
                  /\ UNCHANGED out
  /\ UNCHANGED <<live, loop, orphans, count, used, status>>

\* do_rtecmd_close, do_rtecmd_forget or do_rtecmd_list follows a partner that
\* has been freed.
CommandUsesFreed ==
  /\ Command
  /\ \E i \in live : iface[i].partner \notin live \cup {NULL}
  /\ status' = "undefined"
  /\ UNCHANGED <<live, iface, loop, orphans, out, lost, count, used, incidents>>

Next ==
  \/ \E name \in AllNames : Managed(name)
  \/ \E name \in Names : RawPending(name) \/ RawRouted(name) \/ HandlerUsesFreed(name)
  \/ \E name \in Names, managed \in BOOLEAN, i \in Addrs : CmdOpen(name, managed, i)
  \/ \E name \in AllNames, managed \in BOOLEAN, i \in Addrs :
       CmdOpenFails(name, managed, i) \/ CmdOpenDuplicate(name, managed, i)
  \/ \E name \in Names, managed \in BOOLEAN, i \in Addrs :
       CmdOpenUnstored(name, managed, i)
  \/ CmdOpenReusesId
  \/ \E name \in AllNames : CmdClose(name) \/ CmdForget(name) \/ CmdCat(name)
  \/ \E l, r \in AllNames : CmdRoute(l, r)
  \/ CommandUsesFreed

Spec == Init /\ [][Next]_vars

-----------------------------------------------------------------------------
(* Properties *)

\* The variables have their types.
TypeOK ==
  /\ live \in SUBSET AllAddrs
  /\ iface \in [AllAddrs -> Interface]
  /\ loop \in [AllNames -> AllAddrs \cup {NULL}]
  /\ orphans \in SUBSET AllNames
  /\ out \in [AllNames -> Seq(Message)]
  /\ lost \in SUBSET Message
  /\ count \in 0 .. MaxMsgs
  /\ used \in 2 .. MaxIds
  /\ status \in {"running", "undefined"}
  /\ incidents \in SUBSET {"reroute", "duplicate", "nomem", "ctlclosed", "unstored",
                          "idreused"}

\* No two interfaces have the same name, and the interfaces are the names for
\* which there is a loopback endpoint, except the loopback endpoints that an
\* open leaves behind when a table entry could not be allocated.
NamesAreUnique ==
  /\ \A i, j \in live : iface[i].name = iface[j].name => i = j
  /\ {iface[i].name : i \in live} = {n \in AllNames : loop[n] # NULL} \ orphans
  /\ \A n \in orphans : loop[n] # NULL /\ "unstored" \in incidents

\* As long as no open has reused a name, the data of a device reaches the
\* interface that was opened for it.
CallbacksFindInterface ==
  "duplicate" \notin incidents =>
    \A i \in live : loop[iface[i].name] = i

\* A name of a command means one interface, and the callback of a loopback
\* endpoint finds it.
InterfacesAreFound == NamesAreUnique /\ CallbacksFindInterface

\* "always NULL for a managed iface" (rtemgrd.c): a managed interface has no
\* partner, whatever routes are made, forgotten or left behind.
ManagedHasNoPartner ==
  \A i \in live : iface[i].managed => iface[i].partner = NULL

\* As long as no route between raw interfaces has been replaced without a
\* forget, every partner is an existing interface, and routes between raw
\* interfaces are mutual.
RoutesAreMutual ==
  "reroute" \notin incidents =>
    \A i \in live : iface[i].partner # NULL =>
      LET p == iface[i].partner IN
        p \in live \ {i} /\ (~iface[p].managed => iface[p].partner = i)

\* As long as no allocation fails, an interface that has a partner has nothing
\* pending: what arrives next cannot overtake what waits.
RoutedHasNoPending ==
  "nomem" \notin incidents =>
    \A i \in live : iface[i].partner # NULL => iface[i].pending = <<>>

\* The partners and the pending queues that route, forget, close and the handlers
\* leave behind.
RoutesAreSound == ManagedHasNoPartner /\ RoutesAreMutual /\ RoutedHasNoPending

\* Only a replaced route, a reused name, the end of the control interface, a
\* table entry that could not be allocated or an id of the endpoint table that
\* is used again makes the daemon use freed memory: a failed allocation of a
\* message does not, nor do failed opens, forgets and closes in any order.
MemoryIsSafe == incidents \subseteq {"nomem"} => status = "running"

\* The places where the message with number k is.
Places(k) ==
  (UNION {{<<"out", n, j>> : j \in {x \in 1 .. Len(out[n]) : out[n][x].n = k}} :
            n \in AllNames})
  \cup (UNION {{<<"pending", i, j>> : j \in {x \in 1 .. Len(iface[i].pending) :
                                             iface[i].pending[x].n = k}} : i \in live})
  \cup {<<"lost", m, 0>> : m \in {x \in lost : x.n = k}}

\* Every message that was received is at exactly one place: at one position of
\* one pending queue or of what one destination got, or among the dropped ones.
MessagesConserved == \A k \in 1 .. count : \E p \in Places(k) : Places(k) = {p}

\* As long as no allocation fails and no name is reused, each destination gets
\* the messages of one source in the order in which they were received, and
\* nothing that waits was received before something of the same source that
\* has left.
InOrder ==
  incidents \cap {"nomem", "duplicate"} = {} =>
    /\ \A n \in AllNames : \A j, k \in 1 .. Len(out[n]) :
         j < k /\ out[n][j].src = out[n][k].src => out[n][j].n < out[n][k].n
    /\ \A i \in live : \A k \in 1 .. Len(iface[i].pending) :
         LET m == iface[i].pending[k] IN
         /\ k < Len(iface[i].pending) => m.n < iface[i].pending[k + 1].n
         /\ \A n \in AllNames : \A x \in Elems(out[n]) : x.src = m.src => x.n < m.n

\* The handlers, iface_trigger and cat keep every message, in the order in which
\* it came.
MessagesAreKept == MessagesConserved /\ InOrder

=============================================================================
