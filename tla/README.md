# A verification project for rteipc

rteipc is a C library that joins *endpoints* (sockets, serial lines, GPIO, SPI
and I2C devices, sysfs attributes and in-process loopbacks) in pairs, so that
what one receives the other sends. `rtemgrd` is a daemon on top of it that
opens endpoints on command and routes data between them; `rtemgr` is its
command-line client. All I/O goes through libevent.

## The system

| part | source | state | operations |
|---|---|---|---|
| intrusive list | `list.c`, `list.h` | head, tail, links | push, pop, remove, iterate |
| descriptor table | `table.c`, `table.h` | bitmap of ids, cursor, list of entries | `dtbl_set`, `dtbl_get`, `dtbl_del` |
| endpoint core and API | `ep_core.c`, `ep.c`, `ep.h` | endpoints in the table, `bev` and `partner_id` of each | open, close, bind, unbind |
| message framing | `message.c` | bytes in an evbuffer | send a frame, drain a frame |
| loopback endpoint | `ep_loop.c` | list of names with callback and argument | open, close, xfer, setcb, on_data |
| IPC and INET endpoints | `ep_ipc.c` | listener, at most one connection | accept, read, end of file, on_data, close |
| peripherals | `ep_tty.c`, `ep_gpio.c`, `ep_spi.c`, `ep_i2c.c`, `ep_sysfs.c` | a device | on_data, upstream |
| client connections | `connect.c`, `base.c` | contexts in a second table, `ctx_mutex`, one event loop per thread | connect, setcb, send, the two callbacks |
| routing daemon | `rtemgrd.c` | interfaces: name, managed, partner, pending queue | list, open, close, route, forget, xfer, cat, data handlers |
| control protocol | `librtemgr.c`, `rtemgr-common.h`, `rtemgrcli.h` | a packet: command, payload, interfaces | emit and parse YAML, encode for each bus, decode |
| command-line client | `rtemgr.c` | one request, a timer, lists of arguments and options | parse a command line, send, print the reply |

How they interact. The endpoint core and the connections each keep their heap
objects in a descriptor table and give the *ids* to their users. A binding is a
libevent bufferevent pair: what is written to the one end is the input of the
other, and `read_cb` of `ep.c` hands it to the endpoint's `on_data`. A loopback
endpoint's `on_data` drains frames and calls the callback set for its name; the
daemon's interfaces are loopback endpoints bound to devices, so every message
of a device ends in `default_domain_handler` with the interface as argument.
The control port is an interface, too, whose messages are commands. A client
process is joined to an IPC endpoint by a stream socket on which both sides
frame messages. Requests and replies of the control port, and what goes to and
from a *managed* interface, are packets that `librtemgr.c` writes as YAML into a
buffer of limited size.

What is hard: ids and heap addresses that are used again; callbacks that free
what their caller goes on with; a stream that is cut anywhere, and clients that
end anywhere; interfaces that point at each other; queues that must keep order
across a change of route; threads that share a table and one mutex that is held
while users' code runs, and a list that has no lock at all; a client that gives
up while its reply is on its way; packets that do not fit their buffer. The list is `hazards` in `PROJECT.json`, each at its
line.

## Modules

`DescTable` is the table alone: bitmap, cursor, entries and one operator per
operation. `IsNextId` says what the search returns, `NextIdLoop` is the search
as the code writes it: `NextIdFrom[k]` is what the nested loops return from their
k-th test on. Two facts of the code carry the whole model: `dtbl_del`
clears a bit and leaves the entry, and `dtbl_get` returns the oldest entry of
an id. So a lookup is right as long as no id is handed out twice
(*the first generation*: 128 endpoints, 256 connections in one process).

`DescTableUse` adds the callers' protocol: every pointer has one owner, who
stores it, keeps the id and gives it back. Its specification is `UseSpec`.

`Endpoint` (extends `DescTable`) models `rteipc_open`, `rteipc_close`,
`rteipc_bind`, `rteipc_unbind`. An address of `Values` is a heap address, free
or live, and is allocated again after it was freed. A binding is two ends of a
pair of `Pairs`. What the code would do with a freed endpoint is `UseFreed`, and
a failing `assert` is `AssertFails`; both end the run of the program.

`Message` models a sender, a stream that arrives in pieces, and a reader
callback that drains frames. A frame is its offset and its length; bytes are not
represented. The sum `msglen + 4` is taken modulo `Mod`, and at an offset that
is no start of a frame any length may be read.

`IpcEndpoint` models an IPC or INET endpoint between clients and the endpoint it
is bound to. A message is two pieces, so that a client can end inside one.
A connection ends with the end of file, or with an error when a write to a
client that is gone fails; then what was not read is lost.

`Peripheral` models an endpoint of a device, of any kind: I2C, SPI, TTY, GPIO
input or output, SYSFS. One iteration of an `on_data` loop is one step; nothing
interleaves with it, because one thread runs all callbacks, but the local
pointers `rx` and `xfer` carry over to the next iteration, and how many requests
one call meets depends on what happened before it. `fd` is what the number in
`data->fd` refers to, which changes when `rteipc_msg_write` closes it.

`RteMgrd` models the daemon: interfaces are heap objects at addresses, `loop`
is the callback argument of every loopback name, `out` what was handed to each
device. Of the messages that a raw interface forwards, those whose packet could
not be built are missing: `Choices` are the positions that get through. `Places`
is every place a message has. `incidents` records what the properties must exclude by name: a route
that replaced another, an open of a name in use, the close of the control
interface, a failed allocation of a message, an entry of the endpoint table that
could not be allocated, an id that is used again. `used` counts the entries of the
endpoint table: an interface takes two ids, an open that fails none, one or two,
and the model covers the first generation, in which an id finds its own endpoint
(`HandlesFindEndpoints` of `Endpoint`). An open that would need an id for the
second time is `CmdOpenReusesId`, which ends the run; what ids then lead to is in
`Endpoint`. `CmdOpenUnstored` is an open whose loopback endpoint has no entry: the
device's endpoint gets the same id, and undoing the open then closes that id
twice, or finds nothing to close and leaves the loopback endpoint, among
`orphans`.

`Connect` (extends `DescTable`) models threads with an event loop each, the
table of contexts and `ctx_mutex`. A call of the library is several steps where
the code can be interleaved: before the lock, the section under the lock, after
it. A user's callback is a span of steps under the lock in which the user may
call the API. `used` records what the users did that the library does not
withstand.

`CtlProtocol` composes `rtemgr` processes, the control port and
`process_ctlport`. It extends `IpcEndpoint` and takes that module's steps for the
socket, so accepting, refusing, tearing and storing are those of the endpoint; its
own specification is `CtlSpec`. A reply carries no mark of its request: `answers`
records whose request the n-th reply answers. A client ends with the first reply,
with its timer, by being killed, or when its connection is closed.

`Codec` is the packet and its way through `rtemgr_data_emit` and
`rtemgr_data_parse`. A document is the sequence of libyaml's events; the parser
takes one event per step, with the variables of the code (`field`, `item`,
`seq_nest`, `field_start`, `idx_intf`). Scalars are strings, because a name may
look like a key; a payload is a token and a size. `EmitBytes` counts what libyaml
writes, since the size of the buffers decides what is sent at all.

`Transfer` (extends `Codec`) makes packets and says what becomes of them: the
parsers of all subcommands of `rtemgr`, the `rtemgr_*_encode_domain` functions,
`iface_raw_handler` and `iface_managed_handler` with their conversions,
`process_ctlport` and `reply_callback`. A behaviour is one call on its way.
A payload has no terminator; whether the bytes after it in memory are read as a
part of it is the choice `junk`, recorded in `stray`.

`List` is `list.c`, pointer by pointer. `NameList` (extends `List`) is its use by
`ep_loop.c` and by the options of `rtemgr.c`: names are looked up, added, removed
and popped by one thread, and looked up one node at a time by others, which the
repository's README allows (`src/README.md:59`).

Two abstract specifications say what a component promises. `Fifo` is a queue of
messages; `Message` implements it, the queue being the frames behind the last
delivered one, as long as every message fits the length field. `NameSeq` is a
sequence of distinct names; `NameList` implements it, the sequence being what
`next` links from `head`. In the second the step of interest is `Add`: that no
name comes twice rests on a lookup that was finished earlier.

`DescTableProofs`, `EndpointProofs`, `MessageProofs`, `IpcEndpointProofs`,
`NameListProofs`, `PeripheralProofs`, `RteMgrdProofs` and `ConnectProofs` hold the
theorems about the module of that name; the second part of `IpcEndpointProofs` is
about `CtlProtocol`. `EndpointProofs` and `ConnectProofs` extend `DescTableProofs`,
whose first part is about the table whoever uses it. The `MC` modules add symmetry sets; `MCTransfer` lists the calls.

Every definition that models code is listed in `map` of `PROJECT.json` with its
lines. Definitions whose comment begins with *Mutant* are plausible errors in
the code; each property has one that it catches (`mutants`).

## Runs

| run | question | bounds |
|---|---|---|
| `desc_table` | Are ids exclusive, is the search the loop of the code, when are lookup and refusal right? | 2 words of 2 bits, 5 owners, 5 stores: one more than ids, so an id is used twice; allocations fail |
| `endpoint` | Are bindings mutual, do ids find endpoints, is the first generation safe? | 4 ids, 3 addresses, 5 opens, 2 pairs, a universal and a restricted type; allocations fail |
| `endpoint_reuse` | Do the assertions of `unbind_endpoint` hold? **Violated** | 4 ids, 6 opens |
| `message` | Does framing implement a queue, and is everything delivered in the end? | header 2 bytes, length modulo 5, lengths 0, 1, 2 and 3 (the last wraps), 3 frames; allocations fail |
| `rtemgrd` | Names, callbacks, routes, queues, order, conservation, memory, and what is left of them when opens and allocations fail | 2 names besides the control interface, 2 addresses (each used again after a close), 2 messages, 8 ids: three opens that succeed, or more that fail; allocations fail. An open that stores no entry, as on a full table, is checked through the failed allocations; that every id is held (`TableFull`) is not reached with three interfaces and is left to the proof |
| `ipc` | One connection, no data twice, whole frames, and stored data arrives in both directions, through bind, unbind and close | 2 clients, 2 messages each and 2 of the peer |
| `ctl` | Whose reply does `rtemgr` print, how far can replies be off, does it ever need its timer? | 3 clients, one of which has a request whose reply is too large |
| `transfer` | Do packets come back as they were, what do devices get, which packets are lost? | the true sizes of the code; 37 command lines, 164 calls of `rtemgr_*_send` and 136 device messages, at and around every limit; allocations fail |
| `names` | Are the links one list, what may a lookup without a lock rely on? | 3 nodes, 3 names, 1 callback, a thread that changes the list and one that looks up; allocations fail |
| `peripheral` | Do replies match requests, is input kept in order, which sequences corrupt memory, stop the peer's reader or touch a foreign file? | all six kinds, 2 requests, 3 inputs, 3 reads; writes of 0 or 2 bytes; allocations and devices fail |
| `connect` | Exclusion of callbacks, ownership of contexts, memory | 2 threads, 2 addresses, 2 ids, 3 connections |
| `connect_live` | Is the mutex always released? | 2 threads, 1 id, 2 connections, 2 messages |

Why the bounds are enough: every counter is bounded just above the value at
which the behaviour changes. Ids wrap once (5 stores or opens for 4 ids, 3
connections for 2 ids), lengths wrap the length field, three interfaces (the
control interface is one) are the least that a replaced route needs, two messages the least for order, two
clients the least for one that is refused or that follows another, three for a
reply that is passed on twice, two requests the least for a batch, three nodes
for one in the middle of a list. `transfer` has no scaled sizes: a name of 15 and
of 16 bytes, a path of 127 and of 128, payloads on both sides of every size at
which a buffer is too small.
`CHECK_DEADLOCK FALSE` is set everywhere but in `transfer`, where a stuck parser
would be a deadlock: the other models stop when their bounds are reached, and the
programs may idle.

Most invariants are conditional, and the conditions are the finding: in
`RteMgrd`, `MemoryIsSafe` says that *only* a replaced route, a reused name, the
end of the control interface, a table entry that could not be allocated or an
endpoint id that is used again leads to freed memory, and `InterfacesAreFound` that
a loopback endpoint stays without its interface only after such an entry; in `Connect`, that only
sharing a connection between threads, using an id after its connection ended,
events before `rteipc_setcb` or a refused connection do; in `Peripheral`, that a
buffer is freed twice only when one batch mixes requests with and without a
buffer, that an empty frame comes only from a failing read of a serial line or
from an SPI request to read nothing, and that a foreign file is touched only
after a write has failed. In the absence of these the invariants hold
unconditionally, through every interleaving. `IdsAreExclusive` of `DescTableUse`
leaves out ids that were returned without being stored: what becomes of those is in
`Endpoint` (`BindingsAreMutual` holds with them) and `RteMgrd`.
`RefusesOnlyWhenFull` is about the first generation of ids; later the search does
fail while lower words have free ids, and `SearchIsFirstFree` says exactly when.
`CallbacksExclusive` and `LockIsReleased` leave out a callback that takes
`ctx_mutex` again: it waits for itself, in the code and in the model.

`LossesAreKnown` of `Transfer` is of the same kind. It says which packets are
*refused* (the buffer is too small: about 193 to 6380 bytes of payload for
`rtemgr_*_send`, 106 to 9889 for a device's message to a managed interface,
because 3/2 of the payload is less than base64 with line breaks, indentation and
the other members; 2000 bytes or 10 interfaces on the control port) and which are
*dropped* by the daemon although the library accepted them: with enough memory
only those for an unknown destination, and I2C transfers that only read. All
others arrive, which is `ArrivesAsSent`; where the memory after a payload is read
as a part of it, a GPIO line may be set instead of cleared and an SPI or I2C
transfer may be longer, and the property says that nothing else of the call
changes. The values of the bytes are not modelled. `OverrunsOnlyLarge`, a part of
`StaysInBounds`, says that the base64 text fits its buffer for payloads of up to
15147 bytes; from 15148 to 15168, and in a growing range before every further
3 kilobytes, it does not, since the padding of 256 bytes in `rtemgr_data_emit` is
constant, and the line breaks are not. Such a call ends there, as `overrun`.

In `CtlProtocol`, `OwnReply` holds until a client gives up; then
`BacklogIsBounded` says that the replies that are off are never more than the
clients that gave up. A reply that was left behind is printed by the next client,
whose own reply then takes its place, so the offset does not heal by itself.
`Answered` excludes a torn request, whose bytes swallow the next one.

`LookupsAreSound` of `NameList` states what threads may do without a lock: look
up while another thread adds, and not while it removes.

The violation `endpoint_reuse` is the finding in `PROJECT.json`: the assertion
of `unbind_endpoint` fails from the second use of an id on.

The models show more places at which a comment or a document and the code
differ, which the properties above state as they are in the code:

* `message.c:35` says of `rteipc_msg_drain` that it returns "0 if buffer is
  empty". It also returns 0 for a frame of length zero, which stays in the
  buffer in front of all later messages. `EventuallyDelivered` is therefore
  stated for messages in front of which there is no empty one, and `NoEmptyFrames`
  says who can write one.
* `rtemgr.c:162` says that `forget` removes "all route related to the endpoint".
  After `route a b` and `route a c`, `forget a` leaves `b` with partner `a`;
  `RoutesAreSound` and `MemoryIsSafe` except routes that were replaced.
* The repository's README (line 256) says that `rteipc_connect` returns -1 on
  failure. When the connection is refused at once, `connect_event_cb` calls an
  `err_cb` that was never initialised; `MemoryIsSafe` of `Connect` excepts this.
* What a client writes *before* `rteipc_bind` is not available in the other
  endpoint when the binding comes, but only when the client writes again.
  `StoredDataArrives` is stated for data that comes to a bound endpoint.

## Fairness

`Message`, `IpcEndpoint` and `Peripheral` assume weak fairness of what the event
loop does: bytes that were written arrive, a scheduled callback runs, a callback
that runs goes on (for a serial line that means that the device takes data:
`rteipc_msg_write` repeats a write that would block). Clients, senders and the
owner of an endpoint promise nothing.
`CtlProtocol` assumes the same of the daemon's loop and of the loops of the
clients: a client that is connected writes its request, takes a reply that has
come, and notices that its connection is closed. Neither connecting nor the timer
is fair: `Answered` says that the timer is not needed.
`Connect` assumes weak fairness of each thread inside the library, and strong
fairness of the return of a user's callback: a callback makes finitely many
calls. The mutex is not assumed to be fair, which POSIX does not promise; so
`LockIsReleased` says that the mutex becomes free and not who gets it.

## Proofs

The theorems hold for every value of the constants that the assumptions of the
modules allow. The assumptions say that bounds are natural numbers (the width and
the number of words of the table positive), that `NULL` is no address, client or
bufferevent pair, nor a structure of a loopback endpoint, that the control interface's name and address are its own, that
the endpoint table has ids for the control interface, that
the header of a frame is not empty and shorter than the modulus, that the thread
that opens and closes loopback endpoints is not one of those that only look names
up, that the sets of types and uses are those of the code, and, in `CtlProtocol`,
that the clients are finitely many and that the bound on messages lets each be
answered. Every run evaluates those of its
modules.

An invariant that a run checks is seldom inductive. What each proof adds to it is
its argument:

* `DescTableProofs`: `TypeCorrect`, `ExclusiveIds`, `LookupCorrect`,
  `RefusalCorrect`. The invariant is
  `DtblInv == UseTypeOK /\ IdsAreExclusive /\ GenerationShape`. `LookupFindsOwner`
  alone is not inductive: that the next id has no older entry follows only from
  the shape of the first generation, in which the k-th entry has id k - 1 and
  the cursor is the number of entries. The lemma `NextIdIsCursor` shows that the
  search then returns the cursor.
  `SearchCorrect` is about the loop itself. `NextIdFrom` is a recursive function,
  so first it must be shown that the function exists, and then what it returns:
  both by the least k at which they would fail, since every k that does not end
  the loop is followed by k + 1 and the loop ends by the last word
  (`LoopFunctionExists` and `NextIdLoopValue`). `EndsFirst` relates the position at which the loop ends to
  the word and bit of `IsNextId`.
* `EndpointProofs`: `EpTypeCorrect`, `BindingsCorrect`, `HandlesCorrect`,
  `FirstGenerationCorrect`. `EpInv` adds `HandleShape` to what is claimed: in the
  first generation ids are handed out in sequence (`InSequence`, the shape that
  the first part of `DescTableProofs` reasons about), the held ids are those of the allocated
  endpoints, and the entry of an id leads to its endpoint. From this a lookup by
  `rteipc_close` or by `unbind_endpoint` finds the endpoint it means, and from
  `BindingsAreMutual` the partner is the one that is bound; so nothing freed is
  used and the assertions hold. `BindingsAreMutual` itself holds in every
  generation: a step that would break it uses a freed endpoint and ends the run.
* `MessageProofs`: `MessageTypeCorrect`, `FramingCorrect`. The invariant is
  `MsgInv == TypeOK /\ Contiguous /\ Aligned /\ DeliversInOrder`:
  frames follow each other without a gap, and, as long as all frames fit, the
  read position is the start of the frame after the last delivered one. Without
  `Aligned` a step could read a length in the middle of a frame.
  `FifoRefined` is the refinement `Spec => Abstract!Spec` of `Fifo`: from `MsgInv`
  before and after a step, a frame that is sent is a `Put` (`SendPuts`), a message
  that is drained is the `Head` of the queue (`DrainGets`), a message that does not
  fit is `Void`, and every other step stutters.
* `IpcEndpointProofs`: `IpcTypeCorrect`, `AcceptsOneConnection`, `DeliveredOnce`,
  `FramesCorrect`. `ConnInv` is the state of the connection; `DeliveryInv` says that
  what waits is newer than all that any client got. The way to the peer has three
  parts. `StreamInv`: the buffers of the connection hold the last pieces of its
  client's stream, with `taken` counting the pieces that have left them.
  `OrderInv`: behind the connection the pieces of a client are in the order of
  its stream. `WholeInv`: unless something was torn, the peer's input is whole
  messages and at most one first piece, and then the connection's next piece is
  its second one. The last part is what a connection that is replaced could
  break, and why `torn` is the exact condition.
  `CtlTypeCorrect`, `RepliesAreOwn` and `BacklogBounded` are about `CtlProtocol`.
  Every step of it is a step of the endpoint or changes nothing of it (`CtlStep`),
  so `IpcInv`, the invariant of the endpoint, holds here, too (`CtlKeepsIpcInv`).
  What is added: `BaseInv` relates how a client ended to its connection and to what
  it wrote and got. `RequestInv`: unless something was torn, the request that
  `process_ctlport` works on and those it has answered have been read to their last
  piece, none is answered twice, and the reply to a client that has not ended waits
  in the endpoint or has been given to that client.
  `OwnInv`: until a client gives up, nothing is torn, and each client got at most
  one reply, its own. `RepliesAreOwn` follows from `OwnInv`; that `OwnInv` is
  inductive rests on the bound, which says that then nothing in the daemon is of a
  client that is gone, so that what waits in the endpoint answers the client that
  is connected.
  `BacklogBounded` is a counting argument in each state by itself (`BacklogHolds`).
  Let R be the clients that ended with a reply. The first reply that each of them
  got answers some request, and to different clients it answers different ones, so
  the clients T whose requests these are, are as many as R. A client of T has
  ended, since the reply to one that has not is still with it; its request was read
  and its reply was taken, so it is no stray. Both T and the strays have written
  and ended, and so are among those that gave up and R. Hence the strays are no more than those that
  gave up. It is here that the clients must be finitely many.
* `NameListProofs`: `NameTypeCorrect`, `LinksCorrect`, `LookupsCorrect`,
  `NameSeqRefined`. The invariant says that there is a sequence of distinct nodes
  along which `next` and `prev` lead (`Order`), that these are the structures in use
  and have distinct names (`Shape`), that a lookup during which nothing was removed
  is at a node in use and not behind a name that was there all the time
  (`LookupOK`), and that the owner's lookup is not behind its name at all
  (`OwnerOK`). `Chain` and
  `BackChain` of the model follow the links with a recursive function; that they
  give this sequence is shown as for `NextIdFrom`, by the least position at which
  they would not. For the refinement each action is shown to be a step of `NameSeq`
  or none (`SetsCallback` gives it the callback that is set); that `Add` is one is the interesting case, since no name comes twice only
  because the owner's lookup, which other threads do not disturb, came to the end.
* `PeripheralProofs`: `PerTypeCorrect`, `ResourcesCorrect`, `RepliesCorrect`,
  `FramesHaveContents`, `InputCorrect`. `PerInv` adds that requests that wait come
  after all that the device did (`InOrder`), that a buffer which is left freed was
  allocated for a request of this batch (`LeftOK`), that a descriptor is not its
  own only after a failed write (`FdOK`), and which frames are input and which are
  replies (`OutOK`).
* `RteMgrdProofs`: `InterfacesCorrect`, `RoutesCorrect`, `DaemonMemoryCorrect`.
  The parts of the three invariants together are inductive (`MgrInv`): a message
  is handed to a live partner because routes are mutual, routes stay mutual
  because `close` forgets by the partner that it finds, and it finds it because
  names are unique. An open that is undone keeps them because its interface was in
  no route (`UndoneEffect`); one whose loopback endpoint stays (`CmdOpenUnstored`)
  because its name is then among the `orphans`, from which nothing is received. The
  theorems are about the first generation of ids, in which `CmdOpen` and `CmdClose`
  find their endpoints by `HandlesCorrect` of `EndpointProofs`; the step that leaves
  it is recorded as `idreused`, and the daemon is not followed behind it.
  `MessagesCorrect` adds `MsgInv`: every number up to `count` is at exactly one
  place (`Kept`), a queue holds the messages of its own interface only, older than
  any that comes, and what has left is older than what waits (`Ordered`). All
  handlers are few moves: the first k messages of a queue leave it and a choice
  of them reaches a destination (`Moved`), a message joins a queue (`Longer`), or
  it passes an interface that has nothing waiting (`Passed`). Each move is shown to
  keep `Kept` and `Ordered` once, for arbitrary queues, and each action to be one of
  them. That a message may pass is `RoutedHasNoPending`, which is why a failed
  allocation, after which messages wait at a routed interface, is an exception.
* `ConnectProofs`: `ConTypeCorrect`, `CallbacksCorrect`, `ContextsCorrect`,
  `ConMemoryCorrect`. `ConInv` says what each thread has at each point of a call
  (`CallsOK`), that one callback runs at a time (`OneCallback`), and, in the first
  generation, for each thread that the context it goes on with is allocated and
  its own, for each context who has it, and for each id that a context has it
  (`ConShape`). `ContextsAreOwned` alone does not survive a callback that returns:
  between the lock and the `free` the id is taken and the context is not yet gone.

Only model-checked:

* the liveness properties, which are outside of what the prover does:
  `EventuallyDelivered`, `StoredDataArrives`, `RequestsAreHandled`, `Answered`,
  `LockIsReleased`;
* `Codec` and `Transfer`: scalars are strings that are concatenated and measured,
  which the prover does not do, and a document may have any number of interfaces,
  so that what the parser returns for every document needs an induction over it.
  These are `RoundTrip`, `StaysInBounds`, `ArrivesAsSent`, `LossesAreKnown` and
  `PrintsResult`;
* `UnbindAssertsHold`, which does not hold.

## Not modelled

* The demo programs (`src/demo`): examples of the API without state of their own.
* libevent, libyaml, libb64, udev and the devices, beyond what the code relies on:
  which callbacks run, which events a document has and how many bytes it takes.
* The text that is printed; the time stamps of GPIO edges; getopt and the usage
  text.
* Memory that is only leaked: iterators after a `return` inside `list_each`,
  the buffers of `rtemgr_data_emit`. A failed allocation of an iterator ends the
  process in `NameList`; failing `strdup`, failing allocations inside libyaml and
  inside `rteipc_connect`, and the unchecked one in `domain_collect_ifaces` are
  left out.
* The byte that `make_arg` writes past its copy of an argument; what it leaves
  uninitialised is modelled (the client may crash when it frees it).
* A packet that `xfer` on the control port forwards to a managed interface is not
  followed further; the same way is followed from `rtemgr_*_send`.
* Data races on the contents of a bufferevent that two threads use (only
  lifetimes are modelled). `dtbl_set` and the assignment of `ctx->bev` in
  `connect.c:318` and `324` are one step, which only threads that share a connection
  could tell apart. More than one domain: the code has one.
  `event_base_loopexit` when the listener of an IPC endpoint fails.
* The daemon after an endpoint id is used again (`CmdOpenReusesId`), or after it
  used freed memory.
* SIGPIPE. Nothing in the code ignores it: when a client ends before what is
  written to it has left, the process can end instead of getting the error after
  which `IpcEndpoint` goes on (`WriteError`). The models are those of a process
  that ignores the signal.
* A name of 16 characters in the daemon: `strcpy` in `iface_build`
  (`rtemgrd.c:238`) takes it from an array without terminator. `Transfer` follows
  such names in packets only. Names and paths that change the kind of an endpoint:
  a name with `://` in it, or a bus type outside the table whose path has none and
  is opened as a second loopback endpoint.
* `List.ListPush` is one step although `list.c:45` has no lock: the order of its
  stores happens to be safe for a walk from the head, compilers and processors
  that keep it assumed. In `NameList` the use of what a lookup found (`Found`) is
  the same step as finding it; only a removal, which `LookupsAreSound` excepts,
  could come between.
* In `Peripheral`, the event of a descriptor that `rteipc_msg_write` has closed:
  the model takes it as disabled, while libevent keeps it registered and it could
  fire for a file that later gets the number. A failing `evbuffer_add` in
  `rteipc_buffer` (`message.c:94`), which would leave an empty frame.

## Plan

Every part that carries logic is modelled, and every safety property that the runs
check is proved except those of `Codec` and `Transfer`. If the code grows, what to do
next is:

1. a version of `Codec` in which a scalar is a token with a length, so that the
   parser's position in a document of any number of interfaces can be an invariant;
2. the data races on a bufferevent that two threads use, which need a model of
   libevent's own locking.
