------------------------------ MODULE Transfer ------------------------------
(***************************************************************************)
(* What packets of the control protocol (Codec) are made of and what       *)
(* becomes of them:                                                        *)
(*                                                                         *)
(*   rtemgr command --request--> process_ctlport --reply--> rtemgr         *)
(*   rtemgr_*_send  --request--> iface_managed_handler --> device          *)
(*                                      \--forward--> managed interface    *)
(*   device --> iface_raw_handler --forward--> managed interface           *)
(*                                                                         *)
(* A behaviour is one call on its way.  What the commands do to the        *)
(* daemon's interfaces is in RteMgrd; here they succeed or fail.           *)
(***************************************************************************)
EXTENDS Codec

CONSTANTS
  Lines,      \* command lines of rtemgr
  Sends,      \* calls of rtemgr_send and its variants
  Raws,       \* messages that a device sends to a raw interface
  Targets,    \* the daemon's interfaces, a function of the name: [bus, managed]
  Listings,   \* what list may find, sequences of interfaces
  Queued      \* sizes of what cat may find

VARIABLES
  call,       \* the call
  leg,        \* "start", "request", "reply", "forward" or "end"
  result,     \* "none", or how it ended: "rejected" (the caller gets an error),
              \* "crashed", "refused" (the packet does not fit its buffer), "overrun"
              \* (its base64 text does not fit the memory it is written to), "nomem",
              \* "dropped", "device", "received", or what rtemgr prints: "printed",
              \* "unknown" (error) or "silence"
  given,      \* what the device or the receiver was given, "nothing" before
  stray       \* history: what follows the payload in memory was read

vars == <<codecVars, call, leg, result, given, stray>>

EP_IPC == 1
EP_TTY == 2
EP_GPIO == 3
EP_SPI == 4
EP_I2C == 5
EP_SYSFS == 6
EP_INET == 7

RTECMD == [list |-> 1, open |-> 2, close |-> 3, route |-> 4, forget |-> 5, xfer |-> 6,
           cat |-> 7]

NoPacket == [NewData EXCEPT !.action = -1]

-----------------------------------------------------------------------------
(* The subcommands of rtemgr.c.  A command line has the subcommand, its      *)
(* arguments, and the values of --name, --bus, --value, --address, --read    *)
(* and --options (a sequence of [key, val], where "" stands for no value);   *)
(* value is what --attr and --value make up, "none" without either.          *)

\* The buses for which an option of open is valid.
OptionBuses ==
  [speed |-> {EP_TTY, EP_SPI}, file |-> {EP_IPC}, abstract |-> {EP_IPC}, abs |-> {EP_IPC},
   managed |-> {EP_IPC, EP_INET}, line |-> {EP_GPIO}, out |-> {EP_GPIO}, in |-> {EP_GPIO},
   hi |-> {EP_GPIO}, lo |-> {EP_GPIO}, mode |-> {EP_SPI}]

\* parse_opts: no key may come twice.
OptsParse(opts) == \A j, k \in 1 .. Len(opts) : opts[j].key = opts[k].key => j = k

\* The options of a command line with one of the keys, and the number that the
\* last of them has.
Having(l, keys) == SelectSeq(l.opts, LAMBDA o : o.key \in keys)
Has(l, keys) == Having(l, keys) # <<>>
Number(l, key, default) ==
  IF Has(l, {key}) THEN Strtoul(Last(Having(l, {key})).val) ELSE default
Speed(l, default) == IF Number(l, "speed", 0) = 0 THEN default ELSE Number(l, "speed", 0)

\* Of two opposite keys, key is the one that came last.
LastIs(l, key, other) == Has(l, {key}) /\ Last(Having(l, {key, other})).key = key

\* The parameters of the bus, as open_parser writes them into the path.
OpenPath(l, name) ==
  LET path == Strncpy(PathSize, l.args[1])
      text == NameText([name |-> name, path |-> path])
      colon(k) == SubSeq(path, k, k) = ":"
      port == \E k \in 2 .. Len(path) - 1 :
                colon(k) /\ ~colon(k + 1) /\ \A j \in 1 .. k - 1 : ~colon(j)
      out_ == LastIs(l, "out", "in")
      all  == CASE l.bus = EP_IPC -> IF Has(l, {"abstract", "abs"}) THEN "@" \o path ELSE path
                [] l.bus = EP_INET -> IF port THEN path ELSE path \o ":9110"
                [] l.bus = EP_TTY -> path \o "," \o Decimal(Speed(l, 115200))
                [] l.bus = EP_GPIO -> text \o "@" \o path \o "-"
                                      \o Decimal(Number(l, "line", 0) % 2 ^ 8)
                                      \o (IF ~out_ THEN ",in"
                                          ELSE IF LastIs(l, "hi", "lo") THEN ",out,1" ELSE ",out,0")
                [] l.bus = EP_SPI -> path \o "," \o Decimal(Speed(l, 5000))
                                     \o "," \o Decimal(Number(l, "mode", 3))
                [] OTHER -> path
  IN IF l.bus \in {EP_TTY, EP_GPIO, EP_SPI} THEN Strncpy(PathSize - 1, all) ELSE all

OpenParser(l, d) ==
  IF /\ l.name # "" /\ l.bus >= 0 /\ Len(l.args) = 1
     /\ \A k \in 1 .. Len(l.opts) :
          /\ l.opts[k].key \in DOMAIN OptionBuses
          /\ l.bus \in OptionBuses[l.opts[k].key]
          /\ l.opts[k].key = "speed" => l.opts[k].val # ""
    THEN LET name == Strncpy(NameSize, l.name) IN
         [d EXCEPT !.interfaces =
            <<[NewIntf EXCEPT !.name = name, !.bus_type = l.bus,
                              !.path = OpenPath(l, name),
                              !.managed = IF Has(l, {"managed"}) THEN 1 ELSE 0]>>]
    ELSE NoPacket

\* The interfaces that the arguments name.
Named(args) ==
  [k \in 1 .. Len(args) |-> [NewIntf EXCEPT !.name = Strncpy(NameSize, args[k])]]

\* Mutant: one interface is missing.
RouteParserShort(l, d) ==
  IF Len(l.args) = 2 THEN [d EXCEPT !.interfaces = Named(<<l.args[2]>>)] ELSE NoPacket

CloseParser(l, d) == IF Len(l.args) >= 1 THEN [d EXCEPT !.interfaces = Named(l.args)] ELSE NoPacket
RouteParser(l, d) == IF Len(l.args) = 2 THEN [d EXCEPT !.interfaces = Named(l.args)] ELSE NoPacket
ForgetParser(l, d) == IF Len(l.args) = 1 THEN [d EXCEPT !.interfaces = Named(l.args)] ELSE NoPacket
CatParser(l, d) == IF Len(l.args) = 1 THEN [d EXCEPT !.interfaces = Named(l.args)] ELSE NoPacket

XferParser(l, d) ==
  IF /\ Len(l.args) = 1
     /\ \A k \in 1 .. Len(l.opts) : l.opts[k].key = "rsize" /\ l.opts[k].val # ""
     /\ l.value # "none"
     /\ ~(l.bus = EP_I2C /\ l.addr = 0)
    THEN [d EXCEPT !.interfaces = <<[Named(l.args)[1] EXCEPT !.bus_type = l.bus]>>,
                   !.rsize = Number(l, "rsize", @) % 2 ^ 16]
    ELSE NoPacket

\* subcmd_opt_check: the options that all subcommands share, then the parser of
\* the subcommand.
Command(l) ==
  LET d == [NewData EXCEPT !.action = RTECMD[l.cmd], !.addr = l.addr,
                           !.rsize = IF l.read THEN 1 ELSE 0,
                           !.v = IF l.value = "none" THEN "" ELSE l.value,
                           !.s = l.size, !.interfaces = <<NewIntf>>]
  IN IF ~OptsParse(l.opts) THEN NoPacket
     ELSE CASE l.cmd = "open" -> OpenParser(l, d)
            [] l.cmd = "close" -> CloseParser(l, d)
            [] l.cmd = "route" -> RouteParser(l, d)
            [] l.cmd = "forget" -> ForgetParser(l, d)
            [] l.cmd = "xfer" -> XferParser(l, d)
            [] l.cmd = "cat" -> CatParser(l, d)
            [] OTHER -> d

-----------------------------------------------------------------------------
(* rtemgr_send_domain and its variants, and iface_raw_handler.  A call has   *)
(* the bus, the name of the destination, the payload of generic calls, the   *)
(* lengths of what is written and read, and an address.                      *)

\* Mutant: the last space stays.
HexBytesSpace(n) == 5 * n

\* Bytes of "0x12 0x34 ... 0x56" for n bytes.
HexBytes(n) == IF n = 0 THEN 0 ELSE 5 * n - 1

\* __rtemgr_encode_domain.
EncodeDomain(name, v, s, addr, rsize) ==
  [NewData EXCEPT !.action = RTECMD.xfer, !.v = v, !.s = s, !.addr = addr, !.rsize = rsize,
                  !.interfaces = Named(<<name>>)]

GpioEncode(c) == EncodeDomain(c.name, IF c.wlen = 0 THEN "0" ELSE "1", 1, 0, 0)

SpiEncode(c) ==
  IF c.wlen = 0 THEN NoPacket
  ELSE EncodeDomain(c.name, "hex", HexBytes(c.wlen), 0, IF c.rlen > 0 THEN c.wlen ELSE 0)

I2cEncode(c) ==
  IF c.wlen = 0 /\ c.rlen = 0 THEN NoPacket
  ELSE EncodeDomain(c.name, IF c.wlen = 0 THEN "" ELSE "hex", HexBytes(c.wlen), c.addr, c.rlen)

\* rtemgr_encode_domain; rtemgr_sysfs_encode_domain ends in it, with a string of
\* less than 256 bytes.
GenericEncode(c) == IF c.wlen = 0 THEN NoPacket ELSE EncodeDomain(c.name, "data", c.wlen, 0, 0)
SysfsEncode(c) == GenericEncode([c EXCEPT !.wlen = IF @ > 255 THEN 255 ELSE @])

Encode(c) ==
  CASE c.bus = EP_GPIO -> GpioEncode(c)
    [] c.bus = EP_SPI -> SpiEncode(c)
    [] c.bus = EP_I2C -> I2cEncode(c)
    [] c.bus = EP_SYSFS -> SysfsEncode(c)
    [] OTHER -> GenericEncode(c)

\* Mutant: no least size.
EncodeBufferUnchecked(s) == (s * 3) \div 2

\* The buffer of __rtemgr_encode_domain, and of iface_raw_handler.
EncodeBuffer(s) == IF (s * 3) \div 2 < 512 THEN 512 ELSE (s * 3) \div 2

\* iface_raw_handler for a message of c.wlen bytes, with the sender's members.
RawPacket(c) ==
  [NewData EXCEPT !.action = RTECMD.xfer, !.v = "data", !.s = c.wlen, !.interfaces = <<c.sender>>]

Packet == CASE call \in Lines -> Command(call)
            [] call \in Sends -> Encode(call)
            [] OTHER -> RawPacket(call)

Buffer(d) == IF call \in Lines THEN 4096 ELSE EncodeBuffer(d.s)

-----------------------------------------------------------------------------
Init ==
  /\ call \in Lines \cup Sends \cup Raws
  /\ leg = "start" /\ result = "none" /\ given = "nothing" /\ stray = FALSE
  /\ packet = NewData /\ doc = <<>> /\ out = NewData
  /\ field = "TOP_LEVEL" /\ item = "ITEM_NONE"
  /\ seq_nest = 0 /\ field_start = 0 /\ idx_intf = 0
  /\ parser = "idle"

\* The call is over.
End(how) == leg' = "end" /\ result' = how /\ UNCHANGED call

\* The packet is written into a buffer of size bytes and sent, or it is refused.
Forward(d, size, nextLeg) ==
  \/ Transmit(d, size) /\ leg' = nextLeg /\ UNCHANGED <<call, result>>
  \/ ~Overruns(d) /\ EmitBytes(d) > size /\ End("refused") /\ UNCHANGED codecVars
  \/ Overruns(d) /\ End("overrun") /\ UNCHANGED codecVars
  \/ AllocFails /\ End("nomem") /\ UNCHANGED codecVars

\* make_arg does not set the members for which it has no text; remove_arg frees
\* them all.
Uninitialised == call \in Lines /\ (call.args # <<>> \/ \E o \in ToSet(call.opts) : o.val = "")

\* The command line is parsed, or the function of the library is called, or a
\* device's message reaches its interface.
Start ==
  /\ leg = "start"
  /\ \/ Packet = NoPacket /\ End("rejected") /\ UNCHANGED codecVars
     \/ /\ Packet # NoPacket
        /\ Forward(Packet, Buffer(Packet), IF call \in Raws THEN "forward" ELSE "request")
     \/ Uninitialised /\ End("crashed") /\ UNCHANGED codecVars
  /\ UNCHANGED <<given, stray>>

Parse ==
  /\ leg # "end"
  /\ ParseStep
  /\ UNCHANGED <<call, leg, result, given, stray>>

\* rtemgr_data_parse has returned NULL: the packet is dropped.
Unparsed ==
  /\ leg # "end" /\ parser = "null"
  /\ End("dropped")
  /\ UNCHANGED <<codecVars, given, stray>>

\* The bytes that hex_to_array makes of s characters, one for every space and one
\* more, with or without what follows them in memory: they have no terminator.
HexCount(s, extra) == s \div 5 + 1 + extra

\* The destination in the packet of a managed interface.
Dest == IF Len(out.interfaces) = 1 /\ out.interfaces[1].name \in DOMAIN Targets
          THEN Targets[out.interfaces[1].name] ELSE [bus |-> -1, managed |-> FALSE]

\* iface_managed_handler has a destination and a payload for it.
Deliverable == Dest.bus # -1 /\ out.s # 0

\* What the device is given, where junk says whether what follows the payload in
\* memory is read as a part of it.
DeviceGets(junk) ==
  LET extra == IF junk THEN 1 ELSE 0
      count == HexCount(out.s, extra)
      size  == IF count < out.rsize THEN out.rsize ELSE count IN
  CASE Dest.bus = EP_GPIO -> [bus |-> EP_GPIO, level |-> IF out.v = "0" /\ ~junk THEN 0 ELSE 1]
    [] Dest.bus = EP_SPI -> [bus |-> EP_SPI, wlen |-> size, read |-> out.rsize # 0]
    [] Dest.bus = EP_I2C -> [bus |-> EP_I2C, addr |-> out.addr, wlen |-> count, rlen |-> out.rsize]
    [] OTHER -> [bus |-> Dest.bus, v |-> out.v, size |-> out.s]

\* Devices whose payload is read as a string.
MayStray(junk) == junk => Dest.bus \in {EP_GPIO, EP_SPI, EP_I2C}

\* process_ctlport with xfer: iface_managed_handler and a reply that says success
\* (the packet that it writes for a managed interface is not followed further).
CtlXfer(junk) ==
  /\ leg = "request" /\ parser = "done" /\ call \in Lines /\ out.action = RTECMD.xfer
  /\ MayStray(junk)
  /\ stray' = (junk /\ Deliverable)
  /\ given' = IF ~Deliverable THEN "nothing"
              ELSE IF Dest.managed THEN "forwarded" ELSE DeviceGets(junk)
  /\ Forward([out EXCEPT !.error = 0], 4096, "reply")

\* process_ctlport with any other action: the reply is the request with an error,
\* and what list or cat have found.
ProcessCtlport ==
  /\ leg = "request" /\ parser = "done" /\ call \in Lines /\ out.action # RTECMD.xfer
  /\ \/ /\ out.action = RTECMD.list
        /\ \E l \in Listings : Forward([out EXCEPT !.error = 0, !.interfaces = l], 4096, "reply")
     \/ /\ out.action = RTECMD.cat
        /\ \E s \in Queued :
             Forward([out EXCEPT !.error = 0, !.v = IF s = 0 THEN @ ELSE "data", !.s = s],
                     4096, "reply")
     \/ /\ out.action # RTECMD.list
        /\ \E error \in IF out.action = RTECMD.cat THEN {-1} ELSE {0, -1} :
             Forward([out EXCEPT !.error = error], 4096, "reply")
  /\ UNCHANGED <<given, stray>>

\* reply_callback.
ReplyCallback ==
  /\ leg = "reply" /\ parser = "done"
  /\ End(IF Len(out.interfaces) = 0 THEN "silence"
         ELSE IF out.action = RTECMD.route /\ Len(out.interfaces) # 2 THEN "unknown" ELSE "printed")
  /\ UNCHANGED <<codecVars, given, stray>>

\* iface_managed_handler, to a device.
ManagedToDevice(junk) ==
  /\ leg = "request" /\ parser = "done" /\ call \in Sends
  /\ Deliverable /\ ~Dest.managed /\ MayStray(junk)
  /\ stray' = junk
  /\ given' = DeviceGets(junk)
  /\ End("device")
  /\ UNCHANGED codecVars

\* iface_managed_handler, to another managed interface, with the sender's members.
ManagedToManaged ==
  /\ leg = "request" /\ parser = "done" /\ call \in Sends
  /\ Deliverable /\ Dest.managed
  /\ Forward([out EXCEPT !.interfaces = <<call.sender>>], EmitBytes(packet) + 512, "forward")
  /\ UNCHANGED <<given, stray>>

\* iface_managed_handler does not find the destination, or a payload, or memory
\* for the array of bytes.
ManagedDrops ==
  /\ leg = "request" /\ parser = "done" /\ call \in Sends
  /\ \/ ~Deliverable /\ End("dropped")
     \/ Deliverable /\ Dest.bus \in {EP_SPI, EP_I2C} /\ AllocFails /\ End("nomem")
  /\ UNCHANGED <<codecVars, given, stray>>

\* rtemgr_decode and the functions that read what it returns.
Decode ==
  /\ leg = "forward" /\ parser = "done"
  /\ given' = [name |-> out.interfaces[1].name, bus |-> out.interfaces[1].bus_type,
               v |-> out.v, size |-> out.s]
  /\ End("received")
  /\ UNCHANGED <<codecVars, stray>>

\* The call has ended.
Ended == leg = "end" /\ UNCHANGED vars

Next ==
  \/ Start \/ Parse \/ Unparsed \/ ProcessCtlport \/ ReplyCallback
  \/ \E junk \in BOOLEAN : CtlXfer(junk) \/ ManagedToDevice(junk)
  \/ ManagedToManaged \/ ManagedDrops \/ Decode \/ Ended

Spec == Init /\ [][Next]_vars

-----------------------------------------------------------------------------
(* Properties *)

\* What the device should get from a call of rtemgr_*_send.
Intended ==
  CASE call.bus = EP_GPIO -> [bus |-> EP_GPIO, level |-> IF call.wlen = 0 THEN 0 ELSE 1]
    [] call.bus = EP_SPI -> [bus |-> EP_SPI, wlen |-> call.wlen, read |-> call.rlen > 0]
    [] call.bus = EP_I2C -> [bus |-> EP_I2C, addr |-> call.addr, wlen |-> call.wlen,
                             rlen |-> call.rlen]
    [] OTHER -> [bus |-> call.bus, v |-> "data", size |-> call.wlen]

\* What a call of rtemgr_*_send asks for is what the device of the destination
\* is given, and what a managed interface receives is the payload with its
\* sender.  When the memory after the payload is read as a part of it, a GPIO line
\* may be set instead of cleared and an SPI or I2C transfer may be longer than it
\* was meant to be; but the device, the address and the length of what is read are
\* still those of the call, and the transfer is never shorter.
ArrivesAsSent ==
  /\ result = "device" =>
       /\ DOMAIN given = DOMAIN Intended
       /\ \A f \in DOMAIN Intended :
            \/ given[f] = Intended[f]
            \/ stray /\ f \in {"level", "wlen"} /\ given[f] > Intended[f]
  /\ result = "received" =>
       given = [name |-> call.sender.name, bus |-> call.sender.bus_type, v |-> "data",
                size |-> call.wlen]

\* The base64 text of a payload of up to 15147 bytes fits the memory that
\* rtemgr_data_emit has for it, with its newlines and its terminator; a larger one
\* may not.
OverrunsOnlyLarge ==
  result = "overrun" =>
    \/ Packet.s > 15147
    \/ call \in Lines /\ call.cmd = "cat" /\ \E s \in Queued : s > 15147

\* rtemgr_data_parse stays within the memory it has, and rtemgr_data_emit does for
\* payloads of up to 15147 bytes.
StaysInBounds == ParsesInBounds /\ OverrunsOnlyLarge

\* With enough memory, a call of rtemgr_*_send that returned success is lost only
\* when there is no such destination, or when it is an I2C transfer that only
\* reads: it has no payload, and iface_managed_handler takes that for an error.
DroppedOnlyUnread ==
  result = "dropped" /\ call \in Sends =>
    \/ parser = "null"
    \/ call.name \notin DOMAIN Targets
    \/ call.bus = EP_I2C /\ call.wlen = 0

\* A packet is refused for its size only where 3/2 of the payload are less than
\* base64 with its line breaks and the other members: from 190 to 6500 bytes for
\* rtemgr_*_send, from 100 to 10000 for iface_raw_handler, which adds a path; or
\* in the 4096 bytes of the control port, with 2000 bytes of payload or 10
\* interfaces; never when one managed interface forwards to another.
RefusedOnlyForSize ==
  result = "refused" =>
    \/ /\ call \in Lines
       /\ \/ Packet.s > 2000
          \/ call.cmd = "cat" /\ \E s \in Queued : s > 2000
          \/ call.cmd = "list" /\ \E l \in Listings : Len(l) > 10
    \/ call \in Sends /\ packet = NewData /\ Packet.s \in 190 .. 6500
    \/ call \in Raws /\ Packet.s \in 100 .. 10000

\* Nothing else makes a packet disappear.
LossesAreKnown == DroppedOnlyUnread /\ RefusedOnlyForSize

\* Every command that rtemgr accepts and that is replied to ends with the result
\* of that command printed, for the interfaces the command line named.
PrintsResult ==
  leg = "end" /\ parser = "done" /\ call \in Lines /\ result \in {"printed", "silence", "unknown"} =>
    /\ result = "printed"
    /\ out.action = RTECMD[call.cmd]
    /\ call.cmd # "list" =>
         \A k \in 1 .. Len(out.interfaces) :
           out.interfaces[k].name =
             Strncpy(NameSize, IF call.cmd = "open" THEN call.name ELSE call.args[k])

=============================================================================
