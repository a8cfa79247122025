------------------------------- MODULE Codec -------------------------------
(***************************************************************************)
(* The packet of the control protocol (rtemgr_data) and its way through    *)
(* librtemgr.c: rtemgr_data_emit writes it as YAML into a buffer of its    *)
(* caller, rtemgr_data_parse reads it back with a state machine over       *)
(* libyaml's events.                                                       *)
(*                                                                         *)
(* A document is the sequence of its events, without the start of stream   *)
(* and document, to which the parser does nothing.  Scalars are strings,   *)
(* so a name may look like a key or a number.  A payload is a token v with *)
(* its size s; its base64 text is another token.  A name that fills its    *)
(* array has no terminator, and is read on into path, the next member.     *)
(***************************************************************************)
EXTENDS Integers, SequencesExt, TLC

CONSTANTS
  NameSize,    \* size of the arrays name and partner (16)
  PathSize,    \* size of the array path (128)
  Payloads,    \* contents of payloads, strings
  Numbers,     \* the numbers that occur in packets
  AllocFails   \* whether malloc and calloc may return NULL (strdup does not)

ASSUME SizeAssumption == NameSize \in Nat \ {0} /\ PathSize \in Nat \ {0}

VARIABLES
  packet,      \* the packet that was given to rtemgr_data_emit
  doc,         \* the events that the parser has not seen
  field,       \* "TOP_LEVEL", "CMD", "VAL", "EXT" or "INTF"
  item,        \* the key whose value comes next, "ITEM_NONE" for none
  seq_nest, field_start, idx_intf,
  out,         \* the packet under construction
  parser       \* "idle", "running", "done", "null" (it returned NULL), or
               \* "undefined" (it used interfaces that do not exist)

codecVars == <<packet, doc, field, item, seq_nest, field_start, idx_intf, out, parser>>

\* What rtemgr_data_alloc_interface sets.
NewIntf == [id |-> -1, bus_type |-> -1, name |-> "", path |-> "", domain |-> 0,
            managed |-> 0, partner |-> ""]

\* What rtemgr_data_alloc sets.  v is "" for NULL.
NewData == [action |-> 0, error |-> 0, v |-> "", s |-> 0, addr |-> 0, rsize |-> 0,
            interfaces |-> <<>>]

\* strncpy into an array of n bytes.
Strncpy(n, text) == IF Len(text) > n THEN SubSeq(text, 1, n) ELSE text

\* %s of the member name of an interface.
NameText(intf) ==
  IF Len(intf.name) = NameSize THEN intf.name \o intf.path ELSE intf.name

\* %d and %u, and strtoul.
Decimal(n) == ToString(n)
Strtoul(text) ==
  IF \E n \in Numbers : Decimal(n) = text
    THEN CHOOSE n \in Numbers : Decimal(n) = text ELSE 0

\* encode_base64 of s bytes of v, and decode_base64: one to one, and no text is
\* empty.
Base64(v, s) == "base64 " \o (IF s = 0 THEN "" ELSE v)
FromBase64(text) == CHOOSE v \in Payloads : Base64(v, 1) = text

-----------------------------------------------------------------------------
(* rtemgr_data_emit *)

Mark(type) == [type |-> type, value |-> ""]
Scalar(text) == [type |-> "SCALAR", value |-> text]
Entry(key, text) == <<Scalar(key), Scalar(text)>>
List(items) == <<Mark("SEQUENCE_START")>> \o items \o <<Mark("SEQUENCE_END")>>
Map(entries) == <<Mark("MAPPING_START")>> \o entries \o <<Mark("MAPPING_END")>>

EmitExtra(d) == Map(Entry("addr", Decimal(d.addr)) \o Entry("rsize", Decimal(d.rsize)))

EmitVal(d) ==
  Map(Entry("v", Base64(d.v, d.s)) \o Entry("s", Decimal(d.s))
      \o <<Scalar("extra")>> \o List(EmitExtra(d)))

EmitCmd(d) ==
  Map(Entry("action", Decimal(d.action)) \o Entry("error", Decimal(d.error))
      \o <<Scalar("val")>> \o List(EmitVal(d)))

\* Mutant: managed comes without its key.
EmitIntfKeyless(intf) ==
  Map(Entry("id", Decimal(intf.id)) \o Entry("bus_type", Decimal(intf.bus_type))
      \o Entry("name", NameText(intf)) \o Entry("path", intf.path)
      \o Entry("domain", Decimal(intf.domain)) \o <<Scalar(Decimal(intf.managed))>>
      \o Entry("partner", intf.partner))

EmitIntf(intf) ==
  Map(Entry("id", Decimal(intf.id)) \o Entry("bus_type", Decimal(intf.bus_type))
      \o Entry("name", NameText(intf)) \o Entry("path", intf.path)
      \o Entry("domain", Decimal(intf.domain)) \o Entry("managed", Decimal(intf.managed))
      \o Entry("partner", intf.partner))

Emit(d) ==
  Map(<<Scalar("cmd")>> \o List(EmitCmd(d))
      \o Entry("nr_intf", Decimal(Len(d.interfaces)))
      \o <<Scalar("interfaces")>>
      \o List(FlattenSeq([k \in 1 .. Len(d.interfaces) |-> EmitIntf(d.interfaces[k])])))
  \o <<Mark("STREAM_END")>>

\* Bytes of the text of libb64 for s bytes: a newline after every 72 characters
\* and one at the end.
Base64Bytes(s) == 4 * ((s + 2) \div 3) + (s \div 54) + 1

\* Bytes of "key: value" and of a literal block, in libyaml's layout.
LineBytes(indent, key, text) == indent + Len(key) + Len(text) + 3
BlockBytes(indent, s) == Base64Bytes(s) + indent * ((s + 53) \div 54)

IntfBytes(intf) ==
  LineBytes(2, "id", Decimal(intf.id)) + LineBytes(2, "bus_type", Decimal(intf.bus_type))
  + LineBytes(4, "name", NameText(intf)) + LineBytes(4, "path", intf.path)
  + LineBytes(2, "domain", Decimal(intf.domain)) + LineBytes(2, "managed", Decimal(intf.managed))
  + LineBytes(4, "partner", intf.partner)

\* Bytes that rtemgr_data_emit writes.
EmitBytes(d) ==
  Len("cmd:|") + LineBytes(2, "action", Decimal(d.action)) + LineBytes(2, "error", Decimal(d.error))
  + Len("  val:|") + LineBytes(4, "v", "!!binary |") + BlockBytes(6, d.s)
  + LineBytes(4, "s", Decimal(d.s)) + Len("    extra:|")
  + LineBytes(6, "addr", Decimal(d.addr)) + LineBytes(6, "rsize", Decimal(d.rsize))
  + LineBytes(0, "nr_intf", Decimal(Len(d.interfaces))) + Len("interfaces:|")
  + FoldLeft(LAMBDA sum, intf : sum + IntfBytes(intf), 0, d.interfaces)

\* The buffer of rtemgr_data_emit for the base64 text.
ScratchBytes(s) ==
  LET estimated == 4 * ((((4 * s) \div 3) + 3) \div 4) + 256 IN
  IF estimated > 4096 THEN 4096 * ((estimated + 4095) \div 4096) ELSE 4096

\* encode_base64 writes the text and its terminator past the end of that buffer:
\* the 256 bytes it has for the newlines do not grow with their number.
Overruns(d) == Base64Bytes(d.s) + 1 > ScratchBytes(d.s)

\* rtemgr_data_emit succeeds and what it wrote is given to rtemgr_data_parse.
Transmit(d, size) ==
  /\ ~Overruns(d) /\ EmitBytes(d) <= size
  /\ packet' = d
  /\ doc' = Emit(d)
  /\ field' = "TOP_LEVEL" /\ item' = "ITEM_NONE"
  /\ seq_nest' = 0 /\ field_start' = 0 /\ idx_intf' = 0
  /\ out' = NewData
  /\ parser' = "running"

-----------------------------------------------------------------------------
(* rtemgr_data_parse *)

At(type) == parser = "running" /\ Head(doc).type = type
Value == Head(doc).value

SequenceStart ==
  /\ At("SEQUENCE_START")
  /\ doc' = Tail(doc)
  /\ seq_nest' = seq_nest + 1
  /\ UNCHANGED <<packet, field, item, field_start, idx_intf, out, parser>>

SequenceEnd ==
  /\ At("SEQUENCE_END")
  /\ doc' = Tail(doc)
  /\ seq_nest' = seq_nest - 1
  /\ field' = IF seq_nest - 1 <= field_start THEN "TOP_LEVEL"
              ELSE CASE field = "VAL" -> "CMD"
                     [] field = "EXT" -> "VAL"
                     [] OTHER -> field
  /\ UNCHANGED <<packet, item, field_start, idx_intf, out, parser>>

MappingStart ==
  /\ At("MAPPING_START")
  /\ doc' = Tail(doc)
  /\ UNCHANGED <<packet, field, item, seq_nest, field_start, idx_intf, out, parser>>

\* Mutant: idx_intf is advanced at the end of every mapping.
MappingEndAlways ==
  /\ At("MAPPING_END")
  /\ doc' = Tail(doc)
  /\ idx_intf' = idx_intf + 1
  /\ UNCHANGED <<packet, field, item, seq_nest, field_start, out, parser>>

MappingEnd ==
  /\ At("MAPPING_END")
  /\ doc' = Tail(doc)
  /\ idx_intf' = IF field = "INTF" THEN idx_intf + 1 ELSE idx_intf
  /\ UNCHANGED <<packet, field, item, seq_nest, field_start, out, parser>>

\* A scalar on the top level while no value is expected.
TopKey ==
  /\ At("SCALAR") /\ field = "TOP_LEVEL" /\ item = "ITEM_NONE"
  /\ doc' = Tail(doc)
  /\ \/ Value = "nr_intf" /\ item' = "nr_intf" /\ UNCHANGED <<field, field_start>>
     \/ /\ Value # "nr_intf"
        /\ field' = CASE Value = "cmd" -> "CMD"
                      [] Value = "interfaces" -> "INTF"
                      [] OTHER -> field
        /\ field_start' = seq_nest
        /\ UNCHANGED item
  /\ UNCHANGED <<packet, seq_nest, idx_intf, out, parser>>

\* The keys whose value is a scalar, and those that begin a nested field.
Keys == [CMD |-> {"action", "error"}, VAL |-> {"v", "s"}, EXT |-> {"addr", "rsize"},
         INTF |-> {"id", "bus_type", "name", "path", "domain", "managed", "partner"}]
Nested == [CMD |-> "val", VAL |-> "extra"]

\* A scalar in a field while no value is expected.  An unknown key is skipped,
\* and its value then counts as a key.
Key ==
  /\ At("SCALAR") /\ field # "TOP_LEVEL" /\ item = "ITEM_NONE"
  /\ doc' = Tail(doc)
  /\ item' = IF Value \in Keys[field] THEN Value ELSE "ITEM_NONE"
  /\ field' = CASE field = "CMD" /\ Value = Nested.CMD -> "VAL"
                [] field = "VAL" /\ Value = Nested.VAL -> "EXT"
                [] OTHER -> field
  /\ UNCHANGED <<packet, seq_nest, field_start, idx_intf, out, parser>>

\* nr_intf: interfaces are allocated up to that number.
TopValue ==
  /\ At("SCALAR") /\ field = "TOP_LEVEL" /\ item = "nr_intf"
  /\ doc' = Tail(doc)
  /\ item' = "ITEM_NONE"
  /\ out' = [out EXCEPT !.interfaces =
               @ \o [k \in 1 .. Strtoul(Value) - Len(@) |-> NewIntf]]
  /\ UNCHANGED <<packet, field, seq_nest, field_start, idx_intf, parser>>

CmdValue ==
  /\ At("SCALAR") /\ field \in {"CMD", "VAL", "EXT"} /\ item # "ITEM_NONE"
  /\ doc' = Tail(doc)
  /\ item' = "ITEM_NONE"
  /\ out' = [out EXCEPT ![item] = CASE item = "v" -> Value
                                   [] item \in Keys.EXT -> Strtoul(Value) % 2 ^ 16
                                   [] OTHER -> Strtoul(Value)]
  /\ UNCHANGED <<packet, field, seq_nest, field_start, idx_intf, parser>>

\* What a member of an interface becomes.
Member(key, text) ==
  CASE key \in {"name", "partner"} -> Strncpy(NameSize, text)
    [] key = "path" -> Strncpy(PathSize, text)
    [] OTHER -> Strtoul(text)

IntfValue ==
  /\ At("SCALAR") /\ field = "INTF" /\ item # "ITEM_NONE"
  /\ doc' = Tail(doc)
  /\ item' = "ITEM_NONE"
  /\ IF idx_intf < Len(out.interfaces)
       THEN /\ out' = [out EXCEPT !.interfaces[idx_intf + 1][item] = Member(item, Value)]
            /\ UNCHANGED parser
       ELSE parser' = "undefined" /\ UNCHANGED out
  /\ UNCHANGED <<packet, field, seq_nest, field_start, idx_intf>>

\* The end of the stream: a payload that is not empty is decoded.
StreamEnd ==
  /\ At("STREAM_END")
  /\ doc' = Tail(doc)
  /\ parser' = "done"
  /\ out' = IF out.s # 0 THEN [out EXCEPT !.v = FromBase64(@)] ELSE out
  /\ UNCHANGED <<packet, field, item, seq_nest, field_start, idx_intf>>

\* An allocation fails, of the packet, an interface or the decoded payload.
ParseFails ==
  /\ AllocFails
  /\ \/ At("MAPPING_START") /\ field = "TOP_LEVEL"
     \/ At("SCALAR") /\ field = "TOP_LEVEL" /\ item = "nr_intf" /\ Strtoul(Value) > 0
     \/ At("STREAM_END") /\ out.s # 0
  /\ parser' = "null"
  /\ UNCHANGED <<packet, doc, field, item, seq_nest, field_start, idx_intf, out>>

ParseStep ==
  \/ SequenceStart \/ SequenceEnd \/ MappingStart \/ MappingEnd
  \/ TopKey \/ TopValue \/ Key \/ CmdValue \/ IntfValue
  \/ StreamEnd \/ ParseFails

-----------------------------------------------------------------------------
(* Properties *)

\* What rtemgr_data_parse returns is the packet that was given to
\* rtemgr_data_emit, also when a name fills its array or looks like a key of the
\* document; only the contents of an empty payload are lost.
RoundTrip ==
  parser = "done" => [out EXCEPT !.v = IF out.s = 0 THEN packet.v ELSE @] = packet

\* Every member of an interface finds its place: the parser stays within the
\* interfaces that nr_intf announced and is on the top level when it ends.
ParsesInBounds ==
  /\ parser # "undefined"
  /\ parser = "done" => /\ field = "TOP_LEVEL" /\ item = "ITEM_NONE" /\ seq_nest = 0
                        /\ idx_intf = Len(out.interfaces)

=============================================================================
