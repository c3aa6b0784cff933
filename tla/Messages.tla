----------------------------- MODULE Messages -------------------------------
(***************************************************************************)
(* The messages of Packet.proto as the generated code (Packet.pb.cc,       *)
(* Packet.pb.h) keeps, encodes and decodes them, and the packet header     *)
(* around them.                                                            *)
(*                                                                         *)
(* An encoding is the sequence of its fields, not of its bytes: a field    *)
(* has its number, its wire type and its value.  A text is known by its    *)
(* length, by whether it is valid UTF-8 and by a name for what it says; a  *)
(* float is a name for its bits, "0" for the bits that are all zero ("-0"  *)
(* is another float).                                                      *)
(***************************************************************************)
EXTENDS Integers, Sequences, SequencesExt

Text(says, len)   == [says |-> says, len |-> len, utf8 |-> TRUE]
BadText(says, len) == [says |-> says, len |-> len, utf8 |-> FALSE]
NoText == Text("", 0)

String(n, name) == [num |-> n, name |-> name, kind |-> "string"]
Bool(n, name)   == [num |-> n, name |-> name, kind |-> "bool"]
Float(n, name)  == [num |-> n, name |-> name, kind |-> "float"]
Actors(n, name) == [num |-> n, name |-> name, kind |-> "actors"]   \* repeated MovedActor

\* The fields of each message, in the order they are written.
C_LOGIN             == << String(1, "account_id"), String(2, "password") >>
S_LOGIN             == << Bool(1, "success"), String(2, "message") >>
C_CHAT              == << String(1, "message") >>
S_CHAT              == << String(1, "sender"), String(2, "message") >>
C_ROOM_ENTER        == << String(1, "room_name") >>
S_ROOM_ENTER        == << Bool(1, "success"), String(2, "message"), String(3, "room_name") >>
C_ROOM_LEAVE        == << >>
S_ROOM_LEAVE        == << Bool(1, "success") >>
S_ROOM_USER_ENTERED == << String(1, "account_id") >>
S_ROOM_USER_LEFT    == << String(1, "account_id") >>
C_MOVE              == << Float(1, "x"), Float(2, "y") >>
MovedActor          == << String(1, "account_id"), Float(2, "x"), Float(3, "y") >>
S_MOVE_BROADCAST    == << Actors(1, "actors") >>

Fields == [C_LOGIN |-> C_LOGIN, S_LOGIN |-> S_LOGIN, C_CHAT |-> C_CHAT, S_CHAT |-> S_CHAT,
           C_ROOM_ENTER |-> C_ROOM_ENTER, S_ROOM_ENTER |-> S_ROOM_ENTER,
           C_ROOM_LEAVE |-> C_ROOM_LEAVE, S_ROOM_LEAVE |-> S_ROOM_LEAVE,
           S_ROOM_USER_ENTERED |-> S_ROOM_USER_ENTERED, S_ROOM_USER_LEFT |-> S_ROOM_USER_LEFT,
           C_MOVE |-> C_MOVE, MovedActor |-> MovedActor, S_MOVE_BROADCAST |-> S_MOVE_BROADCAST]

\* PacketTraits<T>::ID.
PacketID == [C_LOGIN |-> 1, S_LOGIN |-> 2, C_CHAT |-> 3, S_CHAT |-> 4, C_ROOM_ENTER |-> 5,
             S_ROOM_ENTER |-> 6, C_ROOM_LEAVE |-> 7, S_ROOM_LEAVE |-> 8,
             S_ROOM_USER_ENTERED |-> 9, S_ROOM_USER_LEFT |-> 10, C_MOVE |-> 11,
             S_MOVE_BROADCAST |-> 12]

----------------------------------------------------------------------------
(* Message objects.                                                         *)

Default == [string |-> NoText, bool |-> FALSE, float |-> "0", actors |-> << >>]

\* A fresh object, and what Clear() leaves.
New(type) ==
    [of |-> type,
     val |-> [name \in {Fields[type][i].name : i \in DOMAIN Fields[type]} |->
                Default[(CHOOSE f \in Range(Fields[type]) : f.name = name).kind]],
     unknown |-> << >>]

Clear(m) == New(m.of)

\* set_<name>; add_actors.
Set(m, name, v) == [m EXCEPT !.val[name] = v]
AddActor(m, actor) == [m EXCEPT !.val["actors"] = Append(@, actor)]

\* A field that is neither written nor merged: it has its default.
Unset(m, f) == m.val[f.name] = Default[f.kind]

\* MergeImpl: fields that are set overwrite, repeated and unknown ones append.
MergeFrom(to, from) ==
    LET merged(m, f) ==
            IF f.kind = "actors" THEN Set(m, f.name, m.val[f.name] \o from.val[f.name])
            ELSE IF Unset(from, f) THEN m ELSE Set(m, f.name, from.val[f.name])
    IN  [FoldLeft(merged, to, Fields[to.of]) EXCEPT !.unknown = @ \o from.unknown]

CopyFrom(to, from) == MergeFrom(Clear(to), from)

----------------------------------------------------------------------------
(* Writing.                                                                 *)

Item(f, wire, body) == [num |-> f.num, wire |-> wire, body |-> body]

\* _InternalSerialize of a message without messages in it.  A text that is not
\* UTF-8 is reported and written all the same.
Write(m, f) ==
    IF Unset(m, f) THEN << >>
    ELSE CASE f.kind = "string" -> << Item(f, "LEN", [text |-> m.val[f.name]]) >>
           [] f.kind = "bool"   -> << Item(f, "VARINT", [bool |-> m.val[f.name]]) >>
           [] f.kind = "float"  -> << Item(f, "I32", [float |-> m.val[f.name]]) >>

SerializeFlat(m) ==
    FoldLeft(LAMBDA out, f : out \o Write(m, f), << >>, Fields[m.of]) \o m.unknown

WriteActors(m, f) ==
    IF f.kind # "actors" THEN Write(m, f)
    ELSE [i \in DOMAIN m.val[f.name] |->
            Item(f, "LEN", [sub |-> SerializeFlat(m.val[f.name][i])])]

\* _InternalSerialize, for SerializeToArray.
Serialize(m) ==
    FoldLeft(LAMBDA out, f : out \o WriteActors(m, f), << >>, Fields[m.of]) \o m.unknown

VarintSize(n) == CASE n < 128 -> 1 [] n < 16384 -> 2 [] n < 2097152 -> 3 [] OTHER -> 4

LengthDelimited(n) == VarintSize(n) + n      \* StringSize, MessageSize

SizeOf(m, f) ==
    IF Unset(m, f) THEN 0
    ELSE CASE f.kind = "string" -> 1 + LengthDelimited(m.val[f.name].len)
           [] f.kind = "bool"   -> 1 + 1
           [] f.kind = "float"  -> 1 + 4

\* The size of an encoding, from the fields themselves.
FlatSize(item) ==
    1 + CASE item.wire = "LEN"    -> LengthDelimited(item.body.text.len)
          [] item.wire = "VARINT" -> 1
          [] item.wire = "I32"    -> 4

FlatWireSize(wire) == FoldLeft(LAMBDA n, item : n + FlatSize(item), 0, wire)

ItemSize(item) ==
    IF "sub" \in DOMAIN item.body THEN 1 + LengthDelimited(FlatWireSize(item.body.sub))
                                  ELSE FlatSize(item)

WireSize(wire) == FoldLeft(LAMBDA n, item : n + ItemSize(item), 0, wire)

FlatByteSize(m) ==
    FoldLeft(LAMBDA n, f : n + SizeOf(m, f), 0, Fields[m.of]) + WireSize(m.unknown)

SizeOfActors(m, f) ==
    IF f.kind # "actors" THEN SizeOf(m, f)
    ELSE FoldLeft(LAMBDA n, a : n + 1 + LengthDelimited(FlatByteSize(a)), 0, m.val[f.name])

ByteSizeLong(m) ==
    FoldLeft(LAMBDA n, f : n + SizeOfActors(m, f), 0, Fields[m.of]) + WireSize(m.unknown)

----------------------------------------------------------------------------
(* Reading.  A reading is the object so far and whether it still goes well. *)

Failed(r) == [r EXCEPT !.ok = FALSE]

\* The field of the tag, number and wire type, if the message has it.
Knows(f, item) ==
    /\ f.num = item.num
    /\ CASE f.kind \in {"string", "actors"} -> item.wire = "LEN"
         [] f.kind = "bool"                 -> item.wire = "VARINT"
         [] f.kind = "float"                -> item.wire = "I32"

\* A field seen twice overwrites; VerifyUTF8 comes after the store.
Read(r, f, item) ==
    CASE f.kind = "string" -> [r EXCEPT !.m = Set(@, f.name, item.body.text),
                                        !.ok = item.body.text.utf8]
      [] f.kind = "bool"   -> [r EXCEPT !.m = Set(@, f.name, item.body.bool)]
      [] f.kind = "float"  -> [r EXCEPT !.m = Set(@, f.name, item.body.float)]

Known(r, item) == {f \in Range(Fields[r.m.of]) : Knows(f, item)}
FieldOf(r, item) == CHOOSE f \in Known(r, item) : TRUE

\* One turn of the loop of _InternalParse; "parsed" is what comes of a field that is
\* known.  A field that is cut short fails.  handle_unusual: the tag 0 or an
\* end-group tag ends the message early, which ParseFromArray reports as failure;
\* any other field is kept as unknown.
Turn(r, item, parsed) ==
    IF ~r.ok THEN r
    ELSE IF item.wire = "CUT" THEN Failed(r)
    ELSE IF Known(r, item) # {} THEN parsed
    ELSE IF item.num = 0 \/ item.wire = "EGROUP" THEN Failed(r)
    ELSE [r EXCEPT !.m.unknown = Append(@, item)]

ParseFlat(type, wire) ==
    FoldLeft(LAMBDA r, item : Turn(r, item, Read(r, FieldOf(r, item), item)),
             [ok |-> TRUE, m |-> New(type)], wire)

ReadActors(r, f, item) ==
    IF f.kind # "actors" THEN Read(r, f, item)
    ELSE LET sub == ParseFlat("MovedActor", item.body.sub)
         IN  [ok |-> sub.ok, m |-> AddActor(r.m, sub.m)]

\* _InternalParse, for ParseFromArray.
Parse(type, wire) ==
    FoldLeft(LAMBDA r, item : Turn(r, item, ReadActors(r, FieldOf(r, item), item)),
             [ok |-> TRUE, m |-> New(type)], wire)

----------------------------------------------------------------------------
(* Packets.                                                                 *)

HeaderSize == 4        \* sizeof(PacketHeader)

\* Mutant of Packet: the size that is announced counts the header too.
PacketWithHeader(id, size, payload) ==
    [packetId |-> id, packetSize |-> (HeaderSize + size) % 65536, payload |-> payload]

\* The header's two uint16_t and what follows them.
Packet(id, size, payload) ==
    [packetId |-> id, packetSize |-> size % 65536, payload |-> payload]

MessagePacket(m) == Packet(PacketID[m.of], ByteSizeLong(m), Serialize(m))
=============================================================================
