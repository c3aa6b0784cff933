----------------------------- MODULE MCSending ------------------------------
(***************************************************************************)
(* Sending with a few messages, and the codec of Messages checked over     *)
(* every message with a few values in each field.                          *)
(***************************************************************************)
EXTENDS Sending, FiniteSetsExt, TLC

CONSTANTS s1, s2, t1, t2

\* A chat whose text needs a length of two bytes, one that fits in no context,
\* and an answer that is all defaults, so that nothing follows the header.
Chat(len) == Set(Set(New("S_CHAT"), "sender", Text("alice", 5)), "message", Text("hello", len))
MCOutgoing == {Chat(200), Chat(4096), New("S_LOGIN")}

Moved == Set(Set(New("MovedActor"), "account_id", Text("alice", 5)), "x", "1.5")
MCCasts == {AddActor(AddActor(New("S_MOVE_BROADCAST"), Moved), New("MovedActor"))}

\* S_PONG: two time stamps, no message.
MCRaws == {Packet(14, 16, <<[num |-> 0, wire |-> "RAW", body |-> [text |-> Text("pong", 16)]]>>)}

SenderSymmetry == Permutations({t1, t2})

----------------------------------------------------------------------------
(* The codec.                                                               *)

Values == [string |-> {NoText, Text("a", 1), Text("b", 127), Text("c", 128)},
           bool   |-> BOOLEAN,
           float  |-> {"0", "-0", "1.5"}]

\* Every message of a type with these values; the actors of a broadcast are two
\* of a few, and they may keep fields that are unknown.
Flat(type) ==
    FoldLeft(LAMBDA ms, f : {Set(m, f.name, v) : m \in ms, v \in Values[f.kind]},
             {New(type)}, Fields[type])

Extra == [num |-> 9, wire |-> "VARINT", body |-> [bool |-> TRUE]]
Kept(m) == [m EXCEPT !.unknown = <<Extra>>]

SomeActors == {New("MovedActor"), Moved, Kept(Moved)}
Casting ==
    {[New("S_MOVE_BROADCAST") EXCEPT !.val["actors"] = a] :
        a \in UNION {[1 .. n -> SomeActors] : n \in 0 .. 2}}

Samples(type) ==
    LET plain == IF type = "S_MOVE_BROADCAST" THEN Casting ELSE Flat(type)
    IN  plain \cup {Kept(m) : m \in plain}

\* ByteSizeLong, which is computed before a buffer is allocated, is the number of
\* bytes _InternalSerialize then writes.
ASSUME SizeAgrees ==
    \A type \in DOMAIN Fields : \A m \in Samples(type) : ByteSizeLong(m) = WireSize(Serialize(m))

\* ParseFromArray undoes SerializeToArray, fields that are unknown included; "-0"
\* is written, for it is the bits that are compared.
ASSUME RoundTrip ==
    \A type \in DOMAIN Fields : \A m \in Samples(type) :
        Parse(type, Serialize(m)) = [ok |-> TRUE, m |-> m]

\* Parsing one encoding after another is parsing each and merging, and CopyFrom
\* makes an equal message.
ASSUME ConcatenationMerges ==
    \A type \in DOMAIN Fields : \A m, n \in Samples(type) :
        /\ Parse(type, Serialize(m) \o Serialize(n)) = [ok |-> TRUE, m |-> MergeFrom(m, n)]
        /\ CopyFrom(m, n) = n

\* A text that is not UTF-8 is written and then refused by the reader, and so is
\* a message that is cut short, or that ends early with a tag 0 or an end-group.
ASSUME BadInputRefused ==
    /\ \A type \in DOMAIN Fields : \A f \in Range(Fields[type]) : f.kind = "string" =>
           ~Parse(type, Serialize(Set(New(type), f.name, BadText("x", 3)))).ok
    /\ \A type \in DOMAIN Fields, wire \in {"CUT", "EGROUP"} :
           ~Parse(type, <<[num |-> 1, wire |-> wire, body |-> << >>]>>).ok
    /\ \A type \in DOMAIN Fields : ~Parse(type, <<[num |-> 0, wire |-> "VARINT", body |-> << >>]>>).ok
    /\ LET bad == Set(Moved, "account_id", BadText("x", 3))
       IN  ~Parse("S_MOVE_BROADCAST", Serialize(AddActor(New("S_MOVE_BROADCAST"), bad))).ok

\* The hypotheses of SendingProofs' ClientsDecode hold of the messages of this run.
ASSUME MessagesSound == CodecRight /\ CastsFit
=============================================================================
