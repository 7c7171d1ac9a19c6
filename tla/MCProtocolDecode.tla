--------------------------- MODULE MCProtocolDecode ---------------------------
(* ProtocolDecode for TLC: bytes of two bits, all profiles of one or two       *)
(* fields out of a few, valid or not, and two kinds of stream message.         *)
EXTENDS ProtocolDecode

Num(name, offset, size, signed, novalue, allowed) ==
    [kind |-> "number", name |-> name, offset |-> offset, size |-> size, signed |-> signed,
     bits |-> <<>>, novalue |-> novalue, allowed |-> allowed]
String(name, offset, length, from) ==
    [kind |-> "string", name |-> name, offset |-> offset, length |-> length, from |-> from]
Flags(offset, size, signed, bits) ==
    [Num("flags", offset, size, signed, NoValue, {}) EXCEPT !.bits = bits]
Flag(name, mask) == [name |-> name, mask |-> mask]    \* the bits of the mask

\* Reserved values inside, at and outside the allowed range; a sign; fields that
\* overlap, that lie beyond the end, and that share a name; masks with gaps,
\* that leave bits out, that overlap, and that hold the sign.
Fields ==
    { Num("level", 1, 1, FALSE, 3, 1 .. 2),
      Num("level", 2, 1, FALSE, NoValue, 0 .. 3),
      Num("rssi", 2, 1, TRUE, -2, -1 .. 1),
      Num("count", 1, 2, FALSE, 15, 0 .. 9),
      Num("degrees", 1, 2, TRUE, -8, -7 .. 5),
      Num("late", 2, 2, FALSE, NoValue, 0 .. 15),
      Flags(1, 1, FALSE, <<Flag("on", {0}), Flag("fallback", {1})>>),
      Flags(2, 1, FALSE, <<Flag("power", {1})>>),
      Flags(1, 2, TRUE, <<Flag("gap", {0, 2}), Flag("on", {1})>>),
      Flags(1, 2, FALSE, <<Flag("power", {1, 2, 3})>>),
      Flags(1, 1, FALSE, <<Flag("on", {0}), Flag("level", {0, 1})>>),
      Flags(2, 1, TRUE, <<Flag("on", {1})>>),
      String("tag", 2, 1, NoValue) }

MCProfile == [fields : {<<f>> : f \in Fields} \cup {<<f, g>> : f, g \in Fields}, size : {3}]
MCFrame == UNION {[1 .. n -> Byte] : n \in 0 .. 4}

Common == <<Num("stream_version", 0, 1, FALSE, NoValue, Byte),
            Num("message_kind", 1, 1, FALSE, NoValue, Byte),
            Num("sequence", 2, 1, FALSE, NoValue, Byte)>>

\* Like HELLO, with a string of a fixed length, and like TELEMETRY.
MCMessage ==
    { [kind |-> 1, base |-> 6, plus |-> NoValue,
       fields |-> Common \o <<String("gateway_id", 3, 2, NoValue),
                              Num("registry_generation", 5, 1, FALSE, NoValue, Byte)>>],
      [kind |-> 2, base |-> 4, plus |-> "payload_size",
       fields |-> Common \o <<Num("payload_size", 3, 1, FALSE, NoValue, Byte),
                              String("payload", 4, NoValue, "payload_size")>>] }
MCDatagram == {<<v, k>> \o rest : v \in 1 .. 2, k \in 1 .. 3,
                                  rest \in UNION {[1 .. n -> Byte] : n \in 0 .. 5}}
                  \cup {<<>>, <<1>>}
=============================================================================
