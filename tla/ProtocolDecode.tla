---------------------------- MODULE ProtocolDecode ----------------------------
(***************************************************************************)
(* What protocol.py makes of the bytes a gateway forwards: the validation  *)
(* of a profile of the manifest, decode_telemetry, decode_stream and the   *)
(* fields they read, one step for each turn of their loops.  The           *)
(* properties read the manifest the other way: which bytes stand for which *)
(* values.                                                                 *)
(*                                                                         *)
(* A byte has Width bits, so that all frames can be enumerated; numbers    *)
(* are little endian.  A mask is the set of its bits.  Scaling is left     *)
(* out: a value is the raw number, or NoValue.                             *)
(***************************************************************************)
EXTENDS Integers, Sequences, FiniteSetsExt, Functions

CONSTANTS
    Width,      \* bits in a byte
    Header,     \* the first byte of a telemetry frame
    Version,    \* the first byte of a stream message
    NoValue,    \* None
    Profile,    \* telemetry profiles, which the manifest may have or not
    Message,    \* the stream messages of the manifest
    Frame,      \* telemetry frames: sequences of bytes
    Datagram    \* stream messages as they are received

VARIABLES
    input,      \* the profile, if it is a telemetry frame, and the frame
    at,         \* how many fields have been read
    result      \* what is decoded

vars == <<input, at, result>>

Pow2[n \in Nat] == IF n = 0 THEN 1 ELSE 2 * Pow2[n - 1]
Bit(v, k) == (v \div Pow2[k]) % 2
Byte == 0 .. Pow2[Width] - 1

\* The number that has n digits of w bits each, the least significant first.
Composed(digit, w, n) ==
    LET sum[i \in 0 .. n] == IF i = 0 THEN 0
                               ELSE sum[i - 1] + digit[i - 1] * Pow2[w * (i - 1)]
    IN sum[n]

\* _INTEGER_TYPES.  A number has a name, an offset, a size in bytes, a sign, bit
\* fields, a raw value that stands for none, and the raw values it is allowed.
\* A string has a length, or the name of the field that holds it.
IsNumber(f) == f.kind = "number"
BitsOf(f) == f.size * Width
TypeMin(f) == IF f.signed THEN -Pow2[BitsOf(f) - 1] ELSE 0
TypeMax(f) == IF f.signed THEN Pow2[BitsOf(f) - 1] - 1 ELSE Pow2[BitsOf(f)] - 1

----------------------------------------------------------------------------
(* The manifest: _validate_bit_fields, _validate_telemetry_fields. *)

\* The bits a mask may have: no sign.
MaskBits(f) == 0 .. BitsOf(f) - (IF f.signed THEN 2 ELSE 1)

HasBits(f) == IsNumber(f) /\ f.bits # <<>>
BitsValid(f) ==
    HasBits(f) =>
        /\ \A i \in DOMAIN f.bits : f.bits[i].mask # {} /\ f.bits[i].mask \subseteq MaskBits(f)
        /\ \A i, j \in DOMAIN f.bits : i # j => f.bits[i].mask \cap f.bits[j].mask = {}

LogicalNames(f) == IF HasBits(f) THEN [i \in DOMAIN f.bits |-> f.bits[i].name] ELSE <<f.name>>
NamesDiffer(fields) ==
    \A i, j \in DOMAIN fields :
        \A a \in DOMAIN LogicalNames(fields[i]), b \in DOMAIN LogicalNames(fields[j]) :
            LogicalNames(fields[i])[a] = LogicalNames(fields[j])[b] => i = j /\ a = b

BitsOnly(p) == \A i \in DOMAIN p.fields : BitsValid(p.fields[i])    \* mutant
ProfileValid(p) == BitsOnly(p) /\ NamesDiffer(p.fields)

----------------------------------------------------------------------------
(* Reading a field: _read_field. *)

\* What is decoded so far: the raw fields, their values, and the error if any.
Empty == [code |-> "reading", raw |-> <<>>, values |-> <<>>]
Failed(code) == [Empty EXCEPT !.code = code]
With(old, new) ==
    [n \in DOMAIN old \cup DOMAIN new |-> IF n \in DOMAIN new THEN new[n] ELSE old[n]]
Named(f, value) == [n \in {f.name} |-> value]
Store(r, raw, values) ==
    [code |-> r.code, raw |-> With(r.raw, raw), values |-> With(r.values, values)]

ByteAt(frame, f, i) == frame[f.offset + 1 + i]
Unsigned(frame, f) ==
    Composed([i \in 0 .. f.size - 1 |-> ByteAt(frame, f, i)], Width, f.size)
Number(frame, f) ==
    LET u == Unsigned(frame, f)
    IN IF u > TypeMax(f) THEN u - Pow2[BitsOf(f)] ELSE u

\* struct.unpack_from, or a slice; one beyond the end is shorter than asked for.
Fixed(f) == IsNumber(f) \/ f.length # NoValue
Unsized(r, f) == ~Fixed(f) /\ f.from \notin DOMAIN r.raw
Length(r, f) == IF f.length = NoValue THEN r.raw[f.from] ELSE f.length
Extent(r, f) == IF IsNumber(f) THEN f.size ELSE Length(r, f)
Missing(r, frame, f) == Extent(r, f) < 0 \/ f.offset + Extent(r, f) > Len(frame)
Read(r, frame, f) ==
    IF IsNumber(f) THEN Number(frame, f)
    ELSE SubSeq(frame, f.offset + 1, f.offset + Length(r, f))

----------------------------------------------------------------------------
(* decode_telemetry, with _field_value. *)

RangeFirst(r, f, raw) ==    \* mutant: the reserved value must be allowed too
    IF IsNumber(f) /\ raw \notin f.allowed THEN Failed("invalid_value")
    ELSE Store(r, Named(f, raw),
               Named(f, IF IsNumber(f) /\ raw = f.novalue THEN NoValue ELSE raw))
WithValue(r, f, raw) ==
    IF IsNumber(f) /\ raw = f.novalue THEN Store(r, Named(f, raw), Named(f, NoValue))
    ELSE IF IsNumber(f) /\ raw \notin f.allowed THEN Failed("invalid_value")
    ELSE Store(r, Named(f, raw), Named(f, raw))

\* (mask & -mask).bit_length() - 1, and (value & mask) >> shift.
Shift(mask) == Min(mask)
BitValue(f, mask, v) ==
    Composed([k \in 0 .. BitsOf(f) - 1 |->
                 IF k + Shift(mask) \in mask THEN Bit(v, k + Shift(mask)) ELSE 0], 1, BitsOf(f))

\* Bits that no bit field has must be zero.
Covered(f) == UNION {b.mask : b \in Range(f.bits)}
Reserved(f, v) == \E k \in 0 .. BitsOf(f) - 1 : Bit(v, k) = 1 /\ k \notin Covered(f)
WithBits(r, f, v) ==
    LET mask(n) == (CHOOSE b \in Range(f.bits) : b.name = n).mask
        read == [n \in Range(LogicalNames(f)) |-> BitValue(f, mask(n), v)]
    IN IF Reserved(f, v) THEN Failed("invalid_value") ELSE Store(r, read, read)

TelemetryField(r, frame, f) ==
    IF Unsized(r, f) THEN Failed("invalid_value")
    ELSE IF Missing(r, frame, f) THEN Failed("wrong_length")
    ELSE IF HasBits(f) THEN WithBits(r, f, Read(r, frame, f))
    ELSE WithValue(r, f, Read(r, frame, f))

Telemetry(p, frame) ==
    IF frame = <<>> \/ Head(frame) # Header THEN Failed("wrong_header")
    ELSE IF Len(frame) # p.size THEN Failed("wrong_length")
    ELSE Empty

----------------------------------------------------------------------------
(* decode_stream: the fields are read, not checked.  The size of a message is *)
(* fixed, or grows by the value of a field.                                   *)

StreamField(r, frame, f) ==
    IF Unsized(r, f) THEN Failed("invalid_value")
    ELSE IF Missing(r, frame, f) THEN Failed("wrong_length")
    ELSE LET raw == Named(f, Read(r, frame, f)) IN Store(r, raw, raw)

AnySize(m, frame, r) == FALSE    \* mutant
WrongSize(m, frame, r) ==
    Len(frame) # IF m.plus = NoValue THEN m.base ELSE m.base + r.raw[m.plus]

\* The version and the kind come first, then the sequence.
Prefix == 3
Known(frame) == {m \in Message : Len(frame) >= Prefix /\ m.kind = frame[2]}
MessageOf(frame) == CHOOSE m \in Known(frame) : TRUE
Stream(frame) ==
    IF Len(frame) < Prefix THEN Failed("wrong_length")
    ELSE IF frame[1] # Version THEN Failed("unsupported_version")
    ELSE IF Known(frame) = {} THEN Failed("unknown")
    ELSE IF Len(frame) < MessageOf(frame).base THEN Failed("wrong_length")
    ELSE Empty

----------------------------------------------------------------------------

NoProfile == [fields |-> <<>>, size |-> 0]
Manifest == {p \in Profile : ProfileValid(p)}
IsTelemetry == input.profile # NoProfile

\* The fields of the frame: of the profile, or of the message of its kind.
Layout ==
    IF IsTelemetry THEN input.profile.fields
    ELSE IF Known(input.frame) # {} THEN MessageOf(input.frame).fields ELSE <<>>

Init ==
    /\ input \in [profile : Manifest, frame : Frame] \cup [profile : {NoProfile}, frame : Datagram]
    /\ at = 0
    /\ result = Failed("waiting")

Begin ==
    /\ result.code = "waiting"
    /\ result' = IF IsTelemetry THEN Telemetry(input.profile, input.frame) ELSE Stream(input.frame)
    /\ UNCHANGED <<input, at>>

ReadField ==
    /\ result.code = "reading" /\ at < Len(Layout)
    /\ at' = at + 1
    /\ result' = IF IsTelemetry THEN TelemetryField(result, input.frame, Layout[at + 1])
                 ELSE StreamField(result, input.frame, Layout[at + 1])
    /\ UNCHANGED input

Finish ==
    /\ result.code = "reading" /\ at = Len(Layout)
    /\ result' = IF ~IsTelemetry /\ WrongSize(MessageOf(input.frame), input.frame, result)
                 THEN Failed("wrong_length") ELSE [result EXCEPT !.code = "ok"]
    /\ UNCHANGED <<input, at>>

Next == Begin \/ ReadField \/ Finish

Spec == Init /\ [][Next]_vars

----------------------------------------------------------------------------
(* What is taken of the manifest: what its schema says of a field, and that   *)
(* only messages have strings that a field before them tells the length of,   *)
(* that they have no bit fields, and that they end where their last field     *)
(* does.                                                                      *)

Wide(f) == IF IsNumber(f) THEN f.size ELSE f.length
FieldWellFormed(f) ==
    /\ f.kind \in {"number", "string"} /\ f.offset \in Nat
    /\ IF IsNumber(f) THEN f.size \in Nat \ {0} /\ f.signed \in BOOLEAN
       ELSE f.length \in Nat \cup {NoValue}

Trails(f, m) == ~Fixed(f) /\ m.plus # NoValue /\ f.from = m.plus /\ f.offset = m.base
EndsAtSize(m) ==
    /\ \A f \in Range(m.fields) : (Fixed(f) /\ f.offset + Wide(f) <= m.base) \/ Trails(f, m)
    /\ \E f \in Range(m.fields) :
           IF m.plus = NoValue THEN f.offset + Wide(f) = m.base ELSE Trails(f, m)
LengthsKnown(fields) ==
    \A i \in DOMAIN fields : ~Fixed(fields[i]) =>
        \E j \in 1 .. i - 1 :
            IsNumber(fields[j]) /\ ~fields[j].signed /\ fields[j].name = fields[i].from

ASSUME ManifestAssumption ==
    /\ Width \in Nat \ {0} /\ NoValue \notin Int
    /\ Frame \subseteq Seq(Byte) /\ Datagram \subseteq Seq(Byte)
    /\ \A p \in Profile : /\ DOMAIN p.fields = 1 .. Len(p.fields) /\ Len(p.fields) \in Nat
                          /\ \A f \in Range(p.fields) : FieldWellFormed(f) /\ Fixed(f)
    /\ \A m \in Message : /\ DOMAIN m.fields = 1 .. Len(m.fields) /\ Len(m.fields) \in Nat
                          /\ \A f \in Range(m.fields) : FieldWellFormed(f) /\ ~HasBits(f)
                          /\ m.base \in Nat /\ EndsAtSize(m)
                          /\ LengthsKnown(m.fields) /\ NamesDiffer(m.fields)

----------------------------------------------------------------------------
(* Properties. *)

Decoded == result.code = "ok"
Refused == result.code \notin {"waiting", "reading", "ok"}

\* The field has a value, and that is none exactly for the raw number that a
\* profile reserves.
HasValue(f) ==
    /\ Range(LogicalNames(f)) \subseteq DOMAIN result.raw \cap DOMAIN result.values
    /\ IsTelemetry /\ IsNumber(f) /\ ~HasBits(f) =>
           (result.values[f.name] = NoValue <=> result.raw[f.name] = f.novalue)

\* At most all fields are read, and those of an accepted frame have values
\* (protocol.py:279).
TypeOK ==
    /\ at \in 0 .. Len(Layout)
    /\ Decoded => \A f \in Range(Layout) : HasValue(f)

\* The raw field is what the bytes of the field say.
ByteOf(v, i) == (v \div Pow2[Width * i]) % Pow2[Width]
IsWritten(frame, f, v) ==
    v \in TypeMin(f) .. TypeMax(f) /\ \A i \in 0 .. f.size - 1 : ByteAt(frame, f, i) = ByteOf(v, i)
HasBit(f, p) ==
    \E b \in Range(f.bits) : p \in b.mask /\ Bit(result.raw[b.name], p - Shift(b.mask)) = 1
Tells(f) ==
    IF HasBits(f)
    THEN \A i \in 0 .. f.size - 1, k \in 0 .. Width - 1 :
             Bit(ByteAt(input.frame, f, i), k) = 1 <=> HasBit(f, Width * i + k)
    ELSE LET raw == result.raw[f.name]
         IN IF IsNumber(f) THEN IsWritten(input.frame, f, raw)
            ELSE raw = SubSeq(input.frame, f.offset + 1, f.offset + Len(raw))
EndOf(f) == f.offset + (IF IsNumber(f) THEN f.size ELSE Len(result.raw[f.name]))

\* What the raw fields say is what the frame holds, byte for byte: two accepted
\* frames of one profile or kind differ in a raw field if they differ where a
\* field lies, and a message is as long as it says (protocol.py:204, 235).
FieldsTellTheFrame ==
    Decoded => /\ \A f \in Range(Layout) : Tells(f)
               /\ ~IsTelemetry => Len(input.frame) = Max({EndOf(f) : f \in Range(Layout)})

\* A telemetry frame is refused for a reason the manifest states, and only then:
\* its header, its size, a field beyond its end, a raw number that is neither
\* allowed nor reserved, or a bit that no bit field has (protocol.py:180).
Legal(frame, f) ==
    /\ f.offset + Wide(f) <= Len(frame)
    /\ HasBits(f) => \A i \in 0 .. f.size - 1, k \in 0 .. Width - 1 :
                         Bit(ByteAt(frame, f, i), k) = 1 => Width * i + k \in Covered(f)
    /\ IsNumber(f) /\ ~HasBits(f) =>
           \E v \in TypeMin(f) .. TypeMax(f) :
               (v = f.novalue \/ v \in f.allowed) /\ IsWritten(frame, f, v)
Acceptable(p, frame) ==
    /\ Len(frame) = p.size /\ frame # <<>> /\ Head(frame) = Header
    /\ \A f \in Range(p.fields) : Legal(frame, f)
RefusedForAReason ==
    IsTelemetry => /\ Decoded => Acceptable(input.profile, input.frame)
                   /\ Refused => ~Acceptable(input.profile, input.frame)
=============================================================================
