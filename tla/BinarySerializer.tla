-------------------------- MODULE BinarySerializer --------------------------
(***************************************************************************)
(* BinaryPayloadSerializer of network/binary_serializer.ts, byte for byte  *)
(* with a small number of byte values.  Offsets count from 0 as in the     *)
(* code, sequences from 1.                                                 *)
(*                                                                         *)
(* A value is [t |-> typeof, v |-> contents]; texts are their UTF-8 bytes. *)
(* The truncated SHA-256 at the end of a payload is an injective term: the *)
(* bytes it was computed from.  Numbers are integers.  Arrays and maps are *)
(* modelled with flat members: one level of the recursion of encodeField   *)
(* and decodeField.                                                        *)
(***************************************************************************)
EXTENDS Integers, Sequences
SeqOps == INSTANCE SequencesExt

CONSTANTS
    Byte,              \* number of values of a byte
    ScalarLen,         \* bytes of a BIG_INT
    MAX_PAYLOAD_SIZE,
    MAX_FIELD_SIZE,
    MAX_FIELDS,
    MaxString          \* bytes of a STRING

\* Byte to the power n: how many numbers n bytes can tell apart.
Power[n \in Nat] == IF n = 0 THEN 1 ELSE Byte * Power[n - 1]

ASSUME SerializerAssumption ==
    /\ Byte \in Nat /\ Byte > 10 /\ Byte % 2 = 0
    /\ {ScalarLen, MAX_PAYLOAD_SIZE, MAX_FIELD_SIZE, MAX_FIELDS, MaxString} \subseteq Nat
    /\ MAX_FIELDS <= Byte * Byte
    /\ MAX_PAYLOAD_SIZE < Power[4]

MAGIC == <<4, 2, 4, 6>>
VERSION == 1

FIELD_TYPES ==
    [UINT8 |-> 1, UINT16 |-> 2, UINT32 |-> 3, UINT64 |-> 4, BIG_INT |-> 5,
     BYTES |-> 6, STRING |-> 7, BOOL |-> 8, ARRAY |-> 9, MAP |-> 10]

\* The lowest len bytes of n, the highest of them first; of a negative n those
\* of its two's complement.
BigIntToBytes(n, len) == [i \in 1..len |-> (n \div Power[len - i]) % Byte]

FromBytes(bytes) ==
    LET Prefix[i \in 0..Len(bytes)] == IF i = 0 THEN 0 ELSE Prefix[i - 1] * Byte + bytes[i]
    IN  Prefix[Len(bytes)]

\* Four bytes put together with << 24: the result is a signed number.
Int32(bytes) ==
    LET n == FromBytes(bytes) IN IF 2 * n >= Power[4] THEN n - Power[4] ELSE n

ConcatArrays(arrays) == SeqOps!FlattenSeq(arrays)

-----------------------------------------------------------------------------
(* Encoding *)

\* Negative numbers are refused.  From 2^32 on the loop for UINT64 assigns to
\* its constant big and throws.
EncodesNumber(n) == n \in 0..(Power[4] - 1)

\* encodeField does not throw for the flat value.
EncodesFlat(value) ==
    /\ value.t \in {"boolean", "number", "bigint", "bytes", "string"}
    /\ value.t = "number" => EncodesNumber(value.v)
    /\ value.t = "string" => Len(value.v) <= MaxString

\* Mutant: one byte is used for one number too many.
EncodeNumber_OffByOne(n) ==
    IF n <= Byte THEN <<FIELD_TYPES.UINT8, BigIntToBytes(n, 1)>>
    ELSE IF n < Power[2] THEN <<FIELD_TYPES.UINT16, BigIntToBytes(n, 2)>>
    ELSE <<FIELD_TYPES.UINT32, BigIntToBytes(n, 4)>>

\* The shortest of the three unsigned types.
EncodeNumber(n) ==
    IF n < Byte THEN <<FIELD_TYPES.UINT8, BigIntToBytes(n, 1)>>
    ELSE IF n < Power[2] THEN <<FIELD_TYPES.UINT16, BigIntToBytes(n, 2)>>
    ELSE <<FIELD_TYPES.UINT32, BigIntToBytes(n, 4)>>

\* The type byte and the bytes of a flat value.
EncodeFlat(value) ==
    CASE value.t = "boolean" -> <<FIELD_TYPES.BOOL, <<IF value.v THEN 1 ELSE 0>>>>
      [] value.t = "number" -> EncodeNumber(value.v)
      [] value.t = "bigint" -> <<FIELD_TYPES.BIG_INT, BigIntToBytes(value.v, ScalarLen)>>
      [] value.t = "bytes" -> <<FIELD_TYPES.BYTES, value.v>>
      [] value.t = "string" -> <<FIELD_TYPES.STRING, value.v>>

\* [KEY_LEN:1][KEY][TYPE:1][VALUE_LEN:4][VALUE]
Layout(key, typed) ==
    <<Len(key)>> \o key \o <<typed[1]>> \o BigIntToBytes(Len(typed[2]), 4) \o typed[2]

Encodes(key, value) ==
    /\ Len(key) < Byte
    /\ CASE value.t = "array" -> \A i \in DOMAIN value.v : EncodesFlat(value.v[i])
         [] value.t = "map" -> \A i \in DOMAIN value.v :
                                  Len(value.v[i].key) < Byte /\ EncodesFlat(value.v[i].value)
         [] OTHER -> EncodesFlat(value)

EncodeField(key, value) ==
    LET Item(x) == Layout(<< >>, EncodeFlat(x))
        Entry(x) == Layout(x.key, EncodeFlat(x.value))
    IN  Layout(key,
          CASE value.t = "array" ->
                 <<FIELD_TYPES.ARRAY, ConcatArrays([i \in DOMAIN value.v |-> Item(value.v[i])])>>
            [] value.t = "map" ->
                 <<FIELD_TYPES.MAP, ConcatArrays([i \in DOMAIN value.v |-> Entry(value.v[i])])>>
            [] OTHER -> EncodeFlat(value))

Body(data) == ConcatArrays([i \in DOMAIN data |-> EncodeField(data[i].key, data[i].value)])

TotalLen(type, data) == 4 + 1 + 4 + 1 + Len(type) + 2 + Len(Body(data)) + 4

\* pack does not throw.
Packs(type, data) ==
    /\ Len(data) <= MAX_FIELDS
    /\ \A i \in DOMAIN data :
          /\ Encodes(data[i].key, data[i].value)
          /\ Len(EncodeField(data[i].key, data[i].value)) <= MAX_FIELD_SIZE
    /\ Len(type) < Byte
    /\ TotalLen(type, data) <= MAX_PAYLOAD_SIZE

\* The payload of a type and a sequence of fields [key, value]: all bytes but the
\* last four, and the bytes that were hashed to get those.
Pack(type, data) ==
    LET bodyLen == TotalLen(type, data) - 4 - 1 - 4
        bytes == MAGIC \o <<VERSION>> \o BigIntToBytes(bodyLen, 4) \o <<Len(type)>> \o type
                   \o BigIntToBytes(Len(data), 2) \o Body(data)
    IN  [bytes |-> bytes, crc |-> bytes]

-----------------------------------------------------------------------------
(* Decoding *)

KeyLen(buffer, offset) == buffer[offset + 1]

\* Offset of the value of the field at the given offset.
ValueOffset(buffer, offset) == offset + 1 + KeyLen(buffer, offset) + 1 + 4

ValueLen(buffer, offset) ==
    LET at == ValueOffset(buffer, offset) IN Int32(SubSeq(buffer, at - 3, at))

\* The bounds decodeField checks in a buffer of the given length.  They leave
\* room for a checksum behind the field, which only a whole payload has.
InBounds(buffer, length, offset) ==
    /\ offset < length - 6
    /\ offset + 1 + KeyLen(buffer, offset) <= length
    /\ ValueOffset(buffer, offset) + ValueLen(buffer, offset) <= length - 4

NewOffset(buffer, offset) == ValueOffset(buffer, offset) + ValueLen(buffer, offset)

Key(buffer, offset) == SubSeq(buffer, offset + 2, offset + 1 + KeyLen(buffer, offset))

TypeByte(buffer, offset) == buffer[offset + 2 + KeyLen(buffer, offset)]

ValueBytes(buffer, offset) ==
    SubSeq(buffer, ValueOffset(buffer, offset) + 1, NewOffset(buffer, offset))

\* An exception instead of a value.
Thrown == [t |-> "thrown"]

DecodeFlat(type, bytes) ==
    CASE type = FIELD_TYPES.UINT8 -> [t |-> "number", v |-> bytes[1]]
      [] type = FIELD_TYPES.UINT16 -> [t |-> "number", v |-> FromBytes(bytes)]
      [] type = FIELD_TYPES.UINT32 -> [t |-> "number", v |-> Int32(bytes)]
      [] type \in {FIELD_TYPES.UINT64, FIELD_TYPES.BIG_INT} ->
           [t |-> "bigint", v |-> FromBytes(bytes)]
      [] type = FIELD_TYPES.BYTES -> [t |-> "bytes", v |-> bytes]
      [] type = FIELD_TYPES.STRING -> [t |-> "string", v |-> bytes]
      [] type = FIELD_TYPES.BOOL -> [t |-> "boolean", v |-> bytes[1] = 1]
      [] OTHER -> Thrown

\* The loop over the members of an array (keyed = FALSE) or a map: a sequence,
\* or the exception of the first member out of bounds, in a sequence.
DecodeMembers(bytes, keyed) ==
    LET Member(offset) == DecodeFlat(TypeByte(bytes, offset), ValueBytes(bytes, offset))
        Loop[offset \in Nat] ==
            IF offset >= Len(bytes) THEN << >>
            ELSE IF ~InBounds(bytes, Len(bytes), offset) THEN <<Thrown>>
            ELSE <<IF keyed THEN [key |-> Key(bytes, offset), value |-> Member(offset)]
                   ELSE Member(offset)>>
                    \o Loop[NewOffset(bytes, offset)]
    IN  Loop[0]

\* The value decodeField returns, or its exception.
DecodeField(buffer, length, offset) ==
    LET type == TypeByte(buffer, offset)
        bytes == ValueBytes(buffer, offset)
        members == DecodeMembers(bytes, type = FIELD_TYPES.MAP)
    IN  IF ~InBounds(buffer, length, offset) THEN Thrown
        ELSE IF type \notin {FIELD_TYPES.ARRAY, FIELD_TYPES.MAP} THEN DecodeFlat(type, bytes)
        ELSE IF \E i \in DOMAIN members : members[i] = Thrown THEN Thrown
        ELSE [t |-> IF type = FIELD_TYPES.ARRAY THEN "array" ELSE "map", v |-> members]

Length(p) == Len(p.bytes) + 4

\* The checks of unpack that a payload fails before its fields are read.
Refusals(p) ==
    {r \in {"Payload too small", "Payload exceeds max size", "Invalid magic bytes",
            "Unsupported version", "Length mismatch", "CRC mismatch", "Type length"} :
        \/ r = "Payload too small" /\ Length(p) < 12
        \/ r = "Payload exceeds max size" /\ Length(p) > MAX_PAYLOAD_SIZE
        \/ /\ Length(p) >= 14
           /\ \/ r = "Invalid magic bytes" /\ SubSeq(p.bytes, 1, 4) # MAGIC
              \/ r = "Unsupported version" /\ p.bytes[5] # VERSION
              \/ r = "Length mismatch" /\ Int32(SubSeq(p.bytes, 6, 9)) # Length(p) - 13
              \/ r = "CRC mismatch" /\ p.crc # p.bytes
              \/ r = "Type length" /\ 10 + p.bytes[10] > Length(p) - 4}

\* The loop of unpack over the fields: records of a key and a value, as
\* far as no field throws.
UnpackFields(p) ==
    LET start == 10 + p.bytes[10]
        fieldCount == FromBytes(SubSeq(p.bytes, start + 1, start + 2))
        Loop[i \in Nat, offset \in Nat] ==
            IF i > fieldCount THEN << >>
            ELSE LET value == DecodeField(p.bytes, Length(p), offset)
                 IN  IF value = Thrown THEN <<Thrown>>
                     ELSE <<[key |-> Key(p.bytes, offset), value |-> value]>>
                            \o Loop[i + 1, NewOffset(p.bytes, offset)]
    IN  Loop[1, start + 2]

\* What unpack returns, or its exception.
Unpack(p) ==
    IF Refusals(p) # {} THEN Thrown
    ELSE LET fields == UnpackFields(p)
             start == 10 + p.bytes[10]
         IN  IF \E i \in DOMAIN fields : fields[i] = Thrown THEN Thrown
             ELSE [type |-> SubSeq(p.bytes, 11, start), data |-> fields]

-----------------------------------------------------------------------------
(* What packing is for *)

\* For a set of data: payloads of the same bytes carry the same data.
Unambiguous(type, DataSet) ==
    LET Sent == {[data |-> d, bytes |-> Pack(type, d).bytes] :
                     d \in {e \in DataSet : Packs(type, e)}}
    IN  \A s, t \in Sent : s.bytes = t.bytes => s.data = t.data

\* Whatever pack accepts, unpack gives back.
Recovers(type, DataSet) ==
    \A d \in DataSet : Packs(type, d) => Unpack(Pack(type, d)) = [type |-> type, data |-> d]

=============================================================================
