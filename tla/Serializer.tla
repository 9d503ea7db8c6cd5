----------------------------- MODULE Serializer -----------------------------
(***************************************************************************)
(* The byte encoding of package serialize, in which blocks are hashed,     *)
(* stored and sent: what each serializer writes for a value of its type    *)
(* and what the deserializer reads from a buffer.  A byte has ByteBase     *)
(* values, so that the limits of length prefixes are within reach.  Types  *)
(* are records of the module; errors stop a call at once, as in the code.  *)
(***************************************************************************)
EXTENDS Integers, Sequences, FiniteSets

CONSTANTS
    ByteBase,      \* values of a byte
    SerCases,      \* the types checked, each with a set of values: <<type, values>>
    SerTails       \* what may follow in a buffer

VARIABLES
    serCase,   \* type and value
    serBuf,    \* the buffer, and what serialization gave
    serGot     \* what deserialization gave: none, an error, or a value and the offset

serVars == <<serCase, serBuf, serGot>>

\* The kinds of a type, with the number of bytes of a uint or an array, the bytes of a
\* slice's length prefix, and whether the tag "nil" is set.
UintN(n) == [kind |-> "uint", size |-> n]
Kind(k) == [kind |-> k]
ByteArray(n) == [kind |-> "bytearray", size |-> n]
ByteSlice(n) == [kind |-> "byteslice", lenSize |-> n]
ListOf(t, n) == [kind |-> "list", elem |-> t, lenSize |-> n]
ArrayOf(t, n) == [kind |-> "array", elem |-> t, size |-> n]
StructOf(fields) == [kind |-> "struct", fields |-> fields]
PtrTo(t, nilOK) == [kind |-> "ptr", elem |-> t, nilOK |-> nilOK]

SerError == <<FALSE, <<>>>>
SerOk(bytes) == <<TRUE, bytes>>

\* The n lowest bytes of a number, the highest first.
RECURSIVE BigEndian(_, _)
BigEndian(x, n) == IF n = 0 THEN <<>> ELSE Append(BigEndian(x \div ByteBase, n - 1), x % ByteBase)
RECURSIVE NumberBytes(_)
NumberBytes(x) == IF x = 0 THEN <<>> ELSE Append(NumberBytes(x \div ByteBase), x % ByteBase)
RECURSIVE NumberOf(_)
NumberOf(bs) == IF bs = <<>> THEN 0 ELSE NumberOf(SubSeq(bs, 1, Len(bs) - 1)) * ByteBase + bs[Len(bs)]

\* Mutant: a length that does not fit is written modulo the prefix.
MutwriteListLen(len, size) == SerOk(BigEndian(len, size))
writeListLen(len, size) ==
    IF len >= ByteBase ^ size THEN SerError ELSE SerOk(BigEndian(len, size))

\* serializeBigInt: one byte of length, which wraps.
serializeBigInt(x) == SerOk(<<Len(NumberBytes(x)) % ByteBase>> \o NumberBytes(x))

\* The value that a nil pointer without the tag stands for.
RECURSIVE ZeroOf(_)
ZeroOf(t) ==
    CASE t.kind \in {"uint", "varuint", "big"} -> 0
      [] t.kind = "bool" -> FALSE
      [] t.kind = "bytearray" -> [i \in 1 .. t.size |-> 0]
      [] t.kind = "array" -> [i \in 1 .. t.size |-> ZeroOf(t.elem)]
      [] t.kind \in {"byteslice", "string", "list"} -> <<>>
      [] t.kind = "struct" -> [i \in DOMAIN t.fields |-> ZeroOf(t.fields[i])]
      [] t.kind = "ptr" -> <<>>

RECURSIVE Ser(_, _)
\* One after the other, to the first error.
RECURSIVE SerAll(_, _)
SerAll(types, vals) ==
    IF types = <<>> THEN SerOk(<<>>)
    ELSE LET first == Ser(Head(types), Head(vals))
             rest == SerAll(Tail(types), Tail(vals))
         IN  IF first[1] /\ rest[1] THEN SerOk(first[2] \o rest[2]) ELSE SerError

Prefixed(len, size, body) ==
    LET prefix == writeListLen(len, size)
    IN  IF prefix[1] /\ body[1] THEN SerOk(prefix[2] \o body[2]) ELSE SerError

serializeUint(t, v) == SerOk(BigEndian(v, t.size))
serializeBool(v) == SerOk(<<IF v THEN 1 ELSE 0>>)
serializeByteSlice(t, v) == Prefixed(Len(v), t.lenSize, SerOk(v))
serializeString(v) == SerOk(BigEndian(Len(v), 4) \o v)
serializeList(t, v) ==
    LET all == SerAll([i \in DOMAIN v |-> t.elem], v)
    IN  IF t.kind = "list" THEN Prefixed(Len(v), t.lenSize, all) ELSE all
serializeStruct(t, v) == SerAll(t.fields, v)

\* serializePtr: with the tag "nil" a byte tells nil from a value; without it nil is
\* written as the zero value.
serializePtr(t, v) ==
    IF v = <<>> THEN IF t.nilOK THEN SerOk(<<0>>) ELSE Ser(t.elem, ZeroOf(t.elem))
    ELSE LET body == Ser(t.elem, v[1])
         IN  IF body[1] /\ t.nilOK THEN SerOk(<<1>> \o body[2]) ELSE body

\* The choice of makeSerializer.
Ser(t, v) ==
    CASE t.kind = "uint" -> serializeUint(t, v)
      [] t.kind \in {"varuint", "big"} -> serializeBigInt(v)
      [] t.kind = "bool" -> serializeBool(v)
      [] t.kind = "bytearray" -> SerOk(v)
      [] t.kind = "byteslice" -> serializeByteSlice(t, v)
      [] t.kind = "string" -> serializeString(v)
      [] t.kind \in {"list", "array"} -> serializeList(t, v)
      [] t.kind = "struct" -> serializeStruct(t, v)
      [] t.kind = "ptr" -> serializePtr(t, v)

-----------------------------------------------------------------------------
\* Reading: an error, or the value and the position behind it (from 0).
DeserError == <<"error">>
ReadOk(v, pos) == <<"read", v, pos>>

getBytes(buf, pos, size) ==
    IF size > Len(buf) - pos THEN DeserError ELSE ReadOk(SubSeq(buf, pos + 1, pos + size), pos + size)

getLen(buf, pos, byteSize) ==
    LET b == getBytes(buf, pos, byteSize)
    IN  IF byteSize < 1 \/ byteSize > 4 \/ b = DeserError THEN DeserError
        ELSE IF NumberOf(b[2]) > Len(buf) - b[3] THEN DeserError
        ELSE ReadOk(NumberOf(b[2]), b[3])

GetVarBytes(buf, pos, byteSize) ==
    LET n == getLen(buf, pos, byteSize) IN IF n = DeserError THEN n ELSE getBytes(buf, n[3], n[2])

AsNumber(r) == IF r = DeserError THEN r ELSE ReadOk(NumberOf(r[2]), r[3])

RECURSIVE Deser(_, _, _)
RECURSIVE DeserAll(_, _, _, _)
DeserAll(types, buf, pos, got) ==
    IF types = <<>> THEN ReadOk(got, pos)
    ELSE LET first == Deser(Head(types), buf, pos)
         IN  IF first = DeserError THEN first
             ELSE DeserAll(Tail(types), buf, first[3], Append(got, first[2]))

deserializeUint(t, buf, pos) == AsNumber(getBytes(buf, pos, t.size))
deserializeBigInt(buf, pos) == AsNumber(GetVarBytes(buf, pos, 1))
deserializeBool(buf, pos) ==
    LET b == getBytes(buf, pos, 1)
    IN  IF b = DeserError \/ b[2][1] > 1 THEN DeserError ELSE ReadOk(b[2][1] = 1, b[3])
deserializeList(t, buf, pos) ==
    LET n == IF t.kind = "list" THEN getLen(buf, pos, t.lenSize) ELSE ReadOk(t.size, pos)
    IN  IF n = DeserError THEN n ELSE DeserAll([i \in 1 .. n[2] |-> t.elem], buf, n[3], <<>>)
deserializeStruct(t, buf, pos) == DeserAll(t.fields, buf, pos, <<>>)

\* deserializePtr: any byte but 0 announces a value.
deserializePtr(t, buf, pos) ==
    LET flag == getBytes(buf, pos, 1)
        at == IF t.nilOK THEN pos + 1 ELSE pos
        body == Deser(t.elem, buf, at)
    IN  IF t.nilOK /\ flag = DeserError THEN DeserError
        ELSE IF t.nilOK /\ flag[2] = <<0>> THEN ReadOk(<<>>, pos + 1)
        ELSE IF body = DeserError THEN body ELSE ReadOk(<<body[2]>>, body[3])

\* The choice of makeDeserializer.
Deser(t, buf, pos) ==
    CASE t.kind = "uint" -> deserializeUint(t, buf, pos)
      [] t.kind \in {"varuint", "big"} -> deserializeBigInt(buf, pos)
      [] t.kind = "bool" -> deserializeBool(buf, pos)
      [] t.kind = "bytearray" -> getBytes(buf, pos, t.size)
      [] t.kind = "byteslice" -> GetVarBytes(buf, pos, t.lenSize)
      [] t.kind = "string" -> GetVarBytes(buf, pos, 4)
      [] t.kind \in {"list", "array"} -> deserializeList(t, buf, pos)
      [] t.kind = "struct" -> deserializeStruct(t, buf, pos)
      [] t.kind = "ptr" -> deserializePtr(t, buf, pos)

-----------------------------------------------------------------------------
SerInit(cases) ==
    /\ \E c \in cases : \E v \in c[2] : serCase = <<c[1], v>>
    /\ serBuf = <<>> /\ serGot = <<>>

\* SerializeToBytes: a value, or its error.
Serialize ==
    /\ serBuf = <<>>
    /\ serBuf' = Ser(serCase[1], serCase[2])
    /\ UNCHANGED <<serCase, serGot>>

\* Deserialize from a buffer in which the encoding is cut after k bytes, or is whole and
\* followed by other bytes.
Deserialize(k, tail) ==
    /\ serBuf # <<>> /\ serBuf[1] /\ serGot = <<>>
    /\ serGot' = [cut |-> k < Len(serBuf[2]),
                  result |-> Deser(serCase[1], SubSeq(serBuf[2], 1, k) \o tail, 0)]
    /\ UNCHANGED <<serCase, serBuf>>

SerNext ==
    \/ Serialize
    \/ \E k \in 0 .. IF serBuf = <<>> THEN 0 ELSE Len(serBuf[2]) :
          \E tail \in IF serBuf # <<>> /\ k = Len(serBuf[2]) THEN SerTails ELSE {<<>>} : Deserialize(k, tail)

SerSpec == SerInit(SerCases) /\ [][SerNext]_serVars

-----------------------------------------------------------------------------
\* A nil pointer without the tag "nil" comes back as a pointer to a zero value; nothing
\* else may differ.
RECURSIVE SameValue(_, _, _)
SameValue(t, a, b) ==
    CASE t.kind = "ptr" ->
           IF a = <<>> THEN b = <<>> \/ (~t.nilOK /\ SameValue(t.elem, ZeroOf(t.elem), b[1]))
           ELSE b # <<>> /\ SameValue(t.elem, a[1], b[1])
      [] t.kind = "struct" ->
           Len(a) = Len(b) /\ \A i \in DOMAIN a : SameValue(t.fields[i], a[i], b[i])
      [] t.kind \in {"list", "array"} ->
           Len(a) = Len(b) /\ \A i \in DOMAIN a : SameValue(t.elem, a[i], b[i])
      [] OTHER -> a = b

\* What Serialize writes is read back as the same value, to the byte where the encoding
\* ends, whatever follows it in the buffer; and no proper prefix of it is taken for a
\* value.  So a value too long for the prefix of its length must be an error.
RoundTrip ==
    serGot # <<>> =>
        IF serGot.cut THEN serGot.result = DeserError
        ELSE /\ serGot.result # DeserError
             /\ serGot.result[3] = Len(serBuf[2])
             /\ SameValue(serCase[1], serCase[2], serGot.result[2])

=============================================================================
