----------------------------- MODULE TypeCodec -----------------------------
(***************************************************************************)
(* CIP data types (layers/cip/core/datatypes): the size a value announces,  *)
(* the bytes it is written as, and DecodeTypedData.                         *)
(*                                                                          *)
(* A type is a record with its code.  A floating-point number and an        *)
(* integer of 8 bytes are left out: they are beyond TLC's integers.         *)
(***************************************************************************)
EXTENDS EPathCodec

Type(code) == [code |-> code]
ArrayOf(itemType, lower, upper) ==
  [code |-> "ARRAY", itemType |-> itemType, lowerBound |-> lower, upperBound |-> upper]
AbbrevArrayOf(itemType, length) == [code |-> "ABBREV_ARRAY", itemType |-> itemType, length |-> length]
ToTheEnd == -1
StructOf(members) == [code |-> "STRUCT", members |-> members]
EPathOf(padded, length) == [code |-> "EPATH", padded |-> padded, length |-> length]
Bit(position) == [code |-> "BOOL", position |-> position]

UnsignedWidth == [c \in {"USINT", "BYTE"} |-> 1] @@ [c \in {"UINT", "WORD", "ENGUNIT"} |-> 2]
                   @@ [c \in {"UDINT", "DWORD", "DATE"} |-> 4]
SignedWidth == [c \in {"SINT"} |-> 1] @@ [c \in {"INT", "ITIME"} |-> 2]
                 @@ [c \in {"DINT", "TIME", "FTIME"} |-> 4]

(* The range checks of the Buffer's writes, and a two's complement read.     *)
InRange(code, v) ==
  IF code \in DOMAIN UnsignedWidth THEN Fits(v, UnsignedWidth[code])
  ELSE LET w == SignedWidth[code] IN w < 4 => v \in -(128 * 256 ^ (w - 1)) .. 128 * 256 ^ (w - 1) - 1
SignedAt(b, at, w) ==
  LET top == ByteAt(b, at + w - 1)
  IN  FoldRight(LAMBDA x, rest : x + 256 * rest, BytesAt(b, at, w - 1), IF top < 128 THEN top ELSE top - 256)

Units(value) == FlattenSeq([i \in DOMAIN value |-> LittleEndian(value[i], 2)])
UnitsAt(b, at, n) == [i \in 1 .. n |-> NumberAt(b, at + 2 * (i - 1), 2)]

(* The width of the count before the characters of a string.                 *)
CountWidth == [c \in {"STRING", "STRING2"} |-> 2] @@ [c \in {"SHORT_STRING"} |-> 1]

RECURSIVE EncodeSize(_, _)
EncodeSize(t, v) ==
  CASE t.code \in DOMAIN UnsignedWidth -> UnsignedWidth[t.code]
    [] t.code \in DOMAIN SignedWidth -> SignedWidth[t.code]
    [] t.code \in {"STRING", "SHORT_STRING"} -> CountWidth[t.code] + Len(v)
    [] t.code = "STRING2" -> 2 + 2 * Len(v)
    [] t.code = "EPATH" -> PathSize(t.padded, v)
    [] t.code = "ARRAY" -> (t.upperBound - t.lowerBound + 1) * EncodeSize(t.itemType, v[1])
    [] t.code = "ABBREV_ARRAY" -> IF v = <<>> THEN 0 ELSE Len(v) * EncodeSize(t.itemType, v[1])
    [] t.code = "STRUCT" ->
         FoldLeft(LAMBDA n, i : n + EncodeSize(t.members[i], v[i]), 0, [i \in DOMAIN t.members |-> i])

(* EncodeTo, into a buffer with room enough.                                 *)
RECURSIVE EncodeTo(_, _)
EncodeTo(t, v) ==
  CASE t.code \in DOMAIN UnsignedWidth -> LittleEndian(v, UnsignedWidth[t.code])
    [] t.code \in DOMAIN SignedWidth -> LittleEndian(v, SignedWidth[t.code])
    [] t.code \in {"STRING", "SHORT_STRING"} -> LittleEndian(Len(v), CountWidth[t.code]) \o v
    [] t.code = "STRING2" -> LittleEndian(Len(v), 2) \o Units(v)
    [] t.code = "EPATH" -> EncodePath(t.padded, v)
    [] t.code \in {"ARRAY", "ABBREV_ARRAY"} -> FlattenSeq([i \in DOMAIN v |-> EncodeTo(t.itemType, v[i])])
    [] t.code = "STRUCT" -> FlattenSeq([i \in DOMAIN v |-> EncodeTo(t.members[i], v[i])])

(* Neither EncodeSize nor EncodeTo throws for want of a legal value.         *)
RECURSIVE Encodable(_, _)
Encodable(t, v) ==
  CASE t.code \in DOMAIN UnsignedWidth \cup DOMAIN SignedWidth -> InRange(t.code, v)
    [] t.code \in DOMAIN CountWidth -> Fits(Len(v), CountWidth[t.code])
    [] t.code = "EPATH" -> \A i \in DOMAIN v : SegmentValid(v[i])
    [] t.code = "ARRAY" -> v # <<>> /\ \A i \in DOMAIN v : Encodable(t.itemType, v[i])
    [] t.code = "ABBREV_ARRAY" -> \A i \in DOMAIN v : Encodable(t.itemType, v[i])
    [] t.code = "STRUCT" ->
         DOMAIN v = DOMAIN t.members /\ \A i \in DOMAIN v : Encodable(t.members[i], v[i])
    [] OTHER -> FALSE

(* EncodeSize takes every element of an array to be as long as the first,    *)
(* and the array to have as many as its bounds say: what does not fit is cut *)
(* off, or throws.                                                           *)
RECURSIVE Uneven(_, _)
Uneven(t, v) ==
  CASE t.code \in {"ARRAY", "ABBREV_ARRAY"} ->
         \/ t.code = "ARRAY" /\ Len(v) # t.upperBound - t.lowerBound + 1
         \/ \E i \in DOMAIN v : \/ EncodeSize(t.itemType, v[i]) # EncodeSize(t.itemType, v[1])
                                \/ Uneven(t.itemType, v[i])
    [] t.code = "STRUCT" -> \E i \in DOMAIN v : Uneven(t.members[i], v[i])
    [] OTHER -> FALSE

-----------------------------------------------------------------------------
(* Decoding: the value and the position after it.  The international string  *)
(* is a structure whose members' types depend on the members before them.    *)
Read(value, next) == [value |-> value, next |-> next]
Letters(b, at, n, next) == Read(Ascii(BytesAt(b, at, n)), next)

StringTypes == (208 :> "STRING") @@ (213 :> "STRING2") @@ (217 :> "STRINGN") @@ (218 :> "SHORT_STRING")

RECURSIVE DecodeTypedData(_, _, _), DecodeRow(_, _, _, _)
DecodeTypedData(b, at, t) ==
  CASE t.code = "BOOL" ->
         LET w == UnsignedIntegerSize(t.position)
         IN  Read((NumberAt(b, at, w) \div 2 ^ t.position) % 2 = 1, at)
    [] t.code \in DOMAIN UnsignedWidth ->
         LET w == UnsignedWidth[t.code] IN Read(NumberAt(b, at, w), at + w)
    [] t.code \in DOMAIN SignedWidth ->
         LET w == SignedWidth[t.code] IN Read(SignedAt(b, at, w), at + w)
    [] t.code \in {"STRING", "SHORT_STRING"} ->
         LET w == CountWidth[t.code]
             n == NumberAt(b, at, w)
         IN  Letters(b, at + w, n, at + w + n)
    [] t.code = "STRING2" ->
         LET n == NumberAt(b, at, 2) IN Read(UnitsAt(b, at + 2, n), at + 2 + 2 * n)
    [] t.code = "STRINGN" ->
         LET total == NumberAt(b, at, 2) * NumberAt(b, at + 2, 2)
         IN  Read(UnitsAt(b, at + 4, total \div 2), at + 4 + total)
    [] t.code = "STRINGI" ->
         DecodeRow(b, at + 1, [i \in 1 .. ByteAt(b, at) |-> Type("LANGUAGE")], Len(b) + 1)
    [] t.code = "LANGUAGE" ->
         LET kind == DecodeSegment(b, at + 3, FALSE)
             text == DecodeTypedData(b, kind.next + 2, Type(StringTypes[kind.segment.type.code]))
         IN  Read(<<Ascii(BytesAt(b, at, 3)), kind.segment, NumberAt(b, kind.next, 2), text.value>>, text.next)
    [] t.code = "STRUCT" -> DecodeRow(b, at, t.members, Len(b) + 1)
    [] t.code = "ARRAY" -> DecodeRow(b, at, [i \in 1 .. t.upperBound - t.lowerBound + 1 |-> t.itemType], Len(b) + 1)
    [] t.code = "ABBREV_ARRAY" ->
         IF t.length = ToTheEnd THEN DecodeRow(b, at, [i \in 1 .. Len(b) - at + 1 |-> t.itemType], Len(b))
         ELSE DecodeRow(b, at, [i \in 1 .. t.length |-> t.itemType], Len(b) + 1)
    [] t.code = "EPATH" ->
         LET d == DecodeSegments(b, at, at + t.length, t.padded) IN Read(d.path, d.next)
DecodeRow(b, at, types, last) ==
  IF types = <<>> \/ at > last THEN Read(<<>>, at)
  ELSE LET first == DecodeTypedData(b, at, Head(types))
           rest == DecodeRow(b, first.next, Tail(types), last)
       IN  Read(<<first.value>> \o rest.value, rest.next)

(* Read and write differ: a character above 127, a symbol whose characters   *)
(* are counted in 5 bits, a revision in 7, a path of no whole number of      *)
(* segments, a flag beyond the one byte the decoder reads.                   *)
LossySegment(s) ==
  CASE s.kind = "symbolic" ->
         IF s.format = 0 THEN \E i \in DOMAIN s.value : s.value[i] > 127
         ELSE s.format \in {1, 2} /\ s.size > 31
    [] s.kind = "data" -> s.subtype = 17 /\ \E i \in DOMAIN s.value : s.value[i] > 127
    [] s.kind = "key" -> s.major > 127 \/ s.compatibility > 1
    [] OTHER -> FALSE

RECURSIVE LossyValue(_, _)
LossyValue(t, v) ==
  CASE t.code \in {"STRING", "SHORT_STRING"} -> \E i \in DOMAIN v : v[i] > 127
    [] t.code = "EPATH" -> \E i \in DOMAIN v : LossySegment(v[i])
    [] t.code \in {"ARRAY", "ABBREV_ARRAY"} -> \E i \in DOMAIN v : LossyValue(t.itemType, v[i])
    [] t.code = "STRUCT" -> \E i \in DOMAIN v : LossyValue(t.members[i], v[i])
    [] OTHER -> FALSE
=============================================================================
