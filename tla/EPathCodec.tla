----------------------------- MODULE EPathCodec -----------------------------
(***************************************************************************)
(* CIP paths (layers/cip/core/epath): the segments, the bytes each is       *)
(* written as, the size it announces beforehand, and Decode.                *)
(*                                                                          *)
(* Bytes are numbers below 256, characters too; a segment is a record of    *)
(* the fields its class keeps.  Integers of 8 bytes and values of 2^31 and  *)
(* more are beyond TLC's integers and left out.                             *)
(***************************************************************************)
EXTENDS Integers, SequencesExt

(* unsignedIntegerSize, and the little-endian reads and writes of a Buffer.  *)
UnsignedIntegerSize(i) == CASE i < 256 -> 1 [] i \in 256 .. 65535 -> 2 [] OTHER -> 4
LittleEndian(i, size) == [k \in 1 .. size |-> (i \div 256 ^ (k - 1)) % 256]
FromLittleEndian(b) == FoldRight(LAMBDA x, rest : x + 256 * rest, b, 0)
Fits(i, size) == i >= 0 /\ (size < 4 => i < 256 ^ size)

(* A read past the end throws: Decode sees that the segment ends beyond it.  *)
ByteAt(b, at) == IF at \in DOMAIN b THEN b[at] ELSE 0
BytesAt(b, at, n) == [i \in 1 .. n |-> ByteAt(b, at + i - 1)]
NumberAt(b, at, n) == FromLittleEndian(BytesAt(b, at, n))

(* toString('ascii') clears the high bit of every byte.                      *)
Ascii(b) == [i \in DOMAIN b |-> b[i] % 128]

PadByte(n) == IF n % 2 = 0 THEN <<>> ELSE <<0>>

-----------------------------------------------------------------------------
Port(number, address) == [kind |-> "port", number |-> number, address |-> address]

PortValid(s) == s.number \in 0 .. 65535 /\ Len(s.address) \in 1 .. 255

(* Faulty form of PortSize: the pad byte is forgotten.                       *)
PortSizeUnpadded(s) ==
  LET n == Len(s.address)
  IN  1 + (IF s.number >= 15 THEN 2 ELSE 0) + n + (IF n > 1 THEN 1 ELSE 0)

PortSize(s) ==
  LET n == Len(s.address)
      size == 1 + (IF s.number >= 15 THEN 2 ELSE 0) + n
  IN  IF n > 1 THEN size + 1 + ((size + 1) % 2) ELSE size

EncodePort(s) ==
  LET n == Len(s.address)
      extended == s.number >= 15
      body == <<(IF extended THEN 15 ELSE s.number) + (IF n > 1 THEN 16 ELSE 0)>>
                \o (IF n > 1 THEN <<n>> ELSE <<>>)
                \o (IF extended THEN LittleEndian(s.number, 2) ELSE <<>>)
                \o s.address
  IN  IF n > 1 THEN body \o PadByte(Len(body)) ELSE body

DecodePort(b, at) ==
  LET code == ByteAt(b, at)
      long == code \div 16 = 1
      n == IF long THEN ByteAt(b, at + 1) ELSE 1
      numberAt == at + (IF long THEN 2 ELSE 1)
      extended == code % 16 = 15
      address == numberAt + (IF extended THEN 2 ELSE 0)
      end == address + n
  IN  [segment |-> Port(IF extended THEN NumberAt(b, numberAt, 2) ELSE code % 16,
                        BytesAt(b, address, n)),
       next |-> end + (IF n > 1 THEN (end - at) % 2 ELSE 0)]

-----------------------------------------------------------------------------
(* Logical segments.  The constructor chooses a format by the value unless   *)
(* it is given one.                                                          *)
ClassID == 0
InstanceID == 1
MemberID == 2
ConnectionPoint == 3
AttributeID == 4
Special == 5
ServiceID == 6
FormatSize(format) == CASE format = 0 -> 1 [] format = 1 -> 2 [] format = 2 -> 4
FormatOf(value) == CHOOSE f \in 0 .. 2 : FormatSize(f) = UnsignedIntegerSize(value)

LogicalIn(type, format, value) ==
  [kind |-> "logical", type |-> type, format |-> format, value |-> value]
Logical(type, value) == LogicalIn(type, FormatOf(value), value)
ElectronicKey(vendorID, deviceType, productCode, major, minor, compatibility) ==
  [kind |-> "key", vendorID |-> vendorID, deviceType |-> deviceType, productCode |-> productCode,
   major |-> major, minor |-> minor, compatibility |-> compatibility]

(* validate, and the range check of the write.                               *)
LogicalValid(s) ==
  /\ s.type \in {ClassID, InstanceID, MemberID, ConnectionPoint, AttributeID, ServiceID}
  /\ s.format = 2 => s.type \in {InstanceID, ConnectionPoint}
  /\ s.type = ServiceID => s.format = 0
  /\ Fits(s.value, FormatSize(s.format))

LogicalSize(padded, s) ==
  1 + FormatSize(s.format) + (IF padded /\ s.format # 0 THEN 1 ELSE 0)
KeySize == 10

(* Faulty form of EncodeLogical: the pad byte follows the value.             *)
EncodeLogicalPadded(padded, s) ==
  <<32 + 4 * s.type + s.format>> \o LittleEndian(s.value, FormatSize(s.format))
    \o (IF padded /\ s.format # 0 THEN <<0>> ELSE <<>>)

EncodeLogical(padded, s) ==
  <<32 + 4 * s.type + s.format>> \o (IF padded /\ s.format # 0 THEN <<0>> ELSE <<>>)
    \o LittleEndian(s.value, FormatSize(s.format))
EncodeKey(s) ==
  <<32 + 4 * Special, 4>> \o LittleEndian(s.vendorID, 2) \o LittleEndian(s.deviceType, 2)
    \o LittleEndian(s.productCode, 2)
    \o <<(IF s.compatibility = 1 THEN 128 ELSE 0) + (s.major % 128), s.minor>>

DecodeLogical(b, at, padded) ==
  LET type == (ByteAt(b, at) \div 4) % 8
      format == ByteAt(b, at) % 4
      value == at + 1 + (IF padded /\ format # 0 THEN 1 ELSE 0)
      revision == ByteAt(b, at + 8)
  IN  IF type = Special
        THEN [segment |-> ElectronicKey(NumberAt(b, at + 2, 2), NumberAt(b, at + 4, 2),
                            NumberAt(b, at + 6, 2), revision % 128, ByteAt(b, at + 9),
                            revision \div 128),
              next |-> at + 10]
        ELSE [segment |-> LogicalIn(type, format, NumberAt(b, value, FormatSize(format))),
              next |-> value + FormatSize(format)]

-----------------------------------------------------------------------------
Network(subtype, value) == [kind |-> "network", subtype |-> subtype, value |-> value]

NetworkValid(s) == s.subtype \in {1, 2, 3} /\ Fits(s.value, 1)
EncodeNetwork(s) == <<64 + s.subtype, s.value>>
DecodeNetwork(b, at) == [segment |-> Network(ByteAt(b, at) % 32, ByteAt(b, at + 1)), next |-> at + 2]

(* Symbolic segments: characters of one byte (format 0 here, null in the     *)
(* code), of two or of three, or a number.                                   *)
Single(value) == [kind |-> "symbolic", format |-> 0, size |-> Len(value), value |-> value]
Wide(bytes, value) ==
  [kind |-> "symbolic", format |-> bytes - 1, size |-> Len(value) \div bytes, value |-> value]
NumericSize(i) == CASE i < 256 -> 6 [] i \in 256 .. 65535 -> 7 [] OTHER -> 8
Numeric(i) == [kind |-> "symbolic", format |-> 6, size |-> NumericSize(i), value |-> <<i>>]
NumericBytes(size) == CASE size = 6 -> 1 [] size = 7 -> 2 [] size = 8 -> 4

SymbolicValid(s) ==
  CASE s.format = 0 -> s.size \in 1 .. 31
    [] s.format \in {1, 2} -> Len(s.value) = (s.format + 1) * s.size
    [] s.format = 6 -> Fits(s.value[1], NumericBytes(s.size))

SymbolicSize(s) ==
  CASE s.format = 0 -> 1 + Len(s.value)
    [] s.format \in {1, 2} -> 2 + (s.format + 1) * s.size
    [] s.format = 6 -> 2 + NumericBytes(s.size)

EncodeSymbolic(s) ==
  IF s.format = 0 THEN <<96 + (s.size % 32)>> \o s.value
  ELSE <<96, 32 * s.format + (s.size % 32)>>
         \o (IF s.format = 6 THEN LittleEndian(s.value[1], NumericBytes(s.size)) ELSE s.value)

DecodeSymbolic(b, at) ==
  LET size == ByteAt(b, at) % 32
      format == ByteAt(b, at + 1) \div 32
      count == ByteAt(b, at + 1) % 32
      n == IF format = 6 THEN NumericBytes(count) ELSE (format + 1) * count
      read == BytesAt(b, at + 2, n)
  IN  IF size > 0 THEN [segment |-> Single(Ascii(BytesAt(b, at + 1, size))), next |-> at + 1 + size]
      ELSE [segment |-> IF format = 6 THEN Numeric(FromLittleEndian(read)) ELSE Wide(format + 1, read),
            next |-> at + 2 + n]

(* Data segments: an even number of bytes, or the name of a symbol.          *)
Simple(value) == [kind |-> "data", subtype |-> 0, value |-> value]
ANSIExtendedSymbol(value) == [kind |-> "data", subtype |-> 17, value |-> value]

DataValid(s) ==
  IF s.subtype = 0 THEN Len(s.value) % 2 = 0 /\ Len(s.value) <= 510 ELSE Len(s.value) \in 1 .. 255
DataSize(s) == 2 + Len(s.value) + (IF s.subtype = 17 THEN Len(s.value) % 2 ELSE 0)
EncodeData(s) ==
  <<128 + s.subtype, IF s.subtype = 0 THEN Len(s.value) \div 2 ELSE Len(s.value)>>
    \o s.value \o (IF s.subtype = 17 THEN PadByte(Len(s.value)) ELSE <<>>)
DecodeData(b, at) ==
  LET n == ByteAt(b, at + 1)
  IN  IF ByteAt(b, at) % 32 = 0
        THEN [segment |-> Simple(BytesAt(b, at + 2, 2 * n)), next |-> at + 2 + 2 * n]
        ELSE [segment |-> ANSIExtendedSymbol(Ascii(BytesAt(b, at + 2, n))), next |-> at + 2 + n + (n % 2)]

-----------------------------------------------------------------------------
(* Data type segments: a type code, and what it is made of.                  *)
AbbrevStruct == 160
AbbrevArray == 161
Struct == 162
Array == 163

RECURSIVE TypeSize(_)
TypeSize(t) ==
  CASE t.code = Struct -> 2 + FoldLeft(LAMBDA n, m : n + TypeSize(m), 0, t.members)
    [] t.code = Array -> 8 + TypeSize(t.itemType)
    [] t.code = AbbrevStruct -> 4
    [] t.code = AbbrevArray -> 2 + TypeSize(t.itemType)
    [] OTHER -> 1

Bound(tag, i) == <<tag, UnsignedIntegerSize(i)>> \o LittleEndian(i, UnsignedIntegerSize(i))

RECURSIVE EncodeType(_)
EncodeType(t) ==
  CASE t.code = Struct ->
         <<t.code, TypeSize(t) - 2>> \o FlattenSeq([i \in DOMAIN t.members |-> EncodeType(t.members[i])])
    [] t.code = Array ->
         <<t.code, TypeSize(t) - 2>> \o Bound(t.lowerTag, t.lower) \o Bound(t.upperTag, t.upper)
           \o EncodeType(t.itemType)
    [] t.code = AbbrevStruct -> <<t.code, 2>> \o LittleEndian(t.crc, 2)
    [] t.code = AbbrevArray -> <<t.code, TypeSize(t) - 2>> \o EncodeType(t.itemType)
    [] OTHER -> <<t.code>>

RECURSIVE DecodeType(_, _), DecodeMembers(_, _, _)
DecodeType(b, at) ==
  LET code == ByteAt(b, at)
      n == ByteAt(b, at + 1)
      lower == ByteAt(b, at + 3)
      second == at + 4 + lower
      upper == ByteAt(b, second + 1)
      item == DecodeType(b, IF code = Array THEN second + 2 + upper ELSE at + 2)
      members == DecodeMembers(b, at + 2, at + 2 + n)
  IN  CASE code = Struct -> [type |-> [code |-> Struct, members |-> members.types], next |-> members.next]
        [] code = Array ->
             [type |-> [code |-> Array, itemType |-> item.type,
                        lowerTag |-> ByteAt(b, at + 2), lower |-> NumberAt(b, at + 4, lower),
                        upperTag |-> ByteAt(b, second), upper |-> NumberAt(b, second + 2, upper)],
              next |-> item.next]
        [] code = AbbrevStruct ->
             [type |-> [code |-> code, crc |-> NumberAt(b, at + 2, n)], next |-> at + 2 + n]
        [] code = AbbrevArray -> [type |-> [code |-> code, itemType |-> item.type], next |-> item.next]
        [] OTHER -> [type |-> [code |-> code], next |-> at + 1]
DecodeMembers(b, at, end) ==
  IF at >= end THEN [types |-> <<>>, next |-> at]
  ELSE LET first == DecodeType(b, at)
           rest == DecodeMembers(b, first.next, end)
       IN  [types |-> <<first.type>> \o rest.types, next |-> rest.next]

DataTypeSegment(t) == [kind |-> "type", type |-> t]

RECURSIVE TypeValid(_)
TypeValid(t) ==
  CASE t.code = Struct -> (\A i \in DOMAIN t.members : TypeValid(t.members[i])) /\ TypeSize(t) - 2 < 256
    [] t.code = Array -> t.lower >= 0 /\ t.upper >= 0 /\ TypeValid(t.itemType)
    [] t.code = AbbrevArray -> TypeValid(t.itemType)
    [] OTHER -> TRUE

(* encodeSize counts one byte for each bound of an array: the buffer is too  *)
(* short for a bound that needs more, and encode throws.                     *)
RECURSIVE WideBounds(_)
WideBounds(t) ==
  CASE t.code = Struct -> \E i \in DOMAIN t.members : WideBounds(t.members[i])
    [] t.code = Array -> ~Fits(t.lower, 1) \/ ~Fits(t.upper, 1) \/ WideBounds(t.itemType)
    [] t.code = AbbrevArray -> WideBounds(t.itemType)
    [] OTHER -> FALSE

-----------------------------------------------------------------------------
(* The segment can be made and written.                                      *)
SegmentValid(s) ==
  CASE s.kind = "port" -> PortValid(s)
    [] s.kind = "logical" -> LogicalValid(s)
    [] s.kind = "key" -> TRUE
    [] s.kind = "network" -> NetworkValid(s)
    [] s.kind = "symbolic" -> SymbolicValid(s)
    [] s.kind = "data" -> DataValid(s)
    [] s.kind = "type" -> TypeValid(s.type)

SegmentSize(padded, s) ==
  CASE s.kind = "port" -> PortSize(s)
    [] s.kind = "logical" -> LogicalSize(padded, s)
    [] s.kind = "key" -> KeySize
    [] s.kind = "network" -> 2
    [] s.kind = "symbolic" -> SymbolicSize(s)
    [] s.kind = "data" -> DataSize(s)
    [] s.kind = "type" -> TypeSize(s.type)

EncodeSegment(padded, s) ==
  CASE s.kind = "port" -> EncodePort(s)
    [] s.kind = "logical" -> EncodeLogical(padded, s)
    [] s.kind = "key" -> EncodeKey(s)
    [] s.kind = "network" -> EncodeNetwork(s)
    [] s.kind = "symbolic" -> EncodeSymbolic(s)
    [] s.kind = "data" -> EncodeData(s)
    [] s.kind = "type" -> EncodeType(s.type)

PathSize(padded, path) == FoldLeft(LAMBDA n, s : n + SegmentSize(padded, s), 0, path)
EncodePath(padded, path) == FlattenSeq([i \in DOMAIN path |-> EncodeSegment(padded, path[i])])

(* EPath.Decode: the segment type is in the three high bits of a segment.    *)
DecodeSegment(b, at, padded) ==
  LET type == ByteAt(b, at) \div 32
  IN  CASE type = 0 -> DecodePort(b, at)
        [] type = 1 -> DecodeLogical(b, at, padded)
        [] type = 2 -> DecodeNetwork(b, at)
        [] type = 3 -> DecodeSymbolic(b, at)
        [] type = 4 -> DecodeData(b, at)
        [] type \in {5, 6} ->
             LET t == DecodeType(b, at)
             IN  [segment |-> DataTypeSegment(t.type), next |-> t.next]
        [] OTHER -> [segment |-> [kind |-> "error"], next |-> at + 1]

RECURSIVE DecodeSegments(_, _, _, _)
DecodeSegments(b, at, end, padded) ==
  IF at >= end THEN [path |-> <<>>, next |-> at]
  ELSE LET first == DecodeSegment(b, at, padded)
           rest == DecodeSegments(b, first.next, end, padded)
       IN  [path |-> <<first.segment>> \o rest.path, next |-> rest.next]

Overrun == <<[kind |-> "error"]>>
DecodePath(b, padded) ==
  LET d == DecodeSegments(b, 1, Len(b) + 1, padded)
  IN  IF d.next = Len(b) + 1 THEN d.path ELSE Overrun

(* ConvertSymbolToSegments: each part of a symbol has a name and the members *)
(* between its brackets.                                                     *)
SymbolSegments(symbol) ==
  FlattenSeq([i \in DOMAIN symbol |->
    <<ANSIExtendedSymbol(symbol[i].name)>>
      \o [j \in DOMAIN symbol[i].members |-> Logical(MemberID, symbol[i].members[j])]])
=============================================================================
