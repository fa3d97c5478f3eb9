------------------------------ MODULE PcccCodec ------------------------------
(***************************************************************************)
(* PCCC packets (layers/pccc/packet.js, encoding.js, decoding.js) and the   *)
(* Execute PCCC request they travel in over CIP (internal/pccc.js).         *)
(*                                                                          *)
(* An address keeps its prefix beside its characters.  A floating-point     *)
(* number is its four bytes, which are copied.  What a controller reads of  *)
(* a packet, and writes as a reply, is external.                            *)
(***************************************************************************)
EXTENDS MessageCodec

Binary == 1
BitString == 2
ByteType == 3
Integer == 4
Timer == 5
Counter == 6
Control == 7
Float == 8
ArrayType == 9

(* logicalASCIIAddressInfo; a prefix it does not list is refused.            *)
NoID == -1
AddressInfo ==
  [p \in {"S", "I", "N", "O", "B"} |-> [id |-> Integer, size |-> 2]]
    @@ ("L" :> [id |-> NoID, size |-> 4]) @@ ("F" :> [id |-> Float, size |-> 4])
    @@ [p \in {"T", "C", "R"} |-> [id |-> NoID, size |-> 6]]
    @@ ("ST" :> [id |-> NoID, size |-> 84]) @@ ("NST" :> [id |-> NoID, size |-> 44])
Address(prefix, text) == [prefix |-> prefix, text |-> text]

EncodeLogicalASCIIAddress(address) == <<0, 36>> \o address.text \o <<0>>

(* The type and the size of a datum: four bits each, or, from 7 on, a flag,  *)
(* the width and a number.                                                   *)
AdditionalLength(n) == IF n < 7 THEN 0 ELSE UnsignedIntegerSize(n)
DataTypeEncodingLength(id, size) == 1 + AdditionalLength(id) + AdditionalLength(size)
Nibble(n) == IF n < 7 THEN n ELSE 8 + AdditionalLength(n)
EncodeDataDescriptor(id, size) ==
  <<16 * Nibble(id) + Nibble(size)>> \o LittleEndian(id, AdditionalLength(id))
    \o LittleEndian(size, AdditionalLength(size))

(* A type of 7 or more with a size below 7 is written at an offset that is   *)
(* no number, and throws, as does a type that an address does not have.      *)
Describable(id, size) == id # NoID /\ (id < 7 \/ size >= 7)

DecodeDataDescriptor(b, at) ==
  LET part(n, from) == IF n < 8 THEN Read(n, from) ELSE Read(NumberAt(b, from, n - 8), from + n - 8)
      type == part(ByteAt(b, at) \div 16, at + 1)
      size == part(ByteAt(b, at) % 16, type.next)
  IN  [type |-> type.value, size |-> size.value, next |-> size.next]

-----------------------------------------------------------------------------
(* The functions of a request: the data of its command, and the size that    *)
(* the code allocates for it.                                                *)
MaxWordRange == 122
Function(name, command, address, count, values) ==
  [name |-> name, command |-> command, address |-> address, count |-> count, values |-> values]
NoAddress == Address("none", <<>>)
WordRangeRead(address, words) == Function("word range read", 15, address, words, <<>>)
TypedRead(address, items) == Function("typed read", 15, address, items, <<>>)
TypedWrite(address, values) == Function("typed write", 15, address, Len(values), values)
DiagnosticStatus == Function("diagnostic status", 6, NoAddress, 0, <<>>)
Echo(data) == Function("echo", 6, NoAddress, 0, data)
UnconnectedCIP(message) == Function("unconnected", 11, NoAddress, 0, message)
ConnectedCIP(id, header, message) == Function("connected", 10, NoAddress, <<id, header>>, message)

FunctionValid(f) ==
  CASE f.name = "word range read" -> f.address.prefix \in DOMAIN AddressInfo /\ f.count <= MaxWordRange
    [] f.name = "typed read" -> f.count \in 1 .. 65535
    [] f.name = "typed write" ->
         /\ f.address.prefix \in DOMAIN AddressInfo
         /\ Describable(AddressInfo[f.address.prefix].id, AddressInfo[f.address.prefix].size)
         /\ \A i \in DOMAIN f.values : InRange("INT", f.values[i])
    [] OTHER -> TRUE

FunctionSize(f) ==
  CASE f.name = "word range read" -> 9 + Len(f.address.text)
    [] f.name = "typed read" -> 10 + Len(f.address.text)
    [] f.name = "typed write" ->
         LET info == AddressInfo[f.address.prefix]
         IN  5 + (Len(f.address.text) + 3) + DataTypeEncodingLength(info.id, info.size)
               + Len(f.values) * info.size
    [] f.name = "diagnostic status" -> 1
    [] f.name = "echo" -> 1 + Len(f.values)
    [] f.name = "unconnected" -> 2 + Len(f.values)
    [] f.name = "connected" -> 6 + Len(f.values)

FunctionBytes(f) ==
  LET ranged(code) == <<code, 0, 0>> \o LittleEndian(f.count, 2) \o EncodeLogicalASCIIAddress(f.address)
  IN  CASE f.name = "word range read" -> ranged(1) \o <<2 * f.count>>
        [] f.name = "typed read" -> ranged(104) \o LittleEndian(f.count, 2)
        [] f.name = "typed write" ->
             LET info == AddressInfo[f.address.prefix]
             IN  ranged(103) \o EncodeDataDescriptor(info.id, info.size)
                   \o FlattenSeq([i \in DOMAIN f.values |-> LittleEndian(f.values[i], 2)])
        [] f.name = "diagnostic status" -> <<3>>
        [] f.name = "echo" -> <<0>> \o f.values
        [] f.name = "unconnected" -> <<0, 0>> \o f.values
        [] f.name = "connected" ->
             <<0, 0>> \o LittleEndian(f.count[1], 2) \o LittleEndian(f.count[2], 2) \o f.values

EncodeCommand(command, status, transaction, data) ==
  <<command, status>> \o LittleEndian(transaction, 2) \o data

(* Over CIP: the identity of the requestor before the packet.                *)
PCCCVendorID == 43981
PCCCSerialNumber == 305419896
ExecutePCCC(packet) ==
  Request(75, EncodePath(TRUE, <<Logical(ClassID, 103), Logical(InstanceID, 1)>>),
          <<7>> \o LittleEndian(PCCCVendorID, 2) \o LittleEndian(PCCCSerialNumber, 4) \o packet)

FromBufferRequest(b) ==
  LET id == 3 + 2 * ByteAt(b, 2)
      other == IF ByteAt(b, id) > 7 THEN ByteAt(b, id) - 7 ELSE 0
      at == id + 7 + other
  IN  [vendorID |-> NumberAt(b, id + 1, 2), serialNumber |-> NumberAt(b, id + 3, 4),
       command |-> ByteAt(b, at), transaction |-> NumberAt(b, at + 2, 2), data |-> SubSeq(b, at + 4, Len(b))]

-----------------------------------------------------------------------------
(* A controller's reading of a packet.                                       *)
ReadCommand(b) ==
  LET data == SubSeq(b, 5, Len(b))
      text == SubSeq(data, 8, Len(data))
      ends == SelectInSeq(text, LAMBDA x : x = 0)
      common == [transaction |-> NumberAt(b, 3, 2), command |-> b[1]]
  IN  IF b[1] # 15 THEN common @@ [data |-> data]
      ELSE common @@ [code |-> data[1], count |-> NumberAt(data, 4, 2),
                      text |-> SubSeq(text, 1, ends - 1), rest |-> SubSeq(text, ends + 1, Len(text))]
ToReadCommand(transaction, f) ==
  LET common == [transaction |-> transaction, command |-> f.command]
      ranged(code, rest) ==
        common @@ [code |-> code, count |-> f.count, text |-> f.address.text, rest |-> rest]
  IN  CASE f.name = "word range read" -> ranged(1, <<2 * f.count>>)
        [] f.name = "typed read" -> ranged(104, LittleEndian(f.count, 2))
        [] f.name = "typed write" ->
             ranged(103, <<16 * Integer + 2>>
                           \o FlattenSeq([i \in DOMAIN f.values |-> LittleEndian(f.values[i], 2)]))
        [] OTHER -> common @@ [data |-> FunctionBytes(f)]

-----------------------------------------------------------------------------
(* Replies.                                                                  *)
FromBufferReply(b) ==
  LET extended == ByteAt(b, 2) = 240
  IN  [command |-> b[1], status |-> b[2], transaction |-> NumberAt(b, 3, 2),
       extended |-> IF extended THEN b[5] ELSE 0, data |-> SubSeq(b, IF extended THEN 6 ELSE 5, Len(b))]

(* A timer, a counter and a control word: flags, from the highest bit on,    *)
(* and two words.                                                            *)
Flags == (Timer :> 3) @@ (Counter :> 5) @@ (Control :> 8)
ElementSize == [t \in {Binary, BitString, ByteType} |-> 1] @@ (Integer :> 2) @@ (Float :> 4) @@ [t \in DOMAIN Flags |-> 6]

DecodeElement(b, at, type) ==
  CASE type \in {Binary, BitString, ByteType} -> ByteAt(b, at)
    [] type = Integer -> SignedAt(b, at, 2)
    [] type = Float -> BytesAt(b, at, 4)
    [] type \in DOMAIN Flags ->
         [flags |-> [i \in 1 .. Flags[type] |-> (NumberAt(b, at, 2) \div 2 ^ (16 - i)) % 2 = 1],
          words |-> <<SignedAt(b, at + 2, 2), SignedAt(b, at + 4, 2)>>]

(* ParseTypedReadData of an array: elements to its end.  One of an unknown   *)
(* type takes nothing from the buffer, and the loop never ends: no value.    *)
ParseTypedReadData(b) ==
  LET outer == DecodeDataDescriptor(b, 1)
      inner == DecodeDataDescriptor(b, outer.next)
      left == outer.next + outer.size - inner.next
      width == ElementSize[inner.type]
  IN  IF left <= 0 \/ inner.type \notin DOMAIN ElementSize THEN <<>>
      ELSE [i \in 1 .. (left + width - 1) \div width |->
              DecodeElement(b, inner.next + width * (i - 1), inner.type)]

(* What a controller writes: the elements under their descriptor.            *)
DeviceElement(type, v) ==
  CASE type \in {Binary, BitString, ByteType} -> <<v>>
    [] type = Integer -> LittleEndian(v, 2)
    [] type \in DOMAIN Flags ->
         LittleEndian(FoldLeft(LAMBDA n, i : n + (IF v.flags[i] THEN 2 ^ (16 - i) ELSE 0), 0,
                               [i \in DOMAIN v.flags |-> i]), 2)
           \o LittleEndian(v.words[1], 2) \o LittleEndian(v.words[2], 2)
    [] OTHER -> v
DescribedSize(type, values) == Len(DeviceElement(type, values[1]))
DeviceArray(type, values) ==
  LET row == EncodeDataDescriptor(type, DescribedSize(type, values))
               \o FlattenSeq([i \in DOMAIN values |-> DeviceElement(type, values[i])])
  IN  EncodeDataDescriptor(ArrayType, Len(row)) \o row
ReplyCommand == 79
DevicePacket(r) ==
  <<ReplyCommand, r.status>> \o LittleEndian(r.transaction, 2)
    \o (IF r.status = 240 THEN <<r.extended>> ELSE <<>>) \o r.data
=============================================================================
