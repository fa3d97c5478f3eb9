---------------------------- MODULE MessageCodec ----------------------------
(***************************************************************************)
(* CIP requests and replies (core/request.js), the Connection Manager's     *)
(* services (core/objects/ConnectionManager.js) and the EtherNet/IP packet  *)
(* they travel in (EIP/cpf.js, EIP/packet.js): sizes, bytes, and decoding.  *)
(* What a device reads of a request, and writes as a reply, is external.    *)
(***************************************************************************)
EXTENDS TypeCodec

CONSTANTS
  VendorID, OriginatorSerialNumber,   \* of CIPConnectionLayer
  None                                \* no Buffer

(* A request: its path and data are bytes, or None; a packet of several      *)
(* requests has them in parts.                                               *)
Request(service, path, data) == [service |-> service, path |-> path, data |-> data, parts |-> <<>>]
MultipleServicePacket == 10
MessageRouterPath == EncodePath(TRUE, <<Logical(ClassID, 2), Logical(InstanceID, 1)>>)
Multi(parts) ==
  [service |-> MultipleServicePacket, path |-> MessageRouterPath, data |-> None, parts |-> parts]

Present(b) == IF b = None THEN <<>> ELSE b

RECURSIVE RequestSize(_)
RequestSize(r) ==
  1 + (IF r.path = None THEN 0 ELSE 1 + Len(r.path)) + Len(Present(r.data))
    + (IF r.parts = <<>> THEN 0
       ELSE FoldLeft(LAMBDA n, part : n + 2 + RequestSize(part), 2, r.parts))

Offsets(sizes) ==
  [i \in DOMAIN sizes |-> FoldLeft(LAMBDA n, s : n + s, 2 + 2 * Len(sizes), SubSeq(sizes, 1, i - 1))]

Table(parts, sizes) ==
  LittleEndian(Len(parts), 2)
    \o FlattenSeq([i \in DOMAIN sizes |-> LittleEndian(Offsets(sizes)[i], 2)]) \o FlattenSeq(parts)

RECURSIVE EncodeRequest(_)
EncodeRequest(r) ==
  <<r.service, Len(Present(r.path)) \div 2>> \o Present(r.path) \o Present(r.data)
    \o (IF r.parts = <<>> THEN <<>>
        ELSE Table([i \in DOMAIN r.parts |-> EncodeRequest(r.parts[i])],
                   [i \in DOMAIN r.parts |-> RequestSize(r.parts[i])]))

(* A device's reading of a request (no part is known to be absent).          *)
ReadRequest(b) ==
  LET n == 2 * ByteAt(b, 2)
      rest == SubSeq(b, 3 + n, Len(b))
      at == [i \in 1 .. NumberAt(rest, 1, 2) |-> NumberAt(rest, 1 + 2 * i, 2) + 1] \o <<Len(rest) + 1>>
  IN  [service |-> b[1], path |-> BytesAt(b, 3, n),
       data |-> IF b[1] = MultipleServicePacket THEN <<>> ELSE rest,
       parts |-> IF b[1] # MultipleServicePacket THEN <<>>
                 ELSE [i \in 1 .. Len(at) - 1 |-> SubSeq(rest, at[i], at[i + 1] - 1)]]
ToRead(r) ==
  [service |-> r.service, path |-> Present(r.path), data |-> Present(r.data),
   parts |-> [i \in DOMAIN r.parts |-> EncodeRequest(r.parts[i])]]

-----------------------------------------------------------------------------
(* Replies.  DecodeResponse leaves the data as everything after the status,  *)
(* so that each reply of a packet but the last holds those after it too.     *)
Success == 0
PartialTransfer == 6
Reply(service, status, extended, data) ==
  [service |-> service, status |-> status, extended |-> extended, data |-> data]
DeviceReply(r) == <<128 + r.service, 0, r.status, Len(r.extended) \div 2>> \o r.extended \o r.data
DeviceReplies(rs) ==
  LET bytes == [i \in DOMAIN rs |-> DeviceReply(rs[i])]
  IN  Table(bytes, [i \in DOMAIN bytes |-> Len(bytes[i])])

IsError(status) == status \notin {Success, PartialTransfer}
Rejected == [service |-> "error"]
DecodeResponse(b, at, accepted) ==
  LET service == ByteAt(b, at) % 128
      n == 2 * ByteAt(b, at + 3)
  IN  IF service \notin accepted THEN Rejected
      ELSE Reply(service, ByteAt(b, at + 2), BytesAt(b, at + 4, n), SubSeq(b, at + 4 + n, Len(b)))

MultiCreateDataHandler(b, services) ==
  IF NumberAt(b, 1, 2) # Len(services) THEN <<Rejected>>
  ELSE [i \in DOMAIN services |-> DecodeResponse(b, 1 + NumberAt(b, 1 + 2 * i, 2), {services[i]})]

-----------------------------------------------------------------------------
(* The Connection Manager.  Buffer.allocUnsafe gives the exact size: a write *)
(* that does not reach it leaves what was in memory.                         *)
ConnectionManagerEPath == EncodePath(TRUE, <<Logical(ClassID, 6), Logical(InstanceID, 1)>>)
ConnectionManagerCIPRequest(service, data) == Request(service, ConnectionManagerEPath, data)
ConnectionTiming(tickTime, timeoutTicks) == <<tickTime % 16, timeoutTicks>>
RouteToRouter(segments) ==
  EncodePath(TRUE, segments \o <<Logical(ClassID, 2), Logical(InstanceID, 1)>>)

UnconnectedSendSize(request, route) ==
  LET n == RequestSize(request) IN 6 + n + (n % 2) + Len(route)
UnconnectedSend(request, route) ==
  ConnectionTiming(6, 156) \o LittleEndian(RequestSize(request), 2)
    \o EncodeRequest(request) \o PadByte(RequestSize(request))
    \o <<Len(route) \div 2, 0>> \o route
ReadUnconnectedSend(b) ==
  LET n == NumberAt(b, 3, 2)
      route == 5 + n + (n % 2)
  IN  [request |-> BytesAt(b, 5, n), route |-> BytesAt(b, route + 2, 2 * ByteAt(b, route))]

(* The serial number and the two ids are counted up together, each from its  *)
(* own start, and none ever wraps.                                           *)
FirstSerial == 1
OtoTNetworkConnectionID(serial) == 2 ^ 29 + 2 + (serial - FirstSerial)
TtoONetworkConnectionID(serial) == 2 ^ 29 + 1 + (serial - FirstSerial)

(* A connection is made of options: its network parameters (owner, type,     *)
(* priority, sizeType, maximumSize), its transport (direction, trigger,      *)
(* class) and a route; those too large for 9 bits go in 4 bytes, the owner   *)
(* then in the sign, which the write refuses.                                *)
MaximumNormalConnectionSize == 511
MaximumLargeConnectionSize == 65535
IsLarge(o) == o.maximumSize > MaximumNormalConnectionSize
NetworkParameters(o) ==
  IF IsLarge(o)
    THEN 2 ^ 29 * o.type + 2 ^ 26 * o.priority + 2 ^ 25 * o.sizeType + o.maximumSize
    ELSE 2 ^ 15 * o.owner + 2 ^ 13 * o.type + 2 ^ 10 * o.priority + 2 ^ 9 * o.sizeType + o.maximumSize
TransportTrigger(o) == 128 * o.direction + 16 * o.trigger + o.class

ConnectionValid(o) ==
  /\ Fits(o.serial, 2)
  /\ o.maximumSize <= MaximumLargeConnectionSize
  /\ ~(IsLarge(o) /\ o.owner = 1)

(* A refused large connection is tried again with the default size.          *)
AsNormal(o) == [o EXCEPT !.maximumSize = 500]

RPI == 2000000
ConnectionTimeoutMultiplier == 1
ForwardOpenSize(o) == 36 + Len(o.route) + (IF IsLarge(o) THEN 4 ELSE 0)
ForwardOpen(o) ==
  LET parameters == LittleEndian(NetworkParameters(o), IF IsLarge(o) THEN 4 ELSE 2)
  IN  ConnectionTiming(6, 156)
        \o LittleEndian(OtoTNetworkConnectionID(o.serial), 4)
        \o LittleEndian(TtoONetworkConnectionID(o.serial), 4)
        \o LittleEndian(o.serial, 2) \o LittleEndian(VendorID, 2) \o LittleEndian(OriginatorSerialNumber, 4)
        \o <<ConnectionTimeoutMultiplier, 0, 0, 0>>
        \o LittleEndian(RPI, 4) \o parameters \o LittleEndian(RPI, 4) \o parameters
        \o <<TransportTrigger(o), Len(o.route) \div 2>> \o o.route
ReadForwardOpen(b, large) ==
  LET w == IF large THEN 4 ELSE 2
      bit == IF large THEN 16 ELSE 0
      p == NumberAt(b, 31 + w, w)
      trigger == b[31 + 2 * w]
  IN  [serial |-> NumberAt(b, 11, 2), owner |-> IF large THEN 0 ELSE p \div 2 ^ 15,
       type |-> (p \div 2 ^ (13 + bit)) % 4, priority |-> (p \div 2 ^ (10 + bit)) % 4,
       sizeType |-> (p \div 2 ^ (9 + bit)) % 2, maximumSize |-> p % 2 ^ (IF large THEN 16 ELSE 9),
       direction |-> trigger \div 128, trigger |-> (trigger \div 16) % 8, class |-> trigger % 16,
       route |-> BytesAt(b, 33 + 2 * w, 2 * b[32 + 2 * w])]

ForwardCloseSize(o) == 12 + Len(o.route)
ForwardClose(o) ==
  ConnectionTiming(6, 156) \o LittleEndian(o.serial, 2) \o LittleEndian(VendorID, 2)
    \o LittleEndian(OriginatorSerialNumber, 4) \o <<Len(o.route) \div 2, 0>> \o o.route
ReadForwardClose(b) == [serial |-> NumberAt(b, 3, 2), route |-> BytesAt(b, 13, 2 * b[11])]

(* The replies: fields of fixed widths, then the application's reply, its    *)
(* words counted in a byte.                                                  *)
OpenedFields == <<4, 4, 2, 2, 4, 4, 4>>
ClosedFields == <<2, 2, 4>>
OpenReply(b, widths) ==
  LET start(i) == 1 + FoldLeft(LAMBDA n, w : n + w, 0, SubSeq(widths, 1, i - 1))
      at == start(Len(widths) + 1)
  IN  [fields |-> [i \in DOMAIN widths |-> NumberAt(b, start(i), widths[i])],
       data |-> BytesAt(b, at + 2, 2 * ByteAt(b, at))]

-----------------------------------------------------------------------------
(* The common packet format, and the encapsulation of 24 bytes.              *)
NullAddress == 0
ConnectedAddress == 161
ConnectedMessage == 177
UnconnectedMessage == 178
SequencedAddress == 32770
EncodeUCMM(data) ==
  LittleEndian(2, 2) \o LittleEndian(NullAddress, 2) \o LittleEndian(0, 2)
    \o LittleEndian(UnconnectedMessage, 2) \o LittleEndian(Len(data), 2) \o data
EncodeConnected(id, data) ==
  LittleEndian(2, 2) \o LittleEndian(ConnectedAddress, 2) \o LittleEndian(4, 2) \o LittleEndian(id, 4)
    \o LittleEndian(ConnectedMessage, 2) \o LittleEndian(Len(data), 2) \o data

(* Decode: an address must have its length; any other item is kept as bytes. *)
AddressLength == (NullAddress :> 0) @@ (ConnectedAddress :> 4) @@ (SequencedAddress :> 8)
RECURSIVE DecodeItems(_, _, _)
DecodeItems(b, at, count) ==
  IF count = 0 THEN <<>>
  ELSE LET type == NumberAt(b, at, 2)
           n == NumberAt(b, at + 2, 2)
       IN  IF type \in DOMAIN AddressLength /\ n # AddressLength[type]
             THEN <<[type |-> "error", data |-> <<>>]>>
             ELSE <<[type |-> type, data |-> BytesAt(b, at + 4, n)]>> \o DecodeItems(b, at + 4 + n, count - 1)
DecodeCPF(b, at) == DecodeItems(b, at + 2, NumberAt(b, at, 2))

HeaderLength == 24
RegisterSession == 101
SendRRData == 111
SendUnitData == 112
EncodePacket(command, session, context, data) ==
  LittleEndian(command, 2) \o LittleEndian(Len(data), 2) \o LittleEndian(session, 4)
    \o LittleEndian(0, 4) \o context \o LittleEndian(0, 4) \o data
EncodeDataMessage(command, session, context, timeout, data) ==
  EncodePacket(command, session, context, LittleEndian(0, 4) \o LittleEndian(timeout, 2) \o data)
FromBuffer(b) ==
  LET data == BytesAt(b, 1 + HeaderLength, NumberAt(b, 3, 2))
  IN  [command |-> NumberAt(b, 1, 2), session |-> NumberAt(b, 5, 4), status |-> NumberAt(b, 9, 4),
       context |-> BytesAt(b, 13, 8), data |-> data,
       items |-> IF NumberAt(b, 1, 2) \in {SendRRData, SendUnitData} THEN DecodeCPF(data, 7) ELSE <<>>]
=============================================================================
