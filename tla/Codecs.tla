------------------------------- MODULE Codecs -------------------------------
(***************************************************************************)
(* What a program makes with the codecs, one step at a time: a path grows   *)
(* segment by segment; a path and data make a request; requests are bundled *)
(* in a packet, routed by an unconnected send, shipped in an encapsulation  *)
(* packet; and what a device writes comes back.  Of each item, the size the *)
(* code announces (and allocates), the bytes it writes, and what their      *)
(* reader understands.                                                      *)
(***************************************************************************)
EXTENDS PcccCodec

CONSTANTS
  Segments, Symbols,      \* added to a path
  Values,                 \* <<type, value>> the program encodes
  Heard,                  \* <<type, value>> a device encodes, in types the program cannot
  Datas, Services,        \* the data and services of requests
  Options,                \* of connections
  Routes,                 \* segments an unconnected send or a connection goes through
  Statuses,               \* of a device's replies
  Headers,                \* <<session handle, connection identifier, sequence count>>
  PcccFunctions,          \* of PCCC requests
  PcccElements,           \* <<type, values>> a controller answers a typed read with
  Transactions,           \* of PCCC requests and replies
  MaxPath, MaxParts       \* bounds: segments of a path, requests of a packet

VARIABLE item

Init == item \in [kind : {"path"}, padded : BOOLEAN, path : {<<>>}]

IsA(kind) == item.kind = kind
Fresh == IsA("path") /\ item.path = <<>>

AddSegment(s) ==
  /\ IsA("path") /\ Len(item.path) < MaxPath /\ SegmentValid(s)
  /\ item' = [item EXCEPT !.path = Append(@, s)]
AddSymbol(symbol) ==
  /\ Fresh
  /\ \A i \in DOMAIN SymbolSegments(symbol) : SegmentValid(SymbolSegments(symbol)[i])
  /\ item' = [item EXCEPT !.path = SymbolSegments(symbol)]

EncodeValue(t, v) ==
  /\ Fresh /\ Encodable(t, v)
  /\ item' = [kind |-> "value", type |-> t, value |-> v]
HearValue(t, v) ==
  /\ Fresh
  /\ item' = [kind |-> "heard", type |-> t, value |-> v]

MakeRequest(service, data) ==
  /\ IsA("path")
  /\ \A i \in DOMAIN item.path : item.path[i].kind # "type"
  /\ item' = [kind |-> "request",
              request |-> Request(service, IF Fresh THEN None ELSE EncodePath(item.padded, item.path), data)]
Bundle ==
  /\ IsA("request") /\ item.request.parts = <<>>
  /\ item' = [item EXCEPT !.request = Multi(<<@>>)]
BundleWith(service, data) ==
  /\ IsA("request") /\ Len(item.request.parts) \in 1 .. MaxParts - 1
  /\ item' = [item EXCEPT !.request = Multi(Append(@.parts, Request(service, MessageRouterPath, data)))]

UnconnectedRequest(s) ==
  /\ IsA("request")
  /\ item' = [kind |-> "unconnected", request |-> item.request, route |-> EncodePath(TRUE, <<s>>)]
OpenConnection(o, s) ==
  /\ Fresh /\ ConnectionValid(o)
  /\ item' = [kind |-> "open", options |-> [route |-> RouteToRouter(<<s>>)] @@ o]
OpenAsNormal ==
  /\ IsA("open") /\ IsLarge(item.options)
  /\ item' = [item EXCEPT !.options = AsNormal(@)]
CloseConnection ==
  /\ IsA("open")
  /\ item' = [item EXCEPT !.kind = "close"]

(* A request goes unconnected, or connected after its sequence count.  One   *)
(* without a path has room for no path size: encode throws.                  *)
Pathless(r) == r.path = None \/ \E i \in DOMAIN r.parts : r.parts[i].path = None
Ship(session) ==
  /\ IsA("request") /\ ~Pathless(item.request)
  /\ item' = [kind |-> "rr", session |-> session, message |-> EncodeRequest(item.request)]
ShipConnected(session, id, count) ==
  /\ IsA("request") /\ ~Pathless(item.request)
  /\ item' = [kind |-> "unit", session |-> session, id |-> id,
              message |-> LittleEndian(count, 2) \o EncodeRequest(item.request)]

(* A device answers every request of a bundle, or with an error of its own;  *)
(* and the opening and the closing of a connection.                          *)
Answer(status) ==
  /\ IsA("request") /\ item.request.parts # <<>> /\ ~Pathless(item.request)
  /\ item' = [kind |-> "answer", status |-> status,
              replies |-> [i \in DOMAIN item.request.parts |->
                 Reply(item.request.parts[i].service, Success, <<>>, Present(item.request.parts[i].data))]]
Answered(data) ==
  /\ (IsA("open") \/ IsA("close")) /\ Len(data) % 2 = 0
  /\ item' = [kind |-> "answered", opening |-> IsA("open"), serial |-> item.options.serial, data |-> data]

(* A PCCC request, with a CIP request in it or not, and the same over CIP;   *)
(* a controller's reply, and the elements in one to a typed read.            *)
AskPCCC(transaction, f) ==
  /\ Fresh /\ FunctionValid(f)
  /\ item' = [kind |-> "pccc", transaction |-> transaction, function |-> f]
ShipPCCC(transaction, h) ==
  /\ IsA("request") /\ ~Pathless(item.request)
  /\ LET message == EncodeRequest(item.request)
     IN  \E f \in {UnconnectedCIP(message), ConnectedCIP(h[1], h[3], message)} :
           item' = [kind |-> "pccc", transaction |-> transaction, function |-> f]
Execute ==
  /\ IsA("pccc")
  /\ item' = [item EXCEPT !.kind = "execute"]
ReplyPCCC(transaction, status, data) ==
  /\ Fresh
  /\ item' = [kind |-> "pccc reply", status |-> status, extended |-> IF status = 240 THEN 7 ELSE 0,
              transaction |-> transaction, data |-> data]
HearElements(type, values) ==
  /\ Fresh
  /\ item' = [kind |-> "elements", type |-> type, values |-> values]

Next ==
  \/ \E s \in Segments : AddSegment(s)
  \/ \E symbol \in Symbols : AddSymbol(symbol)
  \/ \E tv \in Values : EncodeValue(tv[1], tv[2])
  \/ \E tv \in Heard : HearValue(tv[1], tv[2])
  \/ \E service \in Services, data \in Datas : MakeRequest(service, data) \/ BundleWith(service, data)
  \/ Bundle
  \/ \E s \in Routes : UnconnectedRequest(s) \/ \E o \in Options : OpenConnection(o, s)
  \/ OpenAsNormal
  \/ CloseConnection
  \/ \E h \in Headers : Ship(h[1]) \/ ShipConnected(h[1], h[2], h[3])
  \/ \E status \in Statuses : Answer(status)
  \/ \E data \in Datas : Answered(Present(data))
  \/ \E t \in Transactions :
       \/ \E f \in PcccFunctions : AskPCCC(t, f)
       \/ \E h \in Headers : ShipPCCC(t, h)
       \/ \E status \in {0, 16, 240}, data \in Datas : ReplyPCCC(t, status, Present(data))
  \/ Execute
  \/ \E tv \in PcccElements : HearElements(tv[1], tv[2])

Spec == Init /\ [][Next]_item

-----------------------------------------------------------------------------
(* What a device writes in the types the program only reads.                 *)
DeviceText(code, text) ==
  CASE code = "STRINGN" ->
         LittleEndian(text.width, 2) \o LittleEndian(Len(text.letters), 2)
           \o FlattenSeq([i \in DOMAIN text.letters |-> LittleEndian(text.letters[i], text.width)])
    [] OTHER -> EncodeTo(Type(code), text)
DeviceBytes(t, v) ==
  CASE t.code = "BOOL" -> LittleEndian(IF v THEN 2 ^ t.position ELSE 0, 2)
    [] t.code = "STRINGN" -> DeviceText("STRINGN", v)
    [] t.code = "STRINGI" ->
         <<Len(v)>> \o FlattenSeq([i \in DOMAIN v |->
           v[i][1] \o EncodeSegment(FALSE, v[i][2]) \o LittleEndian(v[i][3], 2)
             \o DeviceText(StringTypes[v[i][2].type.code], v[i][4])])
HeardAs(t, v) == IF t.code = "STRINGN" THEN v.letters ELSE v

OpenedFieldsOf(serial) ==
  <<OtoTNetworkConnectionID(serial), TtoONetworkConnectionID(serial), serial, VendorID,
    OriginatorSerialNumber, RPI, RPI>>
ClosedFieldsOf(serial) == <<serial, VendorID, OriginatorSerialNumber>>
DeviceAnswer(serial, opening, data) ==
  (IF opening
     THEN LittleEndian(OtoTNetworkConnectionID(serial), 4) \o LittleEndian(TtoONetworkConnectionID(serial), 4)
            \o LittleEndian(serial, 2) \o LittleEndian(VendorID, 2) \o LittleEndian(OriginatorSerialNumber, 4)
            \o LittleEndian(RPI, 4) \o LittleEndian(RPI, 4)
     ELSE LittleEndian(serial, 2) \o LittleEndian(VendorID, 2) \o LittleEndian(OriginatorSerialNumber, 4))
    \o <<Len(data) \div 2, 0>> \o data

NullSenderContext == [i \in 1 .. 8 |-> 0]

PCCCPacket(i) == EncodeCommand(i.function.command, 0, i.transaction, FunctionBytes(i.function))

(* The bytes of an item, and the size announced for them.                    *)
Bytes(i) ==
  CASE i.kind = "path" -> EncodePath(i.padded, i.path)
    [] i.kind = "value" -> EncodeTo(i.type, i.value)
    [] i.kind = "heard" -> DeviceBytes(i.type, i.value)
    [] i.kind = "request" -> EncodeRequest(i.request)
    [] i.kind = "unconnected" -> UnconnectedSend(i.request, i.route)
    [] i.kind = "open" -> ForwardOpen(i.options)
    [] i.kind = "close" -> ForwardClose(i.options)
    [] i.kind = "rr" -> EncodeDataMessage(SendRRData, i.session, NullSenderContext, 0, EncodeUCMM(i.message))
    [] i.kind = "unit" -> EncodeDataMessage(SendUnitData, i.session, NullSenderContext, 0, EncodeConnected(i.id, i.message))
    [] i.kind = "answer" -> DeviceReply(Reply(MultipleServicePacket, i.status, <<>>, DeviceReplies(i.replies)))
    [] i.kind = "answered" -> DeviceAnswer(i.serial, i.opening, i.data)
    [] i.kind = "pccc" -> PCCCPacket(i)
    [] i.kind = "execute" -> EncodeRequest(ExecutePCCC(PCCCPacket(i)))
    [] i.kind = "pccc reply" -> DevicePacket(i)
    [] i.kind = "elements" -> DeviceArray(i.type, i.values)

Announced(i) ==
  CASE i.kind = "path" -> PathSize(i.padded, i.path)
    [] i.kind = "value" -> EncodeSize(i.type, i.value)
    [] i.kind = "request" -> RequestSize(i.request)
    [] i.kind = "unconnected" -> UnconnectedSendSize(i.request, i.route)
    [] i.kind = "open" -> ForwardOpenSize(i.options)
    [] i.kind = "close" -> ForwardCloseSize(i.options)
    [] i.kind = "pccc" -> 4 + FunctionSize(i.function)

(* A segment of data whose array's bounds need two bytes, an array of uneven *)
(* elements, a request without a path: known faults of the announced size.   *)
Misjudged(i) ==
  CASE i.kind = "path" -> \E j \in DOMAIN i.path : i.path[j].kind = "type" /\ WideBounds(i.path[j].type)
    [] i.kind = "value" -> Uneven(i.type, i.value)
    [] i.kind \in {"request", "unconnected"} -> Pathless(i.request)
    [] OTHER -> FALSE

(* What the reader makes of the bytes, and what it should make of them.      *)
Understood(i) ==
  LET b == Bytes(i)
  IN  CASE i.kind = "path" -> DecodePath(b, i.padded)
        [] i.kind \in {"value", "heard"} -> DecodeTypedData(b, 1, i.type).value
        [] i.kind = "request" -> ReadRequest(b)
        [] i.kind = "unconnected" -> ReadUnconnectedSend(b)
        [] i.kind = "open" -> ReadForwardOpen(b, IsLarge(i.options))
        [] i.kind = "close" -> ReadForwardClose(b)
        [] i.kind \in {"rr", "unit"} -> LET p == FromBuffer(b) IN [session |-> p.session, items |-> p.items]
        [] i.kind = "answer" ->
             LET outer == DecodeResponse(b, 1, {MultipleServicePacket})
             IN  IF IsError(outer.status) THEN <<Rejected>>
                 ELSE MultiCreateDataHandler(outer.data, [j \in DOMAIN i.replies |-> i.replies[j].service])
        [] i.kind = "answered" -> OpenReply(b, IF i.opening THEN OpenedFields ELSE ClosedFields)
        [] i.kind = "pccc" -> ReadCommand(b)
        [] i.kind = "execute" -> FromBufferRequest(b)
        [] i.kind = "pccc reply" -> FromBufferReply(b)
        [] i.kind = "elements" -> ParseTypedReadData(b)

Meant(i) ==
  CASE i.kind = "path" -> i.path
    [] i.kind = "value" -> i.value
    [] i.kind = "heard" -> HeardAs(i.type, i.value)
    [] i.kind = "request" -> ToRead(i.request)
    [] i.kind = "unconnected" -> [request |-> EncodeRequest(i.request), route |-> i.route]
    [] i.kind = "open" -> i.options
    [] i.kind = "close" -> [serial |-> i.options.serial, route |-> i.options.route]
    [] i.kind = "rr" ->
         [session |-> i.session, items |-> <<[type |-> NullAddress, data |-> <<>>],
                                            [type |-> UnconnectedMessage, data |-> i.message]>>]
    [] i.kind = "unit" ->
         [session |-> i.session, items |-> <<[type |-> ConnectedAddress, data |-> LittleEndian(i.id, 4)],
                                            [type |-> ConnectedMessage, data |-> i.message]>>]
    [] i.kind = "answer" -> i.replies
    [] i.kind = "answered" ->
         [fields |-> IF i.opening THEN OpenedFieldsOf(i.serial) ELSE ClosedFieldsOf(i.serial), data |-> i.data]
    [] i.kind = "pccc" -> ToReadCommand(i.transaction, i.function)
    [] i.kind = "execute" ->
         [vendorID |-> PCCCVendorID, serialNumber |-> PCCCSerialNumber, command |-> i.function.command,
          transaction |-> i.transaction, data |-> FunctionBytes(i.function)]
    [] i.kind = "pccc reply" ->
         [command |-> ReplyCommand, status |-> i.status, transaction |-> i.transaction, extended |-> i.extended,
          data |-> i.data]
    [] i.kind = "elements" -> i.values

(* The items not understood as meant: known faults of the code.  A path or a *)
(* route with a byte left over is counted in whole words; a flag is read     *)
(* from one byte; a string's width is ignored; of several replies each but   *)
(* the last runs on into the next, and none is read when one has failed; and *)
(* PCCC elements of a type the library does not know are never read to the   *)
(* end.                                                                      *)
OddRequest(r) == Len(Present(r.path)) % 2 = 1
Lossy(i) ==
  CASE i.kind = "path" -> \E j \in DOMAIN i.path : LossySegment(i.path[j])
    [] i.kind = "value" -> LossyValue(i.type, i.value)
    [] i.kind = "heard" ->
         CASE i.type.code = "BOOL" -> i.value /\ i.type.position > 7
           [] i.type.code = "STRINGN" -> i.value.width # 2
           [] OTHER -> FALSE
    [] i.kind = "request" -> OddRequest(i.request)
    [] i.kind \in {"unconnected"} -> Len(i.route) % 2 = 1
    [] i.kind \in {"open", "close"} -> Len(i.options.route) % 2 = 1
    [] i.kind = "answer" -> IsError(i.status) \/ Len(i.replies) > 1
    [] i.kind = "elements" -> i.type \notin DOMAIN ElementSize
    [] OTHER -> FALSE

(* Every encoder announces, and allocates, exactly the bytes it then writes, *)
(* for every item but the known faults: a size too small throws or cuts, one *)
(* too large sends bytes that were never written.                            *)
SizesAreExact ==
  item.kind \in {"path", "value", "request", "unconnected", "open", "close", "pccc"} =>
    (Announced(item) = Len(Bytes(item)) <=> ~Misjudged(item))

(* What is written is read back, by the code or by a device, as what was     *)
(* meant, for every item but the known faults, which are all mistaken.       *)
RoundTrips == ~Misjudged(item) => (Understood(item) = Meant(item) <=> ~Lossy(item))
=============================================================================
