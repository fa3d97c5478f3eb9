# node-drivers in TLA+

node-drivers talks to industrial controllers (Modbus TCP, EtherNet/IP with CIP,
Logix5000, PCCC) from Node.js. A program stacks *layers*: each layer object
queues the messages of the layer above it, sends them through the layer below,
and matches replies to the callbacks of the promises the program awaits. This
directory holds TLA+ modules for those layers, TLC runs over them, and TLAPS
proofs. Line numbers below refer to `src/src/` unless they say otherwise.

## 1. The system

Everything runs on one event loop, so a callback is atomic. What makes the code
hard is the order of callbacks: replies, socket events, `setImmediate`s, timers
and promise continuations interleave in every way, and many of them outlive the
object they were made for.

| Component | State it keeps | Operations | Talks to |
|---|---|---|---|
| `defragger.js` | `_data`, `_dataLength` | `defrag` | called by `Layer.forwardTo` |
| `queue.js` | a normal and a priority FIFO | `enqueue`, `dequeue`, `peek`, `size`, `clear` | one per layer |
| `layers/Layer.js` | `__contextToCallback`, `__idContext`, `__context`, `_queue`, `_defragger`, `upperLayer`, `lowerLayer` | `send`, `forward`, `close`, `destroy`, `contextCallback`, ... | base of every layer |
| `layers/tcp` | `_connectionState`, `socket`, `_disconnect` | `connect` (implicit in sending), `disconnect`, `sendNextMessage`, socket listeners | Node's `net` |
| `layers/udp` | `_listening`, `_settingUp`, `socket` | `setup`, `sendNextMessage`, `disconnect` | Node's `dgram` |
| `layers/modbus` | `_transactionCounter`, contexts by transaction | reads and writes, `handleData` | TCP |
| `layers/cip/layers/EIP` | session state and handle, sender contexts, user callbacks and requests | `connect`, `disconnect`, `listIdentity` and others, `handleData` | TCP or UDP |
| `internal/CIPConnectionLayer.js` | `_connectionState`, `_sequenceCount`, `sendInfo`, the resend interval, contexts by sequence count | ForwardOpen, ForwardClose, connected and unconnected messages | EIP |
| `internal/CIPInternalLayer.js` | contexts of requests | `sendRequest`, `exploreAttributes`, PCCC forwarding | CIP connection |
| `Logix5000` | symbol, template and tag caches | tags: list, read, write, read-modify-write; templates | CIP internal layer |
| `layers/pccc` | `_transaction`, contexts by transaction | typed and word reads and writes, diagnostics | CIP internal layer |
| `extras/MultiplexLayer.js` | `__contextToLayer` | routing of replies | any |
| `cip/core`, `core/modbus` | none (serial counters in `ConnectionManager.js`) | encoding and decoding of paths, requests, data types, objects | all |

How they interact: `Layer.send` puts a message in the queue of the *lower* layer
and calls its `sendNextMessage`, which opens what has to be opened (a socket, a
session, a connection) or sends one message and schedules itself again.
Replies go up by `forward`, through the defragger of the layer that has one, to
`handleData`. `destroy` walks up first and then clears: callbacks are called
with the error, contexts and queue are dropped, `handleDestroy` resets the
rest. `close` walks up too, but in steps: it awaits the `close` of the layer
above, then `disconnect`, and only then clears this layer (`Layer.js:115-124`).
Continuations of the promises that one step rejects run before the next one, and
may call the layers that are half closed.

What makes each component correct, and where it is hard:

- **Reassembly.** Each frame is handed up once, whole and in order, however the
  stream is cut. Hard: several frames in a chunk, a connection that dies inside
  a frame.
- **TCP layer.** Connection state and sockets agree; no illegal transition; a
  message is written at most once and only for a request still awaited. Hard:
  `timeout`, `end`, `error`, `close`, connect and `end()` callbacks of sockets
  that were replaced or given up.
- **Request and reply** (Modbus, CIP, PCCC). A request is settled once, by its
  own reply or by an error. Hard: wrapping identifiers, failures with requests
  in every stage, callbacks that issue requests.
- **CIP connection.** The layer and the device agree on the connection; opening
  it always ends; nothing is left open. Hard: the fallback from
  LargeForwardOpen, the recovery from a duplicate, closing while opening, the
  keep-alive.
- **EtherNet/IP session.** Registered before anything else is sent; user
  requests get their own replies. Hard: refused registration, broadcast
  replies, reuse after destroy.
- **Logix5000.** Paged lists and fragmented reads return every item once; caches
  agree with the controller.
- **Codecs.** Decoding inverts encoding, lengths are what headers say, numbers
  keep to their width.

`PROJECT.json` lists the hazards line by line under `hazards`.

## 2. Modules

| Module | Models | Rests on |
|---|---|---|
| `Framing` | `Defragger.defrag`, `Layer.forwardTo`, over successive connections | |
| `FramingProofs` | theorems about `Framing` | `Framing`, TLAPS |
| `RequestQueue` | `queue.js` | |
| `TcpLayer` | `TCPLayer` with the parts of `Layer` it inherits, and Node's sockets | `RequestQueue` |
| `ModbusLayer` | the Modbus layer, the program and the device, composed with `TcpLayer` | `TcpLayer` |
| `CipConnection` | `CIPConnectionLayer`, `CIPInternalLayer.sendRequest` and the device | |
| `EipSession` | the EtherNet/IP layer on TCP: session, requests in it, list requests, composed with `TcpLayer` | `TcpLayer` |
| `UdpIdentity` | `UDPLayer`, and `listIdentity` of the EtherNet/IP layer on it | |
| `LogixTags` | every method of the Logix5000 layer, over a `sendRequest` that answers or fails | |
| `RequestService` | the abstract promise: a request is settled once, with its own reply or an error | |
| `EPathCodec` | segments and paths: sizes, encoding, decoding | |
| `TypeCodec` | CIP data types: sizes, encoding, decoding | `EPathCodec` |
| `MessageCodec` | CIP requests and replies, Connection Manager services, encapsulation packets | `TypeCodec` |
| `PcccCodec` | PCCC packets and the Execute PCCC request | `MessageCodec` |
| `Codecs` | what a program makes with the codecs, item by item | `PcccCodec` |
| `LogixProofs` | theorems about `LogixTags` | `LogixTags`, TLAPS |
| `TcpProofs` | lemmas about every step of `TcpLayer` | `TcpLayer`, TLAPS |
| `ModbusProofs` | theorems about `ModbusLayer` | `ModbusLayer`, `TcpProofs` |
| `EipProofs` | theorems about `EipSession` | `EipSession`, `TcpProofs` |
| `CipProofs` | theorems about the connection of `CipConnection` | `CipConnection`, TLAPS |
| `CipServiceProofs` | theorems about the requests of `CipConnection` | `CipProofs` |
| `IdentityProofs` | theorems about `UdpIdentity` | `UdpIdentity`, TLAPS |
| `MCFraming`, `MCModbus`, `MCCip`, `MCEip`, `MCIdentity`, `MCLogix`, `MCCodecs` | constants for TLC | |

**Framing.** A byte is its offset in everything the layer ever receives; `start`
and `recv` delimit `Defragger._data`. One action per turn of the `while` loop
(`Cut`) and one for its end with the hand-over (`HandOver`). `torn` and
`ReadLengths` say which length the handler reads when the head of the buffer is
not a header of the current connection. `HeaderLength` and `LengthFieldEnd` are
7 and 6 for Modbus, 24 and 4 for EtherNet/IP.

**TcpLayer** gives each socket a number and a phase, so that the events of a
socket that was replaced are still delivered as long as the layer's listeners
are on it. Its operators describe what one callback does to this layer; the
module for the layer above conjoins what the same callback does there.
`SocketFailureAndResend` is the case of an error callback that issues a request
while `destroy` is on the stack. `Layer.close` is three actions and `due`, the part of
it that the microtask queue holds: `CloseCalled`, in which the layer above begins
to close; `CloseDisconnects`; and `CloseDestroys`, which destroys whatever socket
is `this.socket` by then. A connected layer awaits the `end()` callback in between
(`closing`); when that comes, or when the socket dies first, the rest runs at once or is
`due`, if there are continuations to run before it. While a part of `close` is due
no callback of the event loop runs, but the program may call: those are the
continuations of promises that were settled before.

**ModbusLayer** has one action per callback of the event loop: a request issued,
a chunk of replies, a failure, connect, close and `end()` callbacks, a
`setImmediate`, a step of `close`, and the program's calls of `close` and
`disconnect`. `CloseLayers` rejects what is on file, and requests may be issued
before `Disconnects` and again before `Destroys`. Messages
are a transaction identifier with the request they belong to, which is what
lets `ImplementsService` tell a request's own reply from another's.

**CipConnection** keeps the fields of the layer in one record, because handlers
call each other (`sendNextMessage` calls `connect`, the callback of `connect`
calls `sendNextMessage` or `destroy`): a handler is an operator from record to
record. EtherNet/IP and TCP are external: they deliver in order until a session
fails, and a failure is `destroy` of this layer. A close is `CloseLayers`, where
the layer above rejects its requests, `Disconnects`, `Destroys` and, for all that
the layers below do after that, `BelowClosed`; requests may be issued before each of
them. What is handed down after `Disconnects` ended the session is answered by nobody. The device answers
ForwardOpen with success, "duplicate" (it still holds the serial number, from
an earlier process), "service not supported" (LargeForwardOpen) or a refusal.
Two fields are history: `overlap` remembers that a ForwardOpen was sent while
another internal request was unanswered, and `misnamed` that the ForwardClose
after a duplicate named another connection than the duplicate, see section 4.

**EipSession** keeps the fields of the layer in one record, as `CipConnection`
does; its field `hand` collects what a handler gives to `Layer.send`, and the
same action hands it to `TcpLayer` (`SendEach`, `DataEventAndSend`), which
contributes the socket's side. The layer above is its requests: what matters to
this layer is whether one goes out on a connection (`SendUnitData`) or under a
sender context (`SendRRData`). The device names a session after the socket it
came on, so a message sent with the handle of a dead session can be told from
one sent in its own. A close is five steps: the layers above reject (`CloseLayers`), this layer sends its
UnregisterSession (`UpperDisconnects`) and clears itself (`UpperDestroys`), then TCP
does the same (`Disconnects`, `Destroys`); calls may come before each of the last
four. `incidents` records what the layer does not recover from.

**UdpIdentity** keeps fields and sockets of the UDP layer in one record.
`setup` is an async function; `waiters` counts the calls that await the promise
of a socket on its way. The network may lose, repeat and reorder answers.

**LogixTags** gives each call a stack of frames, one per function that awaits
another: a frame has its function, where it awaits (`at`) and its variables. One
function runs to its next `await` in one step (`Run`), what can run does so
before the next reply (`Quiet`), as continuations run before the event loop
goes on. A tag is the sequence of its parts, a symbol is its instance. The
device pages, fragments and refuses as it likes, which also stands for a timeout
and for layers destroyed.

**Codecs.** `EPathCodec`, `TypeCodec`, `MessageCodec` and `PcccCodec` translate
encoders and decoders as operators on sequences of bytes; where the library only
encodes, a `Read...` operator says what a device reads, and where it only
decodes a `Device...` operator says what a device writes. `Codecs` is the machine that
builds items of them; its `Misjudged` and `Lossy` list the items that the
library gets wrong, and both properties are equivalences, so that an item on
the list that came out right would fail as well. These modules use `RECURSIVE`
operators and carry no proofs.

**Faulty forms.** Next to some definitions stands a faulty form of it, such as
`CutPastEnd` next to `Cut`: the same code with a plausible mistake. Nothing uses
them in the specifications. `PROJECT.json` pairs each property of the passing
runs with a faulty form that violates it, which shows that the property says
something about that code.

### Plan

The order is that of importance to a program: what every protocol rests on
first, then the connections, then the drivers on top.

1. Done: `Framing` and its proofs, `TcpLayer` with `ModbusLayer`,
   `RequestService`, `CipConnection`.
2. Done: `EipSession` on `TcpLayer`, a third user of `RequestService`;
   `UdpIdentity`.
3. Done: `LogixTags`.
4. Done: the codecs of CIP, EtherNet/IP and PCCC.
5. Done, proofs: `FramingProofs`; `TcpProofs` with `ModbusProofs` and
   `EipProofs`; `IdentityProofs`; `CipProofs` and `CipServiceProofs`;
   `LogixProofs`.
6. Next: `CipConnection` on `EipSession` in place of its external session, with
   one request each, since both together have too many states for more; the
   device's watchdog on the layer's own connection.

## 3. The runs

| Run | Question | Size |
|---|---|---|
| `framing` | one request at a time, every chunking, two connections | 800 states |
| `framing_coalesced` | the same with pipelined requests: a frame is lost | violation |
| `framing_residue` | the same across a connection that died inside a frame | violation |
| `modbus` | three requests, three sockets, every failure, call and step of close | 169 000 states |
| `modbus_resend` | a request issued by an error callback is settled in the end | violation |
| `cip` | three requests, two sessions, every answer of the device, every step of close | 1 809 000 states |
| `cip_resend` | a keep-alive is sent on a connection | violation |
| `eip` | two requests and a list request, two sockets, refusals, errors, every step of close | 1 344 000 states |
| `identity` | two `listIdentity` calls, two devices, four sockets, close and disconnect | 262 000 states |
| `logix` | any two methods at once, any page, chunk and refusal | 284 000 states |
| `logix_lookup` | what is asked about a symbol is asked about the one that was named | violation |
| `codecs` | every item at the edges of its widths | 273 000 states |

Bounds and why they are enough:

- `framing`: frames of 2 and 3 bytes over a header of 2 give chunk boundaries
  before, in and after the header and the length field; 8 bytes hold three
  frames, so a chunk can hold the end of one, a whole one and the start of the
  next; two connections let one die in every phase.
- `modbus`: three requests leave one queued, one written and one issued late;
  three sockets let a forgotten one act on its successor and its successor's
  successor; four identifiers, starting two below the limit, wrap without
  running out, as 65536 do in the code; two replies share a chunk. No pending
  identifier comes up again, here or in the runs of the layers above TCP: that is the
  hypothesis `NoReuse` of section 5, and the code does not see to it.
- `cip`: two connected requests and an unconnected one; three sequence counts, so
  the count wraps; two sessions, so that everything can fail once and start
  again; eight ForwardOpens, which no behaviour of this size needs in full. The
  layer starts with the large connection and the device does not know
  LargeForwardOpen, so the fallback always runs, and with it the small one. The
  device holds the two connections asked for next, so two duplicates can follow
  each other; it may drop either at any time, which gives one duplicate and none.
  One reply is lost at most, since a layer that lost one may lose them all. One
  close runs at a time.
- `eip`: both requests under sender contexts or one of them connected; a list
  request that can find no session, one on its way, or one; two sockets, so that
  a session can die and another follow. A sender context is two bytes of two
  values and starts one below the carry; four contexts do not run out, as
  2^64 do in the code. With one list request, that one reply settles all calls that
  wait for its command is modelled (`ListReply`) but not exercised.
- `identity`: a call that names two devices, so that `setup` runs twice at once,
  and a broadcast; four sockets let each of the two be given up and replaced;
  two disconnects let one come while a socket binds and another after.
- `logix`: fourteen operations, one or more for each method, two at a time, so
  that two calls share a cache that is being filled. The controller has a
  scalar, a structure with a structure inside, a program, and one symbol of the system;
  a tag of five bytes where two fit takes three fragments; `MAX_RETRY` is 1
  instead of 5, which leaves a retry that succeeds and one that gives up.
- `codecs`: values on both sides of 1, 2 and 4 bytes, odd and even
  lengths, port numbers on both sides of 15, every kind of segment and data
  type the models cover; paths of two segments, packets of two requests; PCCC
  transactions 0 and 65535, one function or element of each shape.

Fairness. `Framing`: received bytes are delivered and `defrag` terminates.
`ModbusLayer`: due callbacks and the steps of a close that was called run; a connection attempt succeeds or fails, since
`connectTimeout` is 3000 ms unless the program says 0; the device answers or the
connection fails. `CipConnection`: due callbacks and steps of a close run, the
device takes what is sent, and the 5000 ms timer of `disconnect` fires; nothing is
assumed of the close of the layers below (`BelowClosed`). `EipSession`: due
callbacks and steps of a close run, a connection attempt ends, the device takes what it is sent and
answers what has an answer. `UdpIdentity`: the timers of `listIdentity` fire and a
bind succeeds or fails; nothing is assumed of the network. `LogixTags`: functions
run when they can, and every request is answered or fails. No run assumes that the
program calls anything, or that anything fails. All conditions are weak but
that last one: a reply that is due waits while functions of other calls run, so
weak fairness would let it wait for ever.

`CHECK_DEADLOCK FALSE` in every run: a program that has issued all its requests
and closed its layers is done.

## 4. What the checks show

*Reassembly.* A caller that awaits each reply gets every frame, once, whole, in
order (`framing`), until a connection dies inside a frame. Two findings limit
this. `defrag` returns only the last complete frame of a chunk, so pipelined
replies that TCP delivers together are lost (`framing_coalesced`). And nothing
empties the buffer when a connection dies, so the next connection's first frame
is read behind the remains of the last one's (`framing_residue`).

*TCP and Modbus.* `modbus` checks that each request is settled at most once and
by its own reply (`ImplementsService`, a refinement of `RequestService`), that
no request is forgotten (`PendingIsFiled`, `PendingIsUnderWay`,
`RequestsSettle`), that nothing is written for a request already rejected, that
the connection state tells the truth about the sockets and that no order of
callbacks makes `setConnectionState` throw. The exceptions are in the formulas
and are real; each has its own trace through the code:

- `stranded`: a request issued while TCP disconnects or between two steps of
  `close`. After the rejection by the Modbus layer (`Layer.js:29-31`) a `catch` that
  retries files its callback anew and queues its message; TCP's `internalDestroy`
  then empties the queue, not the callbacks above it, and nothing settles the retry.
- `discarded`: a reply dropped by the defragger.
- A write in the same gap (`NothingSentAfterRejection`): TCP is still connected
  while its `disconnect` is due, so the retry makes `sendNextMessage`
  (`tcp/index.js:225`) write what is at the head of the queue, which may belong to a
  request just rejected.
- `strayed`: a live socket is left with listeners. A bare `tcpLayer.disconnect()`
  of a connecting layer does that, a request issued by an error callback, and a
  request issued between the `disconnect` of a close, which left state 0, and its
  `internalDestroy`: it opens a socket, which `internalDestroy` destroys in place of
  the one in use, and the state stays connecting. While closing, a layer with a
  stray socket may also write for a rejected request; that takes four requests and four
  connections, more than the run has, and was found by the proof that needed it.
  `StateMatchesSocket` says nothing of the moment between those two steps, when
  the socket of the connection is still to be destroyed.

`modbus_resend` shows what becomes of a request issued by an error callback: it is
lost, because `destroy` goes on to empty the queue and destroy the socket that it
just got.

*CIP connection.* `cip` checks that opening and closing always end unless a
reply is lost (`ConnectingEnds`, `CloseEnds`), that a layer which takes itself
for connected is (`ConnectionIsOpen`), that the queue is always driven, that an
unsettled request still has a way back (`PendingHasRoute`) and is settled in the
end (`RequestsSettle`), and the same refinement. `stranded` are requests issued
while the layers close: in any step of it, or while the ForwardClose is out. Before
`disconnect` the layer takes such a request as ever, so
`NothingSentAfterRejection` excepts what it sends then: in state 2 the head of the queue
(`CIPConnectionLayer.js:467-475`), which the layer above may have rejected. After
`disconnect` the layer is in state 0, so the request opens a connection on layers that are
closing, and it stays connecting for ever: `lost` stands for this as for a lost
reply. `ConnectionIsOpen` excepts a layer that waits for the reply to a
ForwardClose: a ForwardOpen that overtakes the ForwardClose of a recovery brings
it back to connected for a moment. `PendingHasRoute` and `RequestsSettle` except
`misnamed`: the ForwardClose after a duplicate names the last connection asked
for (`CIPConnectionLayer.js:326` uses the module's counter), so when a second
ForwardOpen was sent in the meantime the layer closes the connection that it
goes on to use, and a request on it is never answered; two serial numbers left
at the device are enough. `NoLeakedConnection` and `NothingSentAfterRejection` except the
`overlap`: the callback of a failed ForwardOpen sets state 0 before it sends
the ForwardClose of the recovery, so a request issued in between opens another
connection, and the recovery opens a third that nothing ever closes; and a
fallback whose ForwardOpen fails after `disconnect` was called connects while
the layers close. `cip_resend` shows the keep-alive interval sending the last
message, without a connection, after the connection is gone.

*EtherNet/IP session.* `eip` checks that a layer which believes in a session
has one at the device, on the open connection and under the handle it sends
(`SessionIsRegistered`), that what is sent is taken in its own session
(`OnlyInSession`), and that calls are settled once, by their own reply, and
in the end (`ImplementsService`, `PendingHasRoute`, `RequestsSettle`). The
exceptions are the `incidents`: a refused registration leaves the queue with
nothing that would send it; a reply to RegisterSession that comes after the
layer was closed puts it in state 2 on a connection that is going (`registered late`); a
call made while TCP ends, or between two steps of a close, is cleared with its
callback on file or leaves the layer in state 1, from which only `destroy` leads (`called
while closing`); and one made before the last step opens the socket that this step
destroys, in place of the one in use (`strayed`). `OnlyInSession` excepts a call of
the first kind as well: TCP may write what it has queued behind the
UnregisterSession of the close. A list request that is waiting when the layers above
close is rejected two steps later, by this layer's own `internalDestroy`. A connected request answered with an error status is logged and forgotten
(`dropped`). Two more behaviours are in the model and violate nothing stated: a
SendRRData reply with an error destroys this layer and those above it but not
the TCP connection, on which the device then refuses the second registration;
and one reply settles every callback that waits for its command.

*listIdentity.* `identity` checks that each call ends, that a listening layer
has the socket it sends on, and that a queued request has something coming that
will send it. `mislaid` excepts `setup` calls that create several sockets at
once, of which only the last is kept: those that waited together for a socket
that failed; and a socket given up while it binds, whose promise nothing
resolves. In the model as in the
code the reply handler is removed after the first identity, so a call with several
hosts that is answered by one gets that one; and a call whose timer fired leaves
its callback behind, which takes the next reply.

*Logix5000.* `logix` checks that `listTags` yields every symbol of its scope, in
order and once, whatever pages and refusals it meets (`ListIsComplete`), that a
template in the cache is its whole definition (`TemplateIsWhole`), and that
calls end (`CallsEnd`). `ListIsComplete` excepts a list that MAX_RETRY refusals
in a row cut short, which ends like a complete one. `CallsEnd` excepts a read
of more than one fragment: the offset is the length of the last fragment and
not the sum, so the third fragment is read from the wrong place, and the loop
may go on for ever. Calls that no one settles end as `lost` in the model: an
exception in the callback of `readTemplateClassAttributes`, and `writeTag` of a
type it cannot encode. `logix_lookup` shows the caches of symbols answering for
the wrong tag: the arrow function in `scopedGenerator` reads the `arguments` of
the function around it, so the scope is the whole key. `readTag` given a number of
elements that is not empty always rejects, and `readModifyWriteTag`'s
validation compares arrays by identity; both are in the model.

*Codecs.* `codecs` checks that every encoder announces the size it writes
(`SizesAreExact`) and that what is written is read back (`RoundTrips`). Known
exceptions, each checked to be one:

- sizes: a data type segment with an array whose bounds exceed 255; an array
  whose elements differ in size, or whose count is not that of its bounds; a
  request without a path;
- meaning: characters above 127; wide symbols of more than 31 characters; the
  major revision of an electronic key above 127; a request path or a route
  with an odd number of bytes, which is counted in words; BOOL at bit position 8 and
  above; STRINGN of a width other than 2; of several replies in one packet all
  but the last, which run on into the next; and all of them when the packet's
  status is an error.

Two cases are no items because the code does not get through them: a PCCC reply
with an element of an unknown type makes the decoder's loop run for ever
(`pccc/decoding.js:83`, hazard), and a typed write of floats, or to an address
whose letter has no type id, throws (`pccc/encoding.js:71` takes an object for
its offset). `FunctionValid` and `Describable` say so.

## 5. What is proved

`FramingProofs` proves, for every frame length, header length, buffer bound and
number of connections, by `tlapm`:

- `TypeCorrect`: `Spec => []TypeOK`;
- `BytesHandedUpOnce`: `Spec => []NoByteTwice`;
- `SlicesAreFrames`: `Spec => []WholeFrames`;
- `LockStepLosesNothing`: with `LockStep`, `Spec => []NoFrameLost`;
- `SlicesInOrder`: `Spec => InOrder`.

They rest on the named assumptions of `Framing` only. None of these invariants
is inductive. `IInv` adds that frames of the peer do not overlap and tile the
stream since the connection began; that every slice handed up, or held in
`defragged`, ends at or before `start`, and that the slice held begins behind
those handed up; that while no connection died inside a frame the head of the
buffer is the beginning of a frame; and that in lock step the frames cut off
are handed up or held. The proof has one lemma per action and one
step per conjunct that the action can disturb.

`LogixProofs` proves, for every controller, every set of operations, any number
of calls at once and any retry limit:

- `TypesStay`: `Spec => []TypeOK`;
- `ListsAreComplete`: `Spec => []ListIsComplete`;
- `TemplatesAreWhole`: `Spec => []TemplateIsWhole`.

They rest on `LogixAssumption` and `OperationsAssumption`. None of the three is
inductive, and one invariant, `IInv`, carries all. `CallsOK` says of every stack
that each frame is one of its function's; that only a lookup, which returns an id
or none, is ever above `getSymbolInfo` and `readSymbolAttributeList`, and nothing
above a list; and that a reply on the top of a stack answers the request of the frame
that is there. The last needs that no exception is lost under a caller: `writeTag`
and `readTemplateClassAttributes`, from which one may escape, are never called by
others. For a `readTemplate` the invariant adds that it has gathered exactly the
beginning of the definition up to its offset. `CachesOK` gives the caches
their types and whole templates. `ListsOK` relates what a `listTags` has yielded to
the frame that yields it: followed by what the next page is asked from, it is the
whole list.

Four lemmas say what awaiting, calling, going on and ending do to a stack, one
lemma per function uses them, `ChunkFacts` and `PageFacts` say what a chunk and a page
leave to ask for. Lists are in the order of ids, which `InOrder` defines as the increasing
enumeration of a set, because nothing is known to the prover of the sorting and
filtering operators of the community modules; the first lemmas show that a finite
set of numbers has one such enumeration, and that its elements from a number on are
the rest of it after a prefix.

`TcpProofs` says what every operator of `TcpLayer` does to the types of its
variables and to `Sound`: only the last socket is alive and heard, in the phase of
the connection state, unless a close is still to destroy it (`due` is "destroy");
only a layer that closes is disconnecting; and only an open socket has had something
written on it. It has no theorem of its own; both layers above TCP cite its lemmas.

`ModbusProofs` proves, for every set of requests and any number of transaction
identifiers and sockets:

- `ModbusTypes`: `Spec => []TypeOK`; `StateIsTrue`: `Spec =>
  []StateMatchesSocket`; `TransitionsAreLegal`: `Spec => LegalTransitions`;
- `PendingStaysFiled`, `PendingStaysUnderWay`, `RejectedIsNeverSent`,
  `EveryAnswerIsItsOwn`: with `[]NoReuse`, `PendingIsFiled`, `PendingIsUnderWay`,
  `NothingSentAfterRejection` and `ImplementsService`;
- `IdentifiersSuffice`: with `FewRequests`, `Spec => []NoReuse`;
  `FewRequestsAreServed` draws the conclusion.

`NoReuse` says that the next transaction identifier is free when a request
takes it. The code does not see to that: identifiers wrap at 0x10000 and no
request has a timeout, so a program that leaves one request waiting while it
issues 65536 others does reuse it. `FewRequests`, no more requests than identifiers
over the life of the layer, is the simplest reason why it does not happen, and the
one the run is in. `SocketInv` is `TypeOK` and, until `strayed`, `Sound`.
`MessageInv` adds that every message in a queue or on a socket agrees with the
callback on file under its identifier (`Agree`), that what is filed is pending,
and that what was answered was answered with its own reply. What is queued is for a
request still awaited, except from the rejections of a close to its last step
(`Ending`); that a request issued in between is written behind, or instead of, a
rejected one is the exception in `NothingSentAfterRejection`. `WayInv` adds to
`PendingIsUnderWay` that, while a part of a close is due, nothing is awaited but
what was issued since the close began: each step of it may then drop what it drops. `IdentifierInv`, for
`IdentifiersSuffice`, counts: with `n` requests issued since the first identifier
`f`, those in use are the `n` that follow `f`.

`EipProofs` proves, for every set of requests and users, any number of sockets, and
sender contexts of any number of bytes of any number of values:

- `EipTypesHold`: `Spec => []TypeOK`; `SessionIsTrue`: `Spec =>
  []SessionIsRegistered`; `MessagesAreInSession`: `Spec => OnlyInSession`;
- `EveryAnswerIsItsOwn`: with `[]NoReuse`, `ImplementsService`;
- `ContextsSuffice`: with `FewRequests`, `Spec => []NoReuse`;
  `FewRequestsAreServed` draws the conclusion;
- `CallsKeepRoutes`: with `[]NoReuse`, `Spec => []PendingHasRoute`;
  `FewCallsKeepRoutes`: with `FewRequests`, `Spec => []PendingHasRoute`.

`Sound` holds until a call in the last step of a close left a socket behind (`Strayed`).
`SessionInv` adds, until then and until a registration came late, that a message of the layer above is under
way only on the open connection and under a session the device keeps there, and
that the state of the layer follows the messages of registration still under
way (`InOrder`). For the refinement, every message with a sender context carries the request
filed under that context or finds none (`Filed`), and none carries the next one
while a request is unsent (`Fresh`, in `NoReuse`). For `ContextsSuffice` the
contexts are numbered: `Numbers` is built by induction over the bytes, and
`IncrementContext` is shown to be the successor, with the carry and the wrap.
Then the requests unsent are fewer than the contexts ahead (`Ahead`). The
code has 2^64 contexts.

`PendingHasRoute` is not inductive: it says nothing of a layer that waits for a
registration with no call pending, or of a call whose route TCP is about to forget.
`RouteInv` says what each state waits for, until an incident: a layer that registers
has its `RegisterSession` in the queue or on the wire; a layer without a session
has an empty queue; one in a session, with requests queued, has a tick coming
(`Acts`); and a layer whose connection is gone or ending, or that a close has
cleared (`Over`), has neither a session nor a pending call (`Rests`). From its first step on, a
close owes no request of the layer above (`Settled`), and between this layer's
disconnect and its `internalDestroy` nothing makes it act, so only the callbacks of list
requests are left there. `Way` is what is queued or on the wire of the open
connection: nothing written before a reconnect counts, so the proof needs that
every step of TCP keeps what is on it, but for the message the device takes
(`SendNextKeeps`, `SendEachKeeps`, `TakenWay`). `UsersWait`, which no incident ends,
keeps every list request that is not settled among the callbacks a `destroy` rejects.

`IdentityProofs` proves, for every set of calls, hosts and devices and any number of
sockets and disconnects:

- `TypesHold`: `Spec => []TypeOK`;
- `ListenerHasSocket`: `Spec => []ListeningHasSocket`;
- `QueuedRequestIsDriven`: `Spec => []QueueIsDriven`.

`SteadyInv` says that, until sockets were mislaid, the layer is in one of three
states between callbacks: waiting for the one socket it created to bind
(`Connecting`), listening on the socket it sends on, with a tick if something is queued
(`Listens`), or silent with nothing queued and nothing heard (`Idle`).

`CipProofs` proves, for every set of requests, every choice of leftover connections
and sizes, any number of sequence counts above one and any bounds:

- `TypesHold`: `Spec => []TypeOK`;
- `ConnectEnds`: `Spec => []ConnectingEnds`;
- `ConnectedMeansOpen`: `Spec => []ConnectionIsOpen`;
- `QueueIsSent`: `Spec => []QueueIsDriven`.

They are read off `CipInv`, and each needs nearly all of it, because whether the
layer is connected depends on what is under way between it and the device. `Mail`
relates the callbacks on file, the messages sent, the replies and the device's
connections: context numbers and serial numbers of the internal requests are
bounded by the counters and rise together along the way to the device and back (`Numbered`,
`InLine`), a callback belongs to the purpose of the message with its context
(`Matched`), a reply that reports success to a callback on file reports a
connection the device still holds (`Opened`), and a ForwardClose that nothing
waits for any more names an older connection than any the layer uses or may
still learn of (`Spared`). `OnOpen`
is `ConnectionIsOpen`; `Staged` says which callbacks each state waits for;
`Driven` what sends the queue; and `Backed`, until a reply is lost, that a
callback on file has its message or its reply under way. A close interrupts the
last: between its `disconnect` and its `internalDestroy` callbacks are on file whose
session is over. `AtEnd` says what the layer is then, in state 0, and after
it, without callbacks and queue, unless a request was issued there.

`CipServiceProofs` proves, of the same constants, what becomes of the requests:

- `EveryAnswerIsItsOwn`: with `[]NoReuse`, `ImplementsService`;
- `CountsSuffice`: with `FewRequests`, `Spec => []NoReuse`;
  `FewRequestsAreServed` draws the conclusion;
- `RejectedIsNeverSent`: `Spec => NothingSentAfterRejection`;
- `NoConnectionLeaks`: `Spec => []NoLeakedConnection`;
- `RoutesAreKept`: with `[]NoReuse`, `Spec => []PendingHasRoute`;
  `FewRequestsKeepRoutes`: with `FewRequests`, `Spec => []PendingHasRoute`.

`NoReuse` says that no message under way on the connection has the sequence
count that the next request will take. As in the other layers the code does not see to
it: counts wrap at 0x10000 (`CIPConnectionLayer.js:166`) and no request has a
timeout. `WindowInv` says what makes a reply find its own request: the context
on file under the count of a message on the connection is that of its request,
or none (`Agreed`). Since `sequenceCount` restarts with every connection, this
has to be known already when the reply to a ForwardOpen comes in: nothing was sent yet
on a connection of which the layer may still learn (`Unspoken`). What the
keep-alive sends again was sent under the last count (`Repeats`), or is about to
be replaced by the connected message that asked for the connection (`Headed`).
For `CountsSuffice`, `CountInv` counts on each connection: the requests still
to be sent and the counts used are together no more than there are counts.

`RejectedIsNeverSent` needs no hypothesis. `TurnInv` says that a request that waits
in the queue is pending except from the first step of a close to its last, that one still to be sent is
nowhere on the way and in no record of what was sent (`Unsaid`), and that the
layer does one thing at a time (`Orderly`): at most one callback will open
a connection, none while there is one, and a layer that is closing is
disconnecting, or recovers from a duplicate. So nothing sends while the ForwardClose
is out, and between two steps of a close only a request issued there does, the exception
in the property. `Orderly` ends with `overlap`, the other
exception: a ForwardOpen went out with another request of the layer under way.

`NoConnectionLeaks` needs no hypothesis either. `NoLeakedConnection` speaks only of
moments when nothing is under way, so nothing follows from it for the next one.
`LeakInv` says where a connection of the device is accounted for at any
time (`Accounted`), until one of the exceptions: the device holds no connection
but the one of the last serial; a ForwardOpen under way names that serial, is
waited for, and finds the device without a connection; a connection that is
held while the layer waits for a ForwardOpen was granted by a reply that is on
its way; and a layer that is neither connecting nor connected has a ForwardClose of
that serial still on its way to the device. `AtRest` adds that a close whose
`disconnect` found the layer in state 0 has nothing left to account for.

`RoutesAreKept` is about order. The layer forgets the connection its requests are
on when it learns of another, from the reply to a ForwardOpen, or when
the ForwardClose of it goes out. `Ahead` says that every message whose context is
on file is answered before any ForwardOpen that is waited for; `Filled` that every such
message, on the connection the layer sends on, is still owed a reply; `Live` that
the device holds that connection and no ForwardClose on its way names it;
`Untouched` the same of a connection the layer may yet learn of; `Paired` which of the
layer's own callbacks can be on file together, two ForwardOpens at most. `Carried`
is the property itself without the reply: a request is queued, unconnected, or
has a context on file. All this is said outside a close. From its first step to its last the
pending requests are among those issued since (`stranded`), and after `internalDestroy`
nothing of the connection is left (`Blank`), from which the rest starts anew.

The proofs rest on the named assumptions of the modules. `MessagesAssumption` in
`EipSession` says that TCP carries the messages of this layer: `TcpLayer` declares them as a
constant.

Model-checked only: liveness, whose fairness is out of the prover's reach; and the
codecs (`SizesAreExact`, `RoundTrips`), whose operators are recursive, because
segments, types and messages nest: what such an operator computes for every
input needs induction over data, which the prover does not have. Every other
invariant and action property of a passing run is stated by a theorem.

## 6. What is not modelled

- *PCCC layer.* `PcccCodec` has its packets. Its transactions are not modelled:
  over CIP, the only transport the repository has, no reply reaches the layer,
  because the callback in `CIPInternalLayer.js:117` calls `response(data)` without
  the offset it needs, and throws. Nor are the packets of unprotected reads and
  writes and of uploads.
- *Multiplex layer.* Its first message throws: `sendNextMessage` calls
  `incrementContext` with an undefined `this` (`MultiplexLayer.js:17`).
- *CIP internal layer*: `exploreAttributes`, a loop of single requests, and the
  forwarding to a PCCC layer.
- *CIP requests*: the attribute services of `object.js` and `attribute.js`,
  which only make such requests; `GetConnectionData` and `SearchConnectionData`.
- *Values*: floating-point numbers, integers of 8 bytes, and values of 2^31 and
  more, which TLC cannot represent; UNKNOWN, TRANSFORM and PLACEHOLDER, but
  where STRINGI uses them; the items of list replies.
- What throws when it is encoded is no item of `Codecs`: a MemberID above 65535, a
  connection serial number above 65535, the owner bit in the parameters of a
  large connection, a number outside its type's range. `ConvertSymbolToSegments`
  drops the second bracket of a part such as `a[1][2]` before any segment is made.
- `TCPLayer.Scan` and `connected`, the extra callbacks of `disconnect`,
  `Queue.iterate`, `clearContexts` and the timeout of `contextCallback` (no
  caller passes one).
- Tables of constants and declarations of attributes have no behaviour.
  `cip/layers/Modbus.js` and `cip/layers/PCCC.js` are entirely commented out.
- The watchdog of the device ends leftover connections in `CipConnection`, not
  the layer's own.
- In `CipConnection` all that EtherNet/IP and TCP do of a close after this layer's part
  is one step, `BelowClosed`. Requests issued before that step and between the steps
  before it are modelled; what becomes of the layers below when one is, is the
  subject of `stranded` and `strayed` in `ModbusLayer` and of `incidents` in
  `EipSession`. A layer connecting after such a request stays in the model as in the
  code, and is excepted as `lost`.
- Two closes at once, and a callback of a list request that makes another call
  before it returns, while `handleDestroy` is on the stack.
