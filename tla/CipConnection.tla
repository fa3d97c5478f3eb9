---------------------------- MODULE CipConnection ----------------------------
(***************************************************************************)
(* CIPConnectionLayer (layers/cip/layers/internal/CIPConnectionLayer.js):   *)
(* the CIP connection that Logix5000 and the other CIP layers send their    *)
(* requests over, between the requests of the layer above and a device.     *)
(*                                                                          *)
(* The layer's fields are one record, cip, and each callback of the event   *)
(* loop is one action: a handler maps the record it finds to the record it  *)
(* leaves, and calls other handlers the same way the code does.  What the   *)
(* layer hands to the EtherNet/IP layer is the field "sent", in order.  The *)
(* EtherNet/IP layer and TCP are external here: they deliver in order both  *)
(* ways until they fail, and a failure is a destroy of this layer; a reply  *)
(* that belongs to a session that is over reaches nobody.                   *)
(*                                                                          *)
(* A connection is named by the connection serial number of the ForwardOpen *)
(* that asked for it: its connection identifiers are as unique.             *)
(***************************************************************************)
EXTENDS Integers, Sequences, FiniteSets

CONSTANTS
  Requests,        \* bound: requests of the layer above, each issued once
  Connected,       \* those it wants sent connected
  SequenceCounts,  \* 0 .. SequenceCounts - 1; 0x10000 in the code
  LargeOptions,    \* initial values of "large": maximumSize over 511 bytes
  Leftovers,       \* serials the device may hold from an earlier process
  SupportsLarge,   \* the device knows LargeForwardOpen
  MayRefuse,       \* the device may refuse a ForwardOpen
  MayClose,        \* the program may close the layers
  MayLose,         \* a reply that shares a chunk with the next one is lost
  MaxSerial,       \* bound: ForwardOpen requests
  MaxSessions      \* bound: EtherNet/IP sessions

ASSUME CipAssumption ==
  /\ Requests \subseteq Nat \ {0} /\ Connected \subseteq Requests
  /\ SequenceCounts \in Nat \ {0, 1}
  /\ LargeOptions \subseteq BOOLEAN
  /\ MaxSerial \in Nat \ {0} /\ MaxSessions \in Nat \ {0}
  /\ Leftovers \subseteq SUBSET (1 .. MaxSerial)
  /\ SupportsLarge \in BOOLEAN /\ MayRefuse \in BOOLEAN
  /\ MayClose \in BOOLEAN /\ MayLose \in BOOLEAN

VARIABLES
  cip,       \* the fields of the layer
  closing,   \* Layer.close awaits the ForwardClose of disconnect
  due,       \* what is to come of Layer.close otherwise
  toClient,  \* replies on their way
  devConns,  \* serials of the connections the device opened for the layer
  leftover,  \* serials of those it holds from an earlier process
  session,   \* number of the EtherNet/IP session
  outcome,   \* how the promise of each request stands
  answer,    \* the request whose reply settled a request
  lost,      \* history: a reply was lost to a shared chunk, or to a close
  failed,    \* history: a session failed or a close timed out
  stranded   \* history: requests issued while the layers close

history == <<lost, failed, stranded>>
device == <<devConns, leftover>>
vars == <<cip, closing, due, toClient, devConns, leftover, session, outcome, answer,
          lost, failed, stranded>>

None == 0

(* Layer.close after the layer above has closed: disconnect, internalDestroy *)
(* and, "below", the close of the layers below.  The first two are           *)
(* microtasks: no callback of the event loop runs before them, but the       *)
(* program may go on from promises that were settled before, and call.       *)
CloseSteps == {"nothing", "disconnect", "destroy", "below"}
NoMicrotask == due \notin {"disconnect", "destroy"}
SequenceNumbers == 0 .. SequenceCounts - 1
Serials == 1 .. MaxSerial

(* Messages and replies: internal ones carry the context of their callback,  *)
(* unconnected ones that of the request, connected ones a connection and a   *)
(* sequence count.                                                           *)
Open(c) == [kind |-> "open", id |-> c.context, serial |-> c.serial, large |-> c.large]
Close(c) == [kind |-> "close", id |-> c.context, serial |-> c.serial]
Unconnected(r) == [kind |-> "unconnected", request |-> r]
OnConnection(c, seq, r) ==
  [kind |-> "connected", serial |-> c.sendInfo, seq |-> seq, request |-> r]

Messages ==
  [kind : {"open"}, id : Nat, serial : Serials, large : BOOLEAN]
  \cup [kind : {"close"}, id : Nat, serial : 0 .. MaxSerial]
  \cup [kind : {"unconnected", "stale"}, request : Requests]
  \cup [kind : {"connected"}, serial : Serials, seq : SequenceNumbers, request : Requests]

-----------------------------------------------------------------------------
(* The session a message is sent in.  After disconnect the close runs on to  *)
(* the end of the session without a reply in between: what is handed down    *)
(* then is answered by nobody.                                               *)
Current == IF due \in {"destroy", "below"} THEN None ELSE session

(* Layer.send to the EtherNet/IP layer.                                      *)
Hand(c, m) == [c EXCEPT !.sent = Append(@, [session |-> Current, m |-> m])]

(* send(self, false, true, ...): file a callback under the next context.     *)
File(c, purpose) ==
  [c EXCEPT !.context = @ + 1,
            !.callbacks = @ \cup {[id |-> c.context + 1, purpose |-> purpose]}]

(* ConnectionManager.ForwardOpen takes the next connection serial number;    *)
(* "overlap" remembers a ForwardOpen sent with an internal request under way. *)
SendOpen(c) ==
  LET d == File([c EXCEPT !.serial = @ + 1, !.overlap = @ \/ c.callbacks # {}], "open")
  IN  Hand(d, Open(d))
SendClose(c, purpose) == LET d == File(c, purpose) IN Hand(d, Close(d))

(* connect: nothing while connecting, connected or disconnecting.            *)
Connect(c) == IF c.state = 0 THEN SendOpen([c EXCEPT !.state = 1]) ELSE c

(* Faulty forms of SendConnected: the count is never wrapped, never moved    *)
(* on, or the context is filed under the count before it is.                 *)
SendUnder(c, r, seq, filed) ==
  Hand([c EXCEPT !.seq = seq, !.idContext[filed] = r,
                 !.resend = {[seq |-> seq, request |-> r]}],
       OnConnection(c, seq, r))
SendUnwrapped(c, r) == SendUnder(c, r, c.seq + 1, (c.seq + 1) % SequenceCounts)
SendUnderOneCount(c, r) == SendUnder(c, r, c.seq, c.seq)
SendFiledBefore(c, r) == SendUnder(c, r, (c.seq + 1) % SequenceCounts, c.seq)

(* send(self, true, false, ...): the context is filed under the next         *)
(* sequence count, and the message becomes the one the interval sends again. *)
SendConnected(c, r) ==
  LET seq == (c.seq + 1) % SequenceCounts
  IN  Hand([c EXCEPT !.seq = seq, !.idContext[seq] = r,
                     !.resend = {[seq |-> seq, request |-> r]}],
           OnConnection(c, seq, r))

(* Faulty form of SendNext: nothing follows a message sent.                  *)
SendOne(c) ==
  IF c.queue = <<>> \/ c.state \notin {0, 2} THEN c
  ELSE LET r == Head(c.queue)
           d == [c EXCEPT !.queue = Tail(@)]
       IN  CASE c.state = 2 -> SendConnected(d, r)
             [] c.state = 0 /\ r \in Connected -> Connect(c)
             [] c.state = 0 /\ r \notin Connected -> Hand(d, Unconnected(r))

(* sendNextMessage: disconnected, a connected message at the head opens the  *)
(* connection and stays, any other is sent unconnected; connected, whatever  *)
(* is at the head is sent on the connection.  A message sent has another     *)
(* sendNextMessage follow it.                                                *)
SendNext(c) ==
  IF c.queue = <<>> \/ c.state \notin {0, 2} THEN c
  ELSE LET r == Head(c.queue)
           d == [c EXCEPT !.queue = Tail(@), !.ticks = @ + 1]
       IN  CASE c.state = 2 -> SendConnected(d, r)
             [] c.state = 0 /\ r \in Connected -> Connect(c)
             [] c.state = 0 /\ r \notin Connected -> Hand(d, Unconnected(r))

(* Faulty forms of Destroyed: the connection is not reset, or the queue is   *)
(* not emptied.                                                              *)
DestroyedStillConnected(c) ==
  [c EXCEPT !.callbacks = {}, !.queue = <<>>,
            !.idContext = [s \in SequenceNumbers |-> None]]
DestroyedWithQueue(c) ==
  [c EXCEPT !.state = 0, !.seq = 0, !.sendInfo = None, !.callbacks = {},
            !.idContext = [s \in SequenceNumbers |-> None]]

(* internalDestroy: callbacks, contexts and queue are emptied and            *)
(* handleDestroy resets the connection.  The callbacks it calls with the     *)
(* error leave state 0, or destroy the layer once more.  Nothing stops the   *)
(* resend interval.                                                          *)
Destroyed(c) ==
  [c EXCEPT !.state = 0, !.seq = 0, !.sendInfo = None, !.callbacks = {},
            !.idContext = [s \in SequenceNumbers |-> None], !.queue = <<>>]

(* destroy of the layer above: every promise it still owes is rejected.      *)
RejectAll(o) == [r \in Requests |-> IF o[r] = "pending" THEN "rejected" ELSE o[r]]

(* The promise of r, if it is still owed, settled with the reply to "from".   *)
Settle(r, from) ==
  IF outcome[r] = "pending"
    THEN /\ outcome' = [outcome EXCEPT ![r] = "answered"]
         /\ answer' = [answer EXCEPT ![r] = from]
    ELSE UNCHANGED <<outcome, answer>>

Init ==
  /\ cip \in [state : {0}, seq : {0}, sendInfo : {None}, queue : {<<>>},
              idContext : {[s \in SequenceNumbers |-> None]}, callbacks : {{}},
              context : {0}, serial : {0}, again : {FALSE}, large : LargeOptions,
              resend : {{}}, ticks : {0}, sent : {<<>>}, overlap : {FALSE},
              misnamed : {FALSE}]
  /\ closing = FALSE /\ due = "nothing"
  /\ toClient = <<>>
  /\ devConns = {}
  /\ leftover \in Leftovers
  /\ session = 1
  /\ outcome = [r \in Requests |-> "idle"]
  /\ answer = [r \in Requests |-> None]
  /\ lost = FALSE /\ failed = FALSE /\ stranded = {}

-----------------------------------------------------------------------------
(* sendRequest of the layer above, with Layer.send: enqueue, sendNextMessage. *)
Issue(r) ==
  /\ outcome[r] = "idle"
  /\ outcome' = [outcome EXCEPT ![r] = "pending"]
  /\ cip' = SendNext([cip EXCEPT !.queue = Append(@, r)])
  /\ cip'.serial <= MaxSerial
  /\ stranded' = stranded \cup (IF closing \/ due # "nothing" THEN {r} ELSE {})
  /\ lost' = (lost \/ due \in {"destroy", "below"})
  /\ UNCHANGED <<closing, due, toClient, device, session, answer, failed>>

(* The setImmediate after a message sent.                                    *)
Tick ==
  /\ cip.ticks > 0 /\ NoMicrotask
  /\ cip' = SendNext([cip EXCEPT !.ticks = @ - 1])
  /\ cip'.serial <= MaxSerial
  /\ UNCHANGED <<closing, due, toClient, device, session, outcome, answer, history>>

(* The resend interval: the last connected message goes out again, with the  *)
(* connection identifiers the layer has now, or with none.  (Bound: it does  *)
(* not fire while the same message or a reply is under way.)                 *)
Resend ==
  /\ toClient = <<>> /\ NoMicrotask
  /\ \E last \in cip.resend :
       LET m == IF cip.sendInfo = None THEN [kind |-> "stale", request |-> last.request]
                                       ELSE OnConnection(cip, last.seq, last.request)
       IN  /\ \A i \in DOMAIN cip.sent : i > 1 => cip.sent[i].m # m
           /\ cip' = Hand(cip, m)
  /\ UNCHANGED <<closing, due, toClient, device, session, outcome, answer, history>>

-----------------------------------------------------------------------------
(* The device takes the next message.  A reply goes to the session the       *)
(* message came in on.                                                       *)
Reply(x, status) ==
  toClient' = IF x.session = session
                THEN Append(toClient, [m |-> x.m, status |-> status]) ELSE toClient

Held == devConns \cup leftover

(* A ForwardOpen is a duplicate if the device holds a connection with its    *)
(* serial; a large one may be a service the device does not know.            *)
DeviceOpens(x) ==
  \/ /\ x.m.large /\ ~SupportsLarge
     /\ Reply(x, "unsupported") /\ UNCHANGED device
  \/ /\ x.m.large => SupportsLarge
     /\ \/ /\ x.m.serial \in Held
           /\ Reply(x, "duplicate") /\ UNCHANGED device
        \/ /\ x.m.serial \notin Held
           /\ Reply(x, "ok") /\ devConns' = devConns \cup {x.m.serial}
           /\ UNCHANGED leftover
        \/ /\ MayRefuse /\ x.m.serial \notin Held
           /\ Reply(x, "refused") /\ UNCHANGED device

DeviceCloses(x) ==
  /\ Reply(x, IF x.m.serial \in Held THEN "ok" ELSE "refused")
  /\ devConns' = devConns \ {x.m.serial}
  /\ leftover' = leftover \ {x.m.serial}

Device ==
  /\ cip.sent # <<>>
  /\ LET x == Head(cip.sent)
     IN  \/ x.m.kind = "open" /\ DeviceOpens(x)
         \/ x.m.kind = "close" /\ DeviceCloses(x)
         \/ /\ x.m.kind = "unconnected" \/ (x.m.kind = "connected" /\ x.m.serial \in Held)
            /\ Reply(x, "ok") /\ UNCHANGED device
         \/ /\ x.m.kind = "stale" \/ (x.m.kind = "connected" /\ x.m.serial \notin Held)
            /\ UNCHANGED <<toClient, device>>
  /\ cip' = [cip EXCEPT !.sent = Tail(@)]
  /\ UNCHANGED <<closing, due, session, outcome, answer, history>>

(* The device's watchdog ends the connections nobody keeps alive.             *)
Expire ==
  /\ leftover # {}
  /\ leftover' = {}
  /\ UNCHANGED <<cip, closing, due, toClient, devConns, session, outcome, answer, history>>

(* Two replies in one chunk: Defragger drops the first.  (Bound: once.)       *)
Lose ==
  /\ MayLose /\ ~lost
  /\ Len(toClient) > 1
  /\ toClient' = Tail(toClient)
  /\ lost' = TRUE
  /\ UNCHANGED <<cip, closing, due, device, session, outcome, answer, failed, stranded>>

-----------------------------------------------------------------------------
(* The session is over for this layer, and with it a close that awaited a    *)
(* reply in it.                                                              *)
SessionOver ==
  /\ session' = session + 1
  /\ toClient' = <<>>
  /\ closing' = FALSE

(* Of the messages handed down the device gets some.                         *)
SomeArrive(c) == \E n \in 0 .. Len(c.sent) : cip' = [c EXCEPT !.sent = SubSeq(@, 1, n)]

(* internalDestroy in Layer.close, whose call of a ForwardClose callback     *)
(* destroys the layer above too; the layers below close next.                *)
DestroyInClose(c, o) ==
  /\ cip' = Destroyed(c)
  /\ outcome' = IF \E cb \in c.callbacks : cb.purpose \in {"close", "reclose"}
                  THEN RejectAll(o) ELSE o
  /\ due' = "below"

(* disconnect has ended and no promise was settled on the way.               *)
FinishClose(c) == SessionOver /\ DestroyInClose(c, outcome)

(* destroy called in a callback with the reply: the disconnect that a close   *)
(* awaits ends with the error, and the close goes on, after the              *)
(* continuations of the promises rejected here.                              *)
DestroyLayer(c) ==
  /\ outcome' = RejectAll(outcome)
  /\ cip' = Destroyed(c)
  /\ \/ /\ closing /\ SessionOver
        /\ due' = IF outcome' = outcome THEN "below" ELSE "destroy"
     \/ /\ ~closing
        /\ toClient' = Tail(toClient)
        /\ UNCHANGED <<closing, due, session>>

(* A handler of the reply that leaves the layer's fields as c.               *)
Continue(c) ==
  /\ cip' = c
  /\ toClient' = Tail(toClient)
  /\ UNCHANGED <<closing, due, session, outcome>>

(* Faulty forms of OpenReply: the fallback finds the layer still connecting, *)
(* or the message that waits is not sent.                                    *)
OpenReplyWith(c, reply, fallback, connected) ==
  \/ reply.status = "ok" /\ Continue(IF c.state = 1 THEN connected ELSE c)
  \/ reply.status = "unsupported" /\ Continue(fallback)
  \/ /\ reply.status = "duplicate" /\ ~c.again
     /\ Continue(SendClose([c EXCEPT !.state = 0, !.again = TRUE,
                                     !.misnamed = @ \/ c.serial # reply.m.serial],
                           "reclose"))
  \/ /\ reply.status = "refused" \/ (reply.status = "duplicate" /\ c.again)
     /\ DestroyLayer(c)

OpenReplyStuck(c, reply) ==
  OpenReplyWith(c, reply, Connect([c EXCEPT !.large = FALSE]),
    SendNext([c EXCEPT !.sendInfo = reply.m.serial, !.state = 2]))
OpenReplyInSilence(c, reply) ==
  OpenReplyWith(c, reply, Connect([c EXCEPT !.state = 0, !.large = FALSE]),
    [c EXCEPT !.sendInfo = reply.m.serial, !.state = 2])

(* The callback of connect.  The ForwardClose after a duplicate names the     *)
(* last connection asked for: "misnamed" remembers one that was another.     *)
OpenReply(c, reply) ==
  \/ /\ reply.status = "ok"
     /\ Continue(IF c.state = 1
                   THEN SendNext([c EXCEPT !.sendInfo = reply.m.serial, !.state = 2])
                   ELSE c)
  \/ /\ reply.status = "unsupported"
     /\ Continue(Connect([c EXCEPT !.state = 0, !.large = FALSE]))
  \/ /\ reply.status = "duplicate" /\ ~c.again
     /\ Continue(SendClose([c EXCEPT !.state = 0, !.again = TRUE,
                                     !.misnamed = @ \/ c.serial # reply.m.serial],
                           "reclose"))
  \/ /\ reply.status = "refused" \/ (reply.status = "duplicate" /\ c.again)
     /\ DestroyLayer(c)

(* The callback of the ForwardClose that follows a duplicate ForwardOpen.    *)
RecloseReply(c, reply) ==
  \/ /\ reply.status = "ok"
     /\ Continue(Connect([c EXCEPT !.state = 0, !.again = FALSE]))
  \/ /\ reply.status = "refused"
     /\ DestroyLayer(c)

(* The callback of disconnect, and the rest of the close that awaits it.     *)
CloseReply(c, reply) ==
  \/ reply.status = "ok" /\ FinishClose(c)
  \/ reply.status = "refused" /\ DestroyLayer(c)

(* handleUnconnectedMessage for an internal message.                         *)
InternalReply ==
  LET reply == Head(toClient)
      onFile == {cb \in cip.callbacks : cb.id = reply.m.id}
      c == [cip EXCEPT !.callbacks = @ \ onFile]
  IN  /\ toClient # <<>> /\ NoMicrotask /\ reply.m.kind \in {"open", "close"}
      /\ \/ /\ onFile = {}
            /\ toClient' = Tail(toClient)
            /\ UNCHANGED <<cip, closing, due, session, outcome>>
         \/ \E cb \in onFile :
              \/ cb.purpose = "open" /\ OpenReply(c, reply)
              \/ cb.purpose = "reclose" /\ RecloseReply(c, reply)
              \/ cb.purpose = "close" /\ CloseReply(c, reply)
      /\ cip'.serial <= MaxSerial
      /\ UNCHANGED <<device, answer, history>>

(* handleUnconnectedMessage for a message of the layer above.                *)
UnconnectedReply ==
  LET reply == Head(toClient)
  IN  /\ toClient # <<>> /\ NoMicrotask /\ reply.m.kind = "unconnected"
      /\ Settle(reply.m.request, reply.m.request)
      /\ toClient' = Tail(toClient)
      /\ UNCHANGED <<cip, closing, due, device, session, history>>

(* handleConnectedMessage: without a connection, with the identifiers of     *)
(* another one, or with a sequence count that is not on file, it is dropped. *)
ConnectedReply ==
  LET m == Head(toClient).m
      r == cip.idContext[m.seq]
  IN  /\ toClient # <<>> /\ NoMicrotask /\ m.kind = "connected"
      /\ IF cip.sendInfo = m.serial /\ r # None
           THEN /\ cip' = [cip EXCEPT !.idContext[m.seq] = None]
                /\ Settle(r, m.request)
           ELSE UNCHANGED <<cip, outcome, answer>>
      /\ toClient' = Tail(toClient)
      /\ UNCHANGED <<closing, due, device, session, history>>

-----------------------------------------------------------------------------
(* The EtherNet/IP session or the TCP connection fails: destroy reaches the  *)
(* layer above first and then this one.  A close that awaited the ForwardClose *)
(* goes on, with continuations of what was rejected before its next step.    *)
SessionFails ==
  /\ session < MaxSessions /\ NoMicrotask
  /\ SessionOver
  /\ SomeArrive(Destroyed(cip))
  /\ outcome' = RejectAll(outcome)
  /\ due' = IF closing /\ outcome' # outcome THEN "destroy" ELSE due
  /\ failed' = TRUE
  /\ UNCHANGED <<device, answer, lost, stranded>>

(* close() on the lowest layer.  The layer above closes first and rejects    *)
(* what it owes.  (Bound: one close at a time.)                              *)
CloseLayers ==
  /\ MayClose /\ ~closing /\ due = "nothing" /\ session < MaxSessions
  /\ outcome' = RejectAll(outcome)
  /\ due' = "disconnect"
  /\ UNCHANGED <<cip, closing, toClient, device, session, answer, history>>

(* Faulty form of Disconnects: a connection under way is not closed.         *)
DisconnectsConnected ==
  /\ due = "disconnect"
  /\ \/ /\ cip.state # 2
        /\ SessionOver
        /\ due' = "destroy"
        /\ UNCHANGED cip
     \/ /\ cip.state = 2
        /\ cip' = SendClose([cip EXCEPT !.state = -1, !.resend = {}], "close")
        /\ closing' = TRUE
        /\ due' = "nothing"
        /\ UNCHANGED <<session, toClient>>
  /\ UNCHANGED <<device, outcome, answer, history>>

(* disconnect: a ForwardClose, unless the state is 0.                        *)
Disconnects ==
  /\ due = "disconnect"
  /\ \/ /\ cip.state = 0
        /\ SessionOver
        /\ due' = "destroy"
        /\ UNCHANGED cip
     \/ /\ cip.state # 0
        /\ cip' = SendClose([cip EXCEPT !.state = -1, !.resend = {}], "close")
        /\ closing' = TRUE
        /\ due' = "nothing"
        /\ UNCHANGED <<session, toClient>>
  /\ UNCHANGED <<device, outcome, answer, history>>

Destroys ==
  /\ due = "destroy"
  /\ DestroyInClose(cip, outcome)
  /\ UNCHANGED <<closing, toClient, device, session, answer, history>>

(* The layers below have closed, without a word to this one.                 *)
BelowClosed ==
  /\ due = "below"
  /\ due' = "nothing"
  /\ SomeArrive(cip)
  /\ UNCHANGED <<closing, toClient, device, session, outcome, answer, history>>

(* Faulty form of CloseTimeout: it minds a state that may have changed.      *)
CloseTimeoutIfDisconnecting ==
  /\ closing /\ cip.state = -1
  /\ FinishClose(cip)
  /\ failed' = TRUE
  /\ UNCHANGED <<device, answer, lost, stranded>>

(* The ForwardClose is not answered within five seconds.                     *)
CloseTimeout ==
  /\ closing
  /\ FinishClose(cip)
  /\ failed' = TRUE
  /\ UNCHANGED <<device, answer, lost, stranded>>

Next ==
  \/ \E r \in Requests : Issue(r)
  \/ Tick
  \/ Resend
  \/ Device
  \/ Expire
  \/ Lose
  \/ InternalReply \/ UnconnectedReply \/ ConnectedReply
  \/ SessionFails
  \/ CloseLayers \/ Disconnects \/ Destroys \/ BelowClosed
  \/ CloseTimeout

Spec == Init /\ [][Next]_vars

(* The event loop runs what is due and delivers what arrived; the device     *)
(* takes what is sent; the timer of disconnect fires.                        *)
Fairness ==
  /\ WF_vars(Tick)
  /\ WF_vars(Device)
  /\ WF_vars(InternalReply \/ UnconnectedReply \/ ConnectedReply)
  /\ WF_vars(Disconnects \/ Destroys)
  /\ WF_vars(CloseTimeout)

FairSpec == Spec /\ Fairness
-----------------------------------------------------------------------------
Fields ==
  [state : {-1, 0, 1, 2}, seq : SequenceNumbers, sendInfo : Serials \cup {None},
   queue : Seq(Requests), idContext : [SequenceNumbers -> Requests \cup {None}],
   callbacks : SUBSET [id : Nat, purpose : {"open", "close", "reclose"}],
   context : Nat, serial : 0 .. MaxSerial, again : BOOLEAN, large : BOOLEAN,
   resend : SUBSET [seq : SequenceNumbers, request : Requests],
   ticks : Nat, sent : Seq([session : 0 .. MaxSessions, m : Messages]),
   overlap : BOOLEAN, misnamed : BOOLEAN]

(* Every field and variable keeps its type.                                  *)
TypeOK ==
  /\ cip \in Fields
  /\ closing \in BOOLEAN /\ due \in CloseSteps
  /\ toClient \in Seq([m : Messages,
                       status : {"ok", "unsupported", "duplicate", "refused"}])
  /\ devConns \subseteq Serials /\ leftover \subseteq Serials
  /\ session \in 1 .. MaxSessions
  /\ outcome \in [Requests -> {"idle", "pending", "answered", "rejected"}]
  /\ answer \in [Requests -> Requests \cup {None}]
  /\ lost \in BOOLEAN /\ failed \in BOOLEAN
  /\ stranded \subseteq Requests

Pending == {r \in Requests : outcome[r] = "pending"}

(* Messages of this session whose reply is still to come.                    *)
Owed == {cip.sent[i].m : i \in {j \in DOMAIN cip.sent : cip.sent[j].session = session}}
        \cup {toClient[i].m : i \in DOMAIN toClient}

(* A callback for one of the purposes is on file, and its reply will come.   *)
Awaits(purposes) ==
  \E cb \in cip.callbacks, m \in Owed :
    cb.purpose \in purposes /\ m.kind \in {"open", "close"} /\ m.id = cb.id

Waiting(c) == {c.queue[i] : i \in DOMAIN c.queue}

(* The layer is never stuck half way: while it connects, the reply to a      *)
(* ForwardOpen is to come and has a callback on file, while it closes the    *)
(* reply to a ForwardClose, whatever fallbacks, duplicates, refusals and     *)
(* failures came before.  The exceptions are a reply lost to a shared chunk  *)
(* and a request issued in the last steps of a close, whose ForwardOpen goes *)
(* down with the session: the layer stays connecting.                        *)
ConnectingEnds == ~lost => /\ cip.state = 1 => Awaits({"open"})
                           /\ closing => Awaits({"close"})

(* A layer that takes itself for connected sends on a connection that the    *)
(* device holds, unless it has asked the device to close one and waits for   *)
(* the reply: a ForwardOpen that overtakes that ForwardClose brings it back  *)
(* to connected for a moment, and the ForwardClose that follows a duplicate  *)
(* names the last connection asked for, which need not be the duplicate.     *)
ConnectionIsOpen ==
  cip.state = 2 =>
    \/ cip.sendInfo \in devConns
    \/ \E cb \in cip.callbacks : cb.purpose \in {"close", "reclose"}

(* What is in the queue is waited for by something that will send it: a      *)
(* tick, the reply to a ForwardOpen, or the reply to the ForwardClose after  *)
(* a duplicate ForwardOpen; or the close under way will empty it.            *)
QueueIsDriven ==
  cip.queue # <<>> /\ ~lost =>
    cip.ticks > 0 \/ cip.state = 1 \/ closing \/ due = "destroy" \/ Awaits({"reclose"})

(* A request that is not settled is in the queue, or its reply will come and *)
(* will find it: the sequence count it went out under is still on file for   *)
(* it, and the connection it went out on is still the layer's.  Unless the   *)
(* ForwardClose that follows a duplicate closed that connection: it names    *)
(* the last one asked for, which with a ForwardOpen sent in between is not   *)
(* the duplicate.                                                            *)
PendingHasRoute ==
  ~lost /\ ~cip.misnamed => \A r \in Pending \ stranded :
    \/ r \in Waiting(cip)
    \/ Unconnected(r) \in Owed
    \/ \E s \in SequenceNumbers :
         cip.idContext[s] = r /\ OnConnection(cip, s, r) \in Owed

(* When nothing is under way, the device holds no connection that the layer  *)
(* does not know of, whatever sequence of connects, fallbacks, duplicates    *)
(* and closes led there.  A session that failed leaves its connection to the *)
(* device's watchdog; so does, in the code, a ForwardOpen that overlaps      *)
(* another request of the layer itself: one sent between the duplicate and   *)
(* its ForwardClose, or by the fallback of a connect that was disconnected.  *)
NoLeakedConnection ==
  cip.callbacks = {} /\ cip.sent = <<>> /\ ~lost /\ ~failed /\ ~cip.overlap
    => devConns \subseteq IF cip.state = 2 THEN {cip.sendInfo} ELSE {}

(* A request the program was told has failed is not sent any more, except by *)
(* the overlap above, where the layer connects while it closes, and by a     *)
(* request issued between two steps of a close: the queue it joins is        *)
(* emptied last, and the layer sends what is at its head.                    *)
NothingSentAfterRejection ==
  [][\A r \in Waiting(cip) \ Waiting(cip') :
       \/ outcome'[r] = "pending" \/ Len(cip'.sent) <= Len(cip.sent)
       \/ cip.overlap \/ ~NoMicrotask]_vars

(* This layer implements RequestService: a request is settled at most once,  *)
(* with the device's reply to itself or with an error.                       *)
Service == INSTANCE RequestService WITH
  outcome <- [r \in Requests |-> IF outcome[r] = "answered" /\ answer[r] # r
                                   THEN "mistaken" ELSE outcome[r]]

ImplementsService == Service!Spec

(* Every request is settled in the end, except one issued while the layer    *)
(* closes and one whose reply, or the reply the connection waits for, was    *)
(* lost, or whose connection the layer closed by mistake: nothing times out. *)
(* Each request is issued once, so it is enough that again and again none    *)
(* is left pending.                                                          *)
RequestsSettle == []<>(lost \/ cip.misnamed \/ Pending \subseteq stranded)

(* close() ends, even when the reply to its ForwardClose is lost.            *)
CloseEnds == closing ~> ~closing

(* The interval sends a message on the connection it was sent on, or on one  *)
(* that replaced it: without a connection there is nothing to keep alive.    *)
ResendIsConnected == \A i \in DOMAIN cip.sent : cip.sent[i].m.kind # "stale"
=============================================================================
