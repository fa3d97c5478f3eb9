-------------------------- MODULE CipServiceProofs --------------------------
(***************************************************************************)
(* The CIP connection layer keeps what RequestService promises, for any    *)
(* requests, connections and failures, sends nothing for a request that it *)
(* rejected, leaves no connection open at the device that it has lost track*)
(* of, and keeps the route of every reply until the reply is in.           *)
(*                                                                         *)
(* No request has a timeout, and the sequence count wraps at 0x10000: with *)
(* 65536 messages under way on one connection the last takes the count, and*)
(* the context on file, of the first.  NoReuse says that this does not     *)
(* happen, and the theorem that needs it names it; CountsSuffice shows that*)
(* it cannot happen to a program with few requests.                        *)
(***************************************************************************)
EXTENDS CipProofs, FiniteSetTheorems

Idle == {r \in Requests : outcome[r] = "idle"}
Unsent == Idle \cup Waiting(cip)

(* What is between the layer and the device, in any session.                 *)
Flight == Of(toClient) \cup Of(cip.sent)

(* Message m was sent on the connection that c is connected with now.        *)
OnLine(c, m) == m.kind = "connected" /\ m.serial = c.sendInfo

Unused(c, ms) == \A m \in ms : OnLine(c, m) => m.seq # (c.seq + 1) % SequenceCounts

(* A request about to be sent finds its sequence count free: no message with *)
(* it is under way on the connection.                                        *)
NoReuse == cip.state = 2 /\ Unsent # {} => Unused(cip, Flight)

-----------------------------------------------------------------------------
(* The context on file under the count of a message on the connection is     *)
(* that of its request, or none any more.                                    *)
Agreed(c, ms) ==
  /\ c.sendInfo <= c.serial
  /\ \A m \in ms : m.kind = "connected" =>
       /\ m.serial <= c.serial
       /\ OnLine(c, m) => c.idContext[m.seq] \in {None, m.request}

(* Nothing was sent yet on a connection that the layer may learn of.         *)
Unspoken(c, ms) ==
  \A o \in ms : o.kind = "open" /\ Filed(c.callbacks, o) =>
    /\ o.serial # c.sendInfo
    /\ \A m \in ms : m.kind = "connected" => m.serial # o.serial

(* What the interval sends again was sent under the last count, unless there *)
(* is no connection: then a connected message is waiting that replaces it.   *)
Repeats(c) ==
  c.sendInfo # None =>
    \A last \in c.resend : last.seq = c.seq /\ c.idContext[last.seq] \in {None, last.request}

Opening(c) == Waits(c, "open") \/ Waits(c, "reclose")

Headed(c) == c.sendInfo = None /\ Opening(c) => c.queue # <<>> /\ Head(c.queue) \in Connected

InWindow(c, ms) == Agreed(c, ms) /\ Unspoken(c, ms) /\ Repeats(c) /\ Headed(c)

AnswerIsItsOwn == \A r \in Requests : outcome[r] = "answered" => answer[r] = r

WindowInv == InWindow(cip, Flight) /\ AnswerIsItsOwn

-----------------------------------------------------------------------------
LEMMA FieldTypes ==
  ASSUME NEW c \in Fields
  PROVE  /\ c.serial \in Nat /\ c.sendInfo \in Nat /\ c.seq \in Nat /\ c.context \in Nat
         /\ c.sent \in Seq(Parcels)
<1>1. c.sendInfo \in Nat
  BY Constants DEF Fields
<1>2. c.serial \in Nat
  BY Constants DEF Fields
<1>3. c.seq \in Nat
  BY Constants DEF Fields
<1>4. c.context \in Nat
  BY DEF Fields
<1>5. c.sent \in Seq(Parcels)
  BY DEF Fields, Parcels
<1> QED
  BY <1>1, <1>2, <1>3, <1>4, <1>5

LEMMA FlightMessages ==
  ASSUME NEW c \in Fields, NEW replies \in Seq(Replies)
  PROVE  Of(replies) \cup Of(c.sent) \subseteq Messages
BY FieldTypes, MailMessages

LEMMA OfPosted ==
  ASSUME NEW c \in Fields, session \in 1 .. MaxSessions, NEW m \in Messages
  PROVE  Of(Posted(c, m)) = Of(c.sent) \cup {m}
<1> DEFINE x == [session |-> Current, m |-> m]
<1>1. c.sent \in Seq(Parcels) /\ x \in Parcels /\ x.m = m
  BY CurrentSession DEF Fields, Parcels
<1> HIDE DEF x
<1>2. Posted(c, m) = Append(c.sent, x)
  BY DEF Posted, x
<1> QED
  BY <1>1, <1>2, OfAppend

(* Fewer messages and fewer callbacks agree as well.                         *)
LEMMA LessInWindow ==
  ASSUME NEW c, NEW d, NEW ms, NEW less \in SUBSET ms, InWindow(c, ms),
         d.sendInfo = c.sendInfo, d.serial = c.serial, SameWindow(c, d),
         d.callbacks \subseteq c.callbacks,
         c.queue # <<>> => d.queue # <<>> /\ Head(d.queue) = Head(c.queue)
  PROVE  InWindow(d, less)
<1>1. Agreed(d, less)
  BY DEF InWindow, Agreed, OnLine, SameWindow
<1>2. Unspoken(d, less)
  BY DEF InWindow, Unspoken, Filed
<1>3. Repeats(d) /\ Headed(d)
  BY DEF InWindow, Repeats, Headed, Opening, Waits, SameWindow
<1> QED
  BY <1>1, <1>2, <1>3 DEF InWindow

(* One message more.                                                         *)
LEMMA JoinedWindow ==
  ASSUME NEW c \in Fields, NEW d \in Fields, NEW ms \in SUBSET Messages,
         Agreed(c, ms), Unspoken(c, ms), d.sendInfo = c.sendInfo, c.serial <= d.serial,
         \A o \in ms : o.kind = "open" /\ Filed(d.callbacks, o) => Filed(c.callbacks, o),
         \A x \in ms : OnLine(c, x) => d.idContext[x.seq] \in {None, x.request},
         NEW m \in Messages, m.kind = "open" => c.serial < m.serial,
         m.kind = "connected" => OnLine(c, m) /\ d.idContext[m.seq] \in {None, m.request}
  PROVE  Agreed(d, ms \cup {m}) /\ Unspoken(d, ms \cup {m})
<1>1. c.serial \in Nat /\ d.serial \in Nat /\ c.sendInfo \in Nat
  BY FieldTypes
<1>2. \A x \in Messages : x.kind \in {"connected", "open"} => x.serial \in Nat
  BY MessageParts, Constants
<1>3. Agreed(d, ms \cup {m})
  BY <1>1, <1>2 DEF Agreed, OnLine
<1>4. Unspoken(d, ms \cup {m})
  BY <1>1, <1>2 DEF Agreed, Unspoken, OnLine
<1> QED
  BY <1>3, <1>4

(* A ForwardOpen sent, while the head of the queue asks for it unless there  *)
(* was a connection already.                                                 *)
LEMMA OpenInWindow ==
  ASSUME NEW c \in Fields, NEW d \in Fields, session \in 1 .. MaxSessions,
         NEW ms \in SUBSET Messages, Agreed(c, ms), Unspoken(c, ms), Repeats(c),
         Numbered(c.callbacks, c.context, c.serial, ms),
         AsksToOpen(c, d), SameWindow(c, d), d.sendInfo = c.sendInfo, d.queue = c.queue,
         c.sendInfo = None => c.queue # <<>> /\ Head(c.queue) \in Connected
  PROVE  InWindow(d, ms \cup {OpenMessage(c)})
<1>1. c.serial \in Nat /\ c.context \in Nat
  BY FieldTypes
<1>2. \A o \in ms : o.kind = "open" /\ Filed(d.callbacks, o) => Filed(c.callbacks, o)
  <2> SUFFICES ASSUME NEW o \in ms, o.kind = "open", Filed(d.callbacks, o)
               PROVE  Filed(c.callbacks, o)
    OBVIOUS
  <2>1. o.id \in Nat /\ o.id <= c.context
    BY MessageParts DEF Numbered, Internal
  <2> QED
    BY <1>1, <2>1 DEF AsksToOpen, Filed, Callback
<1>3. OpenMessage(c) \in Messages /\ OpenMessage(c).kind = "open"
      /\ OpenMessage(c).serial = c.serial + 1
  BY DEF AsksToOpen, OpenMessage
<1>4. \A x \in ms : OnLine(c, x) => d.idContext[x.seq] \in {None, x.request}
  BY DEF Agreed, SameWindow, OnLine
<1>5. PICK m : m = OpenMessage(c)
  OBVIOUS
<1>6. Agreed(d, ms \cup {m}) /\ Unspoken(d, ms \cup {m})
  <2>1. c.serial <= d.serial /\ c.serial < m.serial
    BY <1>1, <1>3, <1>5 DEF AsksToOpen
  <2>2. m \in Messages /\ m.kind = "open"
    BY <1>3, <1>5
  <2> QED
    BY <1>2, <1>4, <2>1, <2>2, JoinedWindow
<1>7. Repeats(d) /\ Headed(d)
  BY DEF Repeats, Headed, SameWindow
<1> QED
  BY <1>5, <1>6, <1>7 DEF InWindow

(* A ForwardClose sent.                                                      *)
LEMMA CloseInWindow ==
  ASSUME NEW c \in Fields, NEW d \in Fields, session \in 1 .. MaxSessions,
         NEW ms \in SUBSET Messages, Agreed(c, ms), Unspoken(c, ms), Repeats(c),
         Numbered(c.callbacks, c.context, c.serial, ms), NEW p,
         AsksToClose(c, d, p), SameWindow(c, d), d.sendInfo = c.sendInfo, d.queue = c.queue,
         Headed(d)
  PROVE  InWindow(d, ms \cup {CloseMessage(c)})
<1>1. c.serial \in Nat /\ c.context \in Nat
  BY FieldTypes
<1>2. \A o \in ms : o.kind = "open" /\ Filed(d.callbacks, o) => Filed(c.callbacks, o)
  <2> SUFFICES ASSUME NEW o \in ms, o.kind = "open", Filed(d.callbacks, o)
               PROVE  Filed(c.callbacks, o)
    OBVIOUS
  <2>1. o.id \in Nat /\ o.id <= c.context
    BY MessageParts DEF Numbered, Internal
  <2> QED
    BY <1>1, <2>1 DEF AsksToClose, Filed, Callback
<1>3. CloseMessage(c) \in Messages /\ CloseMessage(c).kind = "close"
  BY DEF AsksToClose, CloseMessage
<1>4. \A x \in ms : OnLine(c, x) => d.idContext[x.seq] \in {None, x.request}
  BY DEF Agreed, SameWindow, OnLine
<1>5. PICK m : m = CloseMessage(c)
  OBVIOUS
<1>6. Agreed(d, ms \cup {m}) /\ Unspoken(d, ms \cup {m})
  <2>1. c.serial <= d.serial
    BY <1>1 DEF AsksToClose
  <2>2. m \in Messages /\ m.kind = "close"
    BY <1>3, <1>5
  <2> QED
    BY <1>2, <1>4, <2>1, <2>2, JoinedWindow
<1>7. Repeats(d)
  BY DEF Repeats, SameWindow
<1> QED
  BY <1>5, <1>6, <1>7 DEF InWindow

(* The next message sent, or a connection opened for it.                     *)
LEMMA SentInWindow ==
  ASSUME NEW c \in Fields, NEW d \in Fields, session \in 1 .. MaxSessions,
         NEW ms \in SUBSET Messages, Agreed(c, ms), Unspoken(c, ms), Headed(c),
         Numbered(c.callbacks, c.context, c.serial, ms),
         c.queue = <<>> \/ c.state # 2 => Repeats(c),
         c.queue # <<>> /\ c.state = 2 => Unused(c, ms) /\ c.sendInfo # None,
         NextSent(c, d)
  PROVE  \/ InWindow(d, ms) /\ d.sent = c.sent
         \/ \E m \in Messages : InWindow(d, ms \cup {m}) /\ d.sent = Posted(c, m)
<1>1. CASE c.queue = <<>> \/ c.state \notin {0, 2}
  <2>1. c.state \notin {0, 2} => c.state # 2
    OBVIOUS
  <2>2. ASSUME d = c PROVE InWindow(d, ms) /\ d.sent = c.sent
    BY <1>1, <2>1, <2>2 DEF InWindow
  <2> QED
    BY <1>1, <2>2 DEF NextSent
<1>2. ASSUME c.queue # <<>>, c.state = 2
      PROVE  \E m \in Messages : InWindow(d, ms \cup {m}) /\ d.sent = Posted(c, m)
  <2> DEFINE n == (c.seq + 1) % SequenceCounts
             r == Head(c.queue)
             m == OnConnection(c, n, r)
  <2>1. SendsConnected(c, d, r)
    BY <1>2 DEF NextSent
  <2>2. m \in Messages /\ m.kind = "connected" /\ m.serial = c.sendInfo /\ m.seq = n
        /\ m.request = r /\ d.idContext = [c.idContext EXCEPT ![n] = r] /\ d.seq = n
        /\ d.resend = {[seq |-> n, request |-> r]} /\ d.sent = Posted(c, m)
        /\ d.sendInfo = c.sendInfo /\ d.serial = c.serial /\ d.callbacks = c.callbacks
    BY <2>1 DEF SendsConnected, OnConnection, SameBooks
  <2>3. n \in SequenceNumbers
    BY NextCount DEF Fields
  <2>4. c.idContext \in [SequenceNumbers -> Requests \cup {None}] /\ c.serial \in Nat
    BY FieldTypes DEF Fields
  <2>5. Unused(c, ms) /\ c.sendInfo # None
    BY <1>2
  <2> HIDE DEF m, n, r
  <2>6. \A x \in ms : OnLine(c, x) => x.seq # n
    BY <2>5 DEF Unused, n
  <2>7. \A x \in ms : OnLine(c, x) => d.idContext[x.seq] \in {None, x.request}
    BY <2>2, <2>4, <2>6 DEF Agreed, OnLine
  <2>8. d.idContext[n] = r
    BY <2>2, <2>3, <2>4
  <2>9. Agreed(d, ms \cup {m}) /\ Unspoken(d, ms \cup {m})
    <3>1. OnLine(c, m) /\ d.idContext[m.seq] \in {None, m.request}
      BY <2>2, <2>8 DEF OnLine
    <3>2. \A o \in ms : o.kind = "open" /\ Filed(d.callbacks, o) => Filed(c.callbacks, o)
      BY <2>2
    <3>3. d.sendInfo = c.sendInfo /\ c.serial <= d.serial /\ m.kind # "open" /\ m \in Messages
      BY <2>2, <2>4
    <3> QED
      BY <2>7, <3>1, <3>2, <3>3, JoinedWindow
  <2>10. Repeats(d) /\ Headed(d)
    BY <2>2, <2>5, <2>8 DEF Repeats, Headed
  <2> QED
    BY <2>2, <2>9, <2>10 DEF InWindow
<1>3. ASSUME c.queue # <<>>, c.state = 0, Head(c.queue) \in Connected
      PROVE  \E m \in Messages : InWindow(d, ms \cup {m}) /\ d.sent = Posted(c, m)
  <2>1. Connects(c, d) /\ Repeats(c)
    BY <1>3 DEF NextSent
  <2>2. AsksToOpen(c, d) /\ SameWindow(c, d) /\ d.sendInfo = c.sendInfo /\ d.queue = c.queue
    BY <2>1 DEF Connects, SameQueue
  <2>3. InWindow(d, ms \cup {OpenMessage(c)})
    BY <1>3, <2>1, <2>2, OpenInWindow
  <2> QED
    BY <2>2, <2>3 DEF AsksToOpen
<1>4. ASSUME c.queue # <<>>, c.state = 0, Head(c.queue) \notin Connected
      PROVE  \E m \in Messages : InWindow(d, ms \cup {m}) /\ d.sent = Posted(c, m)
  <2>1. SendsUnconnected(c, d, Head(c.queue)) /\ Repeats(c)
    BY <1>4 DEF NextSent
  <2>2. PICK m \in Messages : m = Unconnected(Head(c.queue)) /\ m.kind = "unconnected"
    BY <2>1 DEF SendsUnconnected, Unconnected
  <2>3. d.sent = Posted(c, m) /\ d.sendInfo = c.sendInfo /\ d.serial = c.serial
        /\ d.callbacks = c.callbacks /\ SameWindow(c, d)
    BY <2>1, <2>2 DEF SendsUnconnected, SameBooks
  <2>4. Agreed(d, ms \cup {m}) /\ Unspoken(d, ms \cup {m})
    <3>1. \A x \in ms : OnLine(c, x) => d.idContext[x.seq] \in {None, x.request}
      BY <2>3 DEF Agreed, OnLine, SameWindow
    <3>2. \A o \in ms : o.kind = "open" /\ Filed(d.callbacks, o) => Filed(c.callbacks, o)
      BY <2>3
    <3>3. c.serial <= d.serial
      BY <2>3, FieldTypes
    <3> QED
      BY <2>2, <2>3, <3>1, <3>2, <3>3, JoinedWindow
  <2>5. Repeats(d)
    BY <2>1, <2>3 DEF Repeats, SameWindow
  <2>6. Headed(d)
    <3>1. ~(c.sendInfo = None /\ Opening(c))
      BY <1>4 DEF Headed
    <3>2. Opening(d) => Opening(c)
      BY <2>3 DEF Opening, Waits
    <3> QED
      BY <2>3, <3>1, <3>2 DEF Headed
  <2> QED
    BY <2>3, <2>4, <2>5, <2>6 DEF InWindow
<1> QED
  BY <1>1, <1>2, <1>3, <1>4 DEF NextSent

LEMMA SendNextInWindow ==
  ASSUME NEW c \in Fields, session \in 1 .. MaxSessions, NEW replies \in Seq(Replies),
         NEW ms, ms = Of(replies) \cup Of(c.sent),
         Agreed(c, ms), Unspoken(c, ms), Headed(c),
         Numbered(c.callbacks, c.context, c.serial, ms),
         c.queue = <<>> \/ c.state # 2 => Repeats(c),
         c.queue # <<>> /\ c.state = 2 => Unused(c, ms), c.state = 2 => c.sendInfo # None,
         SendNext(c).serial <= MaxSerial
  PROVE  InWindow(SendNext(c), Of(replies) \cup Of(SendNext(c).sent))
<1> DEFINE d == SendNext(c)
<1>1. d \in Fields /\ NextSent(c, d)
  BY SendNextParts
<1>2. ms \in SUBSET Messages
  BY FlightMessages
<1> HIDE DEF d
<1>3. \/ InWindow(d, ms) /\ d.sent = c.sent
      \/ \E m \in Messages : InWindow(d, ms \cup {m}) /\ d.sent = Posted(c, m)
  BY <1>1, <1>2, SentInWindow
<1>4. ASSUME NEW m \in Messages, InWindow(d, ms \cup {m}), d.sent = Posted(c, m)
      PROVE  InWindow(d, Of(replies) \cup Of(d.sent))
  <2>1. Of(d.sent) = Of(c.sent) \cup {m}
    BY <1>4, OfPosted
  <2>2. Of(replies) \cup Of(d.sent) = ms \cup {m}
    BY <2>1
  <2> QED
    BY <1>4, <2>2
<1> QED
  BY <1>3, <1>4 DEF d

-----------------------------------------------------------------------------
(* The steps of the layer and of the device, one by one.                     *)
LEMMA NowInWindow ==
  ASSUME TypeOK, CipInv, WindowInv
  PROVE  /\ cip \in Fields /\ toClient \in Seq(Replies) /\ session \in 1 .. MaxSessions
         /\ Flight \in SUBSET Messages /\ Flight = Of(toClient) \cup Of(cip.sent)
         /\ Numbered(cip.callbacks, cip.context, cip.serial, Flight)
         /\ cip.state = 2 => cip.sendInfo # None
         /\ Agreed(cip, Flight) /\ Unspoken(cip, Flight) /\ Repeats(cip) /\ Headed(cip)
<1>1. cip \in Fields /\ toClient \in Seq(Replies) /\ session \in 1 .. MaxSessions
  BY Now
<1>2. Flight \in SUBSET Messages /\ Flight = Of(toClient) \cup Of(cip.sent)
  BY <1>1, FlightMessages DEF Flight
<1>3. Numbered(cip.callbacks, cip.context, cip.serial, Flight)
  BY DEF CipInv, Sound, MailOf, Mail, Flight
<1>4. cip.state = 2 => cip.sendInfo # None
  BY DEF CipInv, Sound, Staged
<1> QED
  BY <1>1, <1>2, <1>3, <1>4 DEF WindowInv, InWindow

(* A request enters the queue, or a tick is over; then comes the next.       *)
LEMMA TurnInWindow ==
  ASSUME TypeOK, CipInv, WindowInv, NoReuse,
         NEW c \in Fields, c.state = cip.state, c.sendInfo = cip.sendInfo, SameBooks(cip, c),
         SameWindow(cip, c), c.sent = cip.sent, c.queue # <<>> => Unsent # {},
         cip.queue # <<>> => c.queue # <<>> /\ Head(c.queue) = Head(cip.queue),
         cip' = SendNext(c), cip'.serial <= MaxSerial, toClient' = toClient
  PROVE  InWindow(cip', Flight')
<1>1. Flight = Of(toClient) \cup Of(c.sent) /\ Flight' = Of(toClient) \cup Of(cip'.sent)
  BY DEF Flight
<1>2. InWindow(c, Flight)
  <2>1. InWindow(cip, Flight) /\ Flight \in SUBSET Flight
        /\ c.serial = cip.serial /\ c.callbacks \subseteq cip.callbacks
    BY DEF WindowInv, SameBooks
  <2>2. PICK ms : ms = Flight
    OBVIOUS
  <2> QED
    BY <2>1, <2>2, LessInWindow
<1>3. Agreed(c, Flight) /\ Unspoken(c, Flight) /\ Headed(c) /\ Repeats(c)
  BY <1>2 DEF InWindow
<1>4. Numbered(c.callbacks, c.context, c.serial, Flight)
  BY NowInWindow DEF SameBooks
<1>5. c.queue # <<>> /\ c.state = 2 => Unused(c, Flight)
  BY DEF NoReuse, Unused, OnLine, SameWindow
<1>6. c.state = 2 => c.sendInfo # None
  BY NowInWindow
<1>7. session \in 1 .. MaxSessions /\ toClient \in Seq(Replies)
  BY Now
<1>8. PICK ms, replies : ms = Flight /\ replies = toClient
  OBVIOUS
<1>9. InWindow(SendNext(c), Of(replies) \cup Of(SendNext(c).sent))
  BY <1>1, <1>3, <1>4, <1>5, <1>6, <1>7, <1>8, SendNextInWindow
<1> QED
  BY <1>1, <1>8, <1>9

LEMMA IssueInWindow ==
  ASSUME TypeOK, CipInv, WindowInv, NoReuse, NEW r \in Requests, Issue(r)
  PROVE  WindowInv'
<1> DEFINE c == [cip EXCEPT !.queue = Append(@, r)]
<1>1. cip \in Fields /\ cip.queue \in Seq(Requests) /\ Append(cip.queue, r) \in Seq(Requests)
  BY Now DEF Fields
<1>2. c \in Fields /\ c.state = cip.state /\ c.sendInfo = cip.sendInfo /\ SameBooks(cip, c)
      /\ c.sent = cip.sent /\ SameWindow(cip, c) /\ c.queue = Append(cip.queue, r)
  BY <1>1 DEF Fields, SameBooks, SameWindow
<1>3. cip' = SendNext(c) /\ cip'.serial <= MaxSerial /\ toClient' = toClient
  BY DEF Issue
<1>4. Unsent # {}
  BY DEF Issue, Unsent, Idle
<1>5. cip.queue # <<>> => c.queue # <<>> /\ Head(c.queue) = Head(cip.queue)
  BY <1>1, <1>2
<1> HIDE DEF c
<1>6. InWindow(cip', Flight')
  BY <1>2, <1>3, <1>4, <1>5, TurnInWindow
<1>7. AnswerIsItsOwn'
  BY DEF WindowInv, AnswerIsItsOwn, Issue, TypeOK
<1> QED
  BY <1>6, <1>7 DEF WindowInv

LEMMA TickInWindow ==
  ASSUME TypeOK, CipInv, WindowInv, NoReuse, Tick
  PROVE  WindowInv'
<1> DEFINE c == [cip EXCEPT !.ticks = @ - 1]
<1>1. cip \in Fields /\ cip.ticks - 1 \in Nat
  BY Now DEF Fields, Tick
<1>2. c \in Fields /\ c.state = cip.state /\ c.sendInfo = cip.sendInfo /\ SameBooks(cip, c)
      /\ c.sent = cip.sent /\ SameWindow(cip, c) /\ c.queue = cip.queue
  BY <1>1 DEF Fields, SameBooks, SameWindow
<1>3. cip' = SendNext(c) /\ cip'.serial <= MaxSerial /\ toClient' = toClient
  BY DEF Tick
<1>4. cip.queue # <<>> => Unsent # {}
  <2>1. ASSUME cip.queue # <<>> PROVE cip.queue[1] \in Waiting(cip)
    BY <1>1, <2>1 DEF Waiting, Fields
  <2> QED
    BY <2>1 DEF Unsent
<1> HIDE DEF c
<1>5. InWindow(cip', Flight')
  BY <1>2, <1>3, <1>4, TurnInWindow
<1>6. AnswerIsItsOwn'
  BY DEF WindowInv, AnswerIsItsOwn, Tick
<1> QED
  BY <1>5, <1>6 DEF WindowInv

LEMMA ResendParts ==
  ASSUME TypeOK, CipInv, WindowInv, Resend
  PROVE  \E m \in Messages :
           /\ cip' = Hand(cip, m) /\ toClient' = toClient /\ m.kind # "open"
           /\ m.kind = "connected" =>
                /\ OnLine(cip, m) /\ cip.idContext[m.seq] \in {None, m.request}
                /\ m.seq = cip.seq /\ cip.sendInfo # None /\ cip.resend # {}
<1>1. PICK last \in cip.resend :
        cip' = Hand(cip, IF cip.sendInfo = None
                           THEN [kind |-> "stale", request |-> last.request]
                           ELSE OnConnection(cip, last.seq, last.request))
  BY DEF Resend
<1>2. cip \in Fields /\ last \in [seq : SequenceNumbers, request : Requests]
  BY <1>1, Now DEF Fields
<1>3. toClient' = toClient
  BY DEF Resend
<1>4. CASE cip.sendInfo = None
  <2>1. [kind |-> "stale", request |-> last.request] \in Messages
    BY <1>2 DEF Messages
  <2> QED
    BY <1>1, <1>3, <1>4, <2>1
<1>5. CASE cip.sendInfo # None
  <2>1. cip.sendInfo \in Serials
    BY <1>2, <1>5 DEF Fields
  <2>2. OnConnection(cip, last.seq, last.request) \in Messages
    BY <1>2, <2>1 DEF Messages, OnConnection
  <2>3. cip.idContext[last.seq] \in {None, last.request} /\ last.seq = cip.seq
    BY <1>1, <1>5, NowInWindow DEF Repeats
  <2>4. cip.resend # {}
    BY <1>1
  <2> QED
    BY <1>1, <1>3, <1>5, <2>2, <2>3, <2>4 DEF OnConnection, OnLine
<1> QED
  BY <1>4, <1>5

LEMMA ResendInWindow ==
  ASSUME TypeOK, CipInv, WindowInv, Resend
  PROVE  WindowInv'
<1>1. cip \in Fields
  BY Now
<1>2. PICK m \in Messages :
        /\ cip' = Hand(cip, m) /\ m.kind # "open"
        /\ m.kind = "connected" => OnLine(cip, m) /\ cip.idContext[m.seq] \in {None, m.request}
  BY ResendParts
<1>3. cip' = [cip EXCEPT !.sent = Posted(cip, m)] /\ cip' \in Fields
  BY <1>2, Now, HandIs
<1>4. ASSUME NEW d \in Fields, d = [cip EXCEPT !.sent = Posted(cip, m)]
      PROVE  InWindow(d, Flight \cup {m}) /\ Of(d.sent) = Of(cip.sent) \cup {m}
  <2>1. d.sent = Posted(cip, m) /\ d.sendInfo = cip.sendInfo /\ d.serial = cip.serial
        /\ d.callbacks = cip.callbacks /\ d.idContext = cip.idContext /\ d.queue = cip.queue
        /\ d.seq = cip.seq /\ d.resend = cip.resend
    BY <1>1, <1>4 DEF Fields
  <2>2. PICK c, ms : c = cip /\ ms = Flight
    OBVIOUS
  <2>3. /\ c \in Fields /\ ms \in SUBSET Messages /\ session \in 1 .. MaxSessions
        /\ Agreed(c, ms) /\ Unspoken(c, ms) /\ Repeats(c) /\ Headed(c)
    BY <2>2, NowInWindow
  <2>4. c.serial <= d.serial
    BY <2>1, <2>2, <2>3, FieldTypes
  <2>5. \A x \in ms : OnLine(c, x) => d.idContext[x.seq] \in {None, x.request}
    BY <2>1, <2>2, <2>3 DEF Agreed, OnLine
  <2>6. Agreed(d, ms \cup {m}) /\ Unspoken(d, ms \cup {m})
    BY <1>2, <1>4, <2>1, <2>2, <2>3, <2>4, <2>5, JoinedWindow
  <2>7. Repeats(d) /\ Headed(d)
    BY <2>1, <2>2, <2>3 DEF Repeats, Headed, Opening, Waits
  <2>8. Of(d.sent) = Of(c.sent) \cup {m}
    BY <2>1, <2>2, <2>3, OfPosted
  <2> QED
    BY <2>2, <2>6, <2>7, <2>8 DEF InWindow
<1>5. InWindow(cip', Flight \cup {m}) /\ Of(cip'.sent) = Of(cip.sent) \cup {m}
  BY <1>3, <1>4
<1>6. Flight' = Flight \cup {m}
  BY <1>5 DEF Flight, Resend
<1>7. InWindow(cip', Flight')
  BY <1>5, <1>6
<1>8. AnswerIsItsOwn'
  BY DEF WindowInv, AnswerIsItsOwn, Resend
<1> QED
  BY <1>7, <1>8 DEF WindowInv

(* Nothing new is under way, and the layer is as it was.                     *)
LEMMA FewerInWindow ==
  ASSUME WindowInv, Flight' \subseteq Flight, NEW d, d = cip',
         d.sendInfo = cip.sendInfo, d.serial = cip.serial, SameWindow(cip, d),
         d.callbacks = cip.callbacks, d.queue = cip.queue
  PROVE  InWindow(cip', Flight')
<1>1. PICK c, ms, less : c = cip /\ ms = Flight /\ less = Flight'
  OBVIOUS
<1>2. InWindow(c, ms) /\ less \in SUBSET ms
  BY <1>1 DEF WindowInv
<1>3. InWindow(d, less)
  BY <1>1, <1>2, LessInWindow
<1> QED
  BY <1>1, <1>3

(* The device takes a message, and may answer it.                            *)
LEMMA DeviceMoves ==
  ASSUME TypeOK, Device
  PROVE  /\ Flight' \subseteq Flight
         /\ cip'.sendInfo = cip.sendInfo /\ cip'.serial = cip.serial /\ SameWindow(cip, cip')
         /\ cip'.callbacks = cip.callbacks /\ cip'.queue = cip.queue
         /\ cip'.state = cip.state /\ cip'.overlap = cip.overlap
<1> DEFINE x == Head(cip.sent)
<1>1. cip \in Fields /\ cip.sent \in Seq(Parcels) /\ toClient \in Seq(Replies)
  BY Now, FieldTypes
<1>2. /\ cip.sent # <<>> /\ cip' = [cip EXCEPT !.sent = Tail(@)]
      /\ \/ toClient' = toClient
         \/ \E status \in Statuses : toClient' = Append(toClient, [m |-> x.m, status |-> status])
  BY DeviceReplies
<1> HIDE DEF x
<1>3. Of(cip.sent) = Of(Tail(cip.sent)) \cup {x.m}
  BY <1>1, <1>2, OfTail DEF x
<1>4. x.m \in Messages
  <2>1. x \in Parcels
    BY <1>1, <1>2 DEF x
  <2> QED
    BY <2>1 DEF Parcels
<1>5. Of(toClient') \subseteq Of(toClient) \cup {x.m}
  <2>1. ASSUME NEW status \in Statuses
        PROVE  Of(Append(toClient, [m |-> x.m, status |-> status])) = Of(toClient) \cup {x.m}
    <3> DEFINE y == [m |-> x.m, status |-> status]
    <3>1. y \in Replies /\ y.m = x.m
      BY <1>4 DEF Replies
    <3> HIDE DEF y
    <3>2. Of(Append(toClient, y)) = Of(toClient) \cup {y.m}
      BY <1>1, <3>1, OfAppend
    <3> QED
      BY <3>1, <3>2 DEF y
  <2> QED
    BY <1>2, <2>1
<1>6. cip'.sent = Tail(cip.sent) /\ cip'.sendInfo = cip.sendInfo /\ cip'.serial = cip.serial
      /\ SameWindow(cip, cip') /\ cip'.callbacks = cip.callbacks /\ cip'.queue = cip.queue
      /\ cip'.state = cip.state /\ cip'.overlap = cip.overlap
  BY <1>1, <1>2 DEF Fields, SameWindow
<1>7. Flight' \subseteq Flight
  BY <1>3, <1>5, <1>6 DEF Flight
<1> QED
  BY <1>6, <1>7

LEMMA DeviceInWindow ==
  ASSUME TypeOK, WindowInv, Device
  PROVE  WindowInv'
<1>1. InWindow(cip', Flight')
  BY DeviceMoves, FewerInWindow
<1>2. AnswerIsItsOwn'
  BY DEF WindowInv, AnswerIsItsOwn, Device
<1> QED
  BY <1>1, <1>2 DEF WindowInv

(* A reply is taken, or lost.                                                *)
LEMMA ReplyMoves ==
  ASSUME TypeOK, toClient # <<>>, toClient' = Tail(toClient), cip'.sent = cip.sent
  PROVE  Flight' \subseteq Flight
<1>1. Of(toClient) = Of(Tail(toClient)) \cup {Head(toClient).m}
  BY Now, OfTail
<1> QED
  BY <1>1 DEF Flight

(* A reply that leaves the layer as it is, or is lost.                       *)
LEMMA DropInWindow ==
  ASSUME TypeOK, WindowInv, toClient # <<>>, toClient' = Tail(toClient), cip' = cip
  PROVE  InWindow(cip', Flight')
BY ReplyMoves, FewerInWindow DEF SameWindow

LEMMA ExpireInWindow ==
  ASSUME TypeOK, CipInv, WindowInv, Expire \/ UNCHANGED vars
  PROVE  WindowInv'
<1>1. cip' = cip /\ toClient' = toClient /\ outcome' = outcome /\ answer' = answer
  BY DEF Expire, vars, history
<1> QED
  BY <1>1 DEF WindowInv, AnswerIsItsOwn, Flight

LEMMA LoseInWindow ==
  ASSUME TypeOK, CipInv, WindowInv, Lose
  PROVE  WindowInv'
<1>1. toClient # <<>> /\ toClient' = Tail(toClient) /\ cip' = cip
      /\ outcome' = outcome /\ answer' = answer
  BY DEF Lose
<1> QED
  BY <1>1, DropInWindow DEF WindowInv, AnswerIsItsOwn

LEMMA OwnAnswer ==
  ASSUME TypeOK, AnswerIsItsOwn, NEW r \in Requests, Settle(r, r)
  PROVE  AnswerIsItsOwn'
  BY DEF AnswerIsItsOwn, Settle, TypeOK

LEMMA UnconnectedReplyInWindow ==
  ASSUME TypeOK, CipInv, WindowInv, UnconnectedReply
  PROVE  WindowInv'
<1> DEFINE h == Head(toClient)
<1>1. h \in Replies /\ toClient # <<>>
  BY Now DEF UnconnectedReply
<1>2. h.m.request \in Requests
  BY <1>1, MessageParts DEF UnconnectedReply, Replies
<1>3. toClient' = Tail(toClient) /\ cip' = cip /\ Settle(h.m.request, h.m.request)
  BY DEF UnconnectedReply
<1> QED
  BY <1>1, <1>2, <1>3, DropInWindow, OwnAnswer DEF WindowInv

LEMMA ConnectedReplyInWindow ==
  ASSUME TypeOK, CipInv, WindowInv, ConnectedReply
  PROVE  WindowInv'
<1> DEFINE h == Head(toClient)
           r == cip.idContext[h.m.seq]
<1>1. toClient \in Seq(Replies) /\ h \in Replies /\ h.m \in Messages /\ h.m.kind = "connected"
      /\ toClient # <<>> /\ toClient' = Tail(toClient) /\ cip \in Fields
  <2>1. toClient # <<>> /\ toClient' = Tail(toClient) /\ h.m.kind = "connected"
    BY DEF ConnectedReply
  <2>2. toClient \in Seq(Replies) /\ cip \in Fields
    BY Now
  <2>3. h \in Replies
    BY <2>1, <2>2
  <2> QED
    BY <2>1, <2>2, <2>3 DEF Replies
<1>2. \/ UNCHANGED <<cip, outcome, answer>>
      \/ /\ OnLine(cip, h.m) /\ r # None
         /\ cip' = [cip EXCEPT !.idContext[h.m.seq] = None] /\ Settle(r, h.m.request)
  BY DEF ConnectedReply, OnLine
<1> HIDE DEF h
<1>3. CASE UNCHANGED <<cip, outcome, answer>>
  BY <1>1, <1>3, DropInWindow DEF WindowInv, AnswerIsItsOwn
<1>4. ASSUME OnLine(cip, h.m), r # None,
             cip' = [cip EXCEPT !.idContext[h.m.seq] = None], Settle(r, h.m.request)
      PROVE  WindowInv'
  <2>1. h.m.seq \in SequenceNumbers /\ h.m.request \in Requests
    BY <1>1, MessageParts
  <2>2. Of(toClient) = Of(Tail(toClient)) \cup {h.m}
    BY <1>1, OfTail DEF h
  <2>3. h.m \in Flight
    BY <2>2 DEF Flight
  <2>4. r = h.m.request
    BY <1>1, <1>4, <2>3, NowInWindow DEF Agreed
  <2>5. AnswerIsItsOwn'
    BY <1>4, <2>1, <2>4, OwnAnswer DEF WindowInv
  <2>6. cip'.sent = cip.sent /\ cip'.sendInfo = cip.sendInfo /\ cip'.serial = cip.serial
        /\ cip'.callbacks = cip.callbacks /\ cip'.queue = cip.queue /\ cip'.seq = cip.seq
        /\ cip'.resend = cip.resend
        /\ cip'.idContext = [cip.idContext EXCEPT ![h.m.seq] = None]
    BY <1>1, <1>4 DEF Fields
  <2>7. Flight' \subseteq Flight
    BY <1>1, <2>2, <2>6 DEF Flight
  <2>8. cip.idContext \in [SequenceNumbers -> Requests \cup {None}]
    BY <1>1 DEF Fields
  <2>9. \A s : cip'.idContext[s] \in {None, cip.idContext[s]}
    BY <2>1, <2>6, <2>8
  <2>10. Agreed(cip', Flight') /\ Repeats(cip')
    BY <2>6, <2>7, <2>9, NowInWindow DEF Agreed, OnLine, Repeats
  <2>11. Unspoken(cip', Flight') /\ Headed(cip')
    BY <2>6, <2>7, NowInWindow DEF Unspoken, Headed, Opening, Waits
  <2> QED
    BY <2>5, <2>10, <2>11 DEF WindowInv, InWindow
<1> QED
  BY <1>2, <1>3, <1>4

-----------------------------------------------------------------------------
(* The replies to the layer's own messages, and the ends of a session.       *)
LEMMA NothingInWindow ==
  ASSUME NEW c \in Fields, NEW ms \in SUBSET Messages, Agreed(c, ms),
         NEW d, d.sendInfo = None, d.callbacks = {}, d.serial = c.serial,
         NEW less \in SUBSET ms
  PROVE  InWindow(d, less)
<1>1. c.serial \in Nat /\ None <= c.serial
  BY FieldTypes DEF None
<1>2. \A m \in ms : m.kind = "connected" => m.serial # None
  BY MessageParts, Constants
<1>3. Agreed(d, less)
  BY <1>1, <1>2 DEF Agreed, OnLine
<1>4. Unspoken(d, less) /\ Repeats(d) /\ Headed(d)
  BY DEF Unspoken, Filed, Repeats, Headed, Opening, Waits
<1> QED
  BY <1>3, <1>4 DEF InWindow

(* The connection is reset, with the session or without.                     *)
Resets(c) ==
  /\ cip' = Destroyed(c) \/ SomeArrive(Destroyed(c))
  /\ \/ toClient' \in {toClient, <<>>}
     \/ toClient # <<>> /\ toClient' = Tail(toClient)

LEMMA EndedParts ==
  ASSUME TypeOK, CipInv, NEW c \in Fields, c.serial = cip.serial, c.sent = cip.sent,
         Resets(c)
  PROVE  /\ Flight' \subseteq Flight
         /\ cip'.sendInfo = None /\ cip'.callbacks = {} /\ cip'.serial = cip.serial
         /\ cip'.seq = 0 /\ cip'.queue = <<>> /\ cip'.resend = c.resend
         /\ cip'.idContext = [s \in SequenceNumbers |-> None]
         /\ Len(cip'.sent) <= Len(cip.sent)
<1> DEFINE d == Destroyed(c)
           none == [s \in SequenceNumbers |-> None]
<1>1. d \in Fields /\ d.sendInfo = None /\ d.callbacks = {} /\ d.serial = cip.serial
      /\ d.sent = cip.sent /\ d.seq = 0 /\ d.queue = <<>> /\ d.resend = c.resend
      /\ d.idContext = none
  BY DestroyedParts
<1>2. cip.sent \in Seq(Parcels) /\ Len(cip.sent) \in Nat /\ Sorted(cip.sent)
  BY Now, FieldTypes DEF CipInv, Sound, MailOf, Mail, InLine
<1> HIDE DEF d
<1>3. /\ Of(cip'.sent) \subseteq Of(cip.sent) /\ Len(cip'.sent) <= Len(cip.sent)
      /\ cip'.sendInfo = None /\ cip'.callbacks = {} /\ cip'.serial = cip.serial
      /\ cip'.seq = 0 /\ cip'.queue = <<>> /\ cip'.resend = c.resend
      /\ cip'.idContext = none
  <2>1. CASE cip' = d
    BY <1>1, <1>2, <2>1
  <2>2. CASE SomeArrive(d)
    <3>1. PICK n \in 0 .. Len(d.sent) : cip' = [d EXCEPT !.sent = SubSeq(@, 1, n)]
      BY <2>2 DEF SomeArrive
    <3>2. Of(SubSeq(cip.sent, 1, n)) \subseteq Of(cip.sent)
      BY <1>1, <1>2, <3>1, SortedPrefix
    <3>3. Len(SubSeq(cip.sent, 1, n)) <= Len(cip.sent)
      BY <1>1, <1>2, <3>1
    <3>4. cip'.sendInfo = None /\ cip'.callbacks = {} /\ cip'.serial = cip.serial
          /\ cip'.sent = SubSeq(cip.sent, 1, n) /\ cip'.seq = 0 /\ cip'.queue = <<>>
          /\ cip'.resend = c.resend /\ cip'.idContext = none
      BY <1>1, <3>1 DEF Fields
    <3> QED
      BY <3>2, <3>3, <3>4
  <2> QED
    BY <2>1, <2>2 DEF Resets, d
<1>4. Of(toClient') \subseteq Of(toClient)
  <2>1. CASE toClient # <<>> /\ toClient' = Tail(toClient)
    BY <2>1, Now, OfTail
  <2> QED
    BY <2>1, OfNone DEF Resets
<1> QED
  BY <1>3, <1>4 DEF Flight

LEMMA EndInWindow ==
  ASSUME TypeOK, CipInv, WindowInv, NEW c \in Fields, c.serial = cip.serial, c.sent = cip.sent,
         Resets(c)
  PROVE  InWindow(cip', Flight')
<1>1. PICK b, ms, e, less : b = cip /\ ms = Flight /\ e = cip' /\ less = Flight'
  OBVIOUS
<1>2. /\ b \in Fields /\ ms \in SUBSET Messages /\ Agreed(b, ms) /\ less \in SUBSET ms
      /\ e.sendInfo = None /\ e.callbacks = {} /\ e.serial = b.serial
  BY <1>1, EndedParts, NowInWindow
<1>3. InWindow(e, less)
  BY <1>2, NothingInWindow
<1> QED
  BY <1>1, <1>3

LEMMA DestroyLayerResets ==
  ASSUME toClient # <<>>, NEW c, DestroyLayer(c)
  PROVE  Resets(c) /\ outcome' = RejectAll(outcome)
  BY DEF DestroyLayer, SessionOver, Resets

(* disconnect has ended, or internalDestroy is all that is left to do.       *)
LEMMA FinishCloseResets ==
  ASSUME NEW c, FinishClose(c) \/ (DestroyInClose(c, outcome) /\ toClient' = toClient)
  PROVE  Resets(c) /\ outcome' \in {outcome, RejectAll(outcome)}
  BY DEF FinishClose, DestroyInClose, SessionOver, Resets

LEMMA CloseReplyResets ==
  ASSUME toClient # <<>>, NEW c, NEW h, CloseReply(c, h)
  PROVE  Resets(c) /\ outcome' \in {outcome, RejectAll(outcome)}
  BY DestroyLayerResets, FinishCloseResets DEF CloseReply

(* The ends of a session, and of a close.                                    *)
LEMMA EndsReset ==
  ASSUME SessionFails \/ CloseTimeout \/ Destroys
  PROVE  Resets(cip) /\ answer' = answer /\ outcome' \in {outcome, RejectAll(outcome)}
<1>1. CASE SessionFails
  BY <1>1 DEF SessionFails, SessionOver, Resets
<1>2. CASE CloseTimeout \/ Destroys
  BY <1>2, FinishCloseResets DEF CloseTimeout, Destroys
<1> QED
  BY <1>1, <1>2

(* Messages and replies are lost to an end, and the layer is as it was.      *)
Quits ==
  /\ cip' = cip \/ SomeArrive(cip)
  /\ toClient' \in {toClient, <<>>}

LEMMA QuitsParts ==
  ASSUME TypeOK, CipInv, Quits
  PROVE  /\ Flight' \subseteq Flight /\ Of(cip'.sent) \subseteq Of(cip.sent)
         /\ cip' \in Fields /\ cip'.state = cip.state /\ cip'.sendInfo = cip.sendInfo
         /\ SameBooks(cip, cip') /\ SameQueue(cip, cip') /\ SameWindow(cip, cip')
         /\ SameSettings(cip, cip') /\ cip'.misnamed = cip.misnamed
         /\ Len(cip'.sent) <= Len(cip.sent)
<1>1. cip \in Fields /\ cip.sent \in Seq(Parcels) /\ Len(cip.sent) \in Nat
      /\ toClient \in Seq(Replies)
  BY Now, FieldTypes
<1>2. Sorted(cip.sent)
  BY DEF CipInv, Sound, MailOf, Mail, InLine
<1>3. Of(toClient') \subseteq Of(toClient)
  BY OfNone DEF Quits
<1>4. CASE cip' = cip
  BY <1>1, <1>3, <1>4
     DEF Flight, SameBooks, SameQueue, SameWindow, SameSettings
<1>5. CASE SomeArrive(cip)
  <2>1. PICK n \in 0 .. Len(cip.sent) : cip' = [cip EXCEPT !.sent = SubSeq(@, 1, n)]
    BY <1>5 DEF SomeArrive
  <2>2. PICK p : p = SubSeq(cip.sent, 1, n)
    OBVIOUS
  <2>3. p \in Seq(Parcels) /\ Of(p) \subseteq Of(cip.sent) /\ Len(p) <= Len(cip.sent)
    BY <1>1, <1>2, <2>1, <2>2, SortedPrefix
  <2>4. PICK c, d : c = cip /\ d = cip'
    OBVIOUS
  <2>5. c \in Fields /\ d = [c EXCEPT !.sent = p] /\ p \in Seq(Parcels)
    BY <1>1, <2>1, <2>2, <2>3, <2>4
  <2>6. /\ d \in Fields /\ d.state = c.state /\ d.sendInfo = c.sendInfo
        /\ SameBooks(c, d) /\ SameQueue(c, d) /\ SameWindow(c, d)
        /\ SameSettings(c, d) /\ d.misnamed = c.misnamed /\ d.sent = p
    BY ONLY <2>5 DEF Fields, SameBooks, SameQueue, SameWindow, SameSettings, Parcels
  <2> QED
    BY <1>3, <2>3, <2>4, <2>6 DEF Flight
<1> QED
  BY <1>4, <1>5 DEF Quits

(* disconnect, and what the layers below leave of the messages in the end.   *)
LEMMA BelowClosedQuits ==
  ASSUME BelowClosed
  PROVE  Quits /\ answer' = answer /\ outcome' = outcome
  BY DEF BelowClosed, Quits

LEMMA DisconnectsCases ==
  ASSUME Disconnects
  PROVE  /\ answer' = answer /\ outcome' = outcome
         /\ \/ Quits
            \/ /\ cip' = SendClose([cip EXCEPT !.state = -1, !.resend = {}], "close")
               /\ toClient' = toClient
  BY DEF Disconnects, SessionOver, Quits

LEMMA DestroyLayerInWindow ==
  ASSUME TypeOK, CipInv, WindowInv, toClient # <<>>, NEW c \in Fields, c.serial = cip.serial,
         c.sent = cip.sent, DestroyLayer(c)
  PROVE  InWindow(cip', Flight')
BY DestroyLayerResets, EndInWindow

(* The callback cb takes its reply h, and c is the record without it.        *)
Settled(c, h, ms) ==
  /\ c \in Fields /\ c.state = cip.state /\ c.sendInfo = cip.sendInfo
  /\ c.serial = cip.serial /\ c.sent = cip.sent /\ SameWindow(cip, c) /\ c.queue = cip.queue
  /\ ms = Of(Tail(toClient)) \cup Of(c.sent) /\ ms \in SUBSET Messages
  /\ InWindow(c, ms) /\ Numbered(c.callbacks, c.context, c.serial, ms)
  /\ h.m.kind = "open" =>
       /\ h.m.serial \in Serials /\ h.m.serial <= c.serial
       /\ \A m \in ms : \/ m.kind = "open" /\ Filed(c.callbacks, m)
                        \/ m.kind = "connected"
                        => m.serial # h.m.serial

LEMMA ReplySettled ==
  ASSUME TypeOK, CipInv, WindowInv, toClient # <<>>, NEW h, h = Head(toClient), Internal(h.m),
         NEW cb \in cip.callbacks, cb.id = h.m.id,
         NEW left, \A b : b \in left <=> b \in cip.callbacks /\ b.id # h.m.id,
         NEW c, c = [cip EXCEPT !.callbacks = left],
         NEW ms, ms = Of(Tail(toClient)) \cup Of(c.sent)
  PROVE  Settled(c, h, ms)
<1>1. cip \in Fields /\ toClient \in Seq(Replies) /\ h \in Replies
  BY Now
<1>2. left \in SUBSET [id : Nat, purpose : {"open", "close", "reclose"}]
  BY <1>1 DEF Fields
<1>3. c \in Fields /\ c.state = cip.state /\ c.sendInfo = cip.sendInfo /\ c.serial = cip.serial
      /\ c.sent = cip.sent /\ SameWindow(cip, c) /\ c.queue = cip.queue
      /\ c.callbacks = left /\ c.context = cip.context
  BY <1>1, <1>2 DEF Fields, SameWindow
<1>4. Of(toClient) = Of(Tail(toClient)) \cup {h.m}
  BY <1>1, OfTail
<1>5. ms \in SUBSET Flight /\ h.m \in Flight
  BY <1>3, <1>4 DEF Flight
<1>6. ms \in SUBSET Messages /\ h.m \in Messages
  BY <1>5, NowInWindow
<1>7. InWindow(c, ms)
  <2>1. PICK b, more : b = cip /\ more = Flight
    OBVIOUS
  <2>2. InWindow(b, more) /\ ms \in SUBSET more /\ c.sendInfo = b.sendInfo
        /\ c.serial = b.serial /\ SameWindow(b, c) /\ c.queue = b.queue
        /\ c.callbacks \subseteq b.callbacks
    BY <1>3, <1>5, <2>1 DEF WindowInv
  <2> QED
    BY <2>2, LessInWindow
<1>8. Numbered(c.callbacks, c.context, c.serial, ms)
  BY <1>3, <1>5, NowInWindow DEF Numbered
<1>9. ASSUME h.m.kind = "open"
      PROVE  /\ h.m.serial \in Serials /\ h.m.serial <= c.serial
             /\ \A m \in ms : \/ m.kind = "open" /\ Filed(c.callbacks, m)
                              \/ m.kind = "connected"
                              => m.serial # h.m.serial
  <2>1. h.m.serial \in Serials /\ h.m.serial \in Nat
    BY <1>6, <1>9, MessageParts, Constants
  <2>2. h.m.serial <= c.serial
    BY <1>3, <1>5, NowInWindow DEF Numbered
  <2>3. Filed(cip.callbacks, h.m)
    BY DEF Filed
  <2>4. ASSUME NEW m \in ms, m.kind = "connected" PROVE m.serial # h.m.serial
    BY <1>5, <1>9, <2>3, <2>4, NowInWindow DEF Unspoken
  <2>5. ASSUME NEW m \in ms, m.kind = "open" PROVE m.serial # h.m.serial
    <3>1. Before(h.m, m)
      <4>1. InLine(cip.sent, toClient)
        BY DEF CipInv, Sound, MailOf, Mail
      <4>2. ASSUME m \in Of(cip.sent) PROVE Before(h.m, m)
        BY <1>4, <4>1, <4>2 DEF InLine
      <4>3. ASSUME m \in Of(Tail(toClient)) PROVE Before(h.m, m)
        <5>1. PICK i \in DOMAIN Tail(toClient) : Tail(toClient)[i].m = m
          BY <4>3 DEF Of
        <5>2. i + 1 \in DOMAIN toClient /\ toClient[i + 1].m = m /\ 1 \in DOMAIN toClient
              /\ toClient[1] = h
          BY <1>1, <5>1, OfTail
        <5>3. i \in Nat /\ 1 < i + 1
          BY <1>1, <5>1
        <5> QED
          BY <4>1, <5>2, <5>3 DEF InLine, Sorted
      <4> QED
        BY <1>3, <4>2, <4>3
    <3>2. m.serial \in Nat
      BY <1>6, <2>5, MessageParts, Constants
    <3> QED
      BY <1>9, <2>1, <2>5, <3>1, <3>2 DEF Before, Internal
  <2> QED
    BY <2>1, <2>2, <2>4, <2>5
<1> QED
  BY <1>3, <1>6, <1>7, <1>8, <1>9 DEF Settled

LEMMA ContinueInWindow ==
  ASSUME NEW d, Continue(d), InWindow(d, Of(Tail(toClient)) \cup Of(d.sent))
  PROVE  InWindow(cip', Flight')
<1>1. cip' = d /\ toClient' = Tail(toClient)
  BY DEF Continue
<1> QED
  BY <1>1 DEF Flight

(* The fallback, or the recovery, connects.                                  *)
LEMMA ConnectInWindow ==
  ASSUME TypeOK, toClient # <<>>, NEW h, NEW c, NEW ms, Settled(c, h, ms),
         c.sendInfo = None => c.queue # <<>> /\ Head(c.queue) \in Connected,
         NEW e \in Fields, e.state = 0, SameBooks(c, e), e.sent = c.sent,
         SameWindow(c, e), e.sendInfo = c.sendInfo, e.queue = c.queue,
         Continue(Connect(e)), cip'.serial <= MaxSerial
  PROVE  InWindow(cip', Flight')
<1> DEFINE d == Connect(e)
<1>1. session \in 1 .. MaxSessions /\ toClient \in Seq(Replies)
  BY Now
<1>2. d.serial <= MaxSerial
  BY DEF Continue
<1>3. d \in Fields /\ Connects(e, d)
  BY <1>1, <1>2, ConnectParts
<1> HIDE DEF d
<1>4. AsksToOpen(e, d) /\ SameWindow(e, d) /\ d.sendInfo = e.sendInfo /\ d.queue = e.queue
  BY <1>3 DEF Connects, SameQueue
<1>5. ms \in SUBSET Messages /\ Agreed(e, ms) /\ Unspoken(e, ms) /\ Repeats(e)
      /\ Numbered(e.callbacks, e.context, e.serial, ms)
  <2>1. Numbered(c.callbacks, c.context, c.serial, ms) /\ ms \in SUBSET Messages
    BY DEF Settled
  <2>2. Agreed(c, ms) /\ Unspoken(c, ms) /\ Repeats(c)
    BY DEF Settled, InWindow
  <2> QED
    BY <2>1, <2>2 DEF Agreed, Unspoken, Repeats, OnLine, SameWindow, SameBooks
<1>6. InWindow(d, ms \cup {OpenMessage(e)})
  BY <1>1, <1>3, <1>4, <1>5, OpenInWindow
<1>7. Of(d.sent) = Of(e.sent) \cup {OpenMessage(e)}
  <2>1. PICK m \in Messages : m = OpenMessage(e) /\ d.sent = Posted(e, m)
    BY <1>4 DEF AsksToOpen
  <2> QED
    BY <1>1, <2>1, OfPosted
<1>8. Of(Tail(toClient)) \cup Of(d.sent) = ms \cup {OpenMessage(e)}
  BY <1>7 DEF Settled
<1> QED
  BY <1>6, <1>8, ContinueInWindow DEF d

LEMMA OpenReplyInWindow ==
  ASSUME TypeOK, CipInv, WindowInv, toClient # <<>>, NEW h, NEW c, NEW ms, Settled(c, h, ms),
         Opening(cip), h.m.kind = "open", OpenReply(c, h), cip'.serial <= MaxSerial
  PROVE  InWindow(cip', Flight')
<1> DEFINE t == Tail(toClient)
<1>1. /\ c \in Fields /\ c.sendInfo = cip.sendInfo /\ c.queue = cip.queue
      /\ c.serial = cip.serial /\ c.sent = cip.sent
      /\ ms = Of(t) \cup Of(c.sent) /\ ms \in SUBSET Messages
      /\ Agreed(c, ms) /\ Unspoken(c, ms) /\ Repeats(c) /\ InWindow(c, ms)
      /\ Numbered(c.callbacks, c.context, c.serial, ms)
  BY DEF Settled, InWindow
<1>2. c.sendInfo = None => c.queue # <<>> /\ Head(c.queue) \in Connected
  BY <1>1, NowInWindow DEF Headed
<1>3. t \in Seq(Replies) /\ session \in 1 .. MaxSessions
  BY Now
<1> HIDE DEF t
<1>4. CASE h.status = "ok" /\ c.state = 1
  <2> DEFINE e == [c EXCEPT !.sendInfo = h.m.serial, !.state = 2]
  <2>1. h.m.serial \in Serials /\ h.m.serial <= c.serial
        /\ \A m \in ms : \/ m.kind = "open" /\ Filed(c.callbacks, m)
                         \/ m.kind = "connected"
                         => m.serial # h.m.serial
    BY DEF Settled
  <2>2. e \in Fields /\ e.state = 2 /\ e.sendInfo = h.m.serial /\ SameBooks(c, e)
        /\ e.sent = c.sent /\ SameWindow(c, e) /\ e.queue = c.queue
    BY <1>1, <2>1 DEF Fields, SameBooks, SameWindow
  <2>3. Continue(SendNext(e))
    BY <1>4 DEF OpenReply
  <2>4. SendNext(e).serial <= MaxSerial
    BY <2>3 DEF Continue
  <2> HIDE DEF e
  <2>5. e.sendInfo # None
    BY <2>1, <2>2, Constants
  <2>6. Agreed(e, ms) /\ Unused(e, ms)
    BY <1>1, <2>1, <2>2 DEF Agreed, Unused, OnLine, SameBooks
  <2>7. Unspoken(e, ms)
    BY <1>1, <2>1, <2>2 DEF Unspoken, SameBooks
  <2>8. Headed(e)
    BY <2>5 DEF Headed
  <2>9. e.queue = <<>> => Repeats(e)
    BY <1>1, <1>2, <2>2 DEF Repeats, SameWindow
  <2>10. Numbered(e.callbacks, e.context, e.serial, ms)
    BY <1>1, <2>2 DEF SameBooks
  <2>11. ms = Of(t) \cup Of(e.sent)
    BY <1>1, <2>2
  <2>12. InWindow(SendNext(e), Of(t) \cup Of(SendNext(e).sent))
    BY <1>3, <2>2, <2>4, <2>5, <2>6, <2>7, <2>8, <2>9, <2>10, <2>11, SendNextInWindow
  <2> QED
    BY <2>3, <2>12, ContinueInWindow DEF t
<1>5. CASE h.status = "ok" /\ c.state # 1
  <2>1. Continue(c)
    BY <1>5 DEF OpenReply
  <2> QED
    BY <1>1, <2>1, ContinueInWindow DEF t
<1>6. CASE h.status = "unsupported"
  <2> DEFINE e == [c EXCEPT !.state = 0, !.large = FALSE]
  <2>1. e \in Fields /\ e.state = 0 /\ SameBooks(c, e) /\ e.sent = c.sent
        /\ SameWindow(c, e) /\ e.sendInfo = c.sendInfo /\ e.queue = c.queue
    BY <1>1 DEF Fields, SameBooks, SameWindow
  <2>2. Continue(Connect(e))
    BY <1>6 DEF OpenReply
  <2> HIDE DEF e
  <2> QED
    BY <1>2, <2>1, <2>2, ConnectInWindow
<1>7. CASE h.status = "duplicate" /\ ~c.again
  <2> DEFINE e == [c EXCEPT !.state = 0, !.again = TRUE,
                            !.misnamed = @ \/ c.serial # h.m.serial]
             d == SendClose(e, "reclose")
  <2>1. e \in Fields /\ e.state = 0 /\ SameBooks(c, e) /\ e.sent = c.sent
        /\ SameWindow(c, e) /\ e.sendInfo = c.sendInfo /\ e.queue = c.queue
    BY <1>1 DEF Fields, SameBooks, SameWindow
  <2>2. Continue(d)
    BY <1>7 DEF OpenReply
  <2> HIDE DEF e
  <2>3. d \in Fields /\ d.sendInfo = e.sendInfo /\ SameWindow(e, d) /\ SameQueue(e, d)
        /\ AsksToClose(e, d, "reclose")
    BY <1>3, <2>1, SendCloseParts
  <2> HIDE DEF d
  <2>4. Agreed(e, ms) /\ Unspoken(e, ms) /\ Repeats(e)
        /\ Numbered(e.callbacks, e.context, e.serial, ms)
    BY <1>1, <2>1 DEF Agreed, Unspoken, Repeats, OnLine, SameWindow, SameBooks
  <2>5. Headed(d)
    BY <1>2, <2>1, <2>3 DEF Headed, SameQueue
  <2>6. InWindow(d, ms \cup {CloseMessage(e)})
    BY <1>1, <1>3, <2>1, <2>3, <2>4, <2>5, CloseInWindow DEF SameQueue
  <2>7. Of(d.sent) = Of(e.sent) \cup {CloseMessage(e)}
    <3>1. PICK m \in Messages : m = CloseMessage(e) /\ d.sent = Posted(e, m)
      BY <2>3 DEF AsksToClose
    <3> QED
      BY <1>3, <2>1, <3>1, OfPosted
  <2>8. Of(t) \cup Of(d.sent) = ms \cup {CloseMessage(e)}
    BY <1>1, <2>1, <2>7
  <2> QED
    BY <2>2, <2>6, <2>8, ContinueInWindow DEF t
<1>8. CASE DestroyLayer(c)
  BY <1>1, <1>8, DestroyLayerInWindow
<1> QED
  BY <1>4, <1>5, <1>6, <1>7, <1>8 DEF OpenReply

LEMMA RecloseReplyInWindow ==
  ASSUME TypeOK, CipInv, WindowInv, toClient # <<>>, NEW h, NEW c, NEW ms, Settled(c, h, ms),
         Opening(cip), RecloseReply(c, h), cip'.serial <= MaxSerial
  PROVE  InWindow(cip', Flight')
<1>1. c \in Fields /\ c.sendInfo = cip.sendInfo /\ c.queue = cip.queue
      /\ c.serial = cip.serial /\ c.sent = cip.sent
  BY DEF Settled
<1>2. c.sendInfo = None => c.queue # <<>> /\ Head(c.queue) \in Connected
  BY <1>1, NowInWindow DEF Headed
<1>3. CASE h.status = "ok"
  <2> DEFINE e == [c EXCEPT !.state = 0, !.again = FALSE]
  <2>1. e \in Fields /\ e.state = 0 /\ SameBooks(c, e) /\ e.sent = c.sent
        /\ SameWindow(c, e) /\ e.sendInfo = c.sendInfo /\ e.queue = c.queue
    BY <1>1 DEF Fields, SameBooks, SameWindow
  <2>2. Continue(Connect(e))
    BY <1>3 DEF RecloseReply
  <2> HIDE DEF e
  <2> QED
    BY <1>2, <2>1, <2>2, ConnectInWindow
<1>4. CASE DestroyLayer(c)
  BY <1>1, <1>4, DestroyLayerInWindow
<1> QED
  BY <1>3, <1>4 DEF RecloseReply

LEMMA RejectedOwnAnswer ==
  ASSUME TypeOK, AnswerIsItsOwn, answer' = answer,
         outcome' \in {outcome, RejectAll(outcome)}
  PROVE  AnswerIsItsOwn'
  BY DEF AnswerIsItsOwn, RejectAll

(* The reply is for nobody any more, or settles a callback.                  *)
LEMMA InternalReplyCases ==
  ASSUME TypeOK, CipInv, WindowInv, InternalReply
  PROVE  /\ toClient # <<>> /\ NoMicrotask /\ cip'.serial <= MaxSerial /\ answer' = answer
         /\ \/ /\ toClient' = Tail(toClient)
               /\ UNCHANGED <<cip, outcome, closing, due, session>>
            \/ \E h, c, ms :
                 /\ Settled(c, h, ms)
                 /\ \/ h.m.kind = "open" /\ Opening(cip) /\ OpenReply(c, h)
                    \/ Opening(cip) /\ RecloseReply(c, h)
                    \/ CloseReply(c, h)
<1> DEFINE h == Head(toClient)
           onFile == {cb \in cip.callbacks : cb.id = h.m.id}
           c == [cip EXCEPT !.callbacks = @ \ onFile]
<1>1. /\ toClient # <<>> /\ NoMicrotask /\ Internal(h.m) /\ cip'.serial <= MaxSerial
      /\ answer' = answer
      /\ \/ /\ onFile = {} /\ toClient' = Tail(toClient)
            /\ UNCHANGED <<cip, outcome, closing, due, session>>
         \/ \E cb \in onFile :
              \/ cb.purpose = "open" /\ OpenReply(c, h)
              \/ cb.purpose = "reclose" /\ RecloseReply(c, h)
              \/ cb.purpose = "close" /\ CloseReply(c, h)
  BY DEF InternalReply, Internal
<1>2. PICK ms : ms = Of(Tail(toClient)) \cup Of(c.sent)
  OBVIOUS
<1>3. ASSUME NEW cb \in onFile
      PROVE  Settled(c, h, ms) /\ (h.m.kind = "open" <=> cb.purpose = "open")
  <2> HIDE DEF h
  <2>1. h = Head(toClient) /\ cb \in cip.callbacks /\ cb.id = h.m.id
    BY <1>3 DEF h
  <2>2. PICK left : left = cip.callbacks \ onFile
    OBVIOUS
  <2>3. c = [cip EXCEPT !.callbacks = left]
        /\ \A b : b \in left <=> b \in cip.callbacks /\ b.id # h.m.id
    BY <2>2
  <2> HIDE DEF c
  <2>4. toClient # <<>> /\ Internal(h.m)
    BY <1>1
  <2>5. Settled(c, h, ms)
    BY <1>2, <2>1, <2>3, <2>4, ReplySettled
  <2>6. Takes(c, h, cb)
    BY <1>1, <2>1, <2>3, <2>4, CallbackTaken
  <2> QED
    BY <2>5, <2>6 DEF Takes
<1>4. \A cb \in onFile : cb \in cip.callbacks
  OBVIOUS
<1> HIDE DEF c, h, onFile
<1>5. ASSUME NEW cb \in onFile, cb.purpose = "open", OpenReply(c, h)
      PROVE  Settled(c, h, ms) /\ h.m.kind = "open" /\ Opening(cip)
  BY <1>3, <1>4, <1>5 DEF Opening, Waits
<1>6. ASSUME NEW cb \in onFile, cb.purpose = "reclose", RecloseReply(c, h)
      PROVE  Settled(c, h, ms) /\ Opening(cip)
  BY <1>3, <1>4, <1>6 DEF Opening, Waits
<1> QED
  BY <1>1, <1>3, <1>5, <1>6

LEMMA InternalReplyInWindow ==
  ASSUME TypeOK, CipInv, WindowInv, InternalReply
  PROVE  WindowInv'
<1>1. toClient # <<>> /\ cip'.serial <= MaxSerial /\ answer' = answer
  BY InternalReplyCases
<1>2. CASE toClient' = Tail(toClient) /\ cip' = cip /\ outcome' = outcome
  BY <1>1, <1>2, DropInWindow DEF WindowInv, AnswerIsItsOwn
<1>3. ASSUME NEW h, NEW c, NEW ms, Settled(c, h, ms), Opening(cip),
             (h.m.kind = "open" /\ OpenReply(c, h)) \/ RecloseReply(c, h)
      PROVE  WindowInv'
  <2>1. InWindow(cip', Flight')
    BY <1>1, <1>3, OpenReplyInWindow, RecloseReplyInWindow
  <2>2. outcome' \in {outcome, RejectAll(outcome)}
    BY <1>3 DEF OpenReply, RecloseReply, Continue, DestroyLayer
  <2> QED
    BY <1>1, <2>1, <2>2, RejectedOwnAnswer DEF WindowInv
<1>4. ASSUME NEW h, NEW c, NEW ms, Settled(c, h, ms), CloseReply(c, h) PROVE WindowInv'
  <2>1. c \in Fields /\ c.serial = cip.serial /\ c.sent = cip.sent
    BY <1>4 DEF Settled
  <2>2. Resets(c) /\ outcome' \in {outcome, RejectAll(outcome)}
    BY <1>1, <1>4, CloseReplyResets
  <2> QED
    BY <1>1, <2>1, <2>2, EndInWindow, RejectedOwnAnswer DEF WindowInv
<1> QED
  BY <1>2, <1>3, <1>4, InternalReplyCases

LEMMA EndsInWindow ==
  ASSUME TypeOK, CipInv, WindowInv, SessionFails \/ CloseTimeout \/ Destroys
  PROVE  WindowInv'
<1>1. Resets(cip) /\ answer' = answer /\ outcome' \in {outcome, RejectAll(outcome)}
  BY EndsReset
<1> QED
  BY <1>1, Now, EndInWindow, RejectedOwnAnswer DEF WindowInv

LEMMA CloseLayersInWindow ==
  ASSUME TypeOK, WindowInv, CloseLayers
  PROVE  WindowInv'
<1>1. UNCHANGED <<cip, toClient, answer>> /\ outcome' = RejectAll(outcome)
  BY DEF CloseLayers
<1> QED
  BY <1>1, RejectedOwnAnswer DEF WindowInv, InWindow, Agreed, Unspoken, Repeats, Headed,
     Opening, Waits, OnLine, Filed, Flight

LEMMA QuitsInWindow ==
  ASSUME TypeOK, CipInv, WindowInv, Quits
  PROVE  InWindow(cip', Flight')
BY QuitsParts, FewerInWindow DEF SameBooks, SameQueue

LEMMA BelowClosedInWindow ==
  ASSUME TypeOK, CipInv, WindowInv, BelowClosed
  PROVE  WindowInv'
BY BelowClosedQuits, QuitsInWindow, RejectedOwnAnswer DEF WindowInv

LEMMA DisconnectsInWindow ==
  ASSUME TypeOK, CipInv, WindowInv, Disconnects
  PROVE  WindowInv'
<1>1. answer' = answer /\ outcome' = outcome
  BY DisconnectsCases
<1>2. CASE Quits
  BY <1>1, <1>2, QuitsInWindow, RejectedOwnAnswer DEF WindowInv
<1>3. ASSUME cip' = SendClose([cip EXCEPT !.state = -1, !.resend = {}], "close"),
             toClient' = toClient
      PROVE  WindowInv'
  <2> DEFINE e == [cip EXCEPT !.state = -1, !.resend = {}]
             d == SendClose(e, "close")
  <2>1. cip \in Fields /\ session \in 1 .. MaxSessions
    BY Now
  <2>2. e \in Fields /\ SameBooks(cip, e) /\ e.sent = cip.sent /\ e.sendInfo = cip.sendInfo
        /\ e.queue = cip.queue /\ e.idContext = cip.idContext /\ e.resend = {}
    BY <2>1 DEF Fields, SameBooks
  <2> HIDE DEF e
  <2>3. d \in Fields /\ d.sendInfo = e.sendInfo /\ SameWindow(e, d) /\ SameQueue(e, d)
        /\ AsksToClose(e, d, "close")
    BY <2>1, <2>2, SendCloseParts
  <2> HIDE DEF d
  <2>4. PICK ms : ms = Flight
    OBVIOUS
  <2>5. Agreed(e, ms) /\ Unspoken(e, ms) /\ Repeats(e) /\ ms \in SUBSET Messages
        /\ Numbered(e.callbacks, e.context, e.serial, ms)
    BY <2>2, <2>4, NowInWindow DEF Agreed, Unspoken, Repeats, OnLine, SameBooks
  <2>6. Opening(d) => Opening(cip)
    BY <2>2, <2>3 DEF Opening, Waits, AsksToClose, SameBooks, Callback
  <2>7. Headed(d)
    BY <2>2, <2>3, <2>6, NowInWindow DEF Headed, SameQueue
  <2>8. InWindow(d, ms \cup {CloseMessage(e)})
    BY <2>1, <2>2, <2>3, <2>5, <2>7, CloseInWindow DEF SameQueue
  <2>9. Of(d.sent) = Of(e.sent) \cup {CloseMessage(e)}
    <3>1. PICK m \in Messages : m = CloseMessage(e) /\ d.sent = Posted(e, m)
      BY <2>3 DEF AsksToClose
    <3> QED
      BY <2>1, <2>2, <3>1, OfPosted
  <2>10. cip' = d
    BY <1>3 DEF d, e
  <2>11. Flight' = ms \cup {CloseMessage(e)}
    BY <1>3, <2>2, <2>4, <2>9, <2>10 DEF Flight
  <2> QED
    BY <1>1, <2>8, <2>10, <2>11, RejectedOwnAnswer DEF WindowInv
<1> QED
  BY <1>2, <1>3, DisconnectsCases

-----------------------------------------------------------------------------
LEMMA InitInWindow == Init => WindowInv
<1> SUFFICES ASSUME Init PROVE WindowInv
  OBVIOUS
<1>1. cip.sendInfo = None /\ cip.serial = 0 /\ cip.callbacks = {} /\ cip.sent = <<>>
      /\ toClient = <<>> /\ \A r \in Requests : outcome[r] = "idle"
  BY DEF Init
<1>2. Flight = {}
  BY <1>1 DEF Flight, Of
<1>3. Agreed(cip, Flight)
  BY <1>1, <1>2 DEF Agreed, None
<1>4. Unspoken(cip, Flight) /\ Repeats(cip) /\ Headed(cip)
  BY <1>1, <1>2 DEF Unspoken, Repeats, Headed, Opening, Waits
<1> QED
  BY <1>1, <1>3, <1>4 DEF WindowInv, InWindow, AnswerIsItsOwn

LEMMA StepInWindow ==
  TypeOK /\ CipInv /\ WindowInv /\ NoReuse /\ [Next]_vars => WindowInv'
<1> SUFFICES ASSUME TypeOK, CipInv, WindowInv, NoReuse, [Next]_vars PROVE WindowInv'
  OBVIOUS
<1>1. ASSUME NEW r \in Requests, Issue(r) PROVE WindowInv'
  BY <1>1, IssueInWindow
<1>2. CASE Tick
  BY <1>2, TickInWindow
<1>3. CASE Resend
  BY <1>3, ResendInWindow
<1>4. CASE Device
  BY <1>4, DeviceInWindow
<1>5. CASE Expire \/ UNCHANGED vars
  BY <1>5, ExpireInWindow
<1>6. CASE Lose
  BY <1>6, LoseInWindow
<1>7. CASE InternalReply
  BY <1>7, InternalReplyInWindow
<1>8. CASE UnconnectedReply
  BY <1>8, UnconnectedReplyInWindow
<1>9. CASE ConnectedReply
  BY <1>9, ConnectedReplyInWindow
<1>10. CASE SessionFails \/ CloseTimeout \/ Destroys
  BY <1>10, EndsInWindow
<1>11. CASE CloseLayers
  BY <1>11, CloseLayersInWindow
<1>12. CASE Disconnects
  BY <1>12, DisconnectsInWindow
<1>13. CASE BelowClosed
  BY <1>13, BelowClosedInWindow
<1> QED
  BY <1>1, <1>2, <1>3, <1>4, <1>5, <1>6, <1>7, <1>8, <1>9, <1>10, <1>11, <1>12, <1>13 DEF Next

(* On the connection in use, a message and the context on file under its     *)
(* sequence count belong to one request, and every answer was its own.       *)
THEOREM WindowAgrees == Spec /\ []NoReuse => []WindowInv
  BY InitInWindow, StepInWindow, LayerIsSound, PTL DEF Spec

-----------------------------------------------------------------------------
(* A step of this layer is one of RequestService.                            *)
ServiceOutcome ==
  [r \in Requests |-> IF outcome[r] = "answered" /\ answer[r] # r THEN "mistaken" ELSE outcome[r]]

LEMMA InitServes == Init => Service!Init
  BY DEF Init, Service!Init

LEMMA SettleServes ==
  ASSUME TypeOK, NEW r \in Requests, Settle(r, r)
  PROVE  [Service!Next]_ServiceOutcome
<1>1. CASE outcome[r] = "pending"
  <2>1. ServiceOutcome[r] = "pending"
        /\ ServiceOutcome' = [ServiceOutcome EXCEPT ![r] = "answered"]
    BY <1>1 DEF ServiceOutcome, TypeOK, Settle
  <2> QED
    BY <2>1 DEF Service!Next, Service!Answer, ServiceOutcome
<1>2. CASE outcome[r] # "pending"
  BY <1>2 DEF ServiceOutcome, Settle
<1> QED
  BY <1>1, <1>2

LEMMA RejectServes ==
  ASSUME TypeOK, answer' = answer,
         outcome' \in {outcome, RejectAll(outcome)}
  PROVE  [Service!Next]_ServiceOutcome
<1>1. CASE outcome' = outcome
  BY <1>1 DEF ServiceOutcome
<1>2. CASE outcome' # outcome
  <2> DEFINE rejected == {r \in Requests : ServiceOutcome[r] = "pending"}
  <2>1. \A r \in Requests :
          outcome'[r] = IF outcome[r] = "pending" THEN "rejected" ELSE outcome[r]
    BY <1>2 DEF RejectAll
  <2>2. ServiceOutcome' = [r \in Requests |-> CASE r \in rejected -> "rejected"
                                                [] r \in {} -> "pending"
                                                [] OTHER -> ServiceOutcome[r]]
    BY <2>1 DEF ServiceOutcome
  <2>3. rejected \in SUBSET {r \in Requests : ServiceOutcome[r] = "pending"}
        /\ {} \in SUBSET {r \in Requests : ServiceOutcome[r] = "idle"}
    OBVIOUS
  <2>4. Service!Reject
    BY ONLY <2>2, <2>3 DEF Service!Reject, ServiceOutcome
  <2> QED
    BY <2>4 DEF Service!Next
<1> QED
  BY <1>1, <1>2

LEMMA StepServes ==
  ASSUME TypeOK, CipInv, WindowInv, [Next]_vars
  PROVE  [Service!Next]_ServiceOutcome
<1>1. ASSUME NEW r \in Requests, Issue(r) PROVE [Service!Next]_ServiceOutcome
  <2>1. outcome[r] = "idle" /\ outcome' = [outcome EXCEPT ![r] = "pending"] /\ answer' = answer
    BY <1>1 DEF Issue
  <2>2. ServiceOutcome[r] = "idle"
        /\ ServiceOutcome' = [ServiceOutcome EXCEPT ![r] = "pending"]
    BY <2>1 DEF ServiceOutcome, TypeOK
  <2> QED
    BY <2>2 DEF Service!Next, Service!Issue, ServiceOutcome
<1>2. CASE UnconnectedReply
  <2> DEFINE h == Head(toClient)
  <2>1. h \in Replies /\ h.m.kind = "unconnected" /\ Settle(h.m.request, h.m.request)
    BY <1>2, Now DEF UnconnectedReply
  <2>2. h.m \in Messages
    BY <2>1 DEF Replies
  <2>3. h.m.request \in Requests
    BY <2>1, <2>2, MessageParts
  <2> QED
    BY <2>1, <2>3, SettleServes
<1>3. CASE ConnectedReply
  <2> DEFINE h == Head(toClient)
             r == cip.idContext[h.m.seq]
  <2>1. toClient \in Seq(Replies) /\ toClient # <<>> /\ h.m.kind = "connected"
    BY <1>3, Now DEF ConnectedReply
  <2>2. h \in Replies /\ Of(toClient) = Of(Tail(toClient)) \cup {h.m}
    BY <2>1, OfTail
  <2>3. h.m \in Messages /\ h.m \in Flight
    BY <2>2 DEF Replies, Flight
  <2>4. h.m.request \in Requests
    BY <2>1, <2>3, MessageParts
  <2>5. \/ UNCHANGED <<outcome, answer>>
        \/ OnLine(cip, h.m) /\ r # None /\ Settle(r, h.m.request)
    BY <1>3 DEF ConnectedReply, OnLine
  <2> HIDE DEF h
  <2>6. OnLine(cip, h.m) => r \in {None, h.m.request}
    BY <2>1, <2>3, NowInWindow DEF Agreed
  <2>7. CASE UNCHANGED <<outcome, answer>>
    BY <2>7 DEF ServiceOutcome
  <2> QED
    BY <2>4, <2>5, <2>6, <2>7, SettleServes
<1>4. CASE Tick \/ Resend \/ Device \/ Expire \/ Lose \/ UNCHANGED vars
  <2>1. UNCHANGED <<outcome, answer>>
    BY <1>4 DEF Tick, Resend, Device, Expire, Lose, vars, history
  <2> QED
    BY <2>1 DEF ServiceOutcome
<1>5. CASE InternalReply
  <2>1. answer' = answer /\ outcome' \in {outcome, RejectAll(outcome)}
    BY <1>5 DEF InternalReply, OpenReply, RecloseReply, CloseReply, Continue, DestroyLayer,
                FinishClose, DestroyInClose
  <2> QED
    BY <2>1, RejectServes
<1>6. CASE SessionFails \/ CloseTimeout \/ Destroys \/ CloseLayers \/ Disconnects \/ BelowClosed
  <2>1. answer' = answer /\ outcome' \in {outcome, RejectAll(outcome)}
    BY <1>6, EndsReset, BelowClosedQuits, DisconnectsCases DEF CloseLayers
  <2> QED
    BY <2>1, RejectServes
<1> QED
  BY <1>1, <1>2, <1>3, <1>4, <1>5, <1>6 DEF Next

(* The CIP connection layer implements RequestService: every request is      *)
(* settled at most once, by the device's reply to itself or with an error.   *)
THEOREM EveryAnswerIsItsOwn == Spec /\ []NoReuse => ImplementsService
<1>1. Init => Service!Init
  BY InitServes
<1>2. TypeOK /\ CipInv /\ WindowInv /\ [Next]_vars => [Service!Next]_ServiceOutcome
  BY StepServes
<1> QED
  BY <1>1, <1>2, WindowAgrees, LayerIsSound, PTL
  DEF Spec, ImplementsService, Service!Spec, ServiceOutcome

-----------------------------------------------------------------------------
(* Few requests need no sequence count twice: from its reset on, the count   *)
(* moves on by one for each request sent on a connection.                    *)
FewRequests == IsFiniteSet(Requests) /\ Cardinality(Requests) <= SequenceCounts

Remaining(c, idle) == idle \cup Waiting(c)

(* A request waits once, and after it was issued.                            *)
Once(c, idle) ==
  \A i \in 1 .. Len(c.queue) :
    /\ c.queue[i] \notin idle
    /\ \A j \in 1 .. Len(c.queue) : c.queue[i] = c.queue[j] => i = j

(* What was sent on the connection was sent under the counts up to now.      *)
Spent(c, ms) == \A m \in ms : OnLine(c, m) => m.seq \in 1 .. c.seq
Started(c) == c.sendInfo # None /\ c.resend # {} => c.seq # 0

Counted(c, ms, idle) ==
  /\ Once(c, idle)
  /\ Cardinality(Remaining(c, idle)) + c.seq <= SequenceCounts
  /\ Remaining(c, idle) # {} => Spent(c, ms) /\ Started(c)

CountInv == Counted(cip, Flight, Idle)

LEMMA RemainingCount ==
  ASSUME FewRequests, NEW c \in Fields, NEW idle \in SUBSET Requests
  PROVE  /\ Remaining(c, idle) \in SUBSET Requests /\ IsFiniteSet(Remaining(c, idle))
         /\ Cardinality(Remaining(c, idle)) \in Nat
         /\ Cardinality(Remaining(c, idle)) <= SequenceCounts
         /\ c.seq \in 0 .. SequenceCounts - 1 /\ SequenceCounts \in Nat
         /\ Remaining(c, idle) # {} => Cardinality(Remaining(c, idle)) >= 1
<1> DEFINE U == Remaining(c, idle)
<1>1. c.queue \in Seq(Requests) /\ c.seq \in 0 .. SequenceCounts - 1
  BY DEF Fields, SequenceNumbers
<1>2. U \in SUBSET Requests
  BY <1>1 DEF Remaining, Waiting
<1> HIDE DEF U
<1>3. IsFiniteSet(U) /\ Cardinality(U) \in Nat /\ Cardinality(U) <= Cardinality(Requests)
  BY <1>2, FS_Subset, FS_CardinalityType DEF FewRequests
<1>4. Cardinality(Requests) \in Nat /\ SequenceCounts \in Nat
  BY FS_CardinalityType, Constants DEF FewRequests
<1>5. U # {} => Cardinality(U) # 0
  BY <1>3, FS_EmptySet
<1> QED
  BY <1>1, <1>2, <1>3, <1>4, <1>5 DEF FewRequests, U

LEMMA NextCountIs ==
  ASSUME NEW n \in Nat \ {0}, NEW k \in 0 .. n - 1
  PROVE  (k + 1) % n = IF k + 1 = n THEN 0 ELSE k + 1
<1>1. CASE k + 1 = n
  BY <1>1
<1>2. CASE k + 1 < n
  BY <1>2
<1> QED
  BY <1>1, <1>2

LEMMA CountsAreNew ==
  ASSUME FewRequests, TypeOK, CountInv
  PROVE  NoReuse
<1>1. cip \in Fields /\ Idle \in SUBSET Requests /\ Unsent = Remaining(cip, Idle)
  BY Now DEF Idle, Unsent, Remaining
<1> SUFFICES ASSUME Unsent # {}, NEW m \in Flight, OnLine(cip, m)
             PROVE  m.seq # (cip.seq + 1) % SequenceCounts
  BY DEF NoReuse, Unused
<1>2. m.seq \in 1 .. cip.seq
  BY <1>1 DEF CountInv, Counted, Spent
<1>3. cip.seq \in 0 .. SequenceCounts - 1 /\ SequenceCounts \in Nat
  BY <1>1, RemainingCount
<1>4. (cip.seq + 1) % SequenceCounts =
        IF cip.seq + 1 = SequenceCounts THEN 0 ELSE cip.seq + 1
  BY <1>3, NextCountIs
<1> QED
  BY <1>2, <1>3, <1>4

(* What is added to the messages was not sent on the connection, or counts.  *)
LEMMA StillCounted ==
  ASSUME NEW c, NEW d, NEW ms, NEW more, NEW idle, Counted(c, ms, idle),
         d.sendInfo = c.sendInfo, d.seq = c.seq, d.queue = c.queue,
         d.resend \in {c.resend, {}},
         \A m \in more \ ms : OnLine(c, m) /\ Remaining(c, idle) # {} => m.seq \in 1 .. c.seq
  PROVE  Counted(d, more, idle)
<1>1. Remaining(d, idle) = Remaining(c, idle) /\ Once(d, idle)
  BY DEF Remaining, Waiting, Counted, Once
<1>2. ASSUME Remaining(c, idle) # {} PROVE Spent(d, more) /\ Started(d)
  <2>1. Spent(c, ms) /\ Started(c)
    BY <1>2 DEF Counted
  <2> QED
    BY <1>2, <2>1 DEF Spent, Started, OnLine
<1> QED
  BY <1>1, <1>2 DEF Counted

(* The head of the queue is sent.                                            *)
LEMMA HeadLeaves ==
  ASSUME NEW c \in Fields, NEW d \in Fields, NEW idle, Once(c, idle),
         c.queue # <<>>, d.queue = Tail(c.queue)
  PROVE  /\ Once(d, idle) /\ Head(c.queue) \in Remaining(c, idle)
         /\ Remaining(d, idle) = Remaining(c, idle) \ {Head(c.queue)}
         /\ Waiting(d) = Waiting(c) \ {Head(c.queue)}
<1> DEFINE q == c.queue
           t == d.queue
<1>1. q \in Seq(Requests) /\ t \in Seq(Requests) /\ Len(q) \in Nat \ {0} /\ Len(t) = Len(q) - 1
      /\ \A i \in 1 .. Len(t) : t[i] = q[i + 1] /\ i + 1 \in 1 .. Len(q)
  BY DEF Fields
<1>2. Once(d, idle)
  <2> SUFFICES ASSUME NEW i \in 1 .. Len(t)
               PROVE  t[i] \notin idle /\ \A j \in 1 .. Len(t) : t[i] = t[j] => i = j
    BY DEF Once
  <2>1. t[i] = q[i + 1] /\ i + 1 \in 1 .. Len(q)
    BY <1>1
  <2>2. t[i] \notin idle /\ \A k \in 1 .. Len(q) : t[i] = q[k] => i + 1 = k
    BY <2>1 DEF Once
  <2>3. ASSUME NEW j \in 1 .. Len(t), t[i] = t[j] PROVE i = j
    <3>1. t[j] = q[j + 1] /\ j + 1 \in 1 .. Len(q) /\ i \in Nat /\ j \in Nat
      BY <1>1
    <3>2. i + 1 = j + 1
      BY <2>2, <2>3, <3>1
    <3> QED
      BY <3>1, <3>2
  <2> QED
    BY <2>2, <2>3
<1>3. Waiting(c) = Waiting(d) \cup {q[1]} /\ q[1] \notin Waiting(d) /\ q[1] \notin idle
  <2>1. Waiting(c) = {q[i] : i \in 1 .. Len(q)} /\ Waiting(d) = {t[i] : i \in 1 .. Len(t)}
    BY <1>1 DEF Waiting
  <2>2. ASSUME NEW i \in 1 .. Len(q) PROVE i = 1 \/ (i - 1 \in 1 .. Len(t) /\ t[i - 1] = q[i])
    <3>1. CASE i # 1
      <4>1. i - 1 \in 1 .. Len(t) /\ (i - 1) + 1 = i
        BY <1>1, <3>1
      <4> QED
        BY <1>1, <4>1
    <3> QED
      BY <3>1
  <2>3. 1 \in 1 .. Len(q)
    BY <1>1
  <2>4. ASSUME NEW i \in 1 .. Len(t) PROVE t[i] \in Waiting(c) /\ t[i] # q[1]
    <3>1. t[i] = q[i + 1] /\ i + 1 \in 1 .. Len(q) /\ i + 1 # 1
      BY <1>1
    <3> QED
      BY <2>1, <2>3, <3>1 DEF Once
  <2>5. q[1] \notin idle
    BY <2>3 DEF Once
  <2> HIDE DEF q, t
  <2> QED
    BY <2>1, <2>2, <2>3, <2>4, <2>5
<1>4. Remaining(d, idle) = Remaining(c, idle) \ {q[1]} /\ q[1] \in Remaining(c, idle)
  BY <1>3 DEF Remaining
<1>5. q[1] = Head(q)
  BY <1>1
<1> QED
  BY <1>2, <1>3, <1>4, <1>5

LEMMA HeadSent ==
  ASSUME FewRequests, NEW c \in Fields, NEW d \in Fields, NEW idle \in SUBSET Requests,
         Once(c, idle), c.queue # <<>>, d.queue = Tail(c.queue)
  PROVE  /\ Once(d, idle)
         /\ Cardinality(Remaining(d, idle)) = Cardinality(Remaining(c, idle)) - 1
<1>1. PICK U, x : U = Remaining(c, idle) /\ x = Head(c.queue)
  OBVIOUS
<1>2. x \in U /\ Remaining(d, idle) = U \ {x} /\ Once(d, idle)
  BY <1>1, HeadLeaves
<1>3. IsFiniteSet(U)
  BY <1>1, RemainingCount
<1>4. Cardinality(U \ {x}) = Cardinality(U) - 1
  BY <1>2, <1>3, FS_RemoveElement
<1> QED
  BY <1>1, <1>2, <1>4

(* The next message sent: it leaves the queue, and takes the next count.     *)
LEMMA SendNextCounted ==
  ASSUME FewRequests, NEW c \in Fields, session \in 1 .. MaxSessions, NEW rest,
         NEW idle \in SUBSET Requests, Once(c, idle),
         Cardinality(Remaining(c, idle)) + c.seq <= SequenceCounts,
         Remaining(c, idle) # {} => Spent(c, rest \cup Of(c.sent)),
         (c.queue = <<>> \/ c.state # 2) /\ Remaining(c, idle) # {} => Started(c),
         c.state = 2 => c.sendInfo # None,
         SendNext(c).serial <= MaxSerial
  PROVE  Counted(SendNext(c), rest \cup Of(SendNext(c).sent), idle)
<1> DEFINE d == SendNext(c)
<1>1. d \in Fields /\ NextSent(c, d)
  BY SendNextParts
<1> HIDE DEF d
<1>2. CASE c.queue = <<>> \/ c.state \notin {0, 2}
  <2>1. d = c
    BY <1>1, <1>2 DEF NextSent
  <2>2. c.queue = <<>> \/ c.state # 2
    BY <1>2
  <2> QED
    BY <2>1, <2>2 DEF Counted, d
<1>3. ASSUME c.queue # <<>>, c.state = 2
      PROVE  Counted(d, rest \cup Of(d.sent), idle)
  <2> DEFINE n == (c.seq + 1) % SequenceCounts
             r == Head(c.queue)
             m == OnConnection(c, n, r)
  <2>1. SendsConnected(c, d, r)
    BY <1>1, <1>3 DEF NextSent
  <2>2. m \in Messages /\ m.kind = "connected" /\ m.seq = n
        /\ d.seq = n /\ d.resend = {[seq |-> n, request |-> r]} /\ d.sent = Posted(c, m)
        /\ d.sendInfo = c.sendInfo /\ d.queue = Tail(c.queue)
    BY <2>1 DEF SendsConnected, OnConnection, SameBooks
  <2> HIDE DEF m, r
  <2>3. Once(d, idle) /\ Cardinality(Remaining(d, idle)) = Cardinality(Remaining(c, idle)) - 1
    BY <1>1, <1>3, <2>2, HeadSent
  <2>4. /\ c.seq \in 0 .. SequenceCounts - 1 /\ SequenceCounts \in Nat
        /\ Cardinality(Remaining(c, idle)) \in Nat
        /\ Remaining(d, idle) # {} => Cardinality(Remaining(d, idle)) >= 1
    BY <1>1, RemainingCount
  <2>5. n = IF c.seq + 1 = SequenceCounts THEN 0 ELSE c.seq + 1
    BY <2>4, NextCountIs
  <2> HIDE DEF n
  <2>6. Cardinality(Remaining(d, idle)) + d.seq <= SequenceCounts
    <3> DEFINE k == Cardinality(Remaining(c, idle))
    <3>1. k \in Nat /\ k + c.seq <= SequenceCounts /\ d.seq \in 0 .. c.seq + 1
          /\ k - 1 + d.seq <= k + c.seq
      BY <2>2, <2>4, <2>5
    <3> HIDE DEF k
    <3>2. k - 1 + d.seq <= SequenceCounts
      BY <2>2, <2>4, <3>1
    <3> QED
      BY <2>3, <3>2 DEF k
  <2>7. ASSUME Remaining(d, idle) # {}
        PROVE  Spent(d, rest \cup Of(d.sent)) /\ Started(d)
    <3>1. n = c.seq + 1 /\ n # 0 /\ n \in Nat
      BY <2>3, <2>4, <2>5, <2>7
    <3>2. Remaining(c, idle) # {}
      <4>1. c.queue[1] \in Waiting(c)
        BY <1>3 DEF Waiting, Fields
      <4> QED
        BY <4>1 DEF Remaining
    <3>3. Of(d.sent) = Of(c.sent) \cup {m}
      BY <2>2, OfPosted
    <3>4. ASSUME NEW x \in rest \cup Of(d.sent), OnLine(d, x) PROVE x.seq \in 1 .. d.seq
      <4>1. CASE x = m
        BY <2>2, <2>4, <3>1, <4>1
      <4>2. CASE x # m
        <5>1. x \in rest \cup Of(c.sent) /\ OnLine(c, x)
          BY <2>2, <3>3, <3>4, <4>2 DEF OnLine
        <5>2. x.seq \in 1 .. c.seq
          BY <3>2, <5>1 DEF Spent
        <5> QED
          BY <2>2, <2>4, <3>1, <5>2
      <4> QED
        BY <4>1, <4>2
    <3> QED
      BY <2>2, <3>1, <3>4 DEF Spent, Started
  <2> QED
    BY <2>3, <2>6, <2>7 DEF Counted
<1>4. ASSUME c.queue # <<>>, c.state = 0, NEW m \in Messages, m.kind # "connected",
             d.sent = Posted(c, m), d.sendInfo = c.sendInfo, SameWindow(c, d),
             Once(d, idle), Remaining(d, idle) \subseteq Remaining(c, idle),
             Cardinality(Remaining(d, idle)) <= Cardinality(Remaining(c, idle))
      PROVE  Counted(d, rest \cup Of(d.sent), idle)
  <2>1. Of(d.sent) = Of(c.sent) \cup {m}
    BY <1>4, OfPosted
  <2>2. c.seq \in Nat /\ SequenceCounts \in Nat
        /\ Cardinality(Remaining(c, idle)) \in Nat /\ Cardinality(Remaining(d, idle)) \in Nat
    BY <1>1, RemainingCount
  <2>3. Cardinality(Remaining(d, idle)) + d.seq <= SequenceCounts
    BY <1>4, <2>2 DEF SameWindow
  <2>4. ASSUME Remaining(d, idle) # {}
        PROVE  Spent(d, rest \cup Of(d.sent)) /\ Started(d)
    <3>1. Spent(c, rest \cup Of(c.sent)) /\ Started(c)
      BY <1>4, <2>4
    <3> QED
      BY <1>4, <2>1, <3>1 DEF Spent, Started, OnLine, SameWindow
  <2> QED
    BY <1>4, <2>3, <2>4 DEF Counted
<1>5. ASSUME c.queue # <<>>, c.state = 0, Head(c.queue) \in Connected
      PROVE  Counted(d, rest \cup Of(d.sent), idle)
  <2>1. Connects(c, d)
    BY <1>1, <1>5 DEF NextSent
  <2>2. d.sendInfo = c.sendInfo /\ SameWindow(c, d) /\ d.queue = c.queue
    BY <2>1 DEF Connects, SameQueue
  <2>3. PICK m \in Messages : m.kind # "connected" /\ d.sent = Posted(c, m)
    BY <2>1 DEF Connects, AsksToOpen, OpenMessage
  <2>4. Once(d, idle) /\ Remaining(d, idle) = Remaining(c, idle)
    BY <2>2 DEF Once, Remaining, Waiting
  <2>5. Cardinality(Remaining(c, idle)) \in Nat
    BY RemainingCount
  <2>6. Remaining(d, idle) \subseteq Remaining(c, idle)
        /\ Cardinality(Remaining(d, idle)) <= Cardinality(Remaining(c, idle))
    BY <2>4, <2>5
  <2> QED
    BY <1>4, <1>5, <2>2, <2>3, <2>4, <2>6
<1>6. ASSUME c.queue # <<>>, c.state = 0, Head(c.queue) \notin Connected
      PROVE  Counted(d, rest \cup Of(d.sent), idle)
  <2>1. SendsUnconnected(c, d, Head(c.queue))
    BY <1>1, <1>6 DEF NextSent
  <2>2. d.sendInfo = c.sendInfo /\ SameWindow(c, d) /\ d.queue = Tail(c.queue)
    BY <2>1 DEF SendsUnconnected
  <2>3. PICK m \in Messages : m.kind # "connected" /\ d.sent = Posted(c, m)
    BY <2>1 DEF SendsUnconnected, Unconnected
  <2>4. Once(d, idle) /\ Cardinality(Remaining(d, idle)) = Cardinality(Remaining(c, idle)) - 1
    BY <1>1, <1>6, <2>2, HeadSent
  <2>5. Cardinality(Remaining(c, idle)) \in Nat
    BY RemainingCount
  <2>6. Remaining(d, idle) \subseteq Remaining(c, idle)
    BY <1>6, <2>2 DEF Remaining, Waiting, Fields
  <2>7. Cardinality(Remaining(d, idle)) <= Cardinality(Remaining(c, idle))
    BY <2>4, <2>5
  <2>8. Once(d, idle)
    BY <2>4
  <2> QED
    BY <1>4, <1>6, <2>2, <2>3, <2>6, <2>7, <2>8
<1> QED
  BY <1>1, <1>2, <1>3, <1>5, <1>6 DEF NextSent, d

-----------------------------------------------------------------------------
(* Every step keeps count.                                                   *)
LEMMA IdleKept ==
  ASSUME \/ outcome' \in {outcome, RejectAll(outcome)}
         \/ \E r, q \in Requests : Settle(r, q),
         TypeOK
  PROVE  Idle' = Idle
<1>1. ASSUME NEW o \in [Requests -> {"idle", "pending", "answered", "rejected"}]
      PROVE  /\ RejectAll(o) \in [Requests -> {"idle", "pending", "answered", "rejected"}]
             /\ \A r \in Requests : RejectAll(o)[r] = "idle" <=> o[r] = "idle"
  BY DEF RejectAll
<1>2. outcome \in [Requests -> {"idle", "pending", "answered", "rejected"}]
  BY DEF TypeOK
<1>3. CASE outcome' \in {outcome, RejectAll(outcome)}
  <2>1. \A r \in Requests : outcome'[r] = "idle" <=> outcome[r] = "idle"
    BY <1>1, <1>2, <1>3
  <2> QED
    BY <2>1 DEF Idle
<1>4. ASSUME NEW r \in Requests, NEW q \in Requests, Settle(r, q) PROVE Idle' = Idle
  <2>1. \A x \in Requests : outcome'[x] = "idle" <=> outcome[x] = "idle"
    BY <1>2, <1>4 DEF Settle
  <2> QED
    BY <2>1 DEF Idle
<1> QED
  BY <1>3, <1>4

LEMMA NowCounted ==
  ASSUME TypeOK, CountInv
  PROVE  /\ Idle \in SUBSET Requests /\ Once(cip, Idle)
         /\ Cardinality(Remaining(cip, Idle)) + cip.seq <= SequenceCounts
         /\ Remaining(cip, Idle) # {} => Spent(cip, Flight) /\ Started(cip)
BY DEF CountInv, Counted, Idle

LEMMA FewerCounted ==
  ASSUME CountInv, Flight' \subseteq Flight, Idle' = Idle, cip'.sendInfo = cip.sendInfo,
         cip'.seq = cip.seq, cip'.resend = cip.resend, cip'.queue = cip.queue
  PROVE  CountInv'
<1>1. PICK c, d, ms, more, idle :
        c = cip /\ d = cip' /\ ms = Flight /\ more = Flight' /\ idle = Idle
  OBVIOUS
<1>2. Counted(c, ms, idle)
  BY <1>1 DEF CountInv
<1>3. Counted(d, more, idle)
  BY <1>1, <1>2, StillCounted
<1> QED
  BY <1>1, <1>3 DEF CountInv

LEMMA TurnCounted ==
  ASSUME FewRequests, TypeOK, CipInv, CountInv,
         NEW c \in Fields, c.state = cip.state, c.sendInfo = cip.sendInfo,
         SameWindow(cip, c), c.sent = cip.sent,
         NEW idle \in SUBSET Requests, Once(c, idle), Remaining(c, idle) = Remaining(cip, Idle),
         cip' = SendNext(c), cip'.serial <= MaxSerial, toClient' = toClient, Idle' = idle
  PROVE  CountInv'
<1>1. c.seq = cip.seq /\ c.resend = cip.resend
  BY DEF SameWindow
<1>2. Cardinality(Remaining(c, idle)) + c.seq <= SequenceCounts
  BY <1>1, NowCounted
<1>3. Flight = Of(toClient) \cup Of(c.sent) /\ Flight' = Of(toClient) \cup Of(cip'.sent)
  BY DEF Flight
<1>4. Remaining(c, idle) # {} => Spent(c, Of(toClient) \cup Of(c.sent)) /\ Started(c)
  BY <1>1, <1>3, NowCounted DEF Spent, Started, OnLine
<1>5. session \in 1 .. MaxSessions /\ (c.state = 2 => c.sendInfo # None)
  BY Now DEF CipInv, Sound, Staged
<1>6. PICK rest : rest = Of(toClient)
  OBVIOUS
<1>7. Counted(SendNext(c), rest \cup Of(SendNext(c).sent), idle)
  BY <1>2, <1>4, <1>5, <1>6, SendNextCounted
<1> QED
  BY <1>3, <1>6, <1>7 DEF CountInv

(* A request issued joins the queue.                                         *)
LEMMA AppendedOnce ==
  ASSUME NEW c \in Fields, NEW r \in Requests, cip \in Fields, c.queue = Append(cip.queue, r),
         r \in Idle, Once(cip, Idle)
  PROVE  /\ Once(c, Idle \ {r}) /\ Remaining(c, Idle \ {r}) = Remaining(cip, Idle)
         /\ Waiting(c) = Waiting(cip) \cup {r}
<1> DEFINE q == cip.queue
<1>1. q \in Seq(Requests) /\ Append(q, r) \in Seq(Requests) /\ c.queue = Append(q, r)
  BY DEF Fields
<1>2. Len(q) \in Nat /\ Len(c.queue) = Len(q) + 1 /\ c.queue[Len(q) + 1] = r
      /\ \A i \in 1 .. Len(q) : c.queue[i] = q[i]
  BY <1>1
<1> HIDE DEF q
<1>3. \A i \in 1 .. Len(q) : q[i] \notin Idle /\ \A j \in 1 .. Len(q) : q[i] = q[j] => i = j
  BY DEF Once, q
<1>4. Once(c, Idle \ {r})
  <2> SUFFICES ASSUME NEW i \in 1 .. Len(c.queue)
               PROVE  /\ c.queue[i] \notin Idle \ {r}
                      /\ \A j \in 1 .. Len(c.queue) : c.queue[i] = c.queue[j] => i = j
    BY DEF Once
  <2>1. \A j \in 1 .. Len(c.queue) : j \in 1 .. Len(q) \/ j = Len(q) + 1
    BY <1>2
  <2>2. \A j \in 1 .. Len(q) : c.queue[j] # r
    BY <1>2, <1>3
  <2>3. CASE i \in 1 .. Len(q)
    BY <1>2, <1>3, <2>1, <2>2, <2>3
  <2>4. CASE i = Len(q) + 1
    BY <1>2, <2>1, <2>2, <2>4
  <2> QED
    BY <2>1, <2>3, <2>4
<1>5. Waiting(c) = Waiting(cip) \cup {r}
  <2>1. DOMAIN c.queue = 1 .. Len(q) + 1 /\ DOMAIN cip.queue = 1 .. Len(q)
    BY <1>1, <1>2 DEF q
  <2>2. 1 .. Len(q) + 1 = (1 .. Len(q)) \cup {Len(q) + 1}
    BY <1>2
  <2> QED
    BY <1>2, <2>1, <2>2 DEF Waiting, q
<1> QED
  BY <1>4, <1>5 DEF Remaining

LEMMA IssueCounted ==
  ASSUME FewRequests, TypeOK, CipInv, CountInv, NEW r \in Requests, Issue(r)
  PROVE  CountInv'
<1> DEFINE c == [cip EXCEPT !.queue = Append(@, r)]
<1>1. cip \in Fields /\ cip.queue \in Seq(Requests) /\ Append(cip.queue, r) \in Seq(Requests)
  BY Now DEF Fields
<1>2. c \in Fields /\ c.state = cip.state /\ c.sendInfo = cip.sendInfo
      /\ c.sent = cip.sent /\ SameWindow(cip, c) /\ c.queue = Append(cip.queue, r)
  BY <1>1 DEF Fields, SameWindow
<1>3. cip' = SendNext(c) /\ cip'.serial <= MaxSerial /\ toClient' = toClient
  BY DEF Issue
<1>4. r \in Idle /\ Idle' = Idle \ {r}
  BY DEF Issue, Idle, TypeOK
<1> HIDE DEF c
<1>5. Once(c, Idle \ {r}) /\ Remaining(c, Idle \ {r}) = Remaining(cip, Idle)
  BY <1>1, <1>2, <1>4, NowCounted, AppendedOnce
<1>6. PICK idle \in SUBSET Requests : idle = Idle \ {r}
  BY NowCounted
<1> QED
  BY <1>2, <1>3, <1>4, <1>5, <1>6, TurnCounted

LEMMA TickCounted ==
  ASSUME FewRequests, TypeOK, CipInv, CountInv, Tick
  PROVE  CountInv'
<1> DEFINE c == [cip EXCEPT !.ticks = @ - 1]
<1>1. cip \in Fields /\ cip.ticks - 1 \in Nat
  BY Now DEF Fields, Tick
<1>2. c \in Fields /\ c.state = cip.state /\ c.sendInfo = cip.sendInfo
      /\ c.sent = cip.sent /\ SameWindow(cip, c) /\ c.queue = cip.queue
  BY <1>1 DEF Fields, SameWindow
<1>3. cip' = SendNext(c) /\ cip'.serial <= MaxSerial /\ toClient' = toClient /\ Idle' = Idle
  BY DEF Tick, Idle
<1> HIDE DEF c
<1>4. PICK idle \in SUBSET Requests : idle = Idle
  BY NowCounted
<1>5. Once(c, idle) /\ Remaining(c, idle) = Remaining(cip, Idle)
  BY <1>2, <1>4, NowCounted DEF Once, Remaining, Waiting
<1> QED
  BY <1>2, <1>3, <1>4, <1>5, TurnCounted

LEMMA ResendCounted ==
  ASSUME TypeOK, CipInv, WindowInv, CountInv, FewRequests, Resend
  PROVE  CountInv'
<1>1. PICK m \in Messages :
        /\ cip' = Hand(cip, m) /\ toClient' = toClient
        /\ m.kind = "connected" =>
             m.seq = cip.seq /\ cip.sendInfo # None /\ cip.resend # {}
  BY ResendParts
<1>2. PICK c, d, ms, idle : c = cip /\ d = cip' /\ ms = Flight /\ idle = Idle
  OBVIOUS
<1>3. c \in Fields /\ session \in 1 .. MaxSessions /\ Counted(c, ms, idle)
  BY <1>2, Now DEF CountInv
<1>4. d = [c EXCEPT !.sent = Posted(c, m)] /\ d \in Fields
  BY <1>1, <1>2, <1>3, HandIs
<1>5. d.sendInfo = c.sendInfo /\ d.seq = c.seq /\ d.queue = c.queue /\ d.resend = c.resend
      /\ Of(d.sent) = Of(c.sent) \cup {m}
  BY <1>3, <1>4, OfPosted DEF Fields
<1>6. Flight' = ms \cup {m} /\ Idle' = idle
  BY <1>1, <1>2, <1>5 DEF Flight, Idle, Resend
<1>7. ASSUME OnLine(c, m), Remaining(c, idle) # {} PROVE m.seq \in 1 .. c.seq
  <2>1. m.seq = c.seq /\ c.sendInfo # None /\ c.resend # {}
    BY <1>1, <1>2, <1>7 DEF OnLine
  <2>2. c.seq # 0
    BY <1>3, <1>7, <2>1 DEF Counted, Started
  <2> QED
    BY <1>3, <2>1, <2>2, FieldTypes
<1>8. \A x \in (ms \cup {m}) \ ms : x = m
  OBVIOUS
<1>9. Counted(d, ms \cup {m}, idle)
  BY <1>3, <1>5, <1>7, <1>8, StillCounted
<1> QED
  BY <1>2, <1>6, <1>9 DEF CountInv

LEMMA EndedCounted ==
  ASSUME FewRequests, TypeOK, CipInv, CountInv, NEW c \in Fields, c.serial = cip.serial,
         c.sent = cip.sent, Idle' = Idle, Resets(c)
  PROVE  CountInv'
<1>1. Flight' \subseteq Flight /\ cip'.sendInfo = None /\ cip'.seq = 0 /\ cip'.queue = <<>>
  BY EndedParts
<1>2. Waiting(cip') = {} /\ Once(cip', Idle)
  BY <1>1 DEF Waiting, Once
<1>3. IsFiniteSet(Idle) /\ Cardinality(Idle) \in Nat /\ Cardinality(Idle) <= SequenceCounts
  <2>1. Idle \in SUBSET Requests
    BY DEF Idle
  <2>2. IsFiniteSet(Requests) /\ Cardinality(Requests) <= SequenceCounts
    BY DEF FewRequests
  <2>3. PICK U : U = Idle
    OBVIOUS
  <2>4. IsFiniteSet(U) /\ Cardinality(U) \in Nat /\ Cardinality(U) <= Cardinality(Requests)
        /\ Cardinality(Requests) \in Nat
    BY <2>1, <2>2, <2>3, FS_Subset, FS_CardinalityType
  <2> QED
    BY <2>2, <2>3, <2>4, Constants
<1>4. Remaining(cip', Idle) = Idle
  BY <1>2 DEF Remaining
<1>5. Cardinality(Remaining(cip', Idle)) + cip'.seq <= SequenceCounts
  BY <1>1, <1>3, <1>4
<1>6. Spent(cip', Flight') /\ Started(cip')
  <2>1. \A m \in Flight : m \in Messages
    BY Now, FlightMessages DEF Flight
  <2>2. \A m \in Flight' : ~OnLine(cip', m)
    BY <1>1, <2>1, MessageParts, Constants DEF OnLine
  <2> QED
    BY <1>1, <2>2 DEF Spent, Started
<1> QED
  BY <1>2, <1>5, <1>6 DEF CountInv, Counted

(* The layer asks for a connection, or for the end of one.                   *)
LEMMA AskedCounted ==
  ASSUME NEW c \in Fields, session \in 1 .. MaxSessions, NEW d, NEW rest, NEW idle,
         Counted(c, rest \cup Of(c.sent), idle), d.sendInfo = c.sendInfo, d.queue = c.queue,
         d.seq = c.seq, d.resend \in {c.resend, {}},
         NEW m \in Messages, m.kind # "connected", d.sent = Posted(c, m)
  PROVE  Counted(d, rest \cup Of(d.sent), idle)
<1>1. Of(d.sent) = Of(c.sent) \cup {m}
  BY OfPosted
<1>2. PICK ms, more : ms = rest \cup Of(c.sent) /\ more = rest \cup Of(d.sent)
  OBVIOUS
<1>3. \A x \in more \ ms : ~OnLine(c, x)
  BY <1>1, <1>2 DEF OnLine
<1>4. Counted(c, ms, idle)
  BY <1>2
<1>5. Counted(d, more, idle)
  BY <1>3, <1>4, StillCounted
<1> QED
  BY <1>2, <1>5

LEMMA ContinueCounted ==
  ASSUME NEW d, Continue(d), Counted(d, Of(Tail(toClient)) \cup Of(d.sent), Idle)
  PROVE  CountInv'
<1>1. cip' = d /\ toClient' = Tail(toClient) /\ Idle' = Idle
  BY DEF Continue, Idle
<1> QED
  BY <1>1 DEF CountInv, Flight

LEMMA SettledCounted ==
  ASSUME TypeOK, CountInv, toClient # <<>>, NEW h, NEW c, NEW ms, Settled(c, h, ms),
         NEW e, e.sendInfo = c.sendInfo, SameWindow(c, e), e.queue = c.queue, e.sent = c.sent
  PROVE  Counted(e, Of(Tail(toClient)) \cup Of(e.sent), Idle)
<1>1. Of(toClient) = Of(Tail(toClient)) \cup {Head(toClient).m}
  BY Now, OfTail
<1>2. PICK b, all, less, idle :
        b = cip /\ all = Flight /\ less = Of(Tail(toClient)) \cup Of(e.sent) /\ idle = Idle
  OBVIOUS
<1>3. Counted(b, all, idle)
  BY <1>2 DEF CountInv
<1>4. less \subseteq all
  BY <1>1, <1>2 DEF Flight, Settled
<1>5. e.sendInfo = b.sendInfo /\ e.seq = b.seq /\ e.queue = b.queue /\ e.resend = b.resend
  BY <1>2 DEF Settled, SameWindow
<1>6. Counted(e, less, idle)
  BY <1>3, <1>4, <1>5, StillCounted
<1> QED
  BY <1>2, <1>6

LEMMA ConnectCounted ==
  ASSUME TypeOK, CountInv, toClient # <<>>, NEW h, NEW c, NEW ms, Settled(c, h, ms),
         NEW e \in Fields, e.state = 0, e.sent = c.sent,
         SameWindow(c, e), e.sendInfo = c.sendInfo, e.queue = c.queue,
         Continue(Connect(e)), cip'.serial <= MaxSerial
  PROVE  CountInv'
<1> DEFINE d == Connect(e)
<1>1. session \in 1 .. MaxSessions
  BY Now
<1>2. d.serial <= MaxSerial
  BY DEF Continue
<1>3. Connects(e, d)
  BY <1>1, <1>2, ConnectParts
<1> HIDE DEF d
<1>4. d.sendInfo = e.sendInfo /\ d.queue = e.queue /\ d.seq = e.seq /\ d.resend = e.resend
  BY <1>3 DEF Connects, SameQueue, SameWindow
<1>5. PICK m \in Messages : m.kind # "connected" /\ d.sent = Posted(e, m)
  BY <1>3 DEF Connects, AsksToOpen, OpenMessage
<1>6. PICK rest, idle : rest = Of(Tail(toClient)) /\ idle = Idle
  OBVIOUS
<1>7. Counted(e, rest \cup Of(e.sent), idle)
  BY <1>6, SettledCounted
<1>8. Counted(d, rest \cup Of(d.sent), idle)
  BY <1>1, <1>4, <1>5, <1>7, AskedCounted
<1> QED
  BY <1>6, <1>8, ContinueCounted DEF d

LEMMA OpenReplyCounted ==
  ASSUME FewRequests, TypeOK, CipInv, WindowInv, CountInv, toClient # <<>>,
         NEW h, NEW c, NEW ms, Settled(c, h, ms),
         Opening(cip), h.m.kind = "open", OpenReply(c, h), cip'.serial <= MaxSerial
  PROVE  CountInv'
<1> DEFINE t == Of(Tail(toClient))
<1>1. /\ c \in Fields /\ c.sendInfo = cip.sendInfo /\ c.queue = cip.queue
      /\ c.serial = cip.serial /\ c.sent = cip.sent /\ SameWindow(cip, c)
      /\ ms = t \cup Of(c.sent)
  BY DEF Settled
<1>2. session \in 1 .. MaxSessions /\ Idle \in SUBSET Requests
  BY Now, NowCounted
<1>3. Counted(c, t \cup Of(c.sent), Idle)
  BY SettledCounted DEF SameWindow
<1> HIDE DEF t
<1>4. CASE h.status = "ok" /\ c.state = 1
  <2> DEFINE e == [c EXCEPT !.sendInfo = h.m.serial, !.state = 2]
  <2>1. h.m.serial \in Serials /\ \A m \in ms : m.kind = "connected" => m.serial # h.m.serial
    BY DEF Settled
  <2>2. e \in Fields /\ e.sendInfo = h.m.serial /\ e.sendInfo # None
        /\ e.sent = c.sent /\ SameWindow(c, e) /\ e.queue = c.queue
    BY <1>1, <2>1, Constants DEF Fields, SameWindow
  <2>3. Continue(SendNext(e))
    BY <1>4 DEF OpenReply
  <2>4. SendNext(e).serial <= MaxSerial
    BY <2>3 DEF Continue
  <2> HIDE DEF e
  <2>5. PICK idle \in SUBSET Requests : idle = Idle
    BY <1>2
  <2>6. Once(e, idle) /\ Remaining(e, idle) = Remaining(c, idle)
    BY <1>3, <2>2, <2>5 DEF Counted, Once, Remaining, Waiting
  <2>7. Cardinality(Remaining(e, idle)) + e.seq <= SequenceCounts
    BY <1>3, <2>2, <2>5, <2>6 DEF Counted, SameWindow
  <2>8. Spent(e, t \cup Of(e.sent))
    BY <1>1, <2>1, <2>2 DEF Spent, OnLine
  <2>9. e.queue = <<>> /\ Remaining(e, idle) # {} => Started(e)
    <3>1. e.queue = <<>> => c.sendInfo # None
      BY <1>1, <2>2, NowInWindow DEF Headed
    <3>2. Remaining(c, idle) # {} => Started(c)
      BY <1>3, <2>5 DEF Counted
    <3> QED
      BY <2>2, <2>6, <3>1, <3>2 DEF Started, SameWindow
  <2>10. e.state = 2
    BY <1>1 DEF e, Fields
  <2>11. Counted(SendNext(e), t \cup Of(SendNext(e).sent), idle)
    BY <1>2, <2>2, <2>4, <2>6, <2>7, <2>8, <2>9, <2>10, SendNextCounted
  <2> QED
    BY <2>3, <2>5, <2>11, ContinueCounted DEF t
<1>5. CASE h.status = "ok" /\ c.state # 1
  <2>1. Continue(c)
    BY <1>5 DEF OpenReply
  <2> QED
    BY <1>3, <2>1, ContinueCounted DEF t
<1>6. CASE h.status = "unsupported"
  <2> DEFINE e == [c EXCEPT !.state = 0, !.large = FALSE]
  <2>1. e \in Fields /\ e.state = 0 /\ e.sent = c.sent
        /\ SameWindow(c, e) /\ e.sendInfo = c.sendInfo /\ e.queue = c.queue
    BY <1>1 DEF Fields, SameWindow
  <2>2. Continue(Connect(e))
    BY <1>6 DEF OpenReply
  <2> HIDE DEF e
  <2> QED
    BY <2>1, <2>2, ConnectCounted
<1>7. CASE h.status = "duplicate" /\ ~c.again
  <2> DEFINE e == [c EXCEPT !.state = 0, !.again = TRUE,
                            !.misnamed = @ \/ c.serial # h.m.serial]
             d == SendClose(e, "reclose")
  <2>1. e \in Fields /\ e.sent = c.sent
        /\ SameWindow(c, e) /\ e.sendInfo = c.sendInfo /\ e.queue = c.queue
    BY <1>1 DEF Fields, SameWindow
  <2>2. Continue(d)
    BY <1>7 DEF OpenReply
  <2> HIDE DEF e
  <2>3. d.sendInfo = e.sendInfo /\ SameWindow(e, d) /\ SameQueue(e, d)
        /\ AsksToClose(e, d, "reclose")
    BY <1>2, <2>1, SendCloseParts
  <2> HIDE DEF d
  <2>4. PICK m \in Messages : m.kind # "connected" /\ d.sent = Posted(e, m)
    BY <2>3 DEF AsksToClose, CloseMessage
  <2>5. PICK idle : idle = Idle
    OBVIOUS
  <2>6. Counted(e, t \cup Of(e.sent), idle)
    BY <2>1, <2>5, SettledCounted DEF t
  <2>7. Counted(d, t \cup Of(d.sent), idle)
    BY <1>2, <2>1, <2>3, <2>4, <2>6, AskedCounted DEF SameWindow, SameQueue
  <2> QED
    BY <2>2, <2>5, <2>7, ContinueCounted DEF t
<1>8. CASE DestroyLayer(c)
  <2>1. Idle' = Idle
    BY <1>8, IdleKept DEF DestroyLayer
  <2> QED
    BY <1>1, <1>8, <2>1, DestroyLayerResets, EndedCounted
<1> QED
  BY <1>4, <1>5, <1>6, <1>7, <1>8 DEF OpenReply

LEMMA RecloseReplyCounted ==
  ASSUME FewRequests, TypeOK, CipInv, CountInv, toClient # <<>>,
         NEW h, NEW c, NEW ms, Settled(c, h, ms), RecloseReply(c, h), cip'.serial <= MaxSerial
  PROVE  CountInv'
<1>1. c \in Fields /\ c.serial = cip.serial /\ c.sent = cip.sent
  BY DEF Settled
<1>2. CASE h.status = "ok"
  <2> DEFINE e == [c EXCEPT !.state = 0, !.again = FALSE]
  <2>1. e \in Fields /\ e.state = 0 /\ e.sent = c.sent
        /\ SameWindow(c, e) /\ e.sendInfo = c.sendInfo /\ e.queue = c.queue
    BY <1>1 DEF Fields, SameWindow
  <2>2. Continue(Connect(e))
    BY <1>2 DEF RecloseReply
  <2> HIDE DEF e
  <2> QED
    BY <2>1, <2>2, ConnectCounted
<1>3. CASE DestroyLayer(c)
  <2>1. Idle' = Idle
    BY <1>3, IdleKept DEF DestroyLayer
  <2> QED
    BY <1>1, <1>3, <2>1, DestroyLayerResets, EndedCounted
<1> QED
  BY <1>2, <1>3 DEF RecloseReply

LEMMA InternalReplyCounted ==
  ASSUME FewRequests, TypeOK, CipInv, WindowInv, CountInv, InternalReply
  PROVE  CountInv'
<1>1. toClient # <<>> /\ cip'.serial <= MaxSerial
  BY InternalReplyCases
<1>2. CASE toClient' = Tail(toClient) /\ cip' = cip /\ outcome' = outcome
  <2>1. Flight' \subseteq Flight /\ Idle' = Idle
    BY <1>1, <1>2, ReplyMoves DEF Idle
  <2> QED
    BY <1>2, <2>1, FewerCounted
<1>3. ASSUME NEW h, NEW c, NEW ms, Settled(c, h, ms), Opening(cip),
             (h.m.kind = "open" /\ OpenReply(c, h)) \/ RecloseReply(c, h)
      PROVE  CountInv'
  BY <1>1, <1>3, OpenReplyCounted, RecloseReplyCounted
<1>4. ASSUME NEW h, NEW c, NEW ms, Settled(c, h, ms), CloseReply(c, h) PROVE CountInv'
  <2>1. c \in Fields /\ c.serial = cip.serial /\ c.sent = cip.sent
    BY <1>4 DEF Settled
  <2>2. Resets(c) /\ outcome' \in {outcome, RejectAll(outcome)}
    BY <1>1, <1>4, CloseReplyResets
  <2>3. Idle' = Idle
    BY <2>2, IdleKept
  <2> QED
    BY <2>1, <2>2, <2>3, EndedCounted
<1> QED
  BY <1>2, <1>3, <1>4, InternalReplyCases

LEMMA RepliesCounted ==
  ASSUME TypeOK, CountInv, UnconnectedReply \/ ConnectedReply
  PROVE  CountInv'
<1> DEFINE h == Head(toClient)
<1>1. toClient # <<>> /\ toClient' = Tail(toClient) /\ h \in Replies /\ cip \in Fields
  BY Now DEF UnconnectedReply, ConnectedReply
<1>2. cip'.sendInfo = cip.sendInfo /\ cip'.seq = cip.seq /\ cip'.resend = cip.resend
      /\ cip'.queue = cip.queue /\ cip'.sent = cip.sent
  BY <1>1 DEF UnconnectedReply, ConnectedReply, Fields
<1>3. Flight' \subseteq Flight
  BY <1>1, <1>2, ReplyMoves
<1>4. Idle' = Idle
  <2>1. \/ outcome' = outcome
        \/ \E r, q \in Requests : Settle(r, q)
    <3>1. CASE UnconnectedReply
      <4>1. h.m.request \in Requests /\ Settle(h.m.request, h.m.request)
        BY <1>1, <3>1, MessageParts DEF UnconnectedReply, Replies
      <4> QED
        BY <4>1
    <3>2. CASE ConnectedReply
      <4> DEFINE r == cip.idContext[h.m.seq]
      <4>1. h.m.request \in Requests /\ h.m.seq \in SequenceNumbers
        BY <1>1, <3>2, MessageParts DEF ConnectedReply, Replies
      <4>2. r \in Requests \cup {None}
        BY <1>1, <4>1 DEF Fields
      <4>3. outcome' = outcome \/ (r # None /\ Settle(r, h.m.request))
        BY <3>2 DEF ConnectedReply
      <4> QED
        BY <4>1, <4>2, <4>3
    <3> QED
      BY <3>1, <3>2
  <2> QED
    BY <2>1, IdleKept
<1> QED
  BY <1>2, <1>3, <1>4, FewerCounted

LEMMA DisconnectsCounted ==
  ASSUME FewRequests, TypeOK, CipInv, CountInv, Disconnects
  PROVE  CountInv'
<1>1. Idle' = Idle
  BY DisconnectsCases DEF Idle
<1>2. CASE Quits
  BY <1>1, <1>2, QuitsParts, FewerCounted DEF SameWindow, SameQueue
<1>3. ASSUME cip' = SendClose([cip EXCEPT !.state = -1, !.resend = {}], "close"),
             toClient' = toClient
      PROVE  CountInv'
  <2> DEFINE e == [cip EXCEPT !.state = -1, !.resend = {}]
             d == SendClose(e, "close")
  <2>1. cip \in Fields /\ session \in 1 .. MaxSessions
    BY Now
  <2>2. e \in Fields /\ e.sent = cip.sent /\ e.sendInfo = cip.sendInfo
        /\ e.queue = cip.queue /\ e.seq = cip.seq /\ e.resend = {}
    BY <2>1 DEF Fields
  <2> HIDE DEF e
  <2>3. d.sendInfo = e.sendInfo /\ SameWindow(e, d) /\ SameQueue(e, d)
        /\ AsksToClose(e, d, "close")
    BY <2>1, <2>2, SendCloseParts
  <2> HIDE DEF d
  <2>4. PICK m \in Messages : m.kind # "connected" /\ d.sent = Posted(e, m)
    BY <2>3 DEF AsksToClose, CloseMessage
  <2>5. PICK c, rest, idle : c = cip /\ rest = Of(toClient) /\ idle = Idle
    OBVIOUS
  <2>6. Counted(c, rest \cup Of(c.sent), idle)
    BY <2>5 DEF CountInv, Flight
  <2>7. Posted(e, m) = Posted(c, m)
    BY <2>2, <2>5 DEF Posted
  <2>8. Counted(d, rest \cup Of(d.sent), idle)
    BY <2>1, <2>2, <2>3, <2>4, <2>5, <2>6, <2>7, AskedCounted DEF SameWindow, SameQueue
  <2>9. cip' = d
    BY <1>3 DEF d, e
  <2> QED
    BY <1>1, <1>3, <2>5, <2>8, <2>9 DEF CountInv, Flight
<1> QED
  BY <1>2, <1>3, DisconnectsCases

LEMMA InitCounted == FewRequests /\ Init => CountInv
<1> SUFFICES ASSUME FewRequests, Init PROVE CountInv
  OBVIOUS
<1>1. cip.seq = 0 /\ cip.sendInfo = None /\ cip.queue = <<>> /\ cip.sent = <<>>
      /\ cip.resend = {} /\ toClient = <<>> /\ \A r \in Requests : outcome[r] = "idle"
  BY DEF Init
<1>2. Waiting(cip) = {} /\ Idle = Requests /\ Once(cip, Idle) /\ Flight = {}
  BY <1>1 DEF Waiting, Idle, Once, Flight, Of
<1>3. Cardinality(Remaining(cip, Idle)) + cip.seq <= SequenceCounts
  <2>1. Remaining(cip, Idle) = Requests
    BY <1>2 DEF Remaining
  <2>2. Cardinality(Requests) \in Nat
    BY FS_CardinalityType DEF FewRequests
  <2> QED
    BY <1>1, <2>1, <2>2, Constants DEF FewRequests
<1>4. Spent(cip, Flight) /\ Started(cip)
  BY <1>1, <1>2 DEF Spent, Started
<1> QED
  BY <1>2, <1>3, <1>4 DEF CountInv, Counted

LEMMA StepCounted ==
  FewRequests /\ TypeOK /\ CipInv /\ WindowInv /\ CountInv /\ [Next]_vars => CountInv'
<1> SUFFICES ASSUME FewRequests, TypeOK, CipInv, WindowInv, CountInv, [Next]_vars
             PROVE  CountInv'
  OBVIOUS
<1>1. ASSUME NEW r \in Requests, Issue(r) PROVE CountInv'
  BY <1>1, IssueCounted
<1>2. CASE Tick
  BY <1>2, TickCounted
<1>3. CASE Resend
  BY <1>3, ResendCounted
<1>4. CASE Device
  <2>1. Idle' = Idle
    BY <1>4 DEF Device, Idle
  <2> QED
    BY <1>4, <2>1, DeviceMoves, FewerCounted DEF SameWindow
<1>5. CASE Lose
  <2>1. toClient # <<>> /\ toClient' = Tail(toClient) /\ cip' = cip /\ Idle' = Idle
    BY <1>5 DEF Lose, Idle
  <2> QED
    BY <2>1, ReplyMoves, FewerCounted
<1>6. CASE Expire \/ UNCHANGED vars
  <2>1. cip' = cip /\ toClient' = toClient /\ outcome' = outcome
    BY <1>6 DEF Expire, vars
  <2> QED
    BY <2>1 DEF CountInv, Flight, Idle
<1>7. CASE InternalReply
  BY <1>7, InternalReplyCounted
<1>8. CASE UnconnectedReply \/ ConnectedReply
  BY <1>8, RepliesCounted
<1>9. CASE SessionFails \/ CloseTimeout \/ Destroys
  BY <1>9, Now, EndsReset, IdleKept, EndedCounted
<1>10. CASE CloseLayers \/ BelowClosed
  <2>1. Quits /\ Idle' = Idle
    BY <1>10, IdleKept, BelowClosedQuits DEF CloseLayers, Quits
  <2> QED
    BY <2>1, QuitsParts, FewerCounted DEF SameWindow, SameQueue
<1>11. CASE Disconnects
  BY <1>11, DisconnectsCounted
<1> QED
  BY <1>1, <1>2, <1>3, <1>4, <1>5, <1>6, <1>7, <1>8, <1>9, <1>10, <1>11 DEF Next

(* A program with no more requests than there are sequence counts uses none  *)
(* of them twice for messages that are under way together.                   *)
THEOREM CountsSuffice == ASSUME FewRequests PROVE Spec => []NoReuse
<1> DEFINE Inv == TypeOK /\ CipInv /\ WindowInv /\ CountInv
<1>1. Init => Inv
  BY InitSound, InitInWindow, InitCounted
<1>2. Inv /\ [Next]_vars => Inv'
  BY StepSound, StepInWindow, StepCounted, CountsAreNew
<1>3. Inv => NoReuse
  BY CountsAreNew
<1> HIDE DEF Inv
<1> QED
  BY <1>1, <1>2, <1>3, PTL DEF Spec

(* RequestService for such a program, whatever the device and the network    *)
(* do: no request is settled twice, none with the reply to another.          *)
THEOREM FewRequestsAreServed == ASSUME FewRequests PROVE Spec => ImplementsService
  BY CountsSuffice, EveryAnswerIsItsOwn, PTL

-----------------------------------------------------------------------------
(* Until a ForwardOpen overlaps another request of the layer, one callback   *)
(* at most will open a connection, none while there is one, and a layer that *)
(* closes is disconnecting, or disconnected by a duplicate that it recovers  *)
(* from.                                                                     *)
Orderly(c, cl) ==
  /\ \A a, b \in c.callbacks : a.purpose # "close" /\ b.purpose # "close" => a = b
  /\ c.sendInfo # None => c.state \in {-1, 2} /\ ~Opening(c)
  /\ cl => c.state \in {-1, 0} /\ (c.state = 0 => Waits(c, "reclose"))

Calm(c, cl) == Headed(c) /\ (c.overlap \/ Orderly(c, cl))

(* A request that is still to be sent was not sent before.                   *)
Unsaid(c, ms, idle) ==
  /\ Once(c, idle)
  /\ \A m \in ms :
       m.kind \in {"connected", "unconnected", "stale"} => m.request \notin Remaining(c, idle)
  /\ \A s \in SequenceNumbers : c.idContext[s] \notin Remaining(c, idle)
  /\ \A last \in c.resend : last.request \notin Remaining(c, idle)

(* A request in the queue is owed, until the layers close and empty it.      *)
WaitingIsOwed ==
  closing \/ ~NoMicrotask \/ \A r \in Waiting(cip) : outcome[r] = "pending"

TurnInv == Calm(cip, closing) /\ Unsaid(cip, Flight, Idle) /\ WaitingIsOwed

LEMMA ConnectsCalm ==
  ASSUME NEW c, NEW d, Connects(c, d), NEW cl, cl <=> Waits(c, "close"),
         c.sendInfo = None => c.queue # <<>> /\ Head(c.queue) \in Connected,
         c.overlap \/ c.sendInfo = None
  PROVE  Calm(d, cl)
<1>1. d.sendInfo = c.sendInfo /\ d.queue = c.queue /\ d.state = 1
      /\ d.callbacks = c.callbacks \cup {Callback(c, "open")}
      /\ d.overlap = (c.overlap \/ c.callbacks # {})
  BY DEF Connects, SameQueue, AsksToOpen
<1>2. Headed(d)
  BY <1>1 DEF Headed
<1>3. ASSUME ~d.overlap PROVE Orderly(d, cl)
  BY <1>1, <1>3 DEF Orderly, Waits
<1> QED
  BY <1>2, <1>3 DEF Calm

LEMMA SendNextCalm ==
  ASSUME NEW c \in Fields, session \in 1 .. MaxSessions, c.state = 2 => c.sendInfo # None,
         NEW cl, cl <=> Waits(c, "close"), Calm(c, cl), SendNext(c).serial <= MaxSerial
  PROVE  Calm(SendNext(c), cl)
<1> DEFINE d == SendNext(c)
<1>1. d \in Fields /\ NextSent(c, d)
  BY SendNextParts
<1> HIDE DEF d
<1>2. CASE c.queue = <<>> \/ c.state \notin {0, 2}
  <2>1. d = c
    BY <1>1, <1>2 DEF NextSent
  <2> QED
    BY <2>1 DEF d
<1>3. ASSUME c.queue # <<>>, c.state = 2 PROVE Calm(d, cl)
  <2>1. SendsConnected(c, d, Head(c.queue))
    BY <1>1, <1>3 DEF NextSent
  <2>2. d.state = c.state /\ d.sendInfo = c.sendInfo /\ d.callbacks = c.callbacks
        /\ d.overlap = c.overlap /\ d.sendInfo # None
    BY <1>3, <2>1 DEF SendsConnected, SameBooks
  <2> QED
    BY <2>2 DEF Calm, Headed, Orderly, Opening, Waits
<1>4. ASSUME c.queue # <<>>, c.state = 0, Head(c.queue) \in Connected PROVE Calm(d, cl)
  <2>1. Connects(c, d)
    BY <1>1, <1>4 DEF NextSent
  <2>2. c.overlap \/ c.sendInfo = None
    BY <1>4 DEF Calm, Orderly
  <2> QED
    BY <1>4, <2>1, <2>2, ConnectsCalm
<1>5. ASSUME c.queue # <<>>, c.state = 0, Head(c.queue) \notin Connected PROVE Calm(d, cl)
  <2>1. SendsUnconnected(c, d, Head(c.queue))
    BY <1>1, <1>5 DEF NextSent
  <2>2. d.state = c.state /\ d.sendInfo = c.sendInfo /\ d.callbacks = c.callbacks
        /\ d.overlap = c.overlap
    BY <2>1 DEF SendsUnconnected, SameBooks
  <2>3. Headed(d)
    BY <1>5, <2>2 DEF Calm, Headed, Opening, Waits
  <2> QED
    BY <2>2, <2>3 DEF Calm, Orderly, Opening, Waits
<1> QED
  BY <1>1, <1>2, <1>3, <1>4, <1>5 DEF NextSent, d

(* What stays in the queue, and what was on its way.                         *)
LEMMA StillUnsaid ==
  ASSUME NEW c \in Fields, NEW d, NEW ms, NEW more, NEW idle \in SUBSET Requests,
         Unsaid(c, ms, idle), d.queue = c.queue, d.resend \in {c.resend, {}},
         \A s \in SequenceNumbers : d.idContext[s] \in {None, c.idContext[s]},
         \A m \in more \ ms : Internal(m) \/ m.request \notin Remaining(c, idle)
  PROVE  Unsaid(d, more, idle)
<1>1. Remaining(d, idle) = Remaining(c, idle) /\ Once(d, idle)
  BY DEF Remaining, Waiting, Unsaid, Once
<1>2. None \notin Remaining(c, idle)
  <2>1. Waiting(c) \subseteq Requests
    BY DEF Waiting, Fields
  <2> QED
    BY <2>1, Constants DEF Remaining
<1>3. \A m \in more : m.kind \in {"connected", "unconnected", "stale"}
        => m.request \notin Remaining(c, idle)
  BY DEF Unsaid, Internal
<1>4. \A s \in SequenceNumbers : d.idContext[s] \notin Remaining(c, idle)
  BY <1>2 DEF Unsaid
<1>5. \A last \in d.resend : last.request \notin Remaining(c, idle)
  BY DEF Unsaid
<1> QED
  BY <1>1, <1>3, <1>4, <1>5 DEF Unsaid

(* Only the head of the queue leaves it, and only to be sent.                *)
LEMMA SendNextUnsaid ==
  ASSUME NEW c \in Fields, session \in 1 .. MaxSessions, c.state = 2 => c.sendInfo # None,
         NEW rest, NEW idle \in SUBSET Requests,
         Unsaid(c, rest \cup Of(c.sent), idle), SendNext(c).serial <= MaxSerial
  PROVE  /\ Unsaid(SendNext(c), rest \cup Of(SendNext(c).sent), idle)
         /\ Waiting(SendNext(c)) \subseteq Waiting(c)
         /\ \A r \in Waiting(c) \ Waiting(SendNext(c)) :
              /\ r = Head(c.queue)
              /\ c.state = 2 \/ (c.state = 0 /\ r \notin Connected)
<1> DEFINE d == SendNext(c)
<1>1. d \in Fields /\ NextSent(c, d)
  BY SendNextParts
<1> HIDE DEF d
<1>2. CASE c.queue = <<>> \/ c.state \notin {0, 2}
  <2>1. d = c
    BY <1>1, <1>2 DEF NextSent
  <2> QED
    BY <2>1 DEF d
<1>3. ASSUME c.queue # <<>>, d.queue = Tail(c.queue), NEW m \in Messages,
             d.sent = Posted(c, m), m.request = Head(c.queue),
             \A s \in SequenceNumbers : d.idContext[s] \in {c.idContext[s], Head(c.queue)},
             \A last \in d.resend : last \in c.resend \/ last.request = Head(c.queue)
      PROVE  /\ Unsaid(d, rest \cup Of(d.sent), idle)
             /\ Waiting(d) = Waiting(c) \ {Head(c.queue)}
  <2>1. Once(c, idle)
    BY DEF Unsaid
  <2>2. /\ Once(d, idle) /\ Remaining(d, idle) = Remaining(c, idle) \ {Head(c.queue)}
        /\ Waiting(d) = Waiting(c) \ {Head(c.queue)}
    BY <1>1, <1>3, <2>1, HeadLeaves
  <2>3. Of(d.sent) = Of(c.sent) \cup {m}
    BY <1>3, OfPosted
  <2>4. \A x \in rest \cup Of(d.sent) : x.kind \in {"connected", "unconnected", "stale"}
          => x.request \notin Remaining(d, idle)
    BY <1>3, <2>2, <2>3 DEF Unsaid
  <2>5. \A s \in SequenceNumbers : d.idContext[s] \notin Remaining(d, idle)
    BY <1>3, <2>2 DEF Unsaid
  <2>6. \A last \in d.resend : last.request \notin Remaining(d, idle)
    BY <1>3, <2>2 DEF Unsaid
  <2> QED
    BY <2>2, <2>4, <2>5, <2>6 DEF Unsaid
<1>4. ASSUME c.queue # <<>>, c.state = 2
      PROVE  /\ Unsaid(d, rest \cup Of(d.sent), idle)
             /\ Waiting(d) = Waiting(c) \ {Head(c.queue)}
  <2> DEFINE n == (c.seq + 1) % SequenceCounts
             r == Head(c.queue)
             m == OnConnection(c, n, r)
  <2>1. SendsConnected(c, d, r)
    BY <1>1, <1>4 DEF NextSent
  <2>2. m \in Messages /\ m.request = r /\ d.idContext = [c.idContext EXCEPT ![n] = r]
        /\ d.resend = {[seq |-> n, request |-> r]} /\ d.sent = Posted(c, m)
        /\ d.queue = Tail(c.queue)
    BY <2>1 DEF SendsConnected, OnConnection
  <2> HIDE DEF m, n, r
  <2>3. c.idContext \in [SequenceNumbers -> Requests \cup {None}]
    BY DEF Fields
  <2>4. \A s \in SequenceNumbers : d.idContext[s] \in {c.idContext[s], r}
    BY <2>2, <2>3
  <2>5. \A last \in d.resend : last.request = r
    BY <2>2
  <2> QED
    BY <1>3, <1>4, <2>2, <2>4, <2>5 DEF r
<1>5. ASSUME c.queue # <<>>, c.state = 0, Head(c.queue) \in Connected
      PROVE  Unsaid(d, rest \cup Of(d.sent), idle) /\ Waiting(d) = Waiting(c)
  <2>1. Connects(c, d)
    BY <1>1, <1>5 DEF NextSent
  <2>2. d.queue = c.queue /\ d.resend = c.resend /\ d.idContext = c.idContext
    BY <2>1 DEF Connects, SameQueue, SameWindow
  <2>3. PICK m \in Messages : Internal(m) /\ d.sent = Posted(c, m)
    BY <2>1 DEF Connects, AsksToOpen, OpenMessage, Internal
  <2>4. Of(d.sent) = Of(c.sent) \cup {m}
    BY <2>3, OfPosted
  <2>5. PICK ms, more : ms = rest \cup Of(c.sent) /\ more = rest \cup Of(d.sent)
    OBVIOUS
  <2>6. Unsaid(c, ms, idle) /\ \A x \in more \ ms : Internal(x)
    BY <2>3, <2>4, <2>5
  <2>7. Unsaid(d, more, idle)
    BY <2>2, <2>6, StillUnsaid
  <2> QED
    BY <2>2, <2>5, <2>7 DEF Waiting
<1>6. ASSUME c.queue # <<>>, c.state = 0, Head(c.queue) \notin Connected
      PROVE  /\ Unsaid(d, rest \cup Of(d.sent), idle)
             /\ Waiting(d) = Waiting(c) \ {Head(c.queue)}
  <2>1. SendsUnconnected(c, d, Head(c.queue))
    BY <1>1, <1>6 DEF NextSent
  <2>2. d.queue = Tail(c.queue) /\ d.resend = c.resend /\ d.idContext = c.idContext
    BY <2>1 DEF SendsUnconnected, SameWindow
  <2>3. PICK m \in Messages : m.request = Head(c.queue) /\ d.sent = Posted(c, m)
    BY <2>1 DEF SendsUnconnected, Unconnected
  <2> QED
    BY <1>3, <1>6, <2>2, <2>3
<1> QED
  BY <1>1, <1>2, <1>4, <1>5, <1>6 DEF NextSent, d

(* Nothing but what is owed leaves the queue to be sent.                     *)
OwedIsSent ==
  \A r \in Waiting(cip) \ Waiting(cip') :
    \/ outcome'[r] = "pending" \/ Len(cip'.sent) <= Len(cip.sent)
    \/ cip.overlap \/ ~NoMicrotask

LEMMA NowTurned ==
  ASSUME TypeOK, CipInv, TurnInv
  PROVE  /\ cip \in Fields /\ session \in 1 .. MaxSessions /\ Idle \in SUBSET Requests
         /\ closing <=> Waits(cip, "close")
         /\ cip.state = 2 => cip.sendInfo # None
         /\ Headed(cip) /\ (cip.overlap \/ Orderly(cip, closing))
         /\ Unsaid(cip, Flight, Idle) /\ Once(cip, Idle) /\ WaitingIsOwed
         /\ Waiting(cip) \subseteq Requests
<1>1. cip \in Fields /\ session \in 1 .. MaxSessions /\ Idle \in SUBSET Requests
  BY Now DEF Idle
<1>2. (closing <=> Waits(cip, "close")) /\ (cip.state = 2 => cip.sendInfo # None)
  BY DEF CipInv, Sound, Staged
<1>3. Waiting(cip) \subseteq Requests
  BY <1>1 DEF Waiting, Fields
<1> QED
  BY <1>1, <1>2, <1>3 DEF TurnInv, Calm, Unsaid

LEMMA TurnTurned ==
  ASSUME TypeOK, CipInv, TurnInv, NEW c \in Fields, c.state = cip.state,
         c.sendInfo = cip.sendInfo, SameBooks(cip, c), SameWindow(cip, c), c.sent = cip.sent,
         NEW idle \in SUBSET Requests, Once(c, idle), Remaining(c, idle) = Remaining(cip, Idle),
         cip.queue # <<>> => c.queue # <<>> /\ Head(c.queue) = Head(cip.queue),
         Waiting(cip) \subseteq Waiting(c),
         cip' = SendNext(c), cip'.serial <= MaxSerial, toClient' = toClient, Idle' = idle,
         closing' = closing, due' = due,
         closing \/ ~NoMicrotask \/ \A r \in Waiting(c) : outcome'[r] = "pending"
  PROVE  TurnInv' /\ OwedIsSent
<1>1. session \in 1 .. MaxSessions /\ (c.state = 2 => c.sendInfo # None)
      /\ (closing <=> Waits(c, "close"))
  BY NowTurned DEF Waits, SameBooks
<1>2. Calm(c, closing)
  BY NowTurned DEF Calm, Headed, Orderly, Opening, Waits, SameBooks
<1>3. PICK cl : cl = closing
  OBVIOUS
<1>4. Calm(SendNext(c), cl)
  BY <1>1, <1>2, <1>3, SendNextCalm
<1>5. Flight = Of(toClient) \cup Of(c.sent) /\ Flight' = Of(toClient) \cup Of(cip'.sent)
  BY DEF Flight
<1>6. Unsaid(c, Of(toClient) \cup Of(c.sent), idle)
  BY <1>5, NowTurned DEF Unsaid, SameWindow
<1>7. PICK rest : rest = Of(toClient)
  OBVIOUS
<1>8. /\ Unsaid(SendNext(c), rest \cup Of(SendNext(c).sent), idle)
      /\ Waiting(SendNext(c)) \subseteq Waiting(c)
      /\ \A r \in Waiting(c) \ Waiting(SendNext(c)) :
           /\ r = Head(c.queue)
           /\ c.state = 2 \/ (c.state = 0 /\ r \notin Connected)
  BY <1>1, <1>6, <1>7, SendNextUnsaid
<1>9. TurnInv'
  BY <1>3, <1>4, <1>5, <1>7, <1>8 DEF TurnInv, WaitingIsOwed, NoMicrotask
<1>10. ASSUME NEW r \in Waiting(cip) \ Waiting(cip'), outcome'[r] # "pending", ~cip.overlap,
              NoMicrotask
       PROVE  FALSE
  <2>1. r = Head(c.queue) /\ (c.state = 2 \/ (c.state = 0 /\ r \notin Connected))
    BY <1>8, <1>10
  <2>2. closing /\ Orderly(cip, closing)
    BY <1>10, NowTurned
  <2>3. cip.state = 0 /\ Waits(cip, "reclose") /\ cip.sendInfo = None
    BY <2>1, <2>2 DEF Orderly, Opening
  <2>4. cip.queue # <<>> /\ Head(cip.queue) \in Connected
    BY <2>3, NowTurned DEF Headed, Opening
  <2> QED
    BY <2>1, <2>3, <2>4
<1> QED
  BY <1>9, <1>10 DEF OwedIsSent

LEMMA IssueTurned ==
  ASSUME TypeOK, CipInv, TurnInv, NEW r \in Requests, Issue(r)
  PROVE  TurnInv' /\ OwedIsSent
<1> DEFINE c == [cip EXCEPT !.queue = Append(@, r)]
           idle == Idle \ {r}
<1>1. cip \in Fields /\ cip.queue \in Seq(Requests) /\ Append(cip.queue, r) \in Seq(Requests)
      /\ outcome \in [Requests -> {"idle", "pending", "answered", "rejected"}]
  BY Now DEF Fields, TypeOK
<1>2. c \in Fields /\ c.state = cip.state /\ c.sendInfo = cip.sendInfo /\ SameBooks(cip, c)
      /\ c.sent = cip.sent /\ SameWindow(cip, c) /\ c.queue = Append(cip.queue, r)
  BY <1>1 DEF Fields, SameBooks, SameWindow
<1>3. cip' = SendNext(c) /\ cip'.serial <= MaxSerial /\ toClient' = toClient
      /\ closing' = closing /\ due' = due /\ Idle' = idle /\ r \in Idle
      /\ outcome' = [outcome EXCEPT ![r] = "pending"]
  BY <1>1 DEF Issue, Idle
<1>4. cip.queue # <<>> => c.queue # <<>> /\ Head(c.queue) = Head(cip.queue)
  BY <1>1, <1>2
<1>5. Once(cip, Idle)
  BY NowTurned
<1> HIDE DEF c
<1>6. Once(c, idle) /\ Remaining(c, idle) = Remaining(cip, Idle)
      /\ Waiting(c) = Waiting(cip) \cup {r}
  BY <1>1, <1>2, <1>3, <1>5, AppendedOnce
<1>7. closing \/ ~NoMicrotask \/ \A x \in Waiting(c) : outcome'[x] = "pending"
  BY <1>1, <1>3, <1>6, NowTurned DEF WaitingIsOwed
<1>8. PICK others \in SUBSET Requests : others = idle
  BY NowTurned
<1> HIDE DEF idle
<1> QED
  BY <1>2, <1>3, <1>4, <1>6, <1>7, <1>8, TurnTurned

LEMMA TickTurned ==
  ASSUME TypeOK, CipInv, TurnInv, Tick
  PROVE  TurnInv' /\ OwedIsSent
<1> DEFINE c == [cip EXCEPT !.ticks = @ - 1]
<1>1. cip \in Fields /\ cip.ticks - 1 \in Nat
  BY Now DEF Fields, Tick
<1>2. c \in Fields /\ c.state = cip.state /\ c.sendInfo = cip.sendInfo /\ SameBooks(cip, c)
      /\ c.sent = cip.sent /\ SameWindow(cip, c) /\ c.queue = cip.queue
  BY <1>1 DEF Fields, SameBooks, SameWindow
<1>3. cip' = SendNext(c) /\ cip'.serial <= MaxSerial /\ toClient' = toClient
      /\ closing' = closing /\ due' = due /\ outcome' = outcome /\ Idle' = Idle
  BY DEF Tick, Idle
<1> HIDE DEF c
<1>4. PICK idle \in SUBSET Requests : idle = Idle
  BY NowTurned
<1>5. Once(c, idle) /\ Remaining(c, idle) = Remaining(cip, Idle) /\ Waiting(c) = Waiting(cip)
  BY <1>2, <1>4, NowTurned DEF Once, Remaining, Waiting
<1>6. closing \/ ~NoMicrotask \/ \A r \in Waiting(c) : outcome'[r] = "pending"
  BY <1>3, <1>5, NowTurned DEF WaitingIsOwed
<1> QED
  BY <1>2, <1>3, <1>4, <1>5, <1>6, TurnTurned

(* Nothing new is under way, and the layer is as it was.                     *)
LEMMA FewerTurned ==
  ASSUME TypeOK, CipInv, TurnInv, Flight' \subseteq Flight, Idle' = Idle, closing' = closing,
         NoMicrotask' => NoMicrotask,
         cip'.state = cip.state, cip'.sendInfo = cip.sendInfo, cip'.resend = cip.resend,
         cip'.queue = cip.queue, cip'.callbacks = cip.callbacks, cip'.overlap = cip.overlap,
         \A s \in SequenceNumbers : cip'.idContext[s] \in {None, cip.idContext[s]},
         \A r \in Waiting(cip) : outcome'[r] = outcome[r]
  PROVE  TurnInv' /\ OwedIsSent
<1>1. Calm(cip', closing')
  BY NowTurned DEF Calm, Headed, Orderly, Opening, Waits
<1>2. Waiting(cip') = Waiting(cip)
  BY DEF Waiting
<1>3. PICK c, d, ms, more, idle :
        c = cip /\ d = cip' /\ ms = Flight /\ more = Flight' /\ idle = Idle
  OBVIOUS
<1>4. c \in Fields /\ idle \in SUBSET Requests /\ Unsaid(c, ms, idle) /\ more \subseteq ms
  BY <1>3, NowTurned
<1>5. Unsaid(d, more, idle)
  BY <1>3, <1>4, StillUnsaid
<1> QED
  BY <1>1, <1>2, <1>3, <1>5, NowTurned DEF TurnInv, WaitingIsOwed, OwedIsSent

LEMMA RepliesTurned ==
  ASSUME TypeOK, CipInv, TurnInv, UnconnectedReply \/ ConnectedReply
  PROVE  TurnInv' /\ OwedIsSent
<1> DEFINE h == Head(toClient)
<1>1. toClient \in Seq(Replies) /\ toClient # <<>> /\ toClient' = Tail(toClient)
      /\ h \in Replies /\ cip \in Fields /\ closing' = closing /\ (NoMicrotask' => NoMicrotask)
  BY Now DEF UnconnectedReply, ConnectedReply
<1>2. cip'.state = cip.state /\ cip'.sendInfo = cip.sendInfo /\ cip'.resend = cip.resend
      /\ cip'.queue = cip.queue /\ cip'.sent = cip.sent /\ cip'.callbacks = cip.callbacks
      /\ cip'.overlap = cip.overlap
  BY <1>1 DEF UnconnectedReply, ConnectedReply, Fields
<1>3. Flight' \subseteq Flight
  BY <1>1, <1>2, ReplyMoves
<1>4. h.m \in Flight /\ h.m \in Messages
  <2>1. Of(toClient) = Of(Tail(toClient)) \cup {h.m}
    BY <1>1, OfTail
  <2> QED
    BY <1>1, <2>1 DEF Flight, Replies
<1> HIDE DEF h
<1>5. /\ \A s \in SequenceNumbers : cip'.idContext[s] \in {None, cip.idContext[s]}
      /\ \/ outcome' = outcome
         \/ \E r, q \in Requests : Settle(r, q) /\ r \notin Waiting(cip)
  <2>1. CASE UnconnectedReply
    <3>1. h.m.request \in Requests /\ Settle(h.m.request, h.m.request) /\ cip' = cip
          /\ h.m.kind = "unconnected"
      BY <1>4, <2>1, MessageParts DEF UnconnectedReply, h
    <3>2. h.m.request \notin Waiting(cip)
      BY <1>4, <3>1, NowTurned DEF Unsaid, Remaining
    <3> QED
      BY <3>1, <3>2
  <2>2. CASE ConnectedReply
    <3> DEFINE r == cip.idContext[h.m.seq]
    <3>1. h.m.request \in Requests /\ h.m.seq \in SequenceNumbers
      BY <1>4, <2>2, MessageParts DEF ConnectedReply, h
    <3>2. cip.idContext \in [SequenceNumbers -> Requests \cup {None}] /\ r \notin Waiting(cip)
      BY <1>1, <3>1, NowTurned DEF Fields, Unsaid, Remaining
    <3>3. \/ cip' = cip /\ outcome' = outcome
          \/ /\ r # None /\ Settle(r, h.m.request)
             /\ cip' = [cip EXCEPT !.idContext[h.m.seq] = None]
      BY <2>2 DEF ConnectedReply, h
    <3>4. CASE cip' = cip /\ outcome' = outcome
      BY <3>4
    <3>5. ASSUME r # None, Settle(r, h.m.request),
                 cip' = [cip EXCEPT !.idContext[h.m.seq] = None]
          PROVE  /\ \A s \in SequenceNumbers : cip'.idContext[s] \in {None, cip.idContext[s]}
                 /\ r \in Requests
      <4>1. cip'.idContext = [cip.idContext EXCEPT ![h.m.seq] = None]
        BY <1>1, <3>5 DEF Fields
      <4>2. r \in Requests
        BY <3>1, <3>2, <3>5
      <4> HIDE DEF r
      <4> QED
        BY <3>2, <4>1, <4>2
    <3> QED
      BY <3>1, <3>2, <3>3, <3>4, <3>5
  <2> QED
    BY <2>1, <2>2
<1>6. Idle' = Idle
  <2>1. outcome' = outcome \/ \E r, q \in Requests : Settle(r, q)
    BY <1>5
  <2> QED
    BY <2>1, IdleKept
<1>7. \A r \in Waiting(cip) : outcome'[r] = outcome[r]
  <2>1. outcome \in [Requests -> {"idle", "pending", "answered", "rejected"}]
    BY DEF TypeOK
  <2> QED
    BY <1>5, <2>1, NowTurned DEF Settle
<1> QED
  BY <1>1, <1>2, <1>3, <1>5, <1>6, <1>7, FewerTurned

LEMMA ResendTurned ==
  ASSUME TypeOK, CipInv, TurnInv, Resend
  PROVE  TurnInv' /\ OwedIsSent
<1>1. PICK last \in cip.resend :
        cip' = Hand(cip, IF cip.sendInfo = None
                           THEN [kind |-> "stale", request |-> last.request]
                           ELSE OnConnection(cip, last.seq, last.request))
  BY DEF Resend
<1>2. cip \in Fields /\ last \in [seq : SequenceNumbers, request : Requests]
      /\ session \in 1 .. MaxSessions
  BY <1>1, Now DEF Fields
<1>3. PICK m \in Messages : cip' = Hand(cip, m) /\ m.request = last.request
  <2>1. CASE cip.sendInfo = None
    <3>1. [kind |-> "stale", request |-> last.request] \in Messages
      BY <1>2 DEF Messages
    <3> QED
      BY <1>1, <2>1, <3>1
  <2>2. CASE cip.sendInfo # None
    <3>1. cip.sendInfo \in Serials
      BY <1>2, <2>2 DEF Fields
    <3>2. OnConnection(cip, last.seq, last.request) \in Messages
      BY <1>2, <3>1 DEF Messages, OnConnection
    <3> QED
      BY <1>1, <2>2, <3>2 DEF OnConnection
  <2> QED
    BY <2>1, <2>2
<1>4. cip' = [cip EXCEPT !.sent = Posted(cip, m)]
  BY <1>2, <1>3, HandIs
<1>5. cip'.state = cip.state /\ cip'.sendInfo = cip.sendInfo /\ cip'.resend = cip.resend
      /\ cip'.queue = cip.queue /\ cip'.callbacks = cip.callbacks /\ cip'.overlap = cip.overlap
      /\ cip'.idContext = cip.idContext /\ cip'.sent = Posted(cip, m)
  BY <1>2, <1>4 DEF Fields
<1>6. toClient' = toClient /\ outcome' = outcome /\ closing' = closing /\ Idle' = Idle
      /\ NoMicrotask
  BY DEF Resend, Idle
<1>7. Flight' = Flight \cup {m}
  <2>1. PICK c : c = cip
    OBVIOUS
  <2>2. Of(Posted(c, m)) = Of(c.sent) \cup {m}
    BY <1>2, <2>1, OfPosted
  <2> QED
    BY <1>5, <1>6, <2>1, <2>2 DEF Flight
<1>8. m.request \notin Remaining(cip, Idle)
  BY <1>1, <1>3, NowTurned DEF Unsaid
<1>9. Calm(cip', closing')
  BY <1>5, <1>6, NowTurned DEF Calm, Headed, Orderly, Opening, Waits
<1>10. PICK c, d, ms, more, idle :
        c = cip /\ d = cip' /\ ms = Flight /\ more = Flight' /\ idle = Idle
  OBVIOUS
<1>11. /\ c \in Fields /\ idle \in SUBSET Requests /\ Unsaid(c, ms, idle)
       /\ \A x \in more \ ms : x.request \notin Remaining(c, idle)
       /\ d.queue = c.queue /\ d.resend = c.resend /\ d.idContext = c.idContext
  BY <1>5, <1>7, <1>8, <1>10, NowTurned
<1>12. Unsaid(d, more, idle)
  BY <1>11, StillUnsaid
<1>13. Waiting(cip') = Waiting(cip)
  BY <1>5 DEF Waiting
<1> QED
  BY <1>6, <1>9, <1>10, <1>12, <1>13, NowTurned DEF TurnInv, WaitingIsOwed, OwedIsSent

LEMMA EndedTurned ==
  ASSUME TypeOK, CipInv, TurnInv, NEW c \in Fields, c.serial = cip.serial,
         c.sent = cip.sent, c.resend = cip.resend, Idle' = Idle, closing' = FALSE, Resets(c)
  PROVE  TurnInv' /\ OwedIsSent
<1>1. /\ Flight' \subseteq Flight /\ cip'.sendInfo = None /\ cip'.callbacks = {}
      /\ cip'.queue = <<>> /\ cip'.resend = cip.resend
      /\ cip'.idContext = [s \in SequenceNumbers |-> None] /\ Len(cip'.sent) <= Len(cip.sent)
  BY EndedParts
<1>2. Calm(cip', closing')
  BY <1>1 DEF Calm, Headed, Orderly, Opening, Waits
<1>3. Waiting(cip') = {} /\ Once(cip', Idle)
  BY <1>1 DEF Waiting, Once
<1>4. Remaining(cip', Idle) = Idle /\ Idle \subseteq Remaining(cip, Idle) /\ None \notin Idle
  BY <1>3, NowTurned, Constants DEF Remaining
<1>5. \A s \in SequenceNumbers : cip'.idContext[s] = None
  BY <1>1
<1>6. \A m \in Flight' : m.kind \in {"connected", "unconnected", "stale"} => m.request \notin Idle
  BY <1>1, <1>4, NowTurned DEF Unsaid
<1>7. \A last \in cip'.resend : last.request \notin Idle
  BY <1>1, <1>4, NowTurned DEF Unsaid
<1>8. Unsaid(cip', Flight', Idle)
  BY <1>3, <1>4, <1>5, <1>6, <1>7 DEF Unsaid
<1> QED
  BY <1>1, <1>2, <1>3, <1>8 DEF TurnInv, WaitingIsOwed, OwedIsSent

(* The record without the callback cb that takes its reply.                  *)
Freed(c, h, cb) ==
  /\ c \in Fields /\ c.state = cip.state /\ c.sendInfo = cip.sendInfo
  /\ c.serial = cip.serial /\ c.sent = cip.sent /\ SameWindow(cip, c) /\ c.queue = cip.queue
  /\ c.overlap = cip.overlap /\ cb \in cip.callbacks /\ c.callbacks = cip.callbacks \ {cb}
  /\ c.context = cip.context /\ c.again = cip.again /\ c.misnamed = cip.misnamed
  /\ h = Head(toClient) /\ Internal(h.m) /\ cb.id = h.m.id
  /\ h.m.kind = "open" <=> cb.purpose = "open"
  /\ h.m.kind = "open" => h.m.serial \in Serials

LEMMA CallbackFreed ==
  ASSUME TypeOK, CipInv, InternalReply
  PROVE  /\ toClient # <<>> /\ NoMicrotask /\ cip'.serial <= MaxSerial
         /\ \/ /\ toClient' = Tail(toClient)
               /\ UNCHANGED <<cip, closing, due, session, outcome>>
               /\ ~Filed(cip.callbacks, Head(toClient).m)
            \/ \E h, c, cb :
                 /\ Freed(c, h, cb)
                 /\ \/ cb.purpose = "open" /\ h.m.kind = "open" /\ OpenReply(c, h)
                    \/ cb.purpose = "reclose" /\ RecloseReply(c, h)
                    \/ cb.purpose = "close" /\ CloseReply(c, h)
<1> DEFINE h == Head(toClient)
           onFile == {cb \in cip.callbacks : cb.id = h.m.id}
           c == [cip EXCEPT !.callbacks = @ \ onFile]
<1>1. /\ toClient # <<>> /\ NoMicrotask /\ Internal(h.m) /\ cip'.serial <= MaxSerial
      /\ \/ /\ onFile = {} /\ toClient' = Tail(toClient)
            /\ UNCHANGED <<cip, closing, due, session, outcome>>
         \/ \E cb \in onFile :
              \/ cb.purpose = "open" /\ OpenReply(c, h)
              \/ cb.purpose = "reclose" /\ RecloseReply(c, h)
              \/ cb.purpose = "close" /\ CloseReply(c, h)
  BY DEF InternalReply, Internal
<1>2. ASSUME NEW cb \in onFile
      PROVE  Freed(c, h, cb)
  <2>1. cip \in Fields /\ h \in Replies
    BY <1>1, Now
  <2> HIDE DEF h
  <2>2. h = Head(toClient) /\ cb \in cip.callbacks /\ cb.id = h.m.id
    BY <1>2 DEF h
  <2>3. PICK left : left = cip.callbacks \ onFile
    OBVIOUS
  <2>4. c = [cip EXCEPT !.callbacks = left]
        /\ \A b : b \in left <=> b \in cip.callbacks /\ b.id # h.m.id
    BY <2>3
  <2> HIDE DEF c
  <2>5. toClient # <<>> /\ Internal(h.m)
    BY <1>1
  <2>6. Takes(c, h, cb)
    BY <1>1, <2>2, <2>4, <2>5, CallbackTaken
  <2>7. c.serial = cip.serial /\ c.sent = cip.sent /\ SameWindow(cip, c)
        /\ c.overlap = cip.overlap /\ c.queue = cip.queue
    BY <2>1, <2>4 DEF Fields, SameWindow
  <2>8. c.context = cip.context /\ c.again = cip.again /\ c.misnamed = cip.misnamed
    BY <2>1, <2>4 DEF Fields
  <2>9. h.m.kind = "open" => h.m.serial \in Serials
    BY <2>1, MessageParts DEF Replies
  <2> QED
    BY <2>2, <2>5, <2>6, <2>7, <2>8, <2>9 DEF Takes, Freed
<1>3. onFile = {} => ~Filed(cip.callbacks, h.m)
  BY DEF Filed
<1>4. ASSUME NEW cb \in onFile, cb.purpose = "open" PROVE h.m.kind = "open"
  BY <1>2, <1>4 DEF Freed
<1> HIDE DEF c
<1> QED
  BY <1>1, <1>2, <1>3, <1>4

LEMMA ContinueTurned ==
  ASSUME TypeOK, CipInv, TurnInv, NEW d, Continue(d), Calm(d, closing),
         Unsaid(d, Of(Tail(toClient)) \cup Of(d.sent), Idle), Waiting(d) \subseteq Waiting(cip),
         \A r \in Waiting(cip) \ Waiting(d) : outcome[r] = "pending" \/ cip.overlap
  PROVE  TurnInv' /\ OwedIsSent
<1>1. cip' = d /\ toClient' = Tail(toClient) /\ closing' = closing /\ outcome' = outcome
      /\ Idle' = Idle /\ due' = due
  BY DEF Continue, Idle
<1> QED
  BY <1>1, NowTurned DEF TurnInv, WaitingIsOwed, OwedIsSent, Flight, NoMicrotask

LEMMA FreedUnsaid ==
  ASSUME TypeOK, CipInv, TurnInv, toClient # <<>>, NEW h, NEW c, NEW cb, Freed(c, h, cb),
         NEW e, SameWindow(c, e), e.queue = c.queue, e.sent = c.sent
  PROVE  Unsaid(e, Of(Tail(toClient)) \cup Of(e.sent), Idle) /\ Waiting(e) = Waiting(cip)
<1>1. Of(toClient) = Of(Tail(toClient)) \cup {Head(toClient).m}
  BY Now, OfTail
<1>2. PICK b, all, less, idle :
        b = cip /\ all = Flight /\ less = Of(Tail(toClient)) \cup Of(e.sent) /\ idle = Idle
  OBVIOUS
<1>3. b \in Fields /\ idle \in SUBSET Requests /\ Unsaid(b, all, idle)
  BY <1>2, NowTurned
<1>4. less \subseteq all
  BY <1>1, <1>2 DEF Flight, Freed
<1>5. e.queue = b.queue /\ e.resend = b.resend /\ e.idContext = b.idContext
  BY <1>2 DEF Freed, SameWindow
<1>6. Unsaid(e, less, idle)
  BY <1>3, <1>4, <1>5, StillUnsaid
<1> QED
  BY <1>2, <1>5, <1>6 DEF Waiting

(* The layer asks for a connection, or for the end of one.                   *)
LEMMA AskedUnsaid ==
  ASSUME NEW e \in Fields, session \in 1 .. MaxSessions, NEW d, NEW rest,
         NEW idle \in SUBSET Requests, Unsaid(e, rest \cup Of(e.sent), idle),
         SameWindow(e, d) \/ (d.idContext = e.idContext /\ d.resend = {}),
         d.queue = e.queue, NEW m \in Messages, Internal(m), d.sent = Posted(e, m)
  PROVE  Unsaid(d, rest \cup Of(d.sent), idle) /\ Waiting(d) = Waiting(e)
<1>1. Of(d.sent) = Of(e.sent) \cup {m}
  BY OfPosted
<1>2. PICK ms, more : ms = rest \cup Of(e.sent) /\ more = rest \cup Of(d.sent)
  OBVIOUS
<1>3. Unsaid(e, ms, idle) /\ \A x \in more \ ms : Internal(x)
  BY <1>1, <1>2
<1>4. d.resend \in {e.resend, {}} /\ d.idContext = e.idContext
  BY DEF SameWindow
<1>5. Unsaid(d, more, idle)
  BY <1>3, <1>4, StillUnsaid
<1> QED
  BY <1>2, <1>5 DEF Waiting

(* The fallback, or the recovery, connects.                                  *)
LEMMA ConnectTurned ==
  ASSUME TypeOK, CipInv, TurnInv, toClient # <<>>, NEW h, NEW c, NEW cb, Freed(c, h, cb),
         cb.purpose \in {"open", "reclose"},
         NEW e \in Fields, e.state = 0, e.sent = c.sent, e.callbacks = c.callbacks,
         SameWindow(c, e), e.sendInfo = c.sendInfo, e.queue = c.queue, e.overlap = c.overlap,
         Continue(Connect(e)), cip'.serial <= MaxSerial
  PROVE  TurnInv' /\ OwedIsSent
<1> DEFINE d == Connect(e)
<1>1. session \in 1 .. MaxSessions /\ Opening(cip)
  BY Now DEF Freed, Opening, Waits
<1>2. d.serial <= MaxSerial
  BY DEF Continue
<1>3. Connects(e, d)
  BY <1>1, <1>2, ConnectParts
<1> HIDE DEF d
<1>4. e.sendInfo = None => e.queue # <<>> /\ Head(e.queue) \in Connected
  BY <1>1, NowTurned DEF Freed, Headed
<1>5. e.overlap \/ e.sendInfo = None
  BY <1>1, NowTurned DEF Freed, Orderly
<1>6. closing <=> Waits(e, "close")
  BY NowTurned DEF Freed, Waits
<1>7. PICK idle \in SUBSET Requests, cl \in {closing} : idle = Idle
  BY NowTurned
<1>8. Calm(d, cl)
  BY <1>3, <1>4, <1>5, <1>6, <1>7, ConnectsCalm
<1>9. Unsaid(e, Of(Tail(toClient)) \cup Of(e.sent), Idle) /\ Waiting(e) = Waiting(cip)
  BY FreedUnsaid
<1>10. PICK m \in Messages : Internal(m) /\ d.sent = Posted(e, m)
  BY <1>3 DEF Connects, AsksToOpen, OpenMessage, Internal
<1>11. SameWindow(e, d) /\ d.queue = e.queue
  BY <1>3 DEF Connects, SameQueue
<1>12. PICK rest : rest = Of(Tail(toClient))
  OBVIOUS
<1>13. Unsaid(d, rest \cup Of(d.sent), idle) /\ Waiting(d) = Waiting(e)
  BY <1>1, <1>7, <1>9, <1>10, <1>11, <1>12, AskedUnsaid
<1> QED
  BY <1>7, <1>8, <1>9, <1>12, <1>13, ContinueTurned DEF d

LEMMA ReopenedTurned ==
  ASSUME TypeOK, CipInv, TurnInv, toClient # <<>>, NEW h, NEW c, NEW cb, Freed(c, h, cb),
         cb.purpose = "open", NEW e \in Fields, e.state = 0, e.sent = c.sent,
         e.callbacks = c.callbacks, SameWindow(c, e), e.sendInfo = c.sendInfo,
         e.queue = c.queue, e.overlap = c.overlap, Continue(SendClose(e, "reclose"))
  PROVE  TurnInv' /\ OwedIsSent
<1> DEFINE d == SendClose(e, "reclose")
<1>1. session \in 1 .. MaxSessions /\ Opening(cip)
  BY Now DEF Freed, Opening, Waits
<1>2. d.state = e.state /\ d.sendInfo = e.sendInfo /\ SameWindow(e, d) /\ SameQueue(e, d)
      /\ AsksToClose(e, d, "reclose")
  BY <1>1, SendCloseParts
<1> HIDE DEF d
<1>3. d.callbacks = c.callbacks \cup {Callback(e, "reclose")} /\ d.overlap = cip.overlap
      /\ d.state = 0 /\ d.sendInfo = cip.sendInfo /\ d.queue = cip.queue
  BY <1>2 DEF AsksToClose, SameQueue, Freed
<1>4. Headed(d)
  BY <1>1, <1>3, NowTurned DEF Headed
<1>5. ASSUME ~cip.overlap PROVE Orderly(d, closing)
  <2>1. Orderly(cip, closing)
    BY <1>5, NowTurned
  <2>2. \A b \in c.callbacks : b.purpose = "close"
    BY <2>1 DEF Orderly, Freed
  <2>3. \A a, b \in d.callbacks : a.purpose # "close" /\ b.purpose # "close" => a = b
    BY <1>3, <2>2
  <2>4. d.sendInfo = None
    BY <1>1, <1>3, <2>1 DEF Orderly
  <2>5. Waits(d, "reclose")
    <3>1. Callback(e, "reclose") \in d.callbacks /\ Callback(e, "reclose").purpose = "reclose"
      BY <1>3 DEF Callback
    <3> QED
      BY <3>1 DEF Waits
  <2> QED
    BY <1>3, <2>3, <2>4, <2>5 DEF Orderly
<1>6. Calm(d, closing)
  BY <1>3, <1>4, <1>5 DEF Calm
<1>7. PICK idle \in SUBSET Requests : idle = Idle
  BY NowTurned
<1>8. Unsaid(e, Of(Tail(toClient)) \cup Of(e.sent), Idle) /\ Waiting(e) = Waiting(cip)
  <2>1. TypeOK /\ CipInv /\ TurnInv /\ toClient # <<>> /\ Freed(c, h, cb)
    OBVIOUS
  <2>2. SameWindow(c, e) /\ e.queue = c.queue /\ e.sent = c.sent
    OBVIOUS
  <2> QED
    BY ONLY <2>1, <2>2, FreedUnsaid
<1>9. PICK m \in Messages : Internal(m) /\ d.sent = Posted(e, m)
  BY <1>2 DEF AsksToClose, CloseMessage, Internal
<1>10. PICK rest : rest = Of(Tail(toClient))
  OBVIOUS
<1>11. Unsaid(d, rest \cup Of(d.sent), idle) /\ Waiting(d) = Waiting(e)
  BY <1>1, <1>2, <1>7, <1>8, <1>9, <1>10, AskedUnsaid DEF SameQueue
<1> QED
  BY <1>6, <1>7, <1>8, <1>10, <1>11, ContinueTurned DEF d

LEMMA DestroyLayerTurned ==
  ASSUME TypeOK, CipInv, TurnInv, toClient # <<>>, NEW h, NEW c, NEW cb, Freed(c, h, cb),
         DestroyLayer(c)
  PROVE  TurnInv' /\ OwedIsSent
<1>1. Idle' = Idle
  BY IdleKept DEF DestroyLayer
<1>2. closing' = FALSE
  BY Now DEF DestroyLayer, SessionOver
<1>3. c \in Fields /\ c.serial = cip.serial /\ c.sent = cip.sent /\ c.resend = cip.resend
  BY DEF Freed, SameWindow
<1> QED
  BY <1>1, <1>2, <1>3, DestroyLayerResets, EndedTurned

LEMMA OpenReplyTurned ==
  ASSUME TypeOK, CipInv, TurnInv, NoMicrotask, toClient # <<>>, NEW h, NEW c, NEW cb, Freed(c, h, cb),
         cb.purpose = "open", h.m.kind = "open", OpenReply(c, h), cip'.serial <= MaxSerial
  PROVE  TurnInv' /\ OwedIsSent
<1>1. /\ c \in Fields /\ c.sendInfo = cip.sendInfo /\ c.queue = cip.queue
      /\ c.sent = cip.sent /\ SameWindow(cip, c) /\ c.state = cip.state
      /\ c.overlap = cip.overlap /\ c.callbacks = cip.callbacks \ {cb} /\ cb \in cip.callbacks
  BY DEF Freed
<1>2. session \in 1 .. MaxSessions /\ Opening(cip)
  BY <1>1, Now DEF Opening, Waits
<1>3. CASE h.status = "ok" /\ c.state = 1
  <2> DEFINE e == [c EXCEPT !.sendInfo = h.m.serial, !.state = 2]
  <2>1. h.m.serial \in Serials
    BY DEF Freed
  <2>2. e \in Fields /\ e.sendInfo # None /\ e.callbacks = c.callbacks /\ e.overlap = c.overlap
        /\ e.sent = c.sent /\ SameWindow(c, e) /\ e.queue = c.queue /\ e.state = 2
    BY <1>1, <2>1, Constants DEF Fields, SameWindow
  <2>3. Continue(SendNext(e))
    BY <1>3 DEF OpenReply
  <2>4. SendNext(e).serial <= MaxSerial
    BY <2>3 DEF Continue
  <2> HIDE DEF e
  <2>5. closing <=> Waits(e, "close")
    BY <1>1, <2>2, NowTurned DEF Waits
  <2>6. Headed(e)
    BY <2>2 DEF Headed
  <2>7. ASSUME ~cip.overlap PROVE Orderly(e, closing) /\ ~closing
    <3>1. Orderly(cip, closing)
      BY <2>7, NowTurned
    <3>2. ~closing
      BY <1>1, <1>3, <3>1 DEF Orderly
    <3>3. ~Opening(e)
      BY <1>1, <2>2, <3>1 DEF Orderly, Opening, Waits
    <3> QED
      BY <1>1, <2>2, <3>1, <3>2, <3>3 DEF Orderly
  <2>8. PICK idle \in SUBSET Requests, cl \in {closing} : idle = Idle
    BY NowTurned
  <2>9. Calm(e, cl)
    BY <1>1, <2>2, <2>6, <2>7, <2>8 DEF Calm
  <2>10. Calm(SendNext(e), cl)
    BY <1>2, <2>2, <2>4, <2>5, <2>8, <2>9, SendNextCalm
  <2>11. PICK rest : rest = Of(Tail(toClient))
    OBVIOUS
  <2>12. Unsaid(e, rest \cup Of(e.sent), idle) /\ Waiting(e) = Waiting(cip)
    BY <2>2, <2>8, <2>11, FreedUnsaid
  <2>13. /\ Unsaid(SendNext(e), rest \cup Of(SendNext(e).sent), idle)
         /\ Waiting(SendNext(e)) \subseteq Waiting(e)
    BY <1>2, <2>2, <2>4, <2>12, SendNextUnsaid
  <2>14. \A r \in Waiting(cip) : outcome[r] = "pending" \/ cip.overlap
    BY <2>7, NowTurned DEF WaitingIsOwed
  <2> QED
    BY <2>3, <2>8, <2>10, <2>11, <2>12, <2>13, <2>14, ContinueTurned
<1>4. CASE h.status = "ok" /\ c.state # 1
  <2>1. Continue(c)
    BY <1>4 DEF OpenReply
  <2>2. Headed(c)
    BY <1>1, NowTurned DEF Headed, Opening, Waits
  <2>3. Orderly(cip, closing) => Orderly(c, closing)
    BY <1>1 DEF Orderly, Opening, Waits
  <2>4. Calm(c, closing)
    BY <1>1, <2>2, <2>3, NowTurned DEF Calm
  <2>5. Unsaid(c, Of(Tail(toClient)) \cup Of(c.sent), Idle) /\ Waiting(c) = Waiting(cip)
    BY FreedUnsaid DEF SameWindow
  <2> QED
    BY <2>1, <2>4, <2>5, ContinueTurned
<1>5. CASE h.status = "unsupported"
  <2> DEFINE e == [c EXCEPT !.state = 0, !.large = FALSE]
  <2>1. e \in Fields /\ e.state = 0 /\ e.sent = c.sent /\ e.callbacks = c.callbacks
        /\ e.overlap = c.overlap
        /\ SameWindow(c, e) /\ e.sendInfo = c.sendInfo /\ e.queue = c.queue
    BY <1>1 DEF Fields, SameWindow
  <2>2. Continue(Connect(e))
    BY <1>5 DEF OpenReply
  <2> HIDE DEF e
  <2> QED
    BY <2>1, <2>2, ConnectTurned
<1>6. CASE h.status = "duplicate" /\ ~c.again
  <2> DEFINE e == [c EXCEPT !.state = 0, !.again = TRUE,
                            !.misnamed = @ \/ c.serial # h.m.serial]
  <2>1. e \in Fields /\ e.state = 0 /\ e.sent = c.sent /\ e.callbacks = c.callbacks
        /\ e.overlap = c.overlap
        /\ SameWindow(c, e) /\ e.sendInfo = c.sendInfo /\ e.queue = c.queue
    BY <1>1 DEF Fields, SameWindow
  <2>2. Continue(SendClose(e, "reclose"))
    BY <1>6 DEF OpenReply
  <2> HIDE DEF e
  <2> QED
    BY <2>1, <2>2, ReopenedTurned
<1>7. CASE DestroyLayer(c)
  BY <1>7, DestroyLayerTurned
<1> QED
  BY <1>3, <1>4, <1>5, <1>6, <1>7 DEF OpenReply

LEMMA RecloseReplyTurned ==
  ASSUME TypeOK, CipInv, TurnInv, toClient # <<>>, NEW h, NEW c, NEW cb, Freed(c, h, cb),
         cb.purpose = "reclose", RecloseReply(c, h), cip'.serial <= MaxSerial
  PROVE  TurnInv' /\ OwedIsSent
<1>1. c \in Fields
  BY DEF Freed
<1>2. CASE h.status = "ok"
  <2> DEFINE e == [c EXCEPT !.state = 0, !.again = FALSE]
  <2>1. e \in Fields /\ e.state = 0 /\ e.sent = c.sent /\ e.callbacks = c.callbacks
        /\ e.overlap = c.overlap
        /\ SameWindow(c, e) /\ e.sendInfo = c.sendInfo /\ e.queue = c.queue
    BY <1>1 DEF Fields, SameWindow
  <2>2. Continue(Connect(e))
    BY <1>2 DEF RecloseReply
  <2> HIDE DEF e
  <2> QED
    BY <2>1, <2>2, ConnectTurned
<1>3. CASE DestroyLayer(c)
  BY <1>3, DestroyLayerTurned
<1> QED
  BY <1>2, <1>3 DEF RecloseReply

LEMMA InternalReplyTurned ==
  ASSUME TypeOK, CipInv, TurnInv, InternalReply
  PROVE  TurnInv' /\ OwedIsSent
<1>1. toClient # <<>> /\ NoMicrotask /\ cip'.serial <= MaxSerial
  BY CallbackFreed
<1>2. CASE toClient' = Tail(toClient) /\ UNCHANGED <<cip, closing, outcome>>
  <2>1. Flight' \subseteq Flight /\ Idle' = Idle
    BY <1>1, <1>2, ReplyMoves DEF Idle
  <2> QED
    BY <1>1, <1>2, <2>1, FewerTurned
<1>3. ASSUME NEW h, NEW c, NEW cb, Freed(c, h, cb),
             \/ cb.purpose = "open" /\ h.m.kind = "open" /\ OpenReply(c, h)
             \/ cb.purpose = "reclose" /\ RecloseReply(c, h)
      PROVE  TurnInv' /\ OwedIsSent
  BY <1>1, <1>3, OpenReplyTurned, RecloseReplyTurned
<1>4. ASSUME NEW h, NEW c, NEW cb, Freed(c, h, cb), CloseReply(c, h)
      PROVE  TurnInv' /\ OwedIsSent
  <2>1. c \in Fields /\ c.serial = cip.serial /\ c.sent = cip.sent /\ c.resend = cip.resend
    BY <1>4 DEF Freed, SameWindow
  <2>2. Resets(c) /\ outcome' \in {outcome, RejectAll(outcome)}
    BY <1>1, <1>4, CloseReplyResets
  <2>3. Idle' = Idle /\ closing' = FALSE
    BY <1>4, <2>2, Now, IdleKept DEF CloseReply, FinishClose, DestroyLayer, SessionOver
  <2> QED
    BY <2>1, <2>2, <2>3, EndedTurned
<1> QED
  BY <1>2, <1>3, <1>4, CallbackFreed

LEMMA CloseLayersTurned ==
  ASSUME TypeOK, TurnInv, CloseLayers
  PROVE  TurnInv' /\ OwedIsSent
<1>1. UNCHANGED <<cip, toClient, closing>> /\ due' = "disconnect" /\ Idle' = Idle
  BY IdleKept DEF CloseLayers
<1>2. Calm(cip', closing') /\ Unsaid(cip', Flight', Idle') /\ Waiting(cip') = Waiting(cip)
  BY <1>1 DEF TurnInv, Calm, Headed, Orderly, Opening, Waits, Unsaid, Once, Remaining,
     Waiting, Flight
<1> QED
  BY <1>1, <1>2 DEF TurnInv, WaitingIsOwed, OwedIsSent, NoMicrotask

LEMMA QuitsTurned ==
  ASSUME TypeOK, CipInv, TurnInv, Quits, closing' = closing, outcome' = outcome,
         NoMicrotask' => NoMicrotask
  PROVE  TurnInv' /\ OwedIsSent
<1>1. Idle' = Idle
  BY DEF Idle
<1>2. /\ Flight' \subseteq Flight
      /\ cip'.state = cip.state /\ cip'.sendInfo = cip.sendInfo /\ cip'.resend = cip.resend
      /\ cip'.queue = cip.queue /\ cip'.callbacks = cip.callbacks /\ cip'.overlap = cip.overlap
      /\ cip'.idContext = cip.idContext
  BY QuitsParts DEF SameBooks, SameQueue, SameWindow
<1> QED
  BY <1>1, <1>2, FewerTurned

LEMMA BelowClosedTurned ==
  ASSUME TypeOK, CipInv, TurnInv, BelowClosed
  PROVE  TurnInv' /\ OwedIsSent
<1>1. Quits /\ closing' = closing /\ outcome' = outcome /\ NoMicrotask
  BY BelowClosedQuits DEF BelowClosed, NoMicrotask
<1> QED
  BY <1>1, QuitsTurned

LEMMA DisconnectsTurned ==
  ASSUME TypeOK, CipInv, TurnInv, Disconnects
  PROVE  TurnInv' /\ OwedIsSent
<1>1. Idle' = Idle /\ outcome' = outcome /\ ~closing
  BY DisconnectsCases DEF Idle, Disconnects, CipInv
<1>2. CASE SessionOver /\ due' = "destroy" /\ cip' = cip
  <2>1. closing' = closing /\ Quits
    BY <1>1, <1>2, Now DEF SessionOver, Quits
  <2> QED
    BY <1>1, <1>2, <2>1, QuitsTurned DEF NoMicrotask
<1>3. ASSUME cip' = SendClose([cip EXCEPT !.state = -1, !.resend = {}], "close"),
             toClient' = toClient, closing' = TRUE
      PROVE  TurnInv' /\ OwedIsSent
  <2> DEFINE e == [cip EXCEPT !.state = -1, !.resend = {}]
             d == SendClose(e, "close")
  <2>1. cip \in Fields /\ session \in 1 .. MaxSessions
    BY Now
  <2>2. e \in Fields /\ e.sent = cip.sent /\ e.sendInfo = cip.sendInfo /\ e.resend = {}
        /\ e.queue = cip.queue /\ e.idContext = cip.idContext /\ e.state = -1
        /\ e.callbacks = cip.callbacks /\ e.overlap = cip.overlap
    BY <2>1 DEF Fields
  <2> HIDE DEF e
  <2>3. d.state = e.state /\ d.sendInfo = e.sendInfo /\ SameWindow(e, d) /\ SameQueue(e, d)
        /\ AsksToClose(e, d, "close")
    BY <2>1, <2>2, SendCloseParts
  <2> HIDE DEF d
  <2>4. d.callbacks = cip.callbacks \cup {Callback(e, "close")} /\ d.overlap = cip.overlap
        /\ d.state = -1 /\ d.sendInfo = cip.sendInfo /\ d.queue = cip.queue
        /\ d.idContext = cip.idContext /\ d.resend = {}
    BY <2>2, <2>3 DEF AsksToClose, SameQueue, SameWindow
  <2>5. Opening(d) => Opening(cip)
    BY <2>4 DEF Opening, Waits, Callback
  <2>6. Headed(d)
    BY <2>4, <2>5, NowTurned DEF Headed
  <2>7. Orderly(cip, closing) => Orderly(d, TRUE)
    BY <2>4, <2>5 DEF Orderly, Callback
  <2>8. Calm(d, TRUE)
    BY <2>4, <2>6, <2>7, NowTurned DEF Calm
  <2>9. PICK m \in Messages : Internal(m) /\ d.sent = Posted(e, m)
    BY <2>3 DEF AsksToClose, CloseMessage, Internal
  <2>10. PICK idle \in SUBSET Requests, c \in {cip}, rest \in {Of(toClient)} : idle = Idle
    BY NowTurned
  <2>11. Unsaid(c, rest \cup Of(c.sent), idle)
    BY <2>10, NowTurned DEF Flight
  <2>12. Posted(e, m) = Posted(c, m)
    BY <2>2, <2>10 DEF Posted
  <2>13. Unsaid(d, rest \cup Of(d.sent), idle) /\ Waiting(d) = Waiting(c)
    BY <2>1, <2>4, <2>9, <2>10, <2>11, <2>12, AskedUnsaid
  <2>14. cip' = d
    BY <1>3 DEF d, e
  <2> QED
    BY <1>1, <1>3, <2>8, <2>10, <2>13, <2>14
       DEF TurnInv, WaitingIsOwed, OwedIsSent, Flight
<1> QED
  BY <1>2, <1>3 DEF Disconnects

LEMMA InitTurned == Init => TurnInv
<1> SUFFICES ASSUME Init PROVE TurnInv
  OBVIOUS
<1>1. cip.sendInfo = None /\ cip.queue = <<>> /\ cip.sent = <<>> /\ cip.callbacks = {}
      /\ cip.resend = {} /\ toClient = <<>> /\ closing = FALSE
      /\ cip.idContext = [s \in SequenceNumbers |-> None]
      /\ \A r \in Requests : outcome[r] = "idle"
  BY DEF Init
<1>2. Waiting(cip) = {} /\ Idle = Requests /\ Once(cip, Idle) /\ Flight = {}
  BY <1>1 DEF Waiting, Idle, Once, Flight, Of
<1>3. Calm(cip, closing)
  BY <1>1 DEF Calm, Headed, Orderly, Opening, Waits
<1>4. Remaining(cip, Idle) = Requests
  BY <1>2 DEF Remaining
<1>5. Unsaid(cip, Flight, Idle)
  BY <1>1, <1>2, <1>4, Constants DEF Unsaid
<1> QED
  BY <1>2, <1>3, <1>5 DEF TurnInv, WaitingIsOwed

LEMMA StepTurned ==
  ASSUME TypeOK, CipInv, TurnInv, [Next]_vars
  PROVE  TurnInv' /\ OwedIsSent
<1>1. ASSUME NEW r \in Requests, Issue(r) PROVE TurnInv' /\ OwedIsSent
  BY <1>1, IssueTurned
<1>2. CASE Tick
  BY <1>2, TickTurned
<1>3. CASE Resend
  BY <1>3, ResendTurned
<1>4. CASE Device
  <2>1. Idle' = Idle /\ closing' = closing /\ due' = due /\ outcome' = outcome
    BY <1>4 DEF Device, Idle
  <2> QED
    BY <1>4, <2>1, DeviceMoves, FewerTurned DEF SameWindow, NoMicrotask
<1>5. CASE Lose
  <2>1. toClient # <<>> /\ toClient' = Tail(toClient) /\ cip' = cip /\ Idle' = Idle
        /\ closing' = closing /\ due' = due /\ outcome' = outcome
    BY <1>5 DEF Lose, Idle
  <2> QED
    BY <2>1, ReplyMoves, FewerTurned DEF NoMicrotask
<1>6. CASE Expire \/ UNCHANGED vars
  <2>1. cip' = cip /\ toClient' = toClient /\ outcome' = outcome /\ closing' = closing
        /\ due' = due
    BY <1>6 DEF Expire, vars
  <2>2. Flight' = Flight /\ Idle' = Idle
    BY <2>1 DEF Flight, Idle
  <2> QED
    BY <2>1, <2>2, FewerTurned DEF NoMicrotask
<1>7. CASE InternalReply
  BY <1>7, InternalReplyTurned
<1>8. CASE UnconnectedReply \/ ConnectedReply
  BY <1>8, RepliesTurned
<1>9. CASE SessionFails \/ CloseTimeout \/ Destroys
  <2>1. Resets(cip) /\ Idle' = Idle
    BY <1>9, EndsReset, IdleKept
  <2>2. closing' = FALSE
    BY <1>9, Now
       DEF SessionFails, CloseTimeout, FinishClose, SessionOver, Destroys, CipInv
  <2> QED
    BY <2>1, <2>2, Now, EndedTurned
<1>10. CASE CloseLayers
  BY <1>10, CloseLayersTurned
<1>11. CASE Disconnects
  BY <1>11, DisconnectsTurned
<1>12. CASE BelowClosed
  BY <1>12, BelowClosedTurned
<1> QED
  BY <1>1, <1>2, <1>3, <1>4, <1>5, <1>6, <1>7, <1>8, <1>9, <1>10, <1>11, <1>12 DEF Next

(* No step hands down a request whose promise was rejected before, however   *)
(* close, its steps, connect and their replies interleave, unless a          *)
(* ForwardOpen went out with another request of the layer under way, or the  *)
(* step is a call that comes between two steps of a close.                   *)
THEOREM RejectedIsNeverSent == Spec => NothingSentAfterRejection
<1>1. TypeOK /\ CipInv /\ TurnInv /\ [Next]_vars => TurnInv' /\ OwedIsSent
  BY StepTurned
<1>2. ASSUME OwedIsSent
      PROVE  [\A r \in Waiting(cip) \ Waiting(cip') :
                \/ outcome'[r] = "pending" \/ Len(cip'.sent) <= Len(cip.sent)
                \/ cip.overlap \/ ~NoMicrotask]_vars
  BY <1>2 DEF OwedIsSent
<1> QED
  BY <1>1, <1>2, InitTurned, LayerIsSound, PTL DEF Spec, NothingSentAfterRejection
-----------------------------------------------------------------------------
(* What the layer's record remembers of its history stays.                   *)
Remembers(c, d) ==
  (c.overlap => d.overlap) /\ (c.misnamed => d.misnamed) /\ DOMAIN d = DOMAIN c

Whole(c) == {"state", "seq", "sendInfo", "queue", "idContext", "callbacks", "context", "serial",
             "again", "large", "resend", "ticks", "sent", "overlap", "misnamed"} \subseteq DOMAIN c

LEMMA FieldsWhole == ASSUME NEW c \in Fields PROVE Whole(c)
  BY DEF Fields, Whole

LEMMA SendsRemember ==
  ASSUME NEW c, Whole(c)
  PROVE  /\ \A m : Remembers(c, Hand(c, m))
         /\ Remembers(c, Destroyed(c)) /\ Remembers(c, SendOpen(c)) /\ Remembers(c, Connect(c))
         /\ \A p : Remembers(c, SendClose(c, p))
         /\ \A r : Remembers(c, SendConnected(c, r))
<1>1. ASSUME NEW e, Whole(e), NEW m PROVE Remembers(e, Hand(e, m))
  BY <1>1 DEF Whole, Hand, Remembers
<1>2. ASSUME NEW e, Whole(e), NEW p PROVE Remembers(e, File(e, p))
  BY <1>2 DEF Whole, File, Remembers
<1>3. Remembers(c, Destroyed(c))
  BY DEF Whole, Destroyed, Remembers
<1>4. ASSUME NEW e, Whole(e) PROVE Remembers(e, SendOpen(e))
  <2> DEFINE b == [e EXCEPT !.serial = @ + 1, !.overlap = @ \/ e.callbacks # {}]
             d == File(b, "open")
  <2>1. Remembers(e, b) /\ Whole(b)
    BY <1>4 DEF Whole, Remembers
  <2> HIDE DEF b
  <2>2. Remembers(b, d)
    BY <1>2, <2>1
  <2>3. Whole(d)
    BY <2>1, <2>2 DEF Remembers, Whole
  <2>4. SendOpen(e) = Hand(d, Open(d))
    BY DEF SendOpen, b
  <2> HIDE DEF d
  <2>5. Remembers(d, SendOpen(e))
    BY <1>1, <2>3, <2>4
  <2> QED
    BY <2>1, <2>2, <2>5 DEF Remembers
<1>5. Remembers(c, Connect(c))
  <2> DEFINE b == [c EXCEPT !.state = 1]
  <2>1. Remembers(c, b) /\ Whole(b)
    BY DEF Whole, Remembers
  <2> HIDE DEF b
  <2>2. Remembers(b, SendOpen(b)) /\ Connect(c) \in {SendOpen(b), c} /\ Remembers(c, c)
    BY <1>4, <2>1 DEF Connect, b, Remembers
  <2> QED
    BY <2>1, <2>2 DEF Remembers
<1>6. ASSUME NEW p PROVE Remembers(c, SendClose(c, p))
  <2> DEFINE d == File(c, p)
  <2>1. Remembers(c, d)
    BY <1>2
  <2>2. SendClose(c, p) = Hand(d, Close(d))
    BY DEF SendClose
  <2> HIDE DEF d
  <2>3. Whole(d)
    BY <2>1 DEF Remembers, Whole
  <2>4. Remembers(d, SendClose(c, p))
    BY <1>1, <2>2, <2>3
  <2> QED
    BY <2>1, <2>4 DEF Remembers
<1>7. ASSUME NEW r PROVE Remembers(c, SendConnected(c, r))
  <2> DEFINE n == (c.seq + 1) % SequenceCounts
             d == [c EXCEPT !.seq = n, !.idContext[n] = r,
                            !.resend = {[seq |-> n, request |-> r]}]
  <2>1. Remembers(c, d)
    BY DEF Whole, Remembers
  <2>2. SendConnected(c, r) = Hand(d, OnConnection(c, n, r))
    BY DEF SendConnected
  <2> HIDE DEF d, n
  <2>3. Whole(d)
    BY <2>1 DEF Remembers, Whole
  <2>4. Remembers(d, SendConnected(c, r))
    BY <1>1, <2>2, <2>3
  <2> QED
    BY <2>1, <2>4 DEF Remembers
<1> QED
  BY <1>1, <1>3, <1>4, <1>5, <1>6, <1>7

LEMMA SendNextRemembers ==
  ASSUME NEW c, Whole(c)
  PROVE  Remembers(c, SendNext(c))
<1> DEFINE r == Head(c.queue)
           d == [c EXCEPT !.queue = Tail(@), !.ticks = @ + 1]
<1>1. Remembers(c, d) /\ Whole(d) /\ Remembers(c, c)
  BY DEF Whole, Remembers
<1>2. SendNext(c) = IF c.queue = <<>> \/ c.state \notin {0, 2} THEN c
                    ELSE CASE c.state = 2 -> SendConnected(d, r)
                           [] c.state = 0 /\ r \in Connected -> Connect(c)
                           [] c.state = 0 /\ r \notin Connected -> Hand(d, Unconnected(r))
  BY DEF SendNext
<1> HIDE DEF d, r
<1>3. SendNext(c) \in {c, SendConnected(d, r), Connect(c), Hand(d, Unconnected(r))}
  BY <1>2
<1>4. Remembers(d, SendConnected(d, r)) /\ Remembers(d, Hand(d, Unconnected(r)))
      /\ Remembers(c, Connect(c))
  BY <1>1, SendsRemember
<1> QED
  BY <1>1, <1>3, <1>4 DEF Remembers

LEMMA ArriveRemembers ==
  ASSUME NEW c, Whole(c), SomeArrive(c)
  PROVE  Remembers(c, cip')
<1>1. PICK n : cip' = [c EXCEPT !.sent = SubSeq(@, 1, n)]
  BY DEF SomeArrive
<1> QED
  BY <1>1 DEF Whole, Remembers

LEMMA EndRemembers ==
  ASSUME NEW c, Whole(c), cip' = Destroyed(c) \/ SomeArrive(Destroyed(c))
  PROVE  Remembers(c, cip')
<1>1. PICK d : d = Destroyed(c)
  OBVIOUS
<1>2. Remembers(c, d) /\ Remembers(d, d)
  BY <1>1, SendsRemember DEF Remembers
<1>3. Whole(d)
  BY <1>2 DEF Whole, Remembers
<1>4. Remembers(d, cip')
  BY <1>1, <1>2, <1>3, ArriveRemembers
<1> QED
  BY <1>2, <1>4 DEF Remembers

LEMMA OpenReplyRemembers ==
  ASSUME NEW c, Whole(c), NEW h, OpenReply(c, h)
  PROVE  Remembers(c, cip')
<1>1. CASE h.status = "ok"
  <2> DEFINE e == [c EXCEPT !.sendInfo = h.m.serial, !.state = 2]
  <2>1. Remembers(c, e) /\ Whole(e) /\ Remembers(c, c)
    BY DEF Whole, Remembers
  <2>2. cip' \in {SendNext(e), c}
    BY <1>1 DEF OpenReply, Continue
  <2> HIDE DEF e
  <2>3. Remembers(e, SendNext(e))
    BY <2>1, SendNextRemembers
  <2> QED
    BY <2>1, <2>2, <2>3 DEF Remembers
<1>2. CASE h.status = "unsupported"
  <2> DEFINE e == [c EXCEPT !.state = 0, !.large = FALSE]
  <2>1. Remembers(c, e) /\ Whole(e)
    BY DEF Whole, Remembers
  <2>2. cip' = Connect(e)
    BY <1>2 DEF OpenReply, Continue
  <2> HIDE DEF e
  <2>3. Remembers(e, Connect(e))
    BY <2>1, SendsRemember
  <2> QED
    BY <2>1, <2>2, <2>3 DEF Remembers
<1>3. CASE h.status = "duplicate" /\ ~c.again
  <2> DEFINE e == [c EXCEPT !.state = 0, !.again = TRUE,
                            !.misnamed = @ \/ c.serial # h.m.serial]
  <2>1. Remembers(c, e) /\ Whole(e)
    BY DEF Whole, Remembers
  <2>2. cip' = SendClose(e, "reclose")
    BY <1>3 DEF OpenReply, Continue
  <2> HIDE DEF e
  <2>3. Remembers(e, SendClose(e, "reclose"))
    BY <2>1, SendsRemember
  <2> QED
    BY <2>1, <2>2, <2>3 DEF Remembers
<1>4. CASE DestroyLayer(c)
  BY <1>4, EndRemembers, SendsRemember DEF DestroyLayer
<1> QED
  BY <1>1, <1>2, <1>3, <1>4 DEF OpenReply

LEMMA RecloseReplyRemembers ==
  ASSUME NEW c, Whole(c), NEW h, RecloseReply(c, h)
  PROVE  Remembers(c, cip')
<1>1. CASE h.status = "ok"
  <2> DEFINE e == [c EXCEPT !.state = 0, !.again = FALSE]
  <2>1. Remembers(c, e) /\ Whole(e)
    BY DEF Whole, Remembers
  <2>2. cip' = Connect(e)
    BY <1>1 DEF RecloseReply, Continue
  <2> HIDE DEF e
  <2>3. Remembers(e, Connect(e))
    BY <2>1, SendsRemember
  <2> QED
    BY <2>1, <2>2, <2>3 DEF Remembers
<1>2. CASE DestroyLayer(c)
  BY <1>2, EndRemembers, SendsRemember DEF DestroyLayer
<1> QED
  BY <1>1, <1>2 DEF RecloseReply

LEMMA StepRemembers ==
  ASSUME TypeOK, CipInv, [Next]_vars
  PROVE  (cip.overlap => cip'.overlap) /\ (cip.misnamed => cip'.misnamed)
<1>1. Whole(cip) /\ cip \in Fields
  BY Now, FieldsWhole
<1> SUFFICES Remembers(cip, cip')
  BY DEF Remembers
<1>2. ASSUME NEW c, Remembers(cip, c), cip' = SendNext(c) PROVE Remembers(cip, cip')
  <2>1. Whole(c)
    BY <1>1, <1>2 DEF Whole, Remembers
  <2>2. Remembers(c, SendNext(c))
    BY <2>1, SendNextRemembers
  <2> QED
    BY <1>2, <2>2 DEF Remembers
<1>3. ASSUME NEW r \in Requests, Issue(r) PROVE Remembers(cip, cip')
  <2>1. Remembers(cip, [cip EXCEPT !.queue = Append(@, r)])
    BY <1>1 DEF Whole, Remembers
  <2> QED
    BY <1>2, <1>3, <2>1 DEF Issue
<1>4. CASE Tick
  <2>1. Remembers(cip, [cip EXCEPT !.ticks = @ - 1])
    BY <1>1 DEF Whole, Remembers
  <2> QED
    BY <1>2, <1>4, <2>1 DEF Tick
<1>5. CASE Resend
  <2>1. PICK m : cip' = Hand(cip, m)
    BY <1>5 DEF Resend
  <2> QED
    BY <1>1, <2>1, SendsRemember
<1>6. CASE Device
  <2>1. cip' = [cip EXCEPT !.sent = Tail(@)]
    BY <1>6 DEF Device
  <2> QED
    BY <1>1, <2>1 DEF Whole, Remembers
<1>7. CASE Lose \/ Expire \/ UnconnectedReply \/ UNCHANGED vars
  <2>1. cip' = cip
    BY <1>7 DEF Lose, Expire, UnconnectedReply, vars
  <2> QED
    BY <2>1 DEF Remembers
<1>8. CASE ConnectedReply
  <2>1. cip' = cip \/ \E s : cip' = [cip EXCEPT !.idContext[s] = None]
    BY <1>8 DEF ConnectedReply
  <2> QED
    BY <1>1, <2>1 DEF Whole, Remembers
<1>9. CASE InternalReply
  <2>1. CASE cip' = cip
    BY <2>1 DEF Remembers
  <2>2. ASSUME NEW h, NEW c, NEW cb, Freed(c, h, cb),
               OpenReply(c, h) \/ RecloseReply(c, h) \/ CloseReply(c, h)
        PROVE  Remembers(cip, cip')
    <3>1. Whole(c) /\ DOMAIN c = DOMAIN cip /\ c.overlap = cip.overlap
          /\ c.misnamed = cip.misnamed
      <4>1. c \in Fields
        BY <2>2 DEF Freed
      <4>2. DOMAIN c = DOMAIN cip
        BY <1>1, <4>1 DEF Fields
      <4> QED
        BY <2>2, <4>1, <4>2, FieldsWhole DEF Freed
    <3>2. Remembers(c, cip')
      BY <2>2, <3>1, OpenReplyRemembers, RecloseReplyRemembers, EndRemembers
         DEF CloseReply, FinishClose, DestroyInClose, DestroyLayer
    <3> QED
      BY <3>1, <3>2 DEF Remembers
  <2> QED
    BY <1>9, <2>1, <2>2, CallbackFreed
<1>10. CASE SessionFails \/ CloseTimeout \/ Destroys
  BY <1>1, <1>10, EndRemembers
     DEF SessionFails, CloseTimeout, FinishClose, Destroys, DestroyInClose
<1>11. CASE CloseLayers
  BY <1>11 DEF CloseLayers, Remembers
<1>12. CASE BelowClosed
  BY <1>1, <1>12, ArriveRemembers DEF BelowClosed
<1>13. CASE Disconnects
  <2>1. CASE cip' = cip
    BY <2>1 DEF Remembers
  <2>2. CASE cip' = SendClose([cip EXCEPT !.state = -1, !.resend = {}], "close")
    <3> DEFINE e == [cip EXCEPT !.state = -1, !.resend = {}]
    <3>1. Remembers(cip, e) /\ Whole(e)
      BY <1>1 DEF Whole, Remembers
    <3> HIDE DEF e
    <3>2. Remembers(e, SendClose(e, "close"))
      BY <3>1, SendsRemember
    <3> QED
      BY <2>2, <3>1, <3>2 DEF Remembers, e
  <2> QED
    BY <1>13, <2>1, <2>2 DEF Disconnects
<1> QED
  BY <1>3, <1>4, <1>5, <1>6, <1>7, <1>8, <1>9, <1>10, <1>11, <1>12, <1>13 DEF Next
-----------------------------------------------------------------------------
(* Where every connection of the device is known to the layer: until a       *)
(* ForwardOpen overlaps another request of the layer, one ForwardOpen at     *)
(* most is under way, for the last serial, and the device holds no other     *)
(* connection.  A layer that is neither connecting nor connected has a       *)
(* ForwardClose behind it that names that serial.                            *)
Opens(ms) == {m \in ms : m.kind = "open"}

Granted(replies) == \E i \in DOMAIN replies : replies[i].m.kind = "open" /\ replies[i].status = "ok"

Ending(c) ==
  \E m \in Of(c.sent) : m.kind = "close" /\ Filed(c.callbacks, m) /\ m.serial = c.serial

Accounted(c, replies, dc) ==
  /\ \A o \in Opens(Of(replies) \cup Of(c.sent)) : Filed(c.callbacks, o) /\ o.serial = c.serial
  /\ dc \subseteq {c.serial}
  /\ Opens(Of(c.sent)) # {} => dc = {}
  /\ c.state = 2 => c.sendInfo = c.serial
  /\ dc # {} /\ Waits(c, "open") => Granted(replies)
  /\ c.state \notin {1, 2} /\ (dc # {} \/ Opens(Of(c.sent)) # {}) => Ending(c)
  /\ \A a, b \in c.callbacks : a.purpose = "open" => a.id <= b.id
  /\ Waits(c, "reclose") => dc = {}
  /\ \A a, b \in c.callbacks : a.purpose = "close" /\ b.purpose = "close" => a = b

Excused == lost \/ failed \/ cip.overlap

(* Before the last step of disconnect nothing is left to account for.        *)
AtRest == due = "destroy" => devConns = {} /\ Opens(Flight) = {}

LeakInv == Excused \/ (Accounted(cip, toClient, devConns) /\ AtRest)

LEMMA NowAccounted ==
  ASSUME TypeOK, CipInv, TurnInv, LeakInv, ~Excused
  PROVE  /\ cip \in Fields /\ toClient \in Seq(Replies) /\ session \in 1 .. MaxSessions
         /\ cip.sent \in Seq(Parcels)
         /\ Accounted(cip, toClient, devConns) /\ Orderly(cip, closing)
         /\ (due # "destroy" => Backed(cip, toClient, session)) /\ Staged(cip, closing)
         /\ InLine(cip.sent, toClient) /\ Matched(cip.callbacks, Flight)
         /\ Numbered(cip.callbacks, cip.context, cip.serial, Flight)
         /\ Flight \subseteq Messages
         /\ \A m \in Flight : Internal(m) => m.id \in Nat
         /\ AtRest
<1>1. cip \in Fields /\ toClient \in Seq(Replies) /\ session \in 1 .. MaxSessions
      /\ cip.sent \in Seq(Parcels)
  BY Now, FieldTypes
<1>2. Accounted(cip, toClient, devConns) /\ Orderly(cip, closing) /\ AtRest
  BY DEF LeakInv, Excused, TurnInv, Calm
<1>3. (due # "destroy" => Backed(cip, toClient, session)) /\ Staged(cip, closing)
  BY DEF Excused, CipInv, Sound
<1>4. InLine(cip.sent, toClient) /\ Matched(cip.callbacks, Flight)
      /\ Numbered(cip.callbacks, cip.context, cip.serial, Flight)
  BY DEF CipInv, Sound, MailOf, Mail, Flight
<1>5. Flight \subseteq Messages
  BY <1>1, FlightMessages DEF Flight
<1> QED
  BY <1>1, <1>2, <1>3, <1>4, <1>5, InternalParts

(* The ForwardOpen under way has the one callback that opens.                *)
LEMMA OpenIsAwaited ==
  ASSUME TypeOK, CipInv, TurnInv, LeakInv, ~Excused, NEW o \in Opens(Flight)
  PROVE  \E cb \in cip.callbacks : cb.id = o.id /\ cb.purpose = "open"
<1>1. o \in Flight /\ Internal(o) /\ o.kind = "open"
  BY DEF Opens, Internal
<1>2. PICK cb \in cip.callbacks : cb.id = o.id
  BY NowAccounted DEF Accounted, Filed, Flight
<1> QED
  BY <1>1, <1>2, NowAccounted DEF Matched

LEMMA OneOpen ==
  ASSUME TypeOK, CipInv, TurnInv, LeakInv, ~Excused, NEW o \in Opens(Flight),
         NEW p \in Opens(Flight)
  PROVE  ~Before(o, p)
<1>1. PICK a \in cip.callbacks : a.id = o.id /\ a.purpose = "open"
  BY OpenIsAwaited
<1>2. PICK b \in cip.callbacks : b.id = p.id /\ b.purpose = "open"
  BY OpenIsAwaited
<1>3. o.id = p.id
  BY <1>1, <1>2, NowAccounted DEF Orderly
<1>4. Internal(o) /\ Internal(p) /\ o \in Flight /\ p \in Flight
  BY DEF Opens, Internal
<1>5. o.id \in Nat
  BY <1>4, NowAccounted
<1> QED
  BY <1>3, <1>4, <1>5 DEF Before

(* A message comes before those behind it.                                   *)
LEMMA HeadIsFirst ==
  ASSUME NEW sent \in Seq(Parcels), NEW replies \in Seq(Replies), InLine(sent, replies)
  PROVE  /\ replies # <<>> =>
              \A m \in Of(Tail(replies)) \cup Of(sent) : Before(Head(replies).m, m)
         /\ sent # <<>> => /\ \A m \in Of(Tail(sent)) : Before(Head(sent).m, m)
                           /\ \A m \in Of(replies) : Before(m, Head(sent).m)
<1>1. Sorted(sent) /\ Sorted(replies) /\ \A a \in Of(replies), b \in Of(sent) : Before(a, b)
  BY DEF InLine
<1>2. ASSUME replies # <<>>, NEW m \in Of(Tail(replies)) \cup Of(sent)
      PROVE  Before(Head(replies).m, m)
  <2>1. Of(replies) = Of(Tail(replies)) \cup {Head(replies).m}
    BY <1>2, OfTail
  <2>2. \A b \in Of(Tail(replies)) : Before(Head(replies).m, b)
    BY <1>1, <1>2, SortedTail
  <2> QED
    BY <1>1, <1>2, <2>1, <2>2
<1>3. ASSUME sent # <<>>
      PROVE  /\ \A m \in Of(Tail(sent)) : Before(Head(sent).m, m)
             /\ \A m \in Of(replies) : Before(m, Head(sent).m)
  <2>1. Of(sent) = Of(Tail(sent)) \cup {Head(sent).m}
    BY <1>3, OfTail
  <2>2. \A b \in Of(Tail(sent)) : Before(Head(sent).m, b)
    BY <1>1, <1>3, SortedTail
  <2> QED
    BY <1>1, <2>1, <2>2
<1> QED
  BY <1>2, <1>3

-----------------------------------------------------------------------------
(* Nothing changes that the account is about.                                *)
LEMMA StillAccounted ==
  ASSUME NEW c, NEW d, NEW replies, NEW rest, NEW dc, Accounted(c, replies, dc),
         d.state = c.state, d.sendInfo = c.sendInfo, d.callbacks = c.callbacks,
         d.serial = c.serial, Of(c.sent) \subseteq Of(d.sent),
         Opens(Of(d.sent)) \subseteq Opens(Of(c.sent)),
         Opens(Of(rest)) \subseteq Opens(Of(replies)), Granted(replies) => Granted(rest)
  PROVE  Accounted(d, rest, dc)
<1>1. \A o \in Opens(Of(rest) \cup Of(d.sent)) : Filed(d.callbacks, o) /\ o.serial = d.serial
  BY DEF Accounted, Opens
<1>2. Opens(Of(d.sent)) # {} => dc = {}
  BY DEF Accounted
<1>3. dc # {} /\ Waits(d, "open") => Granted(rest)
  BY DEF Accounted, Waits
<1>4. d.state \notin {1, 2} /\ (dc # {} \/ Opens(Of(d.sent)) # {}) => Ending(d)
  BY DEF Accounted, Ending
<1> QED
  BY <1>1, <1>2, <1>3, <1>4 DEF Accounted, Waits

(* The layer holds no connection and waits for none.                         *)
LEMMA NothingAccounted ==
  ASSUME NEW d, d.callbacks = {}, Opens(Of(d.sent)) = {}, d.state # 2,
         NEW replies, Opens(Of(replies)) = {}
  PROVE  Accounted(d, replies, {})
<1>1. Opens(Of(replies) \cup Of(d.sent)) = {}
  BY DEF Opens
<1> QED
  BY <1>1 DEF Accounted, Waits

LEMMA ConnectsAccounted ==
  ASSUME NEW c \in Fields, session \in 1 .. MaxSessions, NEW d, Connects(c, d),
         c.callbacks = {}, Opens(Of(c.sent)) = {}, NEW replies, Opens(Of(replies)) = {}
  PROVE  Accounted(d, replies, {})
<1>1. d.state = 1 /\ d.callbacks = {Callback(c, "open")} /\ d.serial = c.serial + 1
      /\ d.sent = Posted(c, OpenMessage(c)) /\ OpenMessage(c) \in Messages
  BY DEF Connects, AsksToOpen
<1>2. Of(d.sent) = Of(c.sent) \cup {OpenMessage(c)}
  BY <1>1, OfPosted
<1>3. Opens(Of(replies) \cup Of(d.sent)) \subseteq {OpenMessage(c)}
  BY <1>2 DEF Opens
<1>4. OpenMessage(c).serial = d.serial /\ OpenMessage(c).id = Callback(c, "open").id
  BY <1>1 DEF OpenMessage, Callback
<1>5. Callback(c, "open").purpose = "open" /\ Callback(c, "open").id \in Nat
  BY DEF Callback, Fields
<1>6. \A o \in Opens(Of(replies) \cup Of(d.sent)) : Filed(d.callbacks, o) /\ o.serial = d.serial
  BY <1>1, <1>3, <1>4 DEF Filed
<1>7. /\ \A a, b \in d.callbacks : a = b /\ a.id <= b.id
  BY <1>1, <1>5
<1>8. d.state = 1
  BY <1>1
<1> QED
  BY ONLY <1>6, <1>7, <1>8 DEF Accounted

LEMMA SendNextAccounted ==
  ASSUME NEW c \in Fields, session \in 1 .. MaxSessions, c.state = 2 => c.sendInfo # None,
         SendNext(c).serial <= MaxSerial, ~SendNext(c).overlap, NEW replies, NEW dc,
         Accounted(c, replies, dc)
  PROVE  Accounted(SendNext(c), replies, dc)
<1> DEFINE d == SendNext(c)
<1>1. d \in Fields /\ NextSent(c, d)
  BY SendNextParts
<1> HIDE DEF d
<1>2. ASSUME NEW m \in Messages, d.sent = Posted(c, m), m.kind # "open", SameBooks(c, d),
             d.state = c.state, d.sendInfo = c.sendInfo
      PROVE  Accounted(d, replies, dc)
  <2>1. Of(d.sent) = Of(c.sent) \cup {m}
    BY <1>2, OfPosted
  <2>2. Of(c.sent) \subseteq Of(d.sent) /\ Opens(Of(d.sent)) \subseteq Opens(Of(c.sent))
    BY <1>2, <2>1 DEF Opens
  <2> QED
    BY <1>2, <2>2, StillAccounted DEF SameBooks
<1>3. ASSUME c.queue # <<>>, c.state = 2 PROVE Accounted(d, replies, dc)
  <2> DEFINE n == (c.seq + 1) % SequenceCounts
             m == OnConnection(c, n, Head(c.queue))
  <2>1. SendsConnected(c, d, Head(c.queue))
    BY <1>1, <1>3 DEF NextSent
  <2>2. m \in Messages /\ m.kind # "open" /\ d.sent = Posted(c, m) /\ SameBooks(c, d)
        /\ d.state = c.state /\ d.sendInfo = c.sendInfo
    BY <2>1 DEF SendsConnected, OnConnection
  <2> HIDE DEF m
  <2> QED
    BY <1>2, <2>2
<1>4. ASSUME c.queue # <<>>, c.state = 0, Head(c.queue) \notin Connected
      PROVE  Accounted(d, replies, dc)
  <2>1. SendsUnconnected(c, d, Head(c.queue))
    BY <1>1, <1>4 DEF NextSent
  <2>2. PICK m \in Messages : m = Unconnected(Head(c.queue))
    BY <2>1 DEF SendsUnconnected
  <2>3. m.kind # "open" /\ d.sent = Posted(c, m) /\ SameBooks(c, d)
        /\ d.state = c.state /\ d.sendInfo = c.sendInfo
    BY <2>1, <2>2 DEF SendsUnconnected, Unconnected
  <2> QED
    BY <1>2, <2>3
<1>5. ASSUME c.state = 0, Connects(c, d) PROVE Accounted(d, replies, dc)
  <2>1. c.callbacks = {}
    BY <1>5 DEF Connects, AsksToOpen, d
  <2>2. Opens(Of(replies) \cup Of(c.sent)) = {}
    BY <2>1 DEF Accounted, Filed
  <2>3. Opens(Of(replies)) = {} /\ Opens(Of(c.sent)) = {}
    BY <2>2 DEF Opens
  <2>4. dc = {}
    BY <1>5, <2>1 DEF Accounted, Ending, Filed
  <2> QED
    BY <1>5, <2>1, <2>3, <2>4, ConnectsAccounted
<1>6. ASSUME d = c PROVE Accounted(d, replies, dc)
  BY <1>6
<1> QED
  BY <1>1, <1>3, <1>4, <1>5, <1>6 DEF NextSent, d

-----------------------------------------------------------------------------
(* The device takes a message.  What it may do to its connections and to the *)
(* replies.                                                                  *)
Answers(x, status) ==
  toClient' = IF x.session = session
                THEN Append(toClient, [m |-> x.m, status |-> status]) ELSE toClient

LEMMA DeviceTakes ==
  ASSUME Device, NEW x, x = Head(cip.sent)
  PROVE  /\ cip.sent # <<>> /\ cip' = [cip EXCEPT !.sent = Tail(@)]
         /\ \/ x.m.kind = "open" /\ devConns' = devConns \cup {x.m.serial} /\ Answers(x, "ok")
            \/ /\ x.m.kind = "open" /\ devConns' = devConns
               /\ \E status \in Statuses : Answers(x, status)
            \/ /\ x.m.kind = "close" /\ devConns' = devConns \ {x.m.serial}
               /\ \E status \in Statuses : Answers(x, status)
            \/ /\ ~Internal(x.m) /\ devConns' = devConns
               /\ toClient' = toClient \/ Answers(x, "ok")
         /\ lost' = lost /\ failed' = failed
<1>1. cip.sent # <<>> /\ cip' = [cip EXCEPT !.sent = Tail(@)] /\ lost' = lost
      /\ failed' = failed
  BY DEF Device, history
<1>2. CASE x.m.kind = "open" /\ DeviceOpens(x)
  BY <1>1, <1>2 DEF DeviceOpens, Reply, Answers, Statuses, device
<1>3. CASE x.m.kind = "close" /\ DeviceCloses(x)
  <2>1. PICK status \in Statuses : status = IF x.m.serial \in Held THEN "ok" ELSE "refused"
    BY DEF Statuses
  <2>2. devConns' = devConns \ {x.m.serial} /\ Answers(x, status)
    BY <1>3, <2>1 DEF DeviceCloses, Reply, Answers
  <2> QED
    BY <1>1, <1>3, <2>2
<1>4. CASE /\ x.m.kind = "unconnected" \/ (x.m.kind = "connected" /\ x.m.serial \in Held)
           /\ Reply(x, "ok") /\ UNCHANGED device
  BY <1>1, <1>4 DEF Reply, Answers, Internal, device
<1>5. CASE /\ x.m.kind = "stale" \/ (x.m.kind = "connected" /\ x.m.serial \notin Held)
           /\ UNCHANGED <<toClient, device>>
  BY <1>1, <1>5 DEF Internal, device
<1> QED
  BY <1>2, <1>3, <1>4, <1>5 DEF Device

(* The replies after one that the device may have added.                     *)
LEMMA Answered ==
  ASSUME TypeOK, NEW x \in Parcels, NEW status \in Statuses, Answers(x, status)
  PROVE  /\ Of(toClient') \subseteq Of(toClient) \cup {x.m}
         /\ Granted(toClient) => Granted(toClient')
         /\ x.session = session /\ x.m.kind = "open" /\ status = "ok" => Granted(toClient')
<1>1. CASE x.session # session
  <2>1. toClient' = toClient
    BY <1>1 DEF Answers
  <2> QED
    BY <1>1, <2>1
<1>2. ASSUME x.session = session
      PROVE  /\ Of(toClient') \subseteq Of(toClient) \cup {x.m}
             /\ Granted(toClient) => Granted(toClient')
             /\ x.m.kind = "open" /\ status = "ok" => Granted(toClient')
  <2> DEFINE y == [m |-> x.m, status |-> status]
  <2>1. toClient \in Seq(Replies) /\ y \in Replies /\ y.m = x.m /\ y.status = status
    BY Now DEF Parcels, Replies
  <2>2. toClient' = Append(toClient, y)
    BY <1>2 DEF Answers
  <2> HIDE DEF y
  <2>3. Of(toClient') = Of(toClient) \cup {x.m}
    BY <2>1, <2>2, OfAppend
  <2>4. Len(toClient) + 1 \in DOMAIN toClient' /\ toClient'[Len(toClient) + 1] = y
        /\ \A i \in DOMAIN toClient : i \in DOMAIN toClient' /\ toClient'[i] = toClient[i]
    BY <2>1, <2>2
  <2> QED
    BY <2>1, <2>3, <2>4 DEF Granted
<1> QED
  BY <1>1, <1>2

(* The layer asked for a connection in this session.                         *)
LEMMA OpenIsCurrent ==
  ASSUME TypeOK, CipInv, TurnInv, LeakInv, ~Excused, cip.sent # <<>>, due # "destroy",
         NEW x, x = Head(cip.sent), x.m.kind = "open"
  PROVE  x.session = session
<1>1. cip \in Fields /\ cip.sent \in Seq(Parcels) /\ toClient \in Seq(Replies)
      /\ InLine(cip.sent, toClient) /\ Backed(cip, toClient, session)
  BY NowAccounted
<1>2. Of(cip.sent) = Of(Tail(cip.sent)) \cup {x.m}
  BY <1>1, OfTail
<1>3. x.m \in Opens(Flight) /\ Internal(x.m) /\ x.m.id \in Nat
  BY <1>2, NowAccounted DEF Opens, Flight, Internal
<1>4. PICK cb \in cip.callbacks : cb.id = x.m.id
  BY <1>3, OpenIsAwaited
<1>5. PICK m \in OwedTo(cip, toClient, session) : Internal(m) /\ m.id = x.m.id
  BY <1>1, <1>4 DEF Backed
<1>6. m \notin Of(toClient)
  BY <1>1, <1>3, <1>5, HeadIsFirst DEF Before
<1>7. PICK i \in DOMAIN cip.sent : cip.sent[i].session = session /\ cip.sent[i].m = m
  BY <1>5, <1>6 DEF OwedTo
<1>8. CASE i = 1
  BY <1>1, <1>7, <1>8, OfTail
<1>9. ASSUME i # 1 PROVE FALSE
  <2>1. 1 \in DOMAIN cip.sent /\ cip.sent[1] = x /\ 1 < i
    <3>1. i \in Nat /\ i > 0
      BY <1>1
    <3> QED
      BY <1>1, <1>9, <3>1, OfTail
  <2>2. Before(x.m, m)
    BY <1>1, <1>7, <2>1 DEF InLine, Sorted
  <2> QED
    BY <1>3, <1>5, <2>2 DEF Before
<1> QED
  BY <1>8, <1>9

LEMMA DeviceAccounted ==
  ASSUME TypeOK, CipInv, TurnInv, LeakInv, Device
  PROVE  LeakInv'
<1> DEFINE x == Head(cip.sent)
           t == Tail(cip.sent)
<1>1. cip.sent # <<>> /\ cip' = [cip EXCEPT !.sent = t] /\ lost' = lost /\ failed' = failed
  BY DeviceTakes
<1>2. cip \in Fields
  BY Now
<1>3. cip'.state = cip.state /\ cip'.sendInfo = cip.sendInfo /\ cip'.serial = cip.serial
      /\ cip'.callbacks = cip.callbacks /\ cip'.overlap = cip.overlap /\ cip'.sent = t
  BY <1>1, <1>2 DEF Fields
<1>4. SUFFICES ASSUME ~Excused PROVE Accounted(cip', toClient', devConns') /\ AtRest'
  BY <1>1, <1>3 DEF LeakInv, Excused
<1>5. /\ AtRest /\ cip.sent \in Seq(Parcels) /\ toClient \in Seq(Replies) /\ InLine(cip.sent, toClient)
      /\ Accounted(cip, toClient, devConns) /\ Orderly(cip, closing)
  BY <1>4, NowAccounted
<1>6. Of(cip.sent) = Of(t) \cup {x.m} /\ x \in Parcels
  BY <1>1, <1>5, OfTail
<1>7. /\ \A m \in Of(t) : Before(x.m, m)
      /\ \A m \in Of(toClient) : Before(m, x.m)
  BY <1>1, <1>5, HeadIsFirst
<1>8. x.m.kind = "open" => due # "destroy" /\ x.session = session
  BY <1>1, <1>4, <1>5, <1>6, OpenIsCurrent DEF AtRest, Opens, Flight
<1>9. \/ x.m.kind = "open" /\ devConns' = devConns \cup {x.m.serial} /\ Answers(x, "ok")
      \/ /\ x.m.kind = "open" /\ devConns' = devConns
         /\ \E status \in Statuses : Answers(x, status)
      \/ /\ x.m.kind = "close" /\ devConns' = devConns \ {x.m.serial}
         /\ \E status \in Statuses : Answers(x, status)
      \/ /\ ~Internal(x.m) /\ devConns' = devConns
         /\ toClient' = toClient \/ Answers(x, "ok")
  BY DeviceTakes
<1> HIDE DEF x, t
<1>10. "ok" \in Statuses
  BY DEF Statuses
<1>11. Of(toClient') \subseteq Of(toClient) \cup {x.m} /\ (Granted(toClient) => Granted(toClient'))
  BY <1>6, <1>9, <1>10, Answered
<1>15. AtRest'
  <2>1. Flight' \subseteq Flight
    BY <1>3, <1>6, <1>11 DEF Flight
  <2>2. due' = due
    BY DEF Device
  <2>3. devConns = {} /\ x.m.kind # "open" => devConns' = {}
    BY <1>9
  <2> QED
    BY <1>5, <1>8, <2>1, <2>2, <2>3 DEF AtRest, Opens
<1>12. ASSUME x.m.kind = "open" PROVE Accounted(cip', toClient', devConns')
  <2>1. x.m \in Opens(Flight)
    BY <1>6, <1>12 DEF Opens, Flight
  <2>2. \A o \in Opens(Of(toClient) \cup Of(t)) : o \in Opens(Flight)
    BY <1>6 DEF Opens, Flight
  <2>3. Opens(Of(toClient) \cup Of(t)) = {}
    <3>1. ASSUME NEW o \in Opens(Of(toClient) \cup Of(t)) PROVE FALSE
      <4>1. ~Before(x.m, o) /\ ~Before(o, x.m)
        BY <1>4, <2>1, <2>2, <3>1, OneOpen
      <4> QED
        BY <1>7, <3>1, <4>1 DEF Opens
    <3> QED
      BY <3>1
  <2>4. Opens(Of(t)) = {} /\ Opens(Of(toClient') \cup Of(t)) \subseteq {x.m}
    BY <1>11, <2>3 DEF Opens
  <2>5. Filed(cip.callbacks, x.m) /\ x.m.serial = cip.serial /\ devConns = {}
    <3>1. x.m \in Opens(Of(toClient) \cup Of(cip.sent)) /\ x.m \in Opens(Of(cip.sent))
      BY <1>6, <1>12 DEF Opens
    <3> QED
      BY <1>5, <3>1 DEF Accounted
  <2>6. devConns' = {} \/ (devConns' = {cip.serial} /\ Granted(toClient'))
    BY <1>6, <1>8, <1>9, <1>10, <1>12, <2>5, Answered DEF Internal
  <2>7. cip.state \notin {1, 2} => Ending(cip')
    <3> SUFFICES ASSUME cip.state \notin {1, 2} PROVE Ending(cip')
      OBVIOUS
    <3>1. x.m \in Opens(Of(cip.sent))
      BY <1>6, <1>12 DEF Opens
    <3>2. PICK m \in Of(cip.sent) :
            m.kind = "close" /\ Filed(cip.callbacks, m) /\ m.serial = cip.serial
      BY <1>5, <3>1 DEF Accounted, Ending
    <3> QED
      BY <1>3, <1>6, <1>12, <3>2 DEF Ending
  <2>8. ~Waits(cip, "reclose")
    <3>1. PICK cb \in cip.callbacks : cb.id = x.m.id /\ cb.purpose = "open"
      BY <1>4, <2>1, OpenIsAwaited
    <3> QED
      BY <1>5, <3>1 DEF Orderly, Waits
  <2> QED
    BY <1>3, <1>5, <2>4, <2>5, <2>6, <2>7, <2>8 DEF Accounted, Waits
<1>13. ASSUME x.m.kind = "close", devConns' = devConns \ {x.m.serial}
       PROVE  Accounted(cip', toClient', devConns')
  <2>1. Opens(Of(t)) = Opens(Of(cip.sent)) /\ Opens(Of(toClient')) \subseteq Opens(Of(toClient))
    BY <1>6, <1>11, <1>13 DEF Opens
  <2>2. \A o \in Opens(Of(toClient') \cup Of(t)) : o \in Opens(Of(toClient) \cup Of(cip.sent))
    BY <2>1 DEF Opens
  <2>3. ASSUME cip.state \notin {1, 2}, devConns' # {} \/ Opens(Of(t)) # {}
        PROVE  Ending(cip')
    <3>1. devConns # {} \/ Opens(Of(cip.sent)) # {}
      BY <1>13, <2>1, <2>3
    <3>2. PICK m \in Of(cip.sent) :
            m.kind = "close" /\ Filed(cip.callbacks, m) /\ m.serial = cip.serial
      BY <1>5, <2>3, <3>1 DEF Accounted, Ending
    <3>3. ASSUME m = x.m PROVE FALSE
      <4>1. devConns' = {}
        BY <1>5, <1>13, <3>2, <3>3 DEF Accounted
      <4>2. PICK o : o \in Of(t) /\ o.kind = "open"
        BY <2>3, <4>1 DEF Opens
      <4>3. o \in Opens(Flight) /\ Internal(o) /\ Internal(x.m) /\ o \in Flight /\ x.m \in Flight
        BY <1>6, <1>13, <4>2 DEF Opens, Flight, Internal
      <4>4. PICK a \in cip.callbacks : a.id = o.id /\ a.purpose = "open"
        BY <1>4, <4>3, OpenIsAwaited
      <4>5. PICK b \in cip.callbacks : b.id = x.m.id
        BY <3>2, <3>3 DEF Filed
      <4>6. o.id <= x.m.id
        BY <1>5, <4>4, <4>5 DEF Accounted
      <4>7. x.m.id < o.id
        BY <1>7, <4>2, <4>3 DEF Before
      <4>8. o.id \in Nat /\ x.m.id \in Nat
        BY <1>4, <4>3, NowAccounted
      <4> QED
        BY <4>6, <4>7, <4>8
    <3> QED
      BY <1>3, <1>6, <3>2, <3>3 DEF Ending
  <2> QED
    BY <1>3, <1>5, <1>11, <1>13, <2>1, <2>2, <2>3 DEF Accounted, Waits
<1>14. ASSUME ~Internal(x.m), devConns' = devConns
       PROVE  Accounted(cip', toClient', devConns')
  <2>1. Opens(Of(t)) = Opens(Of(cip.sent)) /\ Opens(Of(toClient')) \subseteq Opens(Of(toClient))
    BY <1>6, <1>11, <1>14 DEF Opens, Internal
  <2>2. \A o \in Opens(Of(toClient') \cup Of(t)) : o \in Opens(Of(toClient) \cup Of(cip.sent))
    BY <2>1 DEF Opens
  <2>3. Ending(cip) => Ending(cip')
    BY <1>3, <1>6, <1>14 DEF Ending, Internal
  <2> QED
    BY <1>3, <1>5, <1>11, <1>14, <2>1, <2>2, <2>3 DEF Accounted, Waits
<1> QED
  BY <1>9, <1>12, <1>13, <1>14, <1>15

-----------------------------------------------------------------------------
(* The next reply is to the ForwardOpen under way: there is no other, and a   *)
(* device that does not grant it holds nothing.                              *)
LEMMA OpenIsLast ==
  ASSUME TypeOK, CipInv, TurnInv, LeakInv, ~Excused, toClient # <<>>,
         NEW h, h = Head(toClient), h.m.kind = "open"
  PROVE  /\ Opens(Of(Tail(toClient))) = {} /\ Opens(Of(cip.sent)) = {}
         /\ h.m.serial = cip.serial
         /\ h.status # "ok" => devConns = {}
<1>1. toClient \in Seq(Replies) /\ cip.sent \in Seq(Parcels) /\ InLine(cip.sent, toClient)
      /\ Accounted(cip, toClient, devConns)
  BY NowAccounted
<1>2. Of(toClient) = Of(Tail(toClient)) \cup {h.m}
  BY <1>1, OfTail
<1>3. h.m \in Opens(Flight) /\ h.m \in Opens(Of(toClient) \cup Of(cip.sent))
  BY <1>2 DEF Opens, Flight
<1>4. ASSUME NEW o \in Of(Tail(toClient)) \cup Of(cip.sent), o.kind = "open" PROVE FALSE
  <2>1. o \in Opens(Flight)
    BY <1>2, <1>4 DEF Opens, Flight
  <2>2. Before(h.m, o)
    BY <1>1, HeadIsFirst
  <2> QED
    BY <1>3, <2>1, <2>2, OneOpen
<1>5. Opens(Of(Tail(toClient))) = {} /\ Opens(Of(cip.sent)) = {}
  BY <1>4 DEF Opens
<1>6. ASSUME h.status # "ok" PROVE devConns = {}
  <2>1. PICK cb \in cip.callbacks : cb.purpose = "open"
    BY <1>3, OpenIsAwaited
  <2>2. ~Granted(toClient)
    <3> SUFFICES ASSUME NEW i \in DOMAIN toClient, toClient[i].m.kind = "open",
                        toClient[i].status = "ok"
                 PROVE  FALSE
      BY DEF Granted
    <3>1. i # 1
      BY <1>1, <1>6, OfTail
    <3>2. i - 1 \in DOMAIN Tail(toClient) /\ Tail(toClient)[i - 1] = toClient[i]
      BY <1>1, <3>1
    <3>3. toClient[i].m \in Of(Tail(toClient))
      BY <3>2 DEF Of
    <3> QED
      BY <1>4, <3>3
  <2> QED
    BY <1>1, <2>1, <2>2 DEF Accounted, Waits
<1> QED
  BY <1>1, <1>3, <1>5, <1>6 DEF Accounted

(* A layer that recovers from a duplicate, or ends a close, holds nothing.   *)
LEMMA RecoversWithNothing ==
  ASSUME TypeOK, CipInv, TurnInv, LeakInv, ~Excused, Waits(cip, "reclose")
  PROVE  devConns = {} /\ Opens(Flight) = {}
<1>1. Opens(Flight) = {}
  <2> SUFFICES ASSUME NEW o \in Opens(Flight) PROVE FALSE
    OBVIOUS
  <2>1. PICK cb \in cip.callbacks : cb.id = o.id /\ cb.purpose = "open"
    BY OpenIsAwaited
  <2> QED
    BY <2>1, NowAccounted DEF Orderly, Waits
<1> QED
  BY <1>1, NowAccounted DEF Accounted

LEMMA ClosedWithNothing ==
  ASSUME TypeOK, CipInv, TurnInv, LeakInv, ~Excused,
         \/ cip.state = 0 /\ ~closing
         \/ /\ closing /\ toClient # <<>> /\ Internal(Head(toClient).m)
            /\ \E cb \in cip.callbacks : cb.purpose = "close" /\ cb.id = Head(toClient).m.id
  PROVE  devConns = {} /\ Opens(Of(cip.sent)) = {}
<1>1. toClient \in Seq(Replies) /\ cip.sent \in Seq(Parcels) /\ InLine(cip.sent, toClient)
      /\ Accounted(cip, toClient, devConns) /\ Orderly(cip, closing) /\ Staged(cip, closing)
      /\ cip \in Fields
  BY NowAccounted
<1>2. CASE Waits(cip, "reclose")
  BY <1>2, RecoversWithNothing DEF Opens, Flight
<1>3. ASSUME ~Waits(cip, "reclose"), devConns # {} \/ Opens(Of(cip.sent)) # {} PROVE FALSE
  <2>1. cip.state \notin {1, 2}
    BY <1>1 DEF Orderly
  <2>2. PICK m \in Of(cip.sent) :
          m.kind = "close" /\ Filed(cip.callbacks, m) /\ m.serial = cip.serial
    BY <1>1, <1>3, <2>1 DEF Accounted, Ending
  <2>3. PICK cb \in cip.callbacks : cb.id = m.id
    BY <2>2 DEF Filed
  <2>4. m \in Flight /\ Internal(m)
    BY <2>2 DEF Flight, Internal
  <2>5. cb.purpose # "open"
    BY <2>2, <2>3, <2>4, NowAccounted DEF Matched
  <2>6. cb.purpose = "close"
    BY <1>1, <1>3, <2>5 DEF Waits, Fields
  <2>7. closing
    BY <1>1, <2>6 DEF Staged, Waits
  <2>8. toClient # <<>> /\ Internal(Head(toClient).m)
    BY <2>7
  <2>9. PICK b \in cip.callbacks : b.purpose = "close" /\ b.id = Head(toClient).m.id
    BY <2>7
  <2>10. b = cb
    BY <1>1, <2>6, <2>9 DEF Accounted
  <2>11. Before(Head(toClient).m, m)
    BY <1>1, <2>8, HeadIsFirst
  <2>12. m.id \in Nat
    BY <2>4, NowAccounted
  <2> QED
    BY <2>3, <2>4, <2>8, <2>9, <2>10, <2>11, <2>12 DEF Before
<1> QED
  BY <1>2, <1>3

(* The layer is reset while it holds nothing.                                *)
LEMMA EndedAccounted ==
  ASSUME TypeOK, CipInv, TurnInv, LeakInv, ~Excused, NEW c \in Fields,
         c.serial = cip.serial, c.sent = cip.sent,
         Resets(c), Opens(Of(toClient')) = {}, devConns' = {}, Opens(Of(cip.sent)) = {}
  PROVE  LeakInv'
<1> DEFINE d == Destroyed(c)
<1>1. d \in Fields /\ d.state = 0 /\ d.callbacks = {} /\ d.sent = cip.sent
  BY DestroyedParts
<1>2. cip.sent \in Seq(Parcels) /\ Sorted(cip.sent)
  BY NowAccounted DEF InLine
<1> HIDE DEF d
<1>3. cip'.state = 0 /\ cip'.callbacks = {} /\ Of(cip'.sent) \subseteq Of(cip.sent)
  <2>1. ASSUME SomeArrive(d)
        PROVE  cip'.state = 0 /\ cip'.callbacks = {} /\ Of(cip'.sent) \subseteq Of(cip.sent)
    <3>1. PICK n \in 0 .. Len(cip.sent) : cip' = [d EXCEPT !.sent = SubSeq(cip.sent, 1, n)]
      BY <1>1, <2>1 DEF SomeArrive
    <3>2. cip'.state = 0 /\ cip'.callbacks = {} /\ cip'.sent = SubSeq(cip.sent, 1, n)
      BY <1>1, <3>1 DEF Fields
    <3> QED
      BY <1>2, <3>1, <3>2, SortedPrefix
  <2> QED
    BY <1>1, <2>1 DEF Resets, d
<1>4. Opens(Of(cip'.sent)) = {}
  BY <1>3 DEF Opens
<1>5. PICK b, replies : b = cip' /\ replies = toClient'
  OBVIOUS
<1>6. b.callbacks = {} /\ Opens(Of(b.sent)) = {} /\ b.state # 2 /\ Opens(Of(replies)) = {}
  BY <1>3, <1>4, <1>5
<1>7. Accounted(b, replies, {})
  BY <1>6, NothingAccounted
<1>8. Opens(Flight') = {}
  BY <1>4 DEF Opens, Flight
<1> QED
  BY <1>5, <1>7, <1>8 DEF LeakInv, AtRest

(* The layer is destroyed by a reply.                                        *)
LEMMA DestroyLayerAccounted ==
  ASSUME TypeOK, CipInv, TurnInv, LeakInv, ~Excused, toClient # <<>>, NEW c \in Fields,
         c.serial = cip.serial, c.sent = cip.sent, DestroyLayer(c),
         Opens(Of(Tail(toClient))) = {}, devConns' = {}, Opens(Of(cip.sent)) = {}
  PROVE  LeakInv'
<1>1. Resets(c)
  BY DestroyLayerResets
<1>2. toClient' \in {Tail(toClient), <<>>}
  BY DEF DestroyLayer, SessionOver
<1>3. Opens(Of(toClient')) = {}
  BY <1>2, OfNone DEF Opens
<1> QED
  BY <1>1, <1>3, EndedAccounted

(* A layer without callbacks connects.                                       *)
LEMMA ReconnectAccounted ==
  ASSUME TypeOK, CipInv, TurnInv, LeakInv, ~Excused, toClient # <<>>, NoMicrotask,
         NEW h, NEW c, NEW cb, Freed(c, h, cb), NEW e \in Fields, e.state = 0,
         e.sent = c.sent, e.callbacks = c.callbacks, e.overlap = c.overlap,
         Continue(Connect(e)), cip'.serial <= MaxSerial, lost' = lost, failed' = failed,
         devConns = {}, devConns' = {}, Opens(Of(cip.sent)) = {},
         Opens(Of(Tail(toClient))) = {}
  PROVE  LeakInv'
<1> DEFINE d == Connect(e)
<1>1. session \in 1 .. MaxSessions
  BY Now
<1>2. cip' = d /\ toClient' = Tail(toClient) /\ due' # "destroy"
  BY DEF Continue, NoMicrotask
<1>3. Connects(e, d)
  BY <1>1, <1>2, ConnectParts
<1> HIDE DEF d
<1>4. SUFFICES ASSUME ~d.overlap PROVE Accounted(d, Tail(toClient), {})
  BY <1>2 DEF LeakInv, Excused, AtRest
<1>5. e.callbacks = {}
  BY <1>3, <1>4 DEF Connects, AsksToOpen
<1>6. Opens(Of(e.sent)) = {}
  BY DEF Freed
<1>7. PICK replies : replies = Tail(toClient)
  OBVIOUS
<1> QED
  BY <1>1, <1>3, <1>5, <1>6, <1>7, ConnectsAccounted

(* A reply to anything but a ForwardOpen is taken.                           *)
LEMMA RestAccounted ==
  ASSUME TypeOK, CipInv, TurnInv, LeakInv, ~Excused, toClient # <<>>, due' # "destroy",
         toClient' = Tail(toClient), Head(toClient).m.kind # "open", devConns' = devConns,
         cip'.sent = cip.sent, cip'.state = cip.state, cip'.sendInfo = cip.sendInfo,
         cip'.callbacks = cip.callbacks, cip'.serial = cip.serial
  PROVE  LeakInv'
<1>1. toClient \in Seq(Replies) /\ Accounted(cip, toClient, devConns)
  BY NowAccounted
<1>2. Of(toClient) = Of(Tail(toClient)) \cup {Head(toClient).m}
  BY <1>1, OfTail
<1>3. PICK b, d, replies, rest, dc :
        b = cip /\ d = cip' /\ replies = toClient /\ rest = Tail(toClient) /\ dc = devConns
  OBVIOUS
<1>4. Opens(Of(rest)) \subseteq Opens(Of(replies))
  BY <1>2, <1>3 DEF Opens
<1>5. Granted(replies) => Granted(rest)
  <2> SUFFICES ASSUME NEW i \in DOMAIN toClient, toClient[i].m.kind = "open",
                      toClient[i].status = "ok"
               PROVE  Granted(Tail(toClient))
    BY <1>3 DEF Granted
  <2>1. i # 1
    BY <1>1, OfTail
  <2>2. i - 1 \in DOMAIN Tail(toClient) /\ Tail(toClient)[i - 1] = toClient[i]
    BY <1>1, <2>1
  <2> QED
    BY <2>2 DEF Granted
<1>6. Accounted(d, rest, dc)
  BY <1>1, <1>3, <1>4, <1>5, StillAccounted
<1> QED
  BY <1>3, <1>6 DEF LeakInv, AtRest

LEMMA ResentMessage ==
  ASSUME TypeOK, Resend
  PROVE  \E m \in Messages : cip' = Hand(cip, m) /\ m.kind \in {"stale", "connected"}
<1>1. PICK last \in cip.resend :
        cip' = Hand(cip, IF cip.sendInfo = None
                           THEN [kind |-> "stale", request |-> last.request]
                           ELSE OnConnection(cip, last.seq, last.request))
  BY DEF Resend
<1>2. cip \in Fields /\ last \in [seq : SequenceNumbers, request : Requests]
  BY <1>1, Now DEF Fields
<1>3. CASE cip.sendInfo = None
  <2>1. [kind |-> "stale", request |-> last.request] \in Messages
    BY <1>2 DEF Messages
  <2> QED
    BY <1>1, <1>3, <2>1
<1>4. CASE cip.sendInfo # None
  <2>1. cip.sendInfo \in Serials
    BY <1>2, <1>4 DEF Fields
  <2>2. OnConnection(cip, last.seq, last.request) \in Messages
    BY <1>2, <2>1 DEF Messages, OnConnection
  <2> QED
    BY <1>1, <1>4, <2>2 DEF OnConnection
<1> QED
  BY <1>3, <1>4

LEMMA OpenReplyAccounted ==
  ASSUME TypeOK, CipInv, TurnInv, LeakInv, ~Excused, toClient # <<>>, NoMicrotask,
         NEW h, NEW c, NEW cb, Freed(c, h, cb), cb.purpose = "open",
         OpenReply(c, h), cip'.serial <= MaxSerial,
         lost' = lost, failed' = failed, devConns' = devConns
  PROVE  LeakInv'
<1> DEFINE t == Tail(toClient)
<1>1. /\ c \in Fields /\ c.state = cip.state /\ c.sendInfo = cip.sendInfo
      /\ c.serial = cip.serial /\ c.sent = cip.sent /\ c.overlap = cip.overlap
      /\ cb \in cip.callbacks /\ c.callbacks = cip.callbacks \ {cb}
      /\ h = Head(toClient) /\ h.m.kind = "open" /\ h.m.serial \in Serials
  BY DEF Freed
<1>2. /\ Accounted(cip, toClient, devConns) /\ Orderly(cip, closing) /\ Staged(cip, closing)
      /\ session \in 1 .. MaxSessions
  BY NowAccounted
<1>3. /\ Opens(Of(t)) = {} /\ Opens(Of(cip.sent)) = {} /\ h.m.serial = cip.serial
      /\ h.status # "ok" => devConns = {}
  BY <1>1, OpenIsLast
<1>4. \A b \in c.callbacks : b.purpose = "close"
  BY <1>1, <1>2 DEF Orderly
<1>5. cip.sendInfo = None /\ cip.state # 2
  <2>1. Opening(cip)
    BY <1>1 DEF Opening, Waits
  <2> QED
    BY <1>2, <2>1 DEF Orderly, Staged
<1>6. Opens(Of(t) \cup Of(cip.sent)) = {}
  BY <1>3 DEF Opens
<1>12. \A d : Continue(d) => due' # "destroy"
  BY DEF Continue, NoMicrotask
<1>7. CASE h.status = "ok" /\ c.state = 1
  <2> DEFINE e == [c EXCEPT !.sendInfo = h.m.serial, !.state = 2]
  <2>1. e \in Fields /\ e.sendInfo = cip.serial /\ e.sendInfo # None /\ e.state = 2
        /\ e.callbacks = c.callbacks /\ e.sent = cip.sent /\ e.serial = cip.serial
    BY <1>1, <1>3, Constants DEF Fields
  <2>2. Continue(SendNext(e))
    BY <1>7 DEF OpenReply
  <2> HIDE DEF e
  <2>3. e.callbacks = {}
    <3>1. ~closing
      BY <1>1, <1>2, <1>7 DEF Orderly
    <3> QED
      BY <1>1, <1>2, <1>4, <2>1, <3>1 DEF Staged, Waits
  <2>4. Accounted(e, t, devConns)
    BY <1>2, <1>3, <1>6, <2>1, <2>3 DEF Accounted, Waits
  <2>5. cip' = SendNext(e) /\ toClient' = t
    BY <2>2 DEF Continue
  <2>6. SendNext(e).serial <= MaxSerial
    BY <2>5
  <2>7. PICK replies, dc : replies = t /\ dc = devConns
    OBVIOUS
  <2>8. ~SendNext(e).overlap => Accounted(SendNext(e), replies, dc)
    BY <1>2, <2>1, <2>4, <2>6, <2>7, SendNextAccounted
  <2> QED
    BY <1>12, <2>2, <2>5, <2>7, <2>8 DEF LeakInv, Excused, AtRest
<1>8. CASE h.status = "ok" /\ c.state # 1
  <2>1. cip' = c /\ toClient' = t /\ due' # "destroy"
    BY <1>8, <1>12 DEF OpenReply, Continue
  <2>2. ASSUME devConns # {} PROVE Ending(c)
    <3>1. Ending(cip)
      BY <1>1, <1>2, <1>5, <1>8, <2>2 DEF Accounted
    <3>2. PICK m \in Of(cip.sent) :
            m.kind = "close" /\ Filed(cip.callbacks, m) /\ m.serial = cip.serial
      BY <3>1 DEF Ending
    <3>3. PICK b \in cip.callbacks : b.id = m.id
      BY <3>2 DEF Filed
    <3>4. b.purpose # "open"
      <4>1. m \in Flight /\ Internal(m)
        BY <3>2 DEF Flight, Internal
      <4> QED
        BY <3>2, <3>3, <4>1, NowAccounted DEF Matched
    <3>5. b \in c.callbacks
      BY <1>1, <3>4
    <3> QED
      BY <1>1, <3>2, <3>3, <3>5 DEF Ending, Filed
  <2>3. ~Waits(c, "open") /\ ~Waits(c, "reclose")
    BY <1>4 DEF Waits
  <2>4. \A a, b \in c.callbacks : a \in cip.callbacks /\ b \in cip.callbacks
    BY <1>1
  <2>5. Accounted(c, t, devConns)
    BY <1>1, <1>2, <1>3, <1>4, <1>5, <1>6, <2>2, <2>3, <2>4 DEF Accounted
  <2> QED
    BY <2>1, <2>5 DEF LeakInv, AtRest
<1>9. CASE h.status = "unsupported"
  <2> DEFINE e == [c EXCEPT !.state = 0, !.large = FALSE]
  <2>1. e \in Fields /\ e.state = 0 /\ e.sent = c.sent /\ e.callbacks = c.callbacks
        /\ e.overlap = c.overlap
    BY <1>1 DEF Fields
  <2>2. Continue(Connect(e))
    BY <1>9 DEF OpenReply
  <2> HIDE DEF e
  <2>3. devConns = {} /\ devConns' = {} /\ Opens(Of(Tail(toClient))) = {}
    BY <1>3, <1>9
  <2> QED
    BY <1>3, <2>1, <2>2, <2>3, ReconnectAccounted
<1>10. CASE h.status = "duplicate" /\ ~c.again
  <2> DEFINE e == [c EXCEPT !.state = 0, !.again = TRUE,
                            !.misnamed = @ \/ c.serial # h.m.serial]
             d == SendClose(e, "reclose")
  <2>1. e \in Fields /\ e.state = 0 /\ e.sent = c.sent /\ e.callbacks = c.callbacks
        /\ e.context = c.context /\ e.serial = c.serial
    BY <1>1 DEF Fields
  <2>2. Continue(d)
    BY <1>10 DEF OpenReply
  <2> HIDE DEF e
  <2>3. d.state = 0 /\ AsksToClose(e, d, "reclose")
    BY <1>2, <2>1, SendCloseParts
  <2> HIDE DEF d
  <2>4. d.callbacks = c.callbacks \cup {Callback(e, "reclose")} /\ d.serial = cip.serial
        /\ d.sent = Posted(e, CloseMessage(e)) /\ CloseMessage(e) \in Messages
    BY <1>1, <2>1, <2>3 DEF AsksToClose
  <2>5. Of(d.sent) = Of(cip.sent) \cup {CloseMessage(e)}
    BY <1>1, <1>2, <2>1, <2>4, OfPosted
  <2>6. Opens(Of(d.sent)) = {} /\ Opens(Of(t) \cup Of(d.sent)) = {}
    BY <1>6, <2>5 DEF Opens, CloseMessage
  <2>7. Callback(e, "reclose").purpose = "reclose"
    BY DEF Callback
  <2>8. \A a \in d.callbacks : a.purpose # "open"
    BY <1>4, <2>4, <2>7
  <2>9. \A a, b \in d.callbacks : a.purpose = "close" /\ b.purpose = "close" => a = b
    BY <1>1, <1>2, <2>4, <2>7 DEF Accounted
  <2>10. devConns = {}
    BY <1>3, <1>10
  <2>11. PICK replies, dc : replies = t /\ dc = devConns
    OBVIOUS
  <2>12. dc = {} /\ Opens(Of(replies) \cup Of(d.sent)) = {}
    BY <2>6, <2>10, <2>11
  <2>13. Accounted(d, replies, dc)
    BY ONLY <2>3, <2>6, <2>8, <2>9, <2>12 DEF Accounted
  <2> QED
    BY <1>12, <2>2, <2>11, <2>13 DEF LeakInv, Continue, AtRest
<1>11. CASE DestroyLayer(c) /\ h.status # "ok"
  <2>1. devConns = {} /\ devConns' = {} /\ Opens(Of(Tail(toClient))) = {}
    BY <1>3, <1>11
  <2> QED
    BY <1>1, <1>3, <1>11, <2>1, DestroyLayerAccounted
<1> QED
  BY <1>7, <1>8, <1>9, <1>10, <1>11 DEF OpenReply

LEMMA RecloseReplyAccounted ==
  ASSUME TypeOK, CipInv, TurnInv, LeakInv, ~Excused, toClient # <<>>, NoMicrotask,
         NEW h, NEW c, NEW cb, Freed(c, h, cb), cb.purpose = "reclose",
         RecloseReply(c, h), cip'.serial <= MaxSerial,
         lost' = lost, failed' = failed, devConns' = devConns
  PROVE  LeakInv'
<1>1. c \in Fields /\ c.serial = cip.serial /\ c.sent = cip.sent /\ cb \in cip.callbacks
  BY DEF Freed
<1>2. devConns = {} /\ devConns' = {} /\ Opens(Flight) = {}
  BY <1>1, RecoversWithNothing DEF Waits
<1>3. Opens(Of(cip.sent)) = {} /\ Opens(Of(Tail(toClient))) = {}
  <2>1. Of(toClient) = Of(Tail(toClient)) \cup {Head(toClient).m}
    BY Now, OfTail
  <2> QED
    BY <1>2, <2>1 DEF Opens, Flight
<1>4. CASE h.status = "ok"
  <2> DEFINE e == [c EXCEPT !.state = 0, !.again = FALSE]
  <2>1. e \in Fields /\ e.state = 0 /\ e.sent = c.sent /\ e.callbacks = c.callbacks
        /\ e.overlap = c.overlap
    BY <1>1 DEF Fields
  <2>2. Continue(Connect(e))
    BY <1>4 DEF RecloseReply
  <2> HIDE DEF e
  <2> QED
    BY <1>2, <1>3, <2>1, <2>2, ReconnectAccounted
<1>5. CASE DestroyLayer(c)
  BY <1>1, <1>2, <1>3, <1>5, DestroyLayerAccounted
<1> QED
  BY <1>4, <1>5 DEF RecloseReply

(* An excuse lasts.                                                          *)
LEMMA StillExcused ==
  ASSUME TypeOK, CipInv, [Next]_vars
  PROVE  Excused => Excused'
<1>1. cip.overlap => cip'.overlap
  BY StepRemembers
<1>2. (lost => lost') /\ (failed => failed')
  <2>1. ASSUME NEW r \in Requests, Issue(r) PROVE (lost => lost') /\ failed' = failed
    BY <2>1 DEF Issue
  <2>2. CASE Tick \/ Resend \/ Device \/ Expire \/ UNCHANGED vars
    BY <2>2 DEF Tick, Resend, Device, Expire, history, vars
  <2>3. CASE InternalReply \/ UnconnectedReply \/ ConnectedReply
    BY <2>3 DEF InternalReply, UnconnectedReply, ConnectedReply, history
  <2>4. CASE Lose \/ SessionFails \/ CloseTimeout
    BY <2>4 DEF Lose, SessionFails, CloseTimeout
  <2>5. CASE CloseLayers \/ Disconnects \/ Destroys \/ BelowClosed
    BY <2>5 DEF CloseLayers, Disconnects, Destroys, BelowClosed, history
  <2> QED
    BY <2>1, <2>2, <2>3, <2>4, <2>5 DEF Next
<1> QED
  BY <1>1, <1>2 DEF Excused

LEMMA InternalReplyAccounted ==
  ASSUME TypeOK, CipInv, TurnInv, LeakInv, ~Excused, InternalReply
  PROVE  LeakInv'
<1>1. toClient # <<>> /\ NoMicrotask /\ cip'.serial <= MaxSerial
  BY CallbackFreed
<1>2. lost' = lost /\ failed' = failed /\ devConns' = devConns /\ Internal(Head(toClient).m)
  BY DEF InternalReply, history, device, Internal
<1>3. ASSUME toClient' = Tail(toClient), cip' = cip, due' = due,
             ~Filed(cip.callbacks, Head(toClient).m)
      PROVE  LeakInv'
  <2>1. toClient \in Seq(Replies) /\ Accounted(cip, toClient, devConns)
    BY NowAccounted
  <2>2. Of(toClient) = Of(Tail(toClient)) \cup {Head(toClient).m}
    BY <1>1, <2>1, OfTail
  <2>3. Head(toClient).m.kind # "open"
    <3> SUFFICES ASSUME Head(toClient).m.kind = "open" PROVE FALSE
      OBVIOUS
    <3>1. Head(toClient).m \in Opens(Of(toClient) \cup Of(cip.sent))
      BY <2>2 DEF Opens
    <3> QED
      BY <1>3, <2>1, <3>1 DEF Accounted
  <2> QED
    BY <1>1, <1>2, <1>3, <2>3, RestAccounted DEF NoMicrotask
<1>4. ASSUME NEW h, NEW c, NEW cb, Freed(c, h, cb),
             \/ cb.purpose = "open" /\ OpenReply(c, h)
             \/ cb.purpose = "reclose" /\ RecloseReply(c, h)
      PROVE  LeakInv'
  BY <1>1, <1>2, <1>4, OpenReplyAccounted, RecloseReplyAccounted
<1>5. ASSUME NEW h, NEW c, NEW cb, Freed(c, h, cb), cb.purpose = "close", CloseReply(c, h)
      PROVE  LeakInv'
  <2>1. c \in Fields /\ c.serial = cip.serial /\ c.sent = cip.sent /\ Resets(c)
        /\ cb \in cip.callbacks /\ cb.id = Head(toClient).m.id
    BY <1>1, <1>5, CloseReplyResets DEF Freed
  <2>2. closing
    BY <1>5, <2>1, NowAccounted DEF Staged, Waits
  <2>3. devConns = {} /\ Opens(Of(cip.sent)) = {}
    BY <1>1, <1>2, <1>5, <2>1, <2>2, ClosedWithNothing
  <2>4. toClient' = <<>>
    BY <1>5, <2>2 DEF CloseReply, FinishClose, DestroyLayer, SessionOver
  <2>5. Opens(Of(toClient')) = {}
    BY <2>4, OfNone DEF Opens
  <2> QED
    BY <1>2, <2>1, <2>3, <2>5, EndedAccounted
<1> QED
  BY <1>3, <1>4, <1>5, CallbackFreed

LEMMA DisconnectsAccounted ==
  ASSUME TypeOK, CipInv, TurnInv, LeakInv, ~Excused, Disconnects
  PROVE  LeakInv'
<1>1. lost' = lost /\ failed' = failed /\ devConns' = devConns /\ ~closing
  BY DEF Disconnects, history, device, CipInv
<1>2. CASE cip.state = 0 /\ cip' = cip /\ toClient' = <<>>
  <2>1. devConns = {} /\ Opens(Of(cip.sent)) = {} /\ Accounted(cip, toClient, devConns)
    BY <1>1, <1>2, NowAccounted, ClosedWithNothing
  <2>2. PICK c, replies : c = cip /\ replies = toClient'
    OBVIOUS
  <2>3. Opens(Of(replies)) = {} /\ Opens(Of(c.sent)) = {} /\ c.state = 0
        /\ Accounted(c, toClient, {})
    BY <1>2, <2>1, <2>2, OfNone DEF Opens
  <2>4. Opens(Of(replies) \cup Of(c.sent)) = {}
    BY <2>3 DEF Opens
  <2>5. Accounted(c, replies, {})
    BY <2>3, <2>4 DEF Accounted
  <2>6. Opens(Flight') = {}
    BY <1>2, <2>2, <2>4 DEF Flight
  <2>7. devConns' = {} /\ Accounted(cip', toClient', devConns')
    BY <1>1, <1>2, <2>1, <2>2, <2>5
  <2> QED
    BY <2>6, <2>7 DEF LeakInv, AtRest
<1>3. ASSUME cip' = SendClose([cip EXCEPT !.state = -1, !.resend = {}], "close"),
             toClient' = toClient, due' = "nothing"
      PROVE  LeakInv'
  <2> DEFINE e == [cip EXCEPT !.state = -1, !.resend = {}]
             d == SendClose(e, "close")
             cb == Callback(e, "close")
  <2>1. cip \in Fields /\ session \in 1 .. MaxSessions
        /\ Accounted(cip, toClient, devConns) /\ Staged(cip, closing)
        /\ Numbered(cip.callbacks, cip.context, cip.serial, Flight)
    BY NowAccounted
  <2>2. e \in Fields /\ e.sent = cip.sent /\ e.state = -1 /\ e.callbacks = cip.callbacks
        /\ e.serial = cip.serial /\ e.context = cip.context
    BY <2>1 DEF Fields
  <2> HIDE DEF e
  <2>3. d.state = e.state /\ AsksToClose(e, d, "close")
    BY <2>1, <2>2, SendCloseParts
  <2> HIDE DEF d
  <2>4. d.callbacks = cip.callbacks \cup {cb} /\ d.serial = cip.serial /\ d.state = -1
        /\ d.sent = Posted(e, CloseMessage(e)) /\ CloseMessage(e) \in Messages
    BY <2>2, <2>3 DEF AsksToClose
  <2>5. Of(d.sent) = Of(cip.sent) \cup {CloseMessage(e)}
    BY <2>1, <2>2, <2>4, OfPosted
  <2>6. CloseMessage(e).kind = "close" /\ CloseMessage(e).id = cb.id
        /\ CloseMessage(e).serial = d.serial /\ cb.purpose = "close"
        /\ cb.id = cip.context + 1
    BY <2>2, <2>4 DEF CloseMessage, Callback
  <2> HIDE DEF cb
  <2>7. Opens(Of(d.sent)) = Opens(Of(cip.sent))
        /\ Opens(Of(toClient) \cup Of(d.sent)) = Opens(Of(toClient) \cup Of(cip.sent))
    BY <2>5, <2>6 DEF Opens
  <2>8. Ending(d)
    BY <2>4, <2>5, <2>6 DEF Ending, Filed
  <2>9. \A a, b \in d.callbacks : a.purpose = "open" => a.id <= b.id
    <3> SUFFICES ASSUME NEW a \in d.callbacks, NEW b \in d.callbacks, a.purpose = "open"
                 PROVE  a.id <= b.id
      OBVIOUS
    <3>1. a \in cip.callbacks
      BY <2>4, <2>6
    <3>2. CASE b \in cip.callbacks
      BY <2>1, <3>1, <3>2 DEF Accounted
    <3>3. CASE b = cb
      <4>1. a.id \in 1 .. cip.context /\ cip.context \in Nat
        BY <2>1, <3>1 DEF Numbered, Fields
      <4> QED
        BY <2>6, <3>3, <4>1
    <3> QED
      BY <2>4, <3>2, <3>3
  <2>10. \A a, b \in d.callbacks : a.purpose = "close" /\ b.purpose = "close" => a = b
    BY <1>1, <2>1, <2>4 DEF Staged, Waits
  <2>11. (Waits(d, "open") => Waits(cip, "open")) /\ (Waits(d, "reclose") => Waits(cip, "reclose"))
    BY <2>4, <2>6 DEF Waits
  <2>12. \A m : Filed(cip.callbacks, m) => Filed(d.callbacks, m)
    BY <2>4 DEF Filed
  <2>13. Accounted(d, toClient, devConns)
    <3>1. PICK c, b, replies, dc :
            c = cip /\ b = d /\ replies = toClient /\ dc = devConns
      OBVIOUS
    <3>2. /\ Accounted(c, replies, dc) /\ b.serial = c.serial /\ b.state = -1
          /\ Opens(Of(b.sent)) = Opens(Of(c.sent)) /\ Ending(b)
          /\ Opens(Of(replies) \cup Of(b.sent)) = Opens(Of(replies) \cup Of(c.sent))
          /\ \A m : Filed(c.callbacks, m) => Filed(b.callbacks, m)
      BY <2>1, <2>4, <2>7, <2>8, <2>12, <3>1
    <3>3. /\ \A a, g \in b.callbacks : a.purpose = "open" => a.id <= g.id
          /\ \A a, g \in b.callbacks : a.purpose = "close" /\ g.purpose = "close" => a = g
      BY <2>9, <2>10, <3>1
    <3>4. (Waits(b, "open") => Waits(c, "open")) /\ (Waits(b, "reclose") => Waits(c, "reclose"))
      BY <2>11, <3>1
    <3>5. Accounted(b, replies, dc)
      BY ONLY <3>2, <3>3, <3>4 DEF Accounted
    <3> QED
      BY <3>1, <3>5
  <2>14. cip' = d
    BY <1>3 DEF d, e
  <2> QED
    BY <1>1, <1>3, <2>13, <2>14 DEF LeakInv, AtRest
<1> QED
  BY <1>2, <1>3 DEF Disconnects, SessionOver

LEMMA DestroysAccounted ==
  ASSUME TypeOK, CipInv, TurnInv, LeakInv, ~Excused, Destroys
  PROVE  LeakInv'
<1>1. Resets(cip) /\ toClient' = toClient /\ devConns' = devConns /\ due = "destroy"
  BY EndsReset DEF Destroys, device
<1>2. devConns = {} /\ Opens(Flight) = {} /\ cip \in Fields
  BY <1>1, NowAccounted DEF AtRest
<1>3. Opens(Of(toClient')) = {} /\ Opens(Of(cip.sent)) = {}
  BY <1>1, <1>2 DEF Opens, Flight
<1> QED
  BY <1>1, <1>2, <1>3, EndedAccounted

(* The layers below take with them what the layer sent.                      *)
LEMMA BelowClosedAccounted ==
  ASSUME TypeOK, CipInv, TurnInv, LeakInv, ~Excused, BelowClosed
  PROVE  LeakInv'
<1>1. cip.callbacks = {} /\ Accounted(cip, toClient, devConns) /\ toClient' = toClient
      /\ devConns' = devConns /\ due' = "nothing"
  BY NowAccounted DEF BelowClosed, CipInv, Excused, AtEnd, device
<1>2. Of(cip'.sent) \subseteq Of(cip.sent) /\ cip'.state = cip.state
      /\ cip'.sendInfo = cip.sendInfo /\ SameBooks(cip, cip')
  BY BelowClosedQuits, QuitsParts
<1>3. PICK c, d, replies, dc : c = cip /\ d = cip' /\ replies = toClient /\ dc = devConns
  OBVIOUS
<1>4. c.callbacks = {} /\ Accounted(c, replies, dc) /\ Of(d.sent) \subseteq Of(c.sent)
      /\ d.state = c.state /\ d.sendInfo = c.sendInfo /\ d.callbacks = {}
      /\ d.serial = c.serial
  BY <1>1, <1>2, <1>3 DEF SameBooks
<1>5. Opens(Of(replies) \cup Of(c.sent)) = {} /\ ~Ending(c) /\ ~Waits(d, "reclose")
  BY <1>4 DEF Accounted, Filed, Ending, Waits
<1>6. Opens(Of(replies) \cup Of(d.sent)) = {} /\ Opens(Of(d.sent)) = {}
  BY <1>4, <1>5 DEF Opens
<1>7. Accounted(d, replies, dc)
  BY <1>4, <1>5, <1>6 DEF Accounted, Waits
<1> QED
  BY <1>1, <1>3, <1>7 DEF LeakInv, AtRest

LEMMA InitAccounted == Init => LeakInv
<1> SUFFICES ASSUME Init PROVE LeakInv
  OBVIOUS
<1>1. cip.callbacks = {} /\ cip.sent = <<>> /\ cip.state = 0 /\ toClient = <<>> /\ devConns = {}
  BY DEF Init
<1>2. PICK d, replies : d = cip /\ replies = toClient
  OBVIOUS
<1>3. d.callbacks = {} /\ Opens(Of(d.sent)) = {} /\ d.state # 2 /\ Opens(Of(replies)) = {}
  <2>1. Of(d.sent) = {} /\ Of(replies) = {}
    BY <1>1, <1>2 DEF Of
  <2> QED
    BY <1>1, <1>2, <2>1 DEF Opens
<1>4. Accounted(d, replies, {})
  BY <1>3, NothingAccounted
<1>5. due # "destroy"
  BY DEF Init
<1> QED
  BY <1>1, <1>2, <1>4, <1>5 DEF LeakInv, AtRest

LEMMA StepAccounted ==
  ASSUME TypeOK, CipInv, TurnInv, LeakInv, [Next]_vars
  PROVE  LeakInv'
<1> SUFFICES ASSUME ~Excused, ~Excused' PROVE LeakInv'
  BY StillExcused DEF LeakInv
<1>1. cip \in Fields /\ session \in 1 .. MaxSessions /\ toClient \in Seq(Replies)
      /\ Accounted(cip, toClient, devConns) /\ Staged(cip, closing)
  BY NowAccounted
<1>2. ASSUME NEW c \in Fields, c.state = cip.state, c.sendInfo = cip.sendInfo,
             c.callbacks = cip.callbacks, c.serial = cip.serial, c.sent = cip.sent,
             cip' = SendNext(c), cip'.serial <= MaxSerial, toClient' = toClient,
             devConns' = devConns, due' = due, due # "destroy"
      PROVE  LeakInv'
  <2>1. PICK b, replies, dc : b = cip /\ replies = toClient /\ dc = devConns
    OBVIOUS
  <2>2. Accounted(c, replies, dc)
    BY <1>1, <1>2, <2>1, StillAccounted
  <2>3. c.state = 2 => c.sendInfo # None
    BY <1>1, <1>2 DEF Staged
  <2>4. ~SendNext(c).overlap
    BY <1>2 DEF Excused
  <2>5. Accounted(SendNext(c), replies, dc)
    BY <1>1, <1>2, <2>2, <2>3, <2>4, SendNextAccounted
  <2> QED
    BY <1>2, <2>1, <2>5 DEF LeakInv, AtRest
<1>3. ASSUME NEW r \in Requests, Issue(r) PROVE LeakInv'
  <2> DEFINE c == [cip EXCEPT !.queue = Append(@, r)]
  <2>1. c \in Fields /\ c.state = cip.state /\ c.sendInfo = cip.sendInfo
        /\ c.callbacks = cip.callbacks /\ c.serial = cip.serial /\ c.sent = cip.sent
    <3>1. Append(cip.queue, r) \in Seq(Requests)
      BY <1>1 DEF Fields
    <3> QED
      BY <1>1, <3>1 DEF Fields
  <2>2. cip' = SendNext(c) /\ cip'.serial <= MaxSerial /\ toClient' = toClient
        /\ devConns' = devConns
    BY <1>3 DEF Issue, device
  <2>3. due' = due /\ due # "destroy"
    BY <1>3 DEF Issue, Excused
  <2> HIDE DEF c
  <2> QED
    BY <1>2, <2>1, <2>2, <2>3
<1>4. CASE Tick
  <2> DEFINE c == [cip EXCEPT !.ticks = @ - 1]
  <2>1. c \in Fields /\ c.state = cip.state /\ c.sendInfo = cip.sendInfo
        /\ c.callbacks = cip.callbacks /\ c.serial = cip.serial /\ c.sent = cip.sent
    <3>1. cip.ticks - 1 \in Nat
      BY <1>1, <1>4 DEF Fields, Tick
    <3> QED
      BY <1>1, <3>1 DEF Fields
  <2>2. cip' = SendNext(c) /\ cip'.serial <= MaxSerial /\ toClient' = toClient
        /\ devConns' = devConns
    BY <1>4 DEF Tick, device
  <2>3. due' = due /\ due # "destroy"
    BY <1>4 DEF Tick, NoMicrotask
  <2> HIDE DEF c
  <2> QED
    BY <1>2, <2>1, <2>2, <2>3
<1>5. CASE Resend
  <2>1. PICK m \in Messages : cip' = Hand(cip, m) /\ m.kind # "open"
    BY <1>5, ResentMessage
  <2>2. cip'.sent = Posted(cip, m) /\ cip'.state = cip.state /\ cip'.sendInfo = cip.sendInfo
        /\ cip'.callbacks = cip.callbacks /\ cip'.serial = cip.serial
    <3>1. cip' = [cip EXCEPT !.sent = Posted(cip, m)]
      BY <1>1, <2>1, HandIs
    <3> QED
      BY <1>1, <3>1 DEF Fields
  <2>3. Of(cip'.sent) = Of(cip.sent) \cup {m}
    BY <1>1, <2>2, OfPosted
  <2>4. Opens(Of(cip'.sent)) \subseteq Opens(Of(cip.sent)) /\ toClient' = toClient
        /\ devConns' = devConns
    BY <1>5, <2>1, <2>3 DEF Opens, Resend, device
  <2>5. PICK b, d, replies, dc :
          b = cip /\ d = cip' /\ replies = toClient /\ dc = devConns
    OBVIOUS
  <2>6. Accounted(d, replies, dc)
    BY <1>1, <2>2, <2>3, <2>4, <2>5, StillAccounted
  <2>7. due' # "destroy"
    BY <1>5 DEF Resend, NoMicrotask
  <2> QED
    BY <2>4, <2>5, <2>6, <2>7 DEF LeakInv, AtRest
<1>6. CASE Device
  BY <1>6, DeviceAccounted
<1>7. CASE Lose \/ SessionFails \/ CloseTimeout
  BY <1>7 DEF Lose, SessionFails, CloseTimeout, Excused
<1>8. CASE Expire \/ UNCHANGED vars
  BY <1>8 DEF Expire, vars, device, LeakInv, Excused, AtRest, Flight
<1>9. CASE InternalReply
  BY <1>9, InternalReplyAccounted
<1>10. CASE UnconnectedReply \/ ConnectedReply
  <2>1. toClient # <<>> /\ toClient' = Tail(toClient) /\ Head(toClient).m.kind # "open"
        /\ devConns' = devConns
    BY <1>10 DEF UnconnectedReply, ConnectedReply, device
  <2>2. cip'.sent = cip.sent /\ cip'.state = cip.state /\ cip'.sendInfo = cip.sendInfo
        /\ cip'.callbacks = cip.callbacks /\ cip'.serial = cip.serial
    BY <1>1, <1>10 DEF UnconnectedReply, ConnectedReply, Fields
  <2>3. due' # "destroy"
    BY <1>10 DEF UnconnectedReply, ConnectedReply, NoMicrotask
  <2> QED
    BY <2>1, <2>2, <2>3, RestAccounted
<1>11. CASE CloseLayers
  BY <1>11 DEF CloseLayers, device, LeakInv, Excused, AtRest
<1>12. CASE Disconnects \/ Destroys \/ BelowClosed
  BY <1>12, DisconnectsAccounted, DestroysAccounted, BelowClosedAccounted
<1> QED
  BY <1>3, <1>4, <1>5, <1>6, <1>7, <1>8, <1>9, <1>10, <1>11, <1>12 DEF Next

(* When nothing of the layer is under way, the device holds no connection    *)
(* but the one the layer uses, whatever sequence of connects, fallbacks,     *)
(* duplicates, refusals and closes led there, for any requests and devices:  *)
(* every ForwardOpen that the device granted was learned of, or was followed *)
(* by a ForwardClose of the same connection.  Unless a reply was lost, the   *)
(* session failed, or a ForwardOpen overlapped another request of the layer. *)
THEOREM NoConnectionLeaks == Spec => []NoLeakedConnection
<1> DEFINE Inv == TypeOK /\ CipInv /\ TurnInv /\ LeakInv
<1>1. Init => Inv
  BY InitSound, InitTurned, InitAccounted
<1>2. Inv /\ [Next]_vars => Inv'
  BY StepSound, StepTurned, StepAccounted
<1>3. Inv => NoLeakedConnection
  <2> SUFFICES ASSUME TypeOK, CipInv, TurnInv, LeakInv, ~Excused, cip.callbacks = {},
                      cip.sent = <<>>
               PROVE  devConns \subseteq IF cip.state = 2 THEN {cip.sendInfo} ELSE {}
    BY DEF NoLeakedConnection, Excused
  <2>1. Accounted(cip, toClient, devConns) /\ Staged(cip, closing)
    BY NowAccounted
  <2>2. cip.state # 1 /\ ~Ending(cip)
    BY <2>1 DEF Staged, Waits, Ending, Filed
  <2> QED
    BY <2>1, <2>2 DEF Accounted
<1> HIDE DEF Inv
<1> QED
  BY <1>1, <1>2, <1>3, PTL DEF Spec
-----------------------------------------------------------------------------
(* Where a request that is not settled has its reply coming.  The layer may  *)
(* forget the connection its messages are on only when it learns of another  *)
(* one, from the reply to a ForwardOpen, or when a ForwardClose of it is     *)
(* sent.  So, as long as no reply was lost and no ForwardClose misnamed: a   *)
(* ForwardOpen that the layer waits for is behind every message whose        *)
(* context is on file, and no ForwardClose on its way names its connection   *)
(* or the one the layer is connected with.                                   *)
Asked(cbs, m) == m.kind = "open" /\ Filed(cbs, m)

(* The messages whose reply will find the context of their request.          *)
Expected(c) ==
  {OnConnection(c, q, c.idContext[q]) : q \in {n \in SequenceNumbers : c.idContext[n] # None}}

ToldBefore(q, j) == {q[i].m : i \in {k \in DOMAIN q : k < j}}
SentBefore(q, j, s) == {q[i].m : i \in {k \in DOMAIN q : k < j /\ q[k].session = s}}

(* The messages in "first" come before each ForwardOpen that is waited for.  *)
AheadOfTold(cbs, first, replies) ==
  \A j \in DOMAIN replies : Asked(cbs, replies[j].m) => first \subseteq ToldBefore(replies, j)
AheadOfSent(cbs, first, replies, sent, s) ==
  \A j \in DOMAIN sent :
    Asked(cbs, sent[j].m) => first \subseteq Of(replies) \cup SentBefore(sent, j, s)

Ahead(c, replies, s) ==
  /\ AheadOfTold(c.callbacks, Expected(c), replies)
  /\ AheadOfSent(c.callbacks, Expected(c), replies, c.sent, s)

Filled(c, replies, s) ==
  /\ Expected(c) \subseteq OwedTo(c, replies, s)
  /\ c.sendInfo = None => Expected(c) = {}

(* The callbacks on file at once.                                            *)
Paired(c) ==
  /\ c.state = 0 => ~Waits(c, "open")
  /\ c.state = 2 => ~Waits(c, "reclose")
  /\ c.state = 2 \/ Waits(c, "reclose") =>
       \A a, b \in c.callbacks : a.purpose = "open" /\ b.purpose = "open" => a = b
  /\ \A a, b, e \in c.callbacks :
       a.purpose = "open" /\ b.purpose = "open" /\ e.purpose = "open"
         => a = b \/ b = e \/ a = e
  /\ \A a, b \in c.callbacks : a.purpose = "reclose" /\ b.purpose = "reclose" => a = b
  /\ \A a, b \in c.callbacks : a.purpose = "reclose" /\ b.purpose = "open" => a.id < b.id

Unclosed(sent, serial) == \A m \in Of(sent) : m.kind = "close" => m.serial # serial

Live(c, dc) == c.sendInfo # None => c.sendInfo \in dc /\ Unclosed(c.sent, c.sendInfo)

Untouched(c, replies, dc) ==
  /\ \A o \in Of(replies) \cup Of(c.sent) : Asked(c.callbacks, o) => Unclosed(c.sent, o.serial)
  /\ \A i \in DOMAIN replies :
       Asked(c.callbacks, replies[i].m) /\ replies[i].status = "ok" => replies[i].m.serial \in dc

Bound(c, replies, dc, s) ==
  Filled(c, replies, s) /\ Live(c, dc) /\ Untouched(c, replies, dc)

Routed(c, replies, dc, s) ==
  Bound(c, replies, dc, s) /\ (c.state # 2 => Ahead(c, replies, s)) /\ Paired(c)

(* Where the reply to each request of rs comes from.                         *)
Carried(c, replies, s, rs) ==
  \A r \in rs : \/ r \in Waiting(c)
                \/ Unconnected(r) \in OwedTo(c, replies, s)
                \/ \E q \in SequenceNumbers : c.idContext[q] = r

Strayed == lost \/ cip.misnamed

(* A close is on, from the rejections of the layer above to its last step.   *)
Ends == closing \/ due # "nothing"

Blank(c) ==
  c.callbacks = {} /\ c.sendInfo = None /\ c.idContext = [s \in SequenceNumbers |-> None]

RouteInv ==
  /\ Ends => Pending \subseteq stranded
  /\ Strayed \/ Ends \/ /\ Routed(cip, toClient, devConns, session)
                        /\ Carried(cip, toClient, session, Pending \ stranded)
  /\ Strayed \/ (due = "below" => Blank(cip))

-----------------------------------------------------------------------------
LEMMA ToldAppended ==
  ASSUME NEW S, NEW q \in Seq(S), NEW x \in S
  PROVE  /\ \A j \in DOMAIN q : /\ j \in DOMAIN Append(q, x) /\ Append(q, x)[j] = q[j]
                                /\ ToldBefore(q, j) \subseteq ToldBefore(Append(q, x), j)
         /\ \A j \in DOMAIN Append(q, x) \ DOMAIN q :
              Append(q, x)[j] = x /\ Of(q) \subseteq ToldBefore(Append(q, x), j)
<1> DEFINE p == Append(q, x)
<1>1. Len(q) \in Nat /\ DOMAIN q = 1 .. Len(q) /\ DOMAIN p = 1 .. Len(q) + 1
      /\ p[Len(q) + 1] = x /\ \A i \in 1 .. Len(q) : p[i] = q[i]
  OBVIOUS
<1> HIDE DEF p
<1>2. ASSUME NEW j \in DOMAIN q
      PROVE  j \in DOMAIN p /\ p[j] = q[j] /\ ToldBefore(q, j) \subseteq ToldBefore(p, j)
  BY <1>1 DEF ToldBefore
<1>3. ASSUME NEW j \in DOMAIN p \ DOMAIN q
      PROVE  p[j] = x /\ Of(q) \subseteq ToldBefore(p, j)
  <2>1. j = Len(q) + 1
    BY <1>1
  <2>2. ASSUME NEW i \in DOMAIN q PROVE q[i].m \in ToldBefore(p, j)
    <3>1. i \in DOMAIN p /\ i < j /\ p[i] = q[i]
      BY <1>1, <2>1
    <3> QED
      BY <3>1 DEF ToldBefore
  <2> QED
    BY <1>1, <2>1, <2>2 DEF Of
<1> QED
  BY <1>2, <1>3 DEF p

LEMMA ToldTaken ==
  ASSUME NEW S, NEW q \in Seq(S), q # <<>>, NEW j \in DOMAIN Tail(q)
  PROVE  /\ j + 1 \in DOMAIN q /\ Tail(q)[j] = q[j + 1]
         /\ ToldBefore(q, j + 1) \subseteq ToldBefore(Tail(q), j) \cup {Head(q).m}
<1> DEFINE t == Tail(q)
<1>1. Len(q) \in Nat /\ DOMAIN q = 1 .. Len(q) /\ DOMAIN t = 1 .. Len(q) - 1
      /\ (\A i \in 1 .. Len(q) - 1 : t[i] = q[i + 1]) /\ Head(q) = q[1]
  OBVIOUS
<1>2. j \in DOMAIN t
  OBVIOUS
<1> HIDE DEF t
<1>3. ASSUME NEW i \in DOMAIN q, i < j + 1, i # 1 PROVE q[i].m \in ToldBefore(t, j)
  <2>1. i - 1 \in DOMAIN t /\ i - 1 < j /\ t[i - 1] = q[i]
    BY <1>1, <1>2, <1>3
  <2> QED
    BY <2>1 DEF ToldBefore
<1>4. ToldBefore(q, j + 1) \subseteq ToldBefore(t, j) \cup {Head(q).m}
  BY <1>1, <1>3 DEF ToldBefore
<1> QED
  BY <1>1, <1>2, <1>4 DEF t

LEMMA SentAppended ==
  ASSUME NEW q \in Seq(Parcels), NEW x \in Parcels
  PROVE  /\ \A j \in DOMAIN q :
              /\ j \in DOMAIN Append(q, x) /\ Append(q, x)[j] = q[j]
              /\ \A s : SentBefore(q, j, s) \subseteq SentBefore(Append(q, x), j, s)
         /\ \A j \in DOMAIN Append(q, x) \ DOMAIN q :
              /\ Append(q, x)[j] = x
              /\ \A s : {q[i].m : i \in {k \in DOMAIN q : q[k].session = s}}
                          \subseteq SentBefore(Append(q, x), j, s)
<1> DEFINE p == Append(q, x)
<1>1. Len(q) \in Nat /\ DOMAIN q = 1 .. Len(q) /\ DOMAIN p = 1 .. Len(q) + 1
      /\ p[Len(q) + 1] = x /\ \A i \in 1 .. Len(q) : p[i] = q[i]
  OBVIOUS
<1> HIDE DEF p
<1>2. ASSUME NEW j \in DOMAIN q
      PROVE  j \in DOMAIN p /\ p[j] = q[j]
             /\ \A s : SentBefore(q, j, s) \subseteq SentBefore(p, j, s)
  BY <1>1 DEF SentBefore
<1>3. ASSUME NEW j \in DOMAIN p \ DOMAIN q, NEW s, NEW i \in DOMAIN q, q[i].session = s
      PROVE  p[j] = x /\ q[i].m \in SentBefore(p, j, s)
  <2>1. j = Len(q) + 1
    BY <1>1
  <2>2. i \in DOMAIN p /\ i < j /\ p[i] = q[i]
    BY <1>1, <2>1
  <2> QED
    BY <1>1, <1>3, <2>1, <2>2 DEF SentBefore
<1>4. ASSUME NEW j \in DOMAIN p \ DOMAIN q PROVE p[j] = x
  BY <1>1
<1> QED
  BY <1>2, <1>3, <1>4 DEF p

LEMMA SentTaken ==
  ASSUME NEW q \in Seq(Parcels), q # <<>>, NEW j \in DOMAIN Tail(q), NEW s
  PROVE  /\ j + 1 \in DOMAIN q /\ Tail(q)[j] = q[j + 1]
         /\ SentBefore(q, j + 1, s) \subseteq
              SentBefore(Tail(q), j, s) \cup {m \in {Head(q).m} : Head(q).session = s}
<1> DEFINE t == Tail(q)
<1>1. Len(q) \in Nat /\ DOMAIN q = 1 .. Len(q) /\ DOMAIN t = 1 .. Len(q) - 1
      /\ (\A i \in 1 .. Len(q) - 1 : t[i] = q[i + 1]) /\ Head(q) = q[1]
  OBVIOUS
<1>2. j \in DOMAIN t
  OBVIOUS
<1> HIDE DEF t
<1>3. ASSUME NEW i \in DOMAIN q, i < j + 1, q[i].session = s, i # 1
      PROVE  q[i].m \in SentBefore(t, j, s)
  <2>1. i - 1 \in DOMAIN t /\ i - 1 < j /\ t[i - 1] = q[i]
    BY <1>1, <1>2, <1>3
  <2> QED
    BY <1>3, <2>1 DEF SentBefore
<1>4. SentBefore(q, j + 1, s)
        \subseteq SentBefore(t, j, s) \cup {m \in {Head(q).m} : Head(q).session = s}
  BY <1>1, <1>3 DEF SentBefore
<1> QED
  BY <1>1, <1>2, <1>4 DEF t

LEMMA ExpectedParts ==
  ASSUME NEW c, NEW m
  PROVE  m \in Expected(c) <=>
           \E q \in SequenceNumbers :
             c.idContext[q] # None /\ m = OnConnection(c, q, c.idContext[q])
  BY DEF Expected

LEMMA ExpectedKinds ==
  ASSUME NEW c, NEW m \in Expected(c)
  PROVE  /\ m.kind = "connected" /\ m.serial = c.sendInfo /\ m.seq \in SequenceNumbers
         /\ c.idContext[m.seq] # None
  BY ExpectedParts DEF OnConnection

LEMMA FewerExpected ==
  ASSUME NEW c, NEW d, d.sendInfo = c.sendInfo,
         \A q \in SequenceNumbers : d.idContext[q] \in {None, c.idContext[q]}
  PROVE  Expected(d) \subseteq Expected(c)
<1> SUFFICES ASSUME NEW m \in Expected(d) PROVE m \in Expected(c)
  OBVIOUS
<1>1. PICK q \in SequenceNumbers :
        d.idContext[q] # None /\ m = OnConnection(d, q, d.idContext[q])
  BY ExpectedParts
<1>2. c.idContext[q] # None /\ m = OnConnection(c, q, c.idContext[q])
  BY <1>1 DEF OnConnection
<1> QED
  BY <1>2, ExpectedParts

-----------------------------------------------------------------------------
(* One message more behind the others.                                       *)
LEMMA PostedParts ==
  ASSUME NEW c \in Fields, session \in 1 .. MaxSessions, Current = session, NEW d, NEW m \in Messages,
         d.sent = Posted(c, m)
  PROVE  /\ Of(d.sent) = Of(c.sent) \cup {m}
         /\ \A replies : OwedTo(d, replies, session) = OwedTo(c, replies, session) \cup {m}
         /\ \A serial : Unclosed(c.sent, serial) /\ (m.kind = "close" => m.serial # serial)
                          => Unclosed(d.sent, serial)
         /\ \A cbs, first, replies :
              /\ AheadOfSent(cbs, first, replies, c.sent, session)
              /\ Asked(cbs, m) => first \subseteq OwedTo(c, replies, session)
              => AheadOfSent(cbs, first, replies, d.sent, session)
<1> DEFINE x == [session |-> Current, m |-> m]
           p == d.sent
           q == c.sent
<1>1. q \in Seq(Parcels) /\ x \in Parcels /\ x.m = m
  <2>1. q \in Seq(Parcels)
    BY FieldTypes
  <2>2. session \in 0 .. MaxSessions
    BY Constants
  <2>3. x = [session |-> session, m |-> m]
    OBVIOUS
  <2> QED
    BY <2>1, <2>2, <2>3 DEF Parcels
<1>2. Of(p) = Of(q) \cup {m}
  BY OfPosted
<1>3. p = Append(q, x)
  BY DEF Posted
<1>4. ASSUME NEW cbs, NEW first, NEW replies,
             AheadOfSent(cbs, first, replies, q, session),
             Asked(cbs, m) => first \subseteq OwedTo(c, replies, session)
      PROVE  AheadOfSent(cbs, first, replies, p, session)
  <2> HIDE DEF x, p
  <2> SUFFICES ASSUME NEW j \in DOMAIN p, Asked(cbs, p[j].m)
               PROVE  first \subseteq Of(replies) \cup SentBefore(p, j, session)
    BY DEF AheadOfSent
  <2>1. CASE j \in DOMAIN q
    <3>1. p[j] = q[j] /\ SentBefore(q, j, session) \subseteq SentBefore(p, j, session)
      BY <1>1, <1>3, <2>1, SentAppended
    <3> QED
      BY <1>4, <2>1, <3>1 DEF AheadOfSent
  <2>2. CASE j \notin DOMAIN q
    <3>1. p[j] = x
          /\ {q[i].m : i \in {k \in DOMAIN q : q[k].session = session}}
               \subseteq SentBefore(p, j, session)
      BY <1>1, <1>3, <2>2, SentAppended
    <3>2. first \subseteq OwedTo(c, replies, session)
      BY <1>1, <1>4, <3>1
    <3> QED
      BY <3>1, <3>2 DEF OwedTo
  <2> QED
    BY <2>1, <2>2
<1>5. \A replies : OwedTo(d, replies, session) = OwedTo(c, replies, session) \cup {m}
  BY OwedPosted
<1>6. \A serial : Unclosed(c.sent, serial) /\ (m.kind = "close" => m.serial # serial)
                    => Unclosed(d.sent, serial)
  BY <1>2 DEF Unclosed
<1> QED
  BY <1>2, <1>4, <1>5, <1>6

LEMMA PostedRouted ==
  ASSUME NEW c \in Fields, session \in 1 .. MaxSessions, Current = session, NEW d, NEW m \in Messages,
         d.sent = Posted(c, m), ~Internal(m), d.state = c.state, d.sendInfo = c.sendInfo,
         d.callbacks = c.callbacks, d.idContext = c.idContext,
         NEW replies, NEW dc, Routed(c, replies, dc, session)
  PROVE  Routed(d, replies, dc, session)
<1>1. Expected(d) = Expected(c)
  BY DEF Expected, OnConnection
<1>2. /\ Of(d.sent) = Of(c.sent) \cup {m}
      /\ OwedTo(d, replies, session) = OwedTo(c, replies, session) \cup {m}
      /\ \A serial : Unclosed(c.sent, serial) => Unclosed(d.sent, serial)
      /\ \A cbs, first : AheadOfSent(cbs, first, replies, c.sent, session) /\ ~Asked(cbs, m)
                           => AheadOfSent(cbs, first, replies, d.sent, session)
  <2>1. /\ c \in Fields /\ session \in 1 .. MaxSessions /\ Current = session /\ m \in Messages
        /\ d.sent = Posted(c, m)
    OBVIOUS
  <2>2. /\ Of(d.sent) = Of(c.sent) \cup {m}
        /\ \A rest : OwedTo(d, rest, session) = OwedTo(c, rest, session) \cup {m}
        /\ \A serial : Unclosed(c.sent, serial) /\ (m.kind = "close" => m.serial # serial)
                         => Unclosed(d.sent, serial)
        /\ \A cbs, first, rest :
             /\ AheadOfSent(cbs, first, rest, c.sent, session)
             /\ Asked(cbs, m) => first \subseteq OwedTo(c, rest, session)
             => AheadOfSent(cbs, first, rest, d.sent, session)
    BY ONLY <2>1, PostedParts
  <2>3. m.kind # "close"
    BY DEF Internal
  <2> QED
    BY <2>2, <2>3
<1>3. m.kind \notin {"open", "close"}
  BY DEF Internal
<1>4. ASSUME Ahead(c, replies, session) PROVE Ahead(d, replies, session)
  BY <1>1, <1>2, <1>3, <1>4 DEF Ahead, Asked
<1>5. Filled(d, replies, session)
  BY <1>1, <1>2 DEF Routed, Bound, Filled
<1>6. Live(d, dc)
  BY <1>2 DEF Routed, Bound, Live
<1>7. Untouched(d, replies, dc)
  BY <1>2, <1>3 DEF Routed, Bound, Untouched, Asked
<1>8. Paired(d)
  BY DEF Routed, Paired, Waits
<1> QED
  BY <1>4, <1>5, <1>6, <1>7, <1>8 DEF Routed, Bound

(* A ForwardOpen sent by a layer in state 0: it waits for two at most, and   *)
(* for the reply to a ForwardClose only before the first.                    *)
LEMMA ConnectsRouted ==
  ASSUME NEW c \in Fields, session \in 1 .. MaxSessions, Current = session, NEW d, Connects(c, d),
         NEW replies \in Seq(Replies), NEW dc,
         Bound(c, replies, dc, session), Ahead(c, replies, session),
         Numbered(c.callbacks, c.context, c.serial, Of(replies) \cup Of(c.sent)),
         ~Waits(c, "open") \/ ~Waits(c, "reclose"),
         \A a, b \in c.callbacks : a.purpose = "open" /\ b.purpose = "open" => a = b,
         \A a, b \in c.callbacks : a.purpose = "reclose" /\ b.purpose = "reclose" => a = b
  PROVE  Routed(d, replies, dc, session)
<1> DEFINE cb == Callback(c, "open")
           m == OpenMessage(c)
<1>1. d.callbacks = c.callbacks \cup {cb} /\ d.sent = Posted(c, m) /\ m \in Messages
      /\ d.state = 1 /\ d.sendInfo = c.sendInfo /\ d.idContext = c.idContext
  BY DEF Connects, AsksToOpen, SameWindow
<1>2. m.kind = "open" /\ m.serial = c.serial + 1 /\ m.id = c.context + 1
      /\ cb.id = c.context + 1 /\ cb.purpose = "open"
  BY DEF OpenMessage, Callback
<1>3. c.serial \in Nat /\ c.context \in Nat
      /\ Of(replies) \subseteq Messages /\ Of(c.sent) \subseteq Messages
  BY FieldTypes, FlightMessages
<1> HIDE DEF cb, m
<1>4. Expected(d) = Expected(c)
  BY <1>1 DEF Expected, OnConnection
<1>5. \A b \in c.callbacks : b.id \in Nat /\ b.id < cb.id
  BY <1>2, <1>3 DEF Numbered
<1>6. ASSUME NEW o \in Of(replies) \cup Of(c.sent), Asked(d.callbacks, o)
      PROVE  Asked(c.callbacks, o)
  <2>1. o.id \in Nat /\ o.id <= c.context
    BY <1>3, <1>6, MessageParts DEF Numbered, Internal, Asked
  <2> QED
    BY <1>1, <1>2, <1>3, <1>6, <2>1 DEF Asked, Filed
<1>7. /\ Of(d.sent) = Of(c.sent) \cup {m}
      /\ OwedTo(d, replies, session) = OwedTo(c, replies, session) \cup {m}
      /\ \A serial : Unclosed(c.sent, serial) => Unclosed(d.sent, serial)
  <2>1. /\ c \in Fields /\ session \in 1 .. MaxSessions /\ m \in Messages
        /\ d.sent = Posted(c, m) /\ m.kind # "close"
    BY <1>1, <1>2
  <2>2. Of(d.sent) = Of(c.sent) \cup {m}
    BY <2>1, OfPosted
  <2>3. OwedTo(d, replies, session) = OwedTo(c, replies, session) \cup {m}
    BY <2>1, OwedPosted
  <2>4. \A serial : Unclosed(c.sent, serial) => Unclosed(d.sent, serial)
    BY <2>1, <2>2 DEF Unclosed
  <2> QED
    BY <2>2, <2>3, <2>4
<1>8. Filled(d, replies, session)
  BY <1>1, <1>4, <1>7 DEF Bound, Filled
<1>9. Live(d, dc)
  BY <1>1, <1>7 DEF Bound, Live
<1>10. Untouched(d, replies, dc)
  <2>1. ASSUME NEW o \in Of(replies) \cup Of(c.sent), Asked(d.callbacks, o)
        PROVE  Unclosed(d.sent, o.serial)
    BY <1>6, <1>7, <2>1 DEF Bound, Untouched
  <2>2. Unclosed(d.sent, m.serial)
    <3> SUFFICES ASSUME NEW x \in Of(c.sent) \cup {m}, x.kind = "close"
                 PROVE  x.serial # m.serial
      BY <1>7 DEF Unclosed
    <3>1. x \in Of(c.sent) /\ Internal(x) /\ x \in Messages
      BY <1>2, <1>3 DEF Internal
    <3>2. x.serial \in Nat /\ x.serial <= c.serial
      BY <3>1, InternalParts DEF Numbered
    <3> QED
      BY <1>2, <1>3, <3>2
  <2>3. \A i \in DOMAIN replies :
          Asked(d.callbacks, replies[i].m) /\ replies[i].status = "ok"
            => replies[i].m.serial \in dc
    <3>1. \A i \in DOMAIN replies : replies[i].m \in Of(replies)
      BY DEF Of
    <3> QED
      BY <1>6, <3>1 DEF Bound, Untouched
  <2> QED
    BY <1>7, <2>1, <2>2, <2>3 DEF Untouched
<1>11. Ahead(d, replies, session)
  <2>1. AheadOfTold(d.callbacks, Expected(d), replies)
    <3>1. \A i \in DOMAIN replies : replies[i].m \in Of(replies)
      BY DEF Of
    <3> QED
      BY <1>4, <1>6, <3>1 DEF Ahead, AheadOfTold
  <2>2. AheadOfSent(d.callbacks, Expected(d), replies, c.sent, session)
    <3>1. \A i \in DOMAIN c.sent : c.sent[i].m \in Of(c.sent)
      BY DEF Of
    <3> QED
      BY <1>4, <1>6, <3>1 DEF Ahead, AheadOfSent
  <2>3. Expected(d) \subseteq OwedTo(c, replies, session)
    BY <1>4 DEF Bound, Filled
  <2>4. PICK cbs, first : cbs = d.callbacks /\ first = Expected(d)
    OBVIOUS
  <2>5. AheadOfSent(cbs, first, replies, d.sent, session)
    BY <1>1, <2>2, <2>3, <2>4, PostedParts
  <2> QED
    BY <2>1, <2>4, <2>5 DEF Ahead
<1>12. Paired(d)
  <2>1. d.state = 1 /\ d.callbacks = c.callbacks \cup {cb}
    BY <1>1
  <2>2. Waits(d, "reclose") => Waits(c, "reclose")
    BY <1>2, <2>1 DEF Waits
  <2>3. Waits(d, "reclose") =>
          \A a, b \in d.callbacks : a.purpose = "open" /\ b.purpose = "open" => a = b
    BY <2>1, <2>2 DEF Waits
  <2>4. \A a, b, e \in d.callbacks :
          a.purpose = "open" /\ b.purpose = "open" /\ e.purpose = "open"
            => a = b \/ b = e \/ a = e
    BY <2>1
  <2>5. \A a, b \in d.callbacks : a.purpose = "reclose" /\ b.purpose = "reclose" => a = b
    BY <1>2, <2>1
  <2>6. \A a, b \in d.callbacks : a.purpose = "reclose" /\ b.purpose = "open" => a.id < b.id
    BY <1>2, <1>5, <2>1 DEF Waits
  <2> QED
    BY <2>1, <2>3, <2>4, <2>5, <2>6 DEF Paired
<1> QED
  BY <1>8, <1>9, <1>10, <1>11, <1>12 DEF Routed, Bound

(* A message sent on the connection, under a count that none has.            *)
LEMMA SendsRouted ==
  ASSUME NEW c \in Fields, session \in 1 .. MaxSessions, Current = session, NEW d, NEW r \in Requests,
         SendsConnected(c, d, r), c.state = 2, c.sendInfo # None,
         NEW replies, NEW dc, Routed(c, replies, dc, session),
         Unused(c, Of(replies) \cup Of(c.sent))
  PROVE  /\ Routed(d, replies, dc, session)
         /\ \A q \in SequenceNumbers : c.idContext[q] # None => d.idContext[q] = c.idContext[q]
         /\ \E q \in SequenceNumbers : d.idContext[q] = r
<1> DEFINE n == (c.seq + 1) % SequenceCounts
           m == OnConnection(c, n, r)
<1>1. d.idContext = [c.idContext EXCEPT ![n] = r] /\ d.sent = Posted(c, m) /\ m \in Messages
      /\ d.state = c.state /\ d.sendInfo = c.sendInfo /\ d.callbacks = c.callbacks
  BY DEF SendsConnected, SameBooks
<1>2. n \in SequenceNumbers /\ c.idContext \in [SequenceNumbers -> Requests \cup {None}]
  BY NextCount DEF Fields
<1>3. m.kind = "connected" /\ m.serial = c.sendInfo /\ m.seq = n /\ m.request = r
  BY DEF OnConnection
<1>4. Unused(c, Of(replies) \cup Of(c.sent))
      <=> \A x \in Of(replies) \cup Of(c.sent) : OnLine(c, x) => x.seq # n
  BY DEF Unused
<1>5. \A q : OnConnection(d, q, d.idContext[q]) = OnConnection(c, q, d.idContext[q])
  BY <1>1 DEF OnConnection
<1> HIDE DEF n
<1>6. d.idContext[n] = r /\ \A q \in SequenceNumbers \ {n} : d.idContext[q] = c.idContext[q]
  BY <1>1, <1>2
<1>7. c.idContext[n] = None
  <2> SUFFICES ASSUME c.idContext[n] # None PROVE FALSE
    OBVIOUS
  <2> DEFINE x == OnConnection(c, n, c.idContext[n])
  <2>1. x \in Expected(c)
    BY <1>2, ExpectedParts
  <2>2. OnLine(c, x) /\ x.seq = n
    BY DEF OnConnection, OnLine
  <2> HIDE DEF x
  <2>3. x \in Of(replies) \cup Of(c.sent)
    BY <2>1 DEF Routed, Bound, Filled, OwedTo, Of
  <2> QED
    BY <1>4, <2>2, <2>3
<1>8. Expected(d) \subseteq Expected(c) \cup {m}
  <2> SUFFICES ASSUME NEW x \in Expected(d) PROVE x \in Expected(c) \cup {m}
    OBVIOUS
  <2>1. PICK q \in SequenceNumbers :
          d.idContext[q] # None /\ x = OnConnection(d, q, d.idContext[q])
    BY ExpectedParts
  <2>2. CASE q = n
    BY <1>5, <1>6, <2>1, <2>2
  <2>3. CASE q # n
    <3>1. c.idContext[q] # None /\ x = OnConnection(c, q, c.idContext[q])
      BY <1>5, <1>6, <2>1, <2>3
    <3> QED
      BY <3>1, ExpectedParts
  <2> QED
    BY <2>2, <2>3
<1> HIDE DEF m
<1>9. /\ Of(d.sent) = Of(c.sent) \cup {m}
      /\ OwedTo(d, replies, session) = OwedTo(c, replies, session) \cup {m}
      /\ \A serial : Unclosed(c.sent, serial) => Unclosed(d.sent, serial)
  BY <1>1, <1>3, PostedParts
<1>10. Filled(d, replies, session)
  BY <1>1, <1>8, <1>9 DEF Routed, Bound, Filled
<1>11. Live(d, dc)
  BY <1>1, <1>9 DEF Routed, Bound, Live
<1>12. Untouched(d, replies, dc)
  BY <1>1, <1>3, <1>9 DEF Routed, Bound, Untouched, Asked
<1>13. Paired(d)
  BY <1>1 DEF Routed, Paired, Waits
<1>14. Routed(d, replies, dc, session)
  BY <1>1, <1>10, <1>11, <1>12, <1>13 DEF Routed, Bound
<1> QED
  BY <1>2, <1>6, <1>7, <1>14

LEMMA OwedGrows ==
  ASSUME NEW c, NEW d, NEW replies, NEW s, NEW rs, Carried(c, replies, s, rs),
         OwedTo(c, replies, s) \subseteq OwedTo(d, replies, s),
         \A q \in SequenceNumbers : c.idContext[q] # None => d.idContext[q] = c.idContext[q],
         rs \subseteq Requests,
         \A r \in rs \cap Waiting(c) : \/ r \in Waiting(d)
                                       \/ Unconnected(r) \in OwedTo(d, replies, s)
                                       \/ \E q \in SequenceNumbers : d.idContext[q] = r
  PROVE  Carried(d, replies, s, rs)
<1>1. \A r \in rs : r # None
  BY Constants
<1> QED
  BY <1>1 DEF Carried

(* sendNextMessage.                                                          *)
LEMMA SendNextRouted ==
  ASSUME NEW c \in Fields, session \in 1 .. MaxSessions, Current = session,
         c.state = 2 => c.sendInfo # None,
         NEW replies \in Seq(Replies), NEW dc, Routed(c, replies, dc, session),
         Numbered(c.callbacks, c.context, c.serial, Of(replies) \cup Of(c.sent)),
         c.queue # <<>> /\ c.state = 2 => Unused(c, Of(replies) \cup Of(c.sent)),
         NEW rs \in SUBSET Requests, Carried(c, replies, session, rs),
         SendNext(c).serial <= MaxSerial
  PROVE  /\ Routed(SendNext(c), replies, dc, session)
         /\ Carried(SendNext(c), replies, session, rs)
<1> DEFINE d == SendNext(c)
<1>1. d \in Fields /\ NextSent(c, d)
  BY SendNextParts
<1> HIDE DEF d
<1>2. c.queue \in Seq(Requests) /\ d.queue \in Seq(Requests)
  BY <1>1 DEF Fields
<1>3. ASSUME c.queue # <<>>, d.queue = Tail(c.queue), NEW r \in Waiting(c), r # Head(c.queue)
      PROVE  r \in Waiting(d)
  <2>1. PICK q, t : q = c.queue /\ t = d.queue
    OBVIOUS
  <2>2. q \in Seq(Requests) /\ q # <<>> /\ t = Tail(q)
    BY <1>2, <1>3, <2>1
  <2>3. Len(q) \in Nat /\ DOMAIN q = 1 .. Len(q) /\ DOMAIN t = 1 .. Len(q) - 1
        /\ (\A i \in 1 .. Len(q) - 1 : t[i] = q[i + 1]) /\ Head(q) = q[1]
    BY <2>2
  <2>4. PICK i \in DOMAIN q : q[i] = r
    BY <1>3, <2>1 DEF Waiting
  <2>5. i # 1
    BY <1>3, <2>1, <2>3, <2>4
  <2>6. i - 1 \in DOMAIN t /\ t[i - 1] = r
    BY <2>3, <2>4, <2>5
  <2> QED
    BY <2>1, <2>6 DEF Waiting
<1>4. CASE d = c
  BY <1>4 DEF d
<1>5. ASSUME c.queue # <<>>, c.state = 2, SendsConnected(c, d, Head(c.queue))
      PROVE  Routed(d, replies, dc, session) /\ Carried(d, replies, session, rs)
  <2>1. PICK r \in Requests : r = Head(c.queue)
    BY <1>2, <1>5
  <2>2. SendsConnected(c, d, r)
    BY <1>5, <2>1
  <2>3. /\ Routed(d, replies, dc, session)
        /\ \A q \in SequenceNumbers : c.idContext[q] # None => d.idContext[q] = c.idContext[q]
        /\ \E q \in SequenceNumbers : d.idContext[q] = r
    <3>1. /\ c \in Fields /\ session \in 1 .. MaxSessions /\ Current = session /\ r \in Requests
          /\ SendsConnected(c, d, r) /\ c.state = 2 /\ c.sendInfo # None
          /\ Routed(c, replies, dc, session) /\ Unused(c, Of(replies) \cup Of(c.sent))
      BY <1>5, <2>2
    <3> QED
      BY ONLY <3>1, SendsRouted
  <2>4. OwedTo(c, replies, session) \subseteq OwedTo(d, replies, session)
    BY <2>2, OwedPosted DEF SendsConnected
  <2>5. \A x \in rs \cap Waiting(c) :
          x \in Waiting(d) \/ \E q \in SequenceNumbers : d.idContext[q] = x
    BY <1>3, <1>5, <2>1, <2>2, <2>3 DEF SendsConnected
  <2> QED
    BY <2>3, <2>4, <2>5, OwedGrows
<1>6. ASSUME c.queue # <<>>, c.state = 0, Connects(c, d)
      PROVE  Routed(d, replies, dc, session) /\ Carried(d, replies, session, rs)
  <2>1. ~Waits(c, "open") /\ Bound(c, replies, dc, session) /\ Ahead(c, replies, session)
        /\ \A a, b \in c.callbacks : a.purpose = "reclose" /\ b.purpose = "reclose" => a = b
    BY <1>6 DEF Routed, Paired
  <2>2. \A a, b \in c.callbacks : a.purpose = "open" /\ b.purpose = "open" => a = b
    BY <2>1 DEF Waits
  <2>3. Routed(d, replies, dc, session)
    BY <1>6, <2>1, <2>2, ConnectsRouted
  <2>4. OwedTo(c, replies, session) \subseteq OwedTo(d, replies, session)
    BY <1>6, OwedPosted DEF Connects, AsksToOpen
  <2>5. d.idContext = c.idContext /\ d.queue = c.queue
    BY <1>6 DEF Connects, SameWindow, SameQueue
  <2>6. Waiting(d) = Waiting(c)
    BY <2>5 DEF Waiting
  <2> QED
    BY <2>3, <2>4, <2>5, <2>6, OwedGrows
<1>7. ASSUME c.queue # <<>>, c.state = 0, SendsUnconnected(c, d, Head(c.queue))
      PROVE  Routed(d, replies, dc, session) /\ Carried(d, replies, session, rs)
  <2>1. PICK r \in Requests : r = Head(c.queue)
    BY <1>2, <1>7
  <2>2. SendsUnconnected(c, d, r)
    BY <1>7, <2>1
  <2>3. PICK m \in Messages : m = Unconnected(r) /\ ~Internal(m)
    BY <2>2 DEF SendsUnconnected, Unconnected, Internal
  <2>4. d.sent = Posted(c, m) /\ d.state = c.state /\ d.sendInfo = c.sendInfo
        /\ d.callbacks = c.callbacks /\ d.idContext = c.idContext /\ d.queue = Tail(c.queue)
    BY <2>2, <2>3 DEF SendsUnconnected, SameBooks, SameWindow
  <2>5. Routed(d, replies, dc, session)
    BY <2>3, <2>4, PostedRouted
  <2>6. OwedTo(d, replies, session) = OwedTo(c, replies, session) \cup {m}
    BY <2>4, OwedPosted
  <2>7. \A x \in rs \cap Waiting(c) :
          x \in Waiting(d) \/ Unconnected(x) \in OwedTo(d, replies, session)
    BY <1>3, <1>7, <2>1, <2>3, <2>4, <2>6
  <2> QED
    BY <2>4, <2>5, <2>6, <2>7, OwedGrows
<1> QED
  BY <1>1, <1>4, <1>5, <1>6, <1>7 DEF NextSent, d

(* A reply taken from the head of the line that is not one of the expected.  *)
LEMMA TakenRouted ==
  ASSUME NEW c, NEW replies \in Seq(Replies), replies # <<>>, NEW dc, NEW s,
         Routed(c, replies, dc, s), NEW d, d.state = c.state, d.sendInfo = c.sendInfo,
         d.sent = c.sent, d.callbacks \subseteq c.callbacks,
         \A q \in SequenceNumbers : d.idContext[q] \in {None, c.idContext[q]},
         Head(replies).m \notin Expected(d)
  PROVE  Routed(d, Tail(replies), dc, s)
<1> DEFINE t == Tail(replies)
           h == Head(replies)
<1>1. Of(replies) = Of(t) \cup {h.m} /\ t \in Seq(Replies)
      /\ \A i \in DOMAIN t : i + 1 \in DOMAIN replies /\ t[i] = replies[i + 1]
  BY OfTail
<1>2. \A j \in DOMAIN t : ToldBefore(replies, j + 1) \subseteq ToldBefore(t, j) \cup {h.m}
  BY ToldTaken
<1> HIDE DEF t, h
<1>3. Expected(d) \subseteq Expected(c) /\ h.m \notin Expected(d)
  BY FewerExpected DEF h
<1>4. \A m : Asked(d.callbacks, m) => Asked(c.callbacks, m)
  BY DEF Asked, Filed
<1>5. Filled(d, t, s)
  <2>1. OwedTo(c, replies, s) = OwedTo(d, t, s) \cup {h.m}
    BY <1>1 DEF OwedTo
  <2> QED
    BY <1>3, <2>1 DEF Routed, Bound, Filled
<1>6. Live(d, dc)
  BY DEF Routed, Bound, Live
<1>7. Untouched(d, t, dc)
  BY <1>1, <1>4 DEF Routed, Bound, Untouched
<1>8. ASSUME Ahead(c, replies, s) PROVE Ahead(d, t, s)
  <2>1. AheadOfTold(d.callbacks, Expected(d), t)
    <3> SUFFICES ASSUME NEW j \in DOMAIN t, Asked(d.callbacks, t[j].m)
                 PROVE  Expected(d) \subseteq ToldBefore(t, j)
      BY DEF AheadOfTold
    <3>1. Expected(c) \subseteq ToldBefore(replies, j + 1)
      BY <1>1, <1>4, <1>8 DEF Ahead, AheadOfTold
    <3> QED
      BY <1>2, <1>3, <3>1
  <2>2. AheadOfSent(d.callbacks, Expected(d), t, d.sent, s)
    <3> SUFFICES ASSUME NEW j \in DOMAIN d.sent, Asked(d.callbacks, d.sent[j].m)
                 PROVE  Expected(d) \subseteq Of(t) \cup SentBefore(d.sent, j, s)
      BY DEF AheadOfSent
    <3>1. Expected(c) \subseteq Of(replies) \cup SentBefore(d.sent, j, s)
      BY <1>4, <1>8 DEF Ahead, AheadOfSent
    <3> QED
      BY <1>1, <1>3, <3>1
  <2> QED
    BY <2>1, <2>2 DEF Ahead
<1>9. Paired(d)
  <2>1. /\ Waits(d, "open") => Waits(c, "open")
        /\ Waits(d, "reclose") => Waits(c, "reclose")
    BY DEF Waits
  <2>2. \A a \in d.callbacks : a \in c.callbacks
    OBVIOUS
  <2>3. Paired(c) /\ d.state = c.state
    BY DEF Routed
  <2> QED
    BY ONLY <2>1, <2>2, <2>3 DEF Paired
<1> QED
  BY <1>5, <1>6, <1>7, <1>8, <1>9 DEF Routed, Bound, t

LEMMA TakenCarried ==
  ASSUME NEW c, NEW replies \in Seq(Replies), replies # <<>>, NEW s, NEW rs,
         Carried(c, replies, s, rs), NEW d, d.sent = c.sent, d.queue = c.queue,
         NEW left \in SUBSET rs,
         \A r \in left : /\ Unconnected(r) # Head(replies).m
                         /\ \A q \in SequenceNumbers : c.idContext[q] = r => d.idContext[q] = r
  PROVE  Carried(d, Tail(replies), s, left)
<1>1. Of(replies) = Of(Tail(replies)) \cup {Head(replies).m}
  BY OfTail
<1>2. Waiting(d) = Waiting(c)
  BY DEF Waiting
<1>3. OwedTo(c, replies, s) = OwedTo(d, Tail(replies), s) \cup {Head(replies).m}
  BY <1>1 DEF OwedTo
<1> QED
  BY <1>2, <1>3 DEF Carried

(* A layer without a connection that waits for nothing.                      *)
LEMMA NothingRouted ==
  ASSUME NEW d, d.callbacks = {}, d.sendInfo = None,
         d.idContext = [q \in SequenceNumbers |-> None]
  PROVE  \A replies, dc, s : Routed(d, replies, dc, s)
<1>1. Expected(d) = {}
  BY DEF Expected
<1>2. \A m : ~Asked(d.callbacks, m)
  BY DEF Asked, Filed
<1>3. Paired(d)
  BY DEF Paired, Waits
<1> QED
  BY <1>1, <1>2, <1>3
     DEF Routed, Bound, Filled, Live, Untouched, Ahead, AheadOfTold, AheadOfSent

-----------------------------------------------------------------------------
(* The device takes the message at the head of the line: no message of the   *)
(* session that has a reply to come leaves it without one.                   *)
TakesHead(c, d, x) ==
  /\ c.sent # <<>> /\ x = Head(c.sent)
  /\ d.sent = Tail(c.sent) /\ d.state = c.state /\ d.sendInfo = c.sendInfo
  /\ d.callbacks = c.callbacks /\ d.idContext = c.idContext /\ d.queue = c.queue

Deals(c, x, replies, rest, dc, held, s) ==
  /\ \/ /\ rest = replies
        /\ x.session = s => x.m.kind # "unconnected" /\ x.m \notin Expected(c)
     \/ \E status \in Statuses :
          /\ rest = Append(replies, [m |-> x.m, status |-> status])
          /\ x.m.kind = "open" /\ status = "ok" => x.m.serial \in held
  /\ \A serial \in dc \ held : x.m.kind = "close" /\ x.m.serial = serial

LEMMA HandedRouted ==
  ASSUME NEW c \in Fields, NEW x, NEW d, TakesHead(c, d, x),
         NEW replies \in Seq(Replies), NEW rest, NEW dc, NEW held, NEW s,
         Deals(c, x, replies, rest, dc, held, s),
         Routed(c, replies, dc, s), NEW rs, Carried(c, replies, s, rs)
  PROVE  Routed(d, rest, held, s) /\ Carried(d, rest, s, rs)
<1> USE DEF TakesHead, Deals
<1>1. c.sent \in Seq(Parcels)
  BY FieldTypes
<1>2. Of(c.sent) = Of(d.sent) \cup {x.m} /\ x \in Parcels /\ 1 \in DOMAIN c.sent
      /\ c.sent[1] = x
  BY <1>1, OfTail
<1>3. OwedTo(c, replies, s) \subseteq
        OwedTo(d, replies, s) \cup {m \in {x.m} : x.session = s}
  BY OwedTaken
<1>4. \A m \in OwedTo(c, replies, s) :
        m.kind = "unconnected" \/ m \in Expected(c) => m \in OwedTo(d, rest, s)
  <2>1. CASE /\ rest = replies
             /\ x.session = s => x.m.kind # "unconnected" /\ x.m \notin Expected(c)
    BY <1>3, <2>1
  <2>2. ASSUME NEW status \in Statuses, rest = Append(replies, [m |-> x.m, status |-> status])
        PROVE  OwedTo(c, replies, s) \subseteq OwedTo(d, rest, s)
    <3>1. [m |-> x.m, status |-> status] \in Replies
      BY <1>2 DEF Parcels, Replies
    <3>2. Of(rest) = Of(replies) \cup {x.m}
      BY <2>2, <3>1, OfAppend
    <3> QED
      BY <1>3, <3>2 DEF OwedTo
  <2> QED
    BY <2>1, <2>2
<1>5. /\ Of(rest) \subseteq Of(replies) \cup {x.m} /\ Of(replies) \subseteq Of(rest)
      /\ \A j \in DOMAIN rest :
           \/ /\ j \in DOMAIN replies /\ rest[j] = replies[j]
              /\ ToldBefore(replies, j) \subseteq ToldBefore(rest, j)
           \/ /\ rest[j].m = x.m /\ Of(replies) \subseteq ToldBefore(rest, j)
              /\ x.m.kind = "open" /\ rest[j].status = "ok" => x.m.serial \in held
  <2>1. CASE rest = replies
    BY <2>1
  <2>2. ASSUME NEW status \in Statuses, rest = Append(replies, [m |-> x.m, status |-> status]),
               x.m.kind = "open" /\ status = "ok" => x.m.serial \in held
        PROVE  /\ Of(rest) = Of(replies) \cup {x.m}
               /\ \A j \in DOMAIN rest :
                    \/ /\ j \in DOMAIN replies /\ rest[j] = replies[j]
                       /\ ToldBefore(replies, j) \subseteq ToldBefore(rest, j)
                    \/ /\ rest[j].m = x.m /\ Of(replies) \subseteq ToldBefore(rest, j)
                       /\ x.m.kind = "open" /\ rest[j].status = "ok" => x.m.serial \in held
    <3> DEFINE z == [m |-> x.m, status |-> status]
    <3>0. z \in Replies /\ z.m = x.m /\ z.status = status
      BY <1>2 DEF Parcels, Replies
    <3>1. PICK y \in Replies : y = [m |-> x.m, status |-> status] /\ y.m = x.m
                               /\ y.status = status
      BY <3>0
    <3>2. rest = Append(replies, y)
      BY <2>2, <3>1
    <3>3. Of(rest) = Of(replies) \cup {x.m}
      BY <3>1, <3>2, OfAppend
    <3>4. ASSUME NEW j \in DOMAIN rest, j \in DOMAIN replies
          PROVE  rest[j] = replies[j] /\ ToldBefore(replies, j) \subseteq ToldBefore(rest, j)
      BY <3>2, <3>4, ToldAppended
    <3>5. ASSUME NEW j \in DOMAIN rest, j \notin DOMAIN replies
          PROVE  rest[j] = y /\ Of(replies) \subseteq ToldBefore(rest, j)
      BY <3>2, <3>5, ToldAppended
    <3> QED
      BY <2>2, <3>1, <3>3, <3>4, <3>5
  <2> QED
    BY <2>1, <2>2
<1>6. Expected(d) = Expected(c)
  BY DEF Expected, OnConnection
<1>7. Filled(d, rest, s)
  <2>1. Expected(c) \subseteq OwedTo(c, replies, s) /\ (c.sendInfo = None => Expected(c) = {})
    BY DEF Routed, Bound, Filled
  <2> QED
    BY <1>4, <1>6, <2>1 DEF Filled
<1>8. Live(d, held) /\ \A serial : Unclosed(c.sent, serial) => Unclosed(d.sent, serial)
  <2>1. \A serial : Unclosed(c.sent, serial) => Unclosed(d.sent, serial)
    BY <1>2 DEF Unclosed
  <2>2. ASSUME c.sendInfo # None PROVE c.sendInfo \in held
    <3>1. c.sendInfo \in dc /\ Unclosed(c.sent, c.sendInfo)
      BY <2>2 DEF Routed, Bound, Live
    <3> QED
      BY <1>2, <3>1 DEF Unclosed
  <2> QED
    BY <2>1, <2>2 DEF Routed, Bound, Live
<1>9. Untouched(d, rest, held)
  <2>1. Untouched(c, replies, dc)
    BY DEF Routed, Bound
  <2>2. \A o \in Of(rest) \cup Of(d.sent) : Asked(d.callbacks, o) => Unclosed(d.sent, o.serial)
    BY <1>2, <1>5, <1>8, <2>1 DEF Untouched
  <2>3. ASSUME NEW j \in DOMAIN rest, Asked(d.callbacks, rest[j].m), rest[j].status = "ok"
        PROVE  rest[j].m.serial \in held
    <3>1. CASE j \in DOMAIN replies /\ rest[j] = replies[j]
      <4>1. rest[j].m.serial \in dc
        BY <2>1, <2>3, <3>1 DEF Untouched
      <4>2. rest[j].m \in Of(replies)
        BY <3>1 DEF Of
      <4>3. Unclosed(c.sent, rest[j].m.serial)
        BY <2>1, <2>3, <4>2 DEF Untouched
      <4> QED
        BY <1>2, <4>1, <4>3 DEF Unclosed
    <3>2. CASE /\ rest[j].m = x.m
               /\ x.m.kind = "open" /\ rest[j].status = "ok" => x.m.serial \in held
      BY <2>3, <3>2 DEF Asked
    <3> QED
      BY <1>5, <3>1, <3>2
  <2> QED
    BY <2>2, <2>3 DEF Untouched
<1>10. ASSUME Ahead(c, replies, s) PROVE Ahead(d, rest, s)
  <2>1. AheadOfTold(d.callbacks, Expected(d), rest)
    <3> SUFFICES ASSUME NEW j \in DOMAIN rest, Asked(d.callbacks, rest[j].m)
                 PROVE  Expected(d) \subseteq ToldBefore(rest, j)
      BY DEF AheadOfTold
    <3>1. CASE /\ j \in DOMAIN replies /\ rest[j] = replies[j]
               /\ ToldBefore(replies, j) \subseteq ToldBefore(rest, j)
      BY <1>6, <1>10, <3>1 DEF Ahead, AheadOfTold
    <3>2. CASE rest[j].m = x.m /\ Of(replies) \subseteq ToldBefore(rest, j)
      <4>1. Expected(c) \subseteq Of(replies) \cup SentBefore(c.sent, 1, s)
        BY <1>2, <1>10, <3>2 DEF Ahead, AheadOfSent
      <4>2. SentBefore(c.sent, 1, s) = {}
        BY <1>1 DEF SentBefore
      <4> QED
        BY <1>6, <3>2, <4>1, <4>2
    <3> QED
      BY <1>5, <3>1, <3>2
  <2>2. AheadOfSent(d.callbacks, Expected(d), rest, d.sent, s)
    <3> SUFFICES ASSUME NEW j \in DOMAIN d.sent, Asked(d.callbacks, d.sent[j].m),
                        NEW m \in Expected(d), m \notin Of(rest)
                 PROVE  m \in SentBefore(d.sent, j, s)
      BY DEF AheadOfSent
    <3>1. /\ j + 1 \in DOMAIN c.sent /\ d.sent[j] = c.sent[j + 1]
          /\ SentBefore(c.sent, j + 1, s) \subseteq
               SentBefore(d.sent, j, s) \cup {y \in {x.m} : x.session = s}
      BY <1>1, SentTaken
    <3>2. m \in Of(replies) \cup SentBefore(c.sent, j + 1, s)
      BY <1>6, <1>10, <3>1 DEF Ahead, AheadOfSent
    <3>3. ~(m = x.m /\ x.session = s)
      <4>1. CASE /\ rest = replies
                 /\ x.session = s => x.m.kind # "unconnected" /\ x.m \notin Expected(c)
        BY <1>6, <4>1
      <4>2. ASSUME NEW status \in Statuses,
                   rest = Append(replies, [m |-> x.m, status |-> status])
            PROVE  x.m \in Of(rest)
        <5>1. [m |-> x.m, status |-> status] \in Replies
          BY <1>2 DEF Parcels, Replies
        <5>2. Of(rest) = Of(replies) \cup {x.m}
          BY <4>2, <5>1, OfAppend
        <5> QED
          BY <5>2
      <4> QED
        BY <4>1, <4>2
    <3> QED
      BY <1>5, <3>1, <3>2, <3>3
  <2> QED
    BY <2>1, <2>2 DEF Ahead
<1>11. Paired(d)
  BY DEF Routed, Paired, Waits
<1>12. Routed(d, rest, held, s)
  BY <1>7, <1>8, <1>9, <1>10, <1>11 DEF Routed, Bound
<1>13. Carried(d, rest, s, rs)
  <2>1. \A r : Unconnected(r).kind = "unconnected"
    BY DEF Unconnected
  <2>2. Waiting(d) = Waiting(c)
    BY DEF Waiting
  <2> QED
    BY <1>4, <2>1, <2>2 DEF Carried
<1> QED
  BY <1>12, <1>13

LEMMA DeviceRouted ==
  ASSUME TypeOK, Device, Routed(cip, toClient, devConns, session), NEW rs,
         Carried(cip, toClient, session, rs)
  PROVE  /\ Routed(cip', toClient', devConns', session)
         /\ Carried(cip', toClient', session, rs)
<1>1. PICK x : x = Head(cip.sent)
  OBVIOUS
<1>2. /\ cip.sent # <<>> /\ cip' = [cip EXCEPT !.sent = Tail(@)]
      /\ \A s \in devConns \ devConns' : x.m.kind = "close" /\ x.m.serial = s
  BY <1>1, DeviceReplies
<1>3. cip \in Fields /\ toClient \in Seq(Replies) /\ cip.sent \in Seq(Parcels)
  BY Now, FieldTypes
<1>4. cip'.sent = Tail(cip.sent) /\ cip'.state = cip.state /\ cip'.sendInfo = cip.sendInfo
      /\ cip'.callbacks = cip.callbacks /\ cip'.idContext = cip.idContext
      /\ cip'.queue = cip.queue
  BY <1>2, <1>3 DEF Fields
<1>5. x \in Parcels /\ x.m \in Messages
  <2>1. Head(cip.sent) \in Parcels
    BY <1>2, <1>3, OfTail
  <2> QED
    BY <1>1, <2>1 DEF Parcels
<1>6. \/ /\ toClient' = toClient
         /\ x.session = session =>
              x.m.kind = "stale" \/ (x.m.kind = "connected" /\ x.m.serial \notin devConns)
      \/ \E status \in Statuses :
           /\ toClient' = Append(toClient, [m |-> x.m, status |-> status])
           /\ x.m.kind = "open" /\ status = "ok" => x.m.serial \in devConns'
  <2>1. CASE x.m.kind = "open" /\ DeviceOpens(x)
    BY <2>1 DEF DeviceOpens, Reply, Statuses
  <2>2. CASE x.m.kind = "close" /\ DeviceCloses(x)
    BY <2>2 DEF DeviceCloses, Reply, Statuses
  <2>3. CASE /\ x.m.kind = "unconnected" \/ (x.m.kind = "connected" /\ x.m.serial \in Held)
             /\ Reply(x, "ok") /\ UNCHANGED device
    BY <2>3 DEF Reply, Statuses
  <2>4. CASE /\ x.m.kind = "stale" \/ (x.m.kind = "connected" /\ x.m.serial \notin Held)
             /\ UNCHANGED <<toClient, device>>
    BY <2>4 DEF Held
  <2> QED
    BY <1>1, <2>1, <2>2, <2>3, <2>4 DEF Device
<1>7. x.m.kind = "stale" \/ (x.m.kind = "connected" /\ x.m.serial \notin devConns)
        => x.m.kind # "unconnected" /\ x.m \notin Expected(cip)
  <2> SUFFICES ASSUME x.m.kind = "stale" \/ (x.m.kind = "connected" /\ x.m.serial \notin devConns),
                      x.m \in Expected(cip)
               PROVE  FALSE
    OBVIOUS
  <2>1. x.m.kind = "connected" /\ x.m.serial = cip.sendInfo
    BY ExpectedKinds
  <2>2. cip.sendInfo # None => cip.sendInfo \in devConns
    BY DEF Routed, Bound, Live
  <2>3. cip.sendInfo # None
    BY DEF Routed, Bound, Filled
  <2> QED
    BY <2>1, <2>2, <2>3
<1>8. PICK c, d, replies, rest, dc, held, s :
        /\ c = cip /\ d = cip' /\ replies = toClient /\ rest = toClient'
        /\ dc = devConns /\ held = devConns' /\ s = session
  OBVIOUS
<1>9. \/ /\ rest = replies
         /\ x.session = s => x.m.kind # "unconnected" /\ x.m \notin Expected(c)
      \/ \E status \in Statuses :
           /\ rest = Append(replies, [m |-> x.m, status |-> status])
           /\ x.m.kind = "open" /\ status = "ok" => x.m.serial \in held
  BY <1>6, <1>7, <1>8
<1>10. Routed(c, replies, dc, s) /\ Carried(c, replies, s, rs)
  BY <1>8
<1>11. /\ c \in Fields /\ c.sent # <<>> /\ x = Head(c.sent) /\ replies \in Seq(Replies)
       /\ d.sent = Tail(c.sent) /\ d.state = c.state /\ d.sendInfo = c.sendInfo
       /\ d.callbacks = c.callbacks /\ d.idContext = c.idContext /\ d.queue = c.queue
       /\ \A serial \in dc \ held : x.m.kind = "close" /\ x.m.serial = serial
  BY <1>1, <1>2, <1>3, <1>4, <1>8
<1>12. Routed(d, rest, held, s) /\ Carried(d, rest, s, rs)
  <2>1. c \in Fields /\ replies \in Seq(Replies)
    BY <1>11
  <2>2. TakesHead(c, d, x)
    BY <1>11 DEF TakesHead
  <2>3. Deals(c, x, replies, rest, dc, held, s)
    BY <1>9, <1>11 DEF Deals
  <2> QED
    BY ONLY <1>10, <2>1, <2>2, <2>3, HandedRouted
<1> QED
  BY <1>8, <1>12

-----------------------------------------------------------------------------
(* The steps of the layer.                                                   *)
OnRoute == ~Strayed /\ ~Ends

Owing == Pending \ stranded

LEMMA NowRouted ==
  ASSUME TypeOK, CipInv, WindowInv, RouteInv, OnRoute
  PROVE  /\ cip \in Fields /\ toClient \in Seq(Replies) /\ session \in 1 .. MaxSessions
         /\ Routed(cip, toClient, devConns, session) /\ Paired(cip)
         /\ Carried(cip, toClient, session, Owing) /\ Owing \in SUBSET Requests
         /\ Backed(cip, toClient, session) /\ Staged(cip, closing)
         /\ ~Waits(cip, "close")
         /\ InLine(cip.sent, toClient) /\ Matched(cip.callbacks, Flight)
         /\ Numbered(cip.callbacks, cip.context, cip.serial, Flight)
         /\ Flight = Of(toClient) \cup Of(cip.sent) /\ Flight \subseteq Messages
         /\ \A m \in Flight : Internal(m) => m.id \in Nat /\ m.serial \in Nat
         /\ Unspoken(cip, Flight)
         /\ Current = session /\ ~closing /\ due = "nothing"
<1>1. cip \in Fields /\ toClient \in Seq(Replies) /\ session \in 1 .. MaxSessions
  BY Now
<1>7. Current = session /\ ~closing /\ due = "nothing"
  BY InSession DEF OnRoute, Ends
<1>2. Routed(cip, toClient, devConns, session) /\ Paired(cip)
      /\ Carried(cip, toClient, session, Owing) /\ Owing \in SUBSET Requests
  BY DEF RouteInv, OnRoute, Owing, Routed, Pending
<1>3. Backed(cip, toClient, session) /\ Staged(cip, closing) /\ ~Waits(cip, "close")
  BY <1>7 DEF OnRoute, Strayed, CipInv, Sound, Staged
<1>4. InLine(cip.sent, toClient) /\ Matched(cip.callbacks, Flight)
      /\ Numbered(cip.callbacks, cip.context, cip.serial, Flight)
  BY DEF CipInv, Sound, MailOf, Mail, Flight
<1>5. Flight = Of(toClient) \cup Of(cip.sent) /\ Flight \subseteq Messages
  BY <1>1, FlightMessages DEF Flight
<1>6. Unspoken(cip, Flight)
  BY DEF WindowInv, InWindow
<1> QED
  BY <1>1, <1>2, <1>3, <1>4, <1>5, <1>6, <1>7, InternalParts

(* The reply to an internal message, and its callback, taken.                *)
LEMMA FreedRouted ==
  ASSUME TypeOK, CipInv, WindowInv, RouteInv, OnRoute, toClient # <<>>,
         NEW h, NEW c, NEW cb, Freed(c, h, cb)
  PROVE  /\ Routed(c, Tail(toClient), devConns, session)
         /\ Carried(c, Tail(toClient), session, Owing)
         /\ Tail(toClient) \in Seq(Replies)
         /\ Of(Tail(toClient)) \cup Of(c.sent) \subseteq Flight
         /\ Numbered(c.callbacks, c.context, c.serial, Of(Tail(toClient)) \cup Of(c.sent))
         /\ Asked(cip.callbacks, h.m) <=> cb.purpose = "open"
         /\ h.m \in Flight
<1>1. PICK replies, rest, d, dc, s :
        replies = toClient /\ rest = Tail(toClient) /\ d = cip /\ dc = devConns /\ s = session
  OBVIOUS
<1>2. replies \in Seq(Replies) /\ replies # <<>> /\ Routed(d, replies, dc, s)
      /\ Carried(d, replies, s, Owing) /\ d \in Fields
  BY <1>1, NowRouted
<1>3. Of(replies) = Of(rest) \cup {Head(replies).m} /\ rest \in Seq(Replies)
  BY <1>1, <1>2, OfTail
<1>4. h = Head(replies) /\ Internal(h.m) /\ c.state = d.state /\ c.sendInfo = d.sendInfo
      /\ c.sent = d.sent /\ c.callbacks \subseteq d.callbacks /\ c.idContext = d.idContext
      /\ c.queue = d.queue
  BY <1>1 DEF Freed, SameWindow
<1>5. Head(replies).m \notin Expected(c)
  BY <1>4, ExpectedKinds DEF Internal
<1>6. Routed(c, Tail(replies), dc, s)
  BY <1>2, <1>4, <1>5, TakenRouted
<1>7. \A r \in Owing : Unconnected(r) # Head(replies).m
  BY <1>4 DEF Internal, Unconnected
<1>8. Carried(c, Tail(replies), s, Owing)
  BY <1>2, <1>4, <1>7, TakenCarried
<1>9. Numbered(c.callbacks, c.context, c.serial, Of(rest) \cup Of(c.sent))
  <2>1. Numbered(cip.callbacks, cip.context, cip.serial, Flight)
        /\ Flight = Of(replies) \cup Of(d.sent)
    BY <1>1, NowRouted
  <2>2. c.context = cip.context /\ c.serial = cip.serial /\ c.callbacks \subseteq cip.callbacks
    BY DEF Freed
  <2> QED
    BY <1>3, <1>4, <2>1, <2>2 DEF Numbered
<1>10. Asked(cip.callbacks, h.m) <=> cb.purpose = "open"
  BY DEF Freed, Asked, Filed
<1> QED
  BY <1>1, <1>3, <1>4, <1>6, <1>8, <1>9, <1>10, NowRouted

LEMMA NoneAsked ==
  ASSUME TypeOK, CipInv, WindowInv, RouteInv, OnRoute, toClient # <<>>,
         NEW h, NEW c, NEW cb, Freed(c, h, cb), ~Waits(c, "open")
  PROVE  \A o \in Of(Tail(toClient)) \cup Of(c.sent) : ~Asked(c.callbacks, o)
<1> SUFFICES ASSUME NEW o \in Of(Tail(toClient)) \cup Of(c.sent), Asked(c.callbacks, o)
             PROVE  FALSE
  OBVIOUS
<1>1. PICK b \in c.callbacks : b.id = o.id
  BY DEF Asked, Filed
<1>2. o \in Flight /\ Internal(o) /\ o.kind = "open" /\ b \in cip.callbacks
  BY <1>1, FreedRouted DEF Freed, Asked, Internal
<1>3. b.purpose = "open"
  BY <1>1, <1>2, NowRouted DEF Matched
<1> QED
  BY <1>1, <1>3 DEF Waits

(* What the reply to a ForwardOpen finds: no ForwardClose after a duplicate  *)
(* is waited for, one other ForwardOpen at most, and no message of a         *)
(* connection that the layer is about to forget.                             *)
LEMMA OpenTaken ==
  ASSUME TypeOK, CipInv, WindowInv, RouteInv, OnRoute, toClient # <<>>,
         NEW h, NEW c, NEW cb, Freed(c, h, cb), cb.purpose = "open"
  PROVE  /\ cip.state \in {1, 2} /\ ~Waits(cip, "reclose")
         /\ \A a, b \in c.callbacks : a = b
         /\ \A b \in c.callbacks : b.purpose = "open"
         /\ cip.state = 2 => c.callbacks = {}
         /\ c.serial = h.m.serial => c.callbacks = {}
         /\ cip.state # 2 => \A q \in SequenceNumbers : c.idContext[q] = None
         /\ h.m.serial # cip.sendInfo /\ Unclosed(cip.sent, h.m.serial)
         /\ h.status = "ok" => h.m.serial \in devConns
         /\ \A m \in Flight : m.kind = "connected" => m.serial # h.m.serial
<1>1. cb \in cip.callbacks /\ c.callbacks = cip.callbacks \ {cb} /\ cb.id = h.m.id
      /\ h = Head(toClient) /\ Internal(h.m) /\ h.m.kind = "open" /\ c.serial = cip.serial
      /\ c.idContext = cip.idContext
  BY DEF Freed, SameWindow
<1>2. toClient \in Seq(Replies) /\ cip.sent \in Seq(Parcels)
      /\ InLine(cip.sent, toClient) /\ Backed(cip, toClient, session) /\ Paired(cip)
      /\ Routed(cip, toClient, devConns, session)
  BY NowRouted, FieldTypes
<1>3. Of(toClient) = Of(Tail(toClient)) \cup {h.m}
      /\ 1 \in DOMAIN toClient /\ toClient[1] = h
  BY <1>1, <1>2, OfTail
<1>4. Asked(cip.callbacks, h.m) /\ h.m \in Flight /\ h.m \in Of(toClient)
  BY <1>3, FreedRouted
<1>5. h.m.id \in Nat /\ h.m.serial \in Nat
  BY <1>1, <1>4, NowRouted
<1>6. ASSUME NEW b \in cip.callbacks, b # cb
      PROVE  /\ h.m.id < b.id
             /\ b.purpose = "open" => h.m.serial < cip.serial
  <2>1. PICK m \in OwedTo(cip, toClient, session) : Internal(m) /\ m.id = b.id
    BY <1>2, <1>6 DEF Backed
  <2>2. m \in Flight
    BY <2>1 DEF OwedTo, Flight, Of
  <2>3. b.id # h.m.id
    BY <1>1, <1>6, NowRouted DEF Numbered
  <2>4. m \in Of(Tail(toClient)) \cup Of(cip.sent)
    BY <1>3, <2>1, <2>2, <2>3 DEF Flight
  <2>5. Before(h.m, m)
    BY <1>1, <1>2, <2>4, HeadIsFirst
  <2>6. b.purpose = "open" => m.kind = "open"
    BY <1>6, <2>1, <2>2, NowRouted DEF Matched
  <2>7. m.serial <= cip.serial /\ m.serial \in Nat /\ cip.serial \in Nat
    BY <2>1, <2>2, NowRouted, FieldTypes DEF Numbered
  <2> QED
    BY <1>1, <1>5, <2>1, <2>5, <2>6, <2>7 DEF Before
<1>7. ~Waits(cip, "reclose")
  <2> SUFFICES ASSUME NEW b \in cip.callbacks, b.purpose = "reclose" PROVE FALSE
    BY DEF Waits
  <2>1. b # cb
    OBVIOUS
  <2>2. b.id < cb.id
    BY <1>1, <1>2 DEF Paired
  <2>3. cb.id < b.id
    BY <1>1, <1>6, <2>1
  <2>4. b.id \in Nat /\ cb.id \in Nat
    BY <1>1, NowRouted DEF Fields
  <2> QED
    BY <2>2, <2>3, <2>4
<1>8. \A b \in c.callbacks : b \in cip.callbacks /\ b # cb /\ b.purpose = "open"
  <2> SUFFICES ASSUME NEW b \in c.callbacks
               PROVE  b \in cip.callbacks /\ b # cb /\ b.purpose = "open"
    OBVIOUS
  <2>1. b \in cip.callbacks /\ b # cb
    BY <1>1
  <2>2. b.purpose \in {"open", "close", "reclose"}
    BY <2>1, NowRouted DEF Fields
  <2> QED
    BY <1>7, <2>1, <2>2, NowRouted DEF Waits
<1>9. \A a, b \in c.callbacks : a = b
  BY <1>1, <1>2, <1>8 DEF Paired
<1>10. cip.state = 2 => c.callbacks = {}
  BY <1>1, <1>2, <1>8 DEF Paired
<1>11. c.serial = h.m.serial => c.callbacks = {}
  BY <1>1, <1>5, <1>6, <1>8
<1>12. cip.state \in {1, 2}
  <2>1. cip.state \in {-1, 0, 1, 2} /\ cip.state # -1
    BY NowRouted DEF Fields, Staged, OnRoute
  <2>2. cip.state # 0
    BY <1>1, <1>2 DEF Paired, Waits
  <2> QED
    BY <2>1, <2>2
<1>13. ASSUME cip.state # 2, NEW q \in SequenceNumbers PROVE c.idContext[q] = None
  <2>1. Expected(cip) \subseteq ToldBefore(toClient, 1)
    BY <1>2, <1>3, <1>4, <1>13 DEF Routed, Ahead, AheadOfTold
  <2>2. ToldBefore(toClient, 1) = {}
    BY <1>2 DEF ToldBefore
  <2> QED
    BY <1>1, <2>1, <2>2, ExpectedParts
<1>14. h.m.serial # cip.sendInfo /\ \A m \in Flight : m.kind = "connected" => m.serial # h.m.serial
  BY <1>4, NowRouted DEF Unspoken, Asked
<1>15. Unclosed(cip.sent, h.m.serial) /\ (h.status = "ok" => h.m.serial \in devConns)
  BY <1>2, <1>3, <1>4 DEF Routed, Bound, Untouched
<1> QED
  BY <1>7, <1>8, <1>9, <1>10, <1>11, <1>12, <1>13, <1>14, <1>15

RoutedNext ==
  /\ Routed(cip', toClient', devConns', session')
  /\ Carried(cip', toClient', session', Pending' \ stranded')

LEMMA RejectedRouted ==
  ASSUME TypeOK, NEW o \in [Requests -> {"idle", "pending", "answered", "rejected"}],
         outcome' = RejectAll(o)
  PROVE  Pending' = {}
BY DEF Pending, RejectAll

LEMMA BlankRouted ==
  ASSUME Blank(cip'), Pending' \subseteq stranded'
  PROVE  RoutedNext
<1>1. PICK d : d = cip'
  OBVIOUS
<1>2. \A replies, dc, s : Routed(d, replies, dc, s)
  BY <1>1, NothingRouted DEF Blank
<1>3. Pending' \ stranded' = {}
  OBVIOUS
<1> QED
  BY <1>1, <1>2, <1>3 DEF RoutedNext, Carried

LEMMA EndedRouted ==
  ASSUME TypeOK, CipInv, NEW c \in Fields, c.serial = cip.serial, c.sent = cip.sent,
         Resets(c), Pending' \subseteq stranded'
  PROVE  RoutedNext
<1>1. cip'.sendInfo = None /\ cip'.callbacks = {}
      /\ cip'.idContext = [s \in SequenceNumbers |-> None]
  BY EndedParts
<1> QED
  BY <1>1, BlankRouted DEF Blank

LEMMA ContinueRouted ==
  ASSUME NEW d, Continue(d), UNCHANGED <<devConns, stranded>>,
         Routed(d, Tail(toClient), devConns, session),
         Carried(d, Tail(toClient), session, Owing)
  PROVE  RoutedNext
<1>1. cip' = d /\ toClient' = Tail(toClient) /\ session' = session /\ devConns' = devConns
      /\ Pending' \ stranded' = Owing
  BY DEF Continue, Pending, Owing
<1> QED
  BY <1>1 DEF RoutedNext

LEMMA ReconnectRouted ==
  ASSUME TypeOK, CipInv, WindowInv, RouteInv, OnRoute, toClient # <<>>,
         NEW h, NEW c, NEW cb, Freed(c, h, cb),
         NEW e \in Fields, e.state = 0, e.sent = c.sent, e.callbacks = c.callbacks,
         SameWindow(c, e), e.sendInfo = c.sendInfo, e.queue = c.queue,
         e.context = c.context, e.serial = c.serial,
         Continue(Connect(e)), cip'.serial <= MaxSerial, UNCHANGED <<devConns, stranded>>,
         ~Waits(c, "reclose"),
         \A a, b \in c.callbacks : a.purpose = "open" /\ b.purpose = "open" => a = b,
         c.state # 2 \/ ~Waits(c, "open")
  PROVE  RoutedNext
<1> DEFINE d == Connect(e)
           t == Tail(toClient)
<1>1. cip' = d /\ session \in 1 .. MaxSessions /\ Current = session
  BY NowRouted DEF Continue
<1>2. d \in Fields /\ Connects(e, d)
  BY <1>1, ConnectParts
<1> HIDE DEF d
<1>3. Routed(c, t, devConns, session) /\ Carried(c, t, session, Owing)
      /\ t \in Seq(Replies) /\ Numbered(c.callbacks, c.context, c.serial, Of(t) \cup Of(c.sent))
  BY FreedRouted
<1>4. Expected(e) = Expected(c)
  BY DEF Expected, OnConnection, SameWindow
<1>5. Bound(e, t, devConns, session)
  BY <1>3, <1>4 DEF Routed, Bound, Filled, OwedTo, Live, Untouched
<1>6. Ahead(e, t, session)
  <2>1. CASE c.state # 2
    BY <1>3, <1>4, <2>1 DEF Routed, Ahead
  <2>2. CASE ~Waits(c, "open")
    <3>1. \A o \in Of(t) \cup Of(e.sent) : ~Asked(e.callbacks, o)
      BY <2>2, NoneAsked
    <3>2. /\ \A j \in DOMAIN t : t[j].m \in Of(t)
          /\ \A j \in DOMAIN e.sent : e.sent[j].m \in Of(e.sent)
      BY DEF Of
    <3> QED
      BY <3>1, <3>2 DEF Ahead, AheadOfTold, AheadOfSent
  <2> QED
    BY <2>1, <2>2
<1>7. ~Waits(e, "reclose") /\ Numbered(e.callbacks, e.context, e.serial, Of(t) \cup Of(e.sent))
      /\ \A a, b \in e.callbacks : a.purpose = "open" /\ b.purpose = "open" => a = b
  BY <1>3 DEF Waits
<1>8. \A a, b \in e.callbacks : a.purpose = "reclose" /\ b.purpose = "reclose" => a = b
  BY <1>7 DEF Waits
<1>9. PICK replies, dc : replies = t /\ dc = devConns
  OBVIOUS
<1>10. replies \in Seq(Replies) /\ Bound(e, replies, dc, session) /\ Ahead(e, replies, session)
       /\ Numbered(e.callbacks, e.context, e.serial, Of(replies) \cup Of(e.sent))
  BY <1>3, <1>5, <1>6, <1>7, <1>9
<1>11. Routed(d, replies, dc, session)
  BY <1>1, <1>2, <1>7, <1>8, <1>10, ConnectsRouted
<1>12. Carried(d, replies, session, Owing)
  <2>1. OwedTo(c, replies, session) \subseteq OwedTo(d, replies, session)
    <3>1. OwedTo(e, replies, session) \subseteq OwedTo(d, replies, session)
      BY <1>1, <1>2, OwedPosted DEF Connects, AsksToOpen
    <3> QED
      BY <3>1 DEF OwedTo
  <2>2. d.idContext = c.idContext /\ d.queue = c.queue
    BY <1>2 DEF Connects, SameWindow, SameQueue
  <2>3. Waiting(d) = Waiting(c)
    BY <2>2 DEF Waiting
  <2>4. Owing \in SUBSET Requests /\ Carried(c, replies, session, Owing)
    BY <1>3, <1>9, NowRouted
  <2> QED
    BY <2>1, <2>2, <2>3, <2>4, OwedGrows
<1> QED
  BY <1>9, <1>11, <1>12, ContinueRouted DEF d

LEMMA OpenReplyRouted ==
  ASSUME TypeOK, CipInv, WindowInv, RouteInv, OnRoute, ~cip'.misnamed, toClient # <<>>,
         NEW h, NEW c, NEW cb, Freed(c, h, cb), cb.purpose = "open",
         OpenReply(c, h), cip'.serial <= MaxSerial, UNCHANGED <<devConns, stranded>>
  PROVE  RoutedNext
<1> DEFINE t == Tail(toClient)
<1>1. c \in Fields /\ c.state = cip.state /\ c.sendInfo = cip.sendInfo /\ c.sent = cip.sent
      /\ c.serial = cip.serial /\ c.queue = cip.queue /\ SameWindow(cip, c)
      /\ h.m.serial \in Serials /\ session \in 1 .. MaxSessions /\ Current = session
  BY NowRouted DEF Freed
<1>2. Routed(c, t, devConns, session) /\ Carried(c, t, session, Owing) /\ t \in Seq(Replies)
      /\ Numbered(c.callbacks, c.context, c.serial, Of(t) \cup Of(c.sent))
      /\ Of(t) \cup Of(c.sent) \subseteq Flight
  BY FreedRouted
<1>3. /\ cip.state \in {1, 2}
      /\ \A a, b \in c.callbacks : a = b
      /\ \A b \in c.callbacks : b.purpose = "open"
      /\ cip.state = 2 => c.callbacks = {}
      /\ c.serial = h.m.serial => c.callbacks = {}
      /\ cip.state # 2 => \A q \in SequenceNumbers : c.idContext[q] = None
      /\ h.m.serial # cip.sendInfo /\ Unclosed(cip.sent, h.m.serial)
      /\ h.status = "ok" => h.m.serial \in devConns
      /\ \A m \in Flight : m.kind = "connected" => m.serial # h.m.serial
  BY OpenTaken
<1>4. ~Waits(c, "reclose")
  BY <1>3 DEF Waits
<1>5. CASE h.status = "ok" /\ c.state = 1
  <2> DEFINE e == [c EXCEPT !.sendInfo = h.m.serial, !.state = 2]
  <2>1. e \in Fields /\ e.sendInfo = h.m.serial /\ e.state = 2 /\ e.callbacks = c.callbacks
        /\ e.sent = c.sent /\ e.idContext = c.idContext /\ e.queue = c.queue
        /\ e.serial = c.serial /\ e.context = c.context
    BY <1>1 DEF Fields
  <2>2. Continue(SendNext(e))
    BY <1>5 DEF OpenReply
  <2> HIDE DEF e
  <2>3. e.sendInfo # None
    BY <1>1, <2>1, Constants
  <2>4. Expected(e) = {}
    BY <1>1, <1>3, <1>5, <2>1 DEF Expected
  <2>5. Filled(e, t, session) /\ Live(e, devConns)
    BY <1>1, <1>3, <1>5, <2>1, <2>4 DEF Filled, Live
  <2>6. Untouched(e, t, devConns)
    BY <1>2, <2>1 DEF Routed, Bound, Untouched
  <2>7. Paired(e)
    <3>1. e.callbacks = c.callbacks
      BY <2>1
    <3>2. \A a, b \in e.callbacks : a = b
      BY <1>3, <3>1
    <3>3. \A b \in e.callbacks : b.purpose # "reclose"
      BY <1>3, <3>1
    <3>4. e.state = 2
      BY <2>1
    <3> QED
      BY <3>2, <3>3, <3>4 DEF Paired, Waits
  <2>8. Unused(e, Of(t) \cup Of(e.sent))
    BY <1>2, <1>3, <2>1 DEF Unused, OnLine
  <2>9. Carried(e, t, session, Owing)
    BY <1>2, <2>1 DEF Carried, Waiting, OwedTo
  <2>10. cip' = SendNext(e)
    BY <2>2 DEF Continue
  <2>11. PICK replies, dc, rs : replies = t /\ dc = devConns /\ rs = Owing
    OBVIOUS
  <2>12. Routed(e, replies, dc, session)
    BY <2>1, <2>5, <2>6, <2>7, <2>11 DEF Routed, Bound
  <2>13. /\ replies \in Seq(Replies) /\ rs \in SUBSET Requests
         /\ Numbered(e.callbacks, e.context, e.serial, Of(replies) \cup Of(e.sent))
         /\ Unused(e, Of(replies) \cup Of(e.sent)) /\ Carried(e, replies, session, rs)
    BY <1>2, <2>1, <2>8, <2>9, <2>11, NowRouted
  <2>14. Routed(SendNext(e), replies, dc, session) /\ Carried(SendNext(e), replies, session, rs)
    BY <1>1, <2>1, <2>3, <2>10, <2>12, <2>13, SendNextRouted
  <2> QED
    BY <2>2, <2>11, <2>14, ContinueRouted
<1>6. CASE h.status = "ok" /\ c.state # 1
  <2>1. Continue(c)
    BY <1>6 DEF OpenReply
  <2> QED
    BY <1>2, <2>1, ContinueRouted
<1>7. CASE h.status = "unsupported"
  <2> DEFINE e == [c EXCEPT !.state = 0, !.large = FALSE]
  <2>1. e \in Fields /\ e.state = 0 /\ e.sent = c.sent /\ e.callbacks = c.callbacks
        /\ SameWindow(c, e) /\ e.sendInfo = c.sendInfo /\ e.queue = c.queue
        /\ e.context = c.context /\ e.serial = c.serial
    BY <1>1 DEF Fields, SameWindow
  <2>2. Continue(Connect(e))
    BY <1>7 DEF OpenReply
  <2> HIDE DEF e
  <2>3. c.state # 2 \/ ~Waits(c, "open")
    BY <1>1, <1>3 DEF Waits
  <2> QED
    BY <1>3, <1>4, <2>1, <2>2, <2>3, ReconnectRouted
<1>8. CASE h.status = "duplicate" /\ ~c.again
  <2> DEFINE e == [c EXCEPT !.state = 0, !.again = TRUE,
                            !.misnamed = @ \/ c.serial # h.m.serial]
             d == SendClose(e, "reclose")
             m == CloseMessage(e)
  <2>1. e \in Fields /\ e.state = 0 /\ e.sent = c.sent /\ e.callbacks = c.callbacks
        /\ SameWindow(c, e) /\ e.sendInfo = c.sendInfo /\ e.queue = c.queue
        /\ e.context = c.context /\ e.serial = c.serial
        /\ (c.serial # h.m.serial => e.misnamed)
    BY <1>1 DEF Fields, SameWindow
  <2>2. Continue(d)
    BY <1>8 DEF OpenReply
  <2> HIDE DEF e
  <2>3. e.misnamed => d.misnamed
    BY <2>1, FieldsWhole, SendsRemember DEF Remembers
  <2>4. d.state = 0 /\ d.sendInfo = e.sendInfo /\ SameWindow(e, d) /\ SameQueue(e, d)
        /\ AsksToClose(e, d, "reclose")
    BY <1>1, <2>1, SendCloseParts
  <2>5. cip' = d
    BY <2>2 DEF Continue
  <2> HIDE DEF d
  <2>6. c.serial = h.m.serial /\ c.callbacks = {}
    BY <1>3, <2>1, <2>3, <2>5
  <2>7. d.callbacks = {Callback(e, "reclose")} /\ d.sent = Posted(e, m) /\ m \in Messages
        /\ m.kind = "close" /\ m.serial = h.m.serial /\ m.id = c.context + 1
    BY <2>1, <2>4, <2>6 DEF AsksToClose, CloseMessage
  <2>8. Callback(e, "reclose").id = c.context + 1 /\ Callback(e, "reclose").purpose = "reclose"
    BY <2>1 DEF Callback
  <2> HIDE DEF m
  <2>9. Expected(d) = Expected(c) /\ d.sendInfo = c.sendInfo
    BY <2>1, <2>4 DEF Expected, OnConnection, SameWindow
  <2>10. /\ Of(d.sent) = Of(c.sent) \cup {m}
         /\ OwedTo(d, t, session) = OwedTo(c, t, session) \cup {m}
         /\ \A serial : Unclosed(c.sent, serial) /\ m.serial # serial => Unclosed(d.sent, serial)
    <3>1. e \in Fields /\ session \in 1 .. MaxSessions /\ m \in Messages
          /\ d.sent = Posted(e, m) /\ m.kind = "close" /\ Current = session
      BY <1>1, <2>1, <2>7
    <3>2. /\ Of(d.sent) = Of(e.sent) \cup {m}
          /\ \A replies : OwedTo(d, replies, session) = OwedTo(e, replies, session) \cup {m}
          /\ \A serial : Unclosed(e.sent, serial) /\ (m.kind = "close" => m.serial # serial)
                           => Unclosed(d.sent, serial)
      BY ONLY <3>1, PostedParts
    <3> QED
      BY <2>1, <2>7, <3>2 DEF OwedTo
  <2>11. \A o \in Of(t) \cup Of(d.sent) : ~Asked(d.callbacks, o)
    <3> SUFFICES ASSUME NEW o \in Of(t) \cup Of(c.sent), o.kind = "open",
                        Filed(d.callbacks, o)
                 PROVE  FALSE
      BY <2>7, <2>10 DEF Asked
    <3>1. o \in Flight /\ Internal(o)
      BY <1>2 DEF Internal
    <3>2. o.id \in Nat /\ o.id <= c.context /\ c.context \in Nat
      BY <1>1, <1>2, <3>1, NowRouted, FieldTypes DEF Numbered
    <3> QED
      BY <2>7, <2>8, <3>2 DEF Filed
  <2>12. Filled(d, t, session)
    BY <1>2, <2>9, <2>10 DEF Routed, Bound, Filled
  <2>13. Live(d, devConns)
    BY <1>1, <1>2, <1>3, <2>7, <2>9, <2>10 DEF Routed, Bound, Live
  <2>14. Untouched(d, t, devConns)
    <3>1. \A i \in DOMAIN t : t[i].m \in Of(t)
      BY DEF Of
    <3> QED
      BY <2>11, <3>1 DEF Untouched
  <2>15. Ahead(d, t, session)
    <3>1. /\ \A j \in DOMAIN t : t[j].m \in Of(t)
          /\ \A j \in DOMAIN d.sent : d.sent[j].m \in Of(d.sent)
      BY DEF Of
    <3> QED
      BY <2>11, <3>1 DEF Ahead, AheadOfTold, AheadOfSent
  <2>16. Paired(d)
    BY <2>4, <2>7, <2>8 DEF Paired, Waits
  <2>17. Routed(d, t, devConns, session)
    BY <2>12, <2>13, <2>14, <2>15, <2>16 DEF Routed, Bound
  <2>18. Carried(d, t, session, Owing)
    <3>1. d.idContext = c.idContext /\ d.queue = c.queue
      BY <2>1, <2>4 DEF SameWindow, SameQueue
    <3>2. Waiting(d) = Waiting(c)
      BY <3>1 DEF Waiting
    <3> QED
      BY <1>2, <2>10, <3>1, <3>2 DEF Carried
  <2> QED
    BY <2>2, <2>17, <2>18, ContinueRouted DEF d
<1>9. CASE DestroyLayer(c)
  <2>1. Resets(c) /\ outcome' = RejectAll(outcome)
    BY <1>9, DestroyLayerResets
  <2>2. Pending' = {}
    BY <2>1, RejectedRouted DEF TypeOK
  <2> QED
    BY <1>1, <2>1, <2>2, EndedRouted
<1> QED
  BY <1>5, <1>6, <1>7, <1>8, <1>9 DEF OpenReply

LEMMA RecloseReplyRouted ==
  ASSUME TypeOK, CipInv, WindowInv, RouteInv, OnRoute, toClient # <<>>,
         NEW h, NEW c, NEW cb, Freed(c, h, cb), cb.purpose = "reclose",
         RecloseReply(c, h), cip'.serial <= MaxSerial, UNCHANGED <<devConns, stranded>>
  PROVE  RoutedNext
<1>1. c \in Fields /\ c.state = cip.state /\ c.serial = cip.serial /\ c.sent = cip.sent
      /\ cb \in cip.callbacks /\ c.callbacks = cip.callbacks \ {cb}
  BY DEF Freed
<1>2. Paired(cip)
  BY NowRouted
<1>3. c.state # 2 /\ ~Waits(c, "reclose")
      /\ \A a, b \in c.callbacks : a.purpose = "open" /\ b.purpose = "open" => a = b
  BY <1>1, <1>2 DEF Paired, Waits
<1>4. CASE h.status = "ok"
  <2> DEFINE e == [c EXCEPT !.state = 0, !.again = FALSE]
  <2>1. e \in Fields /\ e.state = 0 /\ e.sent = c.sent /\ e.callbacks = c.callbacks
        /\ SameWindow(c, e) /\ e.sendInfo = c.sendInfo /\ e.queue = c.queue
        /\ e.context = c.context /\ e.serial = c.serial
    BY <1>1 DEF Fields, SameWindow
  <2>2. Continue(Connect(e))
    BY <1>4 DEF RecloseReply
  <2> HIDE DEF e
  <2> QED
    BY <1>3, <2>1, <2>2, ReconnectRouted
<1>5. CASE DestroyLayer(c)
  <2>1. Resets(c) /\ outcome' = RejectAll(outcome)
    BY <1>5, DestroyLayerResets
  <2>2. Pending' = {}
    BY <2>1, RejectedRouted DEF TypeOK
  <2> QED
    BY <1>1, <2>1, <2>2, EndedRouted
<1> QED
  BY <1>4, <1>5 DEF RecloseReply

LEMMA StillStrayed ==
  ASSUME TypeOK, CipInv, [Next]_vars
  PROVE  Strayed => Strayed'
<1>1. cip.misnamed => cip'.misnamed
  BY StepRemembers
<1>2. lost => lost'
  <2>1. ASSUME NEW r \in Requests, Issue(r) PROVE lost => lost'
    BY <2>1 DEF Issue
  <2>2. CASE Tick \/ Resend \/ Device \/ Expire \/ UNCHANGED vars
    BY <2>2 DEF Tick, Resend, Device, Expire, history, vars
  <2>3. CASE InternalReply \/ UnconnectedReply \/ ConnectedReply
    BY <2>3 DEF InternalReply, UnconnectedReply, ConnectedReply, history
  <2>4. CASE Lose \/ SessionFails \/ CloseTimeout
    BY <2>4 DEF Lose, SessionFails, CloseTimeout
  <2>5. CASE CloseLayers \/ Disconnects \/ Destroys \/ BelowClosed
    BY <2>5 DEF CloseLayers, Disconnects, Destroys, BelowClosed, history
  <2> QED
    BY <2>1, <2>2, <2>3, <2>4, <2>5 DEF Next
<1> QED
  BY <1>1, <1>2 DEF Strayed

(* No request becomes pending but one that is issued.                        *)
LEMMA FewerOwed ==
  ASSUME TypeOK, \/ outcome' \in {outcome, RejectAll(outcome)}
                 \/ \E r, q \in Requests : Settle(r, q)
  PROVE  Pending' \subseteq Pending
<1>1. outcome \in [Requests -> {"idle", "pending", "answered", "rejected"}]
  BY DEF TypeOK
<1>2. CASE outcome' \in {outcome, RejectAll(outcome)}
  BY <1>1, <1>2 DEF RejectAll, Pending
<1>3. ASSUME NEW r \in Requests, NEW q \in Requests, Settle(r, q)
      PROVE  Pending' \subseteq Pending
  BY <1>1, <1>3 DEF Settle, Pending
<1> QED
  BY <1>2, <1>3

(* What a reply that leaves or resets the layer does to a close.             *)
LEMMA ReplyEnds ==
  ASSUME TypeOK, CipInv, InternalReply
  PROVE  outcome' \in {outcome, RejectAll(outcome)} /\ (Ends' => Ends)
<1>1. CASE UNCHANGED <<cip, closing, due, session, outcome>>
  BY <1>1 DEF Ends
<1>2. ASSUME NEW c, DestroyLayer(c)
      PROVE  outcome' \in {outcome, RejectAll(outcome)} /\ (Ends' => Ends)
  BY <1>2 DEF DestroyLayer, Ends
<1>3. ASSUME NEW c, Continue(c)
      PROVE  outcome' \in {outcome, RejectAll(outcome)} /\ (Ends' => Ends)
  BY <1>3 DEF Continue, Ends
<1>4. ASSUME NEW h, NEW c, NEW cb, Freed(c, h, cb), cb.purpose = "close", CloseReply(c, h)
      PROVE  outcome' \in {outcome, RejectAll(outcome)} /\ (Ends' => Ends)
  <2>1. closing
    BY <1>4 DEF Freed, CipInv, Sound, Staged, Waits
  <2>2. outcome' \in {outcome, RejectAll(outcome)}
    BY <1>4, CallbackFreed, CloseReplyResets
  <2> QED
    BY <2>1, <2>2 DEF Ends
<1>5. ASSUME NEW h, NEW c, OpenReply(c, h)
      PROVE  outcome' \in {outcome, RejectAll(outcome)} /\ (Ends' => Ends)
  BY <1>2, <1>3, <1>5 DEF OpenReply
<1>6. ASSUME NEW h, NEW c, RecloseReply(c, h)
      PROVE  outcome' \in {outcome, RejectAll(outcome)} /\ (Ends' => Ends)
  BY <1>2, <1>3, <1>6 DEF RecloseReply
<1> QED
  BY <1>1, <1>4, <1>5, <1>6, CallbackFreed

(* While the layer closes, what is owed was stranded.                        *)
LEMMA ClosingStrands ==
  ASSUME TypeOK, CipInv, RouteInv, [Next]_vars
  PROVE  Ends \/ Ends' => Pending' \subseteq stranded'
<1>1. ASSUME NEW r \in Requests, Issue(r)
      PROVE  Ends \/ Ends' => Pending' \subseteq stranded'
  <2>1. outcome \in [Requests -> {"idle", "pending", "answered", "rejected"}]
    BY DEF TypeOK
  <2>2. outcome' = [outcome EXCEPT ![r] = "pending"] /\ Ends' = Ends
        /\ (Ends => stranded' = stranded \cup {r})
    BY <1>1 DEF Issue, Ends
  <2>3. Pending' \subseteq Pending \cup {r}
    BY <2>1, <2>2 DEF Pending
  <2> QED
    BY <2>2, <2>3 DEF RouteInv
<1>2. ASSUME Pending' \subseteq Pending, stranded' = stranded, Ends' => Ends
      PROVE  Ends \/ Ends' => Pending' \subseteq stranded'
  BY <1>2 DEF RouteInv
<1>3. CASE Tick \/ Resend \/ Device \/ Expire \/ Lose \/ UNCHANGED vars
  <2>1. outcome' = outcome /\ stranded' = stranded /\ Ends' = Ends
    BY <1>3 DEF Tick, Resend, Device, Expire, Lose, history, vars, Ends
  <2>2. Pending' \subseteq Pending
    BY <2>1, FewerOwed
  <2> QED
    BY <1>2, <2>1, <2>2
<1>4. CASE UnconnectedReply \/ ConnectedReply
  <2>1. stranded' = stranded /\ Ends' = Ends
    BY <1>4 DEF UnconnectedReply, ConnectedReply, history, Ends
  <2>2. outcome' = outcome \/ \E r, q \in Requests : Settle(r, q)
    <3>1. CASE UnconnectedReply
      <4>1. Head(toClient) \in Replies
        BY <3>1, Now, OfTail DEF UnconnectedReply
      <4>2. Head(toClient).m \in Messages /\ Head(toClient).m.kind = "unconnected"
        BY <3>1, <4>1 DEF UnconnectedReply, Replies
      <4> QED
        BY <3>1, <4>2, MessageParts DEF UnconnectedReply
    <3>2. CASE ConnectedReply
      <4>1. Head(toClient) \in Replies
        BY <3>2, Now, OfTail DEF ConnectedReply
      <4>2. Head(toClient).m \in Messages /\ Head(toClient).m.kind = "connected"
        BY <3>2, <4>1 DEF ConnectedReply, Replies
      <4>3. Head(toClient).m.request \in Requests /\ Head(toClient).m.seq \in SequenceNumbers
        BY <4>2, MessageParts
      <4>4. cip.idContext[Head(toClient).m.seq] \in Requests \cup {None}
        BY <4>3, Now DEF Fields
      <4> QED
        BY <3>2, <4>3, <4>4 DEF ConnectedReply
    <3> QED
      BY <1>4, <3>1, <3>2
  <2>3. Pending' \subseteq Pending
    BY <2>2, FewerOwed
  <2> QED
    BY <1>2, <2>1, <2>3
<1>5. CASE InternalReply
  <2>1. stranded' = stranded
    BY <1>5 DEF InternalReply, history
  <2>2. Pending' \subseteq Pending
    BY <1>5, ReplyEnds, FewerOwed
  <2> QED
    BY <1>2, <1>5, <2>1, <2>2, ReplyEnds
<1>6. CASE SessionFails \/ CloseTimeout \/ Destroys
  <2>1. stranded' = stranded /\ (Ends' => Ends)
    BY <1>6
       DEF SessionFails, CloseTimeout, Destroys, FinishClose, SessionOver, Ends, history
  <2>2. Pending' \subseteq Pending
    BY <1>6, EndsReset, FewerOwed
  <2> QED
    BY <1>2, <2>1, <2>2
<1>7. CASE CloseLayers
  <2>1. Pending' = {}
    BY <1>7, RejectedRouted DEF CloseLayers, TypeOK
  <2> QED
    BY <2>1
<1>8. CASE Disconnects \/ BelowClosed
  <2>1. stranded' = stranded /\ Ends /\ outcome' = outcome
    BY <1>8 DEF Disconnects, BelowClosed, Ends, history
  <2>2. Pending' \subseteq Pending
    BY <2>1, FewerOwed
  <2> QED
    BY <1>2, <2>1, <2>2
<1> QED
  BY <1>1, <1>3, <1>4, <1>5, <1>6, <1>7, <1>8 DEF Next, RouteInv

(* Its reply settles a request and leaves the others their routes.           *)
LEMMA RepliesRouted ==
  ASSUME TypeOK, CipInv, WindowInv, RouteInv, OnRoute, UnconnectedReply \/ ConnectedReply
  PROVE  RoutedNext
<1>1. toClient # <<>> /\ toClient' = Tail(toClient) /\ session' = session
      /\ devConns' = devConns /\ stranded' = stranded
  BY DEF UnconnectedReply, ConnectedReply, device, history
<1>2. PICK replies, c, d, dc, s :
        replies = toClient /\ c = cip /\ d = cip' /\ dc = devConns /\ s = session
  OBVIOUS
<1>3. c \in Fields /\ replies \in Seq(Replies) /\ replies # <<>>
      /\ Routed(c, replies, dc, s) /\ Carried(c, replies, s, Owing) /\ Owing \in SUBSET Requests
  BY <1>1, <1>2, NowRouted
<1>4. PICK h : h = Head(replies).m
  OBVIOUS
<1>5. h \in Messages
  <2>1. Head(replies) \in Replies
    BY <1>3, OfTail
  <2> QED
    BY <1>4, <2>1 DEF Replies
<1>6. outcome \in [Requests -> {"idle", "pending", "answered", "rejected"}]
  BY DEF TypeOK
<1>7. ASSUME NEW left \in SUBSET Owing, Pending' \ stranded' = left,
             d.state = c.state, d.sendInfo = c.sendInfo,
             d.sent = c.sent, d.callbacks = c.callbacks, d.queue = c.queue,
             \A q \in SequenceNumbers : d.idContext[q] \in {None, c.idContext[q]},
             h \notin Expected(d),
             \A r \in left : /\ Unconnected(r) # h
                             /\ \A q \in SequenceNumbers : c.idContext[q] = r => d.idContext[q] = r
      PROVE  RoutedNext
  <2>1. Routed(d, Tail(replies), dc, s)
    BY <1>3, <1>4, <1>7, TakenRouted
  <2>2. Carried(d, Tail(replies), s, left)
    BY <1>3, <1>4, <1>7, TakenCarried
  <2> QED
    BY <1>1, <1>2, <1>7, <2>1, <2>2 DEF RoutedNext
<1>8. CASE UnconnectedReply
  <2>1. h.kind = "unconnected" /\ cip' = cip /\ Settle(h.request, h.request)
    BY <1>2, <1>4, <1>8 DEF UnconnectedReply
  <2>2. h.request \in Requests
    BY <1>5, <2>1, MessageParts
  <2>3. Pending' \subseteq Pending /\ h.request \notin Pending'
    BY <1>6, <2>1, <2>2 DEF Settle, Pending
  <2>4. h \notin Expected(d)
    BY <2>1, ExpectedKinds
  <2>5. PICK left : left = Pending' \ stranded'
    OBVIOUS
  <2>6. left \in SUBSET Owing
    BY <1>1, <2>3, <2>5 DEF Owing
  <2>7. \A r \in left : Unconnected(r) # h
    <3> SUFFICES ASSUME NEW r \in left, Unconnected(r) = h PROVE FALSE
      OBVIOUS
    <3>1. h.request = r
      BY DEF Unconnected
    <3> QED
      BY <2>3, <2>5, <3>1
  <2> QED
    BY <1>2, <1>7, <2>1, <2>4, <2>5, <2>6, <2>7
<1>9. ASSUME ConnectedReply, ~(cip.sendInfo = h.serial /\ cip.idContext[h.seq] # None)
      PROVE  RoutedNext
  <2>1. h.kind = "connected" /\ cip' = cip /\ outcome' = outcome
    BY <1>2, <1>4, <1>9 DEF ConnectedReply
  <2>2. h \notin Expected(d)
    BY <1>2, <1>9, <2>1, ExpectedKinds
  <2>3. Pending' \ stranded' = Owing
    BY <1>1, <2>1 DEF Owing, Pending
  <2>4. PICK left : left = Owing
    OBVIOUS
  <2>5. \A r \in left : Unconnected(r) # h
    BY <2>1 DEF Unconnected
  <2> QED
    BY <1>2, <1>7, <2>1, <2>2, <2>3, <2>4, <2>5
<1>10. ASSUME ConnectedReply, cip.sendInfo = h.serial, cip.idContext[h.seq] # None
       PROVE  RoutedNext
  <2>1. h.kind = "connected" /\ cip' = [cip EXCEPT !.idContext[h.seq] = None]
        /\ Settle(cip.idContext[h.seq], h.request)
    BY <1>2, <1>4, <1>10 DEF ConnectedReply
  <2>2. h.seq \in SequenceNumbers /\ h.request \in Requests
    BY <1>5, <2>1, MessageParts
  <2>3. cip.idContext \in [SequenceNumbers -> Requests \cup {None}]
    BY NowRouted DEF Fields
  <2>4. PICK r \in Requests : r = cip.idContext[h.seq]
    BY <1>10, <2>2, <2>3
  <2>5. d.state = c.state /\ d.sendInfo = c.sendInfo
        /\ d.sent = c.sent /\ d.callbacks = c.callbacks /\ d.queue = c.queue
        /\ d.idContext = [c.idContext EXCEPT ![h.seq] = None]
    BY <1>2, <1>3, <2>1 DEF Fields
  <2>6. d.idContext[h.seq] = None
        /\ \A q \in SequenceNumbers : q # h.seq => d.idContext[q] = c.idContext[q]
    BY <1>2, <2>2, <2>3, <2>5
  <2>7. Pending' \subseteq Pending /\ r \notin Pending'
    BY <1>6, <2>1, <2>2, <2>4 DEF Settle, Pending
  <2>8. h \notin Expected(d)
    BY <2>6, ExpectedKinds
  <2>9. PICK left : left = Pending' \ stranded'
    OBVIOUS
  <2>10. left \in SUBSET Owing /\ r \notin left
    BY <1>1, <2>7, <2>9 DEF Owing
  <2>11. \A x \in left : /\ Unconnected(x) # h
                         /\ \A q \in SequenceNumbers : c.idContext[q] = x => d.idContext[q] = x
    BY <1>2, <2>1, <2>4, <2>6, <2>10 DEF Unconnected
  <2> QED
    BY <1>7, <2>5, <2>6, <2>8, <2>9, <2>10, <2>11
<1> QED
  BY <1>8, <1>9, <1>10

LEMMA InternalReplyRouted ==
  ASSUME TypeOK, CipInv, WindowInv, RouteInv, OnRoute, ~cip'.misnamed, InternalReply
  PROVE  RoutedNext
<1>1. toClient # <<>> /\ cip'.serial <= MaxSerial
  BY CallbackFreed
<1>2. UNCHANGED <<devConns, stranded>> /\ Internal(Head(toClient).m)
  BY DEF InternalReply, history, device, Internal
<1>3. ASSUME toClient' = Tail(toClient), UNCHANGED <<cip, closing, outcome>>, session' = session
      PROVE  RoutedNext
  <2>1. PICK replies, c, dc, s :
          replies = toClient /\ c = cip /\ dc = devConns /\ s = session
    OBVIOUS
  <2>2. replies \in Seq(Replies) /\ replies # <<>>
        /\ Routed(c, replies, dc, s) /\ Carried(c, replies, s, Owing)
    BY <1>1, <2>1, NowRouted
  <2>3. Head(replies).m \notin Expected(c)
    BY <1>2, <2>1, ExpectedKinds DEF Internal
  <2>4. Routed(c, Tail(replies), dc, s)
    BY <2>2, <2>3, TakenRouted
  <2>5. \A r \in Owing : Unconnected(r) # Head(replies).m
    BY <1>2, <2>1 DEF Internal, Unconnected
  <2>6. Carried(c, Tail(replies), s, Owing)
    BY <2>2, <2>5, TakenCarried
  <2>7. Pending' \ stranded' = Owing
    BY <1>2, <1>3 DEF Pending, Owing
  <2> QED
    BY <1>2, <1>3, <2>1, <2>4, <2>6, <2>7 DEF RoutedNext
<1>4. ASSUME NEW h, NEW c, NEW cb, Freed(c, h, cb),
             \/ cb.purpose = "open" /\ OpenReply(c, h)
             \/ cb.purpose = "reclose" /\ RecloseReply(c, h)
      PROVE  RoutedNext
  BY <1>1, <1>2, <1>4, OpenReplyRouted, RecloseReplyRouted
<1>5. ASSUME NEW h, NEW c, NEW cb, Freed(c, h, cb), cb.purpose = "close" PROVE FALSE
  BY <1>5, NowRouted DEF Freed, Waits
<1> QED
  BY <1>3, <1>4, <1>5, CallbackFreed

(* A request enters the queue, or a tick is over; then comes the next.       *)
LEMMA TurnRouted ==
  ASSUME TypeOK, CipInv, WindowInv, RouteInv, NoReuse, OnRoute,
         NEW c \in Fields, c.state = cip.state, c.sendInfo = cip.sendInfo, SameBooks(cip, c),
         SameWindow(cip, c), c.sent = cip.sent, c.queue # <<>> => Unsent # {},
         cip' = SendNext(c), cip'.serial <= MaxSerial,
         UNCHANGED <<toClient, devConns, session>>,
         NEW rs \in SUBSET Requests, Pending' \ stranded' \subseteq rs,
         rs \ Waiting(c) \subseteq Owing, Waiting(cip) \subseteq Waiting(c)
  PROVE  RoutedNext
<1>1. PICK b, replies, dc, s : b = cip /\ replies = toClient /\ dc = devConns /\ s = session
  OBVIOUS
<1>2. b \in Fields /\ replies \in Seq(Replies) /\ Routed(b, replies, dc, s)
      /\ Carried(b, replies, s, Owing) /\ s \in 1 .. MaxSessions /\ Current = session
      /\ Numbered(b.callbacks, b.context, b.serial, Of(replies) \cup Of(b.sent))
  BY <1>1, NowRouted
<1>3. c.state = b.state /\ c.sendInfo = b.sendInfo /\ c.sent = b.sent /\ c.serial = b.serial
      /\ c.callbacks = b.callbacks /\ c.idContext = b.idContext /\ c.context = b.context
      /\ c.seq = b.seq
  BY <1>1 DEF SameBooks, SameWindow
<1>4. Expected(c) = Expected(b)
  BY <1>3 DEF Expected, OnConnection
<1>5. Routed(c, replies, dc, s)
  <2>1. Bound(c, replies, dc, s)
    BY <1>2, <1>3, <1>4 DEF Routed, Bound, Filled, OwedTo, Live, Untouched
  <2>2. c.state # 2 => Ahead(c, replies, s)
    BY <1>2, <1>3, <1>4 DEF Routed, Ahead
  <2>3. Paired(c)
    BY <1>2, <1>3 DEF Routed, Paired, Waits
  <2> QED
    BY <2>1, <2>2, <2>3 DEF Routed
<1>6. Carried(c, replies, s, rs)
  <2>1. OwedTo(c, replies, s) = OwedTo(b, replies, s)
    BY <1>3 DEF OwedTo
  <2> QED
    BY <1>1, <1>2, <1>3, <2>1 DEF Carried
<1>7. c.state = 2 => c.sendInfo # None
  BY NowRouted DEF Staged
<1>8. c.queue # <<>> /\ c.state = 2 => Unused(c, Of(replies) \cup Of(c.sent))
  <2>1. Flight = Of(replies) \cup Of(c.sent)
    BY <1>1, NowRouted
  <2> QED
    BY <1>1, <1>3, <2>1 DEF NoReuse, Unused, OnLine
<1>9. Routed(SendNext(c), replies, dc, session) /\ Carried(SendNext(c), replies, session, rs)
  BY <1>1, <1>2, <1>3, <1>5, <1>6, <1>7, <1>8, SendNextRouted
<1> QED
  BY <1>1, <1>9 DEF RoutedNext, Carried

LEMMA IssueRouted ==
  ASSUME TypeOK, CipInv, WindowInv, RouteInv, NoReuse, OnRoute, NEW r \in Requests, Issue(r)
  PROVE  RoutedNext
<1> DEFINE c == [cip EXCEPT !.queue = Append(@, r)]
<1>1. cip \in Fields /\ cip.queue \in Seq(Requests) /\ Append(cip.queue, r) \in Seq(Requests)
  BY Now DEF Fields
<1>2. c \in Fields /\ c.state = cip.state /\ c.sendInfo = cip.sendInfo /\ SameBooks(cip, c)
      /\ c.sent = cip.sent /\ SameWindow(cip, c) /\ c.queue = Append(cip.queue, r)
  BY <1>1 DEF Fields, SameBooks, SameWindow
<1>3. cip' = SendNext(c) /\ cip'.serial <= MaxSerial
      /\ UNCHANGED <<toClient, devConns, session>> /\ stranded' = stranded
      /\ outcome' = [outcome EXCEPT ![r] = "pending"]
  BY DEF Issue, device, OnRoute, Ends
<1>4. Unsent # {}
  BY DEF Issue, Unsent, Idle
<1> HIDE DEF c
<1>5. Waiting(c) = Waiting(cip) \cup {r}
  <2>1. PICK p, q : p = cip.queue /\ q = c.queue
    OBVIOUS
  <2>2. p \in Seq(Requests) /\ q = Append(p, r)
    BY <1>1, <1>2, <2>1
  <2>3. {q[i] : i \in DOMAIN q} = {p[i] : i \in DOMAIN p} \cup {r}
    <3>1. Len(p) \in Nat /\ DOMAIN p = 1 .. Len(p) /\ DOMAIN q = 1 .. Len(p) + 1
          /\ q[Len(p) + 1] = r /\ \A i \in 1 .. Len(p) : q[i] = p[i]
      BY <2>2
    <3>2. Len(p) + 1 \in DOMAIN q
      BY <3>1
    <3>3. ASSUME NEW i \in DOMAIN q, q[i] # r PROVE i \in DOMAIN p /\ q[i] = p[i]
      BY <3>1, <3>3
    <3>4. ASSUME NEW i \in DOMAIN p PROVE i \in DOMAIN q /\ q[i] = p[i]
      BY <3>1
    <3> QED
      BY <3>1, <3>2, <3>3, <3>4
  <2> QED
    BY <2>1, <2>3 DEF Waiting
<1>6. PICK rs : rs = Owing \cup {r}
  OBVIOUS
<1>7. rs \in SUBSET Requests /\ rs \ Waiting(c) \subseteq Owing /\ Waiting(cip) \subseteq Waiting(c)
  BY <1>5, <1>6, NowRouted
<1>8. Pending' \ stranded' \subseteq rs
  <2>1. Pending' \subseteq Pending \cup {r}
    BY <1>3 DEF Pending, TypeOK
  <2> QED
    BY <1>3, <1>6, <2>1 DEF Owing
<1> QED
  BY <1>2, <1>3, <1>4, <1>7, <1>8, TurnRouted

LEMMA TickRouted ==
  ASSUME TypeOK, CipInv, WindowInv, RouteInv, NoReuse, OnRoute, Tick
  PROVE  RoutedNext
<1> DEFINE c == [cip EXCEPT !.ticks = @ - 1]
<1>1. cip \in Fields /\ cip.ticks - 1 \in Nat
  BY Now DEF Fields, Tick
<1>2. c \in Fields /\ c.state = cip.state /\ c.sendInfo = cip.sendInfo /\ SameBooks(cip, c)
      /\ c.sent = cip.sent /\ SameWindow(cip, c) /\ c.queue = cip.queue
  BY <1>1 DEF Fields, SameBooks, SameWindow
<1>3. cip' = SendNext(c) /\ cip'.serial <= MaxSerial
      /\ UNCHANGED <<toClient, devConns, session>> /\ stranded' = stranded /\ outcome' = outcome
  BY DEF Tick, device, history
<1> HIDE DEF c
<1>4. c.queue # <<>> => Unsent # {}
  <2> SUFFICES ASSUME cip.queue # <<>> PROVE Unsent # {}
    BY <1>2
  <2>1. 1 \in DOMAIN cip.queue
    BY <1>1 DEF Fields
  <2> QED
    BY <2>1 DEF Unsent, Waiting
<1>5. Waiting(c) = Waiting(cip)
  BY <1>2 DEF Waiting
<1>6. Pending' \ stranded' = Owing
  BY <1>3 DEF Pending, Owing
<1>7. PICK rs : rs = Owing
  OBVIOUS
<1>8. rs \in SUBSET Requests
  BY <1>7, NowRouted
<1> QED
  BY <1>2, <1>3, <1>4, <1>5, <1>6, <1>7, <1>8, TurnRouted

LEMMA ResendRouted ==
  ASSUME TypeOK, CipInv, WindowInv, RouteInv, OnRoute, Resend
  PROVE  RoutedNext
<1>1. PICK m \in Messages : cip' = Hand(cip, m) /\ m.kind \in {"stale", "connected"}
  BY ResentMessage
<1>2. UNCHANGED <<toClient, devConns, session>> /\ stranded' = stranded /\ outcome' = outcome
  BY DEF Resend, device, history
<1>3. PICK c, d, replies, dc :
        c = cip /\ d = cip' /\ replies = toClient /\ dc = devConns
  OBVIOUS
<1>4. c \in Fields /\ session \in 1 .. MaxSessions /\ Routed(c, replies, dc, session)
      /\ Carried(c, replies, session, Owing) /\ Owing \in SUBSET Requests
      /\ Current = session
  BY <1>3, NowRouted
<1>5. d.sent = Posted(c, m) /\ d.state = c.state /\ d.sendInfo = c.sendInfo
      /\ d.callbacks = c.callbacks /\ d.idContext = c.idContext /\ d.queue = c.queue
  <2>1. d = [c EXCEPT !.sent = Posted(c, m)]
    BY <1>1, <1>3, <1>4, HandIs
  <2> QED
    BY <1>4, <2>1 DEF Fields
<1>6. ~Internal(m)
  BY <1>1 DEF Internal
<1>7. Routed(d, replies, dc, session)
  BY <1>4, <1>5, <1>6, PostedRouted
<1>8. Carried(d, replies, session, Owing)
  <2>1. OwedTo(d, replies, session) = OwedTo(c, replies, session) \cup {m}
    BY <1>4, <1>5, OwedPosted
  <2>2. Waiting(d) = Waiting(c)
    BY <1>5 DEF Waiting
  <2> QED
    BY <1>4, <1>5, <2>1, <2>2 DEF Carried
<1>9. Pending' \ stranded' = Owing
  BY <1>2 DEF Pending, Owing
<1> QED
  BY <1>2, <1>3, <1>7, <1>8, <1>9 DEF RoutedNext

(* A close that has ended leaves the layer blank until the layers below have  *)
(* closed, unless a request comes.                                           *)
LEMMA StepBlank ==
  ASSUME TypeOK, CipInv, RouteInv, [Next]_vars, ~Strayed', due' = "below"
  PROVE  Blank(cip')
<1>1. ~Strayed /\ ~lost /\ cip \in Fields
  BY StillStrayed, Now DEF Strayed
<1>2. ASSUME NEW c \in Fields, c.serial = cip.serial, c.sent = cip.sent, Resets(c)
      PROVE  Blank(cip')
  BY <1>2, EndedParts DEF Blank
<1>3. CASE due # "below"
  <2>1. CASE InternalReply
    <3>1. PICK h, c, cb : /\ Freed(c, h, cb)
                          /\ OpenReply(c, h) \/ RecloseReply(c, h) \/ CloseReply(c, h)
      BY <1>3, <2>1, CallbackFreed
    <3>2. toClient # <<>> /\ c \in Fields /\ c.serial = cip.serial /\ c.sent = cip.sent
      BY <2>1, <3>1, CallbackFreed DEF Freed
    <3>3. ~Continue(cip') /\ \A d : Continue(d) => d = cip'
      BY <1>3 DEF Continue
    <3>4. CASE OpenReply(c, h)
      BY <1>2, <3>2, <3>3, <3>4, DestroyLayerResets DEF OpenReply
    <3>5. CASE RecloseReply(c, h)
      BY <1>2, <3>2, <3>3, <3>5, DestroyLayerResets DEF RecloseReply
    <3>6. CASE CloseReply(c, h)
      BY <1>2, <3>2, <3>6, CloseReplyResets
    <3> QED
      BY <3>1, <3>4, <3>5, <3>6
  <2>2. CASE SessionFails \/ CloseTimeout \/ Destroys
    BY <1>1, <1>2, <2>2, EndsReset
  <2>3. CASE UnconnectedReply \/ ConnectedReply \/ Tick \/ Resend \/ Device \/ Expire \/ Lose
             \/ CloseLayers \/ Disconnects \/ BelowClosed \/ UNCHANGED vars
    BY <1>3, <2>3
       DEF UnconnectedReply, ConnectedReply, Tick, Resend, Device, Expire, Lose, CloseLayers,
           Disconnects, BelowClosed, vars
  <2>4. ASSUME NEW r \in Requests, Issue(r) PROVE FALSE
    BY <1>3, <2>4 DEF Issue
  <2> QED
    BY <2>1, <2>2, <2>3, <2>4 DEF Next
<1>4. CASE due = "below"
  <2>1. Blank(cip) /\ cip.queue = <<>> /\ ~closing
    BY <1>1, <1>4 DEF RouteInv, CipInv, AtEnd
  <2>2. ASSUME cip'.callbacks = cip.callbacks, cip'.sendInfo = cip.sendInfo,
               cip'.idContext = cip.idContext
        PROVE  Blank(cip')
    BY <2>1, <2>2 DEF Blank
  <2>3. CASE Tick
    <3> DEFINE c == [cip EXCEPT !.ticks = @ - 1]
    <3>1. c.queue = <<>> /\ c.callbacks = cip.callbacks /\ c.sendInfo = cip.sendInfo
          /\ c.idContext = cip.idContext /\ cip' = SendNext(c)
      BY <1>1, <2>1, <2>3 DEF Tick, Fields
    <3> HIDE DEF c
    <3> QED
      BY <2>2, <3>1, NothingToSend
  <2>4. CASE Resend
    <3>1. PICK m : cip' = Hand(cip, m)
      BY <2>4 DEF Resend
    <3>2. cip'.callbacks = cip.callbacks /\ cip'.sendInfo = cip.sendInfo
          /\ cip'.idContext = cip.idContext
      BY <1>1, <3>1 DEF Hand, Fields
    <3> QED
      BY <2>2, <3>2
  <2>5. CASE Device
    <3>1. cip' = [cip EXCEPT !.sent = Tail(@)]
      BY <2>5 DEF Device
    <3>2. cip'.callbacks = cip.callbacks /\ cip'.sendInfo = cip.sendInfo
          /\ cip'.idContext = cip.idContext
      BY <1>1, <3>1 DEF Fields
    <3> QED
      BY <2>2, <3>2
  <2>6. CASE Expire \/ Lose \/ UnconnectedReply \/ UNCHANGED vars
    BY <2>2, <2>6 DEF Expire, Lose, UnconnectedReply, vars
  <2>7. CASE InternalReply
    BY <2>1, <2>2, <2>7, CallbackFreed DEF Blank, Freed
  <2>8. CASE ConnectedReply
    <3>1. Head(toClient) \in Replies
      BY <2>8, Now, OfTail DEF ConnectedReply
    <3>2. Head(toClient).m.seq \in SequenceNumbers
      BY <2>8, <3>1, MessageParts DEF ConnectedReply, Replies
    <3>3. cip.idContext[Head(toClient).m.seq] = None
      BY <2>1, <3>2 DEF Blank
    <3> QED
      BY <2>2, <2>8, <3>3 DEF ConnectedReply
  <2>9. CASE SessionFails
    BY <1>1, <1>2, <2>9, EndsReset
  <2>10. CASE CloseTimeout \/ Destroys \/ CloseLayers \/ Disconnects \/ BelowClosed
    BY <1>4, <2>1, <2>10 DEF CloseTimeout, Destroys, CloseLayers, Disconnects, BelowClosed
  <2>11. ASSUME NEW r \in Requests, Issue(r) PROVE FALSE
    BY <1>4, <2>11 DEF Issue, Strayed
  <2> QED
    BY <2>3, <2>4, <2>5, <2>6, <2>7, <2>8, <2>9, <2>10, <2>11 DEF Next
<1> QED
  BY <1>3, <1>4

LEMMA StepRouted ==
  ASSUME TypeOK, CipInv, WindowInv, NoReuse, RouteInv, [Next]_vars
  PROVE  RouteInv'
<1>1. /\ Ends' => Pending' \subseteq stranded'
      /\ Strayed' \/ (due' = "below" => Blank(cip'))
  BY ClosingStrands, StepBlank
<1> SUFFICES ASSUME ~Strayed', ~Ends' PROVE RoutedNext
  BY <1>1 DEF RouteInv, RoutedNext
<1>2. ~Strayed /\ ~cip'.misnamed /\ ~closing' /\ due' = "nothing"
  BY StillStrayed DEF Strayed, Ends
<1>3. CASE Ends
  <2>1. Pending' \subseteq stranded'
    BY <1>3, ClosingStrands
  <2>2. closing => due = "nothing"
    BY DEF CipInv
  <2>3. CASE InternalReply
    <3>1. UNCHANGED <<closing, due>> \/ due' \in {"below", "destroy"}
      <4>1. ASSUME NEW h, NEW c, OpenReply(c, h) \/ RecloseReply(c, h) \/ CloseReply(c, h)
            PROVE  UNCHANGED <<closing, due>> \/ due' \in {"below", "destroy"}
        BY <4>1 DEF OpenReply, RecloseReply, CloseReply, Continue, DestroyLayer, FinishClose,
                    DestroyInClose
      <4> QED
        BY <2>3, <4>1, CallbackFreed
    <3> QED
      BY <1>2, <1>3, <3>1 DEF Ends
  <2>4. CASE SessionFails
    <3>1. Resets(cip) /\ cip \in Fields
      BY <2>4, EndsReset, Now
    <3> QED
      BY <2>1, <3>1, EndedRouted
  <2>5. CASE BelowClosed
    <3>1. Blank(cip)
      BY <1>2, <2>5 DEF RouteInv, BelowClosed
    <3>2. cip'.sendInfo = cip.sendInfo /\ SameBooks(cip, cip') /\ SameWindow(cip, cip')
      BY <2>5, BelowClosedQuits, QuitsParts
    <3>3. Blank(cip')
      BY <3>1, <3>2 DEF Blank, SameBooks, SameWindow
    <3> QED
      BY <2>1, <3>3, BlankRouted
  <2>6. CASE UnconnectedReply \/ ConnectedReply \/ Tick \/ Resend \/ Device \/ Expire \/ Lose
             \/ UNCHANGED vars
    BY <1>2, <1>3, <2>6
       DEF UnconnectedReply, ConnectedReply, Tick, Resend, Device, Expire, Lose, vars, Ends
  <2>7. ASSUME NEW r \in Requests, Issue(r) PROVE FALSE
    BY <1>2, <1>3, <2>7 DEF Issue, Ends
  <2>8. CASE CloseLayers \/ Disconnects \/ Destroys \/ CloseTimeout
    BY <1>2, <2>8
       DEF CloseLayers, Disconnects, Destroys, CloseTimeout, FinishClose, DestroyInClose
  <2> QED
    BY <2>3, <2>4, <2>5, <2>6, <2>7, <2>8 DEF Next
<1>4. ASSUME OnRoute PROVE RoutedNext
  <2>1. ASSUME NEW r \in Requests, Issue(r) PROVE RoutedNext
    BY <1>4, <2>1, IssueRouted
  <2>2. CASE Tick
    BY <1>4, <2>2, TickRouted
  <2>3. CASE Resend
    BY <1>4, <2>3, ResendRouted
  <2>4. CASE Device
    <3>1. Routed(cip, toClient, devConns, session) /\ Carried(cip, toClient, session, Owing)
      BY <1>4, NowRouted
    <3>2. session' = session /\ Pending' \ stranded' = Owing
      BY <2>4 DEF Device, history, Pending, Owing
    <3>3. PICK rs : rs = Owing
      OBVIOUS
    <3>4. Routed(cip', toClient', devConns', session) /\ Carried(cip', toClient', session, rs)
      BY <2>4, <3>1, <3>3, DeviceRouted
    <3> QED
      BY <3>2, <3>3, <3>4 DEF RoutedNext
  <2>5. CASE Expire \/ UNCHANGED vars
    <3>1. UNCHANGED <<cip, toClient, devConns, session, outcome, stranded>>
      BY <2>5 DEF Expire, vars, history
    <3> QED
      BY <1>4, <3>1, NowRouted DEF RoutedNext, Owing, Pending
  <2>6. ~Lose
    BY DEF Lose, Strayed
  <2>7. CASE InternalReply
    BY <1>2, <1>4, <2>7, InternalReplyRouted
  <2>8. CASE UnconnectedReply \/ ConnectedReply
    BY <1>4, <2>8, RepliesRouted
  <2>9. CASE SessionFails
    <3>1. Resets(cip) /\ cip \in Fields
      BY <2>9, EndsReset, Now
    <3>2. Pending' = {}
      BY <2>9, RejectedRouted DEF SessionFails, TypeOK
    <3> QED
      BY <3>1, <3>2, EndedRouted
  <2>10. CASE CloseLayers \/ Disconnects \/ Destroys \/ BelowClosed \/ CloseTimeout
    BY <1>2, <1>4, <2>10, NowRouted
       DEF CloseLayers, Disconnects, Destroys, BelowClosed, CloseTimeout
  <2> QED
    BY <2>1, <2>2, <2>3, <2>4, <2>5, <2>6, <2>7, <2>8, <2>9, <2>10 DEF Next
<1> QED
  BY <1>2, <1>3, <1>4 DEF OnRoute

LEMMA InitRouted == Init => RouteInv
<1> SUFFICES ASSUME Init PROVE RouteInv
  OBVIOUS
<1>1. cip.callbacks = {} /\ cip.sendInfo = None
      /\ cip.idContext = [s \in SequenceNumbers |-> None] /\ ~Ends /\ due # "below"
  BY DEF Init, Ends
<1>2. Pending = {}
  BY DEF Init, Pending
<1>3. PICK c : c = cip
  OBVIOUS
<1>4. \A replies, dc, s : Routed(c, replies, dc, s)
  BY <1>1, <1>3, NothingRouted
<1>5. Routed(cip, toClient, devConns, session)
  BY <1>3, <1>4
<1> QED
  BY <1>1, <1>2, <1>5 DEF RouteInv, Carried

(* Every request that is not settled has its reply coming, and a context on  *)
(* file that the reply will find, for any requests, devices and failures: no *)
(* message of a connection is under way any more when the layer learns of    *)
(* another one or has the device close it, as long as it does not wrap the   *)
(* sequence count around a message that is under way.  Unless a reply was    *)
(* lost, or a ForwardClose named a connection in use.                        *)
THEOREM RoutesAreKept == Spec /\ []NoReuse => []PendingHasRoute
<1> DEFINE Inv == TypeOK /\ CipInv /\ WindowInv /\ RouteInv
<1>1. Init => Inv
  BY InitSound, InitInWindow, InitRouted
<1>2. Inv /\ NoReuse /\ [Next]_vars => Inv'
  BY StepSound, StepInWindow, StepRouted
<1>3. Inv => PendingHasRoute
  <2> SUFFICES ASSUME TypeOK, CipInv, WindowInv, RouteInv, ~Strayed, NEW r \in Pending \ stranded
               PROVE  \/ r \in Waiting(cip)
                      \/ Unconnected(r) \in Owed
                      \/ \E s \in SequenceNumbers :
                           cip.idContext[s] = r /\ OnConnection(cip, s, r) \in Owed
    BY DEF PendingHasRoute, Strayed
  <2>1. OnRoute /\ r \in Owing
    BY DEF RouteInv, OnRoute, Owing, Ends
  <2>2. Routed(cip, toClient, devConns, session) /\ Carried(cip, toClient, session, Owing)
        /\ r # None
    BY <2>1, NowRouted, Constants DEF Pending
  <2>3. OwedTo(cip, toClient, session) = Owed
    BY DEF OwedTo, Of, Owed
  <2>4. ASSUME NEW q \in SequenceNumbers, cip.idContext[q] = r
        PROVE  OnConnection(cip, q, r) \in Owed
    <3>1. OnConnection(cip, q, r) \in Expected(cip)
      BY <2>2, <2>4, ExpectedParts
    <3> QED
      BY <2>2, <2>3, <3>1 DEF Routed, Bound, Filled
  <2> QED
    BY <2>1, <2>2, <2>3, <2>4 DEF Carried
<1> HIDE DEF Inv
<1> QED
  BY <1>1, <1>2, <1>3, PTL DEF Spec

(* The same without a condition, for a program that issues no more requests  *)
(* than there are sequence counts.                                           *)
THEOREM FewRequestsKeepRoutes == ASSUME FewRequests PROVE Spec => []PendingHasRoute
<1>1. Spec => []NoReuse
  BY CountsSuffice
<1> QED
  BY <1>1, RoutesAreKept, PTL
=============================================================================
