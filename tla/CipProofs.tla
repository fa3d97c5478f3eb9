------------------------------ MODULE CipProofs ------------------------------
(***************************************************************************)
(* Proofs about the CIP connection layer.                                   *)
(*                                                                          *)
(* What the layer owes to the order of its messages is said of the parts of *)
(* its record and not of the record, in Mail: a lemma for each thing that   *)
(* can happen to them (a ForwardOpen or a ForwardClose sent, a reply taken, *)
(* a message taken by the device, a destroy), and the steps of the layer    *)
(* put these together.                                                      *)
(***************************************************************************)
EXTENDS CipConnection, TLAPS

Purposes == {"open", "close", "reclose"}
Statuses == {"ok", "unsupported", "duplicate", "refused"}
Callbacks == [id : Nat, purpose : Purposes]
Parcels == [session : 0 .. MaxSessions, m : Messages]
Replies == [m : Messages, status : Statuses]

Internal(m) == m.kind \in {"open", "close"}
Closes(cb) == cb.purpose \in {"close", "reclose"}

-----------------------------------------------------------------------------
LEMMA MessageParts ==
  ASSUME NEW m \in Messages
  PROVE  /\ m.kind \in {"open", "close", "unconnected", "stale", "connected"}
         /\ m.kind = "open" => m.id \in Nat /\ m.serial \in Serials /\ m.large \in BOOLEAN
         /\ m.kind = "close" => m.id \in Nat /\ m.serial \in 0 .. MaxSerial
         /\ m.kind = "connected" => /\ m.serial \in Serials /\ m.seq \in SequenceNumbers
                                    /\ m.request \in Requests
         /\ m.kind \in {"unconnected", "stale"} => m.request \in Requests
  BY DEF Messages

LEMMA InternalParts ==
  ASSUME NEW m \in Messages, Internal(m)
  PROVE  m.id \in Nat /\ m.serial \in Nat
<1>1. MaxSerial \in Nat
  BY CipAssumption
<1> QED
  BY <1>1, MessageParts DEF Internal, Serials

LEMMA Constants ==
  /\ Requests \subseteq Nat \ {0} /\ MaxSerial \in Nat /\ MaxSessions \in Nat
  /\ SequenceCounts \in Nat /\ SequenceCounts > 1
  /\ None \in Nat /\ None \notin Serials /\ None \notin Requests
  /\ Serials \subseteq Nat
  /\ 0 \in SequenceNumbers /\ SequenceNumbers \subseteq Nat
  BY CipAssumption DEF None, Serials, SequenceNumbers

LEMMA NextCount ==
  ASSUME NEW n \in SequenceNumbers
  PROVE  (n + 1) % SequenceCounts \in SequenceNumbers
  BY Constants DEF SequenceNumbers

LEMMA CurrentSession ==
  ASSUME session \in 1 .. MaxSessions
  PROVE  Current \in 0 .. MaxSessions
  BY Constants DEF Current, None

-----------------------------------------------------------------------------
(* What the operators of the layer make of its record.                       *)
Posted(c, m) == Append(c.sent, [session |-> Current, m |-> m])
OpenMessage(c) ==
  [kind |-> "open", id |-> c.context + 1, serial |-> c.serial + 1, large |-> c.large]
CloseMessage(c) == [kind |-> "close", id |-> c.context + 1, serial |-> c.serial]
Callback(c, purpose) == [id |-> c.context + 1, purpose |-> purpose]

LEMMA HandIs ==
  ASSUME NEW c \in Fields, session \in 1 .. MaxSessions, NEW m \in Messages
  PROVE  Hand(c, m) = [c EXCEPT !.sent = Posted(c, m)] /\ Hand(c, m) \in Fields
<1>1. Hand(c, m) = [c EXCEPT !.sent = Posted(c, m)]
  BY DEF Hand, Posted
<1>2. [session |-> Current, m |-> m] \in [session : 0 .. MaxSessions, m : Messages]
  BY CurrentSession
<1>3. Posted(c, m) \in Seq([session : 0 .. MaxSessions, m : Messages])
  BY <1>2 DEF Posted, Fields
<1> QED
  BY <1>1, <1>3 DEF Fields

LEMMA SendOpenIs ==
  ASSUME NEW c \in Fields, session \in 1 .. MaxSessions, c.serial + 1 <= MaxSerial
  PROVE  /\ SendOpen(c) = [c EXCEPT !.serial = c.serial + 1,
                                    !.overlap = c.overlap \/ c.callbacks # {},
                                    !.context = c.context + 1,
                                    !.callbacks = c.callbacks \cup {Callback(c, "open")},
                                    !.sent = Posted(c, OpenMessage(c))]
         /\ SendOpen(c) \in Fields /\ OpenMessage(c) \in Messages
<1> DEFINE b == [c EXCEPT !.serial = @ + 1, !.overlap = @ \/ c.callbacks # {}]
           d == [b EXCEPT !.context = @ + 1,
                          !.callbacks = @ \cup {[id |-> b.context + 1, purpose |-> "open"]}]
<1>1. c.serial \in Nat /\ c.serial + 1 \in 0 .. MaxSerial /\ c.serial + 1 \in Serials
      /\ c.context + 1 \in Nat /\ c.large \in BOOLEAN
  BY Constants DEF Fields, Serials
<1>2. b = [c EXCEPT !.serial = c.serial + 1, !.overlap = c.overlap \/ c.callbacks # {}]
  BY DEF Fields
<1>3. b \in Fields /\ b.context = c.context /\ b.callbacks = c.callbacks /\ b.sent = c.sent
      /\ b.serial = c.serial + 1 /\ b.large = c.large
  BY <1>1 DEF Fields
<1>4. Callback(c, "open") \in [id : Nat, purpose : {"open", "close", "reclose"}]
  BY <1>1 DEF Callback
<1>5. d = [c EXCEPT !.serial = c.serial + 1, !.overlap = c.overlap \/ c.callbacks # {},
                    !.context = c.context + 1,
                    !.callbacks = c.callbacks \cup {Callback(c, "open")}]
  BY <1>2, <1>3 DEF Callback, Fields
<1>6. d \in Fields
  <2>1. d = [b EXCEPT !.context = c.context + 1,
                      !.callbacks = c.callbacks \cup {Callback(c, "open")}]
    BY <1>3 DEF Callback
  <2>2. c.callbacks \cup {Callback(c, "open")}
          \in SUBSET [id : Nat, purpose : {"open", "close", "reclose"}]
    BY <1>4 DEF Fields
  <2> HIDE DEF b, d
  <2> QED
    BY <1>1, <1>3, <2>1, <2>2 DEF Fields
<1>7. OpenMessage(c) \in Messages
  BY <1>1 DEF OpenMessage, Messages
<1>8. Open(d) = OpenMessage(c) /\ Posted(d, Open(d)) = Posted(c, OpenMessage(c))
  BY <1>5 DEF Open, OpenMessage, Posted, Fields
<1>9. SendOpen(c) = Hand(d, Open(d))
  BY DEF SendOpen, File
<1> HIDE DEF b, d
<1>10. Hand(d, OpenMessage(c)) = [d EXCEPT !.sent = Posted(c, OpenMessage(c))]
       /\ Hand(d, OpenMessage(c)) \in Fields
  BY <1>6, <1>7, <1>8, HandIs
<1>11. ASSUME NEW x
       PROVE  [d EXCEPT !.sent = x] = [c EXCEPT !.serial = c.serial + 1,
                                    !.overlap = c.overlap \/ c.callbacks # {},
                                    !.context = c.context + 1,
                                    !.callbacks = c.callbacks \cup {Callback(c, "open")},
                                    !.sent = x]
  BY <1>5 DEF Fields
<1> QED
  BY <1>7, <1>8, <1>9, <1>10, <1>11

LEMMA SendCloseIs ==
  ASSUME NEW c \in Fields, session \in 1 .. MaxSessions, NEW p \in {"close", "reclose"}
  PROVE  /\ SendClose(c, p) = [c EXCEPT !.context = c.context + 1,
                                        !.callbacks = c.callbacks \cup {Callback(c, p)},
                                        !.sent = Posted(c, CloseMessage(c))]
         /\ SendClose(c, p) \in Fields /\ CloseMessage(c) \in Messages
<1> DEFINE d == [c EXCEPT !.context = @ + 1,
                          !.callbacks = @ \cup {[id |-> c.context + 1, purpose |-> p]}]
<1>1. c.serial \in 0 .. MaxSerial /\ c.context + 1 \in Nat
  BY Constants DEF Fields
<1>2. d = [c EXCEPT !.context = c.context + 1,
                    !.callbacks = c.callbacks \cup {Callback(c, p)}]
  BY DEF Callback
<1>3. c.callbacks \cup {Callback(c, p)}
        \in SUBSET [id : Nat, purpose : {"open", "close", "reclose"}]
  BY <1>1 DEF Callback, Fields
<1> HIDE DEF d
<1>4. d \in Fields
  BY <1>1, <1>2, <1>3 DEF Fields
<1>5. CloseMessage(c) \in Messages
  BY <1>1 DEF CloseMessage, Messages
<1>6. Close(d) = CloseMessage(c) /\ Posted(d, Close(d)) = Posted(c, CloseMessage(c))
  BY <1>2 DEF Close, CloseMessage, Posted, Fields
<1>7. SendClose(c, p) = Hand(d, Close(d))
  BY DEF SendClose, File, d
<1>8. Hand(d, CloseMessage(c)) = [d EXCEPT !.sent = Posted(c, CloseMessage(c))]
      /\ Hand(d, CloseMessage(c)) \in Fields
  BY <1>4, <1>5, <1>6, HandIs
<1>9. ASSUME NEW x
      PROVE  [d EXCEPT !.sent = x] = [c EXCEPT !.context = c.context + 1,
                                    !.callbacks = c.callbacks \cup {Callback(c, p)},
                                    !.sent = x]
  BY <1>2 DEF Fields
<1> QED
  BY <1>5, <1>6, <1>7, <1>8, <1>9

-----------------------------------------------------------------------------
(* Which fields a handler leaves as they are, and how it changes the others. *)
SameSettings(c, d) == d.again = c.again /\ d.large = c.large
SameWindow(c, d) == d.seq = c.seq /\ d.idContext = c.idContext /\ d.resend = c.resend
SameQueue(c, d) == d.queue = c.queue /\ d.ticks = c.ticks
SameBooks(c, d) ==
  /\ d.callbacks = c.callbacks /\ d.context = c.context
  /\ d.serial = c.serial /\ d.overlap = c.overlap

AsksToOpen(c, d) ==
  /\ d.callbacks = c.callbacks \cup {Callback(c, "open")} /\ d.context = c.context + 1
  /\ d.serial = c.serial + 1 /\ d.overlap = (c.overlap \/ c.callbacks # {})
  /\ d.sent = Posted(c, OpenMessage(c)) /\ OpenMessage(c) \in Messages

AsksToClose(c, d, p) ==
  /\ d.callbacks = c.callbacks \cup {Callback(c, p)} /\ d.context = c.context + 1
  /\ d.serial = c.serial /\ d.overlap = c.overlap
  /\ d.sent = Posted(c, CloseMessage(c)) /\ CloseMessage(c) \in Messages

LEMMA SendOpenParts ==
  ASSUME NEW c \in Fields, session \in 1 .. MaxSessions, c.serial + 1 <= MaxSerial
  PROVE  LET d == SendOpen(c)
         IN  /\ d \in Fields /\ d.state = c.state /\ d.sendInfo = c.sendInfo
             /\ SameSettings(c, d) /\ SameWindow(c, d) /\ SameQueue(c, d) /\ AsksToOpen(c, d)
<1> DEFINE d == SendOpen(c)
<1>1. d = [c EXCEPT !.serial = c.serial + 1, !.overlap = c.overlap \/ c.callbacks # {},
                    !.context = c.context + 1,
                    !.callbacks = c.callbacks \cup {Callback(c, "open")},
                    !.sent = Posted(c, OpenMessage(c))]
      /\ d \in Fields /\ OpenMessage(c) \in Messages
  BY SendOpenIs
<1> HIDE DEF d
<1>2. d.state = c.state /\ d.sendInfo = c.sendInfo
      /\ SameSettings(c, d) /\ SameWindow(c, d) /\ SameQueue(c, d)
  BY <1>1 DEF Fields, SameSettings, SameWindow, SameQueue
<1>3. AsksToOpen(c, d)
  BY <1>1 DEF Fields, AsksToOpen
<1> QED
  BY <1>1, <1>2, <1>3 DEF d

LEMMA SendCloseParts ==
  ASSUME NEW c \in Fields, session \in 1 .. MaxSessions, NEW p \in {"close", "reclose"}
  PROVE  LET d == SendClose(c, p)
         IN  /\ d \in Fields /\ d.state = c.state /\ d.sendInfo = c.sendInfo
             /\ SameSettings(c, d) /\ SameWindow(c, d) /\ SameQueue(c, d) /\ AsksToClose(c, d, p)
<1> DEFINE d == SendClose(c, p)
<1>1. d = [c EXCEPT !.context = c.context + 1,
                    !.callbacks = c.callbacks \cup {Callback(c, p)},
                    !.sent = Posted(c, CloseMessage(c))]
      /\ d \in Fields /\ CloseMessage(c) \in Messages
  BY SendCloseIs
<1> HIDE DEF d
<1>2. d.state = c.state /\ d.sendInfo = c.sendInfo
      /\ SameSettings(c, d) /\ SameWindow(c, d) /\ SameQueue(c, d)
  BY <1>1 DEF Fields, SameSettings, SameWindow, SameQueue
<1>3. AsksToClose(c, d, p)
  BY <1>1 DEF Fields, AsksToClose
<1> QED
  BY <1>1, <1>2, <1>3 DEF d

(* A layer that connects: what it does to a record in state 0.               *)
Connects(c, d) ==
  /\ d.state = 1 /\ d.sendInfo = c.sendInfo
  /\ SameSettings(c, d) /\ SameWindow(c, d) /\ SameQueue(c, d) /\ AsksToOpen(c, d)

LEMMA ConnectParts ==
  ASSUME NEW c \in Fields, session \in 1 .. MaxSessions, c.state = 0,
         Connect(c).serial <= MaxSerial
  PROVE  Connect(c) \in Fields /\ Connects(c, Connect(c))
<1> DEFINE b == [c EXCEPT !.state = 1]
<1>1. b \in Fields /\ b.state = 1 /\ b.serial = c.serial /\ b.sendInfo = c.sendInfo
      /\ b.seq = c.seq /\ b.queue = c.queue /\ b.idContext = c.idContext
      /\ b.callbacks = c.callbacks /\ b.context = c.context /\ b.again = c.again
      /\ b.large = c.large /\ b.resend = c.resend /\ b.ticks = c.ticks /\ b.sent = c.sent
      /\ b.overlap = c.overlap
  <2>1. c \in Fields /\ 1 \in {-1, 0, 1, 2}
    OBVIOUS
  <2> QED
    BY ONLY <2>1 DEF Fields
<1>2. Connect(c) = SendOpen(b)
  BY DEF Connect
<1> HIDE DEF b
<1>3. SendOpen(b).serial = b.serial + 1
  <2>1. b.serial \in Nat /\ b.context \in Nat /\ b \in Fields
    BY <1>1, Constants DEF Fields
  <2> DEFINE e == [b EXCEPT !.serial = @ + 1, !.overlap = @ \/ b.callbacks # {}]
             f == [e EXCEPT !.context = @ + 1,
                            !.callbacks = @ \cup {[id |-> e.context + 1, purpose |-> "open"]}]
  <2>2. SendOpen(b) = [f EXCEPT !.sent = Append(@, [session |-> Current, m |-> Open(f)])]
    BY DEF SendOpen, File, Hand
  <2>3. f.serial = b.serial + 1
    BY <2>1 DEF Fields
  <2>4. DOMAIN f = DOMAIN b /\ "serial" \in DOMAIN b /\ "sent" # "serial"
    BY <2>1 DEF Fields
  <2> HIDE DEF f
  <2> QED
    BY <2>2, <2>3, <2>4
<1>4. b.serial + 1 <= MaxSerial
  BY <1>2, <1>3
<1>5. OpenMessage(b) = OpenMessage(c) /\ Callback(b, "open") = Callback(c, "open")
      /\ Posted(b, OpenMessage(b)) = Posted(c, OpenMessage(c))
  BY <1>1 DEF OpenMessage, Callback, Posted
<1> QED
  BY <1>1, <1>2, <1>4, <1>5, SendOpenParts
     DEF Connects, SameSettings, SameWindow, SameQueue, AsksToOpen

(* A message that goes out on the connection, and one that needs none.       *)
SendsConnected(c, d, r) ==
  LET n == (c.seq + 1) % SequenceCounts
  IN  /\ d.state = c.state /\ d.sendInfo = c.sendInfo
      /\ SameSettings(c, d) /\ SameBooks(c, d)
      /\ d.seq = n /\ d.idContext = [c.idContext EXCEPT ![n] = r]
      /\ d.resend = {[seq |-> n, request |-> r]}
      /\ d.sent = Posted(c, OnConnection(c, n, r)) /\ OnConnection(c, n, r) \in Messages
      /\ d.queue = Tail(c.queue) /\ d.ticks = c.ticks + 1

SendsUnconnected(c, d, r) ==
  /\ d.state = c.state /\ d.sendInfo = c.sendInfo
  /\ SameSettings(c, d) /\ SameBooks(c, d) /\ SameWindow(c, d)
  /\ d.sent = Posted(c, Unconnected(r)) /\ Unconnected(r) \in Messages
  /\ d.queue = Tail(c.queue) /\ d.ticks = c.ticks + 1

(* What sendNextMessage comes to.                                            *)
NextSent(c, d) ==
  \/ /\ c.queue = <<>> \/ c.state \notin {0, 2}
     /\ d = c
  \/ /\ c.queue # <<>> /\ c.state = 2
     /\ SendsConnected(c, d, Head(c.queue))
  \/ /\ c.queue # <<>> /\ c.state = 0 /\ Head(c.queue) \in Connected
     /\ Connects(c, d)
  \/ /\ c.queue # <<>> /\ c.state = 0 /\ Head(c.queue) \notin Connected
     /\ SendsUnconnected(c, d, Head(c.queue))

LEMMA SendNextParts ==
  ASSUME NEW c \in Fields, session \in 1 .. MaxSessions, c.state = 2 => c.sendInfo # None,
         SendNext(c).serial <= MaxSerial
  PROVE  SendNext(c) \in Fields /\ NextSent(c, SendNext(c))
<1>1. CASE c.queue = <<>> \/ c.state \notin {0, 2}
  <2>1. SendNext(c) = c
    BY <1>1 DEF SendNext
  <2> QED
    BY <1>1, <2>1 DEF NextSent
<1>2. ASSUME c.queue # <<>>, c.state \in {0, 2}
      PROVE  SendNext(c) \in Fields /\ NextSent(c, SendNext(c))
  <2> DEFINE r == Head(c.queue)
             b == [c EXCEPT !.queue = Tail(@), !.ticks = @ + 1]
  <2>1. r \in Requests /\ Tail(c.queue) \in Seq(Requests) /\ c.ticks + 1 \in Nat
    BY <1>2 DEF Fields
  <2>2. b \in Fields /\ b.queue = Tail(c.queue) /\ b.ticks = c.ticks + 1
        /\ b.state = c.state /\ b.sendInfo = c.sendInfo /\ b.sent = c.sent
        /\ SameSettings(c, b) /\ SameBooks(c, b) /\ SameWindow(c, b)
    BY <2>1 DEF Fields, SameSettings, SameBooks, SameWindow
  <2>3. ASSUME c.state = 2 PROVE SendNext(c) \in Fields /\ NextSent(c, SendNext(c))
    <3> DEFINE n == (b.seq + 1) % SequenceCounts
               e == [b EXCEPT !.seq = n, !.idContext[n] = r,
                              !.resend = {[seq |-> n, request |-> r]}]
    <3>1. SendNext(c) = Hand(e, OnConnection(b, n, r))
      BY <1>2, <2>3 DEF SendNext, SendConnected
    <3>2. n \in SequenceNumbers /\ n = (c.seq + 1) % SequenceCounts
      BY <2>2, NextCount DEF Fields, SameWindow
    <3>3. [seq |-> n, request |-> r] \in [seq : SequenceNumbers, request : Requests]
          /\ [b.idContext EXCEPT ![n] = r] \in [SequenceNumbers -> Requests \cup {None}]
      BY <2>1, <2>2, <3>2 DEF Fields
    <3>4. OnConnection(b, n, r) = OnConnection(c, n, r)
          /\ OnConnection(c, n, r) \in Messages
      <4>1. c.sendInfo \in Serials
        BY <2>3 DEF Fields
      <4> HIDE DEF n, r
      <4> QED
        BY <2>1, <2>2, <3>2, <4>1 DEF OnConnection, Messages
    <3> HIDE DEF n, r, b
    <3>5. e \in Fields /\ e.seq = n /\ e.idContext = [b.idContext EXCEPT ![n] = r]
          /\ e.resend = {[seq |-> n, request |-> r]}
          /\ e.state = b.state /\ e.sendInfo = b.sendInfo /\ e.sent = b.sent
          /\ e.queue = b.queue /\ e.ticks = b.ticks
          /\ SameSettings(b, e) /\ SameBooks(b, e)
      BY <2>2, <3>2, <3>3 DEF Fields, SameSettings, SameBooks
    <3> HIDE DEF e
    <3> DEFINE d == SendNext(c)
    <3>6. d = [e EXCEPT !.sent = Posted(c, OnConnection(c, n, r))] /\ d \in Fields
      <4>1. PICK m \in Messages : m = OnConnection(c, n, r)
        BY <3>4
      <4>2. d = Hand(e, m)
        BY <3>1, <3>4, <4>1
      <4>3. d = [e EXCEPT !.sent = Posted(e, m)] /\ d \in Fields
        BY <3>5, <4>2, HandIs
      <4>4. e.sent = c.sent
        BY <2>2, <3>5
      <4> QED
        BY <4>1, <4>3, <4>4 DEF Posted
    <3> HIDE DEF d
    <3>7. d.sent = Posted(c, OnConnection(c, n, r)) /\ d.seq = e.seq
          /\ d.idContext = e.idContext /\ d.resend = e.resend
          /\ d.state = e.state /\ d.sendInfo = e.sendInfo
          /\ d.queue = e.queue /\ d.ticks = e.ticks
          /\ SameSettings(e, d) /\ SameBooks(e, d)
      BY <3>5, <3>6 DEF Fields, SameSettings, SameBooks
    <3>8. SendsConnected(c, d, r)
      BY <2>2, <3>2, <3>4, <3>5, <3>7 DEF SendsConnected, SameSettings, SameBooks, SameWindow
    <3> QED
      BY <1>2, <2>3, <3>6, <3>8 DEF NextSent, d, r
  <2>4. ASSUME c.state = 0, r \in Connected
        PROVE  SendNext(c) \in Fields /\ NextSent(c, SendNext(c))
    <3>1. SendNext(c) = Connect(c)
      BY <1>2, <2>4 DEF SendNext
    <3> QED
      BY <1>2, <2>4, <3>1, ConnectParts DEF NextSent
  <2>5. ASSUME c.state = 0, r \notin Connected
        PROVE  SendNext(c) \in Fields /\ NextSent(c, SendNext(c))
    <3>1. SendNext(c) = Hand(b, Unconnected(r))
      BY <1>2, <2>5 DEF SendNext
    <3>2. Unconnected(r) \in Messages
      BY <2>1 DEF Unconnected, Messages
    <3> HIDE DEF b
    <3> DEFINE d == SendNext(c)
    <3>3. d = [b EXCEPT !.sent = Posted(c, Unconnected(r))] /\ d \in Fields
      BY <2>2, <3>1, <3>2, HandIs DEF Posted
    <3> HIDE DEF d, r
    <3>4. d.sent = Posted(c, Unconnected(r)) /\ d.state = b.state /\ d.sendInfo = b.sendInfo
          /\ d.queue = b.queue /\ d.ticks = b.ticks
          /\ SameSettings(b, d) /\ SameBooks(b, d) /\ SameWindow(b, d)
      BY <2>2, <3>3 DEF Fields, SameSettings, SameBooks, SameWindow
    <3>5. SendsUnconnected(c, d, r)
      BY <2>2, <3>2, <3>4 DEF SendsUnconnected, SameSettings, SameBooks, SameWindow
    <3> QED
      BY <1>2, <2>5, <3>3, <3>5 DEF NextSent, d, r
  <2> QED
    BY <1>2, <2>3, <2>4, <2>5
<1> QED
  BY <1>1, <1>2

LEMMA DestroyedParts ==
  ASSUME NEW c \in Fields
  PROVE  LET d == Destroyed(c)
         IN  /\ d \in Fields /\ d.state = 0 /\ d.seq = 0 /\ d.sendInfo = None
             /\ d.callbacks = {} /\ d.queue = <<>>
             /\ d.idContext = [s \in SequenceNumbers |-> None]
             /\ d.context = c.context /\ d.serial = c.serial /\ d.overlap = c.overlap
             /\ SameSettings(c, d) /\ d.resend = c.resend /\ d.ticks = c.ticks /\ d.sent = c.sent
<1> DEFINE none == [s \in SequenceNumbers |-> None]
           d == Destroyed(c)
           b == [c EXCEPT !.state = 0, !.seq = 0, !.sendInfo = None]
<1>1. none \in [SequenceNumbers -> Requests \cup {None}] /\ <<>> \in Seq(Requests)
  OBVIOUS
<1>2. b \in Fields
  BY Constants DEF Fields
<1>3. d = [b EXCEPT !.callbacks = {}, !.idContext = none, !.queue = <<>>]
  BY DEF Destroyed, Fields
<1> HIDE DEF none
<1>4. d \in Fields
  <2> HIDE DEF b, d
  <2> QED
    BY <1>1, <1>2, <1>3 DEF Fields
<1>5. d = [c EXCEPT !.state = 0, !.seq = 0, !.sendInfo = None, !.callbacks = {},
                    !.idContext = none, !.queue = <<>>]
  BY DEF Destroyed, none
<1> HIDE DEF d, b
<1>6. d.state = 0 /\ d.seq = 0 /\ d.sendInfo = None /\ d.callbacks = {} /\ d.queue = <<>>
      /\ d.idContext = none
  BY <1>5 DEF Fields
<1>7. d.context = c.context /\ d.serial = c.serial /\ d.overlap = c.overlap
      /\ SameSettings(c, d) /\ d.resend = c.resend /\ d.ticks = c.ticks /\ d.sent = c.sent
  BY <1>5 DEF Fields, SameSettings
<1> QED
  BY <1>4, <1>6, <1>7 DEF d, none

-----------------------------------------------------------------------------
(* The order of the messages between the layer and the device, as facts      *)
(* about the callbacks on file (cbs), the last context (ctx) and serial      *)
(* (ser), the messages sent, the replies, the connections of the device (dc) *)
(* and the connection in use, if any (con).                                  *)
Of(q) == {q[i].m : i \in DOMAIN q}

Before(a, b) ==
  Internal(a) /\ Internal(b) => a.id < b.id /\ (b.kind = "open" => a.serial < b.serial)

Sorted(q) == \A i, j \in DOMAIN q : i < j => Before(q[i].m, q[j].m)

Filed(cbs, m) == \E cb \in cbs : cb.id = m.id

(* Contexts are given out once and in order.                                 *)
Numbered(cbs, ctx, ser, ms) ==
  /\ \A cb \in cbs : cb.id \in 1 .. ctx
  /\ \A cb1, cb2 \in cbs : cb1.id = cb2.id => cb1 = cb2
  /\ \A m \in ms : Internal(m) => m.id <= ctx /\ m.serial <= ser

(* Replies come in the order of the messages, all of them before what was    *)
(* not taken yet.                                                            *)
InLine(sent, replies) ==
  /\ Sorted(sent) /\ Sorted(replies)
  /\ \A a \in Of(replies), b \in Of(sent) : Before(a, b)

(* The callback of a ForwardOpen waits for the reply to a ForwardOpen.       *)
Matched(cbs, ms) ==
  \A cb \in cbs, m \in ms :
    Internal(m) /\ m.id = cb.id => (m.kind = "open" <=> cb.purpose = "open")

(* A connection about to be learned of is open, or its ForwardClose is one   *)
(* that the layer waits for.                                                 *)
Opened(cbs, replies, dc) ==
  \A i \in DOMAIN replies :
    LET o == replies[i].m
    IN  o.kind = "open" /\ replies[i].status = "ok" /\ Filed(cbs, o)
          => o.serial \in dc \/ \E cb \in cbs : Closes(cb) /\ cb.id > o.id

(* A ForwardClose that the layer does not wait for any more names a          *)
(* connection that came before those it may still learn of or uses.          *)
Outdated(cbs, ms, con, m) ==
  /\ \A o \in ms : o.kind = "open" /\ Filed(cbs, o) => m.serial < o.serial
  /\ \A s \in con : m.serial < s

Spared(cbs, sent, ms, con) ==
  \A m \in Of(sent) : m.kind = "close" => Filed(cbs, m) \/ Outdated(cbs, ms, con, m)

Mail(cbs, ctx, ser, sent, replies, dc, con) ==
  /\ Numbered(cbs, ctx, ser, Of(replies) \cup Of(sent))
  /\ InLine(sent, replies)
  /\ Matched(cbs, Of(replies) \cup Of(sent))
  /\ Opened(cbs, replies, dc)
  /\ Spared(cbs, sent, Of(replies) \cup Of(sent), con)

-----------------------------------------------------------------------------
LEMMA OfAppend ==
  ASSUME NEW S, NEW q \in Seq(S), NEW x \in S
  PROVE  Of(Append(q, x)) = Of(q) \cup {x.m}
<1> DEFINE p == Append(q, x)
<1>1. Len(q) \in Nat /\ DOMAIN q = 1 .. Len(q) /\ DOMAIN p = 1 .. Len(q) + 1
      /\ p[Len(q) + 1] = x /\ \A i \in 1 .. Len(q) : p[i] = q[i]
  OBVIOUS
<1> HIDE DEF p
<1>2. Of(p) \subseteq Of(q) \cup {x.m}
  <2> SUFFICES ASSUME NEW i \in DOMAIN p PROVE p[i].m \in Of(q) \cup {x.m}
    BY DEF Of
  <2> QED
    BY <1>1 DEF Of
<1>3. Of(q) \subseteq Of(p)
  <2> SUFFICES ASSUME NEW i \in DOMAIN q PROVE q[i].m \in Of(p)
    BY DEF Of
  <2>1. i \in DOMAIN p /\ p[i] = q[i]
    BY <1>1
  <2> QED
    BY <2>1 DEF Of
<1>4. x.m \in Of(p)
  <2>1. Len(q) + 1 \in DOMAIN p
    BY <1>1
  <2> QED
    BY <1>1, <2>1 DEF Of
<1> QED
  BY <1>2, <1>3, <1>4 DEF p

LEMMA OfTail ==
  ASSUME NEW S, NEW q \in Seq(S), q # <<>>
  PROVE  /\ Of(q) = Of(Tail(q)) \cup {Head(q).m} /\ Head(q) \in S /\ Tail(q) \in Seq(S)
         /\ \A i \in DOMAIN Tail(q) : i + 1 \in DOMAIN q /\ Tail(q)[i] = q[i + 1]
         /\ 1 \in DOMAIN q /\ q[1] = Head(q)
<1> DEFINE t == Tail(q)
<1>1. Len(q) \in Nat /\ Len(q) > 0 /\ DOMAIN q = 1 .. Len(q) /\ DOMAIN t = 1 .. Len(q) - 1
      /\ \A i \in 1 .. Len(q) - 1 : t[i] = q[i + 1]
  OBVIOUS
<1>2. q[1] = Head(q) /\ Head(q) \in S /\ t \in Seq(S)
  OBVIOUS
<1> HIDE DEF t
<1>3. Of(q) \subseteq Of(t) \cup {q[1].m}
  <2> SUFFICES ASSUME NEW i \in DOMAIN q, i # 1 PROVE q[i].m \in Of(t)
    BY DEF Of
  <2>1. i - 1 \in DOMAIN t /\ t[i - 1] = q[i]
    BY <1>1
  <2> QED
    BY <2>1 DEF Of
<1>4. Of(t) \subseteq Of(q)
  <2> SUFFICES ASSUME NEW i \in DOMAIN t PROVE t[i].m \in Of(q)
    BY DEF Of
  <2>1. i + 1 \in DOMAIN q /\ t[i] = q[i + 1]
    BY <1>1
  <2> QED
    BY <2>1 DEF Of
<1>5. 1 \in DOMAIN q /\ q[1].m \in Of(q)
  BY <1>1 DEF Of
<1> QED
  BY <1>1, <1>2, <1>3, <1>4, <1>5 DEF t

LEMMA SortedAppend ==
  ASSUME NEW S, NEW q \in Seq(S), NEW x \in S, Sorted(q), \A a \in Of(q) : Before(a, x.m)
  PROVE  Sorted(Append(q, x))
<1> DEFINE p == Append(q, x)
<1>1. Len(q) \in Nat /\ DOMAIN q = 1 .. Len(q) /\ DOMAIN p = 1 .. Len(q) + 1
      /\ p[Len(q) + 1] = x /\ \A i \in 1 .. Len(q) : p[i] = q[i]
  OBVIOUS
<1> HIDE DEF p
<1>2. SUFFICES ASSUME NEW i \in DOMAIN p, NEW j \in DOMAIN p, i < j
               PROVE  Before(p[i].m, p[j].m)
  BY DEF Sorted, p
<1>3. i \in DOMAIN q /\ p[i] = q[i] /\ q[i].m \in Of(q)
  BY <1>1, <1>2 DEF Of
<1>4. CASE j = Len(q) + 1
  BY <1>1, <1>3, <1>4
<1>5. CASE j # Len(q) + 1
  BY <1>1, <1>2, <1>3, <1>5 DEF Sorted
<1> QED
  BY <1>4, <1>5

LEMMA SortedTail ==
  ASSUME NEW S, NEW q \in Seq(S), q # <<>>, Sorted(q)
  PROVE  Sorted(Tail(q)) /\ \A b \in Of(Tail(q)) : Before(Head(q).m, b)
<1>1. /\ \A i \in DOMAIN Tail(q) : i + 1 \in DOMAIN q /\ Tail(q)[i] = q[i + 1]
      /\ 1 \in DOMAIN q /\ q[1] = Head(q)
  BY OfTail
<1>2. DOMAIN Tail(q) \subseteq Nat \ {0}
  OBVIOUS
<1>3. Sorted(Tail(q))
  <2> SUFFICES ASSUME NEW i \in DOMAIN Tail(q), NEW j \in DOMAIN Tail(q), i < j
               PROVE  Before(Tail(q)[i].m, Tail(q)[j].m)
    BY DEF Sorted
  <2>1. i + 1 < j + 1
    BY <1>2
  <2> QED
    BY <1>1, <2>1 DEF Sorted
<1>4. ASSUME NEW i \in DOMAIN Tail(q) PROVE Before(Head(q).m, Tail(q)[i].m)
  <2>1. 1 < i + 1
    BY <1>2
  <2> QED
    BY <1>1, <2>1 DEF Sorted
<1> QED
  BY <1>3, <1>4 DEF Of

LEMMA SortedPrefix ==
  ASSUME NEW S, NEW q \in Seq(S), NEW n \in 0 .. Len(q)
  PROVE  /\ SubSeq(q, 1, n) \in Seq(S) /\ Of(SubSeq(q, 1, n)) \subseteq Of(q)
         /\ Sorted(q) => Sorted(SubSeq(q, 1, n))
<1> DEFINE p == SubSeq(q, 1, n)
<1>1. p \in Seq(S) /\ DOMAIN p = 1 .. n /\ DOMAIN q = 1 .. Len(q) /\ Len(q) \in Nat
      /\ \A i \in 1 .. n : p[i] = q[i]
  OBVIOUS
<1> HIDE DEF p
<1>2. DOMAIN p \subseteq DOMAIN q /\ \A i \in DOMAIN p : p[i] = q[i]
  BY <1>1
<1> QED
  BY <1>1, <1>2 DEF Of, Sorted, p

LEMMA OfNone == Of(<<>>) = {} /\ Sorted(<<>>)
  BY DEF Of, Sorted

-----------------------------------------------------------------------------
MailTypes(cbs, ctx, ser, sent, replies, con) ==
  /\ cbs \subseteq Callbacks /\ ctx \in Nat /\ ser \in Nat
  /\ sent \in Seq(Parcels) /\ replies \in Seq(Replies) /\ con \subseteq Nat

LEMMA MailMessages ==
  ASSUME NEW sent \in Seq(Parcels), NEW replies \in Seq(Replies)
  PROVE  /\ Of(sent) \subseteq Messages /\ Of(replies) \subseteq Messages
         /\ \A m \in Of(replies) \cup Of(sent) : Internal(m) => m.id \in Nat /\ m.serial \in Nat
<1>1. Of(sent) \subseteq Messages
  <2>1. \A i \in DOMAIN sent : sent[i] \in Parcels
    OBVIOUS
  <2> QED
    BY <2>1 DEF Of, Parcels
<1>2. Of(replies) \subseteq Messages
  <2>1. \A i \in DOMAIN replies : replies[i] \in Replies
    OBVIOUS
  <2> QED
    BY <2>1 DEF Of, Replies
<1> QED
  BY <1>1, <1>2, InternalParts

(* A message without a callback is sent.                                     *)
LEMMA MailHanded ==
  ASSUME NEW cbs, NEW ctx, NEW ser, NEW sent, NEW replies, NEW dc, NEW con,
         MailTypes(cbs, ctx, ser, sent, replies, con),
         Mail(cbs, ctx, ser, sent, replies, dc, con),
         NEW x \in Parcels, ~Internal(x.m)
  PROVE  Mail(cbs, ctx, ser, Append(sent, x), replies, dc, con)
<1> DEFINE ms == Of(replies) \cup Of(sent)
           more == Of(replies) \cup Of(Append(sent, x))
<1>1. Of(Append(sent, x)) = Of(sent) \cup {x.m} /\ more = ms \cup {x.m}
  BY OfAppend DEF MailTypes
<1>2. x.m.kind # "open" /\ x.m.kind # "close"
  BY DEF Internal
<1>3. Sorted(Append(sent, x))
  BY SortedAppend DEF Mail, InLine, MailTypes, Before
<1> HIDE DEF ms, more
<1>4. Numbered(cbs, ctx, ser, ms) /\ Matched(cbs, ms) /\ Spared(cbs, sent, ms, con)
      /\ InLine(sent, replies) /\ Opened(cbs, replies, dc)
  BY DEF Mail, ms
<1>5. Numbered(cbs, ctx, ser, more) /\ Matched(cbs, more)
  BY <1>1, <1>4 DEF Numbered, Matched
<1>6. InLine(Append(sent, x), replies)
  BY <1>1, <1>3, <1>4 DEF InLine, Before
<1>7. Spared(cbs, Append(sent, x), more, con)
  BY <1>1, <1>2, <1>4 DEF Spared, Outdated
<1> QED
  BY <1>4, <1>5, <1>6, <1>7 DEF Mail, more

(* A ForwardOpen is sent under the next context with a new serial, or a       *)
(* ForwardClose with the last one.                                           *)
LEMMA MailAsks ==
  ASSUME NEW cbs, NEW ctx, NEW ser, NEW sent, NEW replies, NEW dc, NEW con,
         MailTypes(cbs, ctx, ser, sent, replies, con),
         Mail(cbs, ctx, ser, sent, replies, dc, con),
         NEW x \in Parcels, Internal(x.m), x.m.id = ctx + 1,
         NEW next \in Nat, x.m.serial = next, ser <= next, x.m.kind = "open" => ser < next,
         NEW cb, cb.id = ctx + 1, cb.purpose = "open" <=> x.m.kind = "open"
  PROVE  Mail(cbs \cup {cb}, ctx + 1, next, Append(sent, x), replies, dc, con)
<1> DEFINE ms == Of(replies) \cup Of(sent)
           more == Of(replies) \cup Of(Append(sent, x))
           all == cbs \cup {cb}
<1>1. Of(Append(sent, x)) = Of(sent) \cup {x.m} /\ more = ms \cup {x.m}
  BY OfAppend DEF MailTypes
<1>2. \A m \in ms : Internal(m) => m.id \in Nat /\ m.serial \in Nat
  BY MailMessages DEF MailTypes
<1>3. \A b \in cbs : b.id \in Nat
  BY DEF MailTypes, Callbacks
<1>0. ctx \in Nat /\ ser \in Nat
  BY DEF MailTypes
<1> HIDE DEF ms, more
<1>4. Numbered(cbs, ctx, ser, ms) /\ Matched(cbs, ms) /\ Spared(cbs, sent, ms, con)
      /\ InLine(sent, replies) /\ Opened(cbs, replies, dc)
  BY DEF Mail, ms
<1>5. \A a \in ms : Before(a, x.m)
  BY <1>0, <1>2, <1>4 DEF Before, Numbered
<1>6. Sorted(Append(sent, x))
  BY <1>4, <1>5, SortedAppend DEF InLine, MailTypes, ms
<1>7. InLine(Append(sent, x), replies)
  BY <1>1, <1>4, <1>5, <1>6 DEF InLine, ms
<1>8. Numbered(all, ctx + 1, next, more)
  BY <1>0, <1>1, <1>2, <1>3, <1>4 DEF Numbered
<1>9. Matched(all, more)
  <2> SUFFICES ASSUME NEW b \in all, NEW m \in more, Internal(m), m.id = b.id
               PROVE  m.kind = "open" <=> b.purpose = "open"
    BY DEF Matched
  <2>1. CASE b \in cbs /\ m \in ms
    BY <1>4, <2>1 DEF Matched
  <2>2. CASE b \in cbs /\ m = x.m
    BY <1>0, <1>3, <1>4, <2>2 DEF Numbered
  <2>3. CASE b = cb /\ m \in ms
    BY <1>0, <1>2, <1>4, <2>3 DEF Numbered
  <2>4. CASE b = cb /\ m = x.m
    BY <1>0, <2>4
  <2> QED
    BY <1>1, <2>1, <2>2, <2>3, <2>4
<1>10. \A m \in ms : Internal(m) => (Filed(all, m) <=> Filed(cbs, m))
  BY <1>0, <1>2, <1>4 DEF Filed, Numbered
<1>11. Opened(all, replies, dc)
  <2> SUFFICES ASSUME NEW i \in DOMAIN replies,
                      replies[i].m.kind = "open", replies[i].status = "ok",
                      Filed(all, replies[i].m)
               PROVE  \/ replies[i].m.serial \in dc
                      \/ \E b \in all : Closes(b) /\ b.id > replies[i].m.id
    BY DEF Opened
  <2>1. replies[i].m \in ms /\ Internal(replies[i].m)
    BY DEF ms, Of, Internal
  <2>2. Filed(cbs, replies[i].m)
    BY <1>10, <2>1
  <2> QED
    BY <1>4, <2>2 DEF Opened
<1>12. Spared(all, Append(sent, x), more, con)
  <2> SUFFICES ASSUME NEW m \in Of(Append(sent, x)), m.kind = "close", ~Filed(all, m)
               PROVE  Outdated(all, more, con, m)
    BY DEF Spared
  <2>1. m # x.m
    BY DEF Filed
  <2>2. m \in Of(sent) /\ m \in ms /\ Internal(m)
    BY <1>1, <2>1 DEF ms, Internal
  <2>3. Outdated(cbs, ms, con, m)
    BY <1>4, <1>10, <2>2 DEF Spared
  <2>4. ASSUME NEW o \in ms, o.kind = "open", Filed(all, o) PROVE m.serial < o.serial
    BY <1>10, <2>3, <2>4 DEF Outdated, Internal
  <2>5. x.m.kind = "open" => m.serial < x.m.serial
    BY <1>0, <1>2, <1>4, <2>2 DEF Numbered
  <2> QED
    BY <1>1, <2>3, <2>4, <2>5 DEF Outdated
<1> QED
  BY <1>7, <1>8, <1>9, <1>11, <1>12 DEF Mail, more

(* A reply goes, without a callback: it was lost, or has none.               *)
LEMMA MailDropped ==
  ASSUME NEW cbs, NEW ctx, NEW ser, NEW sent, NEW replies, NEW dc, NEW con,
         MailTypes(cbs, ctx, ser, sent, replies, con),
         Mail(cbs, ctx, ser, sent, replies, dc, con), replies # <<>>
  PROVE  Mail(cbs, ctx, ser, sent, Tail(replies), dc, con)
<1> DEFINE t == Tail(replies)
           ms == Of(replies) \cup Of(sent)
           less == Of(t) \cup Of(sent)
<1>1. Of(replies) = Of(t) \cup {Head(replies).m}
      /\ \A i \in DOMAIN t : i + 1 \in DOMAIN replies /\ t[i] = replies[i + 1]
  BY OfTail DEF MailTypes
<1>2. Sorted(t)
  BY SortedTail DEF Mail, InLine, MailTypes
<1>3. less \subseteq ms
  BY <1>1
<1> HIDE DEF t, ms, less
<1>4. Numbered(cbs, ctx, ser, ms) /\ Matched(cbs, ms) /\ Spared(cbs, sent, ms, con)
      /\ InLine(sent, replies) /\ Opened(cbs, replies, dc)
  BY DEF Mail, ms
<1>5. Numbered(cbs, ctx, ser, less) /\ Matched(cbs, less) /\ Spared(cbs, sent, less, con)
  BY <1>3, <1>4 DEF Numbered, Matched, Spared, Outdated
<1>6. InLine(sent, t)
  BY <1>1, <1>2, <1>4 DEF InLine
<1>7. Opened(cbs, t, dc)
  BY <1>1, <1>4 DEF Opened
<1> QED
  BY <1>5, <1>6, <1>7 DEF Mail, t, less

(* A callback takes its reply.  The connection it may learn of with it is    *)
(* one that Opened and Spared speak of.                                      *)
LEMMA MailSettled ==
  ASSUME NEW cbs, NEW ctx, NEW ser, NEW sent, NEW replies, NEW dc, NEW con,
         MailTypes(cbs, ctx, ser, sent, replies, con),
         Mail(cbs, ctx, ser, sent, replies, dc, con), replies # <<>>,
         NEW h, h = Head(replies), Internal(h.m),
         NEW left, \A b : b \in left <=> b \in cbs /\ b.id # h.m.id
  PROVE  /\ Mail(left, ctx, ser, sent, Tail(replies), dc, con)
         /\ h.m.kind = "open" /\ Filed(cbs, h.m)
              => /\ Mail(left, ctx, ser, sent, Tail(replies), dc, {h.m.serial})
                 /\ h.status = "ok" => h.m.serial \in dc \/ \E cb \in left : Closes(cb)
<1> DEFINE t == Tail(replies)
           ms == Of(replies) \cup Of(sent)
           less == Of(t) \cup Of(sent)
<1>1. /\ Of(replies) = Of(t) \cup {h.m} /\ 1 \in DOMAIN replies /\ replies[1] = h
      /\ \A i \in DOMAIN t : i + 1 \in DOMAIN replies /\ t[i] = replies[i + 1]
  BY OfTail DEF MailTypes
<1>2. Sorted(t) /\ \A b \in Of(t) : Before(h.m, b)
  BY SortedTail DEF Mail, InLine, MailTypes
<1>3. less \subseteq ms /\ h.m \in ms /\ h.m \in Of(replies)
  BY <1>1
<1>4. \A m \in ms : Internal(m) => m.id \in Nat /\ m.serial \in Nat
  BY MailMessages DEF MailTypes
<1>5. \A b \in cbs : b.id \in Nat
  BY DEF MailTypes, Callbacks
<1> HIDE DEF t, ms, less
<1>6. Numbered(cbs, ctx, ser, ms) /\ Matched(cbs, ms) /\ Spared(cbs, sent, ms, con)
      /\ InLine(sent, replies) /\ Opened(cbs, replies, dc)
  BY DEF Mail, ms
<1>7. \A m \in less : Internal(m) => h.m.id < m.id
  BY <1>2, <1>3, <1>6 DEF less, InLine, Before
<1>8. \A m \in less : Internal(m) => (Filed(left, m) <=> Filed(cbs, m))
  BY <1>3, <1>4, <1>7 DEF Filed
<1>9. Numbered(left, ctx, ser, less) /\ Matched(left, less)
  BY <1>3, <1>6 DEF Numbered, Matched
<1>10. InLine(sent, t)
  BY <1>1, <1>2, <1>6 DEF InLine
<1>11. Opened(left, t, dc)
  <2> SUFFICES ASSUME NEW i \in DOMAIN t, t[i].m.kind = "open", t[i].status = "ok",
                      Filed(left, t[i].m)
               PROVE  \/ t[i].m.serial \in dc
                      \/ \E b \in left : Closes(b) /\ b.id > t[i].m.id
    BY DEF Opened
  <2>1. t[i].m \in less /\ Internal(t[i].m)
    BY DEF less, Of, Internal
  <2>2. Filed(cbs, t[i].m) /\ h.m.id < t[i].m.id
    BY <1>7, <1>8, <2>1
  <2>3. t[i].m.serial \in dc \/ \E b \in cbs : Closes(b) /\ b.id > t[i].m.id
    BY <1>1, <1>6, <2>2 DEF Opened
  <2>4. ASSUME NEW b \in cbs, b.id > t[i].m.id PROVE b \in left
    BY <1>3, <1>4, <1>5, <2>1, <2>2, <2>4
  <2> QED
    BY <2>3, <2>4
<1>12. \A m \in Of(sent) : m \in less
  BY DEF less
<1>13. Spared(left, sent, less, con)
  <2> SUFFICES ASSUME NEW m \in Of(sent), m.kind = "close", ~Filed(left, m)
               PROVE  Outdated(left, less, con, m)
    BY DEF Spared
  <2>1. Outdated(cbs, ms, con, m)
    BY <1>6, <1>8, <1>12 DEF Spared, Internal
  <2> QED
    BY <1>3, <1>8, <2>1 DEF Outdated, Internal
<1>14. ASSUME h.m.kind = "open", Filed(cbs, h.m)
       PROVE  /\ Spared(left, sent, less, {h.m.serial})
              /\ h.status = "ok" => h.m.serial \in dc \/ \E cb \in left : Closes(cb)
  <2>1. ASSUME NEW m \in Of(sent), m.kind = "close", ~Filed(left, m)
        PROVE  Outdated(left, less, {h.m.serial}, m)
    <3>1. Outdated(cbs, ms, con, m)
      BY <1>6, <1>8, <1>12, <2>1 DEF Spared, Internal
    <3>2. m.serial < h.m.serial
      BY <1>3, <1>14, <3>1 DEF Outdated
    <3> QED
      BY <1>3, <1>8, <3>1, <3>2 DEF Outdated, Internal
  <2>2. ASSUME h.status = "ok"
        PROVE  h.m.serial \in dc \/ \E cb \in left : Closes(cb)
    <3>1. h.m.serial \in dc \/ \E cb \in cbs : Closes(cb) /\ cb.id > h.m.id
      BY <1>1, <1>6, <1>14, <2>2 DEF Opened
    <3>2. ASSUME NEW b \in cbs, b.id > h.m.id PROVE b \in left
      BY <1>3, <1>4, <1>5, <3>2
    <3> QED
      BY <3>1, <3>2
  <2> QED
    BY <2>1, <2>2 DEF Spared
<1> QED
  BY <1>9, <1>10, <1>11, <1>13, <1>14 DEF Mail, t, less

(* The layer is destroyed: it waits for nothing any more, and of what it     *)
(* sent, and of the replies, some may be gone.                               *)
LEMMA MailForgotten ==
  ASSUME NEW cbs, NEW ctx, NEW ser, NEW sent, NEW replies, NEW dc, NEW con,
         Mail(cbs, ctx, ser, sent, replies, dc, con),
         NEW some, Sorted(some), Of(some) \subseteq Of(sent),
         NEW rest, Sorted(rest), Of(rest) \subseteq Of(replies)
  PROVE  Mail({}, ctx, ser, some, rest, dc, {})
<1>1. Numbered({}, ctx, ser, Of(rest) \cup Of(some))
  BY DEF Mail, Numbered
<1>2. InLine(some, rest)
  BY DEF Mail, InLine
<1>3. Matched({}, Of(rest) \cup Of(some)) /\ Opened({}, rest, dc)
  BY DEF Matched, Opened, Filed
<1>4. Spared({}, some, Of(rest) \cup Of(some), {})
  BY DEF Spared, Outdated, Filed
<1> QED
  BY <1>1, <1>2, <1>3, <1>4 DEF Mail

(* Of what was sent some is gone, and the replies are all there or all gone. *)
LEMMA MailFewer ==
  ASSUME NEW cbs, NEW ctx, NEW ser, NEW sent, NEW replies, NEW dc, NEW con,
         Mail(cbs, ctx, ser, sent, replies, dc, con),
         NEW some, Sorted(some), Of(some) \subseteq Of(sent),
         NEW rest, rest \in {replies, <<>>}
  PROVE  Mail(cbs, ctx, ser, some, rest, dc, con)
<1>0. Sorted(rest) /\ Of(rest) \subseteq Of(replies) /\ Opened(cbs, rest, dc)
  BY OfNone DEF Mail, InLine, Opened
<1>1. Numbered(cbs, ctx, ser, Of(rest) \cup Of(some))
      /\ Matched(cbs, Of(rest) \cup Of(some))
  BY <1>0 DEF Mail, Numbered, Matched
<1>2. InLine(some, rest)
  BY <1>0 DEF Mail, InLine
<1>3. Spared(cbs, some, Of(rest) \cup Of(some), con)
  BY <1>0 DEF Mail, Spared, Outdated
<1> QED
  BY <1>0, <1>1, <1>2, <1>3 DEF Mail

(* Fewer connections are in use, or the device holds more.                   *)
LEMMA MailLess ==
  ASSUME NEW cbs, NEW ctx, NEW ser, NEW sent, NEW replies, NEW dc, NEW con,
         Mail(cbs, ctx, ser, sent, replies, dc, con)
  PROVE  Mail(cbs, ctx, ser, sent, replies, dc, {})
  BY DEF Mail, Spared, Outdated

(* The device takes a message.  The connections it holds afterwards are held:*)
(* it drops one only for a ForwardClose that names it, and what is in use or *)
(* about to be is not among these unless the layer waits for that close.     *)
LEMMA MailTaken ==
  ASSUME NEW cbs, NEW ctx, NEW ser, NEW sent, NEW replies, NEW dc, NEW con,
         MailTypes(cbs, ctx, ser, sent, replies, con),
         Mail(cbs, ctx, ser, sent, replies, dc, con), sent # <<>>,
         NEW x, x = Head(sent), NEW held,
         \A s \in dc \ held : x.m.kind = "close" /\ x.m.serial = s
  PROVE  /\ Mail(cbs, ctx, ser, Tail(sent), replies, held, con)
         /\ \A status \in Statuses :
              (x.m.kind = "open" /\ status = "ok" => x.m.serial \in held)
                => Mail(cbs, ctx, ser, Tail(sent),
                        Append(replies, [m |-> x.m, status |-> status]), held, con)
         /\ \A s \in con : s \in held \/ s \notin dc \/ \E cb \in cbs : Closes(cb)
<1> DEFINE t == Tail(sent)
           ms == Of(replies) \cup Of(sent)
           less == Of(replies) \cup Of(t)
<1>1. Of(sent) = Of(t) \cup {x.m} /\ x \in Parcels
  BY OfTail DEF MailTypes
<1>2. Sorted(t) /\ \A b \in Of(t) : Before(x.m, b)
  BY SortedTail DEF Mail, InLine, MailTypes
<1>3. less \subseteq ms /\ x.m \in ms /\ x.m \in Of(sent)
  BY <1>1
<1>4. \A m \in ms : Internal(m) => m.id \in Nat /\ m.serial \in Nat
  BY MailMessages DEF MailTypes
<1>5. cbs \subseteq Callbacks /\ con \subseteq Nat
  BY DEF MailTypes
<1> HIDE DEF t, ms, less
<1>6. Numbered(cbs, ctx, ser, ms) /\ Matched(cbs, ms) /\ Spared(cbs, sent, ms, con)
      /\ InLine(sent, replies) /\ Opened(cbs, replies, dc)
  BY DEF Mail, ms
<1>7. Numbered(cbs, ctx, ser, less) /\ Matched(cbs, less)
  BY <1>3, <1>6 DEF Numbered, Matched
<1>8. InLine(t, replies)
  BY <1>1, <1>2, <1>6 DEF InLine
<1>9. Spared(cbs, t, less, con)
  BY <1>1, <1>3, <1>6 DEF Spared, Outdated
<1>10. ASSUME x.m.kind = "close", Filed(cbs, x.m)
       PROVE  \E cb \in cbs : Closes(cb) /\ cb.id = x.m.id
  <2>1. PICK cb \in cbs : cb.id = x.m.id
    BY <1>10 DEF Filed
  <2>2. cb.purpose # "open"
    BY <1>3, <1>6, <1>10, <2>1 DEF Matched, Internal
  <2> QED
    BY <1>5, <2>1, <2>2 DEF Closes, Callbacks, Purposes
<1>11. Opened(cbs, replies, held)
  <2> SUFFICES ASSUME NEW i \in DOMAIN replies,
                      replies[i].m.kind = "open", replies[i].status = "ok",
                      Filed(cbs, replies[i].m), replies[i].m.serial \notin held
               PROVE  \E b \in cbs : Closes(b) /\ b.id > replies[i].m.id
    BY DEF Opened
  <2> DEFINE o == replies[i].m
  <2>1. o \in Of(replies) /\ o \in ms /\ Internal(o)
    BY DEF Of, ms, Internal
  <2> HIDE DEF o
  <2>2. CASE o.serial \notin dc
    BY <1>6, <2>2 DEF Opened, o
  <2>3. CASE o.serial \in dc
    <3>1. x.m.kind = "close" /\ x.m.serial = o.serial
      BY <2>3 DEF o
    <3>2. ~Outdated(cbs, ms, con, x.m)
      BY <1>4, <2>1, <3>1 DEF Outdated, o
    <3>3. Filed(cbs, x.m)
      BY <1>3, <1>6, <3>1, <3>2 DEF Spared
    <3>4. o.id < x.m.id
      BY <1>3, <1>6, <2>1, <3>1 DEF InLine, Before, Internal
    <3> QED
      BY <1>10, <3>1, <3>3, <3>4 DEF o
  <2> QED
    BY <2>2, <2>3
<1>12. Mail(cbs, ctx, ser, t, replies, held, con)
  BY <1>7, <1>8, <1>9, <1>11 DEF Mail, less
<1>13. ASSUME NEW status \in Statuses,
              x.m.kind = "open" /\ status = "ok" => x.m.serial \in held
       PROVE  Mail(cbs, ctx, ser, t, Append(replies, [m |-> x.m, status |-> status]), held, con)
  <2> DEFINE y == [m |-> x.m, status |-> status]
             more == Append(replies, y)
  <2>1. y \in Replies /\ replies \in Seq(Replies) /\ y.m = x.m
    BY <1>1 DEF Parcels, Replies, MailTypes
  <2>2. Of(more) = Of(replies) \cup {x.m}
    BY <2>1, OfAppend
  <2>3. \A a \in Of(replies) : Before(a, y.m)
    BY <1>3, <1>6, <2>1 DEF InLine
  <2>4. Sorted(more)
    BY <1>6, <2>1, <2>3, SortedAppend DEF InLine
  <2>5. DOMAIN more = 1 .. Len(replies) + 1 /\ DOMAIN replies = 1 .. Len(replies)
        /\ more[Len(replies) + 1] = y /\ \A i \in 1 .. Len(replies) : more[i] = replies[i]
    BY <2>1
  <2> HIDE DEF y, more
  <2>6. Of(more) \cup Of(t) = ms
    BY <1>1, <2>2 DEF ms
  <2>7. InLine(t, more)
    BY <1>2, <1>8, <2>2, <2>4 DEF InLine
  <2>8. Opened(cbs, more, held)
    <3> SUFFICES ASSUME NEW i \in DOMAIN more, more[i].m.kind = "open",
                        more[i].status = "ok", Filed(cbs, more[i].m)
                 PROVE  \/ more[i].m.serial \in held
                        \/ \E b \in cbs : Closes(b) /\ b.id > more[i].m.id
      BY DEF Opened
    <3>1. CASE i \in DOMAIN replies
      BY <1>11, <2>5, <3>1 DEF Opened
    <3>2. CASE i \notin DOMAIN replies
      <4>1. Len(replies) \in Nat
        BY <2>1
      <4>2. more[i] = y
        BY <2>5, <3>2, <4>1
      <4> QED
        BY <1>13, <4>2 DEF y
    <3> QED
      BY <3>1, <3>2
  <2>9. Spared(cbs, t, ms, con)
    BY <1>1, <1>6 DEF Spared
  <2> QED
    BY <1>6, <2>6, <2>7, <2>8, <2>9 DEF Mail, more, y
<1>14. ASSUME NEW s \in con, s \notin held, s \in dc PROVE \E cb \in cbs : Closes(cb)
  <2>1. x.m.kind = "close" /\ x.m.serial = s
    BY <1>14
  <2>2. ~Outdated(cbs, ms, con, x.m)
    BY <1>5, <2>1 DEF Outdated
  <2>3. Filed(cbs, x.m)
    BY <1>3, <1>6, <2>1, <2>2 DEF Spared
  <2> QED
    BY <1>10, <2>1, <2>3
<1> QED
  BY <1>12, <1>13, <1>14 DEF t

-----------------------------------------------------------------------------
(* What holds of the record c of the layer, with the replies on their way,   *)
(* the connections of the device (dc) and a close under way or not (cl).     *)
InUse(c) == {s \in {c.sendInfo} : c.state = 2}
Waits(c, purpose) == \E cb \in c.callbacks : cb.purpose = purpose

MailOf(c, replies, dc) == Mail(c.callbacks, c.context, c.serial, c.sent, replies, dc, InUse(c))

OnOpen(c, dc) == \A s \in InUse(c) : s \in dc \/ \E cb \in c.callbacks : Closes(cb)

(* The state the layer is in has a callback that will end it.                *)
Staged(c, cl) ==
  /\ c.state = 1 => Waits(c, "open")
  /\ c.state = -1 => cl
  /\ cl <=> Waits(c, "close")
  /\ c.state = 2 => c.sendInfo # None

Sound(c, replies, dc, cl) ==
  c \in Fields /\ MailOf(c, replies, dc) /\ OnOpen(c, dc) /\ Staged(c, cl)

(* Something will send what is in the queue.                                 *)
Driven(c) ==
  /\ c.state = 2 /\ c.queue # <<>> => c.ticks > 0
  /\ c.state = 0 /\ c.queue # <<>> /\ c.ticks = 0 => Waits(c, "reclose")

(* Every callback on file has a message or a reply under way in session s.   *)
OwedTo(c, replies, s) ==
  {c.sent[i].m : i \in {j \in DOMAIN c.sent : c.sent[j].session = s}} \cup Of(replies)

Backed(c, replies, s) ==
  \A cb \in c.callbacks : \E m \in OwedTo(c, replies, s) : Internal(m) /\ m.id = cb.id

(* What a close finds and leaves, unless a request came between its steps.   *)
AtEnd(c, step) ==
  /\ step = "destroy" => c.state = 0
  /\ step = "below" => c.callbacks = {} /\ c.queue = <<>>

CipInv ==
  /\ Sound(cip, toClient, devConns, closing) /\ Driven(cip)
  /\ closing => due = "nothing"
  /\ closing \/ due = "disconnect" => session < MaxSessions
  /\ lost \/ due = "destroy" \/ Backed(cip, toClient, session)
  /\ lost \/ AtEnd(cip, due)

LEMMA MailTypesOf ==
  ASSUME NEW c \in Fields, NEW replies \in Seq(Replies)
  PROVE  MailTypes(c.callbacks, c.context, c.serial, c.sent, replies, InUse(c))
<1>1. c.callbacks \subseteq Callbacks /\ c.context \in Nat /\ c.serial \in Nat
      /\ c.sent \in Seq(Parcels)
  BY Constants DEF Fields, Callbacks, Purposes, Parcels
<1>2. c.sendInfo \in Nat
  BY Constants DEF Fields
<1> QED
  BY <1>1, <1>2 DEF MailTypes, InUse

LEMMA OwedPosted ==
  ASSUME NEW c \in Fields, NEW d, Current = session, NEW m \in Messages,
         d.sent = Posted(c, m), NEW replies
  PROVE  OwedTo(d, replies, session) = OwedTo(c, replies, session) \cup {m}
<1> DEFINE x == [session |-> Current, m |-> m]
           p == d.sent
           q == c.sent
<1>1. q \in Seq([session : 0 .. MaxSessions, m : Messages])
  BY DEF Fields
<1>2. p = Append(q, x) /\ x.m = m /\ x.session = session
  BY DEF Posted
<1> HIDE DEF x
<1>3. Len(q) \in Nat /\ DOMAIN q = 1 .. Len(q) /\ DOMAIN p = 1 .. Len(q) + 1
      /\ p[Len(q) + 1] = x /\ \A i \in 1 .. Len(q) : p[i] = q[i]
  <2> HIDE DEF p, q
  <2> QED
    BY <1>1, <1>2
<1> HIDE DEF p, q
<1> DEFINE P == {p[i].m : i \in {j \in DOMAIN p : p[j].session = session}}
           Q == {q[i].m : i \in {j \in DOMAIN q : q[j].session = session}}
<1>4. P \subseteq Q \cup {m}
  <2> SUFFICES ASSUME NEW i \in DOMAIN p, p[i].session = session, i # Len(q) + 1
               PROVE  p[i].m \in Q
    BY <1>2, <1>3
  <2>1. i \in DOMAIN q /\ q[i] = p[i]
    BY <1>3
  <2> QED
    BY <2>1
<1>5. Q \subseteq P
  <2> SUFFICES ASSUME NEW i \in DOMAIN q, q[i].session = session PROVE q[i].m \in P
    OBVIOUS
  <2>1. i \in DOMAIN p /\ q[i] = p[i]
    BY <1>3
  <2> QED
    BY <2>1
<1>6. m \in P
  <2>1. Len(q) + 1 \in DOMAIN p
    BY <1>3
  <2> QED
    BY <1>2, <1>3, <2>1
<1> QED
  BY <1>4, <1>5, <1>6 DEF OwedTo, p, q

-----------------------------------------------------------------------------
LEMMA OpensSound ==
  ASSUME NEW c \in Fields, NEW d \in Fields, session \in 1 .. MaxSessions,
         NEW replies \in Seq(Replies), NEW dc, NEW cl \in BOOLEAN,
         MailOf(c, replies, dc), cl <=> Waits(c, "close"), AsksToOpen(c, d), d.state = 1
  PROVE  /\ Sound(d, replies, dc, cl) /\ Driven(d)
         /\ Current = session /\ Backed(c, replies, session) => Backed(d, replies, session)
<1> DEFINE x == [session |-> Current, m |-> OpenMessage(c)]
           cb == Callback(c, "open")
           next == c.serial + 1
<1>1. c.serial \in Nat /\ next \in Nat /\ c.serial <= next /\ c.serial < next
  BY Constants DEF Fields
<1>2. x \in Parcels /\ x.m.kind = "open" /\ x.m.id = c.context + 1 /\ x.m.serial = next
  BY CurrentSession DEF AsksToOpen, Parcels, OpenMessage
<1>3. cb.id = c.context + 1 /\ cb.purpose = "open"
  BY DEF Callback
<1>4. d.callbacks = c.callbacks \cup {cb} /\ d.context = c.context + 1 /\ d.serial = next
      /\ d.sent = Append(c.sent, x)
  BY DEF AsksToOpen, Posted
<1>5. MailTypes(c.callbacks, c.context, c.serial, c.sent, replies, {})
  BY MailTypesOf DEF MailTypes
<1>6. Mail(c.callbacks, c.context, c.serial, c.sent, replies, dc, {})
  BY MailLess DEF MailOf
<1>7. InUse(d) = {}
  BY DEF InUse
<1> HIDE DEF x, cb, next
<1>8. MailOf(d, replies, dc)
  BY <1>1, <1>2, <1>3, <1>4, <1>5, <1>6, <1>7, MailAsks DEF MailOf, Internal
<1>9. OnOpen(d, dc) /\ Staged(d, cl) /\ Driven(d)
  BY <1>3, <1>4, <1>7 DEF OnOpen, Staged, Waits, Driven
<1>10. ASSUME Current = session, Backed(c, replies, session)
       PROVE  Backed(d, replies, session)
  <2>1. OwedTo(d, replies, session) = OwedTo(c, replies, session) \cup {x.m}
    BY <1>10, OwedPosted DEF AsksToOpen, x
  <2> QED
    BY <1>2, <1>3, <1>4, <1>10, <2>1 DEF Backed, Internal
<1> QED
  BY <1>8, <1>9, <1>10 DEF Sound

LEMMA ClosesSound ==
  ASSUME NEW c \in Fields, NEW d \in Fields, session \in 1 .. MaxSessions,
         NEW replies \in Seq(Replies), NEW dc, NEW p \in {"close", "reclose"},
         MailOf(c, replies, dc), AsksToClose(c, d, p), d.state # 2
  PROVE  /\ MailOf(d, replies, dc) /\ OnOpen(d, dc)
         /\ \A q : Waits(d, q) <=> Waits(c, q) \/ q = p
         /\ Current = session /\ Backed(c, replies, session) => Backed(d, replies, session)
<1> DEFINE x == [session |-> Current, m |-> CloseMessage(c)]
           cb == Callback(c, p)
<1>1. c.serial \in Nat /\ c.serial <= c.serial
  BY Constants DEF Fields
<1>2. x \in Parcels /\ x.m.kind = "close" /\ x.m.id = c.context + 1 /\ x.m.serial = c.serial
  BY CurrentSession DEF AsksToClose, Parcels, CloseMessage
<1>3. cb.id = c.context + 1 /\ cb.purpose = p
  BY DEF Callback
<1>4. d.callbacks = c.callbacks \cup {cb} /\ d.context = c.context + 1 /\ d.serial = c.serial
      /\ d.sent = Append(c.sent, x)
  BY DEF AsksToClose, Posted
<1>5. MailTypes(c.callbacks, c.context, c.serial, c.sent, replies, {})
  BY MailTypesOf DEF MailTypes
<1>6. Mail(c.callbacks, c.context, c.serial, c.sent, replies, dc, {})
  BY MailLess DEF MailOf
<1>7. InUse(d) = {}
  BY DEF InUse
<1> HIDE DEF x, cb
<1>8. MailOf(d, replies, dc)
  BY <1>1, <1>2, <1>3, <1>4, <1>5, <1>6, <1>7, MailAsks DEF MailOf, Internal
<1>9. OnOpen(d, dc) /\ \A q : Waits(d, q) <=> Waits(c, q) \/ q = p
  BY <1>3, <1>4, <1>7 DEF OnOpen, Waits
<1>10. ASSUME Current = session, Backed(c, replies, session)
       PROVE  Backed(d, replies, session)
  <2>1. OwedTo(d, replies, session) = OwedTo(c, replies, session) \cup {x.m}
    BY <1>10, OwedPosted DEF AsksToClose, x
  <2> QED
    BY <1>2, <1>3, <1>4, <1>10, <2>1 DEF Backed, Internal
<1> QED
  BY <1>8, <1>9, <1>10

(* A message of the layer above, or none, is sent.                           *)
LEMMA PostedSound ==
  ASSUME NEW c \in Fields, NEW d \in Fields, session \in 1 .. MaxSessions,
         NEW replies \in Seq(Replies), NEW dc, NEW cl \in BOOLEAN,
         Sound(c, replies, dc, cl), SameBooks(c, d), d.state = c.state, d.sendInfo = c.sendInfo,
         NEW m \in Messages, ~Internal(m), d.sent = Posted(c, m)
  PROVE  /\ Sound(d, replies, dc, cl)
         /\ Current = session /\ Backed(c, replies, session) => Backed(d, replies, session)
<1> DEFINE x == [session |-> Current, m |-> m]
<1>1. x \in Parcels /\ x.m = m /\ d.sent = Append(c.sent, x)
  BY CurrentSession DEF Parcels, Posted
<1>2. MailTypes(c.callbacks, c.context, c.serial, c.sent, replies, InUse(c))
  BY MailTypesOf
<1>3. InUse(d) = InUse(c) /\ d.callbacks = c.callbacks
  BY DEF InUse, SameBooks
<1> HIDE DEF x
<1>4. MailOf(d, replies, dc)
  BY <1>1, <1>2, <1>3, MailHanded DEF Sound, MailOf, SameBooks
<1>5. OnOpen(d, dc) /\ Staged(d, cl)
  BY <1>3 DEF Sound, OnOpen, Staged, Waits
<1>6. ASSUME Current = session, Backed(c, replies, session)
      PROVE  Backed(d, replies, session)
  <2>1. OwedTo(d, replies, session) = OwedTo(c, replies, session) \cup {m}
    BY <1>6, OwedPosted
  <2> QED
    BY <1>3, <1>6, <2>1 DEF Backed
<1> QED
  BY <1>4, <1>5, <1>6 DEF Sound

LEMMA SendNextSound ==
  ASSUME NEW c, session \in 1 .. MaxSessions,
         NEW replies \in Seq(Replies), NEW dc, NEW cl \in BOOLEAN,
         Sound(c, replies, dc, cl), SendNext(c).serial <= MaxSerial
  PROVE  /\ Sound(SendNext(c), replies, dc, cl) /\ Driven(SendNext(c))
         /\ Current = session /\ Backed(c, replies, session)
              => Backed(SendNext(c), replies, session)
<1> DEFINE d == SendNext(c)
<1>1. c \in Fields /\ c.ticks \in Nat
  BY DEF Sound, Fields
<1>2. d \in Fields /\ NextSent(c, d)
  BY <1>1, SendNextParts DEF Sound, Staged
<1> HIDE DEF d
<1>3. CASE (c.queue = <<>> \/ c.state \notin {0, 2}) /\ d = c
  BY <1>3 DEF Driven, d
<1>4. CASE c.queue # <<>> /\ c.state = 2 /\ SendsConnected(c, d, Head(c.queue))
  <2> DEFINE m == OnConnection(c, (c.seq + 1) % SequenceCounts, Head(c.queue))
  <2>1. SameBooks(c, d) /\ d.state = c.state /\ d.sendInfo = c.sendInfo
        /\ m \in Messages /\ d.sent = Posted(c, m) /\ d.ticks = c.ticks + 1
    BY <1>4 DEF SendsConnected
  <2>2. ~Internal(m)
    BY DEF Internal, OnConnection
  <2>3. Driven(d)
    BY <1>1, <1>4, <2>1 DEF Driven
  <2> HIDE DEF m
  <2> QED
    BY <1>1, <1>2, <2>1, <2>2, <2>3, PostedSound DEF d
<1>5. CASE c.queue # <<>> /\ c.state = 0 /\ Connects(c, d)
  BY <1>1, <1>2, <1>5, OpensSound DEF Connects, Sound, Staged, d
<1>6. CASE c.queue # <<>> /\ c.state = 0 /\ SendsUnconnected(c, d, Head(c.queue))
  <2> DEFINE m == Unconnected(Head(c.queue))
  <2>1. SameBooks(c, d) /\ d.state = c.state /\ d.sendInfo = c.sendInfo
        /\ m \in Messages /\ d.sent = Posted(c, m) /\ d.ticks = c.ticks + 1
    BY <1>6 DEF SendsUnconnected
  <2>2. ~Internal(m)
    BY DEF Internal, Unconnected
  <2>3. Driven(d)
    BY <1>1, <1>6, <2>1 DEF Driven
  <2> HIDE DEF m
  <2> QED
    BY <1>1, <1>2, <2>1, <2>2, <2>3, PostedSound DEF d
<1> QED
  BY <1>2, <1>3, <1>4, <1>5, <1>6 DEF NextSent

LEMMA ConnectSound ==
  ASSUME NEW c \in Fields, session \in 1 .. MaxSessions,
         NEW replies \in Seq(Replies), NEW dc, NEW cl \in BOOLEAN,
         MailOf(c, replies, dc), cl <=> Waits(c, "close"), c.state = 0,
         Connect(c).serial <= MaxSerial
  PROVE  /\ Sound(Connect(c), replies, dc, cl) /\ Driven(Connect(c))
         /\ Current = session /\ Backed(c, replies, session)
              => Backed(Connect(c), replies, session)
<1>1. Connect(c) \in Fields /\ Connects(c, Connect(c))
  BY ConnectParts
<1> QED
  BY <1>1, OpensSound DEF Connects

(* The layer is destroyed, and of what it sent and of the replies some may   *)
(* be gone.                                                                  *)
LEMMA DestroyedSound ==
  ASSUME NEW c \in Fields, NEW replies \in Seq(Replies), NEW dc, MailOf(c, replies, dc),
         NEW d \in Fields, d.state = 0, d.callbacks = {}, d.queue = <<>>,
         d.context = c.context, d.serial = c.serial,
         Sorted(d.sent), Of(d.sent) \subseteq Of(c.sent),
         NEW rest, Sorted(rest), Of(rest) \subseteq Of(replies)
  PROVE  Sound(d, rest, dc, FALSE) /\ Driven(d) /\ \A s : Backed(d, rest, s)
<1>1. InUse(d) = {}
  BY DEF InUse
<1>2. MailOf(d, rest, dc)
  BY <1>1, MailForgotten DEF MailOf
<1>3. OnOpen(d, dc) /\ Staged(d, FALSE) /\ Driven(d) /\ \A s : Backed(d, rest, s)
  BY <1>1 DEF OnOpen, Staged, Driven, Backed, Waits
<1> QED
  BY <1>2, <1>3 DEF Sound

-----------------------------------------------------------------------------
(* The fields that Sound and Backed do not look at.                          *)
LEMMA SameSound ==
  ASSUME NEW c, NEW d \in Fields, NEW replies, NEW dc, NEW cl,
         d.state = c.state, d.sendInfo = c.sendInfo, SameBooks(c, d), d.sent = c.sent
  PROVE  /\ Sound(c, replies, dc, cl) => Sound(d, replies, dc, cl)
         /\ \A s : Backed(c, replies, s) => Backed(d, replies, s)
<1>1. InUse(d) = InUse(c)
  BY DEF InUse
<1> QED
  BY <1>1 DEF Sound, MailOf, OnOpen, Staged, Waits, Backed, OwedTo, SameBooks

LEMMA DroppedSound ==
  ASSUME NEW c, NEW replies \in Seq(Replies), replies # <<>>, NEW dc, NEW cl,
         Sound(c, replies, dc, cl)
  PROVE  /\ Sound(c, Tail(replies), dc, cl)
         /\ ~(Internal(Head(replies).m) /\ Filed(c.callbacks, Head(replies).m)) =>
              \A s : Backed(c, replies, s) => Backed(c, Tail(replies), s)
<1>1. c \in Fields
  BY DEF Sound
<1>2. MailTypes(c.callbacks, c.context, c.serial, c.sent, replies, InUse(c))
  BY <1>1, MailTypesOf
<1>3. MailOf(c, Tail(replies), dc)
  BY <1>2, MailDropped DEF Sound, MailOf
<1>4. Of(replies) = Of(Tail(replies)) \cup {Head(replies).m}
  BY OfTail
<1> QED
  BY <1>3, <1>4 DEF Sound, Backed, OwedTo, Filed

(* Of what was sent a part arrives: the fields are those of d otherwise.     *)
LEMMA SomeArriveIs ==
  ASSUME NEW d \in Fields, Sorted(d.sent), SomeArrive(d)
  PROVE  /\ cip' \in Fields /\ cip'.state = d.state /\ cip'.sendInfo = d.sendInfo
         /\ SameBooks(d, cip') /\ cip'.queue = d.queue /\ cip'.ticks = d.ticks
         /\ Sorted(cip'.sent) /\ Of(cip'.sent) \subseteq Of(d.sent)
<1>1. PICK n \in 0 .. Len(d.sent) : cip' = [d EXCEPT !.sent = SubSeq(@, 1, n)]
  BY DEF SomeArrive
<1>2. PICK p : p = SubSeq(d.sent, 1, n)
  OBVIOUS
<1>3. p \in Seq(Parcels) /\ Of(p) \subseteq Of(d.sent) /\ Sorted(p)
  <2>1. d.sent \in Seq(Parcels)
    BY DEF Fields, Parcels
  <2> QED
    BY <1>1, <1>2, <2>1, SortedPrefix
<1>4. PICK e : e = cip'
  OBVIOUS
<1>5. d \in Fields /\ p \in Seq(Parcels) /\ e = [d EXCEPT !.sent = p]
  BY <1>1, <1>2, <1>3, <1>4
<1>6. /\ e \in Fields /\ e.state = d.state /\ e.sendInfo = d.sendInfo
      /\ SameBooks(d, e) /\ e.queue = d.queue /\ e.ticks = d.ticks /\ e.sent = p
  BY ONLY <1>5 DEF Fields, SameBooks, Parcels
<1> QED
  BY <1>3, <1>4, <1>6

(* The layer is destroyed, with the replies that are still on their way.     *)
LEMMA DestroyedKept ==
  ASSUME NEW c \in Fields, NEW replies \in Seq(Replies), NEW dc, MailOf(c, replies, dc),
         NEW d, d = Destroyed(c), NEW rest, rest \in {replies, <<>>}
  PROVE  /\ d \in Fields /\ Sound(d, rest, dc, FALSE) /\ Driven(d)
         /\ \A s : Backed(d, rest, s)
         /\ d.state = 0 /\ d.callbacks = {} /\ d.queue = <<>>
<1>1. d \in Fields /\ d.state = 0 /\ d.callbacks = {} /\ d.queue = <<>>
      /\ d.context = c.context /\ d.serial = c.serial /\ d.sent = c.sent
  BY DestroyedParts
<1>2. Sorted(c.sent) /\ Sorted(rest) /\ Of(rest) \subseteq Of(replies)
  BY OfNone DEF MailOf, Mail, InLine
<1> QED
  BY <1>1, <1>2, DestroyedSound

LEMMA SettleTypes ==
  ASSUME TypeOK, NEW r \in Requests, NEW from \in Requests, Settle(r, from)
  PROVE  /\ outcome' \in [Requests -> {"idle", "pending", "answered", "rejected"}]
         /\ answer' \in [Requests -> Requests \cup {None}]
  BY DEF TypeOK, Settle

LEMMA RejectTypes ==
  ASSUME NEW o \in [Requests -> {"idle", "pending", "answered", "rejected"}]
  PROVE  RejectAll(o) \in [Requests -> {"idle", "pending", "answered", "rejected"}]
  BY DEF RejectAll

LEMMA Now ==
  ASSUME TypeOK
  PROVE  /\ cip \in Fields /\ toClient \in Seq(Replies) /\ session \in 1 .. MaxSessions
         /\ closing \in BOOLEAN /\ session \in Nat /\ due \in CloseSteps
  BY Constants DEF TypeOK, Replies, Statuses

(* The session the layer sends in, unless a close is past its disconnect.    *)
LEMMA InSession ==
  ASSUME due \notin {"destroy", "below"}
  PROVE  Current = session
  BY DEF Current

(* A callback of the event loop finds the steps of a close done, or nothing   *)
(* on file and nothing in the queue.                                         *)
LEMMA AtWork ==
  ASSUME TypeOK, CipInv, NoMicrotask
  PROVE  /\ lost \/ Backed(cip, toClient, session)
         /\ \/ lost
            \/ due = "nothing" /\ Current = session
            \/ due = "below" /\ cip.callbacks = {} /\ cip.queue = <<>>
<1>1. due \in {"nothing", "below"}
  BY Now DEF NoMicrotask, CloseSteps
<1> QED
  BY <1>1, InSession DEF CipInv, AtEnd

LEMMA NothingToSend ==
  ASSUME NEW c, c.queue = <<>>
  PROVE  SendNext(c) = c
  BY DEF SendNext

-----------------------------------------------------------------------------
LEMMA InitSound == Init => TypeOK /\ CipInv
<1> SUFFICES ASSUME Init PROVE TypeOK /\ CipInv
  OBVIOUS
<1> DEFINE none == [s \in SequenceNumbers |-> None]
<1>1. none \in [SequenceNumbers -> Requests \cup {None}] /\ <<>> \in Seq(Requests)
      /\ <<>> \in Seq([session : 0 .. MaxSessions, m : Messages]) /\ <<>> \in Seq(Replies)
  OBVIOUS
<1>2. cip \in [state : {0}, seq : {0}, sendInfo : {None}, queue : {<<>>},
              idContext : {none}, callbacks : {{}},
              context : {0}, serial : {0}, again : {FALSE}, large : LargeOptions,
              resend : {{}}, ticks : {0}, sent : {<<>>}, overlap : {FALSE},
              misnamed : {FALSE}]
  BY DEF Init
<1> HIDE DEF none
<1>3. 0 \in 0 .. MaxSerial /\ LargeOptions \subseteq BOOLEAN /\ 1 \in 1 .. MaxSessions
  BY CipAssumption
<1>4. cip \in Fields
  <2>1. 0 \in SequenceNumbers /\ 0 \in Nat /\ {} \subseteq Requests
    BY Constants
  <2>2. LargeOptions \subseteq BOOLEAN /\ 0 \in 0 .. MaxSerial
    BY <1>3
  <2> QED
    BY ONLY <1>1, <1>2, <2>1, <2>2 DEF Fields
<1>5. cip.state = 0 /\ cip.callbacks = {} /\ cip.queue = <<>> /\ cip.sent = <<>>
      /\ toClient = <<>> /\ closing = FALSE /\ due = "nothing"
  BY <1>2 DEF Init
<1>6. InUse(cip) = {} /\ Of(cip.sent) = {} /\ Of(toClient) = {} /\ Sorted(<<>>)
  BY <1>5, OfNone DEF InUse
<1>7. MailOf(cip, toClient, devConns)
  BY <1>5, <1>6 DEF MailOf, Mail, Numbered, InLine, Matched, Opened, Spared
<1>8. CipInv
  BY <1>4, <1>5, <1>6, <1>7
     DEF CipInv, Sound, OnOpen, Staged, Driven, Backed, Waits, AtEnd
<1>9. leftover \subseteq Serials
  BY CipAssumption DEF Init, Serials
<1>10. outcome \in [Requests -> {"idle", "pending", "answered", "rejected"}]
       /\ answer \in [Requests -> Requests \cup {None}]
  BY DEF Init
<1>11. toClient \in Seq([m : Messages,
                         status : {"ok", "unsupported", "duplicate", "refused"}])
  BY <1>5
<1>12. session \in 1 .. MaxSessions /\ devConns \subseteq Serials /\ lost \in BOOLEAN
       /\ failed \in BOOLEAN /\ stranded \subseteq Requests
  BY <1>3 DEF Init
<1> QED
  BY <1>4, <1>5, <1>8, <1>9, <1>10, <1>11, <1>12 DEF TypeOK, CloseSteps

LEMMA IssueSound ==
  ASSUME TypeOK, CipInv, NEW r \in Requests, Issue(r)
  PROVE  TypeOK' /\ CipInv'
<1> DEFINE c == [cip EXCEPT !.queue = Append(@, r)]
<1>1. c \in Fields /\ c.state = cip.state /\ c.sendInfo = cip.sendInfo /\ SameBooks(cip, c)
      /\ c.sent = cip.sent
  <2>1. Append(cip.queue, r) \in Seq(Requests) /\ cip \in Fields
    BY DEF TypeOK, Fields
  <2> QED
    BY <2>1 DEF Fields, SameBooks
<1>2. cip' = SendNext(c) /\ SendNext(c).serial <= MaxSerial
  BY DEF Issue
<1> HIDE DEF c
<1>3. Sound(c, toClient, devConns, closing)
      /\ (Backed(cip, toClient, session) => Backed(c, toClient, session))
  BY <1>1, SameSound DEF CipInv
<1>4. Sound(cip', toClient, devConns, closing) /\ Driven(cip')
      /\ (Current = session /\ Backed(c, toClient, session)
            => Backed(cip', toClient, session))
  BY <1>2, <1>3, Now, SendNextSound
<1>5. CipInv'
  <2>1. CASE due \in {"destroy", "below"}
    BY <1>3, <1>4, <2>1 DEF CipInv, Issue, device
  <2>2. CASE due \notin {"destroy", "below"}
    BY <1>3, <1>4, <2>2, InSession DEF CipInv, Issue, device, AtEnd
  <2> QED
    BY <2>1, <2>2
<1>6. cip' \in Fields
  BY <1>4 DEF Sound
<1>7. outcome' \in [Requests -> {"idle", "pending", "answered", "rejected"}]
      /\ stranded' \subseteq Requests /\ lost' \in BOOLEAN
  BY DEF TypeOK, Issue
<1> QED
  BY <1>5, <1>6, <1>7 DEF TypeOK, Issue, device

LEMMA TickSound ==
  ASSUME TypeOK, CipInv, Tick
  PROVE  TypeOK' /\ CipInv'
<1> DEFINE c == [cip EXCEPT !.ticks = @ - 1]
<1>1. c \in Fields /\ c.state = cip.state /\ c.sendInfo = cip.sendInfo /\ SameBooks(cip, c)
      /\ c.sent = cip.sent /\ c.queue = cip.queue
  <2>1. cip.ticks - 1 \in Nat /\ cip \in Fields
    BY DEF TypeOK, Fields, Tick
  <2> QED
    BY <2>1 DEF Fields, SameBooks
<1>2. cip' = SendNext(c) /\ SendNext(c).serial <= MaxSerial
  BY DEF Tick
<1> HIDE DEF c
<1>3. Sound(c, toClient, devConns, closing)
      /\ (Backed(cip, toClient, session) => Backed(c, toClient, session))
  BY <1>1, SameSound DEF CipInv
<1>4. Sound(cip', toClient, devConns, closing) /\ Driven(cip')
      /\ (Current = session /\ Backed(c, toClient, session)
            => Backed(cip', toClient, session))
  BY <1>2, <1>3, Now, SendNextSound
<1>5. CipInv'
  <2>1. /\ lost \/ Backed(cip, toClient, session)
        /\ \/ lost
           \/ due = "nothing" /\ Current = session
           \/ due = "below" /\ cip.callbacks = {} /\ cip.queue = <<>>
    BY AtWork DEF Tick
  <2>2. cip.queue = <<>> => cip' = c
    BY <1>1, <1>2, NothingToSend
  <2>3. lost \/ Backed(cip', toClient, session)
    BY <1>3, <1>4, <2>1, <2>2, <1>1
  <2>4. lost \/ AtEnd(cip', due)
    BY <1>1, <2>1, <2>2 DEF AtEnd, SameBooks
  <2> QED
    BY <1>4, <2>3, <2>4 DEF CipInv, Tick, history, device
<1>6. cip' \in Fields
  BY <1>4 DEF Sound
<1> QED
  BY <1>5, <1>6 DEF TypeOK, Tick, device, history

LEMMA ResendSound ==
  ASSUME TypeOK, CipInv, Resend
  PROVE  TypeOK' /\ CipInv'
<1>1. PICK last \in cip.resend :
        cip' = Hand(cip, IF cip.sendInfo = None
                           THEN [kind |-> "stale", request |-> last.request]
                           ELSE OnConnection(cip, last.seq, last.request))
  BY DEF Resend
<1> DEFINE m == IF cip.sendInfo = None THEN [kind |-> "stale", request |-> last.request]
                                       ELSE OnConnection(cip, last.seq, last.request)
<1>2. cip \in Fields /\ last \in [seq : SequenceNumbers, request : Requests]
  BY <1>1 DEF TypeOK, Fields
<1>3. m \in Messages /\ ~Internal(m)
  <2>1. CASE cip.sendInfo = None
    BY <1>2, <2>1 DEF Messages, Internal
  <2>2. CASE cip.sendInfo # None
    <3>1. cip.sendInfo \in Serials
      BY <1>2, <2>2 DEF Fields
    <3> QED
      BY <1>2, <2>2, <3>1 DEF Messages, Internal, OnConnection
  <2> QED
    BY <2>1, <2>2
<1> HIDE DEF m
<1>4. cip' = [cip EXCEPT !.sent = Posted(cip, m)] /\ cip' \in Fields
  BY <1>1, <1>3, Now, HandIs DEF m
<1>5. cip'.sent = Posted(cip, m) /\ SameBooks(cip, cip') /\ cip'.state = cip.state
      /\ cip'.sendInfo = cip.sendInfo /\ cip'.queue = cip.queue /\ cip'.ticks = cip.ticks
  BY <1>2, <1>4 DEF Fields, SameBooks
<1>6. Sound(cip', toClient, devConns, closing)
      /\ (Current = session /\ Backed(cip, toClient, session)
            => Backed(cip', toClient, session))
  <2>1. Sound(cip, toClient, devConns, closing) /\ toClient \in Seq(Replies)
        /\ session \in 1 .. MaxSessions /\ closing \in BOOLEAN
    BY Now DEF CipInv
  <2>2. ASSUME NEW d \in Fields, SameBooks(cip, d), d.state = cip.state,
               d.sendInfo = cip.sendInfo, d.sent = Posted(cip, m)
        PROVE  Sound(d, toClient, devConns, closing)
               /\ (Current = session /\ Backed(cip, toClient, session)
                     => Backed(d, toClient, session))
    BY <1>2, <1>3, <2>1, <2>2, PostedSound
  <2> QED
    BY <1>4, <1>5, <2>2
<1>7. Driven(cip')
  BY <1>5 DEF CipInv, Driven, Waits, SameBooks
<1>8. lost \/ Backed(cip', toClient, session)
  <2>1. lost \/ Current = session \/ cip.callbacks = {}
    BY AtWork DEF Resend
  <2>2. cip.callbacks = {} => Backed(cip', toClient, session)
    BY <1>5 DEF Backed, SameBooks
  <2> QED
    BY <1>6, <2>1, <2>2, AtWork DEF Resend
<1>9. lost \/ AtEnd(cip', due)
  BY <1>5 DEF CipInv, AtEnd, SameBooks
<1>10. CipInv'
  BY <1>6, <1>7, <1>8, <1>9 DEF CipInv, Resend, history, device
<1> QED
  BY <1>4, <1>10 DEF TypeOK, Resend, history, device

(* What the device does with the next message: it replies to every one of    *)
(* the layer itself, if the session is still the one it came in on.          *)
LEMMA DeviceReplies ==
  ASSUME Device, NEW x, x = Head(cip.sent)
  PROVE  /\ cip.sent # <<>> /\ cip' = [cip EXCEPT !.sent = Tail(@)]
         /\ \/ /\ toClient' = toClient
               /\ x.session # session \/ ~Internal(x.m)
            \/ \E status \in Statuses :
                 /\ toClient' = Append(toClient, [m |-> x.m, status |-> status])
                 /\ x.m.kind = "open" /\ status = "ok" => x.m.serial \in devConns'
         /\ \A s \in devConns \ devConns' : x.m.kind = "close" /\ x.m.serial = s
         /\ \A s \in devConns' \ devConns : x.m.kind = "open" /\ x.m.serial = s
         /\ leftover' \subseteq leftover
<1>1. cip.sent # <<>> /\ cip' = [cip EXCEPT !.sent = Tail(@)]
  BY DEF Device
<1>2. CASE x.m.kind = "open" /\ DeviceOpens(x)
  <2>1. /\ leftover' \subseteq leftover
        /\ devConns' = devConns \/ devConns' = devConns \cup {x.m.serial}
    BY <1>2 DEF DeviceOpens, device
  <2>2. \/ toClient' = toClient /\ x.session # session
        \/ \E status \in Statuses :
             /\ toClient' = Append(toClient, [m |-> x.m, status |-> status])
             /\ status = "ok" => x.m.serial \in devConns'
    BY <1>2 DEF DeviceOpens, Reply, Statuses
  <2> QED
    BY <1>1, <1>2, <2>1, <2>2
<1>3. CASE x.m.kind = "close" /\ DeviceCloses(x)
  <2>1. leftover' \subseteq leftover /\ devConns' = devConns \ {x.m.serial}
    BY <1>3 DEF DeviceCloses
  <2>2. \/ toClient' = toClient /\ x.session # session
        \/ \E status \in Statuses :
             toClient' = Append(toClient, [m |-> x.m, status |-> status])
    BY <1>3 DEF DeviceCloses, Reply, Statuses
  <2> QED
    BY <1>1, <1>3, <2>1, <2>2
<1>4. CASE /\ x.m.kind = "unconnected" \/ (x.m.kind = "connected" /\ x.m.serial \in Held)
           /\ Reply(x, "ok") /\ UNCHANGED device
  <2>1. \/ toClient' = toClient
        \/ \E status \in Statuses :
             toClient' = Append(toClient, [m |-> x.m, status |-> status])
    BY <1>4 DEF Reply, Statuses
  <2> QED
    BY <1>1, <1>4, <2>1 DEF device, Internal
<1>5. CASE /\ x.m.kind = "stale" \/ (x.m.kind = "connected" /\ x.m.serial \notin Held)
           /\ UNCHANGED <<toClient, device>>
  BY <1>1, <1>5 DEF device, Internal
<1> QED
  BY <1>2, <1>3, <1>4, <1>5 DEF Device

LEMMA OwedTaken ==
  ASSUME NEW c \in Fields, c.sent # <<>>, NEW d, d.sent = Tail(c.sent), NEW replies, NEW s
  PROVE  OwedTo(c, replies, s) \subseteq
           OwedTo(d, replies, s) \cup {m \in {Head(c.sent).m} : Head(c.sent).session = s}
<1> DEFINE q == c.sent
           t == d.sent
<1>1. q \in Seq([session : 0 .. MaxSessions, m : Messages]) /\ q # <<>> /\ t = Tail(q)
  BY DEF Fields
<1> HIDE DEF q, t
<1>2. Len(q) \in Nat /\ DOMAIN q = 1 .. Len(q) /\ DOMAIN t = 1 .. Len(q) - 1
      /\ (\A i \in 1 .. Len(q) - 1 : t[i] = q[i + 1]) /\ Head(q) = q[1]
  BY <1>1
<1>3. SUFFICES ASSUME NEW i \in DOMAIN q, q[i].session = s, i # 1
               PROVE  q[i].m \in {t[j].m : j \in {k \in DOMAIN t : t[k].session = s}}
  BY <1>2 DEF OwedTo, q, t
<1>4. i - 1 \in DOMAIN t /\ t[i - 1] = q[i]
  BY <1>2, <1>3
<1> QED
  BY <1>3, <1>4

LEMMA DeviceSound ==
  ASSUME TypeOK, CipInv, Device
  PROVE  TypeOK' /\ CipInv'
<1> DEFINE x == Head(cip.sent)
<1>0. cip \in Fields /\ toClient \in Seq(Replies) /\ session \in 1 .. MaxSessions
  BY Now
<1>1. /\ cip.sent # <<>> /\ cip' = [cip EXCEPT !.sent = Tail(@)]
      /\ \/ /\ toClient' = toClient
            /\ x.session # session \/ ~Internal(x.m)
         \/ \E status \in Statuses :
              /\ toClient' = Append(toClient, [m |-> x.m, status |-> status])
              /\ x.m.kind = "open" /\ status = "ok" => x.m.serial \in devConns'
      /\ \A s \in devConns \ devConns' : x.m.kind = "close" /\ x.m.serial = s
      /\ \A s \in devConns' \ devConns : x.m.kind = "open" /\ x.m.serial = s
      /\ leftover' \subseteq leftover
  BY DeviceReplies
<1>2. cip.sent \in Seq(Parcels) /\ x \in Parcels /\ Tail(cip.sent) \in Seq(Parcels)
      /\ x.m \in Messages
  <2>1. cip.sent \in Seq(Parcels)
    BY <1>0 DEF Fields, Parcels
  <2>2. x \in Parcels /\ Tail(cip.sent) \in Seq(Parcels)
    BY <1>1, <2>1
  <2> QED
    BY <2>1, <2>2 DEF Parcels
<1>3. cip' \in Fields /\ cip'.sent = Tail(cip.sent) /\ SameBooks(cip, cip')
      /\ cip'.state = cip.state /\ cip'.sendInfo = cip.sendInfo
      /\ cip'.queue = cip.queue /\ cip'.ticks = cip.ticks
  BY <1>0, <1>1, <1>2 DEF Fields, SameBooks, Parcels
<1>4. MailTypes(cip.callbacks, cip.context, cip.serial, cip.sent, toClient, InUse(cip))
  BY <1>0, MailTypesOf
<1>5. Mail(cip.callbacks, cip.context, cip.serial, cip.sent, toClient, devConns, InUse(cip))
  BY DEF CipInv, Sound, MailOf
<1> HIDE DEF x
<1>6. /\ Mail(cip.callbacks, cip.context, cip.serial, Tail(cip.sent), toClient, devConns',
              InUse(cip))
      /\ \A status \in Statuses :
           (x.m.kind = "open" /\ status = "ok" => x.m.serial \in devConns')
             => Mail(cip.callbacks, cip.context, cip.serial, Tail(cip.sent),
                     Append(toClient, [m |-> x.m, status |-> status]), devConns', InUse(cip))
      /\ \A s \in InUse(cip) :
           s \in devConns' \/ s \notin devConns \/ \E cb \in cip.callbacks : Closes(cb)
  <2> SUFFICES ASSUME NEW held, \A s \in devConns \ held : x.m.kind = "close" /\ x.m.serial = s
               PROVE  /\ Mail(cip.callbacks, cip.context, cip.serial, Tail(cip.sent), toClient,
                              held, InUse(cip))
                      /\ \A status \in Statuses :
                           (x.m.kind = "open" /\ status = "ok" => x.m.serial \in held)
                             => Mail(cip.callbacks, cip.context, cip.serial, Tail(cip.sent),
                                     Append(toClient, [m |-> x.m, status |-> status]),
                                     held, InUse(cip))
                      /\ \A s \in InUse(cip) :
                           s \in held \/ s \notin devConns \/ \E cb \in cip.callbacks : Closes(cb)
    BY <1>1
  <2>1. x = Head(cip.sent)
    BY DEF x
  <2>2. cip.sent # <<>>
    BY <1>1
  <2>3. PICK cbs, ctx, ser, sent, con :
          /\ cbs = cip.callbacks /\ ctx = cip.context /\ ser = cip.serial
          /\ sent = cip.sent /\ con = InUse(cip)
    OBVIOUS
  <2>4. MailTypes(cbs, ctx, ser, sent, toClient, con)
        /\ Mail(cbs, ctx, ser, sent, toClient, devConns, con)
        /\ sent # <<>> /\ x = Head(sent)
    BY <1>4, <1>5, <2>1, <2>2, <2>3
  <2>5. /\ Mail(cbs, ctx, ser, Tail(sent), toClient, held, con)
        /\ \A status \in Statuses :
             (x.m.kind = "open" /\ status = "ok" => x.m.serial \in held)
               => Mail(cbs, ctx, ser, Tail(sent),
                       Append(toClient, [m |-> x.m, status |-> status]), held, con)
        /\ \A s \in con : s \in held \/ s \notin devConns \/ \E cb \in cbs : Closes(cb)
    BY <2>4, MailTaken
  <2> QED
    BY <2>3, <2>5
<1>7. InUse(cip') = InUse(cip)
  BY <1>3 DEF InUse
<1>8. MailOf(cip', toClient', devConns')
  BY <1>1, <1>3, <1>6, <1>7 DEF MailOf, SameBooks
<1>9. OnOpen(cip', devConns') /\ Staged(cip', closing) /\ Driven(cip')
  <2>1. OnOpen(cip, devConns) /\ Staged(cip, closing) /\ Driven(cip)
    BY DEF CipInv, Sound
  <2> QED
    BY <1>3, <1>6, <1>7, <2>1 DEF OnOpen, Staged, Driven, Waits, SameBooks
<1>10. ASSUME Backed(cip, toClient, session) PROVE Backed(cip', toClient', session)
  <2>1. OwedTo(cip, toClient, session) \subseteq
           OwedTo(cip', toClient, session) \cup {m \in {x.m} : x.session = session}
    <3>1. ASSUME NEW d, d.sent = Tail(cip.sent)
          PROVE  OwedTo(cip, toClient, session) \subseteq
                   OwedTo(d, toClient, session)
                     \cup {m \in {Head(cip.sent).m} : Head(cip.sent).session = session}
      BY <1>0, <1>1, <3>1, OwedTaken
    <3> QED
      BY <1>3, <3>1 DEF x
  <2>2. CASE toClient' = toClient /\ (x.session # session \/ ~Internal(x.m))
    BY <1>3, <1>10, <2>1, <2>2 DEF Backed, SameBooks
  <2>3. ASSUME NEW status \in Statuses,
               toClient' = Append(toClient, [m |-> x.m, status |-> status])
        PROVE  Backed(cip', toClient', session)
    <3> DEFINE y == [m |-> x.m, status |-> status]
    <3>1. y \in Replies /\ y.m = x.m
      BY <1>2 DEF Replies
    <3> HIDE DEF y
    <3>2. Of(toClient') = Of(toClient) \cup {x.m}
      BY <1>0, <2>3, <3>1, OfAppend DEF y
    <3>3. OwedTo(cip, toClient, session) \subseteq OwedTo(cip', toClient', session)
      BY <2>1, <3>2 DEF OwedTo
    <3> QED
      BY <1>3, <1>10, <3>3 DEF Backed, SameBooks
  <2> QED
    BY <1>1, <2>2, <2>3
<1>11. toClient' \in Seq([m : Messages,
                          status : {"ok", "unsupported", "duplicate", "refused"}])
  <2>1. ASSUME NEW status \in Statuses PROVE [m |-> x.m, status |-> status] \in Replies
    BY <1>2 DEF Replies
  <2>2. ASSUME NEW status \in Statuses,
               toClient' = Append(toClient, [m |-> x.m, status |-> status])
        PROVE  toClient' \in Seq(Replies)
    <3> DEFINE y == [m |-> x.m, status |-> status]
    <3>1. y \in Replies /\ toClient' = Append(toClient, y)
      BY <2>1, <2>2
    <3> HIDE DEF y
    <3> QED
      BY <1>0, <3>1
  <2>3. toClient' \in Seq(Replies)
    BY <1>0, <1>1, <2>2
  <2> QED
    BY <2>3 DEF Replies, Statuses
<1>12. devConns' \subseteq Serials /\ leftover' \subseteq Serials
  <2>1. x.m.kind = "open" => x.m.serial \in Serials
    BY <1>2, MessageParts
  <2> QED
    BY <1>1, <2>1 DEF TypeOK
<1>13. UNCHANGED <<closing, due, session, outcome, answer, lost, failed, stranded>>
  BY DEF Device, history
<1>14. lost \/ AtEnd(cip', due)
  BY <1>3 DEF CipInv, AtEnd, SameBooks
<1>15. CipInv'
  BY <1>3, <1>8, <1>9, <1>10, <1>13, <1>14 DEF CipInv, Sound
<1> QED
  BY <1>3, <1>11, <1>12, <1>13, <1>15 DEF TypeOK

LEMMA ExpireSound ==
  ASSUME TypeOK, CipInv, Expire
  PROVE  TypeOK' /\ CipInv'
  BY DEF TypeOK, CipInv, Expire, history

LEMMA LoseSound ==
  ASSUME TypeOK, CipInv, Lose
  PROVE  TypeOK' /\ CipInv'
<1>1. toClient # <<>> /\ toClient \in Seq(Replies) /\ toClient' = Tail(toClient) /\ lost'
  BY Now DEF Lose
<1>2. Sound(cip, Tail(toClient), devConns, closing)
  BY <1>1, DroppedSound DEF CipInv
<1>3. Tail(toClient) \in Seq(Replies)
  BY <1>1
<1>4. CipInv'
  BY <1>1, <1>2 DEF CipInv, Lose, device
<1> QED
  BY <1>1, <1>3, <1>4 DEF TypeOK, Lose, device, Replies, Statuses

LEMMA UnconnectedReplySound ==
  ASSUME TypeOK, CipInv, UnconnectedReply
  PROVE  TypeOK' /\ CipInv'
<1> DEFINE h == Head(toClient)
<1>1. toClient # <<>> /\ toClient \in Seq(Replies) /\ toClient' = Tail(toClient)
      /\ h.m.kind = "unconnected" /\ Settle(h.m.request, h.m.request)
  BY Now DEF UnconnectedReply
<1>2. Tail(toClient) \in Seq(Replies) /\ h \in Replies
  BY <1>1
<1>3. h.m.request \in Requests
  BY <1>1, <1>2, MessageParts DEF Replies
<1>4. outcome' \in [Requests -> {"idle", "pending", "answered", "rejected"}]
      /\ answer' \in [Requests -> Requests \cup {None}]
  BY <1>1, <1>3, SettleTypes
<1>5. ~Internal(h.m)
  BY <1>1 DEF Internal
<1>6. Sound(cip, Tail(toClient), devConns, closing)
      /\ (Backed(cip, toClient, session) => Backed(cip, Tail(toClient), session))
  BY <1>1, <1>5, DroppedSound DEF CipInv
<1>7. CipInv'
  BY <1>1, <1>6 DEF CipInv, UnconnectedReply, device, history
<1> QED
  BY <1>1, <1>2, <1>4, <1>7 DEF TypeOK, UnconnectedReply, device, history, Replies, Statuses

LEMMA ConnectedReplySound ==
  ASSUME TypeOK, CipInv, ConnectedReply
  PROVE  TypeOK' /\ CipInv'
<1> DEFINE h == Head(toClient)
           r == cip.idContext[h.m.seq]
<1>1. toClient # <<>> /\ toClient \in Seq(Replies) /\ toClient' = Tail(toClient)
      /\ h.m.kind = "connected"
  BY Now DEF ConnectedReply
<1>2. Tail(toClient) \in Seq(Replies) /\ h \in Replies
  BY <1>1
<1>3. h.m.request \in Requests /\ h.m.seq \in SequenceNumbers
  BY <1>1, <1>2, MessageParts DEF Replies
<1>4. ~Internal(h.m)
  BY <1>1 DEF Internal
<1>5. Sound(cip, Tail(toClient), devConns, closing) /\ cip \in Fields
      /\ (Backed(cip, toClient, session) => Backed(cip, Tail(toClient), session))
  BY <1>1, <1>4, DroppedSound DEF CipInv, Sound
<1>6. r \in Requests \cup {None}
  BY <1>3, <1>5 DEF Fields
<1>7. CASE UNCHANGED <<cip, outcome, answer>>
  <2>1. CipInv'
    BY <1>1, <1>5, <1>7 DEF CipInv, ConnectedReply, device, history
  <2> QED
    BY <1>1, <1>2, <1>7, <2>1 DEF TypeOK, ConnectedReply, device, history, Replies, Statuses
<1>8. CASE /\ r # None /\ cip' = [cip EXCEPT !.idContext[h.m.seq] = None]
           /\ Settle(r, h.m.request)
  <2>1. outcome' \in [Requests -> {"idle", "pending", "answered", "rejected"}]
        /\ answer' \in [Requests -> Requests \cup {None}]
    BY <1>3, <1>6, <1>8, SettleTypes
  <2>2. [cip.idContext EXCEPT ![h.m.seq] = None] \in [SequenceNumbers -> Requests \cup {None}]
    BY <1>3, <1>5 DEF Fields
  <2> HIDE DEF h, r
  <2>3. cip' \in Fields /\ cip'.state = cip.state /\ cip'.sendInfo = cip.sendInfo
        /\ SameBooks(cip, cip') /\ cip'.sent = cip.sent /\ cip'.queue = cip.queue
        /\ cip'.ticks = cip.ticks
    BY <1>5, <1>8, <2>2 DEF Fields, SameBooks
  <2>4. Sound(cip', Tail(toClient), devConns, closing)
        /\ (Backed(cip, Tail(toClient), session) => Backed(cip', Tail(toClient), session))
    BY <1>5, <2>3, SameSound
  <2>5. Driven(cip')
    BY <2>3 DEF CipInv, Driven, Waits, SameBooks
  <2>6. lost \/ AtEnd(cip', due)
    BY <2>3 DEF CipInv, AtEnd, SameBooks
  <2>7. CipInv'
    BY <1>1, <1>5, <2>4, <2>5, <2>6 DEF CipInv, ConnectedReply, device, history
  <2> QED
    BY <1>1, <1>2, <2>1, <2>3, <2>7
       DEF TypeOK, ConnectedReply, device, history, Replies, Statuses
<1> QED
  BY <1>7, <1>8 DEF ConnectedReply

-----------------------------------------------------------------------------
(* What a handler of a reply leaves, in the variables it may change.         *)
Kept ==
  /\ Sound(cip', toClient', devConns, closing') /\ Driven(cip')
  /\ closing' => due' = "nothing"
  /\ closing' \/ due' = "disconnect" => session' < MaxSessions
  /\ lost \/ due' = "destroy" \/ Backed(cip', toClient', session')
  /\ lost \/ AtEnd(cip', due')
  /\ toClient' \in Seq(Replies) /\ session' \in 1 .. MaxSessions
  /\ closing' \in BOOLEAN /\ due' \in CloseSteps
  /\ outcome' \in [Requests -> {"idle", "pending", "answered", "rejected"}]

LEMMA ContinueKept ==
  ASSUME TypeOK, CipInv, toClient # <<>>, NEW d, Continue(d), Driven(d),
         Sound(d, Tail(toClient), devConns, closing),
         lost \/ (due = "nothing" /\ Backed(d, Tail(toClient), session))
  PROVE  Kept
<1>1. cip' = d /\ toClient' = Tail(toClient) /\ closing' = closing /\ session' = session
      /\ outcome' = outcome /\ due' = due
  BY DEF Continue
<1>2. Tail(toClient) \in Seq(Replies) /\ session \in 1 .. MaxSessions /\ closing \in BOOLEAN
  BY Now
<1> QED
  BY <1>1, <1>2 DEF Kept, TypeOK, CipInv, AtEnd

(* The session is over and the layer, destroyed, is what d is.               *)
LEMMA EndKept ==
  ASSUME TypeOK, session < MaxSessions, NEW c \in Fields, NEW replies \in Seq(Replies),
         MailOf(c, replies, devConns), SessionOver,
         cip' = Destroyed(c) \/ SomeArrive(Destroyed(c)),
         due' \in {"nothing", "below", "destroy"},
         outcome' \in [Requests -> {"idle", "pending", "answered", "rejected"}]
  PROVE  Kept
<1> DEFINE d == Destroyed(c)
<1>1. closing' = FALSE /\ toClient' = <<>> /\ session' \in 1 .. MaxSessions
  BY Now, Constants DEF SessionOver
<1>2. d \in Fields /\ d.state = 0 /\ d.callbacks = {} /\ d.queue = <<>>
      /\ d.context = c.context /\ d.serial = c.serial /\ d.sent = c.sent
  BY DestroyedParts
<1>3. Sorted(c.sent) /\ Of(<<>>) \subseteq Of(replies) /\ Sorted(<<>>)
  BY OfNone DEF MailOf, Mail, InLine
<1> HIDE DEF d
<1>4. cip' \in Fields /\ cip'.state = 0 /\ cip'.callbacks = {} /\ cip'.queue = <<>>
      /\ cip'.context = c.context /\ cip'.serial = c.serial
      /\ Sorted(cip'.sent) /\ Of(cip'.sent) \subseteq Of(c.sent)
  <2>1. CASE cip' = d
    BY <1>2, <1>3, <2>1
  <2>2. CASE SomeArrive(d)
    BY <1>2, <1>3, <2>2, SomeArriveIs DEF SameBooks
  <2> QED
    BY <2>1, <2>2 DEF d
<1>5. Sound(cip', <<>>, devConns, FALSE) /\ Driven(cip')
      /\ \A s : Backed(cip', <<>>, s)
  BY <1>3, <1>4, DestroyedSound
<1>6. <<>> \in Seq(Replies)
  OBVIOUS
<1> QED
  BY <1>1, <1>4, <1>5, <1>6 DEF Kept, AtEnd, CloseSteps

LEMMA DestroyLayerKept ==
  ASSUME TypeOK, CipInv, NoMicrotask, toClient # <<>>, NEW c \in Fields,
         MailOf(c, Tail(toClient), devConns), DestroyLayer(c)
  PROVE  Kept
<1>1. Tail(toClient) \in Seq(Replies) /\ session \in 1 .. MaxSessions /\ closing \in BOOLEAN
      /\ due \in CloseSteps
  BY Now
<1>2. outcome' \in [Requests -> {"idle", "pending", "answered", "rejected"}]
  BY RejectTypes DEF DestroyLayer, TypeOK
<1>3. CASE closing /\ SessionOver /\ due' \in {"below", "destroy"} /\ cip' = Destroyed(c)
  BY <1>1, <1>2, <1>3, EndKept DEF CipInv
<1>4. CASE /\ ~closing /\ cip' = Destroyed(c) /\ toClient' = Tail(toClient)
           /\ UNCHANGED <<closing, due, session>>
  <2> DEFINE d == Destroyed(c)
  <2>1. /\ Sound(d, Tail(toClient), devConns, FALSE) /\ Driven(d)
        /\ \A s : Backed(d, Tail(toClient), s)
        /\ d.state = 0 /\ d.callbacks = {} /\ d.queue = <<>>
    BY <1>1, DestroyedKept
  <2>2. cip' = d /\ closing' = FALSE /\ toClient' = Tail(toClient) /\ session' = session
        /\ due' = due
    BY <1>1, <1>4
  <2>3. due # "disconnect"
    BY DEF NoMicrotask
  <2> HIDE DEF d
  <2> QED
    BY <1>1, <1>2, <2>1, <2>2, <2>3 DEF Kept, AtEnd
<1> QED
  BY <1>3, <1>4 DEF DestroyLayer

(* The callback cb takes its reply h, and c is the record without it.        *)
Takes(c, h, cb) ==
  /\ c \in Fields /\ c.state = cip.state /\ c.sendInfo = cip.sendInfo
  /\ SameQueue(cip, c) /\ c.callbacks = cip.callbacks \ {cb}
  /\ cb \in cip.callbacks /\ h \in Replies /\ (h.m.kind = "open" <=> cb.purpose = "open")
  /\ MailOf(c, Tail(toClient), devConns)
  /\ h.m.kind = "open" =>
       /\ Mail(c.callbacks, c.context, c.serial, c.sent, Tail(toClient), devConns,
               {h.m.serial})
       /\ h.status = "ok" => h.m.serial \in devConns \/ \E b \in c.callbacks : Closes(b)
  /\ lost \/ /\ due = "nothing" /\ Current = session
             /\ Backed(c, Tail(toClient), session)

LEMMA CallbackTaken ==
  ASSUME TypeOK, CipInv, NoMicrotask, toClient # <<>>, NEW h, h = Head(toClient), Internal(h.m),
         NEW cb \in cip.callbacks, cb.id = h.m.id,
         NEW left, \A b : b \in left <=> b \in cip.callbacks /\ b.id # h.m.id,
         NEW c, c = [cip EXCEPT !.callbacks = left]
  PROVE  Takes(c, h, cb)
<1> DEFINE t == Tail(toClient)
<1>1. cip \in Fields /\ toClient \in Seq(Replies) /\ h \in Replies
  BY Now
<1>2. left \in SUBSET [id : Nat, purpose : {"open", "close", "reclose"}]
  BY <1>1 DEF Fields
<1>3. MailTypes(cip.callbacks, cip.context, cip.serial, cip.sent, toClient, InUse(cip))
  BY <1>1, MailTypesOf
<1>4. Mail(cip.callbacks, cip.context, cip.serial, cip.sent, toClient, devConns, InUse(cip))
  BY DEF CipInv, Sound, MailOf
<1>5. Of(toClient) = Of(t) \cup {h.m}
  BY <1>1, OfTail
<1>6. left = cip.callbacks \ {cb}
  BY <1>4 DEF Mail, Numbered
<1>7. h.m.kind = "open" <=> cb.purpose = "open"
  BY <1>4, <1>5 DEF Mail, Matched
<1> HIDE DEF t
<1>9. /\ Mail(left, cip.context, cip.serial, cip.sent, t, devConns, InUse(cip))
      /\ h.m.kind = "open"
           => /\ Mail(left, cip.context, cip.serial, cip.sent, t, devConns, {h.m.serial})
              /\ h.status = "ok" => h.m.serial \in devConns \/ \E b \in left : Closes(b)
  <2>1. Filed(cip.callbacks, h.m)
    BY DEF Filed
  <2>2. PICK cbs, ctx, ser, sent, con :
          /\ cbs = cip.callbacks /\ ctx = cip.context /\ ser = cip.serial
          /\ sent = cip.sent /\ con = InUse(cip)
    OBVIOUS
  <2>3. MailTypes(cbs, ctx, ser, sent, toClient, con)
        /\ Mail(cbs, ctx, ser, sent, toClient, devConns, con) /\ Filed(cbs, h.m)
        /\ \A b : b \in left <=> b \in cbs /\ b.id # h.m.id
    BY <1>3, <1>4, <2>1, <2>2
  <2>4. Mail(left, ctx, ser, sent, Tail(toClient), devConns, con)
    BY <2>3, MailSettled
  <2>5. ASSUME h.m.kind = "open"
        PROVE  /\ Mail(left, ctx, ser, sent, Tail(toClient), devConns, {h.m.serial})
               /\ h.status = "ok" => h.m.serial \in devConns \/ \E b \in left : Closes(b)
    <3>1. /\ MailTypes(cbs, ctx, ser, sent, toClient, con)
          /\ Mail(cbs, ctx, ser, sent, toClient, devConns, con) /\ toClient # <<>>
          /\ h = Head(toClient) /\ Internal(h.m) /\ Filed(cbs, h.m) /\ h.m.kind = "open"
          /\ \A b : b \in left <=> b \in cbs /\ b.id # h.m.id
      BY <2>3, <2>5
    <3> QED
      BY ONLY <3>1, MailSettled
  <2> QED
    BY <2>2, <2>3, <2>4, <2>5 DEF t
<1>10. ASSUME Backed(cip, toClient, session),
              NEW b \in left
       PROVE  \E m \in OwedTo(cip, t, session) : Internal(m) /\ m.id = b.id
  <2>1. PICK m \in OwedTo(cip, toClient, session) : Internal(m) /\ m.id = b.id
    BY <1>10 DEF Backed
  <2>2. m # h.m
    BY <2>1
  <2> QED
    BY <1>5, <2>1, <2>2 DEF OwedTo
<1>11. c \in Fields /\ c.state = cip.state /\ c.sendInfo = cip.sendInfo
       /\ SameQueue(cip, c) /\ c.callbacks = left
       /\ c.context = cip.context /\ c.serial = cip.serial /\ c.sent = cip.sent
  BY <1>1, <1>2 DEF Fields, SameQueue
<1>12. InUse(c) = InUse(cip)
  BY <1>11 DEF InUse
<1>13. MailOf(c, t, devConns)
  BY <1>9, <1>11, <1>12 DEF MailOf
<1>14. Backed(cip, toClient, session) => Backed(c, t, session)
  BY <1>10, <1>11 DEF Backed, OwedTo
<1>15. lost \/ (due = "nothing" /\ Current = session /\ Backed(cip, toClient, session))
  BY AtWork
<1> QED
  BY <1>1, <1>6, <1>7, <1>9, <1>11, <1>13, <1>14, <1>15 DEF Takes, t

LEMMA OpenReplyKept ==
  ASSUME TypeOK, CipInv, NoMicrotask, toClient # <<>>,
         NEW h, NEW c, NEW cb, Takes(c, h, cb), cb.purpose = "open", OpenReply(c, h), cip'.serial <= MaxSerial
  PROVE  Kept
<1> DEFINE t == Tail(toClient)
<1>1. c \in Fields /\ c.state = cip.state /\ c.sendInfo = cip.sendInfo /\ SameQueue(cip, c)
      /\ c.callbacks = cip.callbacks \ {cb} /\ h.m.serial \in Serials
  BY MessageParts DEF Takes, Replies
<1>2. /\ MailOf(c, t, devConns)
      /\ Mail(c.callbacks, c.context, c.serial, c.sent, t, devConns, {h.m.serial})
      /\ h.status = "ok" => h.m.serial \in devConns \/ \E b \in c.callbacks : Closes(b)
      /\ lost \/ (due = "nothing" /\ Current = session /\ Backed(c, t, session))
  BY DEF Takes
<1>3. t \in Seq(Replies) /\ session \in 1 .. MaxSessions /\ closing \in BOOLEAN
  BY Now
<1>4. /\ cip.state = -1 => closing
      /\ closing <=> Waits(c, "close")
      /\ cip.state = 2 => cip.sendInfo # None
  BY <1>1, <1>2 DEF CipInv, Sound, Staged, Waits
<1> HIDE DEF t
<1>5. CASE h.status = "ok" /\ c.state = 1
  <2> DEFINE e == [c EXCEPT !.sendInfo = h.m.serial, !.state = 2]
             d == SendNext(e)
  <2>1. e \in Fields /\ e.state = 2 /\ e.sendInfo = h.m.serial /\ SameBooks(c, e)
        /\ e.sent = c.sent
    BY <1>1 DEF Fields, SameBooks
  <2>2. Continue(d)
    BY <1>5 DEF OpenReply
  <2>3. d.serial <= MaxSerial
    BY <2>2 DEF Continue
  <2> HIDE DEF e
  <2>4. InUse(e) = {h.m.serial} /\ h.m.serial # None
    BY <1>1, <2>1, Constants DEF InUse
  <2>5. Sound(e, t, devConns, closing)
    <3>1. MailOf(e, t, devConns)
      BY <1>2, <2>1, <2>4 DEF MailOf, SameBooks
    <3>2. OnOpen(e, devConns) /\ Staged(e, closing)
      BY <1>2, <1>4, <1>5, <2>1, <2>4 DEF OnOpen, Staged, Waits, SameBooks
    <3> QED
      BY <2>1, <3>1, <3>2 DEF Sound
  <2>6. Backed(c, t, session) => Backed(e, t, session)
    BY <2>1 DEF Backed, OwedTo, SameBooks
  <2>7. Sound(d, t, devConns, closing) /\ Driven(d)
        /\ (Current = session /\ Backed(e, t, session) => Backed(d, t, session))
    BY <1>3, <2>3, <2>5, SendNextSound
  <2> HIDE DEF d
  <2> QED
    BY <1>2, <2>2, <2>6, <2>7, ContinueKept DEF t
<1>6. CASE h.status = "ok" /\ c.state # 1
  <2>1. Continue(c)
    BY <1>6 DEF OpenReply
  <2>2. InUse(c) = InUse(cip) /\ (\A b \in cip.callbacks : Closes(b) => b \in c.callbacks)
        /\ (Waits(cip, "reclose") => Waits(c, "reclose"))
    BY <1>1 DEF InUse, Closes, Waits
  <2>3. OnOpen(c, devConns)
    BY <2>2 DEF OnOpen, CipInv, Sound
  <2>4. Staged(c, closing)
    BY <1>1, <1>4, <1>6 DEF Staged
  <2>5. Driven(c)
    BY <1>1, <2>2 DEF Driven, CipInv, SameQueue
  <2> QED
    BY <1>1, <1>2, <1>4, <2>1, <2>3, <2>4, <2>5, ContinueKept DEF Sound, t
<1>7. CASE h.status = "unsupported"
  <2> DEFINE e == [c EXCEPT !.state = 0, !.large = FALSE]
             d == Connect(e)
  <2>1. e \in Fields /\ e.state = 0 /\ SameBooks(c, e) /\ e.sent = c.sent
    BY <1>1 DEF Fields, SameBooks
  <2>2. Continue(d)
    BY <1>7 DEF OpenReply
  <2>3. d.serial <= MaxSerial
    BY <2>2 DEF Continue
  <2> HIDE DEF e
  <2>4. MailOf(e, t, devConns) /\ (closing <=> Waits(e, "close"))
    <3>1. InUse(e) = {}
      BY <2>1 DEF InUse
    <3> QED
      BY <1>2, <1>4, <2>1, <3>1, MailLess DEF MailOf, SameBooks, Waits
  <2>5. Backed(c, t, session) => Backed(e, t, session)
    BY <2>1 DEF Backed, OwedTo, SameBooks
  <2>6. Sound(d, t, devConns, closing) /\ Driven(d)
        /\ (Current = session /\ Backed(e, t, session) => Backed(d, t, session))
    BY <1>3, <2>1, <2>3, <2>4, ConnectSound
  <2> HIDE DEF d
  <2> QED
    BY <1>2, <2>2, <2>5, <2>6, ContinueKept DEF t
<1>8. CASE h.status = "duplicate" /\ ~c.again
  <2> DEFINE e == [c EXCEPT !.state = 0, !.again = TRUE,
                            !.misnamed = @ \/ c.serial # h.m.serial]
             d == SendClose(e, "reclose")
  <2>1. e \in Fields /\ e.state = 0 /\ SameBooks(c, e) /\ e.sent = c.sent
    BY <1>1 DEF Fields, SameBooks
  <2>2. Continue(d)
    BY <1>8 DEF OpenReply
  <2> HIDE DEF e
  <2>3. d \in Fields /\ d.state = 0 /\ AsksToClose(e, d, "reclose")
    BY <1>3, <2>1, SendCloseParts
  <2>4. MailOf(e, t, devConns) /\ (closing <=> Waits(e, "close"))
    <3>1. InUse(e) = {}
      BY <2>1 DEF InUse
    <3> QED
      BY <1>2, <1>4, <2>1, <3>1, MailLess DEF MailOf, SameBooks, Waits
  <2>5. Backed(c, t, session) => Backed(e, t, session)
    BY <2>1 DEF Backed, OwedTo, SameBooks
  <2> HIDE DEF d
  <2>6. /\ MailOf(d, t, devConns) /\ OnOpen(d, devConns)
        /\ \A q : Waits(d, q) <=> Waits(e, q) \/ q = "reclose"
        /\ Current = session /\ Backed(e, t, session) => Backed(d, t, session)
    BY <1>3, <2>1, <2>3, <2>4, ClosesSound
  <2>7. Sound(d, t, devConns, closing) /\ Driven(d)
    BY <2>3, <2>4, <2>6 DEF Sound, Staged, Driven
  <2> QED
    BY <1>2, <2>2, <2>5, <2>6, <2>7, ContinueKept DEF t
<1>9. CASE DestroyLayer(c)
  BY <1>1, <1>2, <1>9, DestroyLayerKept DEF t
<1> QED
  BY <1>5, <1>6, <1>7, <1>8, <1>9 DEF OpenReply

LEMMA RecloseReplyKept ==
  ASSUME TypeOK, CipInv, NoMicrotask, toClient # <<>>,
         NEW h, NEW c, NEW cb, Takes(c, h, cb), cb.purpose = "reclose", RecloseReply(c, h), cip'.serial <= MaxSerial
  PROVE  Kept
<1> DEFINE t == Tail(toClient)
<1>1. c \in Fields /\ c.callbacks = cip.callbacks \ {cb} /\ MailOf(c, t, devConns)
      /\ (lost \/ (due = "nothing" /\ Current = session /\ Backed(c, t, session)))
  BY DEF Takes
<1>2. t \in Seq(Replies) /\ session \in 1 .. MaxSessions /\ closing \in BOOLEAN
  BY Now
<1>3. closing <=> Waits(c, "close")
  BY <1>1 DEF CipInv, Sound, Staged, Waits
<1> HIDE DEF t
<1>4. CASE h.status = "ok"
  <2> DEFINE e == [c EXCEPT !.state = 0, !.again = FALSE]
             d == Connect(e)
  <2>1. e \in Fields /\ e.state = 0 /\ SameBooks(c, e) /\ e.sent = c.sent
    BY <1>1 DEF Fields, SameBooks
  <2>2. Continue(d)
    BY <1>4 DEF RecloseReply
  <2>3. d.serial <= MaxSerial
    BY <2>2 DEF Continue
  <2> HIDE DEF e
  <2>4. MailOf(e, t, devConns) /\ (closing <=> Waits(e, "close"))
    <3>1. InUse(e) = {}
      BY <2>1 DEF InUse
    <3> QED
      BY <1>1, <1>3, <2>1, <3>1, MailLess DEF MailOf, SameBooks, Waits
  <2>5. Backed(c, t, session) => Backed(e, t, session)
    BY <2>1 DEF Backed, OwedTo, SameBooks
  <2>6. Sound(d, t, devConns, closing) /\ Driven(d)
        /\ (Current = session /\ Backed(e, t, session) => Backed(d, t, session))
    BY <1>2, <2>1, <2>3, <2>4, ConnectSound
  <2> HIDE DEF d
  <2> QED
    BY <1>1, <2>2, <2>5, <2>6, ContinueKept DEF t
<1>5. CASE DestroyLayer(c)
  BY <1>1, <1>5, DestroyLayerKept DEF t
<1> QED
  BY <1>4, <1>5 DEF RecloseReply

LEMMA CloseReplyKept ==
  ASSUME TypeOK, CipInv, NoMicrotask, toClient # <<>>,
         NEW h, NEW c, NEW cb, Takes(c, h, cb), cb.purpose = "close", CloseReply(c, h)
  PROVE  Kept
<1>1. c \in Fields /\ cb \in cip.callbacks /\ MailOf(c, Tail(toClient), devConns)
  BY DEF Takes
<1>2. Tail(toClient) \in Seq(Replies)
  BY Now
<1>3. session < MaxSessions
  BY <1>1 DEF CipInv, Sound, Staged, Waits
<1>4. CASE FinishClose(c)
  <2>1. SessionOver /\ cip' = Destroyed(c) /\ due' = "below"
        /\ outcome' \in [Requests -> {"idle", "pending", "answered", "rejected"}]
    BY <1>4, RejectTypes DEF FinishClose, DestroyInClose, TypeOK
  <2> QED
    BY <1>1, <1>2, <1>3, <2>1, EndKept
<1>5. CASE DestroyLayer(c)
  BY <1>1, <1>5, DestroyLayerKept
<1> QED
  BY <1>4, <1>5 DEF CloseReply

LEMMA InternalReplySound ==
  ASSUME TypeOK, CipInv, InternalReply
  PROVE  TypeOK' /\ CipInv'
<1> DEFINE h == Head(toClient)
           onFile == {cb \in cip.callbacks : cb.id = h.m.id}
           c == [cip EXCEPT !.callbacks = @ \ onFile]
<1>1. /\ toClient # <<>> /\ NoMicrotask /\ Internal(h.m) /\ cip'.serial <= MaxSerial
      /\ \/ /\ onFile = {}
            /\ toClient' = Tail(toClient)
            /\ UNCHANGED <<cip, closing, due, session, outcome>>
         \/ \E cb \in onFile :
              \/ cb.purpose = "open" /\ OpenReply(c, h)
              \/ cb.purpose = "reclose" /\ RecloseReply(c, h)
              \/ cb.purpose = "close" /\ CloseReply(c, h)
      /\ UNCHANGED <<devConns, leftover, answer, lost, failed, stranded>>
  BY DEF InternalReply, device, history, Internal
<1>2. ASSUME onFile = {}, toClient' = Tail(toClient),
             UNCHANGED <<cip, closing, due, session, outcome>>
      PROVE  Kept
  <2>1. toClient \in Seq(Replies) /\ Tail(toClient) \in Seq(Replies)
        /\ session \in 1 .. MaxSessions /\ closing \in BOOLEAN
    BY <1>1, Now
  <2>2. ~Filed(cip.callbacks, h.m)
    BY <1>2 DEF Filed
  <2>3. Sound(cip, Tail(toClient), devConns, closing)
        /\ (Backed(cip, toClient, session) => Backed(cip, Tail(toClient), session))
    BY <1>1, <2>1, <2>2, DroppedSound DEF CipInv
  <2> QED
    BY <1>2, <2>1, <2>3 DEF Kept, CipInv, TypeOK
<1>3. ASSUME NEW cb \in onFile PROVE Takes(c, h, cb)
  <2> HIDE DEF h
  <2>1. h = Head(toClient) /\ cb \in cip.callbacks /\ cb.id = h.m.id
    BY <1>3 DEF h
  <2>2. PICK left : left = cip.callbacks \ onFile
    OBVIOUS
  <2>3. c = [cip EXCEPT !.callbacks = left]
        /\ \A b : b \in left <=> b \in cip.callbacks /\ b.id # h.m.id
    BY <2>2
  <2> HIDE DEF c
  <2>4. toClient # <<>> /\ NoMicrotask /\ Internal(h.m)
    BY <1>1
  <2> QED
    BY <2>1, <2>3, <2>4, CallbackTaken
<1> HIDE DEF c, h
<1>4. ASSUME NEW cb \in onFile, cb.purpose = "open", OpenReply(c, h) PROVE Kept
  BY <1>1, <1>3, <1>4, OpenReplyKept
<1>5. ASSUME NEW cb \in onFile, cb.purpose = "reclose", RecloseReply(c, h) PROVE Kept
  BY <1>1, <1>3, <1>5, RecloseReplyKept
<1>6. ASSUME NEW cb \in onFile, cb.purpose = "close", CloseReply(c, h) PROVE Kept
  BY <1>1, <1>3, <1>6, CloseReplyKept
<1>7. Kept
  BY <1>1, <1>2, <1>4, <1>5, <1>6
<1>8. CipInv'
  BY <1>1, <1>7 DEF Kept, CipInv
<1>9. cip' \in Fields
  BY <1>7 DEF Kept, Sound
<1> QED
  BY <1>1, <1>7, <1>8, <1>9 DEF Kept, TypeOK, Replies, Statuses

LEMMA SessionFailsSound ==
  ASSUME TypeOK, CipInv, SessionFails
  PROVE  TypeOK' /\ CipInv'
<1>1. outcome' \in [Requests -> {"idle", "pending", "answered", "rejected"}]
  BY RejectTypes DEF SessionFails, TypeOK
<1>2. SessionOver /\ SomeArrive(Destroyed(cip)) /\ session < MaxSessions
      /\ due' \in {"nothing", "below", "destroy"}
  BY Now DEF SessionFails, NoMicrotask, CloseSteps
<1>3. cip \in Fields /\ toClient \in Seq(Replies) /\ MailOf(cip, toClient, devConns)
  BY Now DEF CipInv, Sound
<1>4. Kept
  BY <1>1, <1>2, <1>3, EndKept
<1>5. UNCHANGED <<devConns, leftover, answer, lost, stranded>> /\ failed' = TRUE
  BY DEF SessionFails, device
<1>6. CipInv' /\ cip' \in Fields
  BY <1>4, <1>5 DEF Kept, CipInv, Sound
<1> QED
  BY <1>4, <1>5, <1>6 DEF Kept, TypeOK, Replies, Statuses

LEMMA CloseTimeoutSound ==
  ASSUME TypeOK, CipInv, CloseTimeout
  PROVE  TypeOK' /\ CipInv'
<1>1. SessionOver /\ cip' = Destroyed(cip) /\ due' = "below" /\ session < MaxSessions
      /\ outcome' \in [Requests -> {"idle", "pending", "answered", "rejected"}]
  BY RejectTypes DEF CloseTimeout, FinishClose, DestroyInClose, CipInv, TypeOK
<1>2. cip \in Fields /\ toClient \in Seq(Replies) /\ MailOf(cip, toClient, devConns)
  BY Now DEF CipInv, Sound
<1>3. Kept
  BY <1>1, <1>2, EndKept
<1>4. UNCHANGED <<devConns, leftover, answer, lost, stranded>> /\ failed' = TRUE
  BY DEF CloseTimeout, device
<1>5. CipInv' /\ cip' \in Fields
  BY <1>3, <1>4 DEF Kept, CipInv, Sound
<1> QED
  BY <1>3, <1>4, <1>5 DEF Kept, TypeOK, Replies, Statuses

LEMMA CloseLayersSound ==
  ASSUME TypeOK, CipInv, CloseLayers
  PROVE  TypeOK' /\ CipInv'
<1>1. /\ ~closing /\ due = "nothing" /\ session < MaxSessions /\ due' = "disconnect"
      /\ UNCHANGED <<cip, closing, toClient, devConns, leftover, session, answer,
                     lost, failed, stranded>>
  BY DEF CloseLayers, device, history
<1>2. outcome' \in [Requests -> {"idle", "pending", "answered", "rejected"}]
  BY RejectTypes DEF TypeOK, CloseLayers
<1>3. CipInv'
  BY <1>1 DEF CipInv, AtEnd
<1> QED
  BY <1>1, <1>2, <1>3 DEF TypeOK, CloseSteps

(* disconnect in state 0: the session is over, and the layer is as it was.   *)
LEMMA DisconnectedKept ==
  ASSUME TypeOK, CipInv, due = "disconnect", cip.state = 0, SessionOver,
         due' = "destroy", cip' = cip, outcome' = outcome
  PROVE  Kept
<1>1. cip \in Fields /\ toClient \in Seq(Replies) /\ ~closing /\ session < MaxSessions
      /\ Sound(cip, toClient, devConns, FALSE) /\ Driven(cip)
  BY Now DEF CipInv
<1>2. closing' = FALSE /\ toClient' = <<>> /\ session' \in 1 .. MaxSessions
      /\ <<>> \in Seq(Replies)
  BY <1>1, Now, Constants DEF SessionOver
<1>3. MailOf(cip, <<>>, devConns)
  <2>1. Sorted(cip.sent) /\ MailOf(cip, toClient, devConns)
    BY <1>1 DEF Sound, MailOf, Mail, InLine
  <2> QED
    BY <2>1, MailFewer DEF MailOf
<1>4. Sound(cip, <<>>, devConns, FALSE)
  BY <1>1, <1>3 DEF Sound
<1> QED
  BY <1>1, <1>2, <1>4 DEF Kept, AtEnd, CloseSteps, TypeOK

(* disconnect in any other state: a ForwardClose that the close awaits.      *)
LEMMA DisconnectingKept ==
  ASSUME TypeOK, CipInv, due = "disconnect",
         cip' = SendClose([cip EXCEPT !.state = -1, !.resend = {}], "close"),
         closing' = TRUE, due' = "nothing", UNCHANGED <<session, toClient, outcome>>
  PROVE  Kept
<1> DEFINE e == [cip EXCEPT !.state = -1, !.resend = {}]
           d == SendClose(e, "close")
<1>1. cip \in Fields /\ toClient \in Seq(Replies) /\ session \in 1 .. MaxSessions
      /\ MailOf(cip, toClient, devConns) /\ session < MaxSessions
      /\ outcome \in [Requests -> {"idle", "pending", "answered", "rejected"}]
  BY Now DEF CipInv, Sound, TypeOK
<1>2. e \in Fields /\ e.state = -1 /\ SameBooks(cip, e) /\ e.sent = cip.sent
      /\ e.queue = cip.queue
  BY <1>1 DEF Fields, SameBooks
<1>3. cip' = d
  OBVIOUS
<1> HIDE DEF e
<1>4. d \in Fields /\ d.state = -1 /\ AsksToClose(e, d, "close")
  BY <1>1, <1>2, SendCloseParts
<1>5. MailOf(e, toClient, devConns)
  <2>1. InUse(e) = {}
    BY <1>2 DEF InUse
  <2> QED
    BY <1>1, <1>2, <2>1, MailLess DEF MailOf, SameBooks
<1>6. lost \/ (Current = session /\ Backed(e, toClient, session))
  <2>1. Backed(cip, toClient, session) => Backed(e, toClient, session)
    BY <1>2 DEF Backed, OwedTo, SameBooks
  <2> QED
    BY <2>1, InSession DEF CipInv
<1> HIDE DEF d
<1>7. /\ MailOf(d, toClient, devConns) /\ OnOpen(d, devConns)
      /\ \A q : Waits(d, q) <=> Waits(e, q) \/ q = "close"
      /\ Current = session /\ Backed(e, toClient, session) => Backed(d, toClient, session)
  BY <1>1, <1>2, <1>4, <1>5, ClosesSound
<1>8. Sound(d, toClient, devConns, TRUE) /\ Driven(d)
  BY <1>4, <1>7 DEF Sound, Staged, Driven
<1> QED
  BY <1>1, <1>3, <1>6, <1>7, <1>8 DEF Kept, AtEnd, CloseSteps

LEMMA DisconnectsSound ==
  ASSUME TypeOK, CipInv, Disconnects
  PROVE  TypeOK' /\ CipInv'
<1>1. UNCHANGED <<devConns, leftover, outcome, answer, lost, failed, stranded>>
  BY DEF Disconnects, device, history
<1>2. Kept
  BY <1>1, DisconnectedKept, DisconnectingKept DEF Disconnects
<1>3. CipInv' /\ cip' \in Fields
  BY <1>1, <1>2 DEF Kept, CipInv, Sound
<1> QED
  BY <1>1, <1>2, <1>3 DEF Kept, TypeOK, Replies, Statuses

LEMMA DestroysSound ==
  ASSUME TypeOK, CipInv, Destroys
  PROVE  TypeOK' /\ CipInv'
<1> DEFINE d == Destroyed(cip)
<1>1. /\ cip' = d /\ due' = "below"
      /\ UNCHANGED <<closing, toClient, devConns, leftover, session, answer,
                     lost, failed, stranded>>
  BY DEF Destroys, DestroyInClose, device, history
<1>2. outcome' \in [Requests -> {"idle", "pending", "answered", "rejected"}]
  BY RejectTypes DEF Destroys, DestroyInClose, TypeOK
<1>3. ~closing /\ cip \in Fields /\ toClient \in Seq(Replies)
      /\ MailOf(cip, toClient, devConns)
  BY Now DEF CipInv, Sound, Destroys
<1>4. /\ d \in Fields /\ Sound(d, toClient, devConns, FALSE) /\ Driven(d)
      /\ \A s : Backed(d, toClient, s)
      /\ d.state = 0 /\ d.callbacks = {} /\ d.queue = <<>>
  BY <1>3, DestroyedKept
<1>5. closing = FALSE
  BY <1>3, Now
<1> HIDE DEF d
<1>6. CipInv'
  BY <1>1, <1>4, <1>5 DEF CipInv, AtEnd
<1> QED
  BY <1>1, <1>2, <1>4, <1>6 DEF TypeOK, CloseSteps

LEMMA BelowClosedSound ==
  ASSUME TypeOK, CipInv, BelowClosed
  PROVE  TypeOK' /\ CipInv'
<1>1. /\ due = "below" /\ due' = "nothing" /\ SomeArrive(cip)
      /\ UNCHANGED <<closing, toClient, devConns, leftover, session, outcome, answer,
                     lost, failed, stranded>>
  BY DEF BelowClosed, device, history
<1>2. cip \in Fields /\ MailOf(cip, toClient, devConns) /\ OnOpen(cip, devConns)
      /\ Staged(cip, closing) /\ Driven(cip) /\ ~closing
  BY <1>1, Now DEF CipInv, Sound
<1>3. Sorted(cip.sent)
  BY <1>2 DEF MailOf, Mail, InLine
<1>4. /\ cip' \in Fields /\ cip'.state = cip.state /\ cip'.sendInfo = cip.sendInfo
      /\ SameBooks(cip, cip') /\ cip'.queue = cip.queue /\ cip'.ticks = cip.ticks
      /\ Sorted(cip'.sent) /\ Of(cip'.sent) \subseteq Of(cip.sent)
  BY <1>1, <1>2, <1>3, SomeArriveIs
<1>5. InUse(cip') = InUse(cip)
  BY <1>4 DEF InUse
<1>6. MailOf(cip', toClient, devConns)
  <2>1. Mail(cip.callbacks, cip.context, cip.serial, cip'.sent, toClient, devConns, InUse(cip))
    BY <1>2, <1>4, MailFewer DEF MailOf
  <2> QED
    BY <1>4, <1>5, <2>1 DEF MailOf, SameBooks
<1>7. OnOpen(cip', devConns) /\ Staged(cip', closing) /\ Driven(cip')
  BY <1>2, <1>4, <1>5 DEF OnOpen, Staged, Driven, Waits, SameBooks
<1>8. lost \/ Backed(cip', toClient, session)
  BY <1>1, <1>4 DEF CipInv, AtEnd, Backed, SameBooks
<1>9. CipInv'
  BY <1>1, <1>2, <1>4, <1>6, <1>7, <1>8 DEF CipInv, Sound, AtEnd
<1> QED
  BY <1>1, <1>4, <1>9 DEF TypeOK, CloseSteps

LEMMA StepSound == TypeOK /\ CipInv /\ [Next]_vars => TypeOK' /\ CipInv'
<1> SUFFICES ASSUME TypeOK, CipInv, [Next]_vars PROVE TypeOK' /\ CipInv'
  OBVIOUS
<1>1. ASSUME NEW r \in Requests, Issue(r) PROVE TypeOK' /\ CipInv'
  BY <1>1, IssueSound
<1>2. CASE Tick
  BY <1>2, TickSound
<1>3. CASE Resend
  BY <1>3, ResendSound
<1>4. CASE Device
  BY <1>4, DeviceSound
<1>5. CASE Expire
  BY <1>5, ExpireSound
<1>6. CASE Lose
  BY <1>6, LoseSound
<1>7. CASE InternalReply
  BY <1>7, InternalReplySound
<1>8. CASE UnconnectedReply
  BY <1>8, UnconnectedReplySound
<1>9. CASE ConnectedReply
  BY <1>9, ConnectedReplySound
<1>10. CASE SessionFails
  BY <1>10, SessionFailsSound
<1>11. CASE CloseLayers
  BY <1>11, CloseLayersSound
<1>12. CASE CloseTimeout
  BY <1>12, CloseTimeoutSound
<1>13. CASE Disconnects
  BY <1>13, DisconnectsSound
<1>14. CASE Destroys
  BY <1>14, DestroysSound
<1>15. CASE BelowClosed
  BY <1>15, BelowClosedSound
<1>16. CASE UNCHANGED vars
  BY <1>16 DEF vars, TypeOK, CipInv
<1> QED
  BY <1>1, <1>2, <1>3, <1>4, <1>5, <1>6, <1>7, <1>8, <1>9, <1>10, <1>11, <1>12, <1>13,
     <1>14, <1>15, <1>16 DEF Next

-----------------------------------------------------------------------------
(* The invariant of the layer: its messages and their replies stay in order, *)
(* the state it is in has a callback on file that will end it, a connection  *)
(* in use is open, and something will send what is in the queue.             *)
THEOREM LayerIsSound == Spec => [](TypeOK /\ CipInv)
  BY InitSound, StepSound, PTL DEF Spec

(* Every field of CIPConnectionLayer and every variable keeps its type.      *)
THEOREM TypesHold == Spec => []TypeOK
  BY LayerIsSound, PTL

LEMMA AwaitsWhatIsBacked ==
  ASSUME CipInv, ~lost, due # "destroy",
         NEW p \in {"open", "close", "reclose"}, Waits(cip, p)
  PROVE  Awaits({p})
<1>1. PICK cb \in cip.callbacks : cb.purpose = p
  BY DEF Waits
<1>2. PICK m \in OwedTo(cip, toClient, session) : Internal(m) /\ m.id = cb.id
  BY <1>1 DEF CipInv, Backed
<1>3. m \in Owed
  BY <1>2 DEF Owed, OwedTo, Of
<1> QED
  BY <1>1, <1>2, <1>3 DEF Awaits, Internal

(* connect and disconnect end: whatever fallbacks, duplicate connections,    *)
(* refusals and failures come, a layer that connects or closes has the       *)
(* callback of a ForwardOpen or of a ForwardClose on file, and its reply is  *)
(* under way, unless a reply was lost to a shared chunk, or a request was    *)
(* issued in the last steps of a close.                                      *)
THEOREM ConnectEnds == Spec => []ConnectingEnds
<1>1. CipInv => ConnectingEnds
  <2> SUFFICES ASSUME CipInv, ~lost PROVE ConnectingEnds
    BY DEF ConnectingEnds
  <2>1. ASSUME cip.state = 1 PROVE Awaits({"open"})
    BY <2>1, AwaitsWhatIsBacked DEF CipInv, Sound, Staged, AtEnd
  <2>2. ASSUME closing PROVE Awaits({"close"})
    BY <2>2, AwaitsWhatIsBacked DEF CipInv, Sound, Staged
  <2> QED
    BY <2>1, <2>2 DEF ConnectingEnds
<1> QED
  BY <1>1, LayerIsSound, PTL

(* A layer that takes itself for connected uses a connection the device      *)
(* holds, or has asked the device to close one and waits for the reply.      *)
THEOREM ConnectedMeansOpen == Spec => []ConnectionIsOpen
<1>1. CipInv => ConnectionIsOpen
  BY DEF CipInv, Sound, OnOpen, InUse, Closes, ConnectionIsOpen
<1> QED
  BY <1>1, LayerIsSound, PTL

(* What sendNextMessage left in the queue will be sent: by a tick, when the  *)
(* ForwardOpen or the ForwardClose after a duplicate is answered, or never,  *)
(* because a close under way will reject it.                                 *)
THEOREM QueueIsSent == Spec => []QueueIsDriven
<1>1. TypeOK /\ CipInv => QueueIsDriven
  <2> SUFFICES ASSUME TypeOK, CipInv, cip.queue # <<>>, ~lost
               PROVE  \/ cip.ticks > 0 \/ cip.state = 1 \/ closing
                      \/ due = "destroy" \/ Awaits({"reclose"})
    BY DEF QueueIsDriven
  <2>1. cip.state \in {-1, 0, 1, 2} /\ cip.ticks \in Nat
    BY DEF TypeOK, Fields
  <2>2. CASE cip.state = 0 /\ cip.ticks = 0
    BY <2>2, AwaitsWhatIsBacked DEF CipInv, Driven
  <2> QED
    BY <2>1, <2>2 DEF CipInv, Driven, Sound, Staged
<1> QED
  BY <1>1, LayerIsSound, PTL
=============================================================================
