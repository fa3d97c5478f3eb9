---------------------------- MODULE FramingProofs ----------------------------
(***************************************************************************)
(* Proofs about Framing for every header length, every set of frame lengths *)
(* and every bound.                                                         *)
(*                                                                          *)
(* None of the properties is inductive.  Ordered adds where the slices lie: *)
(* below the head of the buffer, the one in hand after those handed over.   *)
(* Aligned says that, as long as no connection has died inside a frame, the *)
(* head of the buffer is the first byte of a frame or the end of the        *)
(* stream, and that the frames tile the stream from there on, so that the   *)
(* length is read from a header and from nothing else.  OneUnderWay says    *)
(* what a caller that awaits its replies makes of it.                       *)
(***************************************************************************)
EXTENDS Framing, TLAPS

(* Frames and slices have a length, frames do not overlap, and the slices    *)
(* lie one after the other below the head of the buffer.                     *)
Ordered ==
  /\ \A f \in frames : f.from < f.to /\ f.to <= written
  /\ \A f, g \in frames : f = g \/ f.to <= g.from \/ g.to <= f.from
  /\ \A d \in got \cup defragged : d.from < d.to /\ d.to <= start
  /\ \A d \in defragged, e \in got : e.to <= d.from
  /\ \A d, e \in defragged : d = e
  /\ ~looping => defragged = {}

(* The head of the buffer is a frame boundary of the current connection.     *)
Aligned ==
  clean =>
    /\ connStart <= start
    /\ \A f \in frames : f.to <= start \/ start <= f.from
    /\ start = written \/ \E f \in frames : f.from = start
    /\ \A f \in frames : f.to = written \/ \E g \in frames : g.from = f.to
    /\ got \cup defragged \subseteq frames

(* With a caller in lock step at most one frame is not yet cut off, and      *)
(* every frame that is has been handed over or is in hand.                   *)
OneUnderWay ==
  LockStep /\ clean =>
    /\ \A f, g \in frames : start < f.to /\ start < g.to => f = g
    /\ defragged # {} => \A f \in frames : f.to <= start
    /\ \A f \in frames : f.to <= start => f \in got \cup defragged

IInv == TypeOK /\ Ordered /\ NoByteTwice /\ Aligned /\ OneUnderWay

USE HeaderAssumption, FrameAssumption, GarbageAssumption, LockStepAssumption,
    BoundAssumption

(* The invariant holds before anything is written.                           *)
LEMMA InitIInv == Init => IInv
<1>. SUFFICES ASSUME Init  PROVE IInv
  OBVIOUS
<1>1. TypeOK
  <2>1. /\ written \in Nat /\ recv \in 0 .. written /\ start \in 0 .. recv
        /\ connStart \in 0 .. recv /\ connection \in Nat /\ torn \in Nat
    BY DEF Init
  <2>2. looping \in BOOLEAN /\ clean \in BOOLEAN
    BY DEF Init
  <2>3. frames \subseteq Slice /\ defragged \subseteq Slice /\ got \subseteq Slice
    BY DEF Init
  <2>. QED
    BY <2>1, <2>2, <2>3 DEF TypeOK
<1>2. Ordered /\ NoByteTwice /\ Aligned /\ OneUnderWay
  BY DEF Init, Ordered, NoByteTwice, Aligned, OneUnderWay
<1>. QED
  BY <1>1, <1>2 DEF IInv

(* Whatever length is read, it is positive: a slice is never empty and the   *)
(* loop advances.                                                            *)
LEMMA ReadLengthsPositive ==
  ASSUME IInv, NEW length \in ReadLengths
  PROVE  length \in Nat \ {0}
BY DEF IInv, TypeOK, Ordered, ReadLengths, Slice

(* At an aligned head with bytes after it, what is read is the length of the *)
(* frame that begins there.                                                  *)
LEMMA ReadLengthsAligned ==
  ASSUME IInv, clean, start < recv, NEW length \in ReadLengths
  PROVE  \E f \in frames : f.from = start /\ f.to = start + length
<1>1. \E f \in frames : f.from = start /\ start >= connStart
  BY DEF IInv, TypeOK, Aligned, Slice
<1>2. ReadLengths = {f.to - f.from : f \in {g \in frames : g.from = start}}
  BY <1>1 DEF ReadLengths
<1>3. PICK f \in frames : f.from = start /\ length = f.to - f.from
  BY <1>2
<1>. QED
  BY <1>3 DEF IInv, TypeOK, Slice

(* A frame the peer adds at the end of the stream.                           *)
LEMMA PeerSendIInv ==
  ASSUME IInv, NEW length \in FrameLengths, PeerSend(length)
  PROVE  IInv'
<1>. DEFINE new == [from |-> written, to |-> written + length]
<1>1. length \in Nat \ {0}
  OBVIOUS
<1>2. /\ frames' = frames \cup {new} /\ written' = written + length
      /\ new \in Slice /\ new.from = written /\ new.to = written + length
  BY <1>1 DEF PeerSend, IInv, TypeOK, Slice
<1>. HIDE DEF new
<1>3. UNCHANGED <<recv, start, connStart, connection, torn, looping, defragged,
                  got, clean>>
  BY DEF PeerSend, connVars
<1>4. TypeOK'
  BY <1>1, <1>2, <1>3 DEF IInv, TypeOK
<1>5. Ordered' /\ NoByteTwice'
  BY <1>1, <1>2, <1>3 DEF IInv, TypeOK, Ordered, NoByteTwice, Slice
<1>6. Aligned'
  BY <1>1, <1>2, <1>3 DEF IInv, TypeOK, Ordered, Aligned, Slice
<1>7. OneUnderWay'
  <2>. SUFFICES ASSUME LockStep, clean  PROVE OneUnderWay'
    BY <1>3 DEF OneUnderWay
  <2>1. \A f \in frames : f.to <= start
    BY DEF PeerSend, IInv, Aligned, TypeOK, Slice
  <2>2. defragged = {}
    BY DEF PeerSend, IInv, Ordered
  <2>. QED
    BY <1>1, <1>2, <1>3, <2>1, <2>2 DEF IInv, TypeOK, OneUnderWay, Slice
<1>. QED
  BY <1>4, <1>5, <1>6, <1>7 DEF IInv

(* A chunk appended to the buffer.                                           *)
LEMMA ReceiveIInv ==
  ASSUME IInv, NEW n \in 1 .. (written - recv), Receive(n)
  PROVE  IInv'
<1>1. recv' = recv + n /\ n \in Nat /\ recv' <= written
  BY DEF Receive, IInv, TypeOK
<1>2. UNCHANGED <<frames, written, start, connStart, connection, torn, got, clean>>
  BY DEF Receive, peerVars, connVars
<1>3. defragged = {} /\ defragged' = {} /\ looping' = TRUE
  BY DEF Receive, IInv, Ordered
<1>. QED
  BY <1>1, <1>2, <1>3
     DEF IInv, TypeOK, Ordered, NoByteTwice, Aligned, OneUnderWay, Slice

(* One iteration of the loop.                                                *)
LEMMA CutIInv ==
  ASSUME IInv, Cut
  PROVE  IInv'
<1>1. PICK length \in ReadLengths :
        /\ start + length <= recv
        /\ defragged' = {[from |-> start, to |-> start + length]}
        /\ start' = start + length
  BY DEF Cut
<1>. DEFINE new == [from |-> start, to |-> start + length]
<1>2. length \in Nat \ {0}
  BY ReadLengthsPositive
<1>3. /\ defragged' = {new} /\ start' = start + length /\ start' <= recv
      /\ new \in Slice /\ new.from = start /\ new.to = start + length
  BY <1>1, <1>2 DEF IInv, TypeOK, Slice
<1>4. /\ UNCHANGED <<frames, written, recv, connStart, connection, got, clean>>
      /\ looping /\ looping' /\ torn' = 0
  BY DEF Cut, peerVars, connVars
<1>5. clean => new \in frames
  <2>. SUFFICES ASSUME clean  PROVE new \in frames
    OBVIOUS
  <2>1. start < recv
    BY DEF Cut, IInv, TypeOK
  <2>2. PICK f \in frames : f.from = start /\ f.to = start + length
    BY <2>1, ReadLengthsAligned
  <2>3. f = new
    BY <1>3, <2>2 DEF IInv, TypeOK, Slice
  <2>. QED
    BY <2>3
<1>. HIDE DEF new
<1>6. TypeOK'
  BY <1>2, <1>3, <1>4 DEF IInv, TypeOK
<1>7. Ordered' /\ NoByteTwice'
  BY <1>2, <1>3, <1>4 DEF IInv, TypeOK, Ordered, NoByteTwice, Slice
<1>8. Aligned'
  <2>. SUFFICES ASSUME clean  PROVE Aligned'
    BY <1>4 DEF Aligned
  <2>1. \A f \in frames : f.to <= start' \/ start' <= f.from
    BY <1>2, <1>3, <1>5 DEF IInv, TypeOK, Ordered, Aligned, Slice
  <2>2. start' = written \/ \E f \in frames : f.from = start'
    BY <1>3, <1>5 DEF IInv, Aligned
  <2>. QED
    BY <1>2, <1>3, <1>4, <1>5, <2>1, <2>2 DEF IInv, TypeOK, Aligned
<1>9. OneUnderWay'
  <2>. SUFFICES ASSUME LockStep, clean  PROVE OneUnderWay'
    BY <1>4 DEF OneUnderWay
  <2>1. new \in frames /\ start < new.to
    BY <1>2, <1>3, <1>5 DEF IInv, TypeOK
  <2>2. \A f \in frames : f.to <= start \/ f = new
    BY <2>1 DEF IInv, OneUnderWay, TypeOK, Slice
  <2>3. defragged = {}
    BY <2>1 DEF IInv, TypeOK, OneUnderWay, Slice
  <2>4. \A f \in frames : f.to <= start'
    BY <1>2, <1>3, <2>2 DEF IInv, TypeOK, Slice
  <2>5. \A f \in frames : f \in got' \cup defragged'
    BY <1>3, <1>4, <2>2, <2>3 DEF IInv, OneUnderWay
  <2>. QED
    BY <1>2, <1>3, <1>4, <2>4, <2>5 DEF IInv, OneUnderWay, TypeOK, Slice
<1>. QED
  BY <1>6, <1>7, <1>8, <1>9 DEF IInv

(* The slice in hand given to the layer above.                               *)
LEMMA HandOverIInv ==
  ASSUME IInv, HandOver
  PROVE  IInv'
<1>1. /\ UNCHANGED <<frames, written, recv, start, connStart, connection, torn, clean>>
      /\ looping' = FALSE /\ defragged' = {} /\ got' = got \cup defragged
  BY DEF HandOver, peerVars, connVars
<1>. QED
  BY <1>1 DEF IInv, TypeOK, Ordered, NoByteTwice, Aligned, OneUnderWay, Slice

(* A connection that dies and the next one.                                  *)
LEMMA ReconnectIInv ==
  ASSUME IInv, Reconnect
  PROVE  IInv'
<1>1. /\ UNCHANGED <<recv, start, looping, defragged, got>>
      /\ frames' = {f \in frames : f.to <= recv}
      /\ written' = recv /\ connStart' = recv /\ connection' = connection + 1
      /\ clean' = (clean /\ start = recv)
      /\ looping = FALSE
  BY DEF Reconnect, IInv, TypeOK
<1>2. torn' \in Nat
  BY DEF Reconnect, TornFrames, IInv, TypeOK, Slice
<1>3. TypeOK'
  BY <1>1, <1>2 DEF IInv, TypeOK
<1>4. Ordered' /\ NoByteTwice'
  BY <1>1 DEF IInv, TypeOK, Ordered, NoByteTwice, Slice
<1>5. Aligned'
  <2>. SUFFICES ASSUME clean, start = recv  PROVE Aligned'
    BY <1>1 DEF Aligned
  <2>1. \A f \in frames' : f.to = written' \/ \E g \in frames' : g.from = f.to
    <3>. SUFFICES ASSUME NEW f \in frames', f.to # recv
                  PROVE  \E g \in frames' : g.from = f.to
      BY <1>1
    <3>1. f \in frames /\ f.to < recv /\ f.to # written
      BY <1>1 DEF IInv, TypeOK, Slice
    <3>2. PICK g \in frames : g.from = f.to
      BY <3>1 DEF IInv, Aligned
    <3>3. g.to <= recv
      BY <3>1, <3>2 DEF IInv, Aligned, TypeOK, Slice
    <3>. QED
      BY <1>1, <3>2, <3>3
  <2>2. got' \cup defragged' \subseteq frames'
    BY <1>1 DEF IInv, Aligned, Ordered, TypeOK, Slice
  <2>. QED
    BY <1>1, <2>1, <2>2 DEF IInv, TypeOK, Aligned, Slice
<1>6. OneUnderWay'
  BY <1>1 DEF IInv, TypeOK, OneUnderWay, Slice
<1>. QED
  BY <1>3, <1>4, <1>5, <1>6 DEF IInv

(* A step that changes nothing keeps the invariant.                          *)
LEMMA StutterIInv ==
  ASSUME IInv, UNCHANGED vars
  PROVE  IInv'
BY DEF vars, IInv, TypeOK, Ordered, NoByteTwice, Aligned, OneUnderWay, Slice

(* The strengthened invariant is inductive.                                  *)
THEOREM Inductive == Spec => []IInv
<1>1. IInv /\ [Next]_vars => IInv'
  <2>. SUFFICES ASSUME IInv, [Next]_vars  PROVE IInv'
    OBVIOUS
  <2>1. CASE \E length \in FrameLengths : PeerSend(length)
    BY <2>1, PeerSendIInv
  <2>2. CASE \E n \in 1 .. (written - recv) : Receive(n)
    BY <2>2, ReceiveIInv
  <2>3. CASE Cut
    BY <2>3, CutIInv
  <2>4. CASE HandOver
    BY <2>4, HandOverIInv
  <2>5. CASE Reconnect
    BY <2>5, ReconnectIInv
  <2>6. CASE UNCHANGED vars
    BY <2>6, StutterIInv
  <2>. QED
    BY <2>1, <2>2, <2>3, <2>4, <2>5, <2>6 DEF Next
<1>. QED
  BY <1>1, InitIInv, PTL DEF Spec

(* Defragger and stream keep their types: the buffer never holds a byte that *)
(* was not received.                                                         *)
THEOREM TypeCorrect == Spec => []TypeOK
<1>1. IInv => TypeOK
  BY DEF IInv
<1>. QED
  BY <1>1, Inductive, PTL

(* For every chunking, over any number of connections: no byte is handed up  *)
(* twice.                                                                    *)
THEOREM BytesHandedUpOnce == Spec => []NoByteTwice
<1>1. IInv => NoByteTwice
  BY DEF IInv
<1>. QED
  BY <1>1, Inductive, PTL

(* For every chunking: what handleData gets is a frame, as long as no        *)
(* connection has died inside one.                                           *)
THEOREM SlicesAreFrames == Spec => []WholeFrames
<1>1. IInv => WholeFrames
  BY DEF IInv, Aligned, WholeFrames
<1>. QED
  BY <1>1, Inductive, PTL

(* For every chunking: with one request under way at a time no frame is      *)
(* lost, as long as no connection has died inside one.                       *)
THEOREM LockStepLosesNothing == ASSUME LockStep PROVE Spec => []NoFrameLost
<1>1. IInv => NoFrameLost
  BY DEF IInv, Ordered, OneUnderWay, NoFrameLost
<1>. QED
  BY <1>1, Inductive, PTL

(* For every chunking: slices reach handleData in the order of the stream.   *)
THEOREM SlicesInOrder == Spec => InOrder
<1>1. IInv /\ [Next]_vars => [\A d \in got' \ got, e \in got : e.to <= d.from]_vars
  <2>. SUFFICES ASSUME IInv, Next
                PROVE  \A d \in got' \ got, e \in got : e.to <= d.from
    OBVIOUS
  <2>1. got' \subseteq got \cup defragged
    BY DEF Next, PeerSend, Receive, Cut, HandOver, Reconnect
  <2>. QED
    BY <2>1 DEF IInv, Ordered
<1>. QED
  BY <1>1, Inductive, PTL DEF Spec, InOrder
=============================================================================
