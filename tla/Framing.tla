------------------------------- MODULE Framing -------------------------------
(***************************************************************************)
(* Reassembly of protocol frames from a TCP byte stream: the Defragger of   *)
(* layers/defragger.js, as Layer.forwardTo (layers/Layer.js) uses it for    *)
(* the Modbus and EtherNet/IP layers, over the connections that TCPLayer    *)
(* opens one after the other.                                               *)
(*                                                                          *)
(* Bytes have no content here, only an offset: the n-th byte that reaches   *)
(* the layer in its whole life, over all its connections, is byte n.  A     *)
(* frame is the record of the offset of its first byte and the offset just  *)
(* after its last.  The buffer Defragger._data holds the bytes start ..     *)
(* recv - 1 and _dataLength is recv - start.                                *)
(*                                                                          *)
(* The while loop of Defragger.defrag is one action per iteration: a Cut    *)
(* for each complete frame at the head of the buffer, and a HandOver when   *)
(* the head is incomplete.  The loop is synchronous, so no other chunk is   *)
(* received and no connection dies between the first iteration and the      *)
(* last.                                                                    *)
(***************************************************************************)
EXTENDS Integers

CONSTANTS
  HeaderLength,   \* bytes IsComplete wants before it reads a length (7, 24)
  LengthFieldEnd, \* offset in a frame just after its length field (6, 4)
  FrameLengths,   \* lengths of the frames the peer sends
  GarbageLength,  \* greatest length read from bytes that are not a header
  LockStep,       \* TRUE: the caller awaits each reply before the next request
  MaxBytes,       \* bound: bytes written by the peer
  MaxConnections  \* bound: connections opened

ASSUME HeaderAssumption == /\ HeaderLength \in Nat \ {0}
                           /\ LengthFieldEnd \in 1 .. HeaderLength
ASSUME FrameAssumption == /\ FrameLengths \subseteq Nat
                          /\ \A l \in FrameLengths : l >= HeaderLength
ASSUME GarbageAssumption == GarbageLength \in Nat \ {0}
ASSUME LockStepAssumption == LockStep \in BOOLEAN
ASSUME BoundAssumption == MaxBytes \in Nat /\ MaxConnections \in Nat \ {0}

VARIABLES
  frames,     \* frames of the peer that the connection did not lose
  written,    \* offset just after the last byte the peer wrote
  recv,       \* offset just after the last byte received
  start,      \* offset of the first byte of Defragger._data
  connStart,  \* offset of the first byte of the current connection
  connection, \* number of the current connection
  torn,       \* end of the frame whose length field was left in the buffer, or 0
  looping,    \* TRUE inside the while loop of defrag
  defragged,  \* defraggedData: the set holding the slice it refers to, if any
  got,        \* slices given to emit('data') and handleData of the layer
  clean       \* no connection died with bytes of a frame in the buffer

vars == <<frames, written, recv, start, connStart, connection, torn, looping,
          defragged, got, clean>>

peerVars == <<frames, written>>
connVars == <<connStart, connection, clean>>

Slice == [from : Nat, to : Nat]

Init ==
  /\ frames = {}
  /\ written = 0 /\ recv = 0 /\ start = 0 /\ connStart = 0
  /\ connection = 1
  /\ torn = 0
  /\ looping = FALSE
  /\ defragged = {}
  /\ got = {}
  /\ clean = TRUE

-----------------------------------------------------------------------------
(* The peer writes a whole frame on the current connection.  A caller that  *)
(* awaits each of its requests leaves at most one frame under way.          *)
PeerSend(length) ==
  /\ written + length <= MaxBytes
  /\ LockStep => /\ ~looping
                 /\ \A f \in frames : f.to <= start \/ f.to <= connStart
  /\ frames' = frames \cup {[from |-> written, to |-> written + length]}
  /\ written' = written + length
  /\ UNCHANGED <<recv, start, torn, looping, defragged, got>>
  /\ UNCHANGED connVars

(* Faulty form of Receive: the chunk replaces the buffer.                   *)
ReceiveAfresh(n) ==
  /\ ~looping
  /\ recv + n <= written
  /\ recv' = recv + n
  /\ start' = recv
  /\ looping' = TRUE
  /\ defragged' = {}
  /\ UNCHANGED <<torn, got>>
  /\ UNCHANGED peerVars
  /\ UNCHANGED connVars

(* The socket's 'data' event with a chunk of n bytes: defrag appends it to  *)
(* the buffer and enters its loop with no slice yet.                        *)
Receive(n) ==
  /\ ~looping
  /\ recv + n <= written
  /\ recv' = recv + n
  /\ looping' = TRUE
  /\ defragged' = {}
  /\ UNCHANGED <<start, torn, got>>
  /\ UNCHANGED peerVars
  /\ UNCHANGED connVars

(* What the length handler may read at the head of the buffer: the length   *)
(* of the frame that begins there; the length of a frame whose length field *)
(* was in the buffer when its connection died; anything, from bytes that    *)
(* are not a header.                                                        *)
ReadLengths ==
  IF \E f \in frames : f.from = start /\ start >= connStart
    THEN {f.to - f.from : f \in {g \in frames : g.from = start}}
    ELSE IF torn > start THEN {torn - start} ELSE 1 .. GarbageLength

(* Faulty forms of Cut: it cuts "taken" bytes off the buffer for a slice of *)
(* "length", and may not wait for the end of the frame.                     *)
CutOff(taken(_), waits) ==
  /\ looping
  /\ recv - start >= HeaderLength
  /\ \E length \in ReadLengths :
       /\ waits => start + length <= recv
       /\ defragged' = {[from |-> start, to |-> start + length]}
       /\ start' = start + taken(length)
  /\ torn' = 0
  /\ UNCHANGED <<recv, looping, got>>
  /\ UNCHANGED peerVars
  /\ UNCHANGED connVars

CutPastEnd == LET all(length) == length IN CutOff(all, FALSE)
CutHeader == LET header(length) == HeaderLength IN CutOff(header, TRUE)
CutShort == LET short(length) == length - 1 IN CutOff(short, TRUE)

(* One iteration of the loop: the slice at the head of the buffer replaces  *)
(* the slice of the iteration before it, whatever that was.                 *)
Cut ==
  /\ looping
  /\ recv - start >= HeaderLength
  /\ \E length \in ReadLengths :
       /\ start + length <= recv
       /\ defragged' = {[from |-> start, to |-> start + length]}
       /\ start' = start + length
  /\ torn' = 0
  /\ UNCHANGED <<recv, looping, got>>
  /\ UNCHANGED peerVars
  /\ UNCHANGED connVars

(* Faulty forms of HandOver: it leaves "rest" as the start of the buffer    *)
(* and hands over a slice only if "hands".                                  *)
HandOverWith(rest, hands) ==
  /\ looping
  /\ \/ recv - start < HeaderLength
     \/ \E length \in ReadLengths : start + length > recv
  /\ looping' = FALSE
  /\ defragged' = {}
  /\ got' = IF hands THEN got \cup defragged ELSE got
  /\ start' = rest
  /\ UNCHANGED <<recv, torn>>
  /\ UNCHANGED peerVars
  /\ UNCHANGED connVars

HandOverMidway == HandOverWith(start, start < recv)
HandOverAndDrop == HandOverWith(recv, TRUE)

(* The head of the buffer is incomplete: defrag returns, and forwardTo      *)
(* passes the last slice on or, without one, returns.                       *)
HandOver ==
  /\ looping
  /\ \/ recv - start < HeaderLength
     \/ \E length \in ReadLengths : start + length > recv
  /\ looping' = FALSE
  /\ defragged' = {}
  /\ got' = got \cup defragged
  /\ UNCHANGED <<recv, start, torn>>
  /\ UNCHANGED peerVars
  /\ UNCHANGED connVars

(* The frame at the head of the buffer, if its length can still be read.    *)
TornFrames == {f \in frames : /\ f.from = start /\ start >= connStart
                              /\ recv - start >= LengthFieldEnd}

(* The connection dies and TCPLayer opens another one: bytes under way are  *)
(* lost, and nothing empties the buffer (internalDestroy does not mention   *)
(* _defragger).                                                             *)
Reconnect ==
  /\ ~looping
  /\ connection < MaxConnections
  /\ connection' = connection + 1
  /\ frames' = {f \in frames : f.to <= recv}
  /\ written' = recv
  /\ connStart' = recv
  /\ clean' = (clean /\ start = recv)
  /\ torn' \in IF TornFrames = {} THEN {torn} ELSE {f.to : f \in TornFrames}
  /\ UNCHANGED <<recv, start, looping, defragged, got>>

Next ==
  \/ \E length \in FrameLengths : PeerSend(length)
  \/ \E n \in 1 .. (written - recv) : Receive(n)
  \/ Cut
  \/ HandOver
  \/ Reconnect

Spec == Init /\ [][Next]_vars

(* The event loop delivers what has arrived, and defrag terminates.         *)
Fairness ==
  /\ WF_vars(\E n \in 1 .. (written - recv) : Receive(n))
  /\ WF_vars(Cut \/ HandOver)

FairSpec == Spec /\ Fairness
-----------------------------------------------------------------------------
(* Every variable keeps its type, and the buffer lies within what was        *)
(* received of what was written.                                             *)
TypeOK ==
  /\ frames \subseteq Slice
  /\ written \in Nat /\ recv \in 0 .. written /\ start \in 0 .. recv
  /\ connStart \in 0 .. recv
  /\ connection \in Nat
  /\ torn \in Nat
  /\ looping \in BOOLEAN /\ clean \in BOOLEAN
  /\ defragged \subseteq Slice
  /\ got \subseteq Slice

(* No byte of the stream is given to the layer above twice, whatever chunks  *)
(* the stream is cut into, on one connection or over several: defrag         *)
(* advances _data by exactly the length it slices off.                       *)
NoByteTwice ==
  \A d, e \in got : d = e \/ d.to <= e.from \/ e.to <= d.from

(* While no connection has died inside a frame, what handleData is called    *)
(* with is exactly a frame the peer sent: chunk boundaries leave no trace.   *)
WholeFrames == clean => got \subseteq frames

(* While no connection has died inside a frame, every frame cut off the      *)
(* buffer has reached handleData once defrag has returned.                   *)
NoFrameLost ==
  clean /\ ~looping => \A f \in frames : f.to <= start => f \in got

(* The same without the condition on dead connections: every slice is a      *)
(* frame, on the first connection and on those the layer opens later.        *)
WholeFramesAfterReconnect == got \subseteq frames

(* Frames reach handleData in the order of the stream.                       *)
InOrder ==
  [][\A d \in got' \ got, e \in got : e.to <= d.from]_vars

(* A frame the peer sends reaches handleData, unless the connection dies     *)
(* before the frame is complete or has died inside an earlier one.           *)
FrameArrives ==
  \A f \in [from : 0 .. MaxBytes, to : 0 .. MaxBytes] :
    f \in frames ~> (f \in got \/ f \notin frames \/ ~clean)
=============================================================================
