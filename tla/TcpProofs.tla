------------------------------- MODULE TcpProofs -------------------------------
(***************************************************************************)
(* What every step of TCPLayer preserves, for the proofs about the layers   *)
(* above it: the types of its variables, and the agreement of its state     *)
(* with its sockets as long as nobody calls disconnect on its own and no    *)
(* error callback issues a request.                                         *)
(***************************************************************************)
EXTENDS TcpLayer, SequenceTheorems, TLAPS

(* The phase of the last socket in each connection state.                    *)
PhaseIn(state) ==
  CASE state = Connecting -> "connecting"
    [] state = Connected -> "open"
    [] state = Disconnecting -> "ending"
    [] state = Disconnected -> "dead"

(* Only the last socket is alive and heard, in the phase of the connection   *)
(* state, unless a close is still to destroy it; only a layer that closes is *)
(* disconnecting; and only an open socket has had something written on it.   *)
Sound ==
  /\ opened = 0 => tcpState = Disconnected
  /\ due = "destroy" => tcpState = Disconnected
  /\ due # "destroy" /\ opened # 0 => phase[opened] = PhaseIn(tcpState)
  /\ \A s \in Sockets : s # opened => phase[s] \in {"unused", "dead"}
  /\ \A s \in Sockets : s > opened => phase[s] = "unused"
  /\ listening \subseteq {opened}
  /\ due # "destroy" => listening = IF tcpState = Disconnected THEN {} ELSE {opened}
  /\ closing <=> tcpState = Disconnecting
  /\ \A s \in Sockets : phase[s] \in {"unused", "connecting", "dead"} => wire[s] = <<>>
-----------------------------------------------------------------------------
LEMMA InitTcp == TcpInit => TcpTypeOK /\ Sound
<1>. SUFFICES ASSUME TcpInit PROVE TcpTypeOK /\ Sound
  OBVIOUS
<1>1. EmptyQueue \in Queue(TcpMessages)
  BY DEF EmptyQueue, Queue
<1>2. TcpTypeOK
  <2>1. wire \in [Sockets -> Seq(TcpMessages)] /\ phase \in [Sockets -> Phases]
    BY DEF TcpInit, Phases
  <2>2. opened \in 0 .. MaxSockets /\ tcpState \in TcpStates
    BY TcpAssumption DEF TcpInit, TcpStates, Disconnected
  <2>. QED
    BY <1>1, <2>1, <2>2 DEF TcpInit, TcpTypeOK, CloseSteps
<1>. QED
  BY <1>2, TcpAssumption DEF TcpInit, Sound, Sockets, Disconnected, Disconnecting

(* The first message of a queue, and the queue without it.                   *)
LEMMA QueueFacts ==
  ASSUME NEW M, NEW q \in Queue(M)
  PROVE  /\ HasRequest(q) => Peek(q) \in M /\ Dequeue(q) \in Queue(M)
         /\ \A m \in M, priority \in BOOLEAN : Enqueue(q, m, priority) \in Queue(M)
<1>1. q.priority \in Seq(M) /\ q.normal \in Seq(M)
      /\ q = [priority |-> q.priority, normal |-> q.normal]
  BY DEF Queue
<1>2. \A s \in Seq(M) : s # <<>> => Head(s) \in M /\ Tail(s) \in Seq(M)
  BY HeadTailProperties
<1>3. \A s \in Seq(M), m \in M : Append(s, m) \in Seq(M)
  BY AppendProperties
<1>. QED
  BY <1>1, <1>2, <1>3 DEF HasRequest, Peek, Dequeue, Enqueue, Queue

(* sendNextMessage keeps the types, ...                                      *)
LEMMA SendNextType ==
  ASSUME TcpTypeOK, NEW state \in TcpStates, NEW q \in Queue(TcpMessages), NEW t \in Nat,
         SendNext(state, q, t)
  PROVE  /\ tcpState' \in TcpStates /\ opened' \in 0 .. MaxSockets
         /\ listening' \subseteq Sockets /\ tcpQueue' \in Queue(TcpMessages)
         /\ ticks' \in Nat /\ wire' \in [Sockets -> Seq(TcpMessages)]
         /\ OpenedPhase(phase) \in [Sockets -> Phases]
<1>1. opened \in 0 .. MaxSockets /\ wire \in [Sockets -> Seq(TcpMessages)]
      /\ listening \subseteq Sockets /\ phase \in [Sockets -> Phases]
  BY DEF TcpTypeOK
<1>2. CASE /\ state = Connected /\ HasRequest(q)
           /\ wire' = [wire EXCEPT ![opened] = Append(@, Peek(q))]
           /\ tcpQueue' = Dequeue(q) /\ ticks' = t + 1 /\ tcpState' = state
           /\ UNCHANGED <<opened, listening>>
  <2>1. Peek(q) \in TcpMessages /\ Dequeue(q) \in Queue(TcpMessages)
    BY <1>2, QueueFacts
  <2>2. \A w \in Seq(TcpMessages) : Append(w, Peek(q)) \in Seq(TcpMessages)
    BY <2>1, AppendProperties
  <2>3. wire' \in [Sockets -> Seq(TcpMessages)]
    BY <1>1, <1>2, <2>2
  <2>. QED
    BY <1>1, <1>2, <2>1, <2>3 DEF OpenedPhase
<1>3. CASE /\ state = Disconnected /\ opened < MaxSockets /\ opened' = opened + 1
           /\ listening' = listening \cup {opened + 1} /\ tcpState' = Connecting
           /\ tcpQueue' = q /\ ticks' = t /\ UNCHANGED wire
  BY <1>1, <1>3, TcpAssumption DEF Sockets, TcpStates, OpenedPhase, Phases
<1>4. CASE /\ tcpState' = state /\ tcpQueue' = q /\ ticks' = t
           /\ UNCHANGED <<opened, listening, wire>>
  BY <1>1, <1>4 DEF OpenedPhase
<1>. QED
  BY <1>2, <1>3, <1>4 DEF SendNext

(* ... and the agreement, of a new socket, ...                               *)
LEMMA OpenedSound ==
  ASSUME TcpTypeOK, Sound, tcpState = Disconnected, opened < MaxSockets, opened' = opened + 1,
         listening' = listening \cup {opened + 1}, tcpState' = Connecting,
         phase' = OpenedPhase(phase), UNCHANGED closing, due # "destroy", due' # "destroy",
         \A s \in Sockets : phase[s] \in {"unused", "connecting", "dead"} => wire'[s] = <<>>
  PROVE  Sound'
<1>1. /\ MaxSockets \in Nat /\ opened \in 0 .. MaxSockets /\ Sockets = 1 .. MaxSockets
      /\ phase \in [Sockets -> Phases]
  BY TcpAssumption DEF TcpTypeOK, Sockets
<1>2. opened' \in Sockets /\ opened' # opened /\ opened' # 0 /\ opened' > opened
  BY <1>1
<1>3. \A s \in Sockets : phase'[s] = IF s = opened' THEN "connecting" ELSE phase[s]
  BY <1>1, <1>2 DEF OpenedPhase
<1>4. \A s \in Sockets : phase[s] \in {"unused", "dead"}
  <2>1. opened # 0 => phase[opened] = "dead"
    BY DEF Sound, PhaseIn, Disconnected, Disconnecting, Connecting, Connected
  <2>. QED
    BY <1>1, <2>1 DEF Sound
<1>5. \A s \in Sockets : s > opened' => phase[s] = "unused"
  BY <1>1, <1>2 DEF Sound
<1>6. listening' = {opened'} /\ ~closing' /\ tcpState' # Disconnected /\ tcpState' # Disconnecting
      /\ PhaseIn(tcpState') = "connecting"
  <2>1. listening = {} /\ ~closing
    BY DEF Sound, Disconnected, Disconnecting
  <2>2. tcpState' # Disconnected /\ tcpState' # Disconnecting
    BY DEF Disconnected, Disconnecting, Connecting
  <2>3. PhaseIn(Connecting) = "connecting"
    BY DEF PhaseIn, Disconnected, Disconnecting, Connecting, Connected
  <2>. QED
    BY <2>1, <2>2, <2>3
<1>7. \A s \in Sockets : wire'[s] = <<>>
  BY <1>4
<1>8. \A s \in Sockets : s > opened' => phase'[s] = "unused"
  BY <1>1, <1>2, <1>3, <1>5
<1>9. \A s \in Sockets : s # opened' => phase'[s] \in {"unused", "dead"}
  BY <1>3, <1>4
<1>10. phase'[opened'] = PhaseIn(tcpState')
  BY <1>2, <1>3, <1>6
<1>. HIDE DEF PhaseIn
<1>. QED
  BY <1>2, <1>6, <1>7, <1>8, <1>9, <1>10 DEF Sound

(* ... and of any way to send the next message.                              *)
LEMMA SendNextSound ==
  ASSUME TcpTypeOK, Sound, NEW q, NEW t, SendNext(tcpState, q, t),
         phase' = OpenedPhase(phase), UNCHANGED closing, due # "destroy", due' # "destroy"
  PROVE  Sound'
<1>. USE TcpAssumption
     DEF TcpTypeOK, Sound, PhaseIn, Sockets, Disconnected, Disconnecting, Connecting, Connected
<1>1. CASE tcpState = Connected /\ HasRequest(q)
  <2>1. /\ opened' = opened /\ listening' = listening /\ tcpState' = tcpState
        /\ wire' = [wire EXCEPT ![opened] = Append(@, Peek(q))]
    BY <1>1 DEF SendNext
  <2>2. phase' = phase
    BY <2>1 DEF OpenedPhase
  <2>3. \A s \in Sockets : s # opened => wire'[s] = wire[s]
    BY <2>1
  <2>4. phase[opened] = "open"
    BY <1>1
  <2>. QED
    BY <2>1, <2>2, <2>3, <2>4
<1>2. CASE tcpState = Disconnected
  <2>1. /\ opened < MaxSockets /\ opened' = opened + 1 /\ tcpState' = Connecting
        /\ listening' = listening \cup {opened + 1} /\ wire' = wire
    BY <1>2 DEF SendNext
  <2>2. \A s \in Sockets : phase[s] \in {"unused", "connecting", "dead"} => wire'[s] = <<>>
    BY <2>1
  <2>. HIDE DEF TcpTypeOK, Sound, PhaseIn, Sockets, Disconnected, Connecting
  <2>. QED
    BY <1>2, <2>1, <2>2, OpenedSound
<1>3. CASE UNCHANGED <<tcpState, opened, listening, wire>>
  BY <1>3 DEF OpenedPhase
<1>. QED
  BY <1>1, <1>2, <1>3 DEF SendNext, TcpStates

-----------------------------------------------------------------------------
(* A socket connects.                                                        *)
LEMMA ConnectEventTcp ==
  ASSUME TcpTypeOK, NEW s \in Sockets, ConnectEvent(s)
  PROVE  TcpTypeOK' /\ (Sound => Sound')
<1>1. TcpTypeOK'
  <2>1. phase' = [phase EXCEPT ![s] = "open"] /\ UNCHANGED <<closing, due>>
    BY DEF ConnectEvent
  <2>2. phase' \in [Sockets -> Phases]
    BY <2>1 DEF TcpTypeOK, Phases
  <2>3. CASE SendNext(Connected, tcpQueue, ticks)
    <3>1. Connected \in TcpStates
      BY DEF TcpStates
    <3>. QED
      BY <2>1, <2>2, <2>3, <3>1, SendNextType DEF TcpTypeOK
  <2>4. CASE UNCHANGED <<tcpState, opened, listening, tcpQueue, ticks, wire>>
    BY <2>1, <2>2, <2>4 DEF TcpTypeOK
  <2>. QED
    BY <2>3, <2>4 DEF ConnectEvent
<1>2. ASSUME Sound PROVE Sound'
  <2>1. s = opened /\ tcpState = Connecting
    <3>1. phase[s] = "connecting" /\ due = "nothing"
      BY DEF ConnectEvent
    <3>2. s = opened /\ s # 0
      BY <1>2, <3>1, TcpAssumption DEF Sound, Sockets
    <3>3. phase[opened] = PhaseIn(tcpState) /\ tcpState \in TcpStates
      BY <1>2, <3>1, <3>2 DEF Sound, TcpTypeOK
    <3>. QED
      BY ONLY <3>1, <3>2, <3>3
      DEF TcpStates, PhaseIn, Disconnected, Disconnecting, Connecting, Connected
  <2>. USE TcpAssumption
       DEF TcpTypeOK, Sound, PhaseIn, Sockets, Disconnected, Disconnecting, Connecting, Connected
  <2>2. opened' = opened /\ listening' = listening /\ tcpState' = Connected
    BY <2>1 DEF ConnectEvent, SendNext
  <2>3. \A x \in Sockets : x # opened => wire'[x] = wire[x]
    BY <2>1 DEF ConnectEvent, SendNext
  <2>. QED
    BY <1>2, <2>1, <2>2, <2>3 DEF ConnectEvent
<1>. QED
  BY <1>1, <1>2

LEMMA DataEventTcp ==
  ASSUME TcpTypeOK, NEW s \in Sockets, NEW k \in Nat, DataEvent(s, k)
  PROVE  TcpTypeOK' /\ (Sound => Sound')
<1>1. wire[s] \in Seq(TcpMessages) /\ wire \in [Sockets -> Seq(TcpMessages)]
  BY DEF TcpTypeOK
<1>2. SubSeq(wire[s], k + 1, Len(wire[s])) \in Seq(TcpMessages)
  BY <1>1, SubSeqProperties
<1>3. wire' = [wire EXCEPT ![s] = SubSeq(@, k + 1, Len(@))]
  BY DEF DataEvent
<1>4. wire' \in [Sockets -> Seq(TcpMessages)]
  BY <1>1, <1>2, <1>3
<1>. QED
  BY <1>1, <1>3, <1>4 DEF DataEvent, TcpTypeOK, Sound

(* internalDestroy, with only the last socket alive and perhaps changed.     *)
LEMMA InternalDestroyTcp ==
  ASSUME TcpTypeOK, NEW p \in [Sockets -> Phases], InternalDestroy(p)
  PROVE  /\ closing' \in BOOLEAN /\ due' \in CloseSteps /\ tcpState' \in TcpStates => TcpTypeOK'
         /\ /\ Sound /\ ~closing' /\ tcpState' = Disconnected
            /\ \A s \in Sockets : s # opened => p[s] = phase[s]
            => Sound'
<1>1. tcpQueue' = EmptyQueue /\ UNCHANGED <<opened, ticks>>
      /\ phase' = [s \in Sockets |-> IF s = opened THEN "dead" ELSE p[s]]
      /\ listening' = listening \ {opened}
      /\ wire' = [s \in Sockets |-> IF phase'[s] = "dead" THEN <<>> ELSE wire[s]]
  BY DEF InternalDestroy, OfLive
<1>2. EmptyQueue \in Queue(TcpMessages)
  BY DEF EmptyQueue, Queue
<1>3. phase' \in [Sockets -> Phases] /\ wire' \in [Sockets -> Seq(TcpMessages)]
  <2>1. phase' \in [Sockets -> Phases]
    BY <1>1 DEF Phases
  <2>2. \A s \in Sockets : wire[s] \in Seq(TcpMessages)
    BY DEF TcpTypeOK
  <2>. QED
    BY <1>1, <2>1, <2>2
<1>4. listening' \subseteq Sockets
  BY <1>1 DEF TcpTypeOK
<1>5. closing' \in BOOLEAN /\ due' \in CloseSteps /\ tcpState' \in TcpStates => TcpTypeOK'
  BY <1>1, <1>2, <1>3, <1>4 DEF TcpTypeOK
<1>6. ASSUME Sound, ~closing', tcpState' = Disconnected,
             \A s \in Sockets : s # opened => p[s] = phase[s]
      PROVE  Sound'
  <2>1. /\ MaxSockets \in Nat /\ opened \in 0 .. MaxSockets /\ Sockets = 1 .. MaxSockets
        /\ opened # 0 => opened \in Sockets
    BY TcpAssumption DEF TcpTypeOK, Sockets
  <2>2. \A s \in Sockets : s # opened => phase[s] \in {"unused", "dead"}
    BY ONLY <1>6 DEF Sound
  <2>3. \A s \in Sockets : s > opened => phase[s] = "unused" /\ s # opened
    BY <1>6, <2>1 DEF Sound
  <2>4. \A s \in Sockets : phase'[s] = IF s = opened THEN "dead" ELSE phase[s]
    BY ONLY <1>1, <1>6
  <2>5. \A s \in Sockets : phase'[s] \in {"unused", "dead"}
    BY ONLY <2>2, <2>4
  <2>6. \A s \in Sockets : s > opened => phase'[s] = "unused"
    BY ONLY <2>3, <2>4
  <2>7. opened # 0 => phase'[opened] = "dead"
    BY ONLY <2>1, <2>4
  <2>8. listening' = {}
    BY <1>1, <1>6 DEF Sound
  <2>9. \A s \in Sockets : phase'[s] \in {"unused", "connecting", "dead"} => wire'[s] = <<>>
    <3>1. \A s \in Sockets : phase'[s] # "dead" => phase[s] = "unused"
      BY ONLY <2>2, <2>4
    <3>2. \A s \in Sockets : phase[s] = "unused" => wire[s] = <<>>
      BY ONLY <1>6 DEF Sound
    <3>. QED
      BY ONLY <1>1, <3>1, <3>2
  <2>10. tcpState' # Disconnecting /\ PhaseIn(tcpState') = "dead"
    BY ONLY <1>6 DEF PhaseIn, Disconnected, Disconnecting, Connecting, Connected
  <2>. QED
    BY ONLY <1>1, <1>6, <2>5, <2>6, <2>7, <2>8, <2>9, <2>10 DEF Sound
<1>. QED
  BY <1>5, <1>6

(* A socket fails.                                                           *)
LEMMA SocketFailureTcp ==
  ASSUME TcpTypeOK, NEW s \in Sockets, NEW after, SocketFailure(s, after)
  PROVE  TcpTypeOK' /\ (Sound => Sound' /\ s = opened)
<1>. DEFINE p == [phase EXCEPT ![s] = after]
<1>1. /\ s \in listening /\ (after = "dead" \/ after = phase[s])
      /\ InternalDestroy(p) /\ tcpState' = Disconnected
      /\ closing' = (closing /\ (phase[s] = "ending" => after = "ending")
                     /\ phase[opened] # "ending")
      /\ due = "nothing" /\ due' \in CloseSteps
  BY DEF SocketFailure, Failure, CloseSteps
<1>2. p \in [Sockets -> Phases]
  BY <1>1 DEF TcpTypeOK, Phases
<1>3. closing' \in BOOLEAN /\ tcpState' \in TcpStates
  BY <1>1 DEF TcpStates
<1>4. ASSUME Sound
      PROVE  s = opened /\ ~closing' /\ \A x \in Sockets : x # opened => p[x] = phase[x]
  <2>1. s = opened
    BY <1>1, <1>4 DEF Sound
  <2>2. closing => phase[opened] = "ending"
    BY <1>1, <1>4, <2>1, TcpAssumption
    DEF TcpTypeOK, Sound, PhaseIn, Sockets, Disconnected, Disconnecting, Connecting, Connected
  <2>. QED
    BY <1>1, <2>1, <2>2 DEF TcpTypeOK
<1>. HIDE DEF p
<1>. QED
  BY <1>1, <1>2, <1>3, <1>4, InternalDestroyTcp

(* The same when an error callback sends again.                              *)
LEMMA SocketFailureAndResendType ==
  ASSUME TcpTypeOK, NEW s \in Sockets, NEW after, SocketFailureAndResend(s, after)
  PROVE  TcpTypeOK'
<1>1. /\ s \in listening /\ (after = "dead" \/ after = phase[s])
      /\ opened < MaxSockets /\ opened' = opened + 1 /\ tcpState' = Connecting
      /\ tcpQueue' = EmptyQueue
      /\ closing' = (closing /\ (phase[s] = "ending" => after = "ending"))
      /\ phase' = [phase EXCEPT ![s] = after, ![opened + 1] = "dead"]
      /\ wire' = [x \in Sockets |-> IF phase'[x] = "dead" THEN <<>> ELSE wire[x]]
      /\ UNCHANGED <<listening, ticks, due>>
  BY DEF SocketFailureAndResend, Failure, OfLive
<1>2. EmptyQueue \in Queue(TcpMessages)
  BY DEF EmptyQueue, Queue
<1>3. phase' \in [Sockets -> Phases]
  BY <1>1 DEF TcpTypeOK, Phases
<1>4. wire' \in [Sockets -> Seq(TcpMessages)]
  <2>1. \A x \in Sockets : wire[x] \in Seq(TcpMessages)
    BY DEF TcpTypeOK
  <2>. QED
    BY <1>1, <2>1
<1>5. closing' \in BOOLEAN
  BY <1>1
<1>6. opened' \in 0 .. MaxSockets /\ tcpState' \in TcpStates
  BY <1>1, TcpAssumption DEF TcpTypeOK, TcpStates
<1>. QED
  BY <1>1, <1>2, <1>3, <1>4, <1>5, <1>6 DEF TcpTypeOK

(* A 'close' event: none comes as long as the state agrees with the sockets. *)
LEMMA CloseEventTcp ==
  ASSUME TcpTypeOK, NEW s \in Sockets, CloseEvent(s)
  PROVE  TcpTypeOK' /\ ~Sound
<1>1. TcpTypeOK'
  BY DEF CloseEvent, TcpTypeOK, TcpStates
<1>2. ~Sound
  BY TcpAssumption
  DEF CloseEvent, TcpTypeOK, TcpStates, Sound, PhaseIn, Sockets,
      Disconnected, Disconnecting, Connecting, Connected
<1>. QED
  BY <1>1, <1>2

(* disconnect, as far as types go.                                           *)
LEMMA StartDisconnectType ==
  ASSUME TcpTypeOK, StartDisconnect
  PROVE  tcpState' \in TcpStates /\ phase' \in [Sockets -> Phases]
<1>1. "ending" \in Phases
  BY DEF Phases
<1>. QED
  BY <1>1 DEF TcpTypeOK, StartDisconnect, TcpStates

LEMMA DisconnectType ==
  ASSUME TcpTypeOK, Disconnect
  PROVE  TcpTypeOK'
BY StartDisconnectType DEF Disconnect, TcpTypeOK

(* The parts of close.                                                       *)
LEMMA CloseCalledTcp ==
  ASSUME TcpTypeOK, NEW step \in CloseSteps \ {"destroy"}, CloseCalled(step)
  PROVE  TcpTypeOK' /\ (Sound => Sound')
BY DEF CloseCalled, TcpTypeOK, Sound

LEMMA CloseDisconnectsTcp ==
  ASSUME TcpTypeOK, CloseDisconnects
  PROVE  TcpTypeOK' /\ (Sound => Sound')
<1>1. CASE /\ tcpState \in {Disconnected, Connecting} /\ tcpState' = Disconnected
           /\ due' = "destroy" /\ UNCHANGED <<phase, closing>>
  <2>1. UNCHANGED <<opened, listening, tcpQueue, ticks, wire>>
    BY DEF CloseDisconnects
  <2>2. TcpTypeOK'
    BY <1>1, <2>1 DEF TcpTypeOK, TcpStates, CloseSteps
  <2>3. Sound => Sound'
    BY <1>1, <2>1 DEF Sound, Disconnected, Disconnecting, Connecting
  <2>. QED
    BY <2>2, <2>3
<1>2. CASE /\ tcpState = Connected /\ StartDisconnect /\ closing' = TRUE /\ due' = "nothing"
  <2>1. UNCHANGED <<opened, listening, tcpQueue, ticks, wire>> /\ due = "disconnect"
    BY DEF CloseDisconnects
  <2>2. TcpTypeOK'
    BY <1>2, <2>1, StartDisconnectType DEF TcpTypeOK, CloseSteps
  <2>3. tcpState' = Disconnecting /\ phase' = [phase EXCEPT ![opened] = "ending"]
    BY <1>2 DEF StartDisconnect, Connecting, Connected
  <2>4. Sound => Sound'
    BY <1>2, <2>1, <2>3, TcpAssumption
    DEF TcpTypeOK, Sound, PhaseIn, Sockets, Disconnected, Disconnecting, Connecting, Connected
  <2>. QED
    BY <2>2, <2>4
<1>3. CASE /\ tcpState = Disconnecting /\ closing' = TRUE /\ due' = "nothing"
           /\ UNCHANGED <<tcpState, phase>>
  <2>1. UNCHANGED <<opened, listening, tcpQueue, ticks, wire>> /\ due = "disconnect"
    BY DEF CloseDisconnects
  <2>. QED
    BY <1>3, <2>1 DEF TcpTypeOK, Sound, CloseSteps
<1>. QED
  BY <1>1, <1>2, <1>3 DEF CloseDisconnects

LEMMA CloseDestroysTcp ==
  ASSUME TcpTypeOK, CloseDestroys
  PROVE  TcpTypeOK' /\ (Sound => Sound')
<1>1. /\ due = "destroy" /\ due' = "nothing" /\ InternalDestroy(phase)
      /\ UNCHANGED <<tcpState, closing>>
  BY DEF CloseDestroys
<1>2. /\ phase \in [Sockets -> Phases] /\ closing' \in BOOLEAN
      /\ due' \in CloseSteps /\ tcpState' \in TcpStates
  BY <1>1 DEF TcpTypeOK, CloseSteps
<1>3. Sound => tcpState' = Disconnected /\ ~closing'
  BY <1>1 DEF Sound, Disconnected, Disconnecting
<1>. QED
  BY <1>1, <1>2, <1>3, InternalDestroyTcp

(* The callback of socket.end.                                               *)
LEMMA EndCallbackTcp ==
  ASSUME TcpTypeOK, NEW s \in Sockets, EndCallback(s)
  PROVE  TcpTypeOK' /\ (Sound => Sound' /\ closing)
<1>. DEFINE p == [phase EXCEPT ![s] = "ended"]
<1>1. p \in [Sockets -> Phases]
  BY DEF TcpTypeOK, Phases
<1>2. /\ phase[s] = "ending" /\ due = "nothing" /\ tcpState' = Disconnected /\ closing' = FALSE
      /\ tcpState' \in TcpStates /\ due' \in CloseSteps
  BY DEF EndCallback, TcpStates, TcpTypeOK, CloseSteps
<1>3. Sound => s = opened /\ closing /\ \A x \in Sockets : x # opened => p[x] = phase[x]
  BY <1>2, TcpAssumption
  DEF TcpTypeOK, TcpStates, Sound, PhaseIn, Sockets,
      Disconnected, Disconnecting, Connecting, Connected
<1>4. CASE InternalDestroy(p)
  <2>. HIDE DEF p
  <2>. QED
    BY <1>1, <1>2, <1>3, <1>4, InternalDestroyTcp
<1>5. CASE /\ due' = IF closing THEN "destroy" ELSE due
           /\ phase' = p /\ UNCHANGED <<opened, listening, tcpQueue, ticks, wire>>
  <2>1. TcpTypeOK'
    BY <1>1, <1>2, <1>5 DEF TcpTypeOK
  <2>2. ASSUME Sound PROVE Sound'
    <3>1. /\ \A x \in Sockets : x # opened => phase'[x] = phase[x]
          /\ phase'[opened] = "ended" /\ due' = "destroy"
      BY <1>2, <1>3, <1>5, <2>2 DEF TcpTypeOK
    <3>2. \A x \in Sockets : x > opened => x # opened
      BY DEF TcpTypeOK, Sockets
    <3>. HIDE DEF p
    <3>. QED
      BY <1>2, <1>3, <1>5, <2>2, <3>1, <3>2 DEF Sound, Disconnected, Disconnecting
  <2>. QED
    BY <1>3, <2>1, <2>2
<1>. QED
  BY <1>4, <1>5 DEF EndCallback

(* Layer.send, and the setImmediate that follows a write.                    *)
LEMMA TcpSendTcp ==
  ASSUME TcpTypeOK, NEW m \in TcpMessages, NEW priority \in BOOLEAN, TcpSend(m, priority)
  PROVE  TcpTypeOK' /\ (Sound /\ due # "destroy" => Sound')
<1>1. Enqueue(tcpQueue, m, priority) \in Queue(TcpMessages)
  BY QueueFacts DEF TcpTypeOK
<1>2. tcpState \in TcpStates /\ ticks \in Nat
  BY DEF TcpTypeOK
<1>3. SendNext(tcpState, Enqueue(tcpQueue, m, priority), ticks)
      /\ phase' = OpenedPhase(phase) /\ UNCHANGED <<closing, due>>
  BY DEF TcpSend
<1>4. TcpTypeOK'
  BY <1>1, <1>2, <1>3, SendNextType DEF TcpTypeOK
<1>. QED
  BY <1>3, <1>4, SendNextSound

LEMMA SendTickTcp ==
  ASSUME TcpTypeOK, SendTick
  PROVE  TcpTypeOK' /\ (Sound => Sound')
<1>1. tcpState \in TcpStates /\ ticks - 1 \in Nat /\ tcpQueue \in Queue(TcpMessages)
  BY DEF TcpTypeOK, SendTick
<1>2. SendNext(tcpState, tcpQueue, ticks - 1) /\ phase' = OpenedPhase(phase)
      /\ UNCHANGED <<closing, due>> /\ due = "nothing"
  BY DEF SendTick
<1>3. TcpTypeOK'
  BY <1>1, <1>2, SendNextType DEF TcpTypeOK
<1>. QED
  BY <1>2, <1>3, SendNextSound

-----------------------------------------------------------------------------
(* What several messages sent in turn leave: messages of a set M stay in the *)
(* queue and on the wires.                                                   *)
LEMMA SliceType ==
  ASSUME NEW M, NEW s \in Seq(M), NEW i \in Nat \ {0}, NEW j \in Nat, j <= Len(s)
  PROVE  SubSeq(s, i, j) \in Seq(M)
<1>1. Len(s) \in Nat
  BY LenProperties
<1>2. \A k \in i .. j : s[k] \in M
  BY <1>1, ElementOfSeq
<1>. QED
  BY <1>2, SubSeqProperties

LEMMA EnqueueAllFacts ==
  ASSUME NEW M, NEW q \in Queue(M), NEW ms \in Seq(M), NEW priority \in BOOLEAN,
         NEW n \in Nat, n <= Len(ms)
  PROVE  /\ EnqueueAll(q, ms, priority) \in Queue(M)
         /\ Foremost(EnqueueAll(q, ms, priority), n) \in Seq(M)
         /\ WithoutForemost(EnqueueAll(q, ms, priority), n) \in Queue(M)
<1>. DEFINE r == EnqueueAll(q, ms, priority)
            s == r.priority \o r.normal
            later == IF n > Len(r.priority) THEN n - Len(r.priority) ELSE 0
<1>1. q.priority \in Seq(M) /\ q.normal \in Seq(M)
      /\ q = [priority |-> q.priority, normal |-> q.normal]
  BY DEF Queue
<1>2. q.priority \o ms \in Seq(M) /\ q.normal \o ms \in Seq(M)
      /\ Len(q.priority \o ms) = Len(q.priority) + Len(ms)
      /\ Len(q.normal \o ms) = Len(q.normal) + Len(ms)
  BY <1>1, ConcatProperties
<1>3. r \in Queue(M)
  BY <1>1, <1>2 DEF EnqueueAll, Queue
<1>4. \/ r.priority = q.priority \o ms /\ r.normal = q.normal
      \/ r.priority = q.priority /\ r.normal = q.normal \o ms
  BY <1>1 DEF EnqueueAll
<1>5. Len(q.priority) \in Nat /\ Len(q.normal) \in Nat /\ Len(ms) \in Nat
  BY <1>1, LenProperties
<1>. HIDE DEF r
<1>6. r.priority \in Seq(M) /\ r.normal \in Seq(M)
      /\ Len(r.priority) \in Nat /\ Len(r.normal) \in Nat
  BY <1>3, LenProperties DEF Queue
<1>7. s \in Seq(M) /\ Len(s) = Len(r.priority) + Len(r.normal)
  BY <1>6, ConcatProperties
<1>. HIDE DEF s
<1>8. n <= Len(s)
  <2>. DEFINE l == Len(s)
              k == Len(ms)
              lp == Len(r.priority)
              ln == Len(r.normal)
              kp == Len(q.priority)
              kn == Len(q.normal)
  <2>1. lp = kp + k \/ ln = kn + k
    BY <1>2, <1>4
  <2>2. l = lp + ln /\ lp \in Nat /\ ln \in Nat /\ kp \in Nat /\ kn \in Nat /\ k \in Nat /\ n <= k
    BY <1>5, <1>6, <1>7
  <2>. HIDE DEF l, k, lp, ln, kp, kn
  <2>3. n <= l
    BY <2>1, <2>2
  <2>. QED
    BY <2>3 DEF l
<1>9. Foremost(r, n) \in Seq(M)
  <2>1. SubSeq(s, 1, n) \in Seq(M)
    <3>1. n <= Len(s)
      BY <1>8
    <3>2. s \in Seq(M)
      BY <1>7
    <3>3. 1 \in Nat \ {0}
      OBVIOUS
    <3>4. n \in Nat
      OBVIOUS
    <3>. QED
      BY <3>1, <3>2, <3>3, <3>4, SliceType
  <2>. QED
    BY <2>1 DEF Foremost, s
<1>10. later \in Nat
  BY <1>6
<1>. HIDE DEF later
<1>11. SubSeq(r.priority, n + 1, Len(r.priority)) \in Seq(M)
       /\ SubSeq(r.normal, later + 1, Len(r.normal)) \in Seq(M)
  BY <1>6, <1>10, SliceType
<1>12. WithoutForemost(r, n) \in Queue(M)
  BY <1>11 DEF WithoutForemost, Queue, later
<1>. QED
  BY <1>3, <1>9, <1>12 DEF r

LEMMA SendEachType ==
  ASSUME TcpTypeOK, NEW M, tcpQueue \in Queue(M), NEW ms \in Seq(M), NEW priority \in BOOLEAN,
         NEW w \in [Sockets -> Seq(M)], SendEach(ms, priority, w)
  PROVE  /\ tcpQueue' \in Queue(M) /\ wire' \in [Sockets -> Seq(M)]
         /\ tcpState' \in TcpStates /\ opened' \in 0 .. MaxSockets /\ listening' \subseteq Sockets
         /\ phase' \in [Sockets -> Phases] /\ ticks' \in Nat /\ closing' \in BOOLEAN
<1>. DEFINE q == EnqueueAll(tcpQueue, ms, priority)
            n == IF tcpState = Connected THEN Len(ms) ELSE 0
<1>1. opened \in 0 .. MaxSockets /\ listening \subseteq Sockets /\ phase \in [Sockets -> Phases]
      /\ ticks \in Nat /\ closing \in BOOLEAN /\ tcpState \in TcpStates
  BY DEF TcpTypeOK
<1>2. n \in Nat /\ n <= Len(ms) /\ q \in Queue(M) /\ Foremost(q, n) \in Seq(M)
      /\ WithoutForemost(q, n) \in Queue(M)
  <2>1. Len(ms) \in Nat
    BY LenProperties
  <2>2. n \in Nat /\ n <= Len(ms)
    BY <2>1
  <2>. HIDE DEF n
  <2>. QED
    BY <2>2, EnqueueAllFacts
<1>3. closing' = closing /\ phase' = OpenedPhase(phase)
  BY DEF SendEach
<1>4. CASE /\ wire' = IF n = 0 THEN w ELSE [w EXCEPT ![opened] = @ \o Foremost(q, n)]
           /\ tcpQueue' = WithoutForemost(q, n) /\ ticks' = ticks + n
           /\ UNCHANGED <<tcpState, opened, listening>>
  <2>1. \A x \in Seq(M) : x \o Foremost(q, n) \in Seq(M)
    BY <1>2, ConcatProperties
  <2>. HIDE DEF q, n
  <2>2. wire' \in [Sockets -> Seq(M)]
    BY <1>4, <2>1
  <2>. QED
    BY <1>1, <1>2, <1>3, <1>4, <2>2 DEF OpenedPhase
<1>5. CASE /\ opened < MaxSockets /\ opened' = opened + 1
           /\ listening' = listening \cup {opened + 1} /\ tcpState' = Connecting
           /\ tcpQueue' = q /\ wire' = w /\ UNCHANGED ticks
  <2>. HIDE DEF q, n
  <2>. QED
    BY <1>1, <1>2, <1>3, <1>5, TcpAssumption DEF Sockets, TcpStates, OpenedPhase, Phases
<1>. QED
  BY <1>4, <1>5 DEF SendEach

LEMMA SendEachSound ==
  ASSUME TcpTypeOK, Sound, NEW ms, NEW priority, NEW w \in [Sockets -> Seq(TcpMessages)],
         SendEach(ms, priority, w), due # "destroy", due' # "destroy",
         \A s \in Sockets : phase[s] \in {"unused", "connecting", "dead"} => w[s] = <<>>
  PROVE  Sound'
<1>. USE TcpAssumption
     DEF TcpTypeOK, Sound, PhaseIn, Sockets, Disconnected, Disconnecting, Connecting, Connected
<1>1. CASE tcpState = Disconnected /\ opened' = opened + 1
  <2>1. /\ opened < MaxSockets /\ tcpState' = Connecting
        /\ listening' = listening \cup {opened + 1} /\ wire' = w
        /\ phase' = OpenedPhase(phase) /\ UNCHANGED closing
    BY <1>1 DEF SendEach
  <2>2. \A s \in Sockets : phase[s] \in {"unused", "connecting", "dead"} => wire'[s] = <<>>
    BY <2>1
  <2>. HIDE DEF TcpTypeOK, Sound, PhaseIn, Sockets, Disconnected, Connecting
  <2>. QED
    BY <1>1, <2>1, <2>2, OpenedSound
<1>2. CASE UNCHANGED <<tcpState, opened, listening>>
  <2>1. phase' = phase /\ closing' = closing
    BY <1>2 DEF SendEach, OpenedPhase
  <2>2. \A s \in Sockets : wire'[s] = w[s] \/ (tcpState = Connected /\ s = opened)
    BY <1>2 DEF SendEach
  <2>3. tcpState = Connected => phase[opened] = "open"
    BY <1>2
  <2>4. \A s \in Sockets : phase[s] \in {"unused", "connecting", "dead"} => wire'[s] = <<>>
    BY <2>2, <2>3
  <2>. QED
    BY <1>2, <2>1, <2>4
<1>. QED
  BY <1>1, <1>2 DEF SendEach

(* What the layer holds and what is on its wires is of a set M.              *)
Carries(M) == tcpQueue \in Queue(M) /\ wire \in [Sockets -> Seq(M)]

LEMMA CarriesMore ==
  ASSUME NEW M, NEW N, M \subseteq N, Carries(M)
  PROVE  Carries(N)
<1>1. \A s \in Seq(M) : s \in Seq(N)
  BY SeqMonotonic
<1>. QED
  BY <1>1 DEF Carries, Queue

LEMMA SendNextCarries ==
  ASSUME NEW M, NEW state, NEW q \in Queue(M), NEW t,
         wire \in [Sockets -> Seq(M)], SendNext(state, q, t)
  PROVE  Carries(M)'
<1>1. CASE /\ HasRequest(q)
           /\ wire' = [wire EXCEPT ![opened] = Append(@, Peek(q))]
           /\ tcpQueue' = Dequeue(q)
  <2>1. Peek(q) \in M /\ Dequeue(q) \in Queue(M)
    BY <1>1, QueueFacts
  <2>2. \A w \in Seq(M) : Append(w, Peek(q)) \in Seq(M)
    BY <2>1, AppendProperties
  <2>. QED
    BY <1>1, <2>1, <2>2 DEF Carries
<1>2. CASE tcpQueue' = q /\ wire' = wire
  BY <1>2 DEF Carries
<1>. QED
  BY <1>1, <1>2 DEF SendNext

LEMMA InternalDestroyCarries ==
  ASSUME NEW M, Carries(M), NEW p, InternalDestroy(p)
  PROVE  Carries(M)'
<1>1. EmptyQueue \in Queue(M)
  BY DEF EmptyQueue, Queue
<1>2. \A s \in Sockets : wire[s] \in Seq(M)
  BY DEF Carries
<1>. QED
  BY <1>1, <1>2 DEF InternalDestroy, OfLive, Carries

LEMMA SendTickCarries ==
  ASSUME NEW M, Carries(M), SendTick
  PROVE  Carries(M)'
BY SendNextCarries DEF SendTick, Carries

LEMMA ConnectEventCarries ==
  ASSUME NEW M, Carries(M), NEW s \in Sockets, ConnectEvent(s)
  PROVE  Carries(M)'
<1>1. CASE SendNext(Connected, tcpQueue, ticks)
  BY <1>1, SendNextCarries DEF Carries
<1>2. CASE UNCHANGED <<tcpQueue, wire>>
  BY <1>2 DEF Carries
<1>. QED
  BY <1>1, <1>2 DEF ConnectEvent

LEMMA CloseCarries ==
  ASSUME NEW M, Carries(M),
         (\E step : CloseCalled(step)) \/ CloseDisconnects \/ CloseDestroys
  PROVE  Carries(M)'
BY InternalDestroyCarries DEF CloseCalled, CloseDisconnects, CloseDestroys, Carries

LEMMA EndCallbackCarries ==
  ASSUME NEW M, Carries(M), NEW s \in Sockets, EndCallback(s)
  PROVE  Carries(M)'
BY InternalDestroyCarries DEF EndCallback, Carries

(* A reply is taken off the wire, ...                                        *)
LEMMA TakeOne ==
  ASSUME NEW M, NEW w \in [Sockets -> Seq(M)], NEW s \in Sockets, w[s] # <<>>
  PROVE  [w EXCEPT ![s] = Tail(@)] \in [Sockets -> Seq(M)]
<1>1. Tail(w[s]) \in Seq(M)
  BY HeadTailProperties
<1>. QED
  BY <1>1

(* ... and what it makes the layer above send goes out.                      *)
LEMMA DataEventAndSendCarries ==
  ASSUME TcpTypeOK, NEW M, Carries(M), NEW s \in Sockets, NEW ms \in Seq(M),
         DataEventAndSend(s, ms)
  PROVE  Carries(M)'
<1>. DEFINE w == [wire EXCEPT ![s] = Tail(@)]
<1>1. wire[s] # <<>> /\ SendEach(ms, FALSE, w)
  BY DEF DataEventAndSend
<1>2. w \in [Sockets -> Seq(M)]
  BY <1>1, TakeOne DEF Carries
<1>. HIDE DEF w
<1>. QED
  BY <1>1, <1>2, SendEachType DEF Carries

LEMMA SendEachTcp ==
  ASSUME TcpTypeOK, NEW ms \in Seq(TcpMessages), NEW priority \in BOOLEAN,
         SendEach(ms, priority, wire)
  PROVE  /\ due' \in CloseSteps => TcpTypeOK'
         /\ Sound /\ due # "destroy" /\ due' # "destroy" => Sound'
<1>1. due' \in CloseSteps => TcpTypeOK'
  BY SendEachType DEF TcpTypeOK
<1>2. ASSUME Sound, due # "destroy", due' # "destroy" PROVE Sound'
  <2>1. \A s \in Sockets : phase[s] \in {"unused", "connecting", "dead"} => wire[s] = <<>>
    BY <1>2 DEF Sound
  <2>2. wire \in [Sockets -> Seq(TcpMessages)]
    BY DEF TcpTypeOK
  <2>. QED
    BY <1>2, <2>1, <2>2, SendEachSound
<1>. QED
  BY <1>1, <1>2

LEMMA DataEventAndSendTcp ==
  ASSUME TcpTypeOK, NEW s \in Sockets, NEW ms \in Seq(TcpMessages), DataEventAndSend(s, ms)
  PROVE  TcpTypeOK' /\ (Sound => Sound' /\ s = opened)
<1>. DEFINE w == [wire EXCEPT ![s] = Tail(@)]
<1>1. /\ wire[s] # <<>> /\ SendEach(ms, FALSE, w) /\ s \in listening
      /\ phase[s] \in {"open", "ending", "ended"} /\ due = "nothing" /\ due' = due
  BY DEF DataEventAndSend
<1>2. w \in [Sockets -> Seq(TcpMessages)]
  BY <1>1, TakeOne DEF TcpTypeOK
<1>3. ASSUME Sound
      PROVE  /\ s = opened
             /\ \A x \in Sockets : phase[x] \in {"unused", "connecting", "dead"} => w[x] = <<>>
  <2>1. wire \in [Sockets -> Seq(TcpMessages)]
    BY DEF TcpTypeOK
  <2>. QED
    BY <1>1, <1>3, <2>1 DEF Sound
<1>. HIDE DEF w
<1>4. TcpTypeOK'
  BY <1>1, <1>2, SendEachType DEF TcpTypeOK
<1>5. ASSUME Sound PROVE Sound'
  BY <1>1, <1>2, <1>3, <1>5, SendEachSound
<1>. QED
  BY <1>3, <1>4, <1>5

(* Several messages sent in turn: nothing changes if there is none; they wait *)
(* on a layer that is not connected; and a connected one with nothing urgent *)
(* in its queue has nothing urgent afterwards.                               *)
LEMMA WholeQueue ==
  ASSUME NEW M, NEW q \in Queue(M)
  PROVE  WithoutForemost(q, 0) = q
<1>1. q.priority \in Seq(M) /\ q.normal \in Seq(M)
      /\ q = [priority |-> q.priority, normal |-> q.normal]
  BY DEF Queue
<1>2. Len(q.priority) \in Nat
  BY <1>1, LenProperties
<1>3. SubSeq(q.priority, 1, Len(q.priority)) = q.priority
      /\ SubSeq(q.normal, 1, Len(q.normal)) = q.normal
  BY <1>1, SubSeqFull
<1>. DEFINE l == Len(q.priority)
            later == IF 0 > l THEN 0 - l ELSE 0
<1>4. ~(0 > l)
  BY <1>2
<1>5. later + 1 = 1 /\ 0 + 1 = 1
  BY <1>4
<1>6. WithoutForemost(q, 0) = [priority |-> SubSeq(q.priority, 0 + 1, l),
                               normal |-> SubSeq(q.normal, later + 1, Len(q.normal))]
  BY DEF WithoutForemost
<1>. HIDE DEF later
<1>. QED
  BY <1>1, <1>3, <1>5, <1>6

LEMMA SendEachQueue ==
  ASSUME TcpTypeOK, NEW ms \in Seq(TcpMessages), NEW priority \in BOOLEAN, NEW w,
         SendEach(ms, priority, w)
  PROVE  /\ ms = <<>> => /\ wire' = w
                         /\ UNCHANGED <<tcpState, opened, phase, listening, tcpQueue, ticks>>
         /\ tcpState # Connected
              => wire' = w /\ tcpQueue' = EnqueueAll(tcpQueue, ms, priority)
         /\ tcpState = Connected
              => /\ UNCHANGED <<tcpState, opened, phase, listening>>
                 /\ tcpQueue.priority = <<>> => tcpQueue'.priority = <<>>
<1>. DEFINE q == EnqueueAll(tcpQueue, ms, priority)
            n == IF tcpState = Connected THEN Len(ms) ELSE 0
<1>1. q \in Queue(TcpMessages) /\ tcpQueue \in Queue(TcpMessages) /\ Len(ms) \in Nat
  <2>1. 0 <= Len(ms) /\ tcpQueue \in Queue(TcpMessages) /\ Len(ms) \in Nat
    BY LenProperties DEF TcpTypeOK
  <2>. QED
    BY <2>1, EnqueueAllFacts
<1>2. ASSUME ms = <<>> PROVE q = tcpQueue
  <2>1. tcpQueue.priority \in Seq(TcpMessages) /\ tcpQueue.normal \in Seq(TcpMessages)
        /\ tcpQueue = [priority |-> tcpQueue.priority, normal |-> tcpQueue.normal]
    BY <1>1 DEF Queue
  <2>2. tcpQueue.priority \o ms = tcpQueue.priority /\ tcpQueue.normal \o ms = tcpQueue.normal
    BY <1>2, <2>1, ConcatEmptySeq
  <2>. QED
    BY <2>1, <2>2 DEF EnqueueAll
<1>3. closing' = closing /\ phase' = OpenedPhase(phase)
  BY DEF SendEach
<1>4. ms = <<>> \/ tcpState # Connected => n = 0
  BY EmptySeq
<1>5. WithoutForemost(q, 0) = q
  BY <1>1, WholeQueue
<1>6. \/ /\ wire' = IF n = 0 THEN w ELSE [w EXCEPT ![opened] = @ \o Foremost(q, n)]
         /\ tcpQueue' = WithoutForemost(q, n) /\ ticks' = ticks + n
         /\ UNCHANGED <<tcpState, opened, listening>>
      \/ ms # <<>> /\ tcpState = Disconnected /\ tcpQueue' = q /\ wire' = w
  BY DEF SendEach
<1>. HIDE DEF q, n
<1>7. ASSUME ms = <<>>
      PROVE  /\ wire' = w
             /\ UNCHANGED <<tcpState, opened, phase, listening, tcpQueue, ticks>>
  <2>1. ticks + 0 = ticks
    BY DEF TcpTypeOK
  <2>. QED
    BY <1>2, <1>3, <1>4, <1>5, <1>6, <1>7, <2>1 DEF OpenedPhase
<1>8. ASSUME tcpState # Connected PROVE wire' = w /\ tcpQueue' = q
  BY <1>4, <1>5, <1>6, <1>8
<1>9. ASSUME tcpState = Connected
      PROVE  UNCHANGED <<tcpState, opened, phase, listening>>
  BY <1>3, <1>6, <1>9 DEF OpenedPhase, Disconnected, Connected
<1>10. ASSUME tcpState = Connected, tcpQueue.priority = <<>>
       PROVE  tcpQueue'.priority = <<>>
  <2>1. tcpQueue' = WithoutForemost(q, n) /\ n = Len(ms)
    BY <1>6, <1>10 DEF Disconnected, Connected, n
  <2>2. q.priority = <<>> \/ q.priority = ms
    <3>1. <<>> \o ms = ms
      BY ConcatEmptySeq
    <3>2. tcpQueue = [priority |-> tcpQueue.priority, normal |-> tcpQueue.normal]
      BY <1>1 DEF Queue
    <3>. QED
      BY <1>10, <3>1, <3>2 DEF q, EnqueueAll
  <2>3. Len(q.priority) < n + 1 /\ Len(q.priority) \in Int /\ n + 1 \in Int
    BY <1>1, <2>1, <2>2, EmptySeq
  <2>4. SubSeq(q.priority, n + 1, Len(q.priority)) = <<>>
    BY <2>3, SubSeqEmpty
  <2>. QED
    BY <2>1, <2>4 DEF WithoutForemost
<1>. QED
  BY <1>7, <1>8, <1>9, <1>10 DEF q
=============================================================================
