------------------------------- MODULE TcpLayer -------------------------------
(***************************************************************************)
(* TCPLayer (layers/tcp/index.js) with the part of Layer (layers/Layer.js)  *)
(* it inherits, over the sockets of Node's net module.                      *)
(*                                                                          *)
(* The layer keeps a connection state, a queue and the socket it created    *)
(* last; sockets are numbered in the order net.createConnection is called,  *)
(* so this.socket is the number of sockets opened.  Each socket has a phase *)
(* that belongs to Node and the operating system, and is in "listening" as  *)
(* long as the layer's event listeners are on it: a socket the layer has    *)
(* replaced but not destroyed goes on calling them.                         *)
(*                                                                          *)
(* Every action is one callback of the event loop, with all it calls, or    *)
(* one part of Layer.close between two of its awaits.  The actions          *)
(* constrain this module's variables only: a module for the layer above     *)
(* conjoins what the same callback does there.                              *)
(***************************************************************************)
EXTENDS Integers, RequestQueue

CONSTANTS
  TcpMessages,  \* what the layer above sends
  MaxSockets,   \* bound: connections opened
  IdleTimeout   \* TRUE: options.timeout > 0, an idle connection times out

ASSUME TcpAssumption == MaxSockets \in Nat \ {0} /\ IdleTimeout \in BOOLEAN

VARIABLES
  tcpState,  \* TCPLayer._connectionState
  opened,    \* sockets created; this.socket is the last of them, 0 is none
  phase,     \* phase of each socket
  listening, \* sockets that carry the layer's listeners
  tcpQueue,  \* Layer._queue
  ticks,     \* write callbacks and their setImmediate(sendNextMessage) to come
  wire,      \* messages written on each socket and not yet answered
  closing,   \* Layer.close awaits the end() of disconnect
  due        \* the part of Layer.close that the microtask queue holds

tcpVars == <<tcpState, opened, phase, listening, tcpQueue, ticks, wire, closing, due>>

Disconnecting == -1
Disconnected == 0
Connecting == 1
Connected == 2
TcpStates == {Disconnecting, Disconnected, Connecting, Connected}

Sockets == 1 .. MaxSockets
Phases == {"unused", "connecting", "open", "ending", "ended", "dead"}

(* The parts of Layer.close, here and in the layer above.  While one is due  *)
(* no callback of the event loop runs, but the program may go on from        *)
(* promises that were settled before, and call.                              *)
CloseSteps == {"nothing", "upper disconnect", "upper destroy", "disconnect", "destroy"}

TcpInit ==
  /\ tcpState = Disconnected
  /\ opened = 0
  /\ phase = [s \in Sockets |-> "unused"]
  /\ listening = {}
  /\ tcpQueue = EmptyQueue
  /\ ticks = 0
  /\ wire = [s \in Sockets |-> <<>>]
  /\ closing = FALSE
  /\ due = "nothing"

-----------------------------------------------------------------------------
(* sendNextMessage in connection state "state", with q in the queue and t    *)
(* ticks to come: a connected layer writes one message and has the next one  *)
(* sent from the write callback; a disconnected one opens a socket, even if  *)
(* q is empty; otherwise the message waits.                                  *)
SendNext(state, q, t) ==
  \/ /\ state = Connected /\ HasRequest(q)
     /\ wire' = [wire EXCEPT ![opened] = Append(@, Peek(q))]
     /\ tcpQueue' = Dequeue(q)
     /\ ticks' = t + 1
     /\ tcpState' = state
     /\ UNCHANGED <<opened, listening>>
  \/ /\ state = Disconnected
     /\ opened < MaxSockets
     /\ opened' = opened + 1
     /\ listening' = listening \cup {opened + 1}
     /\ tcpState' = Connecting
     /\ tcpQueue' = q
     /\ ticks' = t
     /\ UNCHANGED wire
  \/ /\ state \in {Disconnecting, Connecting} \/ (state = Connected /\ ~HasRequest(q))
     /\ tcpState' = state
     /\ tcpQueue' = q
     /\ ticks' = t
     /\ UNCHANGED <<opened, listening, wire>>

(* The phase of a socket that SendNext opens.                                *)
OpenedPhase(p) ==
  IF opened' = opened THEN p ELSE [p EXCEPT ![opened'] = "connecting"]

(* Layer.send of the layer above: enqueue here, then sendNextMessage.        *)
TcpSend(m, priority) ==
  /\ SendNext(tcpState, Enqueue(tcpQueue, m, priority), ticks)
  /\ phase' = OpenedPhase(phase)
  /\ UNCHANGED <<closing, due>>

(* The setImmediate that follows a write: sendNextMessage again.             *)
SendTick ==
  /\ ticks > 0 /\ due = "nothing"
  /\ SendNext(tcpState, tcpQueue, ticks - 1)
  /\ phase' = OpenedPhase(phase)
  /\ UNCHANGED <<closing, due>>

(* Faulty forms of ConnectEvent: without the check of the state, and without *)
(* the message that waits.                                                   *)
ConnectUnchecked(s) ==
  /\ phase[s] = "connecting" /\ due = "nothing"
  /\ phase' = [phase EXCEPT ![s] = "open"]
  /\ SendNext(Connected, tcpQueue, ticks)
  /\ UNCHANGED <<closing, due>>

ConnectInSilence(s) ==
  /\ phase[s] = "connecting" /\ due = "nothing"
  /\ phase' = [phase EXCEPT ![s] = "open"]
  /\ tcpState' = IF tcpState = Connecting THEN Connected ELSE tcpState
  /\ UNCHANGED <<opened, listening, tcpQueue, ticks, wire, closing, due>>

(* The connect callback, which no removeSocketListeners takes off a socket.  *)
ConnectEvent(s) ==
  /\ phase[s] = "connecting" /\ due = "nothing"
  /\ phase' = [phase EXCEPT ![s] = "open"]
  /\ \/ tcpState = Connecting /\ SendNext(Connected, tcpQueue, ticks)
     \/ /\ tcpState # Connecting
        /\ UNCHANGED <<tcpState, opened, listening, tcpQueue, ticks, wire>>
  /\ UNCHANGED <<closing, due>>

(* The 'data' event: k of the replies under way arrive in one chunk.         *)
DataEvent(s, k) ==
  /\ s \in listening /\ phase[s] \in {"open", "ending", "ended"} /\ due = "nothing"
  /\ k \in 1 .. Len(wire[s])
  /\ wire' = [wire EXCEPT ![s] = SubSeq(@, k + 1, Len(@))]
  /\ UNCHANGED <<tcpState, opened, phase, listening, tcpQueue, ticks, closing, due>>

(* Layer.send of each of ms in turn, over sockets that have w on them: every  *)
(* call enqueues one message and, connected, writes one.                     *)
SendEach(ms, priority, w) ==
  LET q == EnqueueAll(tcpQueue, ms, priority)
      n == IF tcpState = Connected THEN Len(ms) ELSE 0
  IN  /\ \/ /\ ms = <<>> \/ tcpState # Disconnected
            /\ wire' = IF n = 0 THEN w ELSE [w EXCEPT ![opened] = @ \o Foremost(q, n)]
            /\ tcpQueue' = WithoutForemost(q, n)
            /\ ticks' = ticks + n
            /\ UNCHANGED <<tcpState, opened, listening>>
         \/ /\ ms # <<>> /\ tcpState = Disconnected
            /\ opened < MaxSockets
            /\ opened' = opened + 1
            /\ listening' = listening \cup {opened + 1}
            /\ tcpState' = Connecting
            /\ tcpQueue' = q
            /\ wire' = w
            /\ UNCHANGED ticks
      /\ phase' = OpenedPhase(phase)
      /\ UNCHANGED closing

(* The same from the 'data' event of a chunk that holds one reply.           *)
DataEventAndSend(s, ms) ==
  /\ s \in listening /\ phase[s] \in {"open", "ending", "ended"} /\ due = "nothing"
  /\ wire[s] # <<>>
  /\ SendEach(ms, FALSE, [wire EXCEPT ![s] = Tail(@)])
  /\ UNCHANGED due

-----------------------------------------------------------------------------
(* What a dead socket had on it is never answered.                           *)
OfLive(p) == [s \in Sockets |-> IF p[s] = "dead" THEN <<>> ELSE wire[s]]

(* Faulty forms of InternalDestroy: the socket is not destroyed, or the      *)
(* queue is not emptied.                                                     *)
DestroyWithoutSocket(p) ==
  /\ tcpQueue' = EmptyQueue
  /\ phase' = p
  /\ wire' = OfLive(phase')
  /\ UNCHANGED <<opened, listening, ticks>>

DestroyWithoutQueue(p) ==
  /\ phase' = [s \in Sockets |-> IF s = opened THEN "dead" ELSE p[s]]
  /\ listening' = listening \ {opened}
  /\ wire' = OfLive(phase')
  /\ UNCHANGED <<opened, tcpQueue, ticks>>

(* What internalDestroy does to this layer when the phases have become p:    *)
(* the queue is emptied, and handleDestroy destroys this.socket and takes    *)
(* its listeners off.  The state stays what it is.                           *)
InternalDestroy(p) ==
  /\ tcpQueue' = EmptyQueue
  /\ phase' = [s \in Sockets |-> IF s = opened THEN "dead" ELSE p[s]]
  /\ listening' = listening \ {opened}
  /\ wire' = OfLive(phase')
  /\ UNCHANGED <<opened, ticks>>

(* An 'error', 'timeout' or 'end' event of socket s, which leaves s in phase *)
(* "after": the layer and the layers above it are destroyed.                 *)
Failure(s, after) ==
  /\ s \in listening /\ due = "nothing"
  /\ \/ /\ phase[s] \in {"connecting", "open", "ending", "ended"} /\ after = "dead"
     \/ /\ phase[s] = "connecting" \/ (IdleTimeout /\ phase[s] \in {"open", "ending", "ended"})
        /\ after = phase[s]

(* Node calls a pending end() callback of a socket that is destroyed back    *)
(* with an error, so a close that awaited it goes on: with nothing left to   *)
(* destroy, unless continuations of what the layer above rejected come first. *)
SocketFailure(s, after) ==
  /\ Failure(s, after)
  /\ tcpState' = Disconnected
  /\ InternalDestroy([phase EXCEPT ![s] = after])
  /\ closing' = (closing /\ (phase[s] = "ending" => after = "ending") /\ phase[opened] # "ending")
  /\ due' = "nothing" \/ (due' = "destroy" /\ closing /\ ~closing')

(* The same when a callback rejected by the layer above sends m again before *)
(* it returns: the state is Disconnected by then, so sendNextMessage opens a *)
(* socket; that socket, not the failed one, is what handleDestroy finds in   *)
(* this.socket, and m is in the queue it empties.                            *)
SocketFailureAndResend(s, after) ==
  /\ Failure(s, after)
  /\ opened < MaxSockets
  /\ opened' = opened + 1
  /\ tcpState' = Connecting
  /\ tcpQueue' = EmptyQueue
  /\ phase' = [phase EXCEPT ![s] = after, ![opened + 1] = "dead"]
  /\ closing' = (closing /\ (phase[s] = "ending" => after = "ending"))
  /\ wire' = OfLive(phase')
  /\ UNCHANGED <<listening, ticks, due>>

(* The 'close' event of a socket that still has listeners.                   *)
CloseEvent(s) ==
  /\ s \in listening /\ phase[s] = "dead" /\ due = "nothing"
  /\ tcpState' = Disconnected
  /\ listening' = listening \ {s}
  /\ UNCHANGED <<opened, phase, tcpQueue, ticks, wire, closing, due>>

-----------------------------------------------------------------------------
(* The body of disconnect, for a layer that is connecting or connected.      *)
StartDisconnect ==
  \/ /\ tcpState = Connecting
     /\ tcpState' = Disconnected
     /\ UNCHANGED phase
  \/ /\ tcpState = Connected
     /\ tcpState' = Disconnecting
     /\ phase' = [phase EXCEPT ![opened] = "ending"]

(* disconnect called on its own; while disconnecting it returns the promise  *)
(* of the call before, and disconnected it returns nothing.                  *)
Disconnect ==
  /\ StartDisconnect
  /\ UNCHANGED <<opened, listening, tcpQueue, ticks, wire, closing, due>>

(* Layer.close is called.  It awaits the close of the layer above, in which   *)
(* "step" is due first; the continuations of the promises that one rejects   *)
(* run before this layer goes on.                                            *)
CloseCalled(step) ==
  /\ ~closing /\ due = "nothing"
  /\ due' = step
  /\ UNCHANGED <<tcpState, opened, phase, listening, tcpQueue, ticks, wire, closing>>

(* The layer above has closed: disconnect.  A connected layer then awaits    *)
(* the end() callback; any other is through with it one microtask later.     *)
CloseDisconnects ==
  /\ due = "disconnect"
  /\ \/ /\ tcpState \in {Disconnected, Connecting}
        /\ tcpState' = Disconnected
        /\ due' = "destroy"
        /\ UNCHANGED <<phase, closing>>
     \/ /\ tcpState = Connected
        /\ StartDisconnect
        /\ closing' = TRUE
        /\ due' = "nothing"
     \/ /\ tcpState = Disconnecting
        /\ closing' = TRUE
        /\ due' = "nothing"
        /\ UNCHANGED <<tcpState, phase>>
  /\ UNCHANGED <<opened, listening, tcpQueue, ticks, wire>>

(* The rest of Layer.close, with whatever socket is this.socket by then.     *)
CloseDestroys ==
  /\ due = "destroy"
  /\ due' = "nothing"
  /\ InternalDestroy(phase)
  /\ UNCHANGED <<tcpState, closing>>

(* The callback of socket.end, once all is flushed; the setImmediate of the  *)
(* last write has run by then.  A close that awaited it goes on, at once or  *)
(* after a continuation of the program that awaited the same disconnect.     *)
EndCallback(s) ==
  /\ phase[s] = "ending" /\ due = "nothing"
  /\ ticks = 0
  /\ tcpState' = Disconnected
  /\ closing' = FALSE
  /\ \/ /\ closing
        /\ InternalDestroy([phase EXCEPT ![s] = "ended"])
        /\ UNCHANGED due
     \/ /\ due' = IF closing THEN "destroy" ELSE due
        /\ phase' = [phase EXCEPT ![s] = "ended"]
        /\ UNCHANGED <<opened, listening, tcpQueue, ticks, wire>>

-----------------------------------------------------------------------------
(* The assertions of setConnectionState.                                     *)
IllegalTransitions ==
  {<<Connecting, Disconnecting>>, <<Connected, Connecting>>,
   <<Disconnected, Connected>>, <<Disconnected, Disconnecting>>,
   <<Disconnecting, Connected>>}

TcpTypeOK ==
  /\ tcpState \in TcpStates
  /\ opened \in 0 .. MaxSockets
  /\ phase \in [Sockets -> Phases]
  /\ listening \subseteq Sockets
  /\ tcpQueue \in Queue(TcpMessages)
  /\ ticks \in Nat
  /\ wire \in [Sockets -> Seq(TcpMessages)]
  /\ closing \in BOOLEAN
  /\ due \in CloseSteps
=============================================================================
