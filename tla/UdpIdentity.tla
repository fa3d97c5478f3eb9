----------------------------- MODULE UdpIdentity -----------------------------
(***************************************************************************)
(* listIdentity of the EtherNet/IP layer (layers/cip/layers/EIP/index.js)   *)
(* on a UDPLayer (layers/udp/index.js).                                     *)
(*                                                                          *)
(* The UDP layer's fields and sockets are one record, udp.  Its setup is an *)
(* async function: a call that finds a socket on its way awaits its         *)
(* promise, "waiters" counts these calls, and each goes on by itself when   *)
(* the promise is resolved.  Sockets are numbered in the order they are     *)
(* created; the promise is always that of the last of them.                 *)
(*                                                                          *)
(* The network is external: a device that was asked may answer never, late, *)
(* or more than once, and answers come in any order.                        *)
(***************************************************************************)
EXTENDS Integers, Sequences, FiniteSets

CONSTANTS
  Devices,        \* devices on the network
  Calls,          \* bound: calls of listIdentity
  Hosts,          \* the hosts each names; none is a broadcast
  MaxSockets,     \* bound: sockets created
  MaxDisconnects  \* bound: calls of udpLayer.close() and disconnect()

ASSUME IdentityAssumption ==
  /\ Hosts \in [Calls -> Seq(Devices)]
  /\ MaxSockets \in Nat \ {0} /\ MaxDisconnects \in Nat

VARIABLES
  udp,        \* fields and sockets of the UDP layer
  waiting,    \* calls with a callback on file for ListIdentity
  timer,      \* calls whose timer runs
  found,      \* the identities each call collects
  outcome,    \* how the promise of each call stands
  asked,      \* devices that were sent a request
  closes,     \* calls of close and disconnect
  mislaid     \* history: two sockets were created at once, or the last was
              \* given up on its way and its promise is never resolved

vars == <<udp, waiting, timer, found, outcome, asked, closes, mislaid>>

None == 0
Sockets == 1 .. MaxSockets
Everyone == "everyone"
Targets(c) == IF Hosts[c] = <<>> THEN <<Everyone>> ELSE Hosts[c]

(* Several setup calls go on at once: each creates a socket and binds it.    *)
Create(u, n) ==
  IF n = 0 THEN u
  ELSE LET new == u.opened + 1 .. u.opened + n
       IN  [u EXCEPT !.opened = @ + n, !.current = u.opened + n,
                     !.phase = [s \in DOMAIN u.phase \cup new |->
                                  IF s \in new THEN "binding" ELSE u.phase[s]],
                     !.heard = @ \cup new, !.settled = FALSE, !.waiters = 0]

Constructed ==
  Create([listening |-> FALSE, opened |-> 0, current |-> None, phase |-> <<>>, heard |-> {},
          settled |-> TRUE, waiters |-> 0, queue |-> <<>>, ticks |-> 0, sent |-> {}], 1)

Init ==
  /\ udp = Constructed
  /\ waiting = {} /\ timer = {}
  /\ found = [c \in Calls |-> {}]
  /\ outcome = [c \in Calls |-> "idle"]
  /\ asked = {} /\ closes = 0 /\ mislaid = FALSE

-----------------------------------------------------------------------------
(* setup, called n times: each awaits the promise there is.                  *)
SetUp(u, n) ==
  IF u.settled THEN Create(u, n) ELSE [u EXCEPT !.waiters = @ + n]

(* The promise of socket s is resolved: what waited for it finds the layer   *)
(* listening, or creates a socket.                                           *)
Resolve(u, s, ok) ==
  CASE s # u.opened \/ u.settled -> u
    [] s = u.opened /\ ~u.settled /\ ok -> [u EXCEPT !.settled = TRUE, !.waiters = 0]
    [] s = u.opened /\ ~u.settled /\ ~ok -> Create([u EXCEPT !.settled = TRUE], u.waiters)

(* sendNextMessage of a layer with a socket: one datagram, and another call  *)
(* to follow; without one, setup.                                            *)
SendNext(u) ==
  CASE u.listening /\ u.queue # <<>> ->
         [u EXCEPT !.queue = Tail(@), !.ticks = @ + 1, !.sent = @ \cup {Head(u.queue)}]
    [] u.listening /\ u.queue = <<>> -> u
    [] ~u.listening -> SetUp(u, 1)

(* sendNextMessage of a layer that listens without a socket throws, out of   *)
(* the event loop: such a callback is not taken here.                        *)
Throws(u) == u.listening /\ u.queue # <<>> /\ u.current = None

(* Layer.send of each of ms: a listening layer sends one message for each,   *)
(* another queues them all and calls setup for each.                         *)
SendEach(u, ms) ==
  LET q == u.queue \o ms
      n == Len(ms)
  IN  IF u.listening
        THEN [u EXCEPT !.queue = SubSeq(q, n + 1, Len(q)), !.ticks = @ + n,
                       !.sent = @ \cup {q[i] : i \in 1 .. n}]
        ELSE SetUp([u EXCEPT !.queue = q], n)

(* Faulty form of HandleDestroy: the layer goes on listening.                *)
DestroyListening(u) ==
  [u EXCEPT !.queue = <<>>, !.heard = @ \ {u.current}, !.current = None]

(* internalDestroy and handleDestroy: the socket is given up, not closed.    *)
HandleDestroy(u) ==
  [u EXCEPT !.queue = <<>>, !.listening = FALSE,
            !.heard = @ \ {u.current}, !.current = None]

(* What a handler leaves, and the datagrams it hands to the network.         *)
Reached(targets) == IF Everyone \in targets THEN Devices ELSE targets

Leave(u) ==
  /\ u.opened <= MaxSockets
  /\ udp' = [u EXCEPT !.sent = {}]
  /\ asked' = asked \cup Reached(u.sent)
  /\ mislaid' = \/ mislaid \/ u.opened > udp.opened + 1
                \/ ~u.settled /\ u.opened \notin u.heard

-----------------------------------------------------------------------------
(* listIdentity: a request to each host, one callback on file for all, and   *)
(* the starting timer.  A layer that listens without a socket throws, which  *)
(* rejects; the callback and the timer stay.                                 *)
ListIdentity(c) ==
  /\ outcome[c] = "idle"
  /\ waiting' = waiting \cup {c}
  /\ timer' = timer \cup {c}
  /\ \/ /\ ~udp.listening \/ udp.current # None
        /\ outcome' = [outcome EXCEPT ![c] = "pending"]
        /\ Leave(SendEach(udp, Targets(c)))
     \/ /\ udp.listening /\ udp.current = None
        /\ outcome' = [outcome EXCEPT ![c] = "rejected"]
        /\ UNCHANGED <<udp, asked, mislaid>>
  /\ UNCHANGED <<found, closes>>

Settle(C, how) ==
  outcome' = [c \in Calls |-> IF c \in C /\ outcome[c] = "pending" THEN how ELSE outcome[c]]

Listed == {c \in Calls : Hosts[c] # <<>>}

(* Faulty form of IdentityReply: the timer is cleared and not set again.     *)
IdentityReplyUntimed(d) ==
  /\ d \in asked /\ \E s \in DOMAIN udp.phase : udp.phase[s] = "bound"
  /\ waiting # {}
  /\ waiting' = {}
  /\ found' = [c \in Calls |-> IF c \in waiting THEN found[c] \cup {d} ELSE found[c]]
  /\ timer' = timer \ waiting
  /\ Settle(waiting \ Listed, "resolved")
  /\ UNCHANGED <<udp, asked, closes, mislaid>>

(* A reply of device d calls every callback on file, and all are gone after  *)
(* it: a call that named hosts sets its timer again and waits for nothing    *)
(* more, any other is resolved.  A reply with an error rejects them all.     *)
IdentityReply(d) ==
  /\ d \in asked /\ \E s \in DOMAIN udp.phase : udp.phase[s] = "bound"
  /\ waiting # {}
  /\ waiting' = {}
  /\ \/ /\ found' = [c \in Calls |-> IF c \in waiting THEN found[c] \cup {d} ELSE found[c]]
        /\ timer' = (timer \ waiting) \cup (waiting \cap Listed)
        /\ Settle(waiting \ Listed, "resolved")
     \/ /\ timer' = timer \ waiting
        /\ Settle(waiting, "rejected")
        /\ UNCHANGED found
  /\ UNCHANGED <<udp, asked, closes, mislaid>>

(* The timer of a call: its promise is resolved with what was found, and its *)
(* callback stays on file.                                                   *)
TimerFires(c) ==
  /\ c \in timer
  /\ timer' = timer \ {c}
  /\ Settle({c}, "resolved")
  /\ UNCHANGED <<udp, waiting, found, asked, closes, mislaid>>

-----------------------------------------------------------------------------
Live(s) == s \in DOMAIN udp.phase /\ udp.phase[s] \in {"binding", "bound"}

(* Faulty form of Listening: nothing that waits is sent.                     *)
ListeningInSilence(s) ==
  /\ Live(s) /\ udp.phase[s] = "binding"
  /\ LET u == [udp EXCEPT !.phase[s] = "bound"]
     IN  Leave(IF s \in udp.heard THEN Resolve([u EXCEPT !.listening = TRUE], s, TRUE) ELSE u)
  /\ UNCHANGED <<waiting, timer, found, outcome, closes>>

(* The 'listening' event of a socket, if the layer's listener is still on it. *)
Listening(s) ==
  /\ Live(s) /\ udp.phase[s] = "binding"
  /\ s \in udp.heard => ~Throws([udp EXCEPT !.listening = TRUE])
  /\ LET u == [udp EXCEPT !.phase[s] = "bound"]
     IN  Leave(IF s \in udp.heard
                 THEN Resolve(SendNext([u EXCEPT !.listening = TRUE]), s, TRUE) ELSE u)
  /\ UNCHANGED <<waiting, timer, found, outcome, closes>>

(* The 'error' event, at most once for a socket: the layers are destroyed,   *)
(* and the setup calls that waited go on.                                    *)
SocketError(s) ==
  /\ Live(s) /\ s \in udp.heard
  /\ Leave(Resolve(HandleDestroy([udp EXCEPT !.heard = @ \ {s}]), s, FALSE))
  /\ Settle(waiting, "rejected")
  /\ timer' = timer \ waiting
  /\ waiting' = {}
  /\ UNCHANGED <<found, closes>>

(* Faulty form of Tick: it fires without having been set.                    *)
TickAnytime ==
  /\ Leave(SendNext([udp EXCEPT !.ticks = @ - 1]))
  /\ UNCHANGED <<waiting, timer, found, outcome, closes>>

(* The setImmediate that follows a datagram.                                 *)
Tick ==
  /\ udp.ticks > 0 /\ ~Throws(udp)
  /\ Leave(SendNext([udp EXCEPT !.ticks = @ - 1]))
  /\ UNCHANGED <<waiting, timer, found, outcome, closes>>

(* disconnect closes the socket, if it can be, and Node emits 'close' before *)
(* anything else happens.                                                    *)
Closed(u) ==
  LET s == u.current
  IN  Resolve([u EXCEPT !.listening = FALSE, !.phase[s] = "closed", !.heard = @ \ {s}], s, FALSE)

Disconnect ==
  /\ closes < MaxDisconnects /\ closes' = closes + 1
  /\ Live(udp.current)
  /\ Leave(Closed(udp))
  /\ UNCHANGED <<waiting, timer, found, outcome>>

(* close: the EtherNet/IP layer is destroyed with 'Close' first.  Without a  *)
(* socket disconnect throws, and close goes no further.                      *)
CloseLayers ==
  /\ closes < MaxDisconnects /\ closes' = closes + 1
  /\ Settle(waiting, "rejected")
  /\ timer' = timer \ waiting
  /\ waiting' = {}
  /\ Leave(IF Live(udp.current) THEN HandleDestroy(Closed(udp))
                                ELSE [udp EXCEPT !.listening = FALSE])
  /\ UNCHANGED found

Next ==
  \/ \E c \in Calls : ListIdentity(c) \/ TimerFires(c)
  \/ \E d \in Devices : IdentityReply(d)
  \/ \E s \in Sockets : Listening(s) \/ SocketError(s)
  \/ Tick
  \/ Disconnect
  \/ CloseLayers

Spec == Init /\ [][Next]_vars

(* Timers fire, and a bind ends one way or the other.                        *)
FairSpec ==
  /\ Spec
  /\ \A c \in Calls : WF_vars(TimerFires(c))
  /\ \A s \in Sockets : WF_vars(Listening(s) \/ SocketError(s))
  /\ WF_vars(Tick)
-----------------------------------------------------------------------------
Fields ==
  [listening : BOOLEAN, opened : 0 .. MaxSockets, current : Nat,
   phase : Seq({"binding", "bound", "closed"}), heard : SUBSET Nat, settled : BOOLEAN,
   waiters : Nat, queue : Seq(Devices \cup {Everyone}), ticks : Nat, sent : {{}}]

(* Every field and variable keeps its type, and a socket spoken of exists.   *)
TypeOK ==
  /\ udp \in Fields /\ Len(udp.phase) = udp.opened
  /\ udp.current <= udp.opened /\ udp.heard \subseteq 1 .. udp.opened
  /\ waiting \subseteq Calls /\ timer \subseteq Calls
  /\ found \in [Calls -> SUBSET Devices]
  /\ outcome \in [Calls -> {"idle", "pending", "resolved", "rejected"}]
  /\ asked \subseteq Devices /\ closes \in 0 .. MaxDisconnects /\ mislaid \in BOOLEAN

(* A layer that believes it listens has a bound socket to send on, whatever  *)
(* order binds, errors, closes and late setImmediates come in.  The          *)
(* exceptions: setup calls that waited together create a socket each, and    *)
(* one that waited while the layer was closed creates a socket that close    *)
(* gives up, whose promise is never resolved.                                *)
ListeningHasSocket ==
  ~mislaid /\ udp.listening =>
    udp.current # None /\ udp.phase[udp.current] = "bound" /\ udp.current \in udp.heard

(* A request in the queue has something coming that will send it, unless     *)
(* the program closed the socket meanwhile and no setup call was waiting.    *)
QueueIsDriven ==
  ~mislaid /\ udp.queue # <<>> =>
    \/ udp.ticks > 0
    \/ /\ udp.current # None
       /\ \/ udp.phase[udp.current] = "binding" /\ udp.current \in udp.heard
          \/ udp.phase[udp.current] = "closed"

(* Every listIdentity ends, whatever the network loses and the sockets do:   *)
(* with an identity, with none, or with an error.                            *)
IdentityCallsEnd ==
  \A c \in Calls : outcome[c] = "pending" ~> outcome[c] # "pending"
=============================================================================
