------------------------------ MODULE EipSession ------------------------------
(***************************************************************************)
(* The EtherNet/IP layer (layers/cip/layers/EIP/index.js) on a TCPLayer: it *)
(* registers a session on the TCP connection, sends the messages of the     *)
(* layer above in it, connected or under a sender context, and carries the  *)
(* list requests and NOPs of the program beside them.                       *)
(*                                                                          *)
(* The layer's fields are one record, eip; a handler maps it to the record  *)
(* it leaves, whose field "hand" collects what it hands to Layer.send.  The *)
(* layer above is its requests: one is settled by the reply forwarded for   *)
(* it, or by a destroy.  The device is external: it keeps one session on a  *)
(* connection, named by the socket it came on, answers the messages of a    *)
(* connection in order, and processes a message when its reply arrives.     *)
(***************************************************************************)
EXTENDS TcpLayer, FiniteSets

CONSTANTS
  Requests,      \* bound: requests of the layer above, each once
  Unconnected,   \* those it may send with a context, the others on a connection
  Users,         \* bound: list requests and NOPs of the program, each once
  Command,       \* the command of each of them
  Octets,        \* values of a byte of the sender context; 0x100 in the code
  ContextBytes,  \* its bytes; 8 in the code
  FirstContext,  \* sender contexts used before the behaviour begins
  MayRefuse,     \* TRUE: the device may refuse to register a session
  MayFail,       \* TRUE: it may answer with an error status
  MayClose,      \* TRUE: the program may close the layers
  MaxTicks       \* bound: write callbacks to come when it calls connect

ASSUME EipAssumption ==
  /\ Requests \subseteq Nat \ {0} /\ Unconnected \subseteq SUBSET Requests
  /\ Users \subseteq Nat \ {0} /\ Users \cap Requests = {}
  /\ Command \in [Users -> {"NOP", "ListServices", "ListInterfaces"}]
  /\ Octets \in Nat \ {0, 1} /\ ContextBytes \in Nat \ {0}
  /\ FirstContext \subseteq [1 .. ContextBytes -> 0 .. Octets - 1]
  /\ MayRefuse \in BOOLEAN /\ MayFail \in BOOLEAN /\ MayClose \in BOOLEAN
  /\ MaxTicks \in Nat

VARIABLES
  eip,         \* the fields of the layer
  registered,  \* sockets on which the device keeps a session
  outcome,     \* how the promise of each call stands
  answer,      \* the request whose reply settled a request
  dropped,     \* history: requests whose error reply was only logged
  incidents    \* history: what the layer does not recover from by itself

eipVars == <<eip, registered, outcome, answer, dropped, incidents>>
vars == <<tcpVars, eipVars>>

None == 0
Calls == Requests \cup Users
Listing == {u \in Users : Command[u] # "NOP"}
Commands == {Command[u] : u \in Listing}
Contexts == [1 .. ContextBytes -> 0 .. Octets - 1]
Pending == {r \in Calls : outcome[r] = "pending"}

Register == [kind |-> "register"]
Unregister(c) == [kind |-> "unregister", session |-> c.session]
SendRRData(c, r) ==
  [kind |-> "rr", session |-> c.session, context |-> c.context, request |-> r]
SendUnitData(c, r) == [kind |-> "unit", session |-> c.session, request |-> r]
List(c, u) == [kind |-> "list", session |-> c.session, user |-> u]

Handles == Sockets \cup {None}
Messages ==
  [kind : {"register"}] \cup [kind : {"unregister"}, session : Handles]
  \cup [kind : {"rr"}, session : Handles, context : Contexts, request : Requests]
  \cup [kind : {"unit"}, session : Handles, request : Requests]
  \cup [kind : {"list"}, session : Handles, user : Users]

ASSUME MessagesAssumption == TcpMessages = Messages

Init ==
  /\ TcpInit
  /\ \E context \in FirstContext, unconnected \in Unconnected :
       eip = [unconnected |-> unconnected, state |-> 0, session |-> None,
              queue |-> <<>>, ticks |-> 0,
              context |-> context, routes |-> [x \in Contexts |-> None],
              users |-> <<>>, waiting |-> {}, hand |-> <<>>]
  /\ registered = {}
  /\ outcome = [r \in Calls |-> "idle"]
  /\ answer = [r \in Requests |-> None]
  /\ dropped = {} /\ incidents = {}

-----------------------------------------------------------------------------
(* Faulty forms of IncrementContext: a byte does not wrap, or nothing moves. *)
IncrementUnwrapped(context) ==
  [i \in 1 .. ContextBytes |->
     IF \A j \in 1 .. i - 1 : context[j] = Octets - 1 THEN context[i] + 1 ELSE context[i]]
IncrementNothing(context) == context

(* incrementContext: a counter whose first byte is the lowest.               *)
IncrementContext(context) ==
  [i \in 1 .. ContextBytes |->
     IF \A j \in 1 .. i - 1 : context[j] = Octets - 1
       THEN (context[i] + 1) % Octets ELSE context[i]]

(* connect: a RegisterSession, unless there is a session or one under way.   *)
Connect(c) ==
  IF c.state = 0 THEN [c EXCEPT !.state = 1, !.hand = Append(@, Register)] ELSE c

(* A message of the layer above, on its connection or under a new context.   *)
SendMessage(c, r) ==
  IF r \notin c.unconnected THEN [c EXCEPT !.hand = Append(@, SendUnitData(c, r))]
  ELSE LET d == [c EXCEPT !.context = IncrementContext(@)]
       IN  [d EXCEPT !.hand = Append(@, SendRRData(d, r)), !.routes[d.context] = r]

(* Faulty forms of SendNextMessage: a message is sent before the session is  *)
(* registered, or none follows a message sent.                               *)
SendUnregistered(c) ==
  CASE c.queue = <<>> -> c
    [] c.queue # <<>> /\ c.state = 0 -> Connect(c)
    [] c.queue # <<>> /\ c.state # 0 ->
         SendMessage([c EXCEPT !.queue = Tail(@), !.ticks = @ + 1], Head(c.queue))
SendOneOnly(c) ==
  CASE c.queue # <<>> /\ c.state = 0 -> Connect(c)
    [] c.queue # <<>> /\ c.state = 2 -> SendMessage([c EXCEPT !.queue = Tail(@)], Head(c.queue))
    [] OTHER -> c

(* sendNextMessage: without a session it registers one, with one it sends a  *)
(* message and has another call follow.                                      *)
SendNextMessage(c) ==
  CASE c.queue # <<>> /\ c.state = 0 -> Connect(c)
    [] c.queue # <<>> /\ c.state = 2 ->
         SendMessage([c EXCEPT !.queue = Tail(@), !.ticks = @ + 1], Head(c.queue))
    [] OTHER -> c

(* sendUserRequests: all of them, with the session handle there is, unless   *)
(* a registration is under way.                                              *)
SendUsers(c) ==
  IF c.state = 1 THEN c
  ELSE [c EXCEPT !.users = <<>>,
                 !.hand = @ \o [i \in DOMAIN c.users |-> List(c, c.users[i])]]

(* Faulty form of Cleanup: the state is kept.                                *)
CleanupInSession(c) ==
  [c EXCEPT !.queue = <<>>, !.session = None, !.waiting = {},
            !.routes = [x \in Contexts |-> None]]

(* internalDestroy and cleanup: requests of the program not yet sent stay.   *)
Cleanup(c) ==
  [c EXCEPT !.queue = <<>>, !.session = None, !.waiting = {}, !.state = 0,
            !.routes = [x \in Contexts |-> None]]

Reject(calls) ==
  outcome' = [r \in Calls |-> IF r \in Pending /\ r \in calls THEN "rejected" ELSE outcome[r]]

(* destroy rejects the calls of the layer above and the callbacks on file.   *)
RejectAll == Reject(Requests \cup eip.waiting)

(* What a handler leaves, and what it hands to Layer.send.                   *)
Leave(c) == eip' = [c EXCEPT !.hand = <<>>]

(* The program calls while TCP is ending, or between two steps of a close:   *)
(* what it sends will be cleared.  When TCP is about to destroy its socket,  *)
(* that is the one opened for the call, and another may be left alive.       *)
Incidents(steps) ==
  incidents
    \cup (IF tcpState = Disconnecting \/ due \in steps THEN {"called while closing"} ELSE {})
    \cup (IF due = "destroy" THEN {"strayed"} ELSE {})

AnyStep == CloseSteps \ {"nothing"}
StepsAfterDisconnect == AnyStep \ {"upper disconnect"}

-----------------------------------------------------------------------------
(* Layer.send of the layer above.                                            *)
Issue(r) ==
  LET c == SendNextMessage([eip EXCEPT !.queue = Append(@, r)])
  IN  /\ outcome[r] = "idle"
      /\ outcome' = [outcome EXCEPT ![r] = "pending"]
      /\ Leave(c)
      /\ SendEach(c.hand, c.hand = <<Register>>, wire)
      /\ incidents' = Incidents(AnyStep)
      /\ UNCHANGED <<due, registered, answer, dropped>>

(* nop, listServices and listInterfaces: nop has no callback and is settled  *)
(* at once, the callback of another is filed under its command.              *)
UserRequest(u) ==
  LET c == SendUsers([eip EXCEPT !.users = Append(@, u), !.waiting = @ \cup ({u} \cap Listing)])
  IN  /\ outcome[u] = "idle"
      /\ outcome' = [outcome EXCEPT ![u] = IF u \in Listing THEN "pending" ELSE "answered"]
      /\ Leave(c)
      /\ SendEach(c.hand, FALSE, wire)
      /\ incidents' = Incidents(StepsAfterDisconnect)
      /\ UNCHANGED <<due, registered, answer, dropped>>

(* connect, called by the program.                                           *)
ConnectCalled ==
  /\ eip.state = 0
  /\ ticks < MaxTicks
  /\ Leave(Connect(eip))
  /\ SendEach(<<Register>>, TRUE, wire)
  /\ incidents' = Incidents(StepsAfterDisconnect)
  /\ UNCHANGED <<due, registered, outcome, answer, dropped>>

(* The setImmediate that follows a message.                                  *)
NextTick ==
  LET c == SendNextMessage([eip EXCEPT !.ticks = @ - 1])
  IN  /\ eip.ticks > 0 /\ due = "nothing"
      /\ Leave(c)
      /\ SendEach(c.hand, c.hand = <<Register>>, wire)
      /\ UNCHANGED <<due, registered, outcome, answer, dropped, incidents>>

-----------------------------------------------------------------------------
Reply(s, kind) == wire[s] # <<>> /\ wire[s][1].kind = kind

(* The device takes a message as one of the session of its connection.       *)
InSession(s) == s \in registered /\ wire[s][1].session = s

(* Faulty form of RegisterReply: what waits is not sent.                     *)
RegisterInSilence(s) ==
  /\ Reply(s, "register")
  /\ s \notin registered
  /\ registered' = registered \cup {s}
  /\ Leave([eip EXCEPT !.state = 2, !.session = s])
  /\ DataEventAndSend(s, <<>>)
  /\ UNCHANGED <<outcome, answer, dropped, incidents>>

(* The reply to RegisterSession, in whatever state it finds the layer: a     *)
(* session, in which what waits is sent, or a refusal.                       *)
RegisterReply(s) ==
  /\ Reply(s, "register")
  /\ \/ LET c == SendUsers(SendNextMessage([eip EXCEPT !.state = 2, !.session = s]))
        IN  /\ s \notin registered
            /\ registered' = registered \cup {s}
            /\ Leave(c)
            /\ DataEventAndSend(s, c.hand)
            /\ incidents' = incidents \cup 
                             (IF tcpState # Connected THEN {"registered late"} ELSE {})
     \/ /\ MayRefuse \/ s \in registered
        /\ Leave([eip EXCEPT !.state = 0])
        /\ DataEventAndSend(s, <<>>)
        /\ incidents' = incidents \cup {"refused"}
        /\ UNCHANGED registered
  /\ UNCHANGED <<outcome, answer, dropped>>

(* The reply to SendRRData takes its context out; it goes to the request     *)
(* filed there, and without items it destroys this layer and those above.    *)
RRDataReply(s) ==
  LET m == wire[s][1]
      r == eip.routes[m.context]
      c == [eip EXCEPT !.routes[m.context] = None]
  IN  /\ Reply(s, "rr")
      /\ DataEventAndSend(s, <<>>)
      /\ \/ /\ InSession(s)
            /\ Leave(c)
            /\ IF r \in Pending
                 THEN /\ outcome' = [outcome EXCEPT ![r] = "answered"]
                      /\ answer' = [answer EXCEPT ![r] = m.request]
                 ELSE UNCHANGED <<outcome, answer>>
         \/ /\ MayFail \/ ~InSession(s)
            /\ Leave(Cleanup(c))
            /\ RejectAll
            /\ UNCHANGED answer
      /\ UNCHANGED <<registered, dropped, incidents>>

(* The reply to SendUnitData goes to the layer above, which knows it by its  *)
(* sequence count; one with an error status is only logged.                  *)
UnitDataReply(s) ==
  LET r == wire[s][1].request
  IN  /\ Reply(s, "unit")
      /\ DataEventAndSend(s, <<>>)
      /\ \/ /\ InSession(s)
            /\ IF r \in Pending
                 THEN /\ outcome' = [outcome EXCEPT ![r] = "answered"]
                      /\ answer' = [answer EXCEPT ![r] = r]
                 ELSE UNCHANGED <<outcome, answer>>
            /\ UNCHANGED dropped
         \/ /\ MayFail \/ ~InSession(s)
            /\ dropped' = dropped \cup {r}
            /\ UNCHANGED <<outcome, answer>>
      /\ UNCHANGED <<eip, registered, incidents>>

(* A reply to a list request settles every callback that waits for its       *)
(* command, with its items or with its error.                                *)
ListReply(s) ==
  LET u == wire[s][1].user
      settled == {v \in eip.waiting : Command[v] = Command[u]}
  IN  /\ Reply(s, "list") /\ u \in Listing
      /\ DataEventAndSend(s, <<>>)
      /\ Leave([eip EXCEPT !.waiting = @ \ settled])
      /\ \E result \in {"answered"} \cup (IF MayFail THEN {"rejected"} ELSE {}) :
           outcome' = [r \in Calls |-> IF r \in settled THEN result ELSE outcome[r]]
      /\ UNCHANGED <<registered, answer, dropped, incidents>>

(* The device takes an UnregisterSession or a NOP, and answers neither.      *)
TakeSilently(s) ==
  /\ phase[s] \in {"open", "ending", "ended"}
  /\ Reply(s, "unregister") \/ (Reply(s, "list") /\ wire[s][1].user \notin Listing)
  /\ registered' = IF Reply(s, "unregister") /\ InSession(s) THEN registered \ {s} ELSE registered
  /\ wire' = [wire EXCEPT ![s] = Tail(@)]
  /\ UNCHANGED <<tcpState, opened, phase, listening, tcpQueue, ticks, closing, due>>
  /\ UNCHANGED <<eip, outcome, answer, dropped, incidents>>

-----------------------------------------------------------------------------
(* The device ends the session of a connection that is gone.                 *)
EndSessions == registered' = {s \in registered : phase'[s] # "dead"}

(* A failure of a socket destroys every layer.                               *)
Fail(s) ==
  /\ \E after \in Phases : SocketFailure(s, after)
  /\ RejectAll
  /\ due' = "destroy" => outcome' # outcome
  /\ Leave(Cleanup(eip))
  /\ EndSessions
  /\ incidents' = incidents \cap {"strayed"}
  /\ UNCHANGED <<answer, dropped>>

(* close of the TCP layer: the layers above this one close first, and reject *)
(* the requests they owe.                                                    *)
CloseLayers ==
  /\ MayClose
  /\ CloseCalled("upper disconnect")
  /\ Reject(Requests)
  /\ UNCHANGED <<eip, registered, answer, dropped, incidents>>

(* disconnect of this layer unregisters the session.                         *)
UpperDisconnects ==
  /\ due = "upper disconnect"
  /\ due' = "upper destroy"
  /\ SendEach(IF eip.state = 0 THEN <<>> ELSE <<Unregister(eip)>>, TRUE, wire)
  /\ Leave([eip EXCEPT !.state = 0])
  /\ UNCHANGED <<registered, outcome, answer, dropped, incidents>>

(* internalDestroy of this layer, the last step of its close.                *)
UpperDestroys ==
  /\ due = "upper destroy"
  /\ due' = "disconnect"
  /\ Reject(eip.waiting)
  /\ Leave(Cleanup(eip))
  /\ UNCHANGED <<tcpState, opened, phase, listening, tcpQueue, ticks, wire, closing>>
  /\ UNCHANGED <<registered, answer, dropped, incidents>>

(* What TCPLayer does without this layer.  Nothing in the program awaits the *)
(* disconnect of a close but the close.  A 'close' event finds listeners on  *)
(* a socket that a call made in the last step of a close has left behind.    *)
Tick == SendTick /\ UNCHANGED eipVars
Connects(s) == ConnectEvent(s) /\ UNCHANGED eipVars
SocketClosed(s) == CloseEvent(s) /\ UNCHANGED eipVars
Ended(s) ==
  /\ EndCallback(s) /\ due' = "nothing" /\ EndSessions
  /\ UNCHANGED <<eip, outcome, answer, dropped, incidents>>
Disconnects == CloseDisconnects /\ UNCHANGED eipVars
Destroys ==
  CloseDestroys /\ EndSessions /\ UNCHANGED <<eip, outcome, answer, dropped, incidents>>

Replies(s) ==
  RegisterReply(s) \/ RRDataReply(s) \/ UnitDataReply(s) \/ ListReply(s)

Next ==
  \/ \E r \in Requests : Issue(r)
  \/ \E u \in Users : UserRequest(u)
  \/ ConnectCalled
  \/ NextTick
  \/ Tick
  \/ \E s \in Sockets :
       \/ Replies(s)
       \/ TakeSilently(s)
       \/ Connects(s)
       \/ Fail(s)
       \/ SocketClosed(s)
       \/ Ended(s)
  \/ CloseLayers
  \/ UpperDisconnects \/ UpperDestroys \/ Disconnects \/ Destroys

Spec == Init /\ [][Next]_vars

(* The event loop runs what is due, a connection attempt ends, and the       *)
(* device takes what it is sent.                                             *)
Fairness ==
  /\ WF_vars(Tick) /\ WF_vars(NextTick)
  /\ WF_vars(UpperDisconnects \/ UpperDestroys \/ Disconnects \/ Destroys)
  /\ \A s \in Sockets :
       /\ WF_vars(Connects(s) \/ (phase[s] = "connecting" /\ Fail(s)))
       /\ WF_vars(Replies(s))
       /\ WF_vars(TakeSilently(s))
       /\ WF_vars(SocketClosed(s))
       /\ WF_vars(Ended(s))

FairSpec == Spec /\ Fairness
-----------------------------------------------------------------------------
TypeOK ==
  /\ TcpTypeOK
  /\ eip \in [unconnected : Unconnected, state : 0 .. 2, session : Handles, queue : Seq(Requests), ticks : Nat,
              context : Contexts, routes : [Contexts -> Requests \cup {None}],
              users : Seq(Users), waiting : SUBSET Users, hand : {<<>>}]
  /\ registered \subseteq Sockets
  /\ outcome \in [Calls -> {"idle", "pending", "answered", "rejected"}]
  /\ answer \in [Requests -> Requests \cup {None}]
  /\ dropped \subseteq Requests
  /\ incidents \subseteq {"refused", "registered late", "called while closing", "strayed"}

(* A layer that believes in a session has one: the device keeps it on the    *)
(* open connection, under the handle the layer sends.  The exceptions are a  *)
(* reply to RegisterSession that comes after the layer was closed, and a     *)
(* socket that a call in the last step of a close has left behind.           *)
SessionIsRegistered ==
  eip.state = 2 /\ {"registered late", "strayed"} \cap incidents = {} =>
    /\ tcpState = Connected /\ phase[opened] = "open"
    /\ opened \in registered /\ eip.session = opened

Closing == tcpState = Disconnecting \/ due # "nothing"

(* Every message of the layer above reaches the device in the session it was *)
(* written for, however connections fail and sessions end under it.  The     *)
(* exceptions are those of SessionIsRegistered, and a connection on which a  *)
(* call made TCP write once more after the UnregisterSession of its close.   *)
OnlyInSession ==
  [][\A s \in Sockets :
       wire'[s] # wire[s] /\ (Reply(s, "rr") \/ Reply(s, "unit")) /\ wire'[s] = Tail(wire[s])
         => \/ InSession(s)
            \/ {"registered late", "strayed"} \cap incidents # {}
            \/ "called while closing" \in incidents /\ Closing]_vars

OnTheWay ==
  Queued(tcpQueue) \cup (IF opened = 0 THEN {} ELSE {wire[opened][i] : i \in DOMAIN wire[opened]})

Registering ==
  eip.state = 1 /\ Register \in OnTheWay /\ tcpState \in {Connecting, Connected}

(* A call that is not settled has a way to be: it waits for a registration   *)
(* that is under way or for a tick, or its message is on its way and its     *)
(* context or callback on file.                                              *)
PendingHasRoute ==
  incidents = {} =>
    /\ \A r \in Requests \cap (Pending \ dropped) :
         \/ (\E i \in DOMAIN eip.queue : eip.queue[i] = r)
            /\ (Registering \/ (eip.state = 2 /\ eip.ticks > 0))
         \/ \E m \in OnTheWay :
              /\ m.kind \in {"rr", "unit"} /\ m.request = r
              /\ m.kind = "rr" => eip.routes[m.context] = r
    /\ \A u \in Listing \cap Pending :
         /\ u \in eip.waiting
         /\ \/ (\E i \in DOMAIN eip.users : eip.users[i] = u) /\ Registering
            \/ \E m \in OnTheWay : m.kind = "list" /\ Command[m.user] = Command[u]
            \/ due = "upper destroy"

(* This layer implements RequestService for the layer above: a request is    *)
(* settled at most once, with the reply to itself or with an error.          *)
Service == INSTANCE RequestService WITH
  outcome <- [r \in Requests |-> IF outcome[r] = "answered" /\ answer[r] # r
                                   THEN "mistaken" ELSE outcome[r]]

ImplementsService == Service!Spec

(* Every call is settled in the end: since each is made once, it is enough   *)
(* that again and again none is left pending.  The exceptions are the        *)
(* incidents, after which nothing in the layer acts for a call, and          *)
(* connected requests answered with an error status.                         *)
RequestsSettle ==
  []<>(incidents # {} \/ \A r \in Requests \cup Listing : outcome[r] = "pending" => r \in dropped)
=============================================================================
