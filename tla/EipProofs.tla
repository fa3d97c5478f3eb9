------------------------------- MODULE EipProofs -------------------------------
(***************************************************************************)
(* The EtherNet/IP layer sends nothing outside of a session the device      *)
(* keeps, settles every request by its own reply, and keeps a way for every *)
(* call that is not settled, for any requests, connections and failures.    *)
(***************************************************************************)
EXTENDS EipSession, TcpProofs, FiniteSetTheorems, WellFoundedInduction

(* The fields of the layer, in the middle of a handler or between two.       *)
Layers ==
  [unconnected : Unconnected, state : 0 .. 2, session : Handles, queue : Seq(Requests),
   ticks : Nat, context : Contexts, routes : [Contexts -> Requests \cup {None}],
   users : Seq(Users), waiting : SUBSET Users, hand : Seq(Messages)]

Kinds(kinds) == {m \in Messages : m.kind \in kinds}
Plain == {m \in Messages : m.kind # "rr"}

-----------------------------------------------------------------------------
(* What the handlers do to the fields.                                       *)
LEMMA MessageTypes ==
  ASSUME NEW c \in Layers
  PROVE  /\ Register \in Messages /\ Unregister(c) \in Messages
         /\ \A r \in Requests : SendRRData(c, r) \in Messages /\ SendUnitData(c, r) \in Messages
         /\ \A u \in Users : List(c, u) \in Messages
<1>1. c.session \in Handles /\ c.context \in Contexts
  BY DEF Layers
<1>. QED
  BY <1>1 DEF Messages, Register, Unregister, SendRRData, SendUnitData, List

LEMMA ContextType ==
  ASSUME NEW context \in Contexts
  PROVE  IncrementContext(context) \in Contexts
<1>1. ASSUME NEW i \in 1 .. ContextBytes
      PROVE  (context[i] + 1) % Octets \in 0 .. Octets - 1 /\ context[i] \in 0 .. Octets - 1
  <2>1. context[i] \in 0 .. Octets - 1 /\ Octets \in Nat \ {0}
    BY EipAssumption DEF Contexts
  <2>2. context[i] + 1 \in Nat
    BY <2>1
  <2>. QED
    BY <2>1, <2>2
<1>. QED
  BY <1>1 DEF IncrementContext, Contexts

(* Fields may be replaced by others of their types.                          *)
LEMMA LayerUpdates ==
  ASSUME NEW c \in Layers
  PROVE  /\ \A s \in 0 .. 2 : [c EXCEPT !.state = s] \in Layers
         /\ \A s \in 0 .. 2, h \in Seq(Messages) :
              [c EXCEPT !.state = s, !.hand = h] \in Layers
         /\ \A h \in Seq(Messages) : [c EXCEPT !.hand = h] \in Layers
         /\ \A s \in 0 .. 2, x \in Handles : [c EXCEPT !.state = s, !.session = x] \in Layers
         /\ \A q \in Seq(Requests), t \in Nat : [c EXCEPT !.queue = q, !.ticks = t] \in Layers
         /\ \A q \in Seq(Requests) : [c EXCEPT !.queue = q] \in Layers
         /\ \A t \in Nat : [c EXCEPT !.ticks = t] \in Layers
         /\ \A x \in Contexts : [c EXCEPT !.context = x] \in Layers
         /\ \A x \in Contexts, r \in Requests \cup {None} : [c EXCEPT !.routes[x] = r] \in Layers
         /\ \A u \in Seq(Users), h \in Seq(Messages) :
              [c EXCEPT !.users = u, !.hand = h] \in Layers
         /\ \A u \in Seq(Users), w \in SUBSET Users :
              [c EXCEPT !.users = u, !.waiting = w] \in Layers
         /\ \A w \in SUBSET Users : [c EXCEPT !.waiting = w] \in Layers
BY DEF Layers

(* connect registers a session unless there is one or one under way.         *)
LEMMA ConnectFacts ==
  ASSUME NEW c \in Layers, c.hand = <<>>
  PROVE  /\ Connect(c) \in Layers
         /\ c.state = 0 => Connect(c) = [c EXCEPT !.state = 1, !.hand = <<Register>>]
<1>1. Append(c.hand, Register) = <<Register>>
  BY DEF Layers
<1>2. <<Register>> \in Seq(Messages)
  BY MessageTypes
<1>. DEFINE h == <<Register>>
<1>3. CASE c.state = 0
  <2>1. Connect(c) = [c EXCEPT !.state = 1, !.hand = Append(c.hand, Register)]
    BY <1>3 DEF Connect
  <2>2. Connect(c) = [c EXCEPT !.state = 1, !.hand = h]
    BY <1>1, <2>1
  <2>3. h \in Seq(Messages)
    BY <1>2
  <2>. HIDE DEF h
  <2>4. Connect(c) \in Layers
    <3>1. \A n \in 0 .. 2 : [c EXCEPT !.state = n, !.hand = h] \in Layers
      BY <2>3, LayerUpdates
    <3>2. 1 \in 0 .. 2
      OBVIOUS
    <3>3. [c EXCEPT !.state = 1, !.hand = h] \in Layers
      BY <3>1, <3>2
    <3>. QED
      BY <2>2, <3>3
  <2>. QED
    BY <2>2, <2>4 DEF h
<1>4. CASE c.state # 0
  BY <1>4 DEF Connect
<1>. QED
  BY <1>3, <1>4

(* sendNextMessage does nothing, registers a session, or sends the first     *)
(* message, on the connection or under the next context.                     *)
SendsNothing(c, d) == d = c

Registers(c, d) ==
  c.state = 0 /\ c.queue # <<>> /\ d = [c EXCEPT !.state = 1, !.hand = <<Register>>]

SendsUnit(c, d) ==
  /\ c.state = 2 /\ c.queue # <<>>
  /\ d = [c EXCEPT !.queue = Tail(@), !.ticks = @ + 1,
                   !.hand = <<SendUnitData(c, Head(c.queue))>>]

SendsRR(c, d) ==
  /\ c.state = 2 /\ c.queue # <<>>
  /\ d = [c EXCEPT !.queue = Tail(@), !.ticks = @ + 1,
                   !.context = IncrementContext(c.context),
                   !.routes[IncrementContext(c.context)] = Head(c.queue),
                   !.hand = <<[kind |-> "rr", session |-> c.session,
                               context |-> IncrementContext(c.context),
                               request |-> Head(c.queue)]>>]

LEMMA SendNextMessageFacts ==
  ASSUME NEW c \in Layers, c.hand = <<>>
  PROVE  /\ SendNextMessage(c) \in Layers
         /\ \/ SendsNothing(c, SendNextMessage(c)) \/ Registers(c, SendNextMessage(c))
            \/ SendsUnit(c, SendNextMessage(c)) \/ SendsRR(c, SendNextMessage(c))
<1>1. CASE c.queue # <<>> /\ c.state = 0
  <2>1. SendNextMessage(c) = Connect(c)
    BY <1>1 DEF SendNextMessage
  <2>. QED
    BY <1>1, <2>1, ConnectFacts DEF Registers
<1>2. CASE c.queue # <<>> /\ c.state = 2
  <2>. DEFINE r == Head(c.queue)
              e == [c EXCEPT !.queue = Tail(@), !.ticks = @ + 1]
              x == IncrementContext(c.context)
  <2>1. SendNextMessage(c) = SendMessage(e, r)
    BY <1>2 DEF SendNextMessage
  <2>2. r \in Requests /\ Tail(c.queue) \in Seq(Requests)
    BY <1>2, HeadTailProperties DEF Layers
  <2>3. x \in Contexts
    BY ContextType DEF Layers
  <2>4. e \in Layers /\ e.hand = <<>> /\ e.session = c.session /\ e.context = c.context
        /\ e.unconnected = c.unconnected
    <3>1. c.ticks + 1 \in Nat /\ e = [c EXCEPT !.queue = Tail(c.queue), !.ticks = c.ticks + 1]
      BY DEF Layers
    <3>2. e \in Layers
      BY <2>2, <3>1, LayerUpdates
    <3>. QED
      BY <3>2 DEF Layers
  <2>. HIDE DEF r, x
  <2>5. CASE r \notin c.unconnected
    <3>1. SendMessage(e, r) = [e EXCEPT !.hand = Append(@, SendUnitData(e, r))]
      BY <2>4, <2>5 DEF SendMessage
    <3>2. SendUnitData(e, r) = SendUnitData(c, r) /\ SendUnitData(e, r) \in Messages
      BY <2>2, <2>4, MessageTypes DEF SendUnitData
    <3>. DEFINE m == SendUnitData(c, r)
                h == <<m>>
    <3>. HIDE DEF m
    <3>3. Append(<<>>, m) = h /\ h \in Seq(Messages)
      BY <3>2 DEF m
    <3>4. SendMessage(e, r) = [e EXCEPT !.hand = h]
      BY <3>1, <3>2, <3>3, <2>4 DEF m
    <3>. HIDE DEF h
    <3>5. SendMessage(e, r) \in Layers
      <4>1. e \in Layers
        BY <2>4
      <4>2. [e EXCEPT !.hand = h] \in Layers
        BY ONLY <3>3, <4>1, LayerUpdates
      <4>. QED
        BY <3>4, <4>2
    <3>6. SendsUnit(c, SendMessage(e, r))
      BY <1>2, <3>4 DEF SendsUnit, Layers, m, h, r
    <3>. QED
      BY <2>1, <3>5, <3>6
  <2>6. CASE r \in c.unconnected
    <3>. DEFINE d == [e EXCEPT !.context = x]
                m == [kind |-> "rr", session |-> c.session, context |-> x, request |-> r]
    <3>1. d \in Layers /\ d.hand = <<>> /\ d.session = c.session /\ d.context = x
      BY <2>3, <2>4 DEF Layers
    <3>2. SendMessage(e, r)
            = [d EXCEPT !.hand = Append(@, SendRRData(d, r)), !.routes[d.context] = r]
      <4>1. [e EXCEPT !.context = IncrementContext(@)] = d
        BY <2>4 DEF x
      <4>2. r \in e.unconnected
        BY <2>4, <2>6
      <4>. HIDE DEF d, e
      <4>. QED
        BY <4>1, <4>2 DEF SendMessage
    <3>3. SendRRData(d, r) = m /\ m \in Messages
      BY <2>2, <3>1, MessageTypes DEF SendRRData
    <3>. DEFINE h == <<m>>
    <3>. HIDE DEF m
    <3>4. Append(<<>>, m) = h /\ h \in Seq(Messages)
      BY <3>3
    <3>. HIDE DEF h
    <3>5. SendMessage(e, r) = [d EXCEPT !.hand = h, !.routes[x] = r]
      BY <3>1, <3>2, <3>3, <3>4
    <3>6. SendMessage(e, r) \in Layers
      <4>1. [d EXCEPT !.hand = h] \in Layers
        BY <3>1, <3>4, LayerUpdates
      <4>2. [[d EXCEPT !.hand = h] EXCEPT !.routes[x] = r] \in Layers
        BY <2>2, <2>3, <4>1, LayerUpdates
      <4>. HIDE DEF d
      <4>3. [d EXCEPT !.hand = h, !.routes[x] = r] = [[d EXCEPT !.hand = h] EXCEPT !.routes[x] = r]
        BY <3>1 DEF Layers
      <4>. QED
        BY <3>5, <4>2, <4>3
    <3>7. SendsRR(c, SendMessage(e, r))
      BY <1>2, <3>5 DEF SendsRR, Layers, m, h, r, x
    <3>. QED
      BY <2>1, <3>6, <3>7
  <2>. QED
    BY <2>5, <2>6
<1>3. CASE ~(c.queue # <<>> /\ c.state = 0) /\ ~(c.queue # <<>> /\ c.state = 2)
  BY <1>3 DEF SendNextMessage, SendsNothing
<1>. QED
  BY <1>1, <1>2, <1>3

(* sendUserRequests hands on what waits, unless a registration is under way. *)
Lists(c) == [i \in DOMAIN c.users |-> List(c, c.users[i])]

LEMMA SendUsersFacts ==
  ASSUME NEW c \in Layers
  PROVE  /\ SendUsers(c) \in Layers
         /\ Lists(c) \in Seq(Kinds({"list"}))
         /\ c.state = 1 => SendUsers(c) = c
         /\ c.state # 1 => SendUsers(c) = [c EXCEPT !.users = <<>>, !.hand = @ \o Lists(c)]
<1>1. c.users \in Seq(Users) /\ Len(c.users) \in Nat /\ DOMAIN c.users = 1 .. Len(c.users)
      /\ \A i \in 1 .. Len(c.users) : c.users[i] \in Users
  BY DEF Layers
<1>2. \A u \in Users : List(c, u) \in Messages /\ List(c, u).kind = "list"
  BY MessageTypes DEF List
<1>3. Lists(c) \in Seq(Kinds({"list"}))
  <2>1. Lists(c) \in [1 .. Len(c.users) -> Kinds({"list"})]
    BY <1>1, <1>2 DEF Lists, Kinds
  <2>. QED
    BY <1>1, <2>1
<1>4. Lists(c) \in Seq(Messages)
  BY <1>3, SeqMonotonic DEF Kinds
<1>5. c.hand \o Lists(c) \in Seq(Messages)
  BY <1>4, ConcatProperties DEF Layers
<1>6. <<>> \in Seq(Users)
  OBVIOUS
<1>. QED
  BY <1>3, <1>5, <1>6 DEF SendUsers, Lists, Layers

LEMMA CleanupFacts ==
  ASSUME NEW c \in Layers
  PROVE  /\ Cleanup(c) \in Layers /\ Cleanup(c).hand = c.hand /\ Cleanup(c).state = 0
         /\ Cleanup(c).queue = <<>> /\ Cleanup(c).waiting = {}
         /\ \A x \in Contexts : Cleanup(c).routes[x] = None
<1>1. <<>> \in Seq(Requests) /\ None \in Handles /\ 0 \in 0 .. 2
  BY DEF Handles
<1>2. [x \in Contexts |-> None] \in [Contexts -> Requests \cup {None}]
  OBVIOUS
<1>. DEFINE q == <<>>
            t == [x \in Contexts |-> None]
<1>3. Cleanup(c) = [c EXCEPT !.queue = q, !.session = None, !.waiting = {}, !.state = 0,
                             !.routes = t]
  BY DEF Cleanup
<1>4. q \in Seq(Requests) /\ t \in [Contexts -> Requests \cup {None}]
      /\ \A x \in Contexts : t[x] = None
  BY <1>1, <1>2
<1>. HIDE DEF t, q
<1>5. /\ Cleanup(c) \in Layers /\ Cleanup(c).hand = c.hand /\ Cleanup(c).state = 0
      /\ Cleanup(c).queue = q /\ Cleanup(c).waiting = {}
      /\ Cleanup(c).routes = t
  BY <1>1, <1>3, <1>4 DEF Layers
<1>. QED
  BY <1>4, <1>5 DEF q

(* A call in the last step of a close may have left a socket behind.         *)
Strayed == "strayed" \in incidents

SocketInv == ~Strayed => Sound

Happenings == {"refused", "registered late", "called while closing", "strayed"}

(* Between two handlers the layer hands nothing on.                          *)
LEMMA EipTypes ==
  TypeOK <=> /\ TcpTypeOK
             /\ eip \in Layers /\ eip.hand = <<>>
             /\ registered \subseteq Sockets
             /\ outcome \in [Calls -> {"idle", "pending", "answered", "rejected"}]
             /\ answer \in [Requests -> Requests \cup {None}]
             /\ dropped \subseteq Requests
             /\ incidents \subseteq Happenings
<1>1. <<>> \in Seq(Messages)
  OBVIOUS
<1>. QED
  BY <1>1 DEF TypeOK, Layers, Happenings

LEMMA EipTypesNext ==
  TypeOK' <=> (/\ TcpTypeOK
               /\ eip \in Layers /\ eip.hand = <<>>
               /\ registered \subseteq Sockets
               /\ outcome \in [Calls -> {"idle", "pending", "answered", "rejected"}]
               /\ answer \in [Requests -> Requests \cup {None}]
               /\ dropped \subseteq Requests
               /\ incidents \subseteq Happenings)'
  BY EipTypes, PTL

LEMMA LeaveFacts ==
  ASSUME NEW c \in Layers, Leave(c)
  PROVE  /\ eip' \in Layers /\ eip'.hand = <<>>
         /\ eip'.unconnected = c.unconnected /\ eip'.state = c.state
         /\ eip'.session = c.session /\ eip'.queue = c.queue /\ eip'.ticks = c.ticks
         /\ eip'.context = c.context /\ eip'.routes = c.routes /\ eip'.users = c.users
         /\ eip'.waiting = c.waiting
<1>. DEFINE h == <<>>
<1>1. eip' = [c EXCEPT !.hand = h] /\ h \in Seq(Messages)
  BY DEF Leave
<1>. HIDE DEF h
<1>2. eip' \in Layers
  BY <1>1, LayerUpdates
<1>3. eip'.hand = h
  BY <1>1 DEF Layers
<1>. QED
  BY <1>1, <1>2, <1>3 DEF Layers, h

LEMMA InitSockets == Init => TypeOK /\ Sound
<1>. SUFFICES ASSUME Init PROVE TypeOK /\ Sound
  OBVIOUS
<1>1. TcpTypeOK /\ Sound
  BY InitTcp DEF Init
<1>2. PICK context \in FirstContext, unconnected \in Unconnected :
        eip = [unconnected |-> unconnected, state |-> 0, session |-> None,
               queue |-> <<>>, ticks |-> 0,
               context |-> context, routes |-> [x \in Contexts |-> None],
               users |-> <<>>, waiting |-> {}, hand |-> <<>>]
  BY DEF Init
<1>3. context \in Contexts /\ None \in Handles
  BY EipAssumption DEF Contexts, Handles
<1>4. eip \in Layers /\ eip.hand = <<>>
  BY <1>2, <1>3 DEF Layers
<1>5. outcome \in [Calls -> {"idle", "pending", "answered", "rejected"}]
      /\ answer \in [Requests -> Requests \cup {None}]
  BY DEF Init
<1>. QED
  BY <1>1, <1>4, <1>5, EipTypes DEF Init

-----------------------------------------------------------------------------
(* What the layer hands to TCP when it sends: lists in any state, or what    *)
(* opens a session, or messages of the session it has.                       *)
OfSession(x) ==
  {m \in Messages : m.kind \in {"rr", "unit", "list"} /\ (m.kind # "list" => m.session = x)}

Sends(c, priority) ==
  /\ c \in Layers /\ c.session = eip.session
  /\ \/ c.state = eip.state /\ ~priority /\ c.hand \in Seq(Kinds({"list"}))
     \/ eip.state = 0 /\ c.state = 1 /\ priority /\ c.hand = <<Register>>
     \/ eip.state = 2 /\ c.state = 2 /\ ~priority /\ c.hand \in Seq(OfSession(eip.session))

(* A call after the layer's disconnect is an incident.                       *)
Recorded ==
  /\ incidents \subseteq incidents'
  /\ incidents' \subseteq incidents \cup {"called while closing", "strayed"}
  /\ due \in StepsAfterDisconnect => "called while closing" \in incidents'
  /\ due = "destroy" => "strayed" \in incidents'

SendStep ==
  /\ \E c \in Layers, priority \in BOOLEAN :
       Sends(c, priority) /\ Leave(c) /\ SendEach(c.hand, priority, wire)
  /\ UNCHANGED <<due, registered, answer, dropped>>
  /\ outcome' \in [Calls -> {"idle", "pending", "answered", "rejected"}]
  /\ Recorded

LEMMA IncidentsRecorded ==
  ASSUME NEW steps, StepsAfterDisconnect \subseteq steps, incidents' = Incidents(steps)
  PROVE  Recorded
BY DEF Incidents, Recorded, StepsAfterDisconnect, AnyStep, CloseSteps

LEMMA HandedMessages ==
  ASSUME NEW c, NEW priority, Sends(c, priority)
  PROVE  c.hand \in Seq(Messages)
BY DEF Sends, Layers

LEMMA NextMessageSends ==
  ASSUME NEW c \in Layers, c.hand = <<>>, c.session = eip.session, c.state = eip.state,
         NEW d, d = SendNextMessage(c)
  PROVE  Sends(d, d.hand = <<Register>>)
<1>1. d \in Layers
  BY SendNextMessageFacts
<1>2. \A m \in Messages : m # Register => <<m>> # <<Register>>
  OBVIOUS
<1>3. CASE SendsNothing(c, d)
  <2>1. d.hand = <<>>
    BY <1>3 DEF SendsNothing
  <2>2. d.hand \in Seq(Kinds({"list"}))
    BY <2>1, EmptySeq
  <2>3. <<>> # <<Register>>
    OBVIOUS
  <2>. QED
    BY <1>1, <1>3, <2>1, <2>2, <2>3 DEF SendsNothing, Sends
<1>4. CASE Registers(c, d)
  <2>1. d.state = 1 /\ d.session = c.session /\ d.hand = <<Register>>
    BY <1>4 DEF Registers, Layers
  <2>. QED
    BY <1>1, <1>4, <2>1 DEF Registers, Sends
<1>5. ASSUME NEW m \in OfSession(eip.session), d.hand = <<m>>, d.state = 2,
             d.session = c.session, c.state = 2
      PROVE  Sends(d, d.hand = <<Register>>)
  <2>1. m \in Messages /\ m # Register
    BY DEF OfSession, Register
  <2>2. d.hand # <<Register>>
    BY <1>2, <1>5, <2>1
  <2>3. d.hand \in Seq(OfSession(eip.session))
    BY <1>5
  <2>. QED
    BY <1>1, <1>5, <2>2, <2>3 DEF Sends
<1>6. CASE SendsUnit(c, d)
  <2>. DEFINE m == SendUnitData(c, Head(c.queue))
  <2>1. Head(c.queue) \in Requests
    BY <1>6, HeadTailProperties DEF SendsUnit, Layers
  <2>2. m \in OfSession(eip.session)
    BY <2>1, MessageTypes DEF OfSession, SendUnitData
  <2>3. d.hand = <<m>> /\ d.state = 2 /\ d.session = c.session /\ c.state = 2
    BY <1>6 DEF SendsUnit, Layers
  <2>. HIDE DEF m
  <2>. QED
    BY <1>5, <2>2, <2>3
<1>7. CASE SendsRR(c, d)
  <2>. DEFINE m == [kind |-> "rr", session |-> c.session,
                    context |-> IncrementContext(c.context), request |-> Head(c.queue)]
  <2>1. Head(c.queue) \in Requests
    BY <1>7, HeadTailProperties DEF SendsRR, Layers
  <2>2. IncrementContext(c.context) \in Contexts /\ c.session \in Handles
    BY ContextType DEF Layers
  <2>3. m \in OfSession(eip.session)
    BY <2>1, <2>2 DEF OfSession, Messages
  <2>4. d.hand = <<m>> /\ d.state = 2 /\ d.session = c.session /\ c.state = 2
    BY <1>7 DEF SendsRR, Layers
  <2>. HIDE DEF m
  <2>. QED
    BY <1>5, <2>3, <2>4
<1>. QED
  BY <1>3, <1>4, <1>6, <1>7, SendNextMessageFacts

LEMMA IssueSends ==
  ASSUME TypeOK, NEW r \in Requests, Issue(r)
  PROVE  SendStep
<1>. DEFINE d == [eip EXCEPT !.queue = Append(@, r)]
            c == SendNextMessage(d)
<1>1. /\ eip \in Layers /\ eip.hand = <<>>
      /\ outcome \in [Calls -> {"idle", "pending", "answered", "rejected"}]
  BY EipTypes
<1>2. d \in Layers /\ d.hand = <<>> /\ d.session = eip.session /\ d.state = eip.state
  <2>1. Append(eip.queue, r) \in Seq(Requests)
    BY <1>1, AppendProperties DEF Layers
  <2>2. d \in Layers
    BY <1>1, <2>1, LayerUpdates
  <2>. QED
    BY <1>1, <2>2 DEF Layers
<1>3. Leave(c) /\ SendEach(c.hand, c.hand = <<Register>>, wire)
      /\ UNCHANGED <<due, registered, answer, dropped>> /\ incidents' = Incidents(AnyStep)
      /\ outcome' = [outcome EXCEPT ![r] = "pending"]
  BY DEF Issue
<1>. HIDE DEF d, c
<1>4. Sends(c, c.hand = <<Register>>)
  BY <1>2, NextMessageSends DEF c
<1>5. outcome' \in [Calls -> {"idle", "pending", "answered", "rejected"}]
  BY <1>1, <1>3
<1>6. (c.hand = <<Register>>) \in BOOLEAN
  OBVIOUS
<1>7. \E x \in Layers, priority \in BOOLEAN :
       Sends(x, priority) /\ Leave(x) /\ SendEach(x.hand, priority, wire)
  BY <1>3, <1>4, <1>6 DEF Sends
<1>8. Recorded
  BY <1>3, IncidentsRecorded DEF StepsAfterDisconnect
<1>. QED
  BY <1>3, <1>5, <1>7, <1>8 DEF SendStep

LEMMA NextTickSends ==
  ASSUME TypeOK, NextTick
  PROVE  SendStep
<1>. DEFINE d == [eip EXCEPT !.ticks = @ - 1]
            c == SendNextMessage(d)
<1>1. /\ eip \in Layers /\ eip.hand = <<>>
      /\ outcome \in [Calls -> {"idle", "pending", "answered", "rejected"}]
  BY EipTypes
<1>2. d \in Layers /\ d.hand = <<>> /\ d.session = eip.session /\ d.state = eip.state
  <2>1. eip.ticks - 1 \in Nat
    BY <1>1 DEF NextTick, Layers
  <2>2. d \in Layers
    BY <1>1, <2>1, LayerUpdates
  <2>. QED
    BY <1>1, <2>2 DEF Layers
<1>3. Leave(c) /\ SendEach(c.hand, c.hand = <<Register>>, wire)
      /\ UNCHANGED <<due, registered, outcome, answer, dropped, incidents>>
      /\ due = "nothing"
  BY DEF NextTick
<1>. HIDE DEF d, c
<1>4. Sends(c, c.hand = <<Register>>)
  BY <1>2, NextMessageSends DEF c
<1>5. (c.hand = <<Register>>) \in BOOLEAN
  OBVIOUS
<1>6. \E x \in Layers, priority \in BOOLEAN :
       Sends(x, priority) /\ Leave(x) /\ SendEach(x.hand, priority, wire)
  BY <1>3, <1>4, <1>5 DEF Sends
<1>7. Recorded
  BY <1>3 DEF Recorded, StepsAfterDisconnect, AnyStep
<1>. QED
  BY <1>1, <1>3, <1>6, <1>7 DEF SendStep

LEMMA ConnectCalledSends ==
  ASSUME TypeOK, ConnectCalled
  PROVE  SendStep
<1>1. /\ eip \in Layers /\ eip.hand = <<>>
      /\ outcome \in [Calls -> {"idle", "pending", "answered", "rejected"}]
  BY EipTypes
<1>. DEFINE c == Connect(eip)
<1>2. Leave(c) /\ SendEach(<<Register>>, TRUE, wire) /\ eip.state = 0
      /\ UNCHANGED <<due, registered, outcome, answer, dropped>>
      /\ incidents' = Incidents(StepsAfterDisconnect)
  BY DEF ConnectCalled
<1>3. c \in Layers /\ c = [eip EXCEPT !.state = 1, !.hand = <<Register>>]
  BY <1>1, <1>2, ConnectFacts
<1>. HIDE DEF c
<1>4. c.session = eip.session /\ c.state = 1 /\ c.hand = <<Register>>
  BY <1>1, <1>3 DEF Layers
<1>5. Sends(c, TRUE) /\ SendEach(c.hand, TRUE, wire)
  BY <1>2, <1>3, <1>4 DEF Sends
<1>6. \E x \in Layers, priority \in BOOLEAN :
       Sends(x, priority) /\ Leave(x) /\ SendEach(x.hand, priority, wire)
  BY <1>2, <1>5 DEF Sends
<1>7. Recorded
  BY <1>2, IncidentsRecorded
<1>. QED
  BY <1>1, <1>2, <1>6, <1>7 DEF SendStep

LEMMA UserRequestSends ==
  ASSUME TypeOK, NEW u \in Users, UserRequest(u)
  PROVE  SendStep
<1>. DEFINE users == Append(eip.users, u)
            waiting == eip.waiting \cup ({u} \cap Listing)
            d == [eip EXCEPT !.users = users, !.waiting = waiting]
            c == SendUsers(d)
<1>1. /\ eip \in Layers /\ eip.hand = <<>>
      /\ outcome \in [Calls -> {"idle", "pending", "answered", "rejected"}]
  BY EipTypes
<1>2. d \in Layers /\ d.hand = <<>> /\ d.session = eip.session /\ d.state = eip.state
  <2>1. users \in Seq(Users) /\ waiting \in SUBSET Users
    BY <1>1, AppendProperties DEF Layers, Listing
  <2>. HIDE DEF users, waiting
  <2>2. d \in Layers
    BY <1>1, <2>1, LayerUpdates
  <2>. QED
    BY <1>1, <2>2 DEF Layers
<1>3. Leave(c) /\ SendEach(c.hand, FALSE, wire)
      /\ UNCHANGED <<due, registered, answer, dropped>>
      /\ incidents' = Incidents(StepsAfterDisconnect)
      /\ outcome' = [outcome EXCEPT ![u] = IF u \in Listing THEN "pending" ELSE "answered"]
  BY DEF UserRequest
<1>. HIDE DEF d, c
<1>4. Sends(c, FALSE)
  <2>1. CASE d.state = 1
    <3>1. c = d
      BY <1>2, <2>1, SendUsersFacts DEF c
    <3>2. c.hand \in Seq(Kinds({"list"}))
      BY <1>2, <3>1, EmptySeq
    <3>. QED
      BY <1>2, <3>1, <3>2 DEF Sends
  <2>2. CASE d.state # 1
    <3>1. c = [d EXCEPT !.users = <<>>, !.hand = @ \o Lists(d)] /\ c \in Layers
          /\ Lists(d) \in Seq(Kinds({"list"}))
      BY <1>2, <2>2, SendUsersFacts DEF c
    <3>2. c.hand = d.hand \o Lists(d) /\ c.session = d.session /\ c.state = d.state
      BY <1>2, <3>1 DEF Layers
    <3>3. <<>> \o Lists(d) = Lists(d)
      BY <3>1, ConcatEmptySeq
    <3>4. c.hand = Lists(d)
      BY <1>2, <3>2, <3>3
    <3>. QED
      BY <1>2, <3>1, <3>2, <3>4 DEF Sends
  <2>. QED
    BY <2>1, <2>2
<1>5. outcome' \in [Calls -> {"idle", "pending", "answered", "rejected"}]
  BY <1>1, <1>3
<1>6. \E x \in Layers, priority \in BOOLEAN :
       Sends(x, priority) /\ Leave(x) /\ SendEach(x.hand, priority, wire)
  BY <1>3, <1>4 DEF Sends
<1>7. Recorded
  BY <1>3, IncidentsRecorded
<1>. QED
  BY <1>3, <1>5, <1>6, <1>7 DEF SendStep

(* A registered session sends what waits, in that session.                   *)
Started(s) == SendUsers(SendNextMessage([eip EXCEPT !.state = 2, !.session = s]))

LEMMA StartedFacts ==
  ASSUME TypeOK, NEW s \in Sockets
  PROVE  /\ Started(s) \in Layers /\ Started(s).state = 2 /\ Started(s).session = s
         /\ Started(s).hand \in Seq(OfSession(s))
<1>. DEFINE d == [eip EXCEPT !.state = 2, !.session = s]
            e == SendNextMessage(d)
<1>1. eip \in Layers /\ eip.hand = <<>> /\ s \in Handles /\ 2 \in 0 .. 2
  <2>1. s \in Handles /\ 2 \in 0 .. 2
    BY DEF Handles
  <2>. QED
    BY <2>1, EipTypes
<1>2. d \in Layers /\ d.hand = <<>> /\ d.session = s /\ d.state = 2
  <2>1. \A x \in Handles, n \in 0 .. 2 : [eip EXCEPT !.state = n, !.session = x] \in Layers
    BY <1>1, LayerUpdates
  <2>2. d \in Layers
    BY <1>1, <2>1
  <2>. QED
    BY <1>1, <2>2 DEF Layers
<1>. HIDE DEF d
<1>3. e \in Layers /\ e.state = 2 /\ e.session = s /\ e.hand \in Seq(OfSession(s))
  <2>1. e \in Layers
    BY <1>2, SendNextMessageFacts
  <2>2. CASE SendsNothing(d, e)
    BY <1>2, <2>1, <2>2, EmptySeq DEF SendsNothing
  <2>3. CASE Registers(d, e)
    BY <1>2, <2>3 DEF Registers
  <2>4. CASE SendsUnit(d, e)
    <3>. DEFINE m == SendUnitData(d, Head(d.queue))
    <3>1. Head(d.queue) \in Requests
      BY <1>2, <2>4, HeadTailProperties DEF SendsUnit, Layers
    <3>2. m \in OfSession(s)
      BY <1>2, <3>1, MessageTypes DEF OfSession, SendUnitData
    <3>3. e.hand = <<m>> /\ e.state = 2 /\ e.session = s
      BY <1>2, <2>4 DEF SendsUnit, Layers
    <3>. HIDE DEF m
    <3>. QED
      BY <2>1, <3>2, <3>3
  <2>5. CASE SendsRR(d, e)
    <3>. DEFINE m == [kind |-> "rr", session |-> d.session,
                      context |-> IncrementContext(d.context), request |-> Head(d.queue)]
    <3>1. Head(d.queue) \in Requests
      BY <1>2, <2>5, HeadTailProperties DEF SendsRR, Layers
    <3>2. IncrementContext(d.context) \in Contexts
      BY <1>2, ContextType DEF Layers
    <3>3. m \in OfSession(s)
      BY <1>1, <1>2, <3>1, <3>2 DEF OfSession, Messages
    <3>4. e.hand = <<m>> /\ e.state = 2 /\ e.session = s
      BY <1>2, <2>5 DEF SendsRR, Layers
    <3>. HIDE DEF m
    <3>. QED
      BY <2>1, <3>3, <3>4
  <2>. QED
    BY <1>2, <2>2, <2>3, <2>4, <2>5, SendNextMessageFacts
<1>. HIDE DEF e
<1>4. SendUsers(e) = [e EXCEPT !.users = <<>>, !.hand = @ \o Lists(e)] /\ SendUsers(e) \in Layers
  <2>1. e \in Layers /\ e.state # 1
    BY <1>3
  <2>. QED
    BY <2>1, SendUsersFacts
<1>5. Lists(e) \in Seq(OfSession(s))
  <2>1. Lists(e) \in Seq(Kinds({"list"}))
    BY <1>3, SendUsersFacts
  <2>2. Kinds({"list"}) \subseteq OfSession(s)
    BY DEF Kinds, OfSession
  <2>. QED
    BY <2>1, <2>2, SeqMonotonic
<1>6. e.hand \o Lists(e) \in Seq(OfSession(s))
  BY <1>3, <1>5, ConcatProperties
<1>7. SendUsers(e).hand = e.hand \o Lists(e) /\ SendUsers(e).state = 2 /\ SendUsers(e).session = s
  BY <1>3, <1>4 DEF Layers
<1>. QED
  BY <1>4, <1>6, <1>7 DEF Started, d, e

(* The device's reply is to a message of one of the kinds there are.         *)
LEMMA ReplyFacts ==
  ASSUME TypeOK, NEW s \in Sockets, NEW kind, Reply(s, kind)
  PROVE  /\ wire[s] \in Seq(Messages) /\ wire[s] # <<>>
         /\ wire[s][1] \in Messages /\ wire[s][1].kind = kind
         /\ kind = "rr" => wire[s][1].context \in Contexts /\ wire[s][1].request \in Requests
                           /\ wire[s][1].session \in Handles
         /\ kind = "unit" => wire[s][1].request \in Requests /\ wire[s][1].session \in Handles
         /\ kind = "list" => wire[s][1].user \in Users
<1>1. wire[s] \in Seq(Messages) /\ wire[s] # <<>> /\ wire[s][1].kind = kind
  BY MessagesAssumption DEF Reply, TypeOK, TcpTypeOK
<1>2. wire[s][1] \in Messages
  <2>1. Head(wire[s]) \in Messages
    BY <1>1, HeadTailProperties
  <2>. QED
    BY <1>1, <2>1
<1>. DEFINE m == wire[s][1]
<1>3. m \in Messages /\ m.kind = kind
  BY <1>1, <1>2
<1>. HIDE DEF m
<1>4. /\ kind = "rr" => m.context \in Contexts /\ m.request \in Requests /\ m.session \in Handles
      /\ kind = "unit" => m.request \in Requests /\ m.session \in Handles
      /\ kind = "list" => m.user \in Users
  BY <1>3 DEF Messages
<1>. QED
  BY <1>1, <1>2, <1>4 DEF m

(* The device takes a message and sends no reply.                            *)
LEMMA TakeSilentlyTcp ==
  ASSUME TypeOK, NEW s \in Sockets, TakeSilently(s)
  PROVE  TcpTypeOK' /\ (Sound => Sound')
<1>1. wire[s] # <<>> /\ wire' = [wire EXCEPT ![s] = Tail(@)]
      /\ UNCHANGED <<tcpState, opened, phase, listening, tcpQueue, ticks, closing, due>>
      /\ phase[s] \in {"open", "ending", "ended"}
  BY DEF TakeSilently, Reply
<1>2. TcpTypeOK /\ wire \in [Sockets -> Seq(TcpMessages)]
  BY DEF TypeOK, TcpTypeOK
<1>3. wire' \in [Sockets -> Seq(TcpMessages)]
  BY <1>1, <1>2, TakeOne
<1>. QED
  BY <1>1, <1>2, <1>3 DEF TcpTypeOK, Sound

(* What a reply to RegisterSession, to a request, and to a list request      *)
(* leaves.                                                                   *)
LEMMA RegisterReplyType ==
  ASSUME TypeOK, NEW s \in Sockets, RegisterReply(s)
  PROVE  TypeOK' /\ (Sound => Sound' /\ s = opened)
<1>1. TcpTypeOK /\ eip \in Layers /\ eip.hand = <<>>
  BY EipTypes
<1>2. CASE /\ registered' = registered \cup {s}
           /\ Leave(Started(s)) /\ DataEventAndSend(s, Started(s).hand)
           /\ incidents' = incidents \cup
                             (IF tcpState # Connected THEN {"registered late"} ELSE {})
  <2>1. Started(s).hand \in Seq(TcpMessages) /\ Started(s) \in Layers
    BY StartedFacts, MessagesAssumption DEF Layers
  <2>2. TcpTypeOK' /\ (Sound => Sound' /\ s = opened)
    BY <1>1, <1>2, <2>1, DataEventAndSendTcp
  <2>3. eip' \in Layers /\ eip'.hand = <<>>
    BY <1>2, <2>1, LeaveFacts
  <2>4. registered' \subseteq Sockets /\ UNCHANGED <<outcome, answer, dropped>>
        /\ incidents' \subseteq Happenings
    BY <1>2, EipTypes DEF RegisterReply, Happenings
  <2>. QED
    BY <2>2, <2>3, <2>4, EipTypes, EipTypesNext
<1>3. CASE /\ Leave([eip EXCEPT !.state = 0]) /\ DataEventAndSend(s, <<>>)
           /\ incidents' = incidents \cup {"refused"} /\ UNCHANGED registered
  <2>1. [eip EXCEPT !.state = 0] \in Layers
    <3>1. 0 \in 0 .. 2
      OBVIOUS
    <3>. QED
      BY <1>1, <3>1, LayerUpdates
  <2>2. eip' \in Layers /\ eip'.hand = <<>>
    BY <1>3, <2>1, LeaveFacts
  <2>3. <<>> \in Seq(TcpMessages)
    OBVIOUS
  <2>4. TcpTypeOK' /\ (Sound => Sound' /\ s = opened)
    BY <1>1, <1>3, <2>3, DataEventAndSendTcp
  <2>5. registered' \subseteq Sockets /\ UNCHANGED <<outcome, answer, dropped>>
        /\ incidents' \subseteq Happenings
    BY <1>3, EipTypes DEF RegisterReply, Happenings
  <2>. QED
    BY <2>2, <2>4, <2>5, EipTypes, EipTypesNext
<1>. QED
  BY <1>2, <1>3 DEF RegisterReply, Started

LEMMA RejectType ==
  ASSUME TypeOK, NEW calls, Reject(calls)
  PROVE  outcome' \in [Calls -> {"idle", "pending", "answered", "rejected"}]
BY DEF TypeOK, Reject

LEMMA RejectAllType ==
  ASSUME TypeOK, RejectAll
  PROVE  outcome' \in [Calls -> {"idle", "pending", "answered", "rejected"}]
BY RejectType DEF RejectAll

LEMMA RRDataReplyType ==
  ASSUME TypeOK, NEW s \in Sockets, RRDataReply(s)
  PROVE  TypeOK' /\ (Sound => Sound' /\ s = opened)
<1>. DEFINE m == wire[s][1]
            r == eip.routes[m.context]
            c == [eip EXCEPT !.routes[m.context] = None]
<1>1. /\ TcpTypeOK /\ eip \in Layers /\ eip.hand = <<>>
      /\ m.context \in Contexts /\ m.request \in Requests
  BY EipTypes, ReplyFacts DEF RRDataReply
<1>2. c \in Layers /\ c.hand = <<>>
  <2>. HIDE DEF m
  <2>1. c \in Layers
    BY <1>1, LayerUpdates
  <2>. QED
    BY <1>1, <2>1 DEF Layers
<1>3. DataEventAndSend(s, <<>>) /\ UNCHANGED <<registered, dropped, incidents>>
      /\ \/ /\ Leave(c)
            /\ \/ /\ r \in Pending
                  /\ outcome' = [outcome EXCEPT ![r] = "answered"]
                  /\ answer' = [answer EXCEPT ![r] = m.request]
               \/ UNCHANGED <<outcome, answer>>
         \/ Leave(Cleanup(c)) /\ RejectAll /\ UNCHANGED answer
  BY DEF RRDataReply
<1>. HIDE DEF c, r, m
<1>4. TcpTypeOK' /\ (Sound => Sound' /\ s = opened)
  <2>1. <<>> \in Seq(TcpMessages)
    OBVIOUS
  <2>. QED
    BY <1>1, <1>3, <2>1, DataEventAndSendTcp
<1>5. eip' \in Layers /\ eip'.hand = <<>>
  BY <1>2, <1>3, LeaveFacts, CleanupFacts
<1>6. outcome' \in [Calls -> {"idle", "pending", "answered", "rejected"}]
  BY <1>3, RejectAllType DEF TypeOK
<1>7. answer' \in [Requests -> Requests \cup {None}]
  BY <1>1, <1>3 DEF TypeOK
<1>. QED
  BY <1>3, <1>4, <1>5, <1>6, <1>7 DEF TypeOK, Layers

LEMMA UnitDataReplyType ==
  ASSUME TypeOK, NEW s \in Sockets, UnitDataReply(s)
  PROVE  TypeOK' /\ (Sound => Sound' /\ s = opened)
<1>. DEFINE r == wire[s][1].request
<1>1. TcpTypeOK /\ r \in Requests
  BY EipTypes, ReplyFacts DEF UnitDataReply
<1>2. DataEventAndSend(s, <<>>) /\ UNCHANGED <<eip, registered, incidents>>
      /\ \/ /\ \/ /\ outcome' = [outcome EXCEPT ![r] = "answered"]
                  /\ answer' = [answer EXCEPT ![r] = r]
               \/ UNCHANGED <<outcome, answer>>
            /\ UNCHANGED dropped
         \/ dropped' = dropped \cup {r} /\ UNCHANGED <<outcome, answer>>
  BY DEF UnitDataReply
<1>. HIDE DEF r
<1>3. TcpTypeOK' /\ (Sound => Sound' /\ s = opened)
  <2>1. <<>> \in Seq(TcpMessages)
    OBVIOUS
  <2>. QED
    BY <1>1, <1>2, <2>1, DataEventAndSendTcp
<1>4. outcome' \in [Calls -> {"idle", "pending", "answered", "rejected"}]
  BY <1>2 DEF TypeOK
<1>5. answer' \in [Requests -> Requests \cup {None}]
  <2>1. answer' = answer \/ answer' = [answer EXCEPT ![r] = r]
    BY <1>2
  <2>2. answer \in [Requests -> Requests \cup {None}] /\ r \in Requests
    BY <1>1 DEF TypeOK
  <2>. QED
    BY <2>1, <2>2
<1>6. dropped' \subseteq Requests
  <2>1. dropped' = dropped \/ dropped' = dropped \cup {r}
    BY <1>2
  <2>2. dropped \subseteq Requests /\ r \in Requests
    BY <1>1, EipTypes
  <2>. QED
    BY <2>1, <2>2
<1>7. UNCHANGED <<eip, registered, incidents>>
  BY <1>2
<1>. QED
  BY <1>3, <1>4, <1>5, <1>6, <1>7, EipTypes, EipTypesNext

LEMMA ListReplyType ==
  ASSUME TypeOK, NEW s \in Sockets, ListReply(s)
  PROVE  TypeOK' /\ (Sound => Sound' /\ s = opened)
<1>. DEFINE settled == {v \in eip.waiting : Command[v] = Command[wire[s][1].user]}
            w == eip.waiting \ settled
<1>1. TcpTypeOK /\ eip \in Layers /\ eip.hand = <<>>
  BY EipTypes
<1>2. DataEventAndSend(s, <<>>) /\ Leave([eip EXCEPT !.waiting = w])
      /\ UNCHANGED <<registered, answer, dropped, incidents>>
      /\ \E result \in {"answered", "rejected"} :
           outcome' = [r \in Calls |-> IF r \in settled THEN result ELSE outcome[r]]
  BY DEF ListReply
<1>3. w \in SUBSET Users
  BY <1>1 DEF Layers
<1>. HIDE DEF settled, w
<1>4. [eip EXCEPT !.waiting = w] \in Layers
  BY <1>1, <1>3, LayerUpdates
<1>5. eip' \in Layers /\ eip'.hand = <<>>
  BY <1>2, <1>4, LeaveFacts
<1>6. TcpTypeOK' /\ (Sound => Sound' /\ s = opened)
  <2>1. <<>> \in Seq(TcpMessages)
    OBVIOUS
  <2>. QED
    BY <1>1, <1>2, <2>1, DataEventAndSendTcp
<1>7. outcome' \in [Calls -> {"idle", "pending", "answered", "rejected"}]
  <2>1. outcome \in [Calls -> {"idle", "pending", "answered", "rejected"}]
    BY EipTypes
  <2>2. PICK result \in {"answered", "rejected"} :
          outcome' = [r \in Calls |-> IF r \in settled THEN result ELSE outcome[r]]
    BY <1>2
  <2>. QED
    BY <2>1, <2>2
<1>8. UNCHANGED <<registered, answer, dropped, incidents>>
  BY <1>2
<1>. QED
  BY <1>5, <1>6, <1>7, <1>8, EipTypes, EipTypesNext

LEMMA SendStepType ==
  ASSUME TypeOK, SendStep
  PROVE  TypeOK' /\ (Sound /\ due # "destroy" => Sound')
<1>1. PICK c \in Layers, priority \in BOOLEAN :
        Sends(c, priority) /\ Leave(c) /\ SendEach(c.hand, priority, wire)
  BY DEF SendStep
<1>2. c.hand \in Seq(TcpMessages)
  BY <1>1, HandedMessages, MessagesAssumption
<1>3. TcpTypeOK' /\ (Sound /\ due # "destroy" => Sound')
  <2>1. TcpTypeOK /\ due' = due /\ due' \in CloseSteps
    BY DEF SendStep, TypeOK, TcpTypeOK
  <2>. QED
    BY <1>1, <1>2, <2>1, SendEachTcp
<1>4. eip' \in Layers /\ eip'.hand = <<>>
  BY <1>1, LeaveFacts
<1>5. /\ UNCHANGED <<registered, answer, dropped>> /\ incidents' \subseteq Happenings
      /\ outcome' \in [Calls -> {"idle", "pending", "answered", "rejected"}]
  BY EipTypes DEF SendStep, Recorded, Happenings
<1>. QED
  BY <1>3, <1>4, <1>5, EipTypes, EipTypesNext

LEMMA FailType ==
  ASSUME TypeOK, NEW s \in Sockets, Fail(s)
  PROVE  TypeOK' /\ (Sound => Sound' /\ s = opened)
<1>1. PICK after \in Phases : SocketFailure(s, after)
  BY DEF Fail
<1>2. TcpTypeOK' /\ (Sound => Sound' /\ s = opened)
  BY <1>1, SocketFailureTcp DEF TypeOK
<1>3. eip' \in Layers /\ eip'.hand = <<>>
  BY EipTypes, CleanupFacts, LeaveFacts DEF Fail
<1>4. outcome' \in [Calls -> {"idle", "pending", "answered", "rejected"}]
  BY RejectAllType DEF Fail
<1>5. incidents' \subseteq Happenings /\ registered' \subseteq registered
      /\ UNCHANGED <<answer, dropped>>
  BY DEF Fail, EndSessions, Happenings
<1>. QED
  BY <1>2, <1>3, <1>4, <1>5, EipTypes, EipTypesNext

(* The parts of close.                                                       *)
Closes == CloseLayers \/ UpperDisconnects \/ UpperDestroys \/ Disconnects \/ Destroys

(* What disconnect hands to Layer.send.                                      *)
LEMMA UpperDisconnectsSends ==
  ASSUME TypeOK, UpperDisconnects
  PROVE  /\ \E ms \in Seq(Plain) : SendEach(ms, TRUE, wire)
         /\ eip.state = 0 => SendEach(<<>>, TRUE, wire)
         /\ eip.state # 0 => SendEach(<<Unregister(eip)>>, TRUE, wire)
         /\ eip' \in Layers /\ eip'.hand = <<>> /\ eip'.state = 0
         /\ eip'.context = eip.context /\ eip'.routes = eip.routes /\ eip'.queue = eip.queue
<1>1. eip \in Layers /\ 0 \in 0 .. 2
  BY EipTypes
<1>2. Unregister(eip) \in Plain
  BY <1>1, MessageTypes DEF Plain, Unregister
<1>3. /\ eip.state = 0 => SendEach(<<>>, TRUE, wire)
      /\ eip.state # 0 => SendEach(<<Unregister(eip)>>, TRUE, wire)
  BY DEF UpperDisconnects
<1>4. \E ms \in Seq(Plain) : SendEach(ms, TRUE, wire)
  <2>1. <<>> \in Seq(Plain) /\ <<Unregister(eip)>> \in Seq(Plain)
    BY <1>2
  <2>. QED
    BY <1>3, <2>1
<1>. DEFINE c == [eip EXCEPT !.state = 0]
<1>5. c \in Layers /\ c.state = 0 /\ c.context = eip.context /\ c.routes = eip.routes
      /\ c.queue = eip.queue
  <2>1. c \in Layers
    BY <1>1, LayerUpdates
  <2>. QED
    BY <1>1, <2>1 DEF Layers
<1>6. Leave(c)
  BY DEF UpperDisconnects
<1>. HIDE DEF c
<1>. QED
  BY <1>3, <1>4, <1>5, <1>6, LeaveFacts

LEMMA ClosesType ==
  ASSUME TypeOK, Closes
  PROVE  TypeOK' /\ (Sound => Sound')
<1>1. TcpTypeOK /\ eip \in Layers
  BY EipTypes
<1>2. CASE CloseLayers
  <2>1. "upper disconnect" \in CloseSteps \ {"destroy"}
    BY DEF CloseSteps
  <2>2. TcpTypeOK' /\ (Sound => Sound')
    BY <1>1, <1>2, <2>1, CloseCalledTcp DEF CloseLayers
  <2>3. outcome' \in [Calls -> {"idle", "pending", "answered", "rejected"}]
    BY <1>2, RejectType DEF CloseLayers
  <2>. QED
    BY <1>2, <2>2, <2>3 DEF CloseLayers, TypeOK
<1>3. CASE UpperDisconnects
  <2>1. PICK ms \in Seq(Plain) : SendEach(ms, TRUE, wire)
    BY <1>3, UpperDisconnectsSends
  <2>2. ms \in Seq(TcpMessages)
    BY SeqMonotonic, MessagesAssumption DEF Plain
  <2>3. due = "upper disconnect" /\ due' = "upper destroy" /\ due' \in CloseSteps
    BY <1>3 DEF UpperDisconnects, CloseSteps
  <2>4. TcpTypeOK' /\ (Sound => Sound')
    BY <1>1, <2>1, <2>2, <2>3, SendEachTcp
  <2>5. UNCHANGED <<registered, outcome, answer, dropped, incidents>>
        /\ eip' \in Layers /\ eip'.hand = <<>>
    BY <1>3, UpperDisconnectsSends DEF UpperDisconnects
  <2>. QED
    BY <2>4, <2>5, EipTypes, EipTypesNext
<1>4. CASE UpperDestroys
  <2>1. /\ UNCHANGED <<tcpState, opened, phase, listening, tcpQueue, ticks, wire, closing>>
        /\ due' = "disconnect" /\ due = "upper destroy"
        /\ UNCHANGED <<registered, answer, dropped, incidents>>
    BY <1>4 DEF UpperDestroys
  <2>2. TcpTypeOK' /\ (Sound => Sound')
    BY <1>1, <2>1 DEF TcpTypeOK, Sound, CloseSteps
  <2>3. outcome' \in [Calls -> {"idle", "pending", "answered", "rejected"}]
    BY <1>4, RejectType DEF UpperDestroys
  <2>4. eip' \in Layers /\ eip'.hand = <<>>
    BY <1>4, EipTypes, CleanupFacts, LeaveFacts DEF UpperDestroys
  <2>. QED
    BY <2>1, <2>2, <2>3, <2>4, EipTypes, EipTypesNext
<1>5. CASE Disconnects
  BY <1>1, <1>5, CloseDisconnectsTcp DEF Disconnects, eipVars, TypeOK
<1>6. CASE Destroys
  BY <1>1, <1>6, CloseDestroysTcp DEF Destroys, EndSessions, TypeOK
<1>. QED
  BY <1>2, <1>3, <1>4, <1>5, <1>6 DEF Closes

(* Every step keeps the types and the agreement of TCP with its sockets.     *)
LEMMA NextSockets == TypeOK /\ SocketInv /\ [Next]_vars => TypeOK' /\ SocketInv'
<1>. DEFINE Goal == TypeOK' /\ (~Strayed' => Sound')
<1>. SUFFICES ASSUME TypeOK, SocketInv, [Next]_vars PROVE Goal
  BY DEF SocketInv
<1>1. ASSUME Strayed => Strayed' PROVE ~Strayed' => Sound
  BY <1>1 DEF SocketInv
<1>2. ASSUME SendStep PROVE Goal
  <2>1. (Strayed => Strayed') /\ (due = "destroy" => Strayed')
    BY <1>2 DEF SendStep, Recorded, Strayed
  <2>. QED
    BY <1>1, <1>2, <2>1, SendStepType
<1>3. CASE Tick
  BY <1>1, <1>3, SendTickTcp DEF Tick, eipVars, TypeOK, Strayed
<1>4. ASSUME NEW s \in Sockets, Replies(s) PROVE Goal
  <2>1. Strayed => Strayed'
    BY <1>4 DEF Replies, RegisterReply, RRDataReply, UnitDataReply, ListReply, Strayed
  <2>. QED
    BY <1>1, <1>4, <2>1, RegisterReplyType, RRDataReplyType, UnitDataReplyType, ListReplyType
    DEF Replies
<1>5. ASSUME NEW s \in Sockets, TakeSilently(s) PROVE Goal
  <2>1. TcpTypeOK' /\ (Sound => Sound')
    BY <1>5, TakeSilentlyTcp
  <2>2. registered' \subseteq registered /\ UNCHANGED <<eip, outcome, answer, dropped, incidents>>
    BY <1>5 DEF TakeSilently
  <2>. QED
    BY <1>1, <2>1, <2>2 DEF TypeOK, Strayed
<1>6. ASSUME NEW s \in Sockets, Connects(s) PROVE Goal
  BY <1>1, <1>6, ConnectEventTcp DEF Connects, eipVars, TypeOK, Strayed
<1>7. ASSUME NEW s \in Sockets, Fail(s) PROVE Goal
  <2>1. Strayed => Strayed'
    BY <1>7 DEF Fail, Strayed
  <2>. QED
    BY <1>1, <1>7, <2>1, FailType
<1>8. ASSUME NEW s \in Sockets, SocketClosed(s) PROVE Goal
  BY <1>1, <1>8, CloseEventTcp DEF SocketClosed, eipVars, TypeOK, Strayed
<1>9. ASSUME NEW s \in Sockets, Ended(s) PROVE Goal
  BY <1>1, <1>9, EndCallbackTcp DEF Ended, EndSessions, TypeOK, Strayed
<1>10. CASE Closes
  <2>1. incidents' = incidents
    BY <1>10 DEF Closes, CloseLayers, UpperDisconnects, UpperDestroys, Disconnects, Destroys,
                 eipVars
  <2>. QED
    BY <1>1, <1>10, <2>1, ClosesType DEF Strayed
<1>11. CASE UNCHANGED vars
  BY <1>1, <1>11 DEF vars, tcpVars, eipVars, TypeOK, TcpTypeOK, Sound, Strayed
<1>. QED
  BY <1>2, <1>3, <1>4, <1>5, <1>6, <1>7, <1>8, <1>9, <1>10, <1>11, IssueSends, UserRequestSends,
     ConnectCalledSends, NextTickSends DEF Next, Closes

(* Every variable has its type.                                              *)
THEOREM EipSessionTypes == Spec => [](TypeOK /\ SocketInv)
<1>1. Init => TypeOK /\ SocketInv
  BY InitSockets DEF SocketInv
<1>. QED
  BY <1>1, NextSockets, PTL DEF Spec

-----------------------------------------------------------------------------
(* Messages that may be under way on the connection there is: those of the   *)
(* layer above belong to a session that the device keeps on it.              *)
InSessions ==
  {m \in Messages : /\ m.kind # "unregister"
                    /\ m.kind \in {"rr", "unit"} => m.session = opened /\ opened \in registered}

(* The layer's disconnect is behind it, and TCP's is not.                    *)
Written == due \in {"upper destroy", "disconnect"}

(* A connection on which the UnregisterSession of a close may be written.    *)
Unregisters == (Written /\ tcpState = Connected) \/ tcpState = Disconnecting \/ due = "destroy"

(* UnregisterSession is the last message there, and all before it is in      *)
(* session.                                                                  *)
LastUnregisters ==
  \A s \in Sockets : \A i \in 1 .. Len(wire[s]) :
    wire[s][i] \in InSessions \/ (i = Len(wire[s]) /\ wire[s][i].kind = "unregister")

Called == "called while closing" \in incidents

(* Before a close nothing urgent waits on an open connection, and on one     *)
(* under way at most the RegisterSession the layer waits for, so that        *)
(* UnregisterSession, when a close comes, is the last message written on a   *)
(* connection, unless the program calls; everything before it, and all that  *)
(* waits, is in session; and so is the layer.                                *)
InOrder ==
  /\ tcpState = Disconnected /\ due # "destroy" => tcpQueue = EmptyQueue
  /\ tcpState \in {Connecting, Connected} /\ ~Written => Carries(InSessions)
  /\ Unregisters => Called \/ LastUnregisters
  /\ tcpState = Connected /\ ~Written => tcpQueue.priority = <<>>
  /\ tcpState = Connecting /\ ~Written =>
       tcpQueue.priority = <<>> \/ (eip.state = 1 /\ tcpQueue.priority = <<Register>>)
  /\ eip.state = 2 =>
       tcpState = Connected /\ ~Written /\ opened \in registered /\ eip.session = opened

Late == "registered late" \in incidents

SessionInv == ~Late /\ ~Strayed => InOrder

-----------------------------------------------------------------------------
LEMMA WiresEmpty ==
  ASSUME TypeOK, Sound, tcpState \in {Disconnected, Connecting}, due # "destroy"
  PROVE  \A s \in Sockets : wire[s] = <<>>
<1>1. PhaseIn(tcpState) \in {"dead", "connecting"}
  BY DEF PhaseIn, Disconnected, Disconnecting, Connecting, Connected
<1>2. ASSUME NEW s \in Sockets PROVE phase[s] \in {"unused", "dead", "connecting"}
  <2>1. s # 0
    BY DEF Sockets
  <2>. QED
    BY <1>1, <2>1 DEF Sound
<1>. QED
  BY <1>2 DEF Sound

LEMMA LiveSocket ==
  ASSUME TypeOK, Sound, NEW s \in Sockets, phase[s] \notin {"unused", "dead"}, due # "destroy"
  PROVE  /\ s = opened
         /\ phase[s] = "connecting" => tcpState = Connecting
         /\ phase[s] = "open" => tcpState = Connected
         /\ phase[s] = "ending" => tcpState = Disconnecting
         /\ phase[s] # "ended"
<1>1. s = opened /\ s # 0
  BY DEF Sound, Sockets
<1>2. phase[s] = PhaseIn(tcpState) /\ tcpState \in TcpStates
  BY <1>1 DEF Sound, TypeOK, TcpTypeOK
<1>. QED
  BY <1>1, <1>2 DEF PhaseIn, TcpStates, Disconnected, Disconnecting, Connecting, Connected

LEMMA EmptyInOrder ==
  ASSUME tcpState' = Disconnected, tcpQueue' = EmptyQueue, eip'.state # 2, due' # "destroy"
  PROVE  InOrder'
BY DEF InOrder, Unregisters, Disconnected, Disconnecting, Connecting, Connected

LEMMA StatesDiffer ==
  /\ 0 # 2 /\ 1 # 2 /\ 0 # 1
  /\ Disconnected # Connected /\ Disconnecting # Connected /\ Connecting # Connected
  /\ Disconnected # Connecting /\ Disconnecting # Connecting /\ Disconnecting # Disconnected
BY DEF Disconnected, Disconnecting, Connecting, Connected

(* When no UnregisterSession is written, however the layers were called.     *)
LEMMA NotUnregistering ==
  /\ tcpState \in {Connecting, Connected} /\ ~Written /\ due # "destroy" => ~Unregisters
  /\ tcpState \in {Disconnected, Connecting} /\ due # "destroy" => ~Unregisters
BY StatesDiffer DEF Unregisters

LEMMA FirstOf ==
  ASSUME NEW M, NEW u \in M, NEW n \in Seq(M)
  PROVE  SubSeq(<<u>> \o n, 1, 1) = <<u>>
<1>. DEFINE t == <<u>> \o n
<1>1. <<u>> \in Seq(M) /\ Len(<<u>>) = 1 /\ <<u>>[1] = u
  OBVIOUS
<1>2. t \in Seq(M) /\ t[1] = u
  BY <1>1, ConcatProperties
<1>. HIDE DEF t
<1>3. /\ SubSeq(t, 1, 1) \in Seq(M) /\ Len(SubSeq(t, 1, 1)) = 1
      /\ SubSeq(t, 1, 1)[1] = t[1]
  <2>1. \A i \in 1 .. 1 : t[i] \in M
    BY <1>2
  <2>2. 1 \in Int /\ 1 <= 1 /\ 1 - 1 + 1 = 1 /\ 1 \in 1 .. 1 /\ 1 + 1 - 1 = 1
    OBVIOUS
  <2>. QED
    BY <2>1, <2>2, SubSeqProperties
<1>4. \A i \in 1 .. 1 : SubSeq(t, 1, 1)[i] = <<u>>[i]
  BY <1>1, <1>2, <1>3
<1>5. SubSeq(t, 1, 1) = <<u>>
  BY <1>1, <1>3, <1>4, SeqEqual
<1>. QED
  BY <1>5 DEF t

(* What is written before the UnregisterSession is in session.               *)
LEMMA AllInSession ==
  ASSUME NEW w \in [Sockets -> Seq(InSessions)], wire = w
  PROVE  LastUnregisters
BY ElementOfSeq DEF LastUnregisters

LEMMA SendsLate ==
  ASSUME TypeOK, InOrder, SendStep, Written
  PROVE  InOrder'
<1>1. PICK c \in Layers, priority \in BOOLEAN :
        Sends(c, priority) /\ Leave(c) /\ SendEach(c.hand, priority, wire)
  BY DEF SendStep
<1>2. c.hand \in Seq(TcpMessages) /\ TcpTypeOK
  BY <1>1, HandedMessages, MessagesAssumption DEF TypeOK
<1>3. eip'.state # 2
  <2>1. eip.state # 2
    BY DEF InOrder
  <2>. QED
    BY <1>1, <2>1, LeaveFacts DEF Sends
<1>4. Written' /\ Called' /\ due' # "destroy"
  BY DEF SendStep, Recorded, Written, Called, StepsAfterDisconnect, AnyStep, CloseSteps
<1>5. tcpState' = Disconnected => tcpQueue' = EmptyQueue
  <2>1. ASSUME tcpState' = Disconnected PROVE c.hand = <<>> /\ tcpState = Disconnected
    BY <1>1, <2>1 DEF SendEach, Disconnected, Connecting
  <2>2. c.hand = <<>> => tcpQueue' = tcpQueue
    BY <1>1, <1>2, SendEachQueue
  <2>. QED
    BY <2>1, <2>2 DEF InOrder, Written
<1>. QED
  BY <1>3, <1>4, <1>5 DEF InOrder

LEMMA SendStepInOrder ==
  ASSUME TypeOK, Sound, InOrder, SendStep, due # "destroy"
  PROVE  InOrder'
<1>0. CASE Written
  BY <1>0, SendsLate
<1>. SUFFICES ASSUME ~Written PROVE InOrder'
  BY <1>0
<1>1. PICK c \in Layers, priority \in BOOLEAN :
        Sends(c, priority) /\ Leave(c) /\ SendEach(c.hand, priority, wire)
  BY DEF SendStep
<1>2. c.hand \in Seq(TcpMessages) /\ TcpTypeOK
  BY <1>1, HandedMessages, MessagesAssumption DEF TypeOK
<1>3. /\ eip'.state = c.state /\ eip'.session = eip.session /\ registered' = registered
      /\ ~Written' /\ due' # "destroy" /\ (Called => Called')
  BY <1>1, LeaveFacts DEF Sends, SendStep, Recorded, Written, Called
<1>4. CASE c.hand = <<>>
  <2>1. UNCHANGED <<tcpState, opened, tcpQueue, wire>>
    BY <1>1, <1>2, <1>4, SendEachQueue
  <2>2. c.state = eip.state
    <3>1. <<Register>> # <<>>
      OBVIOUS
    <3>. QED
      BY <1>1, <1>4, <3>1 DEF Sends
  <2>3. InSessions' = InSessions
    BY <1>3, <2>1 DEF InSessions
  <2>. QED
    BY <1>3, <2>1, <2>2, <2>3 DEF InOrder, Carries, Unregisters, LastUnregisters
<1>5. CASE c.hand # <<>> /\ tcpState = Disconnected
  <2>1. tcpState' = Connecting /\ wire' = wire
        /\ tcpQueue' = EnqueueAll(EmptyQueue, c.hand, priority)
    BY <1>1, <1>2, <1>5, SendEachQueue DEF SendEach, InOrder, Disconnected, Connected
  <2>2. eip.state # 2
    BY <1>5 DEF InOrder, Disconnected, Connected
  <2>3. \/ priority /\ c.hand = <<Register>> /\ c.state = 1
        \/ ~priority /\ c.state # 2 /\ c.hand \in Seq(Kinds({"list"}))
    BY <1>1, <2>2 DEF Sends
  <2>4. c.hand \in Seq(Kinds({"list", "register"}))
    <3>1. CASE c.hand = <<Register>>
      <4>1. Register \in Kinds({"list", "register"})
        BY <1>1, MessageTypes DEF Kinds, Register
      <4>. QED
        BY <3>1, <4>1
    <3>2. CASE c.hand \in Seq(Kinds({"list"}))
      BY <3>2, SeqMonotonic DEF Kinds
    <3>. QED
      BY <2>3, <3>1, <3>2
  <2>5. tcpQueue' \in Queue(Kinds({"list", "register"}))
    <3>1. EmptyQueue \in Queue(Kinds({"list", "register"})) /\ 0 <= Len(c.hand)
      BY <2>4, LenProperties DEF EmptyQueue, Queue
    <3>. QED
      BY <2>1, <2>4, <3>1, EnqueueAllFacts
  <2>6. Carries(Kinds({"list", "register"}))'
    <3>1. \A s \in Sockets : wire[s] = <<>>
      BY <1>5, WiresEmpty
    <3>2. wire' \in [Sockets -> Seq(Kinds({"list", "register"}))]
      BY <1>2, <2>1, <3>1, EmptySeq DEF TcpTypeOK
    <3>. QED
      BY <2>5, <3>2 DEF Carries, Kinds
  <2>7. Kinds({"list", "register"}) \subseteq InSessions'
    BY DEF Kinds, InSessions
  <2>8. Carries(InSessions)'
    BY <2>6, <2>7, SeqMonotonic DEF Carries, Queue, Kinds
  <2>9. tcpQueue'.priority = <<>> \/ (c.state = 1 /\ tcpQueue'.priority = <<Register>>)
    <3>1. CASE priority /\ c.hand = <<Register>> /\ c.state = 1
      <4>1. <<>> \o <<Register>> = <<Register>>
        OBVIOUS
      <4>. QED
        BY <2>1, <3>1, <4>1 DEF EnqueueAll, EmptyQueue
    <3>2. CASE ~priority
      BY <2>1, <3>2 DEF EnqueueAll, EmptyQueue
    <3>. QED
      BY <2>3, <3>1, <3>2
  <2>. QED
    BY <1>3, <2>1, <2>3, <2>8, <2>9
    DEF InOrder, Unregisters, Disconnected, Disconnecting, Connecting, Connected
<1>6. CASE c.hand # <<>> /\ tcpState = Connecting
  <2>1. /\ UNCHANGED <<tcpState, opened, wire>>
        /\ tcpQueue' = EnqueueAll(tcpQueue, c.hand, priority)
    BY <1>1, <1>2, <1>6, SendEachQueue DEF SendEach, Disconnected, Connecting, Connected
  <2>2. eip.state # 2 /\ Carries(InSessions)
    BY <1>6 DEF InOrder, Connecting, Connected
  <2>3. \/ priority /\ c.hand = <<Register>> /\ c.state = 1 /\ eip.state = 0
        \/ ~priority /\ c.state = eip.state /\ c.hand \in Seq(Kinds({"list"}))
    BY <1>1, <2>2 DEF Sends
  <2>4. c.hand \in Seq(InSessions)
    <3>1. CASE c.hand = <<Register>>
      <4>1. Register \in InSessions
        BY <1>1, MessageTypes DEF InSessions, Register
      <4>. QED
        BY <3>1, <4>1
    <3>2. CASE c.hand \in Seq(Kinds({"list"}))
      <4>1. Kinds({"list"}) \subseteq InSessions
        BY DEF Kinds, InSessions
      <4>. QED
        BY <3>2, <4>1, SeqMonotonic
    <3>. QED
      BY <2>3, <3>1, <3>2
  <2>5. tcpQueue' \in Queue(InSessions)
    <3>1. 0 <= Len(c.hand)
      BY <2>4, LenProperties
    <3>. QED
      BY <2>1, <2>2, <2>4, <3>1, EnqueueAllFacts DEF Carries
  <2>6. InSessions' = InSessions
    BY <1>3, <2>1 DEF InSessions
  <2>7. Carries(InSessions)'
    BY <2>1, <2>2, <2>5, <2>6 DEF Carries
  <2>8. tcpQueue'.priority = <<>> \/ (c.state = 1 /\ tcpQueue'.priority = <<Register>>)
    <3>1. tcpQueue = [priority |-> tcpQueue.priority, normal |-> tcpQueue.normal]
      BY <1>2 DEF TcpTypeOK, Queue
    <3>2. tcpQueue.priority = <<>> \/ (eip.state = 1 /\ tcpQueue.priority = <<Register>>)
      BY <1>6 DEF InOrder
    <3>3. CASE priority /\ c.hand = <<Register>> /\ c.state = 1 /\ eip.state = 0
      <4>1. <<>> \o <<Register>> = <<Register>> /\ tcpQueue.priority = <<>>
        BY <3>2, <3>3
      <4>. QED
        BY <2>1, <3>1, <3>3, <4>1 DEF EnqueueAll
    <3>4. CASE ~priority /\ c.state = eip.state
      BY <2>1, <3>1, <3>2, <3>4 DEF EnqueueAll
    <3>. QED
      BY <2>3, <3>3, <3>4
  <2>. QED
    BY <1>3, <1>6, <2>1, <2>2, <2>3, <2>7, <2>8
    DEF InOrder, Unregisters, Disconnected, Disconnecting, Connecting, Connected
<1>7. CASE c.hand # <<>> /\ tcpState = Connected
  <2>1. /\ UNCHANGED <<tcpState, opened>>
        /\ tcpQueue'.priority = <<>>
    BY <1>1, <1>2, <1>7, SendEachQueue DEF InOrder
  <2>2. InSessions' = InSessions
    BY <1>3, <2>1 DEF InSessions
  <2>3. c.hand \in Seq(InSessions)
    <3>1. CASE c.hand = <<Register>>
      <4>1. Register \in InSessions
        BY <1>1, MessageTypes DEF InSessions, Register
      <4>. QED
        BY <3>1, <4>1
    <3>2. CASE c.hand \in Seq(Kinds({"list"}))
      <4>1. Kinds({"list"}) \subseteq InSessions
        BY DEF Kinds, InSessions
      <4>. QED
        BY <3>2, <4>1, SeqMonotonic
    <3>3. CASE eip.state = 2 /\ c.hand \in Seq(OfSession(eip.session))
      <4>1. OfSession(eip.session) \subseteq InSessions
        BY <3>3 DEF InOrder, OfSession, InSessions
      <4>. QED
        BY <3>3, <4>1, SeqMonotonic
    <3>. QED
      BY <1>1, <3>1, <3>2, <3>3 DEF Sends
  <2>4. Carries(InSessions)'
    <3>1. tcpQueue \in Queue(InSessions) /\ wire \in [Sockets -> Seq(InSessions)]
      BY <1>7 DEF InOrder, Carries
    <3>2. tcpQueue' \in Queue(InSessions) /\ wire' \in [Sockets -> Seq(InSessions)]
      BY <1>1, <1>2, <2>3, <3>1, SendEachType
    <3>. QED
      BY <2>2, <3>2 DEF Carries
  <2>5. c.state = 2 => eip.state = 2
    BY <1>1 DEF Sends
  <2>. QED
    BY <1>3, <1>7, <2>1, <2>4, <2>5
    DEF InOrder, Unregisters, Disconnected, Disconnecting, Connecting, Connected
<1>8. CASE c.hand # <<>> /\ tcpState = Disconnecting
  <2>1. UNCHANGED <<tcpState, opened, wire>>
    BY <1>1, <1>2, <1>8, SendEachQueue DEF SendEach, Disconnected, Disconnecting, Connected
  <2>2. eip.state # 2
    BY <1>8 DEF InOrder, Disconnecting, Connected
  <2>3. c.state # 2
    BY <1>1, <2>2 DEF Sends
  <2>4. InSessions' = InSessions
    BY <1>3, <2>1 DEF InSessions
  <2>. QED
    BY <1>3, <1>8, <2>1, <2>3, <2>4
    DEF InOrder, Unregisters, LastUnregisters, Disconnected, Disconnecting, Connecting, Connected
<1>. QED
  BY <1>2, <1>4, <1>5, <1>6, <1>7, <1>8 DEF TcpTypeOK, TcpStates

(* A message written on an open connection leaves nothing urgent.            *)
LEMMA SendNextQueue ==
  ASSUME NEW M, NEW q \in Queue(M), NEW state, NEW t, SendNext(state, q, t), state = Connected
  PROVE  /\ UNCHANGED <<opened, listening>> /\ tcpState' = Connected
         /\ q.priority = <<>> => tcpQueue'.priority = <<>>
         /\ q.priority = <<Register>> => tcpQueue'.priority = <<>>
<1>1. q.priority \in Seq(M) /\ q.normal \in Seq(M)
      /\ q = [priority |-> q.priority, normal |-> q.normal]
  BY DEF Queue
<1>2. UNCHANGED <<opened, listening>> /\ tcpState' = Connected
      /\ (tcpQueue' = Dequeue(q) \/ (~HasRequest(q) /\ tcpQueue' = q))
  BY DEF SendNext, Disconnected, Disconnecting, Connecting, Connected
<1>3. Tail(<<Register>>) = <<>> /\ <<Register>> # <<>>
  OBVIOUS
<1>. QED
  BY <1>1, <1>2, <1>3 DEF Dequeue, HasRequest

LEMMA TickInOrder ==
  ASSUME TypeOK, Sound, InOrder, Tick
  PROVE  InOrder'
<1>1. /\ SendTick /\ UNCHANGED eipVars /\ SendNext(tcpState, tcpQueue, ticks - 1)
      /\ due = "nothing" /\ due' = "nothing" /\ ~Written /\ ~Written'
  BY DEF Tick, SendTick, Written
<1>2. tcpQueue \in Queue(TcpMessages) /\ tcpState \in TcpStates
  BY DEF TypeOK, TcpTypeOK
<1>3. CASE tcpState = Connected
  <2>1. opened' = opened /\ tcpState' = tcpState /\ tcpQueue'.priority = <<>>
    BY <1>1, <1>2, <1>3, SendNextQueue DEF InOrder
  <2>2. InSessions' = InSessions
    BY <1>1, <2>1 DEF InSessions, eipVars
  <2>3. Carries(InSessions)'
    <3>. DEFINE M == InSessions
    <3>1. Carries(M)
      BY <1>1, <1>3 DEF InOrder
    <3>2. tcpQueue' \in Queue(M) /\ wire' \in [Sockets -> Seq(M)]
      <4>. HIDE DEF M
      <4>. QED
        BY <1>1, <3>1, SendTickCarries DEF Carries
    <3>. QED
      BY <2>2, <3>2 DEF Carries
  <2>. QED
    BY <1>1, <1>3, <2>1, <2>3
    DEF InOrder, Unregisters, eipVars, Disconnected, Disconnecting, Connecting, Connected
<1>4. CASE tcpState = Disconnected
  <2>1. tcpState' = Connecting /\ tcpQueue' = EmptyQueue /\ wire' = wire
    BY <1>1, <1>4
    DEF SendNext, InOrder, Disconnected, Disconnecting, Connecting, Connected
  <2>2. \A s \in Sockets : wire[s] = <<>>
    BY <1>1, <1>4, WiresEmpty
  <2>3. wire' \in [Sockets -> Seq(InSessions')]
    <3>1. wire \in [Sockets -> Seq(TcpMessages)]
      BY DEF TypeOK, TcpTypeOK
    <3>2. <<>> \in Seq(InSessions')
      BY EmptySeq
    <3>. QED
      BY <2>1, <2>2, <3>1, <3>2
  <2>4. Carries(InSessions)' /\ tcpQueue'.priority = <<>>
    BY <2>1, <2>3 DEF Carries, EmptyQueue, Queue
  <2>5. eip'.state # 2
    BY <1>1, <1>4 DEF eipVars, InOrder, Disconnected, Connected
  <2>. QED
    BY <1>1, <2>1, <2>4, <2>5
    DEF InOrder, Unregisters, Disconnected, Disconnecting, Connecting, Connected
<1>5. CASE tcpState \in {Disconnecting, Connecting}
  <2>1. UNCHANGED <<tcpState, opened, tcpQueue, wire>>
    BY <1>1, <1>5
    DEF SendNext, Disconnected, Disconnecting, Connecting, Connected
  <2>. QED
    BY <1>1, <2>1
    DEF InOrder, InSessions, eipVars, Carries, Unregisters, LastUnregisters, Called
<1>. QED
  BY <1>2, <1>3, <1>4, <1>5 DEF TcpStates

LEMMA ConnectsInOrder ==
  ASSUME TypeOK, Sound, InOrder, NEW s \in Sockets, Connects(s)
  PROVE  InOrder'
<1>1. /\ ConnectEvent(s) /\ UNCHANGED eipVars /\ tcpQueue \in Queue(TcpMessages)
      /\ due = "nothing" /\ due' = "nothing" /\ ~Written /\ ~Written'
  BY DEF Connects, ConnectEvent, TypeOK, TcpTypeOK, Written
<1>2. tcpState = Connecting /\ s = opened
  BY <1>1, LiveSocket DEF ConnectEvent
<1>3. SendNext(Connected, tcpQueue, ticks)
  BY <1>1, <1>2 DEF ConnectEvent
<1>4. opened' = opened /\ tcpState' = Connected /\ tcpQueue'.priority = <<>>
  BY <1>1, <1>2, <1>3, SendNextQueue DEF InOrder
<1>5. InSessions' = InSessions
  BY <1>1, <1>4 DEF InSessions, eipVars
<1>6. Carries(InSessions)'
  <2>. DEFINE M == InSessions
  <2>1. Carries(M)
    BY <1>1, <1>2 DEF InOrder
  <2>2. tcpQueue' \in Queue(M) /\ wire' \in [Sockets -> Seq(M)]
    <3>. HIDE DEF M
    <3>. QED
      BY <1>1, <2>1, ConnectEventCarries DEF Carries
  <2>. QED
    BY <1>5, <2>2 DEF Carries
<1>7. eip'.state # 2
  BY <1>1, <1>2 DEF InOrder, eipVars, Connecting, Connected
<1>. QED
  BY <1>1, <1>4, <1>6, <1>7
  DEF InOrder, Unregisters, Disconnected, Disconnecting, Connecting, Connected

(* A message is taken off the wire.                                          *)
LEMMA TakenInOrder ==
  ASSUME TypeOK, Sound, InOrder, NEW s \in Sockets,
         phase[s] \in {"open", "ending", "ended"}, wire[s] # <<>>,
         wire' = [wire EXCEPT ![s] = Tail(@)],
         UNCHANGED <<tcpState, opened, tcpQueue, due>>, Called => Called',
         \/ registered' = registered
         \/ wire[s][1].kind = "unregister",
         eip'.state = eip.state \/ eip'.state = 0,
         eip'.state = 2 => eip'.session = eip.session
  PROVE  InOrder'
<1>1. s = opened /\ (tcpState \in {Connected, Disconnecting} \/ due = "destroy")
  BY LiveSocket DEF Sound
<1>2. wire[s] \in Seq(Messages) /\ wire \in [Sockets -> Seq(Messages)]
  BY MessagesAssumption DEF TypeOK, TcpTypeOK
<1>3. /\ wire'[opened] \in Seq(Messages) /\ wire'[opened] = Tail(wire[opened])
      /\ Len(wire'[opened]) = Len(wire[opened]) - 1
      /\ \A i \in 1 .. Len(wire'[opened]) : wire'[opened][i] = wire[opened][i + 1]
      /\ Len(wire[opened]) \in Nat \ {0}
  BY <1>1, <1>2, HeadTailProperties, EmptySeq
<1>4. CASE tcpState = Connected /\ ~Written /\ due # "destroy"
  <2>1. Carries(InSessions)
    BY <1>4 DEF InOrder
  <2>2. wire[s][1] \in InSessions
    <3>1. Head(wire[s]) \in InSessions
      BY <2>1, HeadTailProperties DEF Carries
    <3>. QED
      BY <1>2, <3>1
  <2>3. registered' = registered
    BY <2>2 DEF InSessions
  <2>4. InSessions' = InSessions
    BY <2>3 DEF InSessions
  <2>5. wire' \in [Sockets -> Seq(InSessions)]
    BY <2>1, TakeOne DEF Carries
  <2>6. Carries(InSessions)'
    BY <2>1, <2>4, <2>5 DEF Carries
  <2>7. ~Unregisters' /\ tcpState' = Connected
    BY <1>4, NotUnregistering DEF Unregisters, Written
  <2>8. tcpQueue'.priority = <<>>
    BY <1>4 DEF InOrder
  <2>9. eip'.state = 2 => eip.state = 2
    OBVIOUS
  <2>10. eip'.state = 2 => ~Written' /\ opened' \in registered' /\ eip'.session = opened'
    BY <1>4, <2>3, <2>9 DEF InOrder, Written
  <2>. QED
    BY <2>6, <2>7, <2>8, <2>10, StatesDiffer DEF InOrder
<1>5. CASE Unregisters
  <2>1. eip'.state # 2 /\ Unregisters' /\ (Written' <=> Written)
        /\ (tcpState \in {Connecting, Connected} => Written)
    <3>1. due = "destroy" => tcpState = Disconnected
      BY DEF Sound
    <3>2. tcpState \in {Connecting, Connected} => Written
      BY <1>5, <3>1 DEF Unregisters, Disconnected, Disconnecting, Connecting, Connected
    <3>3. eip.state # 2
      BY <1>5, <3>1, <3>2
      DEF InOrder, Unregisters, Disconnected, Disconnecting, Connecting, Connected
    <3>4. eip'.state # 2
      BY <3>3
    <3>. QED
      BY <1>5, <3>2, <3>4 DEF Unregisters, Written
  <2>2. ASSUME LastUnregisters PROVE LastUnregisters'
    <3>1. ASSUME NEW i \in 1 .. Len(wire'[s])
          PROVE  \/ wire'[s][i] \in InSessions'
                 \/ i = Len(wire'[s]) /\ wire'[s][i].kind = "unregister"
      <4>1. i + 1 \in 1 .. Len(wire[s]) /\ i + 1 # 1 /\ Len(wire[s]) # 1
            /\ (i + 1 = Len(wire[s]) => i = Len(wire'[s]))
        BY <1>1, <1>3
      <4>2. 1 \in 1 .. Len(wire[s])
        BY <1>1, <1>3
      <4>3. wire[s][1].kind # "unregister"
        BY <2>2, <4>1, <4>2 DEF LastUnregisters, InSessions
      <4>4. InSessions' = InSessions
        BY <4>3 DEF InSessions
      <4>. QED
        BY <1>1, <1>3, <2>2, <4>1, <4>4 DEF LastUnregisters
    <3>2. ASSUME NEW x \in Sockets, x # s, NEW i \in 1 .. Len(wire'[x]) PROVE FALSE
      <4>1. wire'[x] = wire[x] /\ wire[x] = <<>>
        BY <1>1, <1>2, <3>2 DEF Sound
      <4>. QED
        BY <3>2, <4>1
    <3>. QED
      BY <3>1, <3>2 DEF LastUnregisters
  <2>3. tcpState' = Disconnected /\ due' # "destroy" => tcpQueue' = EmptyQueue
    BY DEF InOrder
  <2>. QED
    BY <1>5, <2>1, <2>2, <2>3 DEF InOrder
<1>. QED
  BY <1>1, <1>4, <1>5 DEF Unregisters

(* A reply that makes the layer send nothing takes one message off the wire. *)
LEMMA ReplyTakes ==
  ASSUME TypeOK, NEW s \in Sockets, DataEventAndSend(s, <<>>)
  PROVE  /\ phase[s] \in {"open", "ending", "ended"} /\ wire[s] # <<>>
         /\ wire' = [wire EXCEPT ![s] = Tail(@)]
         /\ UNCHANGED <<tcpState, opened, phase, listening, tcpQueue, ticks, due>>
<1>. DEFINE w == [wire EXCEPT ![s] = Tail(@)]
<1>1. /\ phase[s] \in {"open", "ending", "ended"} /\ wire[s] # <<>> /\ TcpTypeOK /\ due' = due
      /\ SendEach(<<>>, FALSE, w)
  BY DEF DataEventAndSend, TypeOK
<1>. HIDE DEF w
<1>2. wire' = w /\ UNCHANGED <<tcpState, opened, phase, listening, tcpQueue, ticks>>
  <2>. DEFINE ms == <<>>
  <2>1. ms \in Seq(TcpMessages) /\ SendEach(ms, FALSE, w) /\ ms = <<>>
    BY <1>1, EmptySeq
  <2>. HIDE DEF ms
  <2>. QED
    BY <1>1, <2>1, SendEachQueue
<1>. QED
  BY <1>1, <1>2 DEF w

LEMMA TakeSilentlyInOrder ==
  ASSUME TypeOK, Sound, InOrder, NEW s \in Sockets, TakeSilently(s)
  PROVE  InOrder'
<1>1. /\ phase[s] \in {"open", "ending", "ended"} /\ wire[s] # <<>>
      /\ wire' = [wire EXCEPT ![s] = Tail(@)]
      /\ UNCHANGED <<tcpState, opened, tcpQueue, eip, due, incidents>>
      /\ registered' = registered \/ wire[s][1].kind = "unregister"
  BY DEF TakeSilently, Reply
<1>. QED
  BY <1>1, TakenInOrder DEF Called

LEMMA RegisterReplyInOrder ==
  ASSUME TypeOK, Sound, InOrder, NEW s \in Sockets, RegisterReply(s), ~Late'
  PROVE  InOrder'
<1>1. CASE /\ registered' = registered \cup {s}
           /\ Leave(Started(s)) /\ DataEventAndSend(s, Started(s).hand)
           /\ incidents' = incidents \cup
                             (IF tcpState # Connected THEN {"registered late"} ELSE {})
  <2>. DEFINE w == [wire EXCEPT ![s] = Tail(@)]
              ms == Started(s).hand
              M == OfSession(s) \cup {Register}
  <2>1. tcpState = Connected
    BY <1>1 DEF Late
  <2>2. /\ wire[s] # <<>> /\ SendEach(ms, FALSE, w) /\ s = opened
        /\ due = "nothing" /\ due' = "nothing" /\ ~Written /\ ~Written'
    BY <1>1, LiveSocket DEF DataEventAndSend, Written
  <2>3. ms \in Seq(OfSession(s)) /\ eip'.state = 2 /\ eip'.session = s
    BY <1>1, StartedFacts, LeaveFacts
  <2>4. InSessions \subseteq M
    BY <2>2 DEF InSessions, OfSession, Messages, Register
  <2>5. Carries(M)
    <3>1. Carries(InSessions)
      BY <2>1, <2>2 DEF InOrder
    <3>. QED
      BY <2>4, <3>1, CarriesMore
  <2>6. ms \in Seq(M) /\ ms \in Seq(TcpMessages) /\ TcpTypeOK
    <3>1. OfSession(s) \subseteq M /\ OfSession(s) \subseteq TcpMessages
      BY MessagesAssumption DEF OfSession
    <3>. QED
      BY <2>3, <3>1, SeqMonotonic DEF TypeOK
  <2>. HIDE DEF ms, M
  <2>7. w \in [Sockets -> Seq(M)] /\ w \in [Sockets -> Seq(TcpMessages)]
    BY <2>2, <2>5, <2>6, TakeOne DEF Carries, TcpTypeOK
  <2>. HIDE DEF w
  <2>8. tcpQueue' \in Queue(M) /\ wire' \in [Sockets -> Seq(M)]
    BY <2>2, <2>5, <2>6, <2>7, SendEachType DEF Carries
  <2>9. UNCHANGED <<tcpState, opened>> /\ tcpQueue'.priority = <<>>
    BY <2>1, <2>2, <2>6, SendEachQueue DEF InOrder
  <2>10. M \subseteq InSessions'
    <3>1. Register \in InSessions'
      BY DEF InSessions, Register, Messages
    <3>2. opened' = s /\ s \in registered'
      BY <1>1, <2>2, <2>9
    <3>3. ASSUME NEW m \in OfSession(s) PROVE m \in InSessions'
      BY <3>2, <3>3 DEF OfSession, InSessions
    <3>. QED
      BY <3>1, <3>3 DEF M
  <2>11. Carries(InSessions)'
    BY <2>8, <2>10, SeqMonotonic DEF Carries, Queue
  <2>. QED
    BY <1>1, <2>1, <2>2, <2>3, <2>9, <2>11
    DEF InOrder, Unregisters, Disconnected, Disconnecting, Connecting, Connected
<1>2. CASE /\ Leave([eip EXCEPT !.state = 0]) /\ DataEventAndSend(s, <<>>)
           /\ UNCHANGED registered /\ incidents' = incidents \cup {"refused"}
  <2>1. eip \in Layers /\ [eip EXCEPT !.state = 0] \in Layers
    <3>1. eip \in Layers
      BY EipTypes
    <3>2. 0 \in 0 .. 2
      OBVIOUS
    <3>. QED
      BY <3>1, <3>2, LayerUpdates
  <2>2. eip'.state = 0
    <3>. DEFINE c == [eip EXCEPT !.state = 0]
    <3>1. c \in Layers /\ c.state = 0 /\ Leave(c)
      BY <1>2, <2>1 DEF Layers
    <3>. HIDE DEF c
    <3>. QED
      BY <3>1, LeaveFacts
  <2>3. /\ phase[s] \in {"open", "ending", "ended"} /\ wire[s] # <<>>
        /\ wire' = [wire EXCEPT ![s] = Tail(@)]
        /\ UNCHANGED <<tcpState, opened, tcpQueue, due>>
    BY <1>2, ReplyTakes
  <2>4. (Called => Called') /\ registered' = registered /\ eip'.state # 2
    BY <1>2, <2>2, StatesDiffer DEF Called
  <2>. QED
    BY <2>2, <2>3, <2>4, TakenInOrder
<1>. QED
  BY <1>1, <1>2 DEF RegisterReply, Started

LEMMA RepliesInOrder ==
  ASSUME TypeOK, Sound, InOrder, NEW s \in Sockets, Replies(s), ~Late'
  PROVE  InOrder'
<1>1. CASE RegisterReply(s)
  BY <1>1, RegisterReplyInOrder
<1>2. CASE RRDataReply(s)
  <2>. DEFINE c == [eip EXCEPT !.routes[wire[s][1].context] = None]
  <2>1. /\ DataEventAndSend(s, <<>>) /\ UNCHANGED <<registered, incidents>>
        /\ Leave(c) \/ Leave(Cleanup(c))
    BY <1>2 DEF RRDataReply
  <2>2. c \in Layers /\ c.state = eip.state /\ c.session = eip.session
    <3>. DEFINE x == wire[s][1].context
    <3>1. eip \in Layers /\ x \in Contexts
      BY <1>2, EipTypes, ReplyFacts DEF RRDataReply
    <3>. HIDE DEF x
    <3>2. [eip EXCEPT !.routes[x] = None] \in Layers
      BY <3>1, LayerUpdates
    <3>. QED
      BY <3>1, <3>2 DEF x, Layers
  <2>. HIDE DEF c
  <2>3. \/ eip'.state = eip.state /\ eip'.session = eip.session
        \/ eip'.state = 0
    BY <2>1, <2>2, LeaveFacts, CleanupFacts
  <2>4. /\ phase[s] \in {"open", "ending", "ended"} /\ wire[s] # <<>>
        /\ wire' = [wire EXCEPT ![s] = Tail(@)]
        /\ UNCHANGED <<tcpState, opened, tcpQueue, due>>
    BY <2>1, ReplyTakes
  <2>5. (Called => Called') /\ registered' = registered
    BY <2>1 DEF Called
  <2>6. /\ eip'.state = eip.state \/ eip'.state = 0
        /\ eip'.state = 2 => eip'.session = eip.session
    BY <2>3
  <2>. QED
    BY <2>4, <2>5, <2>6, TakenInOrder
<1>3. CASE UnitDataReply(s)
  <2>1. DataEventAndSend(s, <<>>) /\ UNCHANGED <<eip, registered, incidents>>
    BY <1>3 DEF UnitDataReply
  <2>. QED
    BY <2>1, ReplyTakes, TakenInOrder DEF Called
<1>4. CASE ListReply(s)
  <2>. DEFINE w == eip.waiting \ {v \in eip.waiting : Command[v] = Command[wire[s][1].user]}
  <2>1. /\ DataEventAndSend(s, <<>>) /\ Leave([eip EXCEPT !.waiting = w])
        /\ UNCHANGED <<registered, incidents>>
    BY <1>4 DEF ListReply
  <2>2. eip \in Layers /\ w \in SUBSET Users
    BY EipTypes DEF Layers
  <2>. HIDE DEF w
  <2>3. eip'.state = eip.state /\ eip'.session = eip.session
    <3>. DEFINE c == [eip EXCEPT !.waiting = w]
    <3>1. c \in Layers /\ c.state = eip.state /\ c.session = eip.session
      BY <2>2, LayerUpdates DEF Layers
    <3>. HIDE DEF c
    <3>2. Leave(c)
      BY <2>1 DEF c
    <3>. QED
      BY <3>1, <3>2, LeaveFacts
  <2>. QED
    BY <2>1, <2>3, ReplyTakes, TakenInOrder DEF Called
<1>. QED
  BY <1>1, <1>2, <1>3, <1>4 DEF Replies

(* The layers are destroyed, closed, or the connection has ended.            *)
LEMMA FailInOrder ==
  ASSUME TypeOK, Sound, NEW s \in Sockets, Fail(s)
  PROVE  InOrder'
<1>1. PICK after \in Phases : SocketFailure(s, after)
  BY DEF Fail
<1>2. tcpState' = Disconnected /\ tcpQueue' = EmptyQueue
      /\ \A x \in Sockets : x = opened => wire'[x] = <<>>
  BY <1>1 DEF SocketFailure, InternalDestroy, OfLive
<1>3. eip'.state = 0
  BY EipTypes, CleanupFacts, LeaveFacts DEF Fail
<1>4. \A x \in Sockets : wire'[x] = <<>>
  <2>1. Sound' /\ opened' = opened
    BY <1>1, FailType DEF SocketFailure, InternalDestroy
  <2>. QED
    BY <1>2, <2>1 DEF Sound
<1>5. LastUnregisters'
  <2>1. \A x \in Sockets : Len(wire'[x]) = 0
    BY <1>4
  <2>. QED
    BY <2>1 DEF LastUnregisters
<1>. QED
  BY <1>2, <1>3, <1>5 DEF InOrder, Disconnected, Disconnecting, Connecting, Connected

LEMMA EndedInOrder ==
  ASSUME TypeOK, Sound, InOrder, NEW s \in Sockets, Ended(s)
  PROVE  InOrder'
<1>1. EndCallback(s) /\ eip' = eip /\ TcpTypeOK /\ due = "nothing" /\ due' = "nothing"
      /\ incidents' = incidents
  BY DEF Ended, EndCallback, TypeOK
<1>2. closing /\ phase[s] = "ending"
  BY <1>1, EndCallbackTcp DEF EndCallback
<1>3. tcpState' = Disconnected /\ tcpQueue' = EmptyQueue
  BY <1>1, <1>2 DEF EndCallback, InternalDestroy
<1>4. eip.state # 2
  BY <1>1, <1>2, LiveSocket DEF InOrder, Disconnecting, Connected
<1>. QED
  BY <1>1, <1>3, <1>4, EmptyInOrder

(* The layer unregisters: the message is the last one on an open connection. *)
LEMMA UnregistersLast ==
  ASSUME TypeOK, Sound, InOrder, UpperDisconnects, tcpState = Connected
  PROVE  LastUnregisters' /\ tcpState' = Connected
<1>1. due = "upper disconnect" /\ ~Written /\ UNCHANGED registered /\ eip \in Layers /\ TcpTypeOK
  BY EipTypes DEF UpperDisconnects, Written
<1>2. Carries(InSessions) /\ tcpQueue.priority = <<>>
  BY <1>1 DEF InOrder
<1>3. CASE eip.state = 0
  <2>. DEFINE ms == <<>>
  <2>1. ms \in Seq(TcpMessages) /\ SendEach(ms, TRUE, wire) /\ ms = <<>>
    BY <1>3, EmptySeq DEF UpperDisconnects
  <2>. HIDE DEF ms
  <2>2. UNCHANGED <<wire, opened, tcpState>>
    BY <1>1, <2>1, SendEachQueue
  <2>3. InSessions' = InSessions
    BY <1>1, <2>2 DEF InSessions
  <2>4. LastUnregisters
    BY <1>2, AllInSession DEF Carries
  <2>. QED
    BY <2>2, <2>3, <2>4 DEF LastUnregisters
<1>4. CASE eip.state # 0
  <2>. DEFINE u == Unregister(eip)
              q == EnqueueAll(tcpQueue, <<u>>, TRUE)
              v == wire[opened]
  <2>1. SendEach(<<u>>, TRUE, wire) /\ u.kind = "unregister" /\ u \in Messages
    <3>1. SendEach(<<u>>, TRUE, wire)
      BY <1>4 DEF UpperDisconnects
    <3>. QED
      BY <1>1, <3>1, MessageTypes DEF Unregister
  <2>2. opened \in Sockets
    <3>1. opened # 0
      <4>1. opened = 0 => tcpState = Disconnected
        BY DEF Sound
      <4>. QED
        BY <4>1, StatesDiffer
    <3>2. opened \in 0 .. MaxSockets /\ MaxSockets \in Nat
      BY <1>1, TcpAssumption DEF TcpTypeOK
    <3>. QED
      BY <3>1, <3>2 DEF Sockets
  <2>3. tcpQueue = [priority |-> <<>>, normal |-> tcpQueue.normal]
        /\ tcpQueue.normal \in Seq(TcpMessages)
    BY <1>1, <1>2 DEF TcpTypeOK, Queue
  <2>. HIDE DEF u
  <2>4. Foremost(q, 1) = <<u>>
    <3>1. <<>> \o <<u>> = <<u>>
      OBVIOUS
    <3>2. q = [priority |-> <<u>>, normal |-> tcpQueue.normal]
      BY <2>3, <3>1 DEF EnqueueAll
    <3>. DEFINE n == tcpQueue.normal
    <3>3. n \in Seq(TcpMessages) /\ u \in TcpMessages
      BY <2>1, <2>3, MessagesAssumption
    <3>. HIDE DEF n
    <3>4. <<u>> \in Seq(TcpMessages) /\ Len(<<u>>) = 1
      BY <3>3
    <3>5. /\ Len(<<u>> \o n) = 1 + Len(n) /\ <<u>> \o n \in Seq(TcpMessages)
          /\ (<<u>> \o n)[1] = u
      BY <3>3, <3>4, ConcatProperties
    <3>6. SubSeq(<<u>> \o n, 1, 1) = <<u>>
      BY <3>3, FirstOf
    <3>. DEFINE r == [priority |-> <<u>>, normal |-> n]
    <3>7. r.priority = <<u>> /\ r.normal = n
      OBVIOUS
    <3>8. q = r
      BY <3>2 DEF n
    <3>. HIDE DEF q, r
    <3>. QED
      BY <3>6, <3>7, <3>8 DEF Foremost
  <2>5. /\ wire' = [wire EXCEPT ![opened] = v \o <<u>>]
        /\ UNCHANGED <<opened, tcpState>>
    <3>1. Len(<<u>>) = 1 /\ <<u>> # <<>> /\ 1 # 0
      OBVIOUS
    <3>2. wire' = [wire EXCEPT ![opened] = @ \o Foremost(q, 1)] /\ UNCHANGED <<opened, tcpState>>
      <4>. DEFINE ms == <<u>>
      <4>1. SendEach(ms, TRUE, wire) /\ Len(ms) = 1 /\ ms # <<>>
        BY <2>1, <3>1
      <4>. HIDE DEF ms
      <4>2. /\ wire' = [wire EXCEPT ![opened] = @ \o Foremost(EnqueueAll(tcpQueue, ms, TRUE), 1)]
            /\ UNCHANGED <<opened, tcpState>>
        BY <3>1, <4>1, StatesDiffer DEF SendEach
      <4>. QED
        BY <4>2 DEF ms
    <3>. HIDE DEF q
    <3>. QED
      BY <2>4, <3>2
  <2>6. InSessions' = InSessions
    BY <1>1, <2>5 DEF InSessions
  <2>. HIDE DEF q
  <2>7. v \in Seq(InSessions) /\ \A x \in Sockets : x # opened => wire'[x] \in Seq(InSessions)
    BY <1>2, <2>2, <2>5 DEF Carries
  <2>8. wire'[opened] = v \o <<u>>
    BY <1>1, <2>2, <2>5 DEF TcpTypeOK
  <2>. HIDE DEF v
  <2>9. /\ Len(v \o <<u>>) = Len(v) + 1 /\ Len(v) \in Nat /\ (v \o <<u>>)[Len(v) + 1] = u
        /\ \A i \in 1 .. Len(v) : (v \o <<u>>)[i] \in InSessions
    <3>1. v \in Seq(Messages) /\ <<u>> \in Seq(Messages) /\ Len(<<u>>) = 1 /\ <<u>>[1] = u
      BY <2>1, <2>7, SeqMonotonic DEF InSessions
    <3>2. \A i \in 1 .. Len(v) : v[i] \in InSessions
      BY <2>7, ElementOfSeq
    <3>. QED
      BY <3>1, <3>2, ConcatProperties, LenProperties
  <2>10. ASSUME NEW i \in 1 .. Len(wire'[opened])
         PROVE  \/ wire'[opened][i] \in InSessions
                \/ i = Len(wire'[opened]) /\ wire'[opened][i].kind = "unregister"
    <3>1. i = Len(v) + 1 \/ i \in 1 .. Len(v)
      BY <2>8, <2>9
    <3>. QED
      BY <2>1, <2>8, <2>9, <3>1
  <2>11. ASSUME NEW x \in Sockets, x # opened, NEW i \in 1 .. Len(wire'[x])
         PROVE  wire'[x][i] \in InSessions
    BY <2>7, <2>11, ElementOfSeq
  <2>. QED
    BY <2>5, <2>6, <2>10, <2>11 DEF LastUnregisters
<1>. QED
  BY <1>3, <1>4

LEMMA UpperDisconnectsInOrder ==
  ASSUME TypeOK, Sound, InOrder, UpperDisconnects
  PROVE  InOrder'
<1>1. /\ due' = "upper destroy" /\ Written' /\ due = "upper disconnect" /\ ~Written
      /\ UNCHANGED <<registered, incidents>> /\ eip'.state = 0 /\ TcpTypeOK
  BY UpperDisconnectsSends, EipTypes DEF UpperDisconnects, Written
<1>2. PICK ms \in Seq(TcpMessages) : SendEach(ms, TRUE, wire)
  <2>1. \A ms \in Seq(Plain) : ms \in Seq(TcpMessages)
    BY SeqMonotonic, MessagesAssumption DEF Plain
  <2>. QED
    BY <2>1, UpperDisconnectsSends
<1>3. tcpState' = Disconnected => tcpQueue' = EmptyQueue
  <2>1. ASSUME tcpState' = Disconnected PROVE ms = <<>> /\ tcpState = Disconnected
    BY <1>2, <2>1 DEF SendEach, Disconnected, Connecting
  <2>2. ms = <<>> => tcpQueue' = tcpQueue
    BY <1>1, <1>2, SendEachQueue
  <2>. QED
    BY <1>1, <2>1, <2>2 DEF InOrder
<1>4. Unregisters' => Called' \/ LastUnregisters'
  <2>1. CASE tcpState = Connected
    BY <2>1, UnregistersLast
  <2>2. CASE tcpState = Disconnecting
    <3>1. wire' = wire
      BY <1>1, <1>2, <2>2, SendEachQueue, StatesDiffer
    <3>2. UNCHANGED <<tcpState, opened>>
      BY <1>2, <2>2, StatesDiffer DEF SendEach
    <3>3. InSessions' = InSessions
      BY <1>1, <3>2 DEF InSessions
    <3>4. Called \/ LastUnregisters
      BY <2>2 DEF InOrder, Unregisters
    <3>. QED
      BY <1>1, <3>1, <3>3, <3>4 DEF LastUnregisters, Called
  <2>3. CASE tcpState \in {Disconnected, Connecting}
    <3>1. tcpState' \in {Disconnected, Connecting}
      BY <1>2, <2>3 DEF SendEach
    <3>2. ~Unregisters'
      BY <1>1, <3>1, StatesDiffer DEF Unregisters
    <3>. QED
      BY <3>2
  <2>. QED
    BY <1>1, <2>1, <2>2, <2>3 DEF TcpTypeOK, TcpStates
<1>5. eip'.state # 2
  BY <1>1, StatesDiffer
<1>. QED
  BY <1>1, <1>3, <1>4, <1>5 DEF InOrder

LEMMA ClosesInOrder ==
  ASSUME TypeOK, Sound, InOrder, Closes
  PROVE  InOrder'
<1>1. eip \in Layers /\ TcpTypeOK
  BY EipTypes
<1>2. CASE CloseLayers
  <2>1. /\ UNCHANGED <<tcpState, opened, tcpQueue, wire, eip, registered, incidents>>
        /\ due = "nothing" /\ due' = "upper disconnect" /\ ~Written /\ ~Written'
    BY <1>2 DEF CloseLayers, CloseCalled, Written
  <2>2. InSessions' = InSessions
    BY <2>1 DEF InSessions
  <2>. QED
    BY <2>1, <2>2 DEF InOrder, Carries, Unregisters, LastUnregisters, Called
<1>3. CASE UpperDisconnects
  BY <1>3, UpperDisconnectsInOrder
<1>4. CASE UpperDestroys
  <2>1. /\ UNCHANGED <<tcpState, opened, tcpQueue, wire, registered, incidents>>
        /\ due = "upper destroy" /\ due' = "disconnect" /\ Written /\ Written'
    BY <1>4 DEF UpperDestroys, Written
  <2>2. eip'.state = 0
    BY <1>1, <1>4, CleanupFacts, LeaveFacts DEF UpperDestroys
  <2>3. InSessions' = InSessions
    BY <2>1 DEF InSessions
  <2>4. Called' \/ ~Unregisters' \/ LastUnregisters'
    BY <2>1, <2>3 DEF InOrder, Unregisters, LastUnregisters, Called
  <2>5. eip'.state # 2 /\ (tcpState' = Disconnected => tcpQueue' = EmptyQueue)
    BY <2>1, <2>2, StatesDiffer DEF InOrder
  <2>. QED
    BY <2>1, <2>4, <2>5 DEF InOrder
<1>5. CASE Disconnects
  <2>1. /\ UNCHANGED <<opened, tcpQueue, wire, registered, incidents, eip>> /\ CloseDisconnects
        /\ due = "disconnect" /\ Written
    BY <1>5 DEF Disconnects, CloseDisconnects, eipVars, Written
  <2>2. eip.state # 2 /\ InSessions' = InSessions
    BY <2>1 DEF InOrder, InSessions
  <2>3. CASE tcpState \in {Disconnected, Connecting} /\ tcpState' = Disconnected
             /\ due' = "destroy"
    <3>1. \A s \in Sockets : Len(wire[s]) = 0
      BY <2>1, <2>3, WiresEmpty
    <3>2. LastUnregisters'
      BY <2>1, <3>1 DEF LastUnregisters
    <3>. QED
      BY <2>1, <2>2, <2>3, <3>2 DEF InOrder, Disconnected, Connecting, Connected
  <2>4. CASE tcpState \in {Connected, Disconnecting} /\ tcpState' = Disconnecting
    <3>1. Unregisters
      BY <2>1, <2>4 DEF Unregisters
    <3>2. Called' \/ LastUnregisters'
      BY <2>1, <2>2, <3>1 DEF InOrder, LastUnregisters, Called
    <3>. QED
      BY <2>1, <2>2, <2>4, <3>2 DEF InOrder, Disconnected, Disconnecting, Connecting, Connected
  <2>. QED
    BY <2>1, <2>3, <2>4 DEF CloseDisconnects, StartDisconnect, Connecting, Connected
<1>6. CASE Destroys
  <2>1. /\ InternalDestroy(phase) /\ due = "destroy" /\ due' = "nothing"
        /\ UNCHANGED <<tcpState, eip>>
    BY <1>6 DEF Destroys, CloseDestroys
  <2>2. tcpState' = Disconnected /\ tcpQueue' = EmptyQueue
    BY <2>1 DEF Sound, InternalDestroy
  <2>3. eip'.state # 2
    BY <2>1, <2>2 DEF InOrder, Disconnected, Connected
  <2>. QED
    BY <2>1, <2>2, <2>3, EmptyInOrder
<1>. QED
  BY <1>2, <1>3, <1>4, <1>5, <1>6 DEF Closes

(* At the start nothing is under way.                                        *)
LEMMA InitInOrder == Init => InOrder
<1>. SUFFICES ASSUME Init PROVE InOrder
  OBVIOUS
<1>1. tcpState = Disconnected /\ tcpQueue = EmptyQueue /\ due = "nothing"
  BY DEF Init, TcpInit
<1>2. eip.state # 2
  BY DEF Init
<1>. QED
  BY <1>1, <1>2 DEF InOrder, Unregisters, Written, Disconnected, Disconnecting, Connecting, Connected

(* Every step keeps the order, unless a registration comes late; and only a  *)
(* failure, which begins everything anew, makes good for one that did.       *)
LEMMA NextInOrder ==
  ASSUME TypeOK, SocketInv, SessionInv, [Next]_vars
  PROVE  SessionInv'
<1>. SUFFICES ASSUME ~Late', ~Strayed' PROVE InOrder'
  BY DEF SessionInv
<1>1. ASSUME Strayed => Strayed' PROVE Sound
  BY <1>1 DEF SocketInv
<1>2. ASSUME Strayed => Strayed', Late => Late' PROVE Sound /\ InOrder
  BY <1>2 DEF SocketInv, SessionInv
<1>3. ASSUME SendStep PROVE InOrder'
  <2>1. (Late => Late') /\ (Strayed => Strayed') /\ due # "destroy"
    BY <1>3 DEF SendStep, Recorded, Late, Strayed
  <2>. QED
    BY <1>2, <1>3, <2>1, SendStepInOrder
<1>4. CASE Tick
  <2>1. incidents' = incidents
    BY <1>4 DEF Tick, eipVars
  <2>. QED
    BY <1>2, <1>4, <2>1, TickInOrder DEF Late, Strayed
<1>5. ASSUME NEW s \in Sockets, Replies(s) PROVE InOrder'
  <2>1. (Late => Late') /\ (Strayed => Strayed')
    BY <1>5
    DEF Replies, RegisterReply, RRDataReply, UnitDataReply, ListReply, Late, Strayed
  <2>. QED
    BY <1>2, <1>5, <2>1, RepliesInOrder
<1>6. ASSUME NEW s \in Sockets, TakeSilently(s) PROVE InOrder'
  <2>1. incidents' = incidents
    BY <1>6 DEF TakeSilently
  <2>. QED
    BY <1>2, <1>6, <2>1, TakeSilentlyInOrder DEF Late, Strayed
<1>7. ASSUME NEW s \in Sockets, Connects(s) PROVE InOrder'
  <2>1. incidents' = incidents
    BY <1>7 DEF Connects, eipVars
  <2>. QED
    BY <1>2, <1>7, <2>1, ConnectsInOrder DEF Late, Strayed
<1>8. ASSUME NEW s \in Sockets, Fail(s) PROVE InOrder'
  <2>1. Strayed => Strayed'
    BY <1>8 DEF Fail, Strayed
  <2>. QED
    BY <1>1, <1>8, <2>1, FailInOrder
<1>9. ASSUME NEW s \in Sockets, SocketClosed(s) PROVE InOrder'
  <2>1. incidents' = incidents /\ CloseEvent(s) /\ TcpTypeOK
    BY <1>9 DEF SocketClosed, eipVars, TypeOK
  <2>2. Sound /\ ~Sound
    BY <1>1, <2>1, CloseEventTcp DEF Strayed
  <2>. QED
    BY <2>2
<1>10. ASSUME NEW s \in Sockets, Ended(s) PROVE InOrder'
  <2>1. incidents' = incidents
    BY <1>10 DEF Ended
  <2>. QED
    BY <1>2, <1>10, <2>1, EndedInOrder DEF Late, Strayed
<1>11. CASE Closes
  <2>1. incidents' = incidents
    BY <1>11 DEF Closes, CloseLayers, UpperDisconnects, UpperDestroys, Disconnects, Destroys,
                 eipVars
  <2>. QED
    BY <1>2, <1>11, <2>1, ClosesInOrder DEF Late, Strayed
<1>12. CASE UNCHANGED vars
  <2>1. InOrder
    BY <1>2, <1>12 DEF vars, eipVars, Late, Strayed
  <2>. QED
    BY <1>12, <2>1
    DEF vars, tcpVars, eipVars, InOrder, InSessions, Carries, Written, Unregisters,
        LastUnregisters, Called
<1>. QED
  BY <1>3, <1>4, <1>5, <1>6, <1>7, <1>8, <1>9, <1>10, <1>11, <1>12, IssueSends,
     UserRequestSends, ConnectCalledSends, NextTickSends DEF Next, Closes

(* The inductive invariant.                                                  *)
THEOREM SessionsAreInOrder == Spec => [](TypeOK /\ SocketInv /\ SessionInv)
<1>1. Init => TypeOK /\ SocketInv /\ SessionInv
  BY InitSockets, InitInOrder DEF SocketInv, SessionInv
<1>2. TypeOK /\ SocketInv /\ SessionInv /\ [Next]_vars => (TypeOK /\ SocketInv /\ SessionInv)'
  BY NextSockets, NextInOrder
<1>. QED
  BY <1>1, <1>2, PTL DEF Spec

(* Every variable has its type.                                              *)
THEOREM EipTypesHold == Spec => []TypeOK
BY EipSessionTypes, PTL

(* A layer that believes in a session has one: the device keeps it on the    *)
(* open connection, under the handle the layer sends, unless the reply to    *)
(* RegisterSession came after the layer was closed, or a call in the last    *)
(* step of a close left a socket behind.                                     *)
THEOREM SessionIsTrue == Spec => []SessionIsRegistered
<1>1. TypeOK /\ SocketInv /\ SessionInv => SessionIsRegistered
  <2>. SUFFICES ASSUME TypeOK, SocketInv, SessionInv, eip.state = 2, ~Late, ~Strayed
                PROVE  /\ tcpState = Connected /\ phase[opened] = "open"
                       /\ opened \in registered /\ eip.session = opened
    BY DEF SessionIsRegistered, Late, Strayed
  <2>1. tcpState = Connected /\ opened \in registered /\ eip.session = opened /\ Sound
    BY DEF SessionInv, SocketInv, InOrder
  <2>2. phase[opened] = PhaseIn(tcpState)
    BY <2>1 DEF Sound, Connected, Disconnected
  <2>3. phase[opened] = "open"
    BY <2>1, <2>2 DEF PhaseIn, Connected, Connecting, Disconnected, Disconnecting
  <2>. QED
    BY <2>1, <2>3
<1>. QED
  BY <1>1, SessionsAreInOrder, PTL

(* What comes next on a wire, if it is a message of the layer above, belongs *)
(* to a session the device keeps on that connection.                         *)
LEMMA NextIsInSession ==
  ASSUME TypeOK, Sound, InOrder, ~(Called /\ Closing),
         NEW s \in Sockets, Reply(s, "rr") \/ Reply(s, "unit")
  PROVE  InSession(s)
<1>1. wire[s] # <<>> /\ wire[s] \in Seq(Messages) /\ wire[s][1].kind \in {"rr", "unit"}
  BY ReplyFacts DEF Reply
<1>2. phase[s] \notin {"unused", "connecting", "dead"} /\ phase[s] \in Phases
  BY <1>1 DEF Sound, TypeOK, TcpTypeOK
<1>3. s = opened /\ (tcpState \in {Connected, Disconnecting} \/ due = "destroy")
  <2>1. s = opened
    BY <1>2 DEF Sound
  <2>. QED
    BY <1>2, <2>1, LiveSocket DEF Phases
<1>4. 1 \in 1 .. Len(wire[s])
  BY <1>1, EmptySeq
<1>5. wire[s][1] \in InSessions
  <2>1. CASE tcpState = Connected /\ ~Written
    <3>1. wire[s] \in Seq(InSessions)
      BY <2>1 DEF InOrder, Carries
    <3>. QED
      BY <1>4, <3>1, ElementOfSeq
  <2>2. CASE Unregisters
    <3>1. Closing
      BY <2>2 DEF Unregisters, Written, Closing
    <3>2. LastUnregisters
      BY <2>2, <3>1 DEF InOrder
    <3>. QED
      BY <1>1, <1>4, <3>2 DEF LastUnregisters
  <2>. QED
    BY <1>3, <2>1, <2>2 DEF Unregisters
<1>. QED
  BY <1>1, <1>3, <1>5 DEF InSession, InSessions

(* Every message of the layer above reaches the device in the session it was *)
(* written for, however connections fail and sessions end under it, unless   *)
(* the program calls while the layers close or a registration comes late.    *)
THEOREM MessagesAreInSession == Spec => OnlyInSession
<1>1. TypeOK /\ SocketInv /\ SessionInv /\ [Next]_vars =>
        [\A s \in Sockets :
           wire'[s] # wire[s] /\ (Reply(s, "rr") \/ Reply(s, "unit")) /\ wire'[s] = Tail(wire[s])
             => \/ InSession(s)
                \/ {"registered late", "strayed"} \cap incidents # {}
                \/ "called while closing" \in incidents /\ Closing]_vars
  <2>. SUFFICES ASSUME TypeOK, SocketInv, SessionInv, ~Late, ~Strayed, ~(Called /\ Closing),
                       NEW s \in Sockets, Reply(s, "rr") \/ Reply(s, "unit")
                PROVE  InSession(s)
    BY DEF Late, Strayed, Called
  <2>1. Sound /\ InOrder
    BY DEF SocketInv, SessionInv
  <2>. QED
    BY <2>1, NextIsInSession
<1>. QED
  BY <1>1, SessionsAreInOrder, PTL DEF Spec, OnlyInSession

-----------------------------------------------------------------------------
(* Who is answered by what.  A handler that sends a message under a context  *)
(* sends one, the first of the queue, files it under the next context, and   *)
(* sends nothing else of that kind; another handler leaves the contexts.     *)
Quietly(c, d) ==
  /\ d.context = c.context /\ d.routes = c.routes /\ d.hand \in Seq(Plain)
  /\ d.queue = c.queue \/ (c.queue # <<>> /\ d.queue = Tail(c.queue))

Under(c, d, m) ==
  /\ m.kind = "rr" /\ m.context = IncrementContext(c.context)
  /\ c.queue # <<>> /\ m.request = Head(c.queue) /\ d.queue = Tail(c.queue)
  /\ d.context = m.context /\ d.routes = [c.routes EXCEPT ![m.context] = m.request]
  /\ d.hand \in Seq(Plain \cup {m})

Speaks(c, d) == Quietly(c, d) \/ \E m \in Messages : Under(c, d, m)

LEMMA NextMessageSpeaks ==
  ASSUME NEW c \in Layers, c.hand = <<>>
  PROVE  Speaks(c, SendNextMessage(c))
<1>. DEFINE d == SendNextMessage(c)
<1>1. CASE SendsNothing(c, d)
  <2>1. d = c /\ d.hand \in Seq(Plain)
    BY <1>1, EmptySeq DEF SendsNothing
  <2>. QED
    BY <2>1 DEF Speaks, Quietly
<1>2. CASE Registers(c, d)
  <2>1. d.hand = <<Register>> /\ d.context = c.context /\ d.routes = c.routes /\ d.queue = c.queue
    BY <1>2 DEF Registers, Layers
  <2>2. Register \in Plain
    BY DEF Plain, Register, Messages
  <2>3. <<Register>> \in Seq(Plain)
    BY <2>2
  <2>. QED
    BY <2>1, <2>3 DEF Speaks, Quietly
<1>3. CASE SendsUnit(c, d)
  <2>. DEFINE m == SendUnitData(c, Head(c.queue))
  <2>1. Head(c.queue) \in Requests
    BY <1>3, HeadTailProperties DEF SendsUnit, Layers
  <2>2. m \in Plain
    BY <2>1, MessageTypes DEF Plain, SendUnitData
  <2>3. d.hand = <<m>> /\ d.context = c.context /\ d.routes = c.routes
        /\ c.queue # <<>> /\ d.queue = Tail(c.queue)
    BY <1>3 DEF SendsUnit, Layers
  <2>. HIDE DEF m, d
  <2>4. <<m>> \in Seq(Plain)
    BY <2>2
  <2>. QED
    BY <2>3, <2>4 DEF Speaks, Quietly, d
<1>4. CASE SendsRR(c, d)
  <2>. DEFINE x == IncrementContext(c.context)
              m == [kind |-> "rr", session |-> c.session, context |-> x, request |-> Head(c.queue)]
  <2>1. Head(c.queue) \in Requests /\ c.session \in Handles
    BY <1>4, HeadTailProperties DEF SendsRR, Layers
  <2>2. x \in Contexts
    BY ContextType DEF Layers
  <2>3. m \in Messages /\ m.kind = "rr" /\ m.context = x /\ m.request = Head(c.queue)
    BY <2>1, <2>2 DEF Messages
  <2>4. d.hand = <<m>> /\ d.context = x /\ d.routes = [c.routes EXCEPT ![x] = Head(c.queue)]
        /\ c.queue # <<>> /\ d.queue = Tail(c.queue)
    BY <1>4 DEF SendsRR, Layers
  <2>. HIDE DEF m, d
  <2>5. <<m>> \in Seq(Plain \cup {m})
    OBVIOUS
  <2>6. Under(c, d, m)
    BY <2>3, <2>4, <2>5 DEF Under, x
  <2>. QED
    BY <2>3, <2>6 DEF Speaks, d
<1>. QED
  BY <1>1, <1>2, <1>3, <1>4, SendNextMessageFacts

(* The list requests sent after it change nothing of that.                   *)
LEMMA UsersSpeak ==
  ASSUME NEW c, NEW d \in Layers, Speaks(c, d)
  PROVE  Speaks(c, SendUsers(d))
<1>1. Lists(d) \in Seq(Plain)
  <2>1. Lists(d) \in Seq(Kinds({"list"})) /\ Kinds({"list"}) \subseteq Plain
    BY SendUsersFacts DEF Kinds, Plain
  <2>. QED
    BY <2>1, SeqMonotonic
<1>2. CASE d.state = 1
  BY <1>2, SendUsersFacts
<1>3. CASE d.state # 1
  <2>. DEFINE e == SendUsers(d)
  <2>1. e = [d EXCEPT !.users = <<>>, !.hand = @ \o Lists(d)]
    BY <1>3, SendUsersFacts
  <2>2. e.context = d.context /\ e.routes = d.routes /\ e.queue = d.queue
        /\ e.hand = d.hand \o Lists(d)
    BY <2>1 DEF Layers
  <2>. HIDE DEF e
  <2>3. ASSUME Quietly(c, d) PROVE Quietly(c, e)
    <3>1. e.hand \in Seq(Plain)
      BY <1>1, <2>2, <2>3, ConcatProperties DEF Quietly
    <3>. QED
      BY <2>2, <2>3, <3>1 DEF Quietly
  <2>4. ASSUME NEW m \in Messages, Under(c, d, m) PROVE Under(c, e, m)
    <3>1. Lists(d) \in Seq(Plain \cup {m}) /\ d.hand \in Seq(Plain \cup {m})
      BY <1>1, <2>4, SeqMonotonic DEF Under
    <3>2. e.hand \in Seq(Plain \cup {m})
      BY <2>2, <3>1, ConcatProperties
    <3>. QED
      BY <2>2, <2>4, <3>2 DEF Under
  <2>. QED
    BY <2>3, <2>4 DEF Speaks, e
<1>. QED
  BY <1>2, <1>3

LEMMA StartedSpeaks ==
  ASSUME TypeOK, NEW s \in Sockets
  PROVE  Speaks(eip, Started(s))
<1>. DEFINE d == [eip EXCEPT !.state = 2, !.session = s]
            e == SendNextMessage(d)
<1>1. eip \in Layers /\ eip.hand = <<>> /\ s \in Handles
  BY EipTypes DEF Handles
<1>2. d \in Layers
  <2>1. \A x \in Handles, n \in 0 .. 2 : [eip EXCEPT !.state = n, !.session = x] \in Layers
    BY <1>1, LayerUpdates
  <2>2. 2 \in 0 .. 2
    OBVIOUS
  <2>. QED
    BY <1>1, <2>1, <2>2
<1>3. d.hand = <<>> /\ d.context = eip.context /\ d.routes = eip.routes /\ d.queue = eip.queue
  BY <1>1 DEF Layers
<1>. HIDE DEF d
<1>4. Speaks(d, e) /\ e \in Layers
  BY <1>2, <1>3, NextMessageSpeaks, SendNextMessageFacts
<1>. HIDE DEF e
<1>5. Speaks(eip, e)
  BY <1>3, <1>4 DEF Speaks, Quietly, Under
<1>. QED
  BY <1>4, <1>5, UsersSpeak DEF Started, d, e

(* The same of a step, with q the queue the handler finds, and M a set that  *)
(* what is under way belongs to.                                             *)
StillCarries(M) == tcpQueue' \in Queue(M) /\ wire' \in [Sockets -> Seq(M)]

Silent(q) ==
  /\ eip'.context = eip.context
  /\ \A x \in Contexts : eip'.routes[x] \in {eip.routes[x], None}
  /\ eip'.queue = q \/ eip'.queue = <<>> \/ (q # <<>> /\ eip'.queue = Tail(q))

SpeaksTo(q, m) ==
  /\ m.kind = "rr" /\ m.context = IncrementContext(eip.context)
  /\ q # <<>> /\ m.request = Head(q) /\ eip'.queue = Tail(q)
  /\ eip'.context = m.context
  /\ eip'.routes = [eip.routes EXCEPT ![m.context] = m.request]

Moves(M, q) ==
  \/ Silent(q) /\ StillCarries(M)
  \/ \E m \in Messages : SpeaksTo(q, m) /\ (m \in M => StillCarries(M))

(* It is the queue of before, perhaps with a request issued now.             *)
Joins(q) ==
  \/ q = eip.queue /\ \A r \in Requests : outcome'[r] = "idle" => outcome[r] = "idle"
  \/ \E r \in Requests : /\ outcome[r] = "idle" /\ outcome' = [outcome EXCEPT ![r] = "pending"]
                         /\ q = Append(eip.queue, r)

LEMMA HandsOn ==
  ASSUME TypeOK, NEW M, Plain \subseteq M, tcpQueue \in Queue(M),
         NEW w \in [Sockets -> Seq(M)], NEW priority \in BOOLEAN,
         NEW c, c.context = eip.context, c.routes = eip.routes,
         NEW d \in Layers, Speaks(c, d), Leave(d), SendEach(d.hand, priority, w)
  PROVE  Moves(M, c.queue)
<1>1. TcpTypeOK
  BY DEF TypeOK
<1>2. eip'.context = d.context /\ eip'.routes = d.routes /\ eip'.queue = d.queue
  BY LeaveFacts
<1>3. ASSUME Quietly(c, d) PROVE Silent(c.queue) /\ StillCarries(M)
  <2>1. d.hand \in Seq(M)
    BY <1>3, SeqMonotonic DEF Quietly
  <2>2. StillCarries(M)
    BY <1>1, <2>1, SendEachType DEF StillCarries
  <2>. QED
    BY <1>2, <1>3, <2>2 DEF Quietly, Silent
<1>4. ASSUME NEW m \in Messages, Under(c, d, m)
      PROVE  SpeaksTo(c.queue, m) /\ (m \in M => StillCarries(M))
  <2>1. ASSUME m \in M PROVE StillCarries(M)
    <3>1. Plain \cup {m} \subseteq M
      BY <2>1
    <3>2. d.hand \in Seq(M)
      BY <1>4, <3>1, SeqMonotonic DEF Under
    <3>. QED
      BY <1>1, <3>2, SendEachType DEF StillCarries
  <2>. QED
    BY <1>2, <1>4, <2>1 DEF Under, SpeaksTo
<1>. QED
  BY <1>3, <1>4 DEF Speaks, Moves

LEMMA IssueMoves ==
  ASSUME TypeOK, NEW M, Plain \subseteq M, Carries(M), NEW r \in Requests, Issue(r)
  PROVE  \E q \in Seq(Requests) : Joins(q) /\ Moves(M, q)
<1>. DEFINE q == Append(eip.queue, r)
            c == [eip EXCEPT !.queue = Append(@, r)]
            d == SendNextMessage(c)
<1>1. eip \in Layers /\ eip.hand = <<>>
  BY EipTypes
<1>2. q \in Seq(Requests)
  BY <1>1, AppendProperties DEF Layers
<1>3. c \in Layers /\ c = [eip EXCEPT !.queue = q]
  <2>. HIDE DEF q
  <2>1. [eip EXCEPT !.queue = q] \in Layers
    BY <1>1, <1>2, LayerUpdates
  <2>2. c = [eip EXCEPT !.queue = q]
    BY DEF q
  <2>. QED
    BY <2>1, <2>2
<1>4. outcome[r] = "idle" /\ outcome' = [outcome EXCEPT ![r] = "pending"]
      /\ Leave(d) /\ SendEach(d.hand, d.hand = <<Register>>, wire)
  BY DEF Issue
<1>5. Joins(q)
  BY <1>4 DEF Joins
<1>. HIDE DEF q, c
<1>6. c.hand = <<>> /\ c.context = eip.context /\ c.routes = eip.routes /\ c.queue = q
  BY <1>1, <1>3 DEF Layers
<1>7. Speaks(c, d) /\ d \in Layers
  BY <1>3, <1>6, NextMessageSpeaks, SendNextMessageFacts
<1>. HIDE DEF d
<1>8. (d.hand = <<Register>>) \in BOOLEAN
  OBVIOUS
<1>9. Moves(M, c.queue)
  BY <1>4, <1>6, <1>7, <1>8, HandsOn DEF Carries
<1>. QED
  BY <1>2, <1>5, <1>6, <1>9

LEMMA UserRequestMoves ==
  ASSUME TypeOK, NEW M, Plain \subseteq M, Carries(M), NEW u \in Users, UserRequest(u)
  PROVE  \E q \in Seq(Requests) : Joins(q) /\ Moves(M, q)
<1>. DEFINE users == Append(eip.users, u)
            waiting == eip.waiting \cup ({u} \cap Listing)
            c == [eip EXCEPT !.users = users, !.waiting = waiting]
            d == SendUsers(c)
<1>1. eip \in Layers /\ eip.hand = <<>> /\ eip.queue \in Seq(Requests)
  BY EipTypes DEF Layers
<1>2. c \in Layers /\ c.hand = <<>> /\ c.context = eip.context /\ c.routes = eip.routes
      /\ c.queue = eip.queue
  <2>1. users \in Seq(Users) /\ waiting \in SUBSET Users
    BY <1>1, AppendProperties DEF Layers, Listing
  <2>. HIDE DEF users, waiting
  <2>2. c \in Layers
    BY <1>1, <2>1, LayerUpdates
  <2>. QED
    BY <1>1, <2>2 DEF Layers
<1>3. Leave(d) /\ SendEach(d.hand, FALSE, wire)
      /\ outcome' = [outcome EXCEPT ![u] = IF u \in Listing THEN "pending" ELSE "answered"]
  BY DEF UserRequest
<1>4. Joins(eip.queue)
  <2>1. u \notin Requests
    BY EipAssumption
  <2>2. \A r \in Requests : outcome'[r] = outcome[r]
    BY <1>3, <2>1 DEF TypeOK, Calls
  <2>. QED
    BY <2>2 DEF Joins
<1>. HIDE DEF c
<1>5. Speaks(c, c)
  BY <1>2, EmptySeq DEF Speaks, Quietly
<1>6. Speaks(c, d) /\ d \in Layers
  BY <1>2, <1>5, UsersSpeak, SendUsersFacts
<1>. HIDE DEF d
<1>7. Moves(M, c.queue)
  BY <1>2, <1>3, <1>6, HandsOn DEF Carries
<1>. QED
  BY <1>1, <1>2, <1>4, <1>7

LEMMA ConnectCalledMoves ==
  ASSUME TypeOK, NEW M, Plain \subseteq M, Carries(M), ConnectCalled
  PROVE  \E q \in Seq(Requests) : Joins(q) /\ Moves(M, q)
<1>. DEFINE d == Connect(eip)
<1>1. eip \in Layers /\ eip.hand = <<>> /\ eip.queue \in Seq(Requests)
  BY EipTypes DEF Layers
<1>2. Leave(d) /\ SendEach(<<Register>>, TRUE, wire) /\ eip.state = 0 /\ outcome' = outcome
  BY DEF ConnectCalled
<1>3. d \in Layers /\ d = [eip EXCEPT !.state = 1, !.hand = <<Register>>]
  BY <1>1, <1>2, ConnectFacts
<1>. HIDE DEF d
<1>4. d.hand = <<Register>> /\ d.context = eip.context /\ d.routes = eip.routes
      /\ d.queue = eip.queue
  BY <1>1, <1>3 DEF Layers
<1>5. <<Register>> \in Seq(Plain)
  <2>1. Register \in Plain
    BY DEF Plain, Register, Messages
  <2>. QED
    BY <2>1
<1>6. Speaks(eip, d)
  BY <1>4, <1>5 DEF Speaks, Quietly
<1>7. Moves(M, eip.queue)
  BY <1>2, <1>3, <1>4, <1>6, HandsOn DEF Carries
<1>. QED
  BY <1>1, <1>2, <1>7 DEF Joins

LEMMA NextTickMoves ==
  ASSUME TypeOK, NEW M, Plain \subseteq M, Carries(M), NextTick
  PROVE  \E q \in Seq(Requests) : Joins(q) /\ Moves(M, q)
<1>. DEFINE c == [eip EXCEPT !.ticks = @ - 1]
            d == SendNextMessage(c)
<1>1. eip \in Layers /\ eip.hand = <<>> /\ eip.queue \in Seq(Requests)
  BY EipTypes DEF Layers
<1>2. Leave(d) /\ SendEach(d.hand, d.hand = <<Register>>, wire) /\ outcome' = outcome
  BY DEF NextTick
<1>3. c \in Layers /\ c.hand = <<>> /\ c.context = eip.context /\ c.routes = eip.routes
      /\ c.queue = eip.queue
  <2>1. eip.ticks - 1 \in Nat
    BY <1>1 DEF NextTick, Layers
  <2>2. c \in Layers
    BY <1>1, <2>1, LayerUpdates
  <2>. QED
    BY <1>1, <2>2 DEF Layers
<1>. HIDE DEF c
<1>4. Speaks(c, d) /\ d \in Layers
  BY <1>3, NextMessageSpeaks, SendNextMessageFacts
<1>. HIDE DEF d
<1>5. (d.hand = <<Register>>) \in BOOLEAN
  OBVIOUS
<1>6. Moves(M, c.queue)
  BY <1>2, <1>3, <1>4, <1>5, HandsOn DEF Carries
<1>. QED
  BY <1>1, <1>2, <1>3, <1>6 DEF Joins

LEMMA RepliesMove ==
  ASSUME TypeOK, NEW M, Plain \subseteq M, Carries(M), NEW s \in Sockets, Replies(s)
  PROVE  \E q \in Seq(Requests) : Joins(q) /\ Moves(M, q)
<1>1. eip \in Layers /\ eip.hand = <<>> /\ eip.queue \in Seq(Requests) /\ TcpTypeOK
  BY EipTypes DEF Layers
<1>2. <<>> \in Seq(M) /\ <<>> \in Seq(Messages)
  BY EmptySeq
<1>3. ASSUME DataEventAndSend(s, <<>>) PROVE StillCarries(M)
  BY <1>1, <1>2, <1>3, DataEventAndSendCarries DEF StillCarries, Carries
<1>4. CASE RegisterReply(s)
  <2>1. Joins(eip.queue)
    BY <1>4 DEF RegisterReply, Joins
  <2>2. CASE Leave(Started(s)) /\ DataEventAndSend(s, Started(s).hand)
    <3>. DEFINE d == Started(s)
                w == [wire EXCEPT ![s] = Tail(@)]
    <3>1. Speaks(eip, d) /\ d \in Layers
      BY StartedSpeaks, StartedFacts
    <3>2. wire[s] # <<>> /\ SendEach(d.hand, FALSE, w) /\ Leave(d)
      BY <2>2 DEF DataEventAndSend
    <3>3. w \in [Sockets -> Seq(M)]
      BY <3>2, TakeOne DEF Carries
    <3>. HIDE DEF d, w
    <3>4. Moves(M, eip.queue)
      BY <3>1, <3>2, <3>3, HandsOn DEF Carries
    <3>. QED
      BY <1>1, <2>1, <3>4
  <2>3. CASE Leave([eip EXCEPT !.state = 0]) /\ DataEventAndSend(s, <<>>)
    <3>. DEFINE c == [eip EXCEPT !.state = 0]
    <3>1. 0 \in 0 .. 2
      OBVIOUS
    <3>2. c \in Layers
      BY <1>1, <3>1, LayerUpdates
    <3>3. c.context = eip.context /\ c.routes = eip.routes /\ c.queue = eip.queue /\ Leave(c)
      BY <2>3, <1>1 DEF Layers
    <3>. HIDE DEF c
    <3>4. Silent(eip.queue)
      BY <3>2, <3>3, LeaveFacts DEF Silent
    <3>. QED
      BY <1>1, <1>3, <2>1, <2>3, <3>4 DEF Moves
  <2>. QED
    BY <1>4, <2>2, <2>3 DEF RegisterReply, Started
<1>5. CASE RRDataReply(s)
  <2>. DEFINE x == wire[s][1].context
              r == eip.routes[x]
              c == [eip EXCEPT !.routes[x] = None]
  <2>1. DataEventAndSend(s, <<>>)
        /\ \/ /\ Leave(c)
              /\ outcome' = outcome \/ outcome' = [outcome EXCEPT ![r] = "answered"]
           \/ Leave(Cleanup(c)) /\ RejectAll
    BY <1>5 DEF RRDataReply
  <2>2. x \in Contexts
    BY <1>5, ReplyFacts DEF RRDataReply
  <2>3. Joins(eip.queue)
    <3>. HIDE DEF r, c
    <3>1. \A z \in Requests : outcome'[z] = "idle" => outcome[z] = "idle"
      BY <2>1 DEF TypeOK, RejectAll, Reject, Calls, Pending
    <3>. QED
      BY <3>1 DEF Joins
  <2>. HIDE DEF x
  <2>4. c \in Layers
    BY <1>1, <2>2, LayerUpdates
  <2>5. c.context = eip.context /\ c.queue = eip.queue
        /\ \A z \in Contexts : c.routes[z] \in {eip.routes[z], None}
    BY <1>1, <2>2 DEF Layers
  <2>. HIDE DEF c
  <2>6. CASE Leave(c)
    <3>1. Silent(eip.queue)
      BY <2>4, <2>5, <2>6, LeaveFacts DEF Silent
    <3>. QED
      BY <1>1, <1>3, <2>1, <2>3, <3>1 DEF Moves
  <2>7. CASE Leave(Cleanup(c))
    <3>. DEFINE e == Cleanup(c)
    <3>1. e \in Layers /\ e.queue = <<>> /\ \A z \in Contexts : e.routes[z] = None
      BY <2>4, CleanupFacts
    <3>2. e.context = c.context
      BY <2>4 DEF Cleanup, Layers
    <3>. HIDE DEF e
    <3>3. Leave(e)
      BY <2>7 DEF e
    <3>4. Silent(eip.queue)
      BY <2>5, <3>1, <3>2, <3>3, LeaveFacts DEF Silent
    <3>. QED
      BY <1>1, <1>3, <2>1, <2>3, <3>4 DEF Moves
  <2>. QED
    BY <2>1, <2>6, <2>7
<1>6. CASE UnitDataReply(s)
  <2>. DEFINE r == wire[s][1].request
  <2>1. DataEventAndSend(s, <<>>) /\ UNCHANGED eip
        /\ (outcome' = outcome \/ outcome' = [outcome EXCEPT ![r] = "answered"])
    BY <1>6 DEF UnitDataReply
  <2>. HIDE DEF r
  <2>2. Joins(eip.queue)
    <3>1. outcome \in [Requests \cup Users -> {"idle", "pending", "answered", "rejected"}]
      BY EipTypes DEF Calls
    <3>. QED
      BY <2>1, <3>1 DEF Joins
  <2>3. Silent(eip.queue)
    BY <2>1 DEF Silent
  <2>. QED
    BY <1>1, <1>3, <2>1, <2>2, <2>3 DEF Moves
<1>7. CASE ListReply(s)
  <2>. DEFINE settled == {v \in eip.waiting : Command[v] = Command[wire[s][1].user]}
              w == eip.waiting \ settled
  <2>1. DataEventAndSend(s, <<>>) /\ Leave([eip EXCEPT !.waiting = w])
        /\ \E result \in {"answered", "rejected"} :
             outcome' = [z \in Calls |-> IF z \in settled THEN result ELSE outcome[z]]
    BY <1>7 DEF ListReply
  <2>2. w \in SUBSET Users
    BY <1>1 DEF Layers
  <2>. HIDE DEF settled, w
  <2>3. Joins(eip.queue)
    <3>1. outcome \in [Requests \cup Users -> {"idle", "pending", "answered", "rejected"}]
      BY EipTypes DEF Calls
    <3>2. PICK result \in {"answered", "rejected"} :
            outcome' = [z \in Requests \cup Users |->
                          IF z \in settled THEN result ELSE outcome[z]]
      BY <2>1 DEF Calls
    <3>3. \A r \in Requests : outcome'[r] = "idle" => outcome[r] = "idle"
      BY <3>1, <3>2
    <3>. QED
      BY <3>3 DEF Joins
  <2>. DEFINE c == [eip EXCEPT !.waiting = w]
  <2>4. c \in Layers /\ c.context = eip.context /\ c.routes = eip.routes /\ c.queue = eip.queue
    <3>1. eip \in Layers
      BY EipTypes
    <3>2. c \in Layers
      BY <2>2, <3>1, LayerUpdates
    <3>. QED
      BY <3>1, <3>2 DEF Layers
  <2>5. Leave(c)
    BY <2>1
  <2>. HIDE DEF c
  <2>6. Silent(eip.queue)
    BY <2>4, <2>5, LeaveFacts DEF Silent
  <2>. QED
    BY <1>1, <1>3, <2>1, <2>3, <2>6 DEF Moves
<1>. QED
  BY <1>4, <1>5, <1>6, <1>7 DEF Replies

(* A step that leaves contexts or clears the layer, and sends at most an     *)
(* UnregisterSession.                                                        *)
LEMMA CleanupMoves ==
  ASSUME TypeOK, NEW M, NEW calls, Reject(calls), Leave(Cleanup(eip)), StillCarries(M)
  PROVE  \E q \in Seq(Requests) : Joins(q) /\ Moves(M, q)
<1>. DEFINE e == Cleanup(eip)
<1>1. eip \in Layers /\ eip.queue \in Seq(Requests)
  BY EipTypes DEF Layers
<1>2. e \in Layers /\ e.queue = <<>> /\ \A z \in Contexts : e.routes[z] = None
  BY <1>1, CleanupFacts
<1>3. e.context = eip.context
  BY <1>1 DEF Cleanup, Layers
<1>. HIDE DEF e
<1>4. Leave(e)
  BY DEF e
<1>5. Silent(eip.queue)
  BY <1>2, <1>3, <1>4, LeaveFacts DEF Silent
<1>6. \A z \in Requests : outcome'[z] = "idle" => outcome[z] = "idle"
  BY DEF TypeOK, Reject, Calls, Pending
<1>. QED
  BY <1>1, <1>5, <1>6 DEF Moves, Joins

LEMMA StillMoves ==
  ASSUME TypeOK, NEW M, StillCarries(M),
         \A z \in Requests : outcome'[z] = "idle" => outcome[z] = "idle",
         eip'.context = eip.context, eip'.routes = eip.routes, eip'.queue = eip.queue
  PROVE  \E q \in Seq(Requests) : Joins(q) /\ Moves(M, q)
<1>1. eip.queue \in Seq(Requests)
  BY EipTypes DEF Layers
<1>2. Silent(eip.queue) /\ Joins(eip.queue)
  BY DEF Silent, Joins
<1>. QED
  BY <1>1, <1>2 DEF Moves

(* Every step sends at most one message under a context.                     *)
LEMMA NextMoves ==
  ASSUME TypeOK, NEW M, Plain \subseteq M, Carries(M), [Next]_vars
  PROVE  \E q \in Seq(Requests) : Joins(q) /\ Moves(M, q)
<1>. DEFINE Goal == \E q \in Seq(Requests) : Joins(q) /\ Moves(M, q)
<1>0. TcpTypeOK /\ eip \in Layers
  BY EipTypes
<1>1. CASE Tick
  <2>1. StillCarries(M) /\ UNCHANGED <<eip, outcome>>
    BY <1>1, SendTickCarries DEF Tick, eipVars, StillCarries, Carries
  <2>. QED
    BY <2>1, StillMoves
<1>2. ASSUME NEW s \in Sockets, TakeSilently(s) PROVE Goal
  <2>1. wire[s] # <<>> /\ wire' = [wire EXCEPT ![s] = Tail(@)]
        /\ UNCHANGED <<tcpQueue, eip, outcome>>
    BY <1>2 DEF TakeSilently, Reply
  <2>2. StillCarries(M)
    BY <2>1, TakeOne DEF StillCarries, Carries
  <2>. QED
    BY <2>1, <2>2, StillMoves
<1>3. ASSUME NEW s \in Sockets, Connects(s) PROVE Goal
  <2>1. StillCarries(M) /\ UNCHANGED <<eip, outcome>>
    BY <1>3, ConnectEventCarries DEF Connects, eipVars, StillCarries, Carries
  <2>. QED
    BY <2>1, StillMoves
<1>4. ASSUME NEW s \in Sockets, Ended(s) PROVE Goal
  <2>1. StillCarries(M) /\ UNCHANGED <<eip, outcome>>
    BY <1>4, EndCallbackCarries DEF Ended, StillCarries, Carries
  <2>. QED
    BY <2>1, StillMoves
<1>5. ASSUME NEW s \in Sockets, Fail(s) PROVE Goal
  <2>1. PICK after \in Phases : SocketFailure(s, after)
    BY <1>5 DEF Fail
  <2>2. StillCarries(M)
    BY <2>1, InternalDestroyCarries DEF SocketFailure, StillCarries, Carries
  <2>. QED
    BY <1>5, <2>2, CleanupMoves DEF Fail, RejectAll
<1>6. CASE CloseLayers
  <2>1. UNCHANGED <<eip, tcpQueue, wire>>
        /\ \A z \in Requests : outcome'[z] = "idle" => outcome[z] = "idle"
    BY <1>6 DEF CloseLayers, CloseCalled, Reject, Calls, Pending, TypeOK
  <2>2. StillCarries(M)
    BY <2>1 DEF StillCarries, Carries
  <2>. QED
    BY <2>1, <2>2, StillMoves
<1>8. CASE UpperDisconnects
  <2>1. PICK ms \in Seq(Plain) : SendEach(ms, TRUE, wire)
    BY <1>8, UpperDisconnectsSends
  <2>2. ms \in Seq(M)
    BY SeqMonotonic
  <2>3. StillCarries(M)
    BY <1>0, <2>1, <2>2, SendEachType DEF StillCarries, Carries
  <2>. QED
    BY <1>8, <2>3, StillMoves, UpperDisconnectsSends DEF UpperDisconnects
<1>9. CASE UpperDestroys
  <2>1. StillCarries(M)
    BY <1>9 DEF UpperDestroys, StillCarries, Carries
  <2>. QED
    BY <1>9, <2>1, CleanupMoves DEF UpperDestroys
<1>10. CASE Disconnects \/ Destroys
  <2>1. StillCarries(M) /\ UNCHANGED <<eip, outcome>>
    BY <1>10, CloseCarries DEF Disconnects, Destroys, eipVars, StillCarries, Carries
  <2>. QED
    BY <2>1, StillMoves
<1>11. ASSUME NEW s \in Sockets, SocketClosed(s) PROVE Goal
  <2>1. StillCarries(M) /\ UNCHANGED <<eip, outcome>>
    BY <1>11 DEF SocketClosed, CloseEvent, eipVars, StillCarries, Carries
  <2>. QED
    BY <2>1, StillMoves
<1>7. CASE UNCHANGED vars
  <2>1. StillCarries(M) /\ UNCHANGED <<eip, outcome>>
    BY <1>7 DEF vars, tcpVars, eipVars, StillCarries, Carries
  <2>. QED
    BY <2>1, StillMoves
<1>. QED
  BY <1>1, <1>2, <1>3, <1>4, <1>5, <1>6, <1>7, <1>8, <1>9, <1>10, <1>11, IssueMoves,
     UserRequestMoves, ConnectCalledMoves, NextTickMoves, RepliesMove DEF Next

-----------------------------------------------------------------------------
(* Of the messages under a context, those whose request is filed there, or   *)
(* none is; and those of another context than the next.                      *)
Filed == {m \in Messages : m.kind = "rr" => eip.routes[m.context] \in {None, m.request}}

Fresh == {m \in Messages : m.kind = "rr" => m.context # IncrementContext(eip.context)}

(* Requests of which no message is sent yet.                                 *)
Unsent ==
  {r \in Requests : outcome[r] = "idle" \/ \E i \in 1 .. Len(eip.queue) : eip.queue[i] = r}

(* No context is used again while a message with it is under way.            *)
NoReuse == Unsent # {} => Carries(Fresh)

LEMMA CarriesBoth ==
  ASSUME NEW M, NEW N, Carries(M), Carries(N)
  PROVE  Carries(M \cap N)
<1>1. ASSUME NEW s, s \in Seq(M), s \in Seq(N) PROVE s \in Seq(M \cap N)
  <2>1. Len(s) \in Nat /\ s \in [1 .. Len(s) -> M] /\ s \in [1 .. Len(s) -> N]
    BY <1>1, LenProperties
  <2>2. s \in [1 .. Len(s) -> M \cap N]
    BY <2>1
  <2>. QED
    BY <2>1, <2>2
<1>2. tcpQueue \in [priority : Seq(M \cap N), normal : Seq(M \cap N)]
  <2>1. tcpQueue \in [priority : Seq(M), normal : Seq(M)]
        /\ tcpQueue \in [priority : Seq(N), normal : Seq(N)]
    BY DEF Carries, Queue
  <2>2. tcpQueue.priority \in Seq(M \cap N) /\ tcpQueue.normal \in Seq(M \cap N)
    BY <1>1, <2>1
  <2>. QED
    BY <2>1, <2>2
<1>3. wire \in [Sockets -> Seq(M \cap N)]
  BY <1>1 DEF Carries
<1>. QED
  BY <1>2, <1>3 DEF Carries, Queue

(* The first request of the queue is not sent yet.                           *)
LEMMA HeadIsUnsent ==
  ASSUME TypeOK, NEW q \in Seq(Requests), Joins(q), q # <<>>
  PROVE  Head(q) \in Unsent
<1>1. eip.queue \in Seq(Requests)
  BY EipTypes DEF Layers
<1>2. Head(q) \in Requests /\ Head(q) = q[1]
  BY HeadTailProperties
<1>3. CASE q = eip.queue
  <2>1. 1 \in 1 .. Len(eip.queue)
    BY <1>3, LenProperties, EmptySeq
  <2>. QED
    BY <1>2, <1>3, <2>1 DEF Unsent
<1>4. ASSUME NEW r \in Requests, outcome[r] = "idle", q = Append(eip.queue, r)
      PROVE  Head(q) \in Unsent
  <2>1. CASE eip.queue = <<>>
    <3>1. \A x : Head(Append(<<>>, x)) = x
      OBVIOUS
    <3>2. Head(q) = r
      BY <1>4, <2>1, <3>1
    <3>. QED
      BY <1>4, <3>2 DEF Unsent
  <2>2. CASE eip.queue # <<>>
    <3>1. 1 \in 1 .. Len(eip.queue)
      BY <1>1, <2>2, LenProperties, EmptySeq
    <3>2. q[1] = eip.queue[1]
      BY <1>1, <1>4, <3>1, AppendProperties
    <3>. QED
      BY <1>2, <3>1, <3>2 DEF Unsent
  <2>. QED
    BY <2>1, <2>2
<1>. QED
  BY <1>3, <1>4 DEF Joins

LEMMA NextFiled ==
  ASSUME TypeOK, Carries(Filed), NoReuse, [Next]_vars
  PROVE  Carries(Filed)'
<1>. DEFINE N == Filed'
<1>1. Plain \subseteq N /\ Plain \subseteq Messages
  BY DEF Plain, Filed
<1>2. Carries(Messages)
  BY MessagesAssumption DEF TypeOK, TcpTypeOK, Carries
<1>3. eip \in Layers /\ eip.routes \in [Contexts -> Requests \cup {None}]
  BY EipTypes DEF Layers
<1>4. ASSUME NEW q, Silent(q) PROVE Filed \subseteq N
  <2>1. ASSUME NEW m \in Messages, m.kind = "rr", eip.routes[m.context] \in {None, m.request}
        PROVE  eip'.routes[m.context] \in {None, m.request}
    <3>1. m.context \in Contexts
      BY <2>1 DEF Messages
    <3>. QED
      BY <1>4, <2>1, <3>1 DEF Silent
  <2>. QED
    BY <2>1 DEF Filed
<1>5. ASSUME NEW q, NEW m \in Messages, SpeaksTo(q, m)
      PROVE  m \in N /\ Filed \cap Fresh \subseteq N
  <2>1. m.context \in Contexts /\ eip'.routes = [eip.routes EXCEPT ![m.context] = m.request]
        /\ m.context = IncrementContext(eip.context)
    BY <1>5 DEF SpeaksTo, Messages
  <2>2. eip'.routes[m.context] = m.request
    BY <1>3, <2>1
  <2>3. ASSUME NEW x \in Messages, x.kind = "rr", x.context # m.context,
               eip.routes[x.context] \in {None, x.request}
        PROVE  eip'.routes[x.context] \in {None, x.request}
    BY <1>3, <2>1, <2>3
  <2>. QED
    BY <2>1, <2>2, <2>3 DEF Filed, Fresh
<1>6. Carries(N)
  <2>1. PICK q \in Seq(Requests) : Joins(q) /\ Moves(Messages, q)
    BY <1>1, <1>2, NextMoves
  <2>2. CASE Silent(q)
    <3>1. Filed \subseteq N
      BY <1>4, <2>2
    <3>. HIDE DEF N
    <3>. QED
      BY <3>1, CarriesMore
  <2>3. ASSUME NEW m \in Messages, SpeaksTo(q, m) PROVE Carries(N)
    <3>1. Unsent # {}
      BY <2>1, <2>3, HeadIsUnsent DEF SpeaksTo
    <3>2. Carries(Filed \cap Fresh)
      BY <3>1, CarriesBoth DEF NoReuse
    <3>3. Filed \cap Fresh \subseteq N
      BY <1>5, <2>3
    <3>. HIDE DEF N
    <3>. QED
      BY <3>2, <3>3, CarriesMore
  <2>. QED
    BY <2>1, <2>2, <2>3 DEF Moves
<1>7. StillCarries(N)
  <2>1. \A q : \A m \in Messages : SpeaksTo(q, m) => m \in N
    BY <1>5
  <2>. HIDE DEF N
  <2>2. PICK q \in Seq(Requests) : Joins(q) /\ Moves(N, q)
    BY <1>1, <1>6, NextMoves
  <2>. QED
    BY <2>1, <2>2 DEF Moves
<1>. QED
  BY <1>7 DEF StillCarries, Carries

LEMMA InitFiled == Init => Carries(Filed)
<1>. SUFFICES ASSUME Init PROVE Carries(Filed)
  OBVIOUS
<1>1. tcpQueue = EmptyQueue /\ wire = [s \in Sockets |-> <<>>]
  BY DEF Init, TcpInit
<1>2. <<>> \in Seq(Filed)
  BY EmptySeq
<1>. QED
  BY <1>1, <1>2 DEF Carries, EmptyQueue, Queue

-----------------------------------------------------------------------------
(* A step of this layer is one of RequestService.                            *)
ServiceOutcome ==
  [r \in Requests |-> IF outcome[r] = "answered" /\ answer[r] # r THEN "mistaken" ELSE outcome[r]]

LEMMA InitServes == Init => Service!Init
BY DEF Init, Service!Init, Calls

LEMMA Answers ==
  ASSUME TypeOK, NEW r \in Requests, outcome[r] = "pending",
         outcome' = [outcome EXCEPT ![r] = "answered"], answer' = [answer EXCEPT ![r] = r]
  PROVE  Service!Next
<1>1. ServiceOutcome[r] = "pending" /\ ServiceOutcome' = [ServiceOutcome EXCEPT ![r] = "answered"]
  BY DEF ServiceOutcome, TypeOK, Calls
<1>. QED
  BY <1>1 DEF Service!Next, Service!Answer, ServiceOutcome

LEMMA Rejects ==
  ASSUME TypeOK, NEW calls, Requests \subseteq calls, Reject(calls), UNCHANGED answer
  PROVE  Service!Next
<1>. DEFINE rejected == {r \in Requests : ServiceOutcome[r] = "pending"}
<1>1. ServiceOutcome' = [r \in Requests |-> CASE r \in rejected -> "rejected"
                                              [] r \in {} -> "pending"
                                              [] OTHER -> ServiceOutcome[r]]
  BY DEF ServiceOutcome, TypeOK, Calls, Reject, Pending
<1>2. rejected \in SUBSET {r \in Requests : ServiceOutcome[r] = "pending"}
      /\ {} \in SUBSET {r \in Requests : ServiceOutcome[r] = "idle"}
  OBVIOUS
<1>. QED
  BY <1>1, <1>2 DEF Service!Next, Service!Reject, ServiceOutcome

LEMMA OthersServe ==
  ASSUME TypeOK, UNCHANGED answer, \A r \in Requests : outcome'[r] = outcome[r]
  PROVE  UNCHANGED ServiceOutcome
BY DEF ServiceOutcome

LEMMA StepServes ==
  ASSUME TypeOK, Carries(Filed), [Next]_vars
  PROVE  [Service!Next]_ServiceOutcome
<1>. DEFINE Goal == [Service!Next]_ServiceOutcome
<1>1. ASSUME NEW r \in Requests, Issue(r) PROVE Goal
  <2>1. outcome[r] = "idle" /\ outcome' = [outcome EXCEPT ![r] = "pending"] /\ answer' = answer
    BY <1>1 DEF Issue
  <2>2. ServiceOutcome[r] = "idle"
        /\ ServiceOutcome' = [ServiceOutcome EXCEPT ![r] = "pending"]
    BY <2>1 DEF ServiceOutcome, TypeOK, Calls
  <2>. QED
    BY <2>2 DEF Service!Next, Service!Issue, ServiceOutcome
<1>2. ASSUME NEW u \in Users, UserRequest(u) PROVE Goal
  <2>1. u \notin Requests /\ answer' = answer
    BY <1>2, EipAssumption DEF UserRequest
  <2>2. \A r \in Requests : outcome'[r] = outcome[r]
    BY <1>2, <2>1 DEF UserRequest, TypeOK, Calls
  <2>. QED
    BY <2>1, <2>2, OthersServe
<1>3. ASSUME NEW s \in Sockets, RRDataReply(s) PROVE Goal
  <2>. DEFINE m == wire[s][1]
              r == eip.routes[m.context]
  <2>1. m \in Filed /\ m.kind = "rr"
    <3>1. wire[s] \in Seq(Filed) /\ wire[s] # <<>> /\ m.kind = "rr"
      BY <1>3 DEF Carries, RRDataReply, Reply
    <3>2. Head(wire[s]) \in Filed
      BY <3>1, HeadTailProperties
    <3>. QED
      BY <3>1, <3>2
  <2>2. r \in {None, m.request} /\ m.request \in Requests
    <3>. HIDE DEF m
    <3>. QED
      BY <2>1 DEF Filed, Messages
  <2>3. \/ UNCHANGED <<outcome, answer>>
        \/ /\ r \in Pending /\ outcome' = [outcome EXCEPT ![r] = "answered"]
           /\ answer' = [answer EXCEPT ![r] = m.request]
        \/ RejectAll /\ UNCHANGED answer
    BY <1>3 DEF RRDataReply
  <2>. HIDE DEF m, r
  <2>4. CASE /\ r \in Pending /\ outcome' = [outcome EXCEPT ![r] = "answered"]
             /\ answer' = [answer EXCEPT ![r] = m.request]
    <3>1. r # None
      BY <2>4, EipAssumption DEF Pending, Calls, None
    <3>2. r = m.request /\ r \in Requests /\ outcome[r] = "pending"
      BY <2>2, <2>4, <3>1 DEF Pending
    <3>. QED
      BY <2>4, <3>2, Answers
  <2>5. CASE RejectAll /\ UNCHANGED answer
    <3>1. Requests \subseteq Requests \cup eip.waiting
      OBVIOUS
    <3>. QED
      BY <2>5, <3>1, Rejects DEF RejectAll
  <2>. QED
    BY <2>3, <2>4, <2>5, OthersServe
<1>4. ASSUME NEW s \in Sockets, UnitDataReply(s) PROVE Goal
  <2>. DEFINE r == wire[s][1].request
  <2>1. \/ UNCHANGED <<outcome, answer>>
        \/ /\ r \in Pending /\ outcome' = [outcome EXCEPT ![r] = "answered"]
           /\ answer' = [answer EXCEPT ![r] = r]
    BY <1>4 DEF UnitDataReply
  <2>2. r \in Requests
    BY <1>4, ReplyFacts DEF UnitDataReply
  <2>. HIDE DEF r
  <2>. QED
    BY <2>1, <2>2, Answers, OthersServe DEF Pending
<1>5. ASSUME NEW s \in Sockets, ListReply(s) PROVE Goal
  <2>. DEFINE settled == {v \in eip.waiting : Command[v] = Command[wire[s][1].user]}
  <2>1. answer' = answer
        /\ \E result \in {"answered", "rejected"} :
             outcome' = [z \in Calls |-> IF z \in settled THEN result ELSE outcome[z]]
    BY <1>5 DEF ListReply
  <2>2. \A r \in Requests : r \notin settled
    BY EipAssumption DEF TypeOK
  <2>. HIDE DEF settled
  <2>3. \A r \in Requests : outcome'[r] = outcome[r]
    BY <2>1, <2>2 DEF Calls
  <2>. QED
    BY <2>1, <2>3, OthersServe
<1>6. ASSUME UNCHANGED <<outcome, answer>> PROVE Goal
  BY <1>6, OthersServe
<1>7. ASSUME NEW s \in Sockets,
             \/ RegisterReply(s) \/ TakeSilently(s) \/ Connects(s)
             \/ SocketClosed(s) \/ Ended(s)
      PROVE  Goal
  BY <1>6, <1>7 DEF RegisterReply, TakeSilently, Connects, SocketClosed, Ended, eipVars
<1>8. ASSUME \/ ConnectCalled \/ NextTick \/ Tick \/ UNCHANGED vars
             \/ UpperDisconnects \/ Disconnects \/ Destroys
      PROVE  Goal
  BY <1>6, <1>8 DEF ConnectCalled, NextTick, Tick, UpperDisconnects, Disconnects, Destroys, vars,
                    eipVars
<1>9. ASSUME NEW s \in Sockets, Fail(s) PROVE Goal
  <2>1. Requests \subseteq Requests \cup eip.waiting
    OBVIOUS
  <2>. QED
    BY <1>9, <2>1, Rejects DEF Fail, RejectAll
<1>10. ASSUME CloseLayers PROVE Goal
  BY <1>10, Rejects DEF CloseLayers
<1>11. ASSUME UpperDestroys PROVE Goal
  <2>1. answer' = answer /\ Reject(eip.waiting) /\ eip.waiting \subseteq Users
    BY <1>11, EipTypes DEF UpperDestroys, Layers
  <2>2. \A r \in Requests : outcome'[r] = outcome[r]
    BY <2>1, EipAssumption DEF Reject, Calls
  <2>. QED
    BY <2>1, <2>2, OthersServe
<1>. QED
  BY <1>1, <1>2, <1>3, <1>4, <1>5, <1>7, <1>8, <1>9, <1>10, <1>11 DEF Next, Replies

(* The messages under way agree with the routes of the contexts.             *)
THEOREM RoutesAgree == Spec /\ []NoReuse => [](TypeOK /\ Carries(Filed))
<1>1. Init => TypeOK /\ Carries(Filed)
  BY InitSockets, InitFiled
<1>2. TypeOK /\ Carries(Filed) /\ NoReuse /\ [Next]_vars => Carries(Filed)'
  BY NextFiled
<1>. QED
  BY <1>1, <1>2, EipSessionTypes, PTL DEF Spec

(* The layer implements RequestService for the layer above, as long as no    *)
(* sender context is used again while a message with it is under way.        *)
THEOREM EveryAnswerIsItsOwn == Spec /\ []NoReuse => ImplementsService
<1>1. Init => Service!Init
  BY InitServes
<1>2. TypeOK /\ Carries(Filed) /\ [Next]_vars => [Service!Next]_ServiceOutcome
  BY StepServes
<1>. QED
  BY <1>1, <1>2, RoutesAgree, PTL DEF Spec, ImplementsService, Service!Spec, ServiceOutcome

-----------------------------------------------------------------------------
(* The contexts last for as many requests as there are contexts.  They are   *)
(* numbered in the order they are used in, ...                               *)
Counts(number, N) ==
  /\ N \in Nat \ {0} /\ number \in [Contexts -> 0 .. N - 1]
  /\ \A x \in Contexts :
       number[IncrementContext(x)] = IF number[x] = N - 1 THEN 0 ELSE number[x] + 1

Wrap(n, N) == IF n < N THEN n ELSE n - N

(* ... and what is under way has none of the next contexts, one for every    *)
(* request not sent yet.                                                     *)
Ahead(number, N) ==
  {m \in Messages : m.kind = "rr" =>
     \A i \in 1 .. Cardinality(Unsent) :
       number[m.context] # Wrap(number[eip.context] + i, N)}

(* A request waits once, and after it was issued.                            *)
Once ==
  \A i \in 1 .. Len(eip.queue) :
    /\ outcome[eip.queue[i]] # "idle"
    /\ \A j \in 1 .. Len(eip.queue) : eip.queue[i] = eip.queue[j] => i = j

(* The same of the queue a handler finds.                                    *)
LEMMA JoinsOnce ==
  ASSUME TypeOK, Once, NEW q \in Seq(Requests), Joins(q)
  PROVE  /\ \A i \in 1 .. Len(q) : /\ outcome'[q[i]] # "idle" /\ q[i] \in Unsent
                                   /\ \A j \in 1 .. Len(q) : q[i] = q[j] => i = j
         /\ \A r \in Requests : outcome'[r] = "idle" => outcome[r] = "idle"
<1>1. eip.queue \in Seq(Requests) /\ Len(eip.queue) \in Nat
      /\ \A i \in 1 .. Len(eip.queue) : eip.queue[i] \in Requests
  BY EipTypes, LenProperties, ElementOfSeq DEF Layers
<1>2. \A i \in 1 .. Len(eip.queue) : eip.queue[i] \in Unsent
  BY <1>1 DEF Unsent
<1>3. CASE q = eip.queue /\ \A r \in Requests : outcome'[r] = "idle" => outcome[r] = "idle"
  BY <1>1, <1>2, <1>3 DEF Once
<1>4. ASSUME NEW r \in Requests, outcome[r] = "idle",
             outcome' = [outcome EXCEPT ![r] = "pending"], q = Append(eip.queue, r)
      PROVE  /\ \A i \in 1 .. Len(q) : /\ outcome'[q[i]] # "idle" /\ q[i] \in Unsent
                                       /\ \A j \in 1 .. Len(q) : q[i] = q[j] => i = j
             /\ \A z \in Requests : outcome'[z] = "idle" => outcome[z] = "idle"
  <2>. DEFINE n == Len(eip.queue)
  <2>1. n \in Nat /\ Len(q) = n + 1 /\ q[n + 1] = r
        /\ \A i \in 1 .. n : q[i] = eip.queue[i]
    BY <1>1, <1>4, AppendProperties
  <2>2. \A z \in Requests : outcome'[z] = IF z = r THEN "pending" ELSE outcome[z]
    BY <1>4 DEF TypeOK, Calls
  <2>3. \A i \in 1 .. n : q[i] # r /\ q[i] \in Requests /\ q[i] \in Unsent
                          /\ outcome[q[i]] # "idle"
    BY <1>1, <1>2, <1>4, <2>1 DEF Once
  <2>4. \A i \in 1 .. n : \A j \in 1 .. n : q[i] = q[j] => i = j
    BY <2>1 DEF Once
  <2>5. r \in Unsent
    BY <1>4 DEF Unsent
  <2>. HIDE DEF n
  <2>6. \A i \in 1 .. n + 1 : i = n + 1 \/ i \in 1 .. n
    BY <2>1
  <2>7. \A i \in 1 .. n + 1 : outcome'[q[i]] # "idle" /\ q[i] \in Unsent
    BY <1>4, <2>1, <2>2, <2>3, <2>5, <2>6
  <2>8. \A i \in 1 .. n + 1 : \A j \in 1 .. n + 1 : q[i] = q[j] => i = j
    BY <2>1, <2>3, <2>4, <2>6
  <2>9. \A z \in Requests : outcome'[z] = "idle" => outcome[z] = "idle"
    BY <2>2
  <2>. QED
    BY <2>1, <2>7, <2>8, <2>9
<1>. QED
  BY <1>3, <1>4 DEF Joins

LEMMA NextOnce ==
  ASSUME TypeOK, Once, NEW q \in Seq(Requests), Joins(q),
         \/ eip'.queue = q \/ eip'.queue = <<>>
         \/ q # <<>> /\ eip'.queue = Tail(q)
  PROVE  /\ Once' /\ Unsent' \subseteq Unsent
         /\ q # <<>> /\ eip'.queue = Tail(q) => Head(q) \in Unsent /\ Head(q) \notin Unsent'
<1>. DEFINE n == Len(q)
            p == eip'.queue
<1>1. /\ n \in Nat
      /\ \A i \in 1 .. n : /\ outcome'[q[i]] # "idle" /\ q[i] \in Unsent
                           /\ \A j \in 1 .. n : q[i] = q[j] => i = j
      /\ \A r \in Requests : outcome'[r] = "idle" => outcome[r] = "idle"
  BY JoinsOnce, LenProperties
<1>2. PICK k \in {0, 1, n} :
        /\ Len(p) \in Nat /\ \A i \in 1 .. Len(p) : i + k \in 1 .. n /\ p[i] = q[i + k]
        /\ q # <<>> /\ p = Tail(q) => k = 1
  <2>1. CASE q # <<>> /\ p = Tail(q)
    <3>1. Len(p) = n - 1 /\ Len(p) \in Nat /\ \A i \in 1 .. Len(p) : p[i] = q[i + 1]
      BY <2>1, HeadTailProperties, LenProperties
    <3>. HIDE DEF p, n
    <3>2. \A i \in 1 .. Len(p) : i + 1 \in 1 .. n
      BY <1>1, <3>1
    <3>. QED
      BY <3>1, <3>2
  <2>2. CASE p = q /\ ~(q # <<>> /\ p = Tail(q))
    <3>1. \A i \in 1 .. n : i + 0 = i
      BY <1>1
    <3>. QED
      BY <1>1, <2>2, <3>1
  <2>3. CASE p = <<>> /\ ~(q # <<>> /\ p = Tail(q))
    <3>1. Len(p) = 0
      BY <2>3
    <3>. QED
      BY <2>3, <3>1
  <2>. QED
    BY <2>1, <2>2, <2>3
<1>. HIDE DEF n, p
<1>3. k \in Nat
  BY <1>1, <1>2
<1>4. Once'
  <2>1. ASSUME NEW i \in 1 .. Len(p) PROVE outcome'[p[i]] # "idle"
    <3>1. \A j \in 1 .. n : outcome'[q[j]] # "idle"
      BY <1>1
    <3>2. i + k \in 1 .. n /\ p[i] = q[i + k]
      BY <1>2
    <3>. QED
      BY <3>1, <3>2
  <2>2. ASSUME NEW i \in 1 .. Len(p), NEW j \in 1 .. Len(p), p[i] = p[j] PROVE i = j
    <3>1. i + k = j + k
      BY <1>1, <1>2, <2>2
    <3>. QED
      BY <1>2, <1>3, <3>1
  <2>. QED
    BY <2>1, <2>2 DEF Once, p
<1>5. Unsent' \subseteq Unsent
  <2>1. ASSUME NEW r \in Requests, outcome'[r] = "idle" PROVE r \in Unsent
    BY <1>1, <2>1 DEF Unsent
  <2>2. ASSUME NEW i \in 1 .. Len(p) PROVE p[i] \in Unsent
    BY <1>1, <1>2
  <2>. QED
    BY <2>1, <2>2 DEF Unsent, p
<1>6. ASSUME q # <<>>, p = Tail(q) PROVE Head(q) \in Unsent /\ Head(q) \notin Unsent'
  <2>1. Head(q) = q[1] /\ 1 \in 1 .. n /\ k = 1
    BY <1>1, <1>2, <1>6, HeadTailProperties, EmptySeq, LenProperties DEF n
  <2>2. \A i \in 1 .. Len(p) : p[i] # q[1]
    <3>1. \A i \in 1 .. Len(p) : i + 1 # 1
      BY <1>2
    <3>. QED
      BY <1>1, <1>2, <2>1, <3>1
  <2>3. outcome'[q[1]] # "idle" /\ q[1] \in Unsent
    BY <1>1, <2>1
  <2>. QED
    BY <2>1, <2>2, <2>3 DEF Unsent, p
<1>. QED
  BY <1>4, <1>5, <1>6 DEF p

LEMMA NextAhead ==
  ASSUME TypeOK, Once, IsFiniteSet(Requests), NEW N, NEW number, Counts(number, N),
         Cardinality(Requests) <= N, Carries(Ahead(number, N)), [Next]_vars
  PROVE  Once' /\ Carries(Ahead(number, N))'
<1>. DEFINE A == Ahead(number, N)
            B == Ahead(number, N)'
            u == Cardinality(Unsent)
            v == Cardinality(Unsent')
            c == number[eip.context]
<1>1. Plain \subseteq B /\ Plain \subseteq Messages
  BY DEF Plain, Ahead
<1>2. Carries(Messages)
  BY MessagesAssumption DEF TypeOK, TcpTypeOK, Carries
<1>3. eip \in Layers /\ eip.context \in Contexts
  BY EipTypes DEF Layers
<1>4. N \in Nat \ {0} /\ c \in 0 .. N - 1 /\ \A x \in Contexts : number[x] \in 0 .. N - 1
  BY <1>3 DEF Counts
<1>5. IsFiniteSet(Unsent) /\ u \in Nat /\ u <= N
  <2>1. Unsent \subseteq Requests
    BY DEF Unsent
  <2>2. IsFiniteSet(Unsent) /\ Cardinality(Unsent) <= Cardinality(Requests)
    BY <2>1, FS_Subset
  <2>3. Cardinality(Unsent) \in Nat /\ Cardinality(Requests) \in Nat
    BY <2>2, FS_CardinalityType
  <2>. QED
    BY <1>4, <2>2, <2>3
<1>6. ASSUME NEW q \in Seq(Requests), Joins(q), Silent(q)
      PROVE  Once' /\ A \subseteq B
  <2>1. Once' /\ Unsent' \subseteq Unsent
    BY <1>6, NextOnce DEF Silent
  <2>2. v \in Nat /\ v <= u
    BY <1>5, <2>1, FS_Subset, FS_CardinalityType
  <2>3. 1 .. v \subseteq 1 .. u
    <3>. HIDE DEF u, v
    <3>. QED
      BY <1>5, <2>2
  <2>4. number[eip'.context] = c
    BY <1>6 DEF Silent
  <2>5. A \subseteq B
    BY <2>3, <2>4 DEF Ahead
  <2>. QED
    BY <2>1, <2>5
<1>7. ASSUME NEW q \in Seq(Requests), Joins(q), NEW m \in Messages, SpeaksTo(q, m)
      PROVE  Once' /\ A \subseteq B /\ m \in B
  <2>1. q # <<>> /\ eip'.queue = Tail(q) /\ eip'.context = m.context /\ m.kind = "rr"
        /\ m.context = IncrementContext(eip.context) /\ m.context \in Contexts
    BY <1>7 DEF SpeaksTo, Messages
  <2>2. Once' /\ Unsent' \subseteq Unsent /\ Head(q) \in Unsent /\ Head(q) \notin Unsent'
    BY <1>7, <2>1, NextOnce
  <2>3. v \in Nat /\ v <= u - 1
    <3>. DEFINE W == Unsent \ {Head(q)}
    <3>1. IsFiniteSet(W) /\ Cardinality(W) = Cardinality(Unsent) - 1
      BY <1>5, <2>2, FS_RemoveElement
    <3>2. Unsent' \subseteq W
      BY <2>2
    <3>. HIDE DEF W
    <3>3. Cardinality(Unsent') <= Cardinality(W) /\ IsFiniteSet(Unsent')
      BY <3>1, <3>2, FS_Subset
    <3>. QED
      BY <3>1, <3>3, FS_CardinalityType
  <2>. DEFINE d == number[m.context]
  <2>4. d = Wrap(c + 1, N) /\ number[eip'.context] = d
    <3>1. d = IF c = N - 1 THEN 0 ELSE c + 1
      BY <1>3, <2>1 DEF Counts
    <3>. HIDE DEF c, d
    <3>2. d = Wrap(c + 1, N)
      BY <1>4, <3>1 DEF Wrap
    <3>. QED
      BY <2>1, <3>2 DEF d
  <2>. HIDE DEF c, d, u, v
  <2>5. ASSUME NEW i \in 1 .. v
        PROVE  Wrap(d + i, N) # d /\ i + 1 \in 1 .. u /\ Wrap(d + i, N) = Wrap(c + (i + 1), N)
    <3>1. i \in Nat /\ i >= 1 /\ i <= N - 1
      BY <1>4, <1>5, <2>3
    <3>2. c \in Nat /\ c <= N - 1 /\ N \in Nat
      BY <1>4
    <3>. QED
      BY <1>5, <2>3, <2>4, <3>1, <3>2 DEF Wrap
  <2>6. m \in B
    BY <2>1, <2>4, <2>5 DEF Ahead, v, d
  <2>7. A \subseteq B
    <3>1. ASSUME NEW x \in Messages, NEW i \in 1 .. v,
                 \A j \in 1 .. u : number[x.context] # Wrap(c + j, N)
          PROVE  number[x.context] # Wrap(d + i, N)
      BY <2>5, <3>1
    <3>2. \A x \in A : x \in Messages /\ (x.kind = "rr" =>
             \A j \in 1 .. u : number[x.context] # Wrap(c + j, N))
      BY DEF Ahead, c, u
    <3>3. \A x \in Messages : (x.kind = "rr" =>
             \A i \in 1 .. v : number[x.context] # Wrap(d + i, N)) => x \in B
      BY <2>4 DEF Ahead, v
    <3>. HIDE DEF A, B
    <3>. QED
      BY <3>1, <3>2, <3>3
  <2>. QED
    BY <2>2, <2>6, <2>7
<1>8. Once' /\ Carries(B)
  <2>1. PICK q \in Seq(Requests) : Joins(q) /\ Moves(Messages, q)
    BY <1>1, <1>2, NextMoves
  <2>2. Once' /\ A \subseteq B
    BY <1>6, <1>7, <2>1 DEF Moves
  <2>. HIDE DEF A, B
  <2>3. Carries(A)
    BY DEF A
  <2>. QED
    BY <2>2, <2>3, CarriesMore
<1>9. StillCarries(B)
  <2>1. \A q \in Seq(Requests) : \A m \in Messages : Joins(q) /\ SpeaksTo(q, m) => m \in B
    BY <1>7
  <2>. HIDE DEF B
  <2>2. PICK q \in Seq(Requests) : Joins(q) /\ Moves(B, q)
    BY <1>1, <1>8, NextMoves
  <2>. QED
    BY <2>1, <2>2 DEF Moves
<1>. QED
  BY <1>8, <1>9 DEF StillCarries, Carries

LEMMA AheadIsFresh ==
  ASSUME TypeOK, IsFiniteSet(Requests), NEW N, NEW number, Counts(number, N),
         Carries(Ahead(number, N))
  PROVE  NoReuse
<1>. SUFFICES ASSUME Unsent # {} PROVE Carries(Fresh)
  BY DEF NoReuse
<1>. DEFINE u == Cardinality(Unsent)
            c == number[eip.context]
            A == Ahead(number, N)
<1>1. eip.context \in Contexts
  BY EipTypes DEF Layers
<1>2. N \in Nat \ {0} /\ c \in 0 .. N - 1
      /\ number[IncrementContext(eip.context)] = IF c = N - 1 THEN 0 ELSE c + 1
  BY <1>1 DEF Counts
<1>3. 1 \in 1 .. u
  <2>1. Unsent \subseteq Requests
    BY DEF Unsent
  <2>2. IsFiniteSet(Unsent)
    BY <2>1, FS_Subset
  <2>3. Cardinality(Unsent) \in Nat /\ Cardinality(Unsent) # 0
    BY <2>2, FS_CardinalityType, FS_EmptySet
  <2>. QED
    BY <2>3
<1>4. number[IncrementContext(eip.context)] = Wrap(c + 1, N)
  <2>. HIDE DEF c
  <2>. QED
    BY <1>2 DEF Wrap
<1>5. A \subseteq Fresh
  <2>1. ASSUME NEW m \in A, m.kind = "rr" PROVE m.context # IncrementContext(eip.context)
    <3>1. number[m.context] # Wrap(c + 1, N)
      BY <1>3, <2>1 DEF Ahead
    <3>. HIDE DEF c
    <3>. QED
      BY <1>4, <3>1
  <2>. QED
    BY <2>1 DEF Ahead, Fresh
<1>. HIDE DEF A
<1>6. Carries(A)
  BY DEF A
<1>. QED
  BY <1>5, <1>6, CarriesMore

LEMMA InitAhead ==
  ASSUME NEW N, NEW number, Init
  PROVE  Once /\ Carries(Ahead(number, N))
<1>1. tcpQueue = EmptyQueue /\ wire = [s \in Sockets |-> <<>>] /\ eip.queue = <<>>
  BY DEF Init, TcpInit
<1>2. <<>> \in Seq(Ahead(number, N))
  BY EmptySeq
<1>3. Once
  BY <1>1 DEF Once
<1>. QED
  BY <1>1, <1>2, <1>3 DEF Carries, EmptyQueue, Queue

-----------------------------------------------------------------------------
(* Such numbers exist, however many bytes a context has: the ones of the     *)
(* first bytes and the next byte make one of one byte more.                  *)
LEMMA SetInduction ==
  ASSUME NEW S, 0 \in S, \A n \in Nat : n \in S => n + 1 \in S
  PROVE  Nat \subseteq S
<1>. DEFINE Less == {p \in Nat \X Nat : p[1] < p[2]}
            T == Nat \ S
<1>. SUFFICES ASSUME T # {} PROVE FALSE
  OBVIOUS
<1>1. IsWellFoundedOn(Less, Nat)
  BY NatLessThanWellFounded DEF OpToRel
<1>2. T \subseteq Nat
  OBVIOUS
<1>3. \A x \in T : x # 0 /\ x - 1 \in Nat /\ x - 1 \in T /\ <<x - 1, x>> \in Less
  <2>1. ASSUME NEW x \in T PROVE x # 0 /\ x - 1 \in Nat /\ (x - 1) + 1 = x
    OBVIOUS
  <2>2. ASSUME NEW x \in T PROVE x - 1 \in T
    BY <2>1
  <2>3. ASSUME NEW x \in T PROVE <<x - 1, x>> \in Less
    BY <2>1
  <2>. QED
    BY <2>1, <2>2, <2>3
<1>. HIDE DEF Less, T
<1>4. \E x \in T : \A y \in T : ~ (<<y, x>> \in Less)
  BY <1>1, <1>2, WFMin
<1>. QED
  BY <1>3, <1>4

Vectors(n) == [1 .. n -> 0 .. Octets - 1]

Following(n, x) ==
  [i \in 1 .. n |->
     IF \A j \in 1 .. i - 1 : x[j] = Octets - 1 THEN (x[i] + 1) % Octets ELSE x[i]]

Full(n, x) == \A j \in 1 .. n : x[j] = Octets - 1

Numbers(n, N, f) ==
  /\ N \in Nat \ {0} /\ f \in [Vectors(n) -> 0 .. N - 1]
  /\ \A x \in Vectors(n) : f[x] = N - 1 <=> Full(n, x)
  /\ \A x \in Vectors(n) : f[Following(n, x)] = IF f[x] = N - 1 THEN 0 ELSE f[x] + 1
  /\ \A x, y \in Vectors(n) : f[x] = f[y] => x = y

(* Numbers of two digits, the second of K values.                            *)
LEMMA TwoDigits ==
  ASSUME NEW N \in Nat \ {0}, NEW K \in Nat \ {0}
  PROVE  /\ N * K \in Nat \ {0}
         /\ \A a \in 0 .. N - 1, b \in 0 .. K - 1 :
              /\ a + N * b \in 0 .. N * K - 1
              /\ a + N * b = N * K - 1 <=> a = N - 1 /\ b = K - 1
              /\ (N - 1) + N * b + 1 = 0 + N * (b + 1)
         /\ \A a \in 0 .. N - 1, b \in 0 .. K - 1, c \in 0 .. N - 1, d \in 0 .. K - 1 :
              a + N * b = c + N * d => a = c /\ b = d
<1>1. \A b \in Nat, d \in Nat : b < d => N * b + N <= N * d
  <2>1. ASSUME NEW b \in Nat, NEW d \in Nat, b < d PROVE N * b + N <= N * d
    <3>1. d - b - 1 \in Nat
      BY <2>1
    <3>2. N * (d - b - 1) \in Nat
      BY <3>1
    <3>3. N * d = N * b + N + N * (d - b - 1)
      OBVIOUS
    <3>4. N * b \in Nat /\ N * d \in Nat
      OBVIOUS
    <3>. QED
      BY <3>2, <3>3, <3>4
  <2>. QED
    BY <2>1
<1>2. \A b \in Nat : N * b \in Nat
  OBVIOUS
<1>3. N * K \in Nat /\ N <= N * K
  <2>1. N * 0 = 0
    OBVIOUS
  <2>2. N * 0 + N <= N * K
    BY <1>1
  <2>. QED
    BY <1>2, <2>1, <2>2
<1>4. \A b \in Nat : N * (b + 1) = N * b + N
  OBVIOUS
<1>5. ASSUME NEW a \in 0 .. N - 1, NEW b \in 0 .. K - 1
      PROVE  /\ a + N * b \in 0 .. N * K - 1
             /\ a + N * b = N * K - 1 <=> a = N - 1 /\ b = K - 1
             /\ (N - 1) + N * b + 1 = 0 + N * (b + 1)
  <2>1. N * b \in Nat /\ N * b + N <= N * K /\ b \in Nat
    BY <1>1, <1>2
  <2>2. a + N * b \in 0 .. N * K - 1
    BY <1>3, <2>1
  <2>3. ASSUME b # K - 1 PROVE N * b + N + N <= N * K
    <3>1. b + 1 \in Nat /\ b + 1 < K
      BY <2>1, <2>3
    <3>2. N * (b + 1) + N <= N * K
      BY <1>1, <3>1
    <3>. QED
      BY <1>4, <2>1, <3>2
  <2>4. b = K - 1 => N * b + N = N * K
    BY <1>4, <2>1
  <2>5. a + N * b = N * K - 1 => a = N - 1 /\ b = K - 1
    BY <1>3, <2>1, <2>3, <2>4
  <2>6. a = N - 1 /\ b = K - 1 => a + N * b = N * K - 1
    BY <1>3, <2>1, <2>4
  <2>7. (N - 1) + N * b + 1 = 0 + N * (b + 1)
    BY <1>4, <2>1
  <2>. QED
    BY <2>2, <2>5, <2>6, <2>7
<1>6. ASSUME NEW a \in 0 .. N - 1, NEW b \in 0 .. K - 1, NEW c \in 0 .. N - 1,
             NEW d \in 0 .. K - 1, a + N * b = c + N * d
      PROVE  a = c /\ b = d
  <2>1. N * b \in Nat /\ N * d \in Nat /\ b \in Nat /\ d \in Nat
    BY <1>2
  <2>2. ~(b < d)
    BY <1>1, <1>6, <2>1
  <2>3. ~(d < b)
    BY <1>1, <1>6, <2>1
  <2>4. b = d
    BY <2>1, <2>2, <2>3
  <2>. QED
    BY <1>6, <2>1, <2>4
<1>. QED
  BY <1>3, <1>5, <1>6

LEMMA NumbersNone == \E N, f : Numbers(0, N, f)
<1>. DEFINE f == [x \in Vectors(0) |-> 0]
<1>1. \A x, y \in Vectors(0) : x = y
  BY DEF Vectors
<1>2. \A x \in Vectors(0) : Following(0, x) \in Vectors(0)
  BY DEF Vectors, Following
<1>3. \A x \in Vectors(0) : Full(0, x)
  BY DEF Full
<1>4. 1 \in Nat \ {0} /\ f \in [Vectors(0) -> 0 .. 1 - 1] /\ 0 = 1 - 1
  OBVIOUS
<1>5. \A x \in Vectors(0) : f[x] = 0
  OBVIOUS
<1>. HIDE DEF f
<1>6. Numbers(0, 1, f)
  BY <1>1, <1>2, <1>3, <1>4, <1>5 DEF Numbers
<1>. QED
  BY <1>6

LEMMA NumbersMore ==
  ASSUME NEW n \in Nat, NEW N, NEW f, Numbers(n, N, f)
  PROVE  \E M, g : Numbers(n + 1, M, g)
<1>. DEFINE K == Octets
            Low(x) == [i \in 1 .. n |-> x[i]]
            g == [x \in Vectors(n + 1) |-> f[Low(x)] + N * x[n + 1]]
            V == Vectors(n)
            W == Vectors(n + 1)
<1>1. K \in Nat \ {0} /\ N \in Nat \ {0} /\ f \in [V -> 0 .. N - 1] /\ K - 1 \in 0 .. K - 1
  BY EipAssumption DEF Numbers
<1>2. \A x \in W : /\ Low(x) \in V /\ x[n + 1] \in 0 .. K - 1
                   /\ \A i \in 1 .. n : x[i] \in 0 .. K - 1 /\ i \in 1 .. n + 1
                   /\ \A i \in 1 .. n : Low(x)[i] = x[i]
  BY DEF Vectors
<1>3. \A x \in W : Full(n + 1, x) <=> Full(n, Low(x)) /\ x[n + 1] = K - 1
  <2>1. \A i \in 1 .. n + 1 : i \in 1 .. n \/ i = n + 1
    OBVIOUS
  <2>2. n + 1 \in 1 .. n + 1
    OBVIOUS
  <2>. QED
    BY <1>2, <2>1, <2>2 DEF Full
<1>4. \A b \in 0 .. K - 1 : (b + 1) % K = IF b = K - 1 THEN 0 ELSE b + 1
  BY <1>1
<1>5. ASSUME NEW x \in W
      PROVE  /\ Following(n + 1, x) \in W
             /\ Low(Following(n + 1, x)) = Following(n, Low(x))
             /\ Following(n + 1, x)[n + 1]
                  = IF Full(n, Low(x)) THEN (x[n + 1] + 1) % K ELSE x[n + 1]
  <2>. DEFINE y == Following(n + 1, x)
  <2>1. \A i \in 1 .. n + 1 : x[i] \in 0 .. K - 1
    BY DEF Vectors
  <2>2. y \in W
    BY <1>1, <1>4, <2>1 DEF Following, Vectors
  <2>3. \A i \in 1 .. n :
          y[i] = IF \A j \in 1 .. i - 1 : Low(x)[j] = K - 1 THEN (Low(x)[i] + 1) % K ELSE Low(x)[i]
    <3>1. ASSUME NEW i \in 1 .. n
          PROVE  y[i] = IF \A j \in 1 .. i - 1 : Low(x)[j] = K - 1
                          THEN (Low(x)[i] + 1) % K ELSE Low(x)[i]
      <4>1. i \in 1 .. n + 1 /\ \A j \in 1 .. i - 1 : j \in 1 .. n
        OBVIOUS
      <4>2. y[i] = IF \A j \in 1 .. i - 1 : x[j] = K - 1 THEN (x[i] + 1) % K ELSE x[i]
        BY <4>1 DEF Following
      <4>3. Low(x)[i] = x[i] /\ \A j \in 1 .. i - 1 : Low(x)[j] = x[j]
        BY <4>1
      <4>. HIDE DEF Low, y, K
      <4>. QED
        BY <4>2, <4>3
    <3>. QED
      BY <3>1
  <2>4. Low(y) = Following(n, Low(x))
    BY <2>3 DEF Following
  <2>5. y[n + 1] = IF \A j \in 1 .. n : x[j] = K - 1 THEN (x[n + 1] + 1) % K ELSE x[n + 1]
    BY DEF Following
  <2>6. Full(n, Low(x)) <=> \A j \in 1 .. n : x[j] = K - 1
    BY DEF Full
  <2>. QED
    BY <2>2, <2>4, <2>5, <2>6
<1>. DEFINE M == N * K
<1>6. /\ \A x \in V : f[x] \in 0 .. N - 1
      /\ \A x \in V : f[x] = N - 1 <=> Full(n, x)
      /\ \A x \in V : f[Following(n, x)] = IF f[x] = N - 1 THEN 0 ELSE f[x] + 1
      /\ \A x, y \in V : f[x] = f[y] => x = y
  BY DEF Numbers
<1>7. \A x \in W : g[x] = f[Low(x)] + N * x[n + 1]
  OBVIOUS
<1>8. /\ M \in Nat \ {0}
      /\ \A a \in 0 .. N - 1, b \in 0 .. K - 1 :
           /\ a + N * b \in 0 .. M - 1
           /\ a + N * b = M - 1 <=> a = N - 1 /\ b = K - 1
           /\ (N - 1) + N * b + 1 = 0 + N * (b + 1)
      /\ \A a \in 0 .. N - 1, b \in 0 .. K - 1, c \in 0 .. N - 1, d \in 0 .. K - 1 :
           a + N * b = c + N * d => a = c /\ b = d
  BY <1>1, TwoDigits
<1>9. g \in [W -> 0 .. M - 1]
  BY <1>2, <1>6, <1>8
<1>10. \A x \in W : g[x] = M - 1 <=> Full(n + 1, x)
  BY <1>2, <1>3, <1>6, <1>7, <1>8
<1>11. ASSUME NEW x \in W
       PROVE  g[Following(n + 1, x)] = IF g[x] = M - 1 THEN 0 ELSE g[x] + 1
  <2>. DEFINE y == Following(n + 1, x)
              a == f[Low(x)]
              b == x[n + 1]
  <2>1. a \in 0 .. N - 1 /\ b \in 0 .. K - 1
    BY <1>2, <1>6
  <2>2. g[x] = a + N * b
    BY <1>7
  <2>3. g[y] = f[Following(n, Low(x))] + N * y[n + 1]
    BY <1>5, <1>7
  <2>4. f[Following(n, Low(x))] = IF a = N - 1 THEN 0 ELSE a + 1
    BY <1>2, <1>6
  <2>5. y[n + 1] = IF a = N - 1 THEN (IF b = K - 1 THEN 0 ELSE b + 1) ELSE b
    BY <1>2, <1>4, <1>5, <1>6
  <2>. HIDE DEF y, a, b, g, M
  <2>6. N * b \in Int /\ N * (b + 1) \in Int /\ N * 0 = 0
    BY <1>1, <2>1
  <2>7. CASE a = N - 1 /\ b = K - 1
    <3>1. g[y] = 0 /\ g[x] = M - 1
      BY <1>8, <2>1, <2>2, <2>3, <2>4, <2>5, <2>6, <2>7
    <3>. QED
      BY <3>1 DEF y
  <2>8. CASE a = N - 1 /\ b # K - 1
    <3>1. g[y] = 0 + N * (b + 1) /\ g[x] # M - 1 /\ g[x] = (N - 1) + N * b
      BY <1>8, <2>1, <2>2, <2>3, <2>4, <2>5, <2>8
    <3>. QED
      BY <1>8, <2>1, <3>1 DEF y
  <2>9. CASE a # N - 1
    <3>1. g[y] = a + 1 + N * b /\ g[x] # M - 1
      BY <1>8, <2>1, <2>2, <2>3, <2>4, <2>5, <2>9
    <3>. QED
      BY <2>1, <2>2, <2>6, <3>1 DEF y
  <2>. QED
    BY <2>7, <2>8, <2>9 DEF y
<1>12. ASSUME NEW x \in W, NEW y \in W, g[x] = g[y] PROVE x = y
  <2>1. f[Low(x)] = f[Low(y)] /\ x[n + 1] = y[n + 1]
    <3>1. Low(x) \in V /\ Low(y) \in V /\ x[n + 1] \in 0 .. K - 1 /\ y[n + 1] \in 0 .. K - 1
      BY <1>2
    <3>2. PICK a, b, c, d : a = f[Low(x)] /\ b = x[n + 1] /\ c = f[Low(y)] /\ d = y[n + 1]
      OBVIOUS
    <3>3. a \in 0 .. N - 1 /\ c \in 0 .. N - 1 /\ b \in 0 .. K - 1 /\ d \in 0 .. K - 1
      BY <1>6, <3>1, <3>2
    <3>4. a + N * b = c + N * d
      BY <1>7, <1>12, <3>2
    <3>5. a = c /\ b = d
      BY ONLY <1>8, <3>3, <3>4
    <3>. QED
      BY <3>2, <3>5
  <2>2. Low(x) = Low(y)
    BY <1>2, <1>6, <2>1
  <2>3. \A i \in 1 .. n : x[i] = y[i]
    <3>1. \A i \in 1 .. n : Low(x)[i] = x[i] /\ Low(y)[i] = y[i]
      OBVIOUS
    <3>. HIDE DEF Low
    <3>. QED
      BY <2>2, <3>1
  <2>4. \A i \in 1 .. n + 1 : i \in 1 .. n \/ i = n + 1
    OBVIOUS
  <2>. QED
    BY <2>1, <2>3, <2>4 DEF Vectors
<1>. HIDE DEF g, M
<1>13. Numbers(n + 1, M, g)
  BY <1>8, <1>9, <1>10, <1>11, <1>12 DEF Numbers
<1>. QED
  BY <1>13

LEMMA ContextsAreNumbered ==
  \E N, number : /\ Counts(number, N) /\ IsFiniteSet(Contexts) /\ Cardinality(Contexts) <= N
<1>. DEFINE S == {n \in Nat : \E N, f : Numbers(n, N, f)}
<1>1. Nat \subseteq S
  <2>1. 0 \in S
    BY NumbersNone
  <2>2. \A n \in Nat : n \in S => n + 1 \in S
    BY NumbersMore
  <2>. HIDE DEF S
  <2>. QED
    BY <2>1, <2>2, SetInduction
<1>2. PICK N, f : Numbers(ContextBytes, N, f)
  BY <1>1, EipAssumption
<1>3. Contexts = Vectors(ContextBytes)
      /\ \A x \in Contexts : IncrementContext(x) = Following(ContextBytes, x)
  BY DEF Contexts, Vectors, IncrementContext, Following
<1>4. Counts(f, N)
  BY <1>2, <1>3 DEF Numbers, Counts
<1>5. f \in Injection(Contexts, 0 .. N - 1)
  BY <1>2, <1>3 DEF Numbers, Injection, IsInjective
<1>6. N \in Nat \ {0}
  BY <1>2 DEF Numbers
<1>7. IsFiniteSet(0 .. N - 1) /\ Cardinality(0 .. N - 1) = N
  BY <1>6, FS_Interval
<1>8. IsFiniteSet(Contexts) /\ Cardinality(Contexts) <= N
  <2>. DEFINE T == 0 .. N - 1
  <2>1. f \in Injection(Contexts, T) /\ IsFiniteSet(T) /\ Cardinality(T) = N
    BY <1>5, <1>7
  <2>. HIDE DEF T
  <2>2. IsFiniteSet(Contexts) /\ Cardinality(Contexts) <= Cardinality(T)
    BY <2>1, FS_Injection
  <2>. QED
    BY <2>1, <2>2
<1>. QED
  BY <1>4, <1>8

-----------------------------------------------------------------------------
FewRequests == IsFiniteSet(Requests) /\ Cardinality(Requests) <= Cardinality(Contexts)

(* With no more requests than contexts none is used twice, wherever the      *)
(* counter starts and however often it wraps.                                *)
THEOREM ContextsSuffice ==
  ASSUME FewRequests
  PROVE  Spec => []NoReuse
<1>1. PICK N, number : /\ Counts(number, N) /\ IsFiniteSet(Contexts)
                       /\ Cardinality(Contexts) <= N
  BY ContextsAreNumbered
<1>2. IsFiniteSet(Requests) /\ Cardinality(Requests) <= N
  <2>1. Cardinality(Requests) \in Nat /\ Cardinality(Contexts) \in Nat /\ N \in Nat
    BY <1>1, FS_CardinalityType DEF FewRequests, Counts
  <2>. QED
    BY <1>1, <2>1 DEF FewRequests
<1>3. Init => TypeOK /\ Once /\ Carries(Ahead(number, N))
  BY InitSockets, InitAhead
<1>4. TypeOK /\ Once /\ Carries(Ahead(number, N)) /\ [Next]_vars
      => Once' /\ Carries(Ahead(number, N))'
  BY <1>1, <1>2, NextAhead
<1>5. TypeOK /\ Carries(Ahead(number, N)) => NoReuse
  BY <1>1, <1>2, AheadIsFresh
<1>. HIDE DEF Once, NoReuse
<1>. QED
  BY <1>3, <1>4, <1>5, EipTypesHold, PTL DEF Spec

(* So a program of no more requests than there are contexts is served by     *)
(* this layer: a request is settled once, by its own reply or with an error. *)
THEOREM FewRequestsAreServed ==
  ASSUME FewRequests
  PROVE  Spec => ImplementsService
BY ContextsSuffice, EveryAnswerIsItsOwn, PTL

-----------------------------------------------------------------------------
(* Where a call that is not settled stands, with c the fields of the layer,  *)
(* "way" what is on the way to and from the device, and "out" the outcomes:  *)
(* the layer acts in every state, or something on its way makes it.          *)
Members(s) == {s[i] : i \in DOMAIN s}

Placed(c, way, r) ==
  \/ r \in Members(c.queue)
  \/ \E m \in way : /\ m.kind \in {"rr", "unit"} /\ m.request = r
                    /\ m.kind = "rr" => c.routes[m.context] = r

Listed(c, way, u) ==
  \/ c.state = 1 /\ u \in Members(c.users)
  \/ \E m \in way : m.kind = "list" /\ Command[m.user] = Command[u]

RequestsPlaced(c, way, out, gone) ==
  /\ c.state = 1 => Register \in way
  /\ \A r \in Requests \ gone : out[r] = "pending" => Placed(c, way, r)

UsersListed(c, way, out) == \A u \in Listing : out[u] = "pending" => Listed(c, way, u)

Acts(c) ==
  /\ c.state = 0 => c.queue = <<>>
  /\ c.state = 2 /\ c.queue # <<>> => c.ticks > 0

Routes(c, way, out, gone) ==
  RequestsPlaced(c, way, out, gone) /\ UsersListed(c, way, out) /\ Acts(c)

(* A layer without a connection, or that ends one, has nothing to wait for.  *)
Rests(c, out) == c.state = 0 /\ \A r \in Requests \cup Listing : out[r] # "pending"

Over == tcpState \in {Disconnected, Disconnecting} \/ due \in {"disconnect", "destroy"}

(* A close has rejected the requests of the layer above before anything else. *)
Settled(out) == \A r \in Requests : out[r] # "pending"

UsersWait(c, out) == \A u \in Listing : out[u] = "pending" => u \in c.waiting

(* Between the layer's disconnect and its destroy nothing makes it act.      *)
RouteInv ==
  /\ UsersWait(eip, outcome)
  /\ incidents = {} =>
       /\ due # "nothing" => Settled(outcome)
       /\ Over => Rests(eip, outcome)
       /\ due # "upper destroy" => Routes(eip, OnTheWay, outcome, dropped)

-----------------------------------------------------------------------------
(* What a sequence holds.                                                    *)
LEMMA NoMembers == Members(<<>>) = {}
BY DEF Members

LEMMA MembersFacts ==
  ASSUME NEW S, NEW s \in Seq(S)
  PROVE  /\ \A x \in S : x \in Members(Append(s, x)) /\ Members(s) \subseteq Members(Append(s, x))
         /\ s # <<>> => Members(s) \subseteq Members(Tail(s)) \cup {Head(s)}
         /\ s # <<>> => Head(s) \in Members(s) /\ Members(Tail(s)) \subseteq Members(s)
         /\ \A t \in Seq(S) :
              Members(s) \subseteq Members(s \o t) /\ Members(t) \subseteq Members(s \o t)
<1>1. Len(s) \in Nat /\ DOMAIN s = 1 .. Len(s)
  OBVIOUS
<1>2. ASSUME NEW x \in S
      PROVE x \in Members(Append(s, x)) /\ Members(s) \subseteq Members(Append(s, x))
  <2>1. /\ DOMAIN Append(s, x) = 1 .. Len(s) + 1 /\ Append(s, x)[Len(s) + 1] = x
        /\ \A i \in 1 .. Len(s) : Append(s, x)[i] = s[i]
    BY AppendProperties
  <2>2. Len(s) + 1 \in DOMAIN Append(s, x) /\ \A i \in 1 .. Len(s) : i \in DOMAIN Append(s, x)
    BY <1>1, <2>1
  <2> QED
    BY <1>1, <2>1, <2>2 DEF Members
<1>3. ASSUME s # <<>>
      PROVE  /\ Members(s) \subseteq Members(Tail(s)) \cup {Head(s)}
             /\ Head(s) \in Members(s) /\ Members(Tail(s)) \subseteq Members(s)
  <2>1. /\ Tail(s) \in Seq(S) /\ Len(Tail(s)) = Len(s) - 1 /\ Head(s) = s[1] /\ Len(s) >= 1
        /\ \A i \in 1 .. Len(Tail(s)) : Tail(s)[i] = s[i + 1]
    BY <1>1, <1>3, HeadTailProperties, EmptySeq
  <2>2. DOMAIN Tail(s) = 1 .. Len(Tail(s))
    BY <2>1
  <2>3. ASSUME NEW i \in 1 .. Len(s), i # 1 PROVE s[i] \in Members(Tail(s))
    <3>1. i - 1 \in 1 .. Len(Tail(s)) /\ (i - 1) + 1 = i
      BY <1>1, <2>1, <2>3
    <3>2. Tail(s)[i - 1] = s[i]
      BY <2>1, <3>1
    <3> QED
      BY <2>2, <3>1, <3>2 DEF Members
  <2>4. ASSUME NEW i \in 1 .. Len(Tail(s)) PROVE Tail(s)[i] \in Members(s)
    <3>1. i + 1 \in 1 .. Len(s) /\ Tail(s)[i] = s[i + 1]
      BY <1>1, <2>1
    <3> QED
      BY <1>1, <3>1 DEF Members
  <2>5. 1 \in 1 .. Len(s)
    BY <1>1, <2>1
  <2> QED
    BY <1>1, <2>1, <2>2, <2>3, <2>4, <2>5 DEF Members
<1>4. ASSUME NEW t \in Seq(S)
      PROVE  Members(s) \subseteq Members(s \o t) /\ Members(t) \subseteq Members(s \o t)
  <2>1. /\ s \o t \in Seq(S) /\ Len(s \o t) = Len(s) + Len(t) /\ Len(t) \in Nat
        /\ \A i \in 1 .. Len(s) + Len(t) :
             (s \o t)[i] = IF i <= Len(s) THEN s[i] ELSE t[i - Len(s)]
    BY ConcatProperties
  <2>2. DOMAIN (s \o t) = 1 .. Len(s) + Len(t) /\ DOMAIN t = 1 .. Len(t)
    BY <2>1
  <2>3. ASSUME NEW i \in 1 .. Len(s) PROVE i \in 1 .. Len(s) + Len(t) /\ (s \o t)[i] = s[i]
    BY <1>1, <2>1
  <2>4. ASSUME NEW i \in 1 .. Len(t)
        PROVE i + Len(s) \in 1 .. Len(s) + Len(t) /\ (s \o t)[i + Len(s)] = t[i]
    <3>1. /\ i + Len(s) \in 1 .. Len(s) + Len(t)
          /\ ~(i + Len(s) <= Len(s)) /\ (i + Len(s)) - Len(s) = i
      BY <1>1, <2>1
    <3> QED
      BY <2>1, <3>1
  <2> QED
    BY <1>1, <2>2, <2>3, <2>4 DEF Members
<1> QED
  BY <1>2, <1>3, <1>4

(* A queue of which the foremost are taken: each is among those taken or     *)
(* still in the queue.                                                       *)
LEMMA SliceHas ==
  ASSUME NEW M, NEW s \in Seq(M), NEW n \in Nat, NEW j \in 1 .. Len(s)
  PROVE  /\ j <= n /\ n <= Len(s) => s[j] \in Members(SubSeq(s, 1, n))
         /\ j > n => s[j] \in Members(SubSeq(s, n + 1, Len(s)))
<1>1. Len(s) \in Nat
  OBVIOUS
<1>2. ASSUME j <= n, n <= Len(s) PROVE s[j] \in Members(SubSeq(s, 1, n))
  <2>1. /\ DOMAIN SubSeq(s, 1, n) = 1 .. n
        /\ SubSeq(s, 1, n)[j] = s[j]
    BY <1>1, <1>2
  <2> QED
    BY <1>2, <2>1 DEF Members
<1>3. ASSUME j > n PROVE s[j] \in Members(SubSeq(s, n + 1, Len(s)))
  <2>1. /\ DOMAIN SubSeq(s, n + 1, Len(s)) = 1 .. Len(s) - n
        /\ j - n \in 1 .. Len(s) - n
        /\ SubSeq(s, n + 1, Len(s))[j - n] = s[j]
    BY <1>1, <1>3
  <2> QED
    BY <2>1 DEF Members
<1> QED
  BY <1>2, <1>3

LEMMA ForemostHas ==
  ASSUME NEW M, NEW q \in Queue(M), NEW n \in Nat, n <= Len(q.priority) + Len(q.normal)
  PROVE  Queued(q) \subseteq Members(Foremost(q, n)) \cup Queued(WithoutForemost(q, n))
<1>1. PICK p, s : p = q.priority /\ s = q.normal
  OBVIOUS
<1>2. p \in Seq(M) /\ s \in Seq(M) /\ Len(p) \in Nat /\ Len(s) \in Nat
  BY <1>1 DEF Queue
<1>3. PICK later : later = IF n > Len(p) THEN n - Len(p) ELSE 0
  OBVIOUS
<1>4. later \in Nat
  BY <1>2, <1>3
<1>5. /\ Foremost(q, n) = SubSeq(p \o s, 1, n)
      /\ Queued(q) = Members(p) \cup Members(s)
      /\ Queued(WithoutForemost(q, n))
           = Members(SubSeq(p, n + 1, Len(p))) \cup Members(SubSeq(s, later + 1, Len(s)))
  BY <1>1, <1>3 DEF Foremost, WithoutForemost, Queued, Members
<1>6. /\ p \o s \in Seq(M) /\ Len(p \o s) = Len(p) + Len(s)
      /\ \A i \in 1 .. Len(p) + Len(s) : (p \o s)[i] = IF i <= Len(p) THEN p[i] ELSE s[i - Len(p)]
  BY <1>2, ConcatProperties
<1>7. n <= Len(p) + Len(s)
  BY <1>1
<1>8. ASSUME NEW j \in 1 .. Len(p)
      PROVE  p[j] \in Members(SubSeq(p \o s, 1, n)) \cup Members(SubSeq(p, n + 1, Len(p)))
  <2>1. CASE j <= n
    <3>1. j \in 1 .. Len(p \o s) /\ (p \o s)[j] = p[j]
      BY <1>2, <1>6
    <3>2. (p \o s)[j] \in Members(SubSeq(p \o s, 1, n))
      BY <1>6, <1>7, <2>1, <3>1, SliceHas
    <3> QED
      BY <3>1, <3>2
  <2>2. CASE j > n
    BY <1>2, <2>2, SliceHas
  <2> QED
    BY <1>2, <2>1, <2>2
<1>9. ASSUME NEW j \in 1 .. Len(s)
      PROVE  s[j] \in Members(SubSeq(p \o s, 1, n)) \cup Members(SubSeq(s, later + 1, Len(s)))
  <2>1. CASE j + Len(p) <= n
    <3>1. j + Len(p) \in 1 .. Len(p \o s) /\ (p \o s)[j + Len(p)] = s[j]
      <4>1. /\ j + Len(p) \in 1 .. Len(p) + Len(s)
            /\ ~(j + Len(p) <= Len(p)) /\ (j + Len(p)) - Len(p) = j
        BY <1>2
      <4> QED
        BY <1>6, <4>1
    <3>2. PICK k : k = j + Len(p)
      OBVIOUS
    <3>3. (p \o s)[k] \in Members(SubSeq(p \o s, 1, n))
      BY <1>6, <1>7, <2>1, <3>1, <3>2, SliceHas
    <3> QED
      BY <3>1, <3>2, <3>3
  <2>2. CASE j + Len(p) > n
    <3>1. j > later
      BY <1>2, <1>3, <2>2
    <3> QED
      BY <1>2, <1>4, <3>1, SliceHas
  <2> QED
    BY <1>2, <2>1, <2>2
<1>10. DOMAIN p = 1 .. Len(p) /\ DOMAIN s = 1 .. Len(s)
  BY <1>2
<1> QED
  BY <1>5, <1>8, <1>9, <1>10 DEF Members

-----------------------------------------------------------------------------
(* What a step of TCP leaves on the way.                                     *)
Wired(w) == IF opened = 0 THEN {} ELSE Members(w[opened])

LEMMA WayIs == OnTheWay = Queued(tcpQueue) \cup Wired(wire)
BY DEF OnTheWay, Wired, Members

LEMMA OpenedFacts ==
  ASSUME TypeOK
  PROVE  /\ opened \in 0 .. MaxSockets /\ (opened # 0 => opened \in Sockets)
         /\ tcpQueue \in Queue(Messages) /\ wire \in [Sockets -> Seq(Messages)]
<1>1. /\ opened \in 0 .. MaxSockets /\ tcpQueue \in Queue(Messages)
      /\ wire \in [Sockets -> Seq(Messages)]
  BY MessagesAssumption DEF TypeOK, TcpTypeOK
<1>2. opened # 0 => opened \in 1 .. MaxSockets
  BY ONLY <1>1, TcpAssumption
<1> QED
  BY <1>1, <1>2 DEF Sockets

LEMMA WayParts ==
  ASSUME TypeOK
  PROVE  /\ OnTheWay \subseteq Messages
         /\ \A M : Carries(M) => OnTheWay \subseteq M
<1>1. opened = 0 \/ opened \in Sockets
  BY OpenedFacts
<1>2. ASSUME NEW M, Carries(M) PROVE OnTheWay \subseteq M
  <2>1. tcpQueue.priority \in Seq(M) /\ tcpQueue.normal \in Seq(M)
    BY <1>2 DEF Carries, Queue
  <2>2. \A s \in Seq(M) : \A i \in DOMAIN s : s[i] \in M
    BY ElementOfSeq
  <2>3. Queued(tcpQueue) \subseteq M
    BY <2>1, <2>2 DEF Queued
  <2>4. opened # 0 => wire[opened] \in Seq(M)
    BY <1>1, <1>2 DEF Carries
  <2> QED
    BY <2>2, <2>3, <2>4 DEF OnTheWay
<1>3. Carries(Messages)
  BY MessagesAssumption DEF TypeOK, TcpTypeOK, Carries
<1> QED
  BY <1>2, <1>3

LEMMA QueuedFacts ==
  ASSUME NEW M, NEW q \in Queue(M)
  PROVE  /\ HasRequest(q) => Queued(q) \subseteq Queued(Dequeue(q)) \cup {Peek(q)}
         /\ \A ms \in Seq(M), priority \in BOOLEAN :
              Queued(q) \cup Members(ms) \subseteq Queued(EnqueueAll(q, ms, priority))
<1>1. PICK p, s : p = q.priority /\ s = q.normal
  OBVIOUS
<1>2. p \in Seq(M) /\ s \in Seq(M) /\ q = [priority |-> p, normal |-> s]
  BY <1>1 DEF Queue
<1>3. Queued(q) = Members(p) \cup Members(s)
  BY <1>1 DEF Queued, Members
<1>4. ASSUME HasRequest(q) PROVE Queued(q) \subseteq Queued(Dequeue(q)) \cup {Peek(q)}
  <2>1. CASE p # <<>>
    <3>1. PICK t : t = Tail(p)
      OBVIOUS
    <3>2. Dequeue(q) = [priority |-> t, normal |-> s] /\ Peek(q) = Head(p)
      BY <1>2, <2>1, <3>1 DEF Dequeue, Peek
    <3>3. Queued(Dequeue(q)) = Members(t) \cup Members(s)
      BY <3>2 DEF Queued, Members
    <3> QED
      BY <1>2, <1>3, <2>1, <3>1, <3>2, <3>3, MembersFacts
  <2>2. CASE p = <<>>
    <3>1. PICK t : t = Tail(s)
      OBVIOUS
    <3>2. Dequeue(q) = [priority |-> p, normal |-> t] /\ Peek(q) = Head(s) /\ s # <<>>
      BY <1>2, <1>4, <2>2, <3>1 DEF Dequeue, Peek, HasRequest
    <3>3. Queued(Dequeue(q)) = Members(p) \cup Members(t)
      BY <3>2 DEF Queued, Members
    <3> QED
      BY <1>2, <1>3, <2>2, <3>1, <3>2, <3>3, MembersFacts
  <2> QED
    BY <2>1, <2>2
<1>5. ASSUME NEW ms \in Seq(M), NEW priority \in BOOLEAN
      PROVE  Queued(q) \cup Members(ms) \subseteq Queued(EnqueueAll(q, ms, priority))
  <2>1. PICK a, b : a = p \o ms /\ b = s \o ms
    OBVIOUS
  <2>2. \/ priority /\ EnqueueAll(q, ms, priority) = [priority |-> a, normal |-> s]
        \/ ~priority /\ EnqueueAll(q, ms, priority) = [priority |-> p, normal |-> b]
    BY <1>2, <2>1 DEF EnqueueAll
  <2>3. \A x, y : Queued([priority |-> x, normal |-> y]) = Members(x) \cup Members(y)
    BY DEF Queued, Members
  <2>4. /\ Members(p) \cup Members(ms) \subseteq Members(a)
        /\ Members(s) \cup Members(ms) \subseteq Members(b)
    BY <1>2, <2>1, MembersFacts
  <2> QED
    BY <1>3, <2>2, <2>3, <2>4
<1> QED
  BY <1>4, <1>5

(* One message is written, or waits.                                         *)
LEMMA SendNextKeeps ==
  ASSUME TypeOK, Sound, NEW state \in {Connecting, Connected, Disconnecting},
         NEW t, opened # 0, SendNext(state, tcpQueue, t)
  PROVE  OnTheWay \subseteq OnTheWay' /\ opened' = opened /\ tcpState' = state
<1>1. /\ tcpQueue \in Queue(TcpMessages) /\ opened \in Sockets
      /\ wire \in [Sockets -> Seq(TcpMessages)]
  BY OpenedFacts, MessagesAssumption
<1>2. OnTheWay' = Queued(tcpQueue') \cup (IF opened' = 0 THEN {} ELSE Members(wire'[opened']))
  BY DEF OnTheWay, Members
<1>3. CASE /\ state = Connected /\ HasRequest(tcpQueue)
           /\ wire' = [wire EXCEPT ![opened] = Append(@, Peek(tcpQueue))]
           /\ tcpQueue' = Dequeue(tcpQueue) /\ tcpState' = state /\ opened' = opened
  <2>1. Peek(tcpQueue) \in TcpMessages
    BY <1>1, <1>3, QueueFacts
  <2>2. wire'[opened] = Append(wire[opened], Peek(tcpQueue)) /\ wire[opened] \in Seq(TcpMessages)
    BY <1>1, <1>3
  <2>3. Members(wire[opened]) \cup {Peek(tcpQueue)} \subseteq Members(wire'[opened])
    BY <2>1, <2>2, MembersFacts
  <2>4. Queued(tcpQueue) \subseteq Queued(tcpQueue') \cup {Peek(tcpQueue)}
    BY <1>1, <1>3, QueuedFacts
  <2> QED
    BY <1>2, <1>3, <2>3, <2>4, WayIs DEF Wired
<1>4. CASE UNCHANGED <<tcpQueue, wire, opened>> /\ tcpState' = state
  BY <1>2, <1>4, WayIs DEF Wired
<1> QED
  BY <1>3, <1>4 DEF SendNext, Connecting, Connected, Disconnecting, Disconnected

(* All that is handed to TCP goes out, and a message may be taken off the    *)
(* wire before it.                                                           *)
LEMMA SendEachKeeps ==
  ASSUME TypeOK, Sound, NEW ms \in Seq(Messages), NEW priority \in BOOLEAN,
         NEW w \in [Sockets -> Seq(Messages)], SendEach(ms, priority, w)
  PROVE  /\ Members(ms) \cup Queued(tcpQueue) \subseteq OnTheWay'
         /\ tcpState # Disconnected => Wired(w) \subseteq OnTheWay' /\ tcpState' = tcpState
         /\ tcpState = Disconnected /\ ms # <<>> => tcpState' = Connecting
         /\ ms = <<>> => tcpState' = tcpState
<1> DEFINE q == EnqueueAll(tcpQueue, ms, priority)
           n == IF tcpState = Connected THEN Len(ms) ELSE 0
<1>1. /\ tcpQueue \in Queue(Messages) /\ opened \in 0 .. MaxSockets /\ Len(ms) \in Nat
      /\ (tcpState # Disconnected => opened \in Sockets)
  BY OpenedFacts DEF Sound
<1>2. q \in Queue(Messages) /\ n \in Nat /\ n <= Len(ms)
  BY <1>1, EnqueueAllFacts
<1>3. Members(ms) \cup Queued(tcpQueue) \subseteq Queued(q)
  BY <1>1, QueuedFacts
<1>4. n <= Len(q.priority) + Len(q.normal)
  <2>1. tcpQueue.priority \in Seq(Messages) /\ tcpQueue.normal \in Seq(Messages)
        /\ tcpQueue = [priority |-> tcpQueue.priority, normal |-> tcpQueue.normal]
    BY <1>1 DEF Queue
  <2>2. PICK a, b : a = tcpQueue.priority \o ms /\ b = tcpQueue.normal \o ms
    OBVIOUS
  <2>3. Len(a) = Len(tcpQueue.priority) + Len(ms) /\ Len(b) = Len(tcpQueue.normal) + Len(ms)
    BY <2>1, <2>2, ConcatProperties
  <2>4. \/ q = [tcpQueue EXCEPT !.priority = a] \/ q = [tcpQueue EXCEPT !.normal = b]
    BY <2>2 DEF EnqueueAll
  <2>5. \/ q.priority = a /\ q.normal = tcpQueue.normal
        \/ q.priority = tcpQueue.priority /\ q.normal = b
    BY <2>1, <2>4
  <2>6. PICK l, k, z, n0 :
          l = Len(tcpQueue.priority) /\ k = Len(tcpQueue.normal) /\ z = Len(ms) /\ n0 = n
    OBVIOUS
  <2>7. l \in Nat /\ k \in Nat /\ z \in Nat /\ n0 <= z /\ n0 \in Nat
    BY <1>1, <1>2, <2>1, <2>6
  <2> HIDE DEF n, q
  <2>8. \/ Len(q.priority) = l + z /\ Len(q.normal) = k
        \/ Len(q.priority) = l /\ Len(q.normal) = k + z
    BY <2>3, <2>5, <2>6
  <2>9. PICK x, y : x = Len(q.priority) /\ y = Len(q.normal)
    OBVIOUS
  <2>10. (x = l + z /\ y = k) \/ (x = l /\ y = k + z)
    BY <2>8, <2>9
  <2>11. n0 <= x + y
    BY ONLY <2>7, <2>10
  <2> QED
    BY <2>6, <2>9, <2>11
<1>5. Queued(q) \subseteq Members(Foremost(q, n)) \cup Queued(WithoutForemost(q, n))
  BY <1>2, <1>4, ForemostHas
<1>6. Foremost(q, n) \in Seq(Messages)
  BY <1>1, <1>2, EnqueueAllFacts
<1>7. WithoutForemost(q, 0) = q
  BY <1>2, WholeQueue
<1>8. \/ /\ ms = <<>> \/ tcpState # Disconnected
         /\ wire' = IF n = 0 THEN w ELSE [w EXCEPT ![opened] = @ \o Foremost(q, n)]
         /\ tcpQueue' = WithoutForemost(q, n)
         /\ UNCHANGED <<tcpState, opened>>
      \/ /\ ms # <<>> /\ tcpState = Disconnected
         /\ tcpState' = Connecting /\ tcpQueue' = q
  BY DEF SendEach
<1>9. OnTheWay' = Queued(tcpQueue') \cup (IF opened' = 0 THEN {} ELSE Members(wire'[opened']))
  BY DEF OnTheWay, Members
<1>10. n # 0 => tcpState = Connected /\ opened \in Sockets /\ opened # 0
  BY <1>1 DEF Connected, Disconnected, Sockets
<1> HIDE DEF q, n
<1>11. CASE /\ ms = <<>> \/ tcpState # Disconnected
            /\ wire' = IF n = 0 THEN w ELSE [w EXCEPT ![opened] = @ \o Foremost(q, n)]
            /\ tcpQueue' = WithoutForemost(q, n)
            /\ UNCHANGED <<tcpState, opened>>
  <2>1. CASE n = 0
    <3>1. tcpQueue' = q /\ wire' = w
      BY <1>7, <1>11, <2>1
    <3> QED
      BY <1>3, <1>9, <1>11, <3>1 DEF Wired
  <2>2. CASE n # 0
    <3>1. wire'[opened] = w[opened] \o Foremost(q, n)
      BY <1>10, <1>11, <2>2
    <3>2. Members(w[opened]) \cup Members(Foremost(q, n)) \subseteq Members(wire'[opened])
      BY <1>6, <1>10, <2>2, <3>1, MembersFacts
    <3> QED
      BY <1>3, <1>5, <1>9, <1>10, <1>11, <2>2, <3>2 DEF Wired
  <2> QED
    BY <2>1, <2>2
<1>12. CASE ms # <<>> /\ tcpState = Disconnected /\ tcpState' = Connecting /\ tcpQueue' = q
  BY <1>3, <1>9, <1>12
<1> QED
  BY <1>8, <1>11, <1>12

(* The same of a message taken off a wire.                                   *)
LEMMA TakenWay ==
  ASSUME TypeOK, NEW s \in Sockets, wire[s] # <<>>, NEW w, w = [wire EXCEPT ![s] = Tail(@)]
  PROVE  /\ Wired(wire) \subseteq Wired(w) \cup {wire[s][1]}
         /\ w \in [Sockets -> Seq(Messages)]
<1>1. opened = 0 \/ opened \in Sockets
  BY OpenedFacts
<1>2. wire \in [Sockets -> Seq(Messages)]
  BY MessagesAssumption DEF TypeOK, TcpTypeOK
<1>3. Members(wire[s]) \subseteq Members(Tail(wire[s])) \cup {Head(wire[s])}
  BY <1>2, MembersFacts
<1>4. Head(wire[s]) = wire[s][1]
  BY <1>2
<1>5. w \in [Sockets -> Seq(Messages)]
  BY <1>2, TakeOne
<1>6. opened # 0 => w[opened] = IF opened = s THEN Tail(wire[s]) ELSE wire[opened]
  BY <1>1, <1>2
<1> QED
  BY <1>3, <1>4, <1>5, <1>6 DEF Wired

-----------------------------------------------------------------------------
(* A handler finds a way for every request; none with the next context is    *)
(* on the way when it sends.                                                 *)
FreshWay(c, way) == \A m \in way : m.kind = "rr" => m.context # IncrementContext(c.context)

LEMMA MorePlaced ==
  ASSUME NEW c, NEW way, NEW more, way \subseteq more
  PROVE  /\ \A r : Placed(c, way, r) => Placed(c, more, r)
         /\ \A u : Listed(c, way, u) => Listed(c, more, u)
         /\ \A out, gone : Routes(c, way, out, gone) => Routes(c, more, out, gone)
<1>1. \A r : Placed(c, way, r) => Placed(c, more, r)
  BY DEF Placed
<1>2. \A u : Listed(c, way, u) => Listed(c, more, u)
  BY DEF Listed
<1> QED
  BY <1>1, <1>2 DEF Routes, RequestsPlaced, UsersListed

LEMMA HeadOrTail ==
  ASSUME NEW q \in Seq(Requests), q # <<>>, NEW r \in Members(q)
  PROVE  r = Head(q) \/ r \in Members(Tail(q))
BY MembersFacts

(* What SendNextMessage makes of c, given what was on the way before.        *)
Places(c, d, way, out, gone) ==
  /\ RequestsPlaced(d, way \cup Members(d.hand), out, gone)
  /\ Acts(d) /\ d.users = c.users /\ d.waiting = c.waiting
  /\ d.state = c.state \/ (c.state = 0 /\ d.state = 1)
  /\ c.state = 0 /\ c.queue # <<>> => d.hand = <<Register>>

LEMMA NextMessagePlaced ==
  ASSUME NEW c \in Layers, c.hand = <<>>, NEW way, NEW out, NEW gone,
         RequestsPlaced(c, way, out, gone), c.queue # <<>> => FreshWay(c, way),
         NEW d, d = SendNextMessage(c)
  PROVE  Places(c, d, way, out, gone)
<1> USE DEF Places
<1>1. d \in Layers
  BY SendNextMessageFacts
<1>2. CASE c.queue = <<>> \/ c.state = 1
  <2>1. d = c /\ way \subseteq way \cup Members(d.hand)
    BY <1>2 DEF SendNextMessage
  <2> QED
    BY <1>2, <2>1, MorePlaced DEF RequestsPlaced, Acts
<1> DEFINE more == way \cup Members(d.hand)
<1>3. way \subseteq more
  OBVIOUS
<1>4. \A m : Members(<<m>>) = {m}
  BY DEF Members
<1>5. CASE c.queue # <<>> /\ Registers(c, d)
  <2>1. /\ c.state = 0 /\ d.state = 1 /\ d.hand = <<Register>> /\ d.queue = c.queue
        /\ d.users = c.users /\ d.waiting = c.waiting /\ d.routes = c.routes
    BY <1>5 DEF Registers, Layers
  <2>2. Register \in more
    BY <1>4, <2>1
  <2> HIDE DEF more
  <2>3. \A r : Placed(c, way, r) => Placed(d, more, r)
    BY <1>3, <2>1 DEF Placed
  <2>4. RequestsPlaced(d, more, out, gone)
    BY <2>2, <2>3 DEF RequestsPlaced
  <2> QED
    BY <2>1, <2>4 DEF Acts, more
<1>6. CASE c.queue # <<>> /\ SendsUnit(c, d)
  <2>1. PICK m : m = SendUnitData(c, Head(c.queue))
    OBVIOUS
  <2>2. /\ c.state = 2 /\ d.state = 2 /\ d.hand = <<m>> /\ d.queue = Tail(c.queue)
        /\ d.users = c.users /\ d.waiting = c.waiting /\ d.routes = c.routes
        /\ d.ticks = c.ticks + 1 /\ c.ticks \in Nat /\ c.queue \in Seq(Requests)
    BY <1>6, <2>1 DEF SendsUnit, Layers
  <2>3. m \in more /\ m.kind = "unit" /\ m.request = Head(c.queue)
    BY <1>4, <2>1, <2>2 DEF SendUnitData
  <2> HIDE DEF more
  <2>4. ASSUME NEW r, Placed(c, way, r) PROVE Placed(d, more, r)
    <3>1. CASE r \in Members(c.queue)
      <4>1. r = Head(c.queue) \/ r \in Members(Tail(c.queue))
        BY <1>6, <2>2, <3>1, HeadOrTail
      <4> QED
        BY <2>2, <2>3, <4>1 DEF Placed
    <3>2. CASE ~r \in Members(c.queue)
      BY <1>3, <2>2, <2>4, <3>2 DEF Placed
    <3> QED
      BY <3>1, <3>2
  <2>5. RequestsPlaced(d, more, out, gone)
    BY <2>2, <2>4 DEF RequestsPlaced
  <2>6. d.ticks > 0
    BY <2>2
  <2> QED
    BY <2>2, <2>5, <2>6 DEF Acts, more
<1>7. CASE c.queue # <<>> /\ SendsRR(c, d)
  <2>1. PICK x : x = IncrementContext(c.context)
    OBVIOUS
  <2>2. PICK m : m = [kind |-> "rr", session |-> c.session, context |-> x,
                      request |-> Head(c.queue)]
    OBVIOUS
  <2>3. x \in Contexts
    BY <2>1, ContextType DEF Layers
  <2>4. /\ c.state = 2 /\ d.state = 2 /\ d.hand = <<m>> /\ d.queue = Tail(c.queue)
        /\ d.users = c.users /\ d.waiting = c.waiting
        /\ d.routes = [c.routes EXCEPT ![x] = Head(c.queue)]
        /\ d.ticks = c.ticks + 1 /\ c.ticks \in Nat /\ c.queue \in Seq(Requests)
    BY <1>7, <2>1, <2>2 DEF SendsRR, Layers
  <2>5. d.routes[x] = Head(c.queue) /\ \A y \in Contexts : y # x => d.routes[y] = c.routes[y]
    BY <2>3, <2>4 DEF Layers
  <2>6. m \in more /\ m.kind = "rr" /\ m.request = Head(c.queue) /\ m.context = x
    BY <1>4, <2>2, <2>4
  <2>7. FreshWay(c, way) /\ DOMAIN c.routes = Contexts
    BY <1>7 DEF Layers
  <2> HIDE DEF more
  <2>8. ASSUME NEW r, Placed(c, way, r) PROVE Placed(d, more, r)
    <3>1. CASE r \in Members(c.queue)
      <4>1. r = Head(c.queue) \/ r \in Members(Tail(c.queue))
        BY <1>7, <2>4, <3>1, HeadOrTail
      <4> QED
        BY <2>4, <2>5, <2>6, <4>1 DEF Placed
    <3>2. CASE ~r \in Members(c.queue)
      <4>1. PICK n \in way : /\ n.kind \in {"rr", "unit"} /\ n.request = r
                             /\ n.kind = "rr" => c.routes[n.context] = r
        BY <2>8, <3>2 DEF Placed
      <4>2. n.kind = "rr" => n.context # x
        BY <2>1, <2>7, <4>1 DEF FreshWay
      <4>3. n.kind = "rr" => d.routes[n.context] = r
        BY <2>4, <4>1, <4>2
      <4> QED
        BY <1>3, <4>1, <4>3 DEF Placed
    <3> QED
      BY <3>1, <3>2
  <2>9. RequestsPlaced(d, more, out, gone)
    BY <2>4, <2>8 DEF RequestsPlaced
  <2>10. d.ticks > 0
    BY <2>4
  <2> QED
    BY <2>4, <2>9, <2>10 DEF Acts, more
<1>8. CASE c.queue # <<>> /\ c.state # 1
  <2>1. c.state \in {0, 2}
    BY <1>8 DEF Layers
  <2>2. ~SendsNothing(c, d)
    <3>1. CASE c.state = 0
      <4>1. d.state = 1
        <5>1. d = Connect(c) /\ c.state = 0
          BY <1>8, <3>1 DEF SendNextMessage
        <5>2. d = [c EXCEPT !.state = 1, !.hand = <<Register>>]
          BY <5>1, ConnectFacts
        <5> QED
          BY <5>2 DEF Layers
      <4> QED
        BY <3>1, <4>1 DEF SendsNothing
    <3>2. CASE c.state = 2
      <4>1. d.queue = Tail(c.queue)
        <5>1. PICK e : e = [c EXCEPT !.queue = Tail(@), !.ticks = @ + 1]
          OBVIOUS
        <5>2. d = SendMessage(e, Head(c.queue)) /\ e.queue = Tail(c.queue)
          BY <1>8, <3>2, <5>1 DEF SendNextMessage, Layers
        <5>3. DOMAIN e = DOMAIN c /\ "context" \in DOMAIN c /\ "queue" \in DOMAIN c
          BY <5>1 DEF Layers
        <5>4. PICK f : f = [e EXCEPT !.context = IncrementContext(@)]
          OBVIOUS
        <5>5. f.queue = e.queue /\ "queue" \in DOMAIN f
          BY <5>3, <5>4
        <5>6. \/ d = [e EXCEPT !.hand = Append(@, SendUnitData(e, Head(c.queue)))]
              \/ d = [f EXCEPT !.hand = Append(@, SendRRData(f, Head(c.queue))),
                               !.routes[f.context] = Head(c.queue)]
          BY <5>2, <5>4 DEF SendMessage
        <5> QED
          BY <5>2, <5>3, <5>5, <5>6
      <4>2. /\ c.queue \in Seq(Requests) /\ Len(c.queue) \in Nat
            /\ Len(Tail(c.queue)) = Len(c.queue) - 1
        BY <1>8, HeadTailProperties DEF Layers
      <4>3. PICK l, k : l = Len(c.queue) /\ k = Len(Tail(c.queue))
        OBVIOUS
      <4>4. l # k
        BY <4>2, <4>3
      <4>5. Tail(c.queue) # c.queue
        BY <4>3, <4>4
      <4> QED
        BY <4>1, <4>5 DEF SendsNothing
    <3> QED
      BY <2>1, <3>1, <3>2
  <2>3. Registers(c, d) \/ SendsUnit(c, d) \/ SendsRR(c, d)
    BY <2>2, SendNextMessageFacts
  <2> QED
    BY <1>5, <1>6, <1>7, <1>8, <2>3
<1> QED
  BY <1>2, <1>8

(* What the program asks for is sent, or waits for the registration.         *)
LEMMA UsersSent ==
  ASSUME NEW c \in Layers, NEW way, NEW out, NEW gone, RequestsPlaced(c, way, out, gone), Acts(c),
         Members(c.hand) \subseteq way,
         \A u \in Listing : out[u] = "pending" =>
           Listed(c, way, u) \/ u \in Members(c.users),
         NEW d, d = SendUsers(c)
  PROVE  /\ Routes(d, way \cup Members(d.hand), out, gone)
         /\ d.state = c.state /\ d.waiting = c.waiting
         /\ c.state # 1 /\ c.users # <<>> => d.hand # <<>>
         /\ Members(c.hand) \subseteq Members(d.hand)
<1> DEFINE more == way \cup Members(d.hand)
<1>1. CASE c.state = 1
  <2>1. d = c
    BY <1>1, SendUsersFacts
  <2>2. UsersListed(c, way, out)
    BY <1>1 DEF UsersListed, Listed
  <2> QED
    BY <1>1, <2>1, <2>2, MorePlaced DEF Routes
<1>2. CASE c.state # 1
  <2>1. PICK lists : lists = Lists(c)
    OBVIOUS
  <2>2. lists \in Seq(Messages) /\ c.hand \in Seq(Messages)
    <3>1. lists \in Seq(Kinds({"list"})) /\ Kinds({"list"}) \subseteq Messages
      BY <2>1, SendUsersFacts DEF Kinds
    <3> QED
      BY <3>1, SeqMonotonic DEF Layers
  <2>3. d = [c EXCEPT !.users = <<>>, !.hand = c.hand \o lists]
    BY <1>2, <2>1, SendUsersFacts
  <2>4. /\ d.hand = c.hand \o lists /\ d.state = c.state /\ d.queue = c.queue
        /\ d.waiting = c.waiting /\ d.routes = c.routes /\ d.ticks = c.ticks
    BY <2>3 DEF Layers
  <2>5. /\ Members(lists) \subseteq more /\ way \subseteq more
        /\ Members(c.hand) \subseteq Members(d.hand)
    BY <2>2, <2>4, MembersFacts
  <2> HIDE DEF more
  <2>6. \A r : Placed(c, way, r) => Placed(d, more, r)
    BY <2>4, <2>5 DEF Placed
  <2>7. RequestsPlaced(d, more, out, gone) /\ Acts(d)
    BY <1>2, <2>4, <2>6 DEF RequestsPlaced, Acts
  <2>8. ASSUME NEW u \in Listing, out[u] = "pending" PROVE Listed(d, more, u)
    <3>1. CASE Listed(c, way, u)
      BY <1>2, <2>5, <3>1 DEF Listed
    <3>2. ASSUME u \in Members(c.users) PROVE Listed(d, more, u)
      <4>0. PICK i \in DOMAIN c.users : c.users[i] = u
        BY <3>2 DEF Members
      <4>1. lists[i] = List(c, u) /\ i \in DOMAIN lists
        BY <2>1, <4>0 DEF Lists
      <4>2. List(c, u) \in more
        BY <2>5, <4>1 DEF Members
      <4>3. List(c, u).kind = "list" /\ List(c, u).user = u
        BY DEF List
      <4> QED
        BY <4>2, <4>3 DEF Listed
    <3> QED
      BY <2>8, <3>1, <3>2
  <2>9. c.users # <<>> => d.hand # <<>>
    <3> SUFFICES ASSUME c.users # <<>> PROVE d.hand # <<>>
      OBVIOUS
    <3>1. c.users \in Seq(Users) /\ 1 \in DOMAIN c.users
      BY EmptySeq DEF Layers
    <3>2. lists[1] \in Members(lists)
      BY <2>1, <3>1 DEF Lists, Members
    <3>3. Members(lists) \subseteq Members(d.hand)
      BY <2>2, <2>4, MembersFacts
    <3>4. Members(<<>>) = {}
      BY DEF Members
    <3> QED
      BY <3>2, <3>3, <3>4
  <2> QED
    BY <2>4, <2>5, <2>7, <2>8, <2>9 DEF Routes, UsersListed, more
<1> QED
  BY <1>1, <1>2

-----------------------------------------------------------------------------
(* The steps.  What is on the way counts while there is a connection.        *)
Way == IF tcpState = Disconnected THEN {} ELSE OnTheWay

LEMMA WayRoutes ==
  ASSUME TypeOK, RouteInv, incidents = {}, due # "upper destroy"
  PROVE  /\ UsersWait(eip, outcome) /\ Routes(eip, Way, outcome, dropped)
         /\ tcpState \in {Disconnected, Disconnecting} => Rests(eip, outcome)
         /\ due # "nothing" => Settled(outcome)
         /\ eip \in Layers /\ eip.hand = <<>>
<1>1. /\ UsersWait(eip, outcome) /\ Routes(eip, OnTheWay, outcome, dropped)
      /\ tcpState \in {Disconnected, Disconnecting} => Rests(eip, outcome)
      /\ due # "nothing" => Settled(outcome)
  BY DEF RouteInv, Over
<1>2. ASSUME tcpState = Disconnected PROVE Routes(eip, {}, outcome, dropped)
  BY <1>1, <1>2, StatesDiffer DEF Rests, Routes, RequestsPlaced, UsersListed
<1> QED
  BY <1>1, <1>2, EipTypes DEF Way

LEMMA FreshOnWay ==
  ASSUME TypeOK, NoReuse, Unsent # {}
  PROVE  FreshWay(eip, Way)
<1>1. OnTheWay \subseteq Fresh
  BY WayParts DEF NoReuse
<1> QED
  BY <1>1 DEF FreshWay, Way, Fresh

LEMMA QueueUnsent ==
  ASSUME TypeOK, eip.queue # <<>>
  PROVE  Unsent # {}
<1>1. eip.queue \in Seq(Requests)
  BY EipTypes DEF Layers
<1>2. 1 \in 1 .. Len(eip.queue) /\ eip.queue[1] \in Requests
  BY <1>1, EmptySeq
<1> QED
  BY <1>2 DEF Unsent

LEMMA SentRouted ==
  ASSUME TypeOK, Sound, NEW d \in Layers, Leave(d), NEW priority \in BOOLEAN,
         SendEach(d.hand, priority, wire), UsersWait(d, outcome'), dropped' = dropped,
         Routes(d, Way \cup Members(d.hand), outcome', dropped),
         tcpState = Disconnected => d.hand # <<>> \/ Rests(d, outcome'),
         tcpState = Disconnecting => Rests(d, outcome'),
         due' \in {"nothing", "upper disconnect"}, due' # "nothing" => Settled(outcome')
  PROVE  RouteInv'
<1>1. d.hand \in Seq(Messages) /\ wire \in [Sockets -> Seq(Messages)]
  BY OpenedFacts DEF Layers
<1>2. /\ Members(d.hand) \cup Queued(tcpQueue) \subseteq OnTheWay'
      /\ tcpState # Disconnected => Wired(wire) \subseteq OnTheWay' /\ tcpState' = tcpState
      /\ tcpState = Disconnected /\ d.hand # <<>> => tcpState' = Connecting
      /\ d.hand = <<>> => tcpState' = tcpState
  BY <1>1, SendEachKeeps
<1>3. Way \cup Members(d.hand) \subseteq OnTheWay'
  BY <1>2, WayIs DEF Way
<1>4. Routes(d, OnTheWay', outcome', dropped')
  BY <1>3, MorePlaced
<1>5. tcpState' \in {Disconnected, Disconnecting} => Rests(d, outcome')
  BY <1>2, StatesDiffer
<1>6. /\ eip'.state = d.state /\ eip'.queue = d.queue /\ eip'.ticks = d.ticks
      /\ eip'.routes = d.routes /\ eip'.users = d.users /\ eip'.waiting = d.waiting
  BY LeaveFacts
<1>7. UsersWait(eip', outcome') /\ (Rests(d, outcome') => Rests(eip', outcome'))
  BY <1>6 DEF UsersWait, Rests
<1>8. Routes(eip', OnTheWay', outcome', dropped')
  <2>1. \A r : Placed(d, OnTheWay', r) => Placed(eip', OnTheWay', r)
    BY <1>6 DEF Placed
  <2>2. \A u : Listed(d, OnTheWay', u) => Listed(eip', OnTheWay', u)
    BY <1>6 DEF Listed
  <2>3. Acts(eip')
    BY <1>4, <1>6 DEF Routes, Acts
  <2> QED
    BY <1>4, <1>6, <2>1, <2>2, <2>3 DEF Routes, RequestsPlaced, UsersListed
<1>9. Over' => tcpState' \in {Disconnected, Disconnecting}
  BY DEF Over, Disconnected, Disconnecting
<1> QED
  BY <1>5, <1>7, <1>8, <1>9 DEF RouteInv

LEMMA CalledOpen ==
  ASSUME TypeOK, NEW steps, incidents' = Incidents(steps), incidents' = {}
  PROVE  /\ incidents = {} /\ tcpState # Disconnecting
         /\ due \in CloseSteps /\ due \notin steps \cup {"destroy"}
BY DEF Incidents, TypeOK, TcpTypeOK

LEMMA IssueRouted ==
  ASSUME TypeOK, Sound, RouteInv, NoReuse, incidents' = {}, NEW r \in Requests, Issue(r)
  PROVE  RouteInv'
<1>1. PICK c : c = [eip EXCEPT !.queue = Append(@, r)]
  OBVIOUS
<1>2. PICK d : d = SendNextMessage(c)
  OBVIOUS
<1>3. /\ outcome[r] = "idle" /\ outcome' = [outcome EXCEPT ![r] = "pending"]
      /\ Leave(d) /\ SendEach(d.hand, d.hand = <<Register>>, wire)
      /\ incidents' = Incidents(AnyStep) /\ dropped' = dropped /\ due' = due
  BY <1>1, <1>2 DEF Issue
<1>4. incidents = {} /\ tcpState # Disconnecting /\ due = "nothing"
  BY <1>3, CalledOpen DEF AnyStep
<1>5. /\ UsersWait(eip, outcome) /\ Routes(eip, Way, outcome, dropped)
      /\ tcpState = Disconnected => eip.state = 0
      /\ eip \in Layers /\ eip.hand = <<>>
  BY <1>4, WayRoutes DEF Rests
<1>6. PICK q : q = Append(eip.queue, r)
  OBVIOUS
<1>7. /\ q \in Seq(Requests) /\ q # <<>> /\ Members(eip.queue) \cup {r} \subseteq Members(q)
  <2>1. eip.queue \in Seq(Requests)
    BY <1>5 DEF Layers
  <2>2. q \in Seq(Requests) /\ Members(eip.queue) \cup {r} \subseteq Members(q)
    BY <1>6, <2>1, MembersFacts, AppendProperties
  <2>3. Members(<<>>) = {}
    BY DEF Members
  <2> QED
    BY <2>2, <2>3
<1>8. c = [eip EXCEPT !.queue = q]
  BY <1>1, <1>6
<1>9. /\ c \in Layers /\ c.hand = <<>> /\ c.queue = q
      /\ c.state = eip.state /\ c.routes = eip.routes
      /\ c.users = eip.users /\ c.waiting = eip.waiting /\ c.context = eip.context
  <2>1. c \in Layers
    BY <1>5, <1>7, <1>8, LayerUpdates
  <2> QED
    BY <1>5, <1>8, <2>1 DEF Layers
<1>10. \A x \in Requests \cup Listing : x # r => outcome'[x] = outcome[x]
  BY <1>3 DEF TypeOK, Calls, Listing
<1>11. r \notin Listing
  BY EipAssumption DEF Listing
<1>12. RequestsPlaced(c, Way, outcome', dropped)
  <2>1. \A x : Placed(eip, Way, x) \/ x = r => Placed(c, Way, x)
    BY <1>7, <1>9 DEF Placed, Members
  <2> QED
    BY <1>5, <1>9, <1>10, <2>1 DEF Routes, RequestsPlaced
<1>13. FreshWay(c, Way)
  <2>1. Unsent # {}
    BY <1>3 DEF Unsent
  <2> QED
    BY <1>9, <2>1, FreshOnWay DEF FreshWay
<1>14. /\ RequestsPlaced(d, Way \cup Members(d.hand), outcome', dropped)
       /\ Acts(d) /\ d.users = c.users /\ d.waiting = c.waiting
       /\ d.state = c.state \/ (c.state = 0 /\ d.state = 1)
       /\ c.state = 0 /\ c.queue # <<>> => d.hand = <<Register>>
       /\ d \in Layers
  <2>1. PICK way, out : way = Way /\ out = outcome'
    OBVIOUS
  <2>2. /\ RequestsPlaced(c, way, out, dropped) /\ (c.queue # <<>> => FreshWay(c, way))
        /\ c \in Layers /\ c.hand = <<>> /\ d = SendNextMessage(c)
    BY <1>2, <1>9, <1>12, <1>13, <2>1
  <2>3. /\ RequestsPlaced(d, way \cup Members(d.hand), out, dropped)
        /\ Acts(d) /\ d.users = c.users /\ d.waiting = c.waiting
        /\ d.state = c.state \/ (c.state = 0 /\ d.state = 1)
        /\ c.state = 0 /\ c.queue # <<>> => d.hand = <<Register>>
    <3>1. Places(c, d, way, out, dropped)
      BY ONLY <2>2, NextMessagePlaced
    <3> QED
      BY <3>1 DEF Places
  <2>4. d \in Layers
    BY <1>2, <1>9, SendNextMessageFacts
  <2> QED
    BY <2>1, <2>3, <2>4
<1>15. UsersListed(d, Way \cup Members(d.hand), outcome') /\ UsersWait(d, outcome')
  <2>1. \A u : Listed(eip, Way, u) => Listed(d, Way \cup Members(d.hand), u)
    BY <1>9, <1>14 DEF Listed
  <2> QED
    BY <1>5, <1>9, <1>10, <1>11, <1>14, <2>1 DEF Routes, UsersListed, UsersWait
<1>16. tcpState = Disconnected => d.hand # <<>>
  <2>1. <<Register>> # <<>>
    OBVIOUS
  <2> QED
    BY <1>5, <1>7, <1>9, <1>14, <2>1
<1>17. (d.hand = <<Register>>) \in BOOLEAN
  OBVIOUS
<1> QED
  BY <1>3, <1>4, <1>14, <1>15, <1>16, <1>17, SentRouted DEF Routes

LEMMA NextTickRouted ==
  ASSUME TypeOK, Sound, RouteInv, NoReuse, incidents' = {}, NextTick
  PROVE  RouteInv'
<1>1. PICK c : c = [eip EXCEPT !.ticks = @ - 1]
  OBVIOUS
<1>2. PICK d : d = SendNextMessage(c)
  OBVIOUS
<1>3. /\ eip.ticks > 0 /\ Leave(d) /\ SendEach(d.hand, d.hand = <<Register>>, wire)
      /\ incidents = {} /\ dropped' = dropped /\ outcome' = outcome
      /\ due = "nothing" /\ due' = due
  BY <1>1, <1>2 DEF NextTick
<1>4. /\ UsersWait(eip, outcome) /\ Routes(eip, Way, outcome, dropped)
      /\ tcpState \in {Disconnected, Disconnecting} => Rests(eip, outcome)
      /\ eip \in Layers /\ eip.hand = <<>>
  BY <1>3, WayRoutes
<1>5. PICK t : t = eip.ticks - 1
  OBVIOUS
<1>6. t \in Nat
  BY <1>3, <1>4, <1>5 DEF Layers
<1>7. c = [eip EXCEPT !.ticks = t]
  BY <1>1, <1>5
<1>8. /\ c \in Layers /\ c.hand = <<>> /\ c.queue = eip.queue /\ c.state = eip.state
      /\ c.routes = eip.routes /\ c.users = eip.users /\ c.waiting = eip.waiting
      /\ c.context = eip.context
  <2>1. c \in Layers
    BY <1>4, <1>6, <1>7, LayerUpdates
  <2> QED
    BY <1>4, <1>7, <2>1 DEF Layers
<1>9. RequestsPlaced(c, Way, outcome, dropped)
  BY <1>4, <1>8 DEF Routes, RequestsPlaced, Placed
<1>10. c.queue # <<>> => FreshWay(c, Way)
  BY <1>8, QueueUnsent, FreshOnWay DEF FreshWay
<1>11. /\ RequestsPlaced(d, Way \cup Members(d.hand), outcome, dropped)
       /\ Acts(d) /\ d.users = c.users /\ d.waiting = c.waiting
       /\ d.state = c.state \/ (c.state = 0 /\ d.state = 1)
       /\ d \in Layers
  <2>1. Places(c, d, Way, outcome, dropped)
    BY <1>2, <1>8, <1>9, <1>10, NextMessagePlaced
  <2>2. d \in Layers
    BY <1>2, <1>8, SendNextMessageFacts
  <2> QED
    BY <2>1, <2>2 DEF Places
<1>12. UsersListed(d, Way \cup Members(d.hand), outcome) /\ UsersWait(d, outcome)
  <2>1. \A u : Listed(eip, Way, u) => Listed(d, Way \cup Members(d.hand), u)
    BY <1>8, <1>11 DEF Listed
  <2> QED
    BY <1>4, <1>8, <1>11, <2>1 DEF Routes, UsersListed, UsersWait
<1>13. tcpState \in {Disconnected, Disconnecting} => Rests(d, outcome)
  <2> SUFFICES ASSUME tcpState \in {Disconnected, Disconnecting} PROVE Rests(d, outcome)
    OBVIOUS
  <2>1. eip.state = 0 /\ eip.queue = <<>> /\ Rests(eip, outcome)
    BY <1>4 DEF Rests, Routes, Acts
  <2>2. d = c
    BY <1>2, <1>8, <2>1 DEF SendNextMessage
  <2> QED
    BY <1>8, <2>1, <2>2 DEF Rests
<1>14. (d.hand = <<Register>>) \in BOOLEAN
  OBVIOUS
<1>15. Routes(d, Way \cup Members(d.hand), outcome', dropped) /\ UsersWait(d, outcome')
       /\ (tcpState \in {Disconnected, Disconnecting} => Rests(d, outcome'))
  BY <1>3, <1>11, <1>12, <1>13 DEF Routes
<1> QED
  BY <1>3, <1>11, <1>14, <1>15, SentRouted

LEMMA ConnectCalledRouted ==
  ASSUME TypeOK, Sound, RouteInv, incidents' = {}, ConnectCalled
  PROVE  RouteInv'
<1>1. PICK d : d = Connect(eip)
  OBVIOUS
<1>2. /\ eip.state = 0 /\ Leave(d) /\ SendEach(<<Register>>, TRUE, wire) /\ due' = due
      /\ incidents' = Incidents(StepsAfterDisconnect) /\ dropped' = dropped /\ outcome' = outcome
  BY <1>1 DEF ConnectCalled
<1>3. incidents = {} /\ tcpState # Disconnecting /\ due \in {"nothing", "upper disconnect"}
  BY <1>2, CalledOpen DEF CloseSteps, StepsAfterDisconnect, AnyStep
<1>4. /\ UsersWait(eip, outcome) /\ Routes(eip, Way, outcome, dropped)
      /\ eip \in Layers /\ eip.hand = <<>> /\ (due # "nothing" => Settled(outcome))
  BY <1>3, WayRoutes
<1>5. d \in Layers /\ d = [eip EXCEPT !.state = 1, !.hand = <<Register>>]
  BY <1>1, <1>2, <1>4, ConnectFacts
<1>6. /\ d.state = 1 /\ d.hand = <<Register>> /\ d.queue = eip.queue /\ d.routes = eip.routes
      /\ d.users = eip.users /\ d.waiting = eip.waiting
  BY <1>4, <1>5 DEF Layers
<1>7. PICK way : way = Way \cup Members(d.hand)
  OBVIOUS
<1>8. Way \subseteq way /\ Register \in way
  BY <1>6, <1>7 DEF Members
<1>9. Routes(d, way, outcome, dropped)
  <2>1. \A r : Placed(eip, Way, r) => Placed(d, way, r)
    BY <1>6, <1>8 DEF Placed
  <2>2. \A u : Listed(eip, Way, u) => Listed(d, way, u)
    BY <1>2, <1>8 DEF Listed
  <2>3. Acts(d)
    BY <1>6 DEF Acts
  <2> QED
    BY <1>4, <1>8, <2>1, <2>2, <2>3 DEF Routes, RequestsPlaced, UsersListed
<1>10. UsersWait(d, outcome) /\ <<Register>> # <<>>
  BY <1>4, <1>6 DEF UsersWait
<1>11. /\ Routes(d, Way \cup Members(d.hand), outcome', dropped) /\ UsersWait(d, outcome')
       /\ SendEach(d.hand, TRUE, wire) /\ d.hand # <<>> /\ TRUE \in BOOLEAN
       /\ due' # "nothing" => Settled(outcome')
  BY <1>2, <1>4, <1>6, <1>7, <1>9, <1>10
<1> QED
  BY <1>2, <1>3, <1>5, <1>11, SentRouted

LEMMA UserRequestRouted ==
  ASSUME TypeOK, Sound, RouteInv, incidents' = {}, NEW u \in Users, UserRequest(u)
  PROVE  RouteInv'
<1>1. PICK q, w : q = Append(eip.users, u) /\ w = eip.waiting \cup ({u} \cap Listing)
  OBVIOUS
<1>2. PICK c : c = [eip EXCEPT !.users = q, !.waiting = w]
  OBVIOUS
<1>3. PICK d : d = SendUsers(c)
  OBVIOUS
<1>4. /\ outcome' = [outcome EXCEPT ![u] = IF u \in Listing THEN "pending" ELSE "answered"]
      /\ Leave(d) /\ SendEach(d.hand, FALSE, wire) /\ due' = due
      /\ incidents' = Incidents(StepsAfterDisconnect) /\ dropped' = dropped
  BY <1>1, <1>2, <1>3 DEF UserRequest
<1>5. incidents = {} /\ tcpState # Disconnecting /\ due \in {"nothing", "upper disconnect"}
  BY <1>4, CalledOpen DEF CloseSteps, StepsAfterDisconnect, AnyStep
<1>6. /\ UsersWait(eip, outcome) /\ Routes(eip, Way, outcome, dropped)
      /\ tcpState = Disconnected => eip.state = 0
      /\ eip \in Layers /\ eip.hand = <<>> /\ (due # "nothing" => Settled(outcome))
  BY <1>5, WayRoutes DEF Rests
<1>7. /\ q \in Seq(Users) /\ q # <<>> /\ Members(eip.users) \cup {u} \subseteq Members(q)
      /\ w \in SUBSET Users
  <2>1. eip.users \in Seq(Users) /\ eip.waiting \in SUBSET Users
    BY <1>6 DEF Layers
  <2>2. q \in Seq(Users) /\ Members(eip.users) \cup {u} \subseteq Members(q)
    BY <1>1, <2>1, MembersFacts, AppendProperties
  <2>3. Members(<<>>) = {}
    BY DEF Members
  <2> QED
    BY <1>1, <2>1, <2>2, <2>3
<1>8. /\ c \in Layers /\ c.hand = <<>> /\ c.queue = eip.queue /\ c.state = eip.state
      /\ c.routes = eip.routes /\ c.users = q /\ c.waiting = w /\ c.ticks = eip.ticks
  <2>1. c \in Layers
    BY <1>2, <1>6, <1>7, LayerUpdates
  <2> QED
    BY <1>2, <1>6, <2>1 DEF Layers
<1>9. \A x \in Requests \cup Listing : x # u => outcome'[x] = outcome[x]
  BY <1>4 DEF TypeOK, Calls, Listing
<1>10. u \notin Requests
  BY EipAssumption
<1>11. RequestsPlaced(c, Way, outcome', dropped) /\ Acts(c)
  <2>1. \A r : Placed(eip, Way, r) => Placed(c, Way, r)
    BY <1>8 DEF Placed
  <2> QED
    BY <1>6, <1>8, <1>9, <1>10, <2>1 DEF Routes, RequestsPlaced, Acts
<1>12. ASSUME NEW v \in Listing, outcome'[v] = "pending"
       PROVE  Listed(c, Way, v) \/ v \in Members(c.users)
  <2>1. CASE v = u
    BY <1>7, <1>8, <2>1 DEF Members
  <2>2. CASE v # u
    <3>1. Listed(eip, Way, v)
      BY <1>6, <1>9, <1>12, <2>2 DEF Routes, UsersListed
    <3> QED
      BY <1>7, <1>8, <3>1 DEF Listed, Members
  <2> QED
    BY <2>1, <2>2
<1>13. Members(c.hand) \subseteq Way
  BY <1>8 DEF Members
<1>14. /\ Routes(d, Way \cup Members(d.hand), outcome', dropped)
       /\ d.state = c.state /\ d.waiting = c.waiting
       /\ c.state # 1 /\ c.users # <<>> => d.hand # <<>>
       /\ d \in Layers
  <2>1. PICK way, out : way = Way /\ out = outcome'
    OBVIOUS
  <2>2. /\ RequestsPlaced(c, way, out, dropped) /\ Acts(c) /\ Members(c.hand) \subseteq way
        /\ \A v \in Listing : out[v] = "pending" => Listed(c, way, v) \/ v \in Members(c.users)
    BY <1>11, <1>12, <1>13, <2>1
  <2>3. /\ Routes(d, way \cup Members(d.hand), out, dropped)
        /\ d.state = c.state /\ d.waiting = c.waiting
        /\ c.state # 1 /\ c.users # <<>> => d.hand # <<>>
    BY <1>3, <1>8, <2>2, UsersSent
  <2>4. d \in Layers
    BY <1>3, <1>8, SendUsersFacts
  <2> QED
    BY <2>1, <2>3, <2>4
<1>15. UsersWait(d, outcome')
  <2>1. u \in Listing => u \in w
    BY <1>1
  <2>2. eip.waiting \subseteq w
    BY <1>1
  <2> QED
    BY <1>6, <1>8, <1>9, <1>14, <2>1, <2>2 DEF UsersWait
<1>16. tcpState = Disconnected => d.hand # <<>>
  BY <1>6, <1>7, <1>8, <1>14
<1>17. FALSE \in BOOLEAN
  OBVIOUS
<1>18. due' # "nothing" => Settled(outcome')
  BY <1>4, <1>6, <1>9, <1>10 DEF Settled
<1> QED
  BY <1>4, <1>5, <1>14, <1>15, <1>16, <1>17, <1>18, SentRouted

(* What is left after a step.                                                *)
SameFields(c, d) ==
  /\ c.state = d.state /\ c.queue = d.queue /\ c.ticks = d.ticks
  /\ c.routes = d.routes /\ c.users = d.users /\ c.waiting = d.waiting

LEMMA LeftRouted ==
  ASSUME NEW d, SameFields(eip', d), NEW way, way \subseteq OnTheWay',
         Routes(d, way, outcome', dropped'), UsersWait(d, outcome'),
         Over' => Rests(d, outcome'), due' # "nothing" => Settled(outcome')
  PROVE  RouteInv'
<1>1. Routes(d, OnTheWay', outcome', dropped')
  BY MorePlaced
<1>2. UsersWait(eip', outcome') /\ (Rests(d, outcome') => Rests(eip', outcome'))
  BY DEF UsersWait, Rests, SameFields
<1>3. Routes(eip', OnTheWay', outcome', dropped')
  BY <1>1 DEF Routes, RequestsPlaced, UsersListed, Acts, Placed, Listed, SameFields
<1> QED
  BY <1>2, <1>3 DEF RouteInv

LEMMA RestsRoutes ==
  ASSUME NEW c, NEW out, NEW gone, Rests(c, out), c.queue = <<>>
  PROVE  (\A way : Routes(c, way, out, gone)) /\ UsersWait(c, out)
BY DEF Rests, Routes, RequestsPlaced, UsersListed, Acts, UsersWait

LEMMA RestingRouted ==
  ASSUME Rests(eip', outcome'), eip'.queue = <<>>
  PROVE  RouteInv'
<1>1. PICK d : d = eip'
  OBVIOUS
<1>2. (\A way : Routes(d, way, outcome', dropped')) /\ UsersWait(d, outcome')
  BY <1>1, RestsRoutes
<1>3. Settled(outcome')
  BY DEF Rests, Settled
<1> QED
  BY <1>1, <1>2, <1>3 DEF RouteInv

LEMMA CleanedRouted ==
  ASSUME TypeOK, UsersWait(eip, outcome), NEW calls, Reject(calls), eip.waiting \subseteq calls,
         Requests \subseteq calls \/ Settled(outcome), eip'.state = 0, eip'.queue = <<>>
  PROVE  RouteInv'
<1>1. ASSUME NEW r \in Requests \cup Listing PROVE outcome'[r] # "pending"
  <2>1. r \in Calls /\ (r \in Requests \/ r \in Listing)
    BY DEF Calls, Listing
  <2>2. outcome[r] = "pending" => r \in Pending /\ r \in calls
    BY <2>1 DEF Pending, UsersWait, Settled
  <2> QED
    BY <2>1, <2>2 DEF Reject
<1>2. Rests(eip', outcome')
  BY <1>1 DEF Rests
<1> QED
  BY <1>2, RestingRouted

TakenOff(s, m) ==
  /\ wire[s] # <<>> /\ wire' = [wire EXCEPT ![s] = Tail(@)] /\ m = wire[s][1]
  /\ UNCHANGED <<opened, tcpQueue>>

LEMMA TakenKeeps ==
  ASSUME TypeOK, NEW s \in Sockets, NEW m, TakenOff(s, m)
  PROVE  \E way : way \subseteq OnTheWay' /\ OnTheWay \subseteq way \cup {m}
<1> USE DEF TakenOff
<1>1. PICK w : w = [wire EXCEPT ![s] = Tail(@)]
  OBVIOUS
<1>2. Wired(wire) \subseteq Wired(w) \cup {m}
  BY <1>1, TakenWay
<1>3. OnTheWay' = Queued(tcpQueue) \cup Wired(w)
  BY <1>1 DEF OnTheWay, Wired, Members
<1> WITNESS Queued(tcpQueue) \cup Wired(w)
<1> QED
  BY <1>2, <1>3, WayIs

LEMMA RegisterReplyRouted ==
  ASSUME TypeOK, Sound, RouteInv, NoReuse, incidents' = {}, NEW s \in Sockets, RegisterReply(s)
  PROVE  RouteInv'
<1>1. PICK c, e, d, w :
        /\ c = [eip EXCEPT !.state = 2, !.session = s] /\ e = SendNextMessage(c)
        /\ d = SendUsers(e) /\ w = [wire EXCEPT ![s] = Tail(@)]
  OBVIOUS
<1>2. /\ Reply(s, "register") /\ Leave(d) /\ wire[s] # <<>> /\ SendEach(d.hand, FALSE, w)
      /\ incidents = {} /\ tcpState = Connected /\ UNCHANGED <<outcome, dropped>>
      /\ due = "nothing" /\ due' = due
  BY <1>1 DEF RegisterReply, DataEventAndSend
<1>3. PICK way : way = Queued(tcpQueue) \cup Wired(w)
  OBVIOUS
<1>4. /\ UsersWait(eip, outcome) /\ Routes(eip, OnTheWay, outcome, dropped)
      /\ eip \in Layers /\ eip.hand = <<>>
      /\ eip.queue # <<>> => FreshWay(eip, OnTheWay)
  <2>1. Way = OnTheWay
    BY <1>2 DEF Way, Connected, Disconnected
  <2> QED
    BY <1>2, <2>1, WayRoutes, QueueUnsent, FreshOnWay
<1>5. /\ OnTheWay \subseteq way \cup {wire[s][1]} /\ w \in [Sockets -> Seq(Messages)]
      /\ wire[s][1].kind = "register"
  BY <1>1, <1>2, <1>3, TakenWay, WayIs DEF Reply
<1>6. way \subseteq OnTheWay
  <2>1. opened # 0 => opened \in Sockets
    BY OpenedFacts
  <2>2. opened # 0 => Members(w[opened]) \subseteq Members(wire[opened])
    <3> SUFFICES ASSUME opened # 0 PROVE Members(w[opened]) \subseteq Members(wire[opened])
      OBVIOUS
    <3>1. wire \in [Sockets -> Seq(Messages)]
      BY OpenedFacts
    <3>2. w[opened] = IF opened = s THEN Tail(wire[s]) ELSE wire[opened]
      BY <1>1, <2>1, <3>1
    <3> QED
      BY <1>2, <2>1, <3>1, <3>2, MembersFacts
  <2> QED
    BY <1>3, <2>2, WayIs DEF Wired
<1>7. /\ c \in Layers /\ c.hand = <<>> /\ c.state = 2 /\ c.queue = eip.queue
      /\ c.routes = eip.routes /\ c.users = eip.users /\ c.waiting = eip.waiting
      /\ c.context = eip.context
  <2>1. s \in Handles /\ 2 \in 0 .. 2
    BY DEF Handles
  <2>2. \A x \in Handles, n \in 0 .. 2 : [eip EXCEPT !.state = n, !.session = x] \in Layers
    BY <1>4, LayerUpdates
  <2>3. c \in Layers
    BY <1>1, <2>1, <2>2
  <2> QED
    BY <1>1, <1>4, <2>3 DEF Layers
<1>8. RequestsPlaced(c, way, outcome, dropped) /\ (c.queue # <<>> => FreshWay(c, way))
  <2>1. \A r : Placed(eip, OnTheWay, r) => Placed(c, way, r)
    BY <1>5, <1>7 DEF Placed
  <2>2. RequestsPlaced(c, way, outcome, dropped)
    BY <1>4, <1>7, <2>1 DEF Routes, RequestsPlaced
  <2> QED
    BY <1>4, <1>6, <1>7, <2>2 DEF FreshWay
<1>9. \A u \in Listing : outcome[u] = "pending" => Listed(c, way, u) \/ u \in Members(c.users)
  BY <1>4, <1>5, <1>7 DEF Routes, UsersListed, Listed
<1>10. /\ e \in Layers /\ RequestsPlaced(e, way \cup Members(e.hand), outcome, dropped)
       /\ Acts(e) /\ e.users = c.users /\ e.waiting = c.waiting /\ e.state = 2
  <2>1. e \in Layers
    BY <1>1, <1>7, SendNextMessageFacts
  <2>2. /\ RequestsPlaced(e, way \cup Members(e.hand), outcome, dropped)
        /\ Acts(e) /\ e.users = c.users /\ e.waiting = c.waiting
        /\ e.state = c.state \/ (c.state = 0 /\ e.state = 1)
    <3>1. /\ c \in Layers /\ c.hand = <<>> /\ RequestsPlaced(c, way, outcome, dropped)
          /\ (c.queue # <<>> => FreshWay(c, way)) /\ e = SendNextMessage(c)
      BY <1>1, <1>7, <1>8
    <3> QED
      <4>1. Places(c, e, way, outcome, dropped)
        BY ONLY <3>1, NextMessagePlaced
      <4> QED
        BY <4>1 DEF Places
  <2> QED
    BY <1>7, <2>1, <2>2
<1>11. PICK more : more = way \cup Members(e.hand)
  OBVIOUS
<1>12. \A u \in Listing : outcome[u] = "pending" => Listed(e, more, u) \/ u \in Members(e.users)
  BY <1>7, <1>9, <1>10, <1>11 DEF Listed
<1>13. /\ Routes(d, more \cup Members(d.hand), outcome, dropped)
       /\ d.state = e.state /\ d.waiting = e.waiting /\ d \in Layers
       /\ Members(e.hand) \subseteq Members(d.hand)
  <2>1. /\ RequestsPlaced(e, more, outcome, dropped) /\ Acts(e) /\ Members(e.hand) \subseteq more
        /\ e \in Layers /\ d = SendUsers(e)
    BY <1>1, <1>10, <1>11
  <2>2. d \in Layers
    BY <2>1, SendUsersFacts
  <2>3. PICK out, gone : out = outcome /\ gone = dropped
    OBVIOUS
  <2>4. \A u \in Listing : out[u] = "pending" => Listed(e, more, u) \/ u \in Members(e.users)
    BY <1>12, <2>3
  <2>5. RequestsPlaced(e, more, out, gone)
    BY <2>1, <2>3
  <2>6. /\ Routes(d, more \cup Members(d.hand), out, gone)
        /\ d.state = e.state /\ d.waiting = e.waiting
        /\ e.state # 1 /\ e.users # <<>> => d.hand # <<>>
        /\ Members(e.hand) \subseteq Members(d.hand)
    BY <2>1, <2>4, <2>5, UsersSent
  <2> QED
    BY <2>2, <2>3, <2>6
<1>14. /\ Members(d.hand) \cup way \subseteq OnTheWay' /\ tcpState' = Connected
  <2>1. d.hand \in Seq(Messages) /\ FALSE \in BOOLEAN
    BY <1>13 DEF Layers
  <2>2. tcpState # Disconnected
    BY <1>2 DEF Connected, Disconnected
  <2>3. /\ Members(d.hand) \cup Queued(tcpQueue) \subseteq OnTheWay'
        /\ tcpState # Disconnected => Wired(w) \subseteq OnTheWay' /\ tcpState' = tcpState
    BY <1>2, <1>5, <2>1, SendEachKeeps
  <2> QED
    BY <1>2, <1>3, <2>2, <2>3
<1>15. SameFields(eip', d)
  BY <1>2, <1>13, LeaveFacts DEF SameFields
<1>16. /\ more \cup Members(d.hand) \subseteq OnTheWay'
       /\ Routes(d, more \cup Members(d.hand), outcome', dropped')
       /\ UsersWait(d, outcome')
       /\ ~Over'
  BY <1>2, <1>4, <1>7, <1>10, <1>11, <1>13, <1>14
     DEF UsersWait, Over, Connected, Disconnected, Disconnecting
<1> QED
  BY <1>2, <1>15, <1>16, LeftRouted

(* A message taken off a socket, whose reply settles every call it is the     *)
(* route of, and leaves the layer otherwise as it was.                        *)
Takes(s, m, d) ==
  /\ wire[s] # <<>> /\ m = wire[s][1] /\ m # Register
  /\ wire' = [wire EXCEPT ![s] = Tail(@)] /\ UNCHANGED <<tcpState, opened, tcpQueue, due>>
  /\ SameFields(eip', d) /\ d.state = eip.state /\ d.queue = eip.queue
  /\ d.ticks = eip.ticks /\ d.users = eip.users /\ UsersWait(d, outcome')
  /\ dropped \subseteq dropped'
  /\ \A r \in Requests \cup Listing : outcome'[r] = "pending" => outcome[r] = "pending"
  /\ \A r \in Requests \ dropped' : outcome'[r] = "pending" /\ m.kind = "unit" => m.request # r
  /\ \A u \in Listing :
       outcome'[u] = "pending" /\ m.kind = "list" => Command[m.user] # Command[u]
  /\ \A r \in Requests \ dropped', n \in OnTheWay :
       outcome'[r] = "pending" /\ n.kind = "rr" /\ eip.routes[n.context] = r
         => d.routes[n.context] = r /\ n # m

LEMMA TakenRouted ==
  ASSUME TypeOK, RouteInv, incidents = {}, due # "upper destroy",
         NEW s \in Sockets, NEW m, NEW d, Takes(s, m, d)
  PROVE  RouteInv'
<1> USE DEF Takes
<1>1. PICK way : way \subseteq OnTheWay' /\ OnTheWay \subseteq way \cup {m}
  <2>1. TakenOff(s, m)
    BY DEF TakenOff
  <2> HIDE DEF Takes
  <2> QED
    BY <2>1, TakenKeeps
<1>2. /\ Routes(eip, OnTheWay, outcome, dropped)
      /\ Over => Rests(eip, outcome)
      /\ due # "nothing" => Settled(outcome)
  BY DEF RouteInv
<1>3. ASSUME NEW r \in Requests \ dropped', outcome'[r] = "pending" PROVE Placed(d, way, r)
  <2>1. Placed(eip, OnTheWay, r)
    BY <1>2, <1>3 DEF Routes, RequestsPlaced
  <2>2. CASE r \in Members(eip.queue)
    BY <2>2 DEF Placed
  <2>3. ASSUME NEW n \in OnTheWay, n.kind \in {"rr", "unit"}, n.request = r,
               n.kind = "rr" => eip.routes[n.context] = r
        PROVE  Placed(d, way, r)
    <3>1. n # m
      BY <1>3, <2>3
    <3>2. n \in way
      BY <1>1, <3>1
    <3>3. n.kind = "rr" => d.routes[n.context] = r
      BY <1>3, <2>3
    <3> QED
      BY <2>3, <3>2, <3>3 DEF Placed
  <2> QED
    BY <2>1, <2>2, <2>3 DEF Placed
<1>4. RequestsPlaced(d, way, outcome', dropped')
  BY <1>1, <1>2, <1>3 DEF Routes, RequestsPlaced
<1>5. UsersListed(d, way, outcome')
  <2> SUFFICES ASSUME NEW u \in Listing, outcome'[u] = "pending" PROVE Listed(d, way, u)
    BY DEF UsersListed
  <2>1. Listed(eip, OnTheWay, u)
    BY <1>2 DEF Routes, UsersListed
  <2> QED
    BY <1>1, <2>1 DEF Listed
<1>6. Acts(d)
  BY <1>2 DEF Routes, Acts
<1>7. /\ Over' => Rests(d, outcome')
      /\ due' # "nothing" => Settled(outcome')
  BY <1>2 DEF Rests, Settled, Over, Disconnected, Disconnecting
<1>8. Routes(d, way, outcome', dropped')
  BY <1>4, <1>5, <1>6 DEF Routes
<1> QED
  BY <1>1, <1>7, <1>8, LeftRouted

LEMMA RRDataReplyRouted ==
  ASSUME TypeOK, Sound, RouteInv, incidents' = {}, NEW s \in Sockets, RRDataReply(s)
  PROVE  RouteInv'
<1>1. PICK m, r, c : /\ m = wire[s][1] /\ r = eip.routes[m.context]
                     /\ c = [eip EXCEPT !.routes[m.context] = None]
  OBVIOUS
<1>2. /\ Reply(s, "rr") /\ DataEventAndSend(s, <<>>) /\ incidents = {} /\ dropped' = dropped
      /\ \/ /\ Leave(c)
            /\ IF r \in Pending
                 THEN /\ outcome' = [outcome EXCEPT ![r] = "answered"]
                      /\ answer' = [answer EXCEPT ![r] = m.request]
                 ELSE UNCHANGED <<outcome, answer>>
         \/ Leave(Cleanup(c)) /\ RejectAll
  BY <1>1 DEF RRDataReply
<1>3. /\ UsersWait(eip, outcome) /\ eip \in Layers /\ eip.hand = <<>>
      /\ outcome \in [Calls -> {"idle", "pending", "answered", "rejected"}]
      /\ due = "nothing"
  BY <1>2, EipTypes DEF RouteInv, DataEventAndSend
<1>4. m.kind = "rr" /\ m.context \in Contexts /\ m \in Messages
  BY <1>1, <1>2, ReplyFacts
<1>5. c \in Layers
  <2>1. None \in Requests \cup {None}
    OBVIOUS
  <2> QED
    BY <1>1, <1>3, <1>4, <2>1, LayerUpdates
<1>6. CASE Leave(Cleanup(c)) /\ RejectAll
  <2>1. PICK d : d = Cleanup(c)
    OBVIOUS
  <2>2. d \in Layers /\ d.state = 0 /\ d.queue = <<>>
    BY <1>5, <2>1, CleanupFacts
  <2>3. eip'.state = 0 /\ eip'.queue = <<>>
    BY <1>6, <2>1, <2>2, LeaveFacts
  <2>4. Reject(Requests \cup eip.waiting)
    BY <1>6 DEF RejectAll
  <2> QED
    BY <1>3, <2>3, <2>4, CleanedRouted
<1>7. CASE /\ Leave(c)
           /\ IF r \in Pending
                THEN /\ outcome' = [outcome EXCEPT ![r] = "answered"]
                     /\ answer' = [answer EXCEPT ![r] = m.request]
                ELSE UNCHANGED <<outcome, answer>>
  <2>1. /\ wire[s] # <<>> /\ wire' = [wire EXCEPT ![s] = Tail(@)]
        /\ UNCHANGED <<tcpState, opened, tcpQueue, due>>
    BY <1>2, ReplyTakes
  <2>2. /\ c.state = eip.state /\ c.queue = eip.queue /\ c.ticks = eip.ticks
        /\ c.users = eip.users /\ c.waiting = eip.waiting
        /\ \A x \in Contexts : c.routes[x] = IF x = m.context THEN None ELSE eip.routes[x]
    BY <1>1, <1>3, <1>4 DEF Layers
  <2>3. SameFields(eip', c)
    BY <1>5, <1>7, LeaveFacts DEF SameFields
  <2>4. \A x \in Calls : outcome'[x] = "pending" => outcome[x] = "pending" /\ x # r
    BY <1>3, <1>7 DEF Pending
  <2>5. Requests \cup Listing \subseteq Calls
    BY DEF Calls, Listing
  <2>6. m # Register
    BY <1>4 DEF Register
  <2>7. UsersWait(c, outcome')
    BY <1>3, <2>2, <2>4, <2>5 DEF UsersWait
  <2>8. ASSUME NEW x \in Requests \ dropped', NEW n \in OnTheWay, outcome'[x] = "pending",
               n.kind = "rr", eip.routes[n.context] = x
        PROVE  c.routes[n.context] = x /\ n # m
    <3>1. n \in Messages
      BY WayParts
    <3>2. n.context \in Contexts
      BY <2>8, <3>1 DEF Messages
    <3>3. n.context # m.context
      BY <1>1, <2>4, <2>5, <2>8
    <3> QED
      BY <2>2, <2>8, <3>2, <3>3
  <2>9. ASSUME NEW x, outcome'[x] = "pending", m.kind = "unit" PROVE m.request # x
    BY <1>4, <2>9
  <2>10. ASSUME NEW u \in Listing, outcome'[u] = "pending", m.kind = "list"
         PROVE Command[m.user] # Command[u]
    BY <1>4, <2>10
  <2>11. \A x \in Requests \cup Listing : outcome'[x] = "pending" => outcome[x] = "pending"
    BY <2>4, <2>5
  <2>12. Takes(s, m, c)
    BY ONLY <1>1, <1>2, <2>1, <2>2, <2>3, <2>6, <2>7, <2>8, <2>9, <2>10, <2>11 DEF Takes
  <2> QED
    BY <1>2, <1>3, <2>12, TakenRouted
<1> QED
  BY <1>2, <1>6, <1>7

LEMMA UnitDataReplyRouted ==
  ASSUME TypeOK, Sound, RouteInv, incidents' = {}, NEW s \in Sockets, UnitDataReply(s)
  PROVE  RouteInv'
<1>1. PICK m, r : m = wire[s][1] /\ r = m.request
  OBVIOUS
<1>2. /\ Reply(s, "unit") /\ DataEventAndSend(s, <<>>) /\ incidents = {} /\ eip' = eip
      /\ \/ /\ IF r \in Pending
                 THEN /\ outcome' = [outcome EXCEPT ![r] = "answered"]
                      /\ answer' = [answer EXCEPT ![r] = r]
                 ELSE UNCHANGED <<outcome, answer>>
            /\ dropped' = dropped
         \/ dropped' = dropped \cup {r} /\ UNCHANGED <<outcome, answer>>
  BY <1>1 DEF UnitDataReply
<1>3. /\ UsersWait(eip, outcome) /\ due = "nothing"
      /\ outcome \in [Calls -> {"idle", "pending", "answered", "rejected"}]
  BY <1>2, EipTypes DEF RouteInv, DataEventAndSend
<1>4. m.kind = "unit" /\ r \in Requests
  BY <1>1, <1>2, ReplyFacts
<1>5. /\ wire[s] # <<>> /\ wire' = [wire EXCEPT ![s] = Tail(@)]
      /\ UNCHANGED <<tcpState, opened, tcpQueue, due>>
  BY <1>2, ReplyTakes
<1>6. Requests \cup Listing \subseteq Calls
  BY DEF Calls, Listing
<1>7. \A x \in Requests \cup Listing : outcome'[x] = "pending" => outcome[x] = "pending"
  BY <1>2, <1>3, <1>6
<1>8. \A x \in Requests \ dropped' : outcome'[x] = "pending" => r # x
  BY <1>2, <1>3, <1>6 DEF Pending
<1>9. SameFields(eip', eip) /\ UsersWait(eip, outcome') /\ m # Register
  BY <1>2, <1>3, <1>4, <1>7 DEF SameFields, UsersWait, Register
<1>10. ASSUME NEW x \in Requests \ dropped', NEW n \in OnTheWay, outcome'[x] = "pending",
              n.kind = "rr", eip.routes[n.context] = x
       PROVE  eip.routes[n.context] = x /\ n # m
  BY <1>4, <1>10
<1>11. ASSUME NEW u \in Listing, outcome'[u] = "pending", m.kind = "list"
       PROVE Command[m.user] # Command[u]
  BY <1>4, <1>11
<1>12. dropped \subseteq dropped'
  BY <1>2
<1>13. PICK d : d = eip
  OBVIOUS
<1>14. Takes(s, m, d)
  BY ONLY <1>1, <1>2, <1>5, <1>7, <1>8, <1>9, <1>10, <1>11, <1>12, <1>13 DEF Takes
<1> QED
  BY <1>2, <1>3, <1>14, TakenRouted

LEMMA ListReplyRouted ==
  ASSUME TypeOK, Sound, RouteInv, incidents' = {}, NEW s \in Sockets, ListReply(s)
  PROVE  RouteInv'
<1>1. PICK m, settled, c :
        /\ m = wire[s][1] /\ settled = {v \in eip.waiting : Command[v] = Command[m.user]}
        /\ c = [eip EXCEPT !.waiting = @ \ settled]
  OBVIOUS
<1>2. /\ Reply(s, "list") /\ DataEventAndSend(s, <<>>) /\ incidents = {} /\ dropped' = dropped
      /\ Leave(c)
      /\ \E result \in {"answered", "rejected"} :
           outcome' = [x \in Calls |-> IF x \in settled THEN result ELSE outcome[x]]
  BY <1>1 DEF ListReply
<1>3. UsersWait(eip, outcome) /\ eip \in Layers /\ due = "nothing"
  BY <1>2, EipTypes DEF RouteInv, DataEventAndSend
<1>4. m.kind = "list"
  BY <1>1, <1>2, ReplyFacts
<1>5. /\ wire[s] # <<>> /\ wire' = [wire EXCEPT ![s] = Tail(@)]
      /\ UNCHANGED <<tcpState, opened, tcpQueue, due>>
  BY <1>2, ReplyTakes
<1>6. PICK w : w = eip.waiting \ settled
  OBVIOUS
<1>7. c = [eip EXCEPT !.waiting = w] /\ w \in SUBSET Users
  BY <1>1, <1>3, <1>6 DEF Layers
<1>8. /\ c \in Layers /\ c.state = eip.state /\ c.queue = eip.queue /\ c.ticks = eip.ticks
      /\ c.users = eip.users /\ c.routes = eip.routes /\ c.waiting = w
  <2>1. c \in Layers
    BY <1>3, <1>7, LayerUpdates
  <2> QED
    BY <1>3, <1>7, <2>1 DEF Layers
<1>9. SameFields(eip', c)
  BY <1>2, <1>8, LeaveFacts DEF SameFields
<1>10. \A x \in Requests \cup Listing :
         outcome'[x] = "pending" => outcome[x] = "pending" /\ x \notin settled
  <2>1. Requests \cup Listing \subseteq Calls
    BY DEF Calls, Listing
  <2> QED
    BY <1>2, <2>1
<1>11. UsersWait(c, outcome')
  BY <1>3, <1>6, <1>8, <1>10 DEF UsersWait
<1>12. ASSUME NEW u \in Listing, outcome'[u] = "pending" PROVE Command[m.user] # Command[u]
  BY <1>1, <1>3, <1>10, <1>12 DEF UsersWait
<1>13. m # Register
  BY <1>4 DEF Register
<1>14. ASSUME NEW x \in Requests \ dropped', NEW n \in OnTheWay, outcome'[x] = "pending",
              n.kind = "rr", eip.routes[n.context] = x
       PROVE  c.routes[n.context] = x /\ n # m
  BY <1>4, <1>8, <1>14
<1>15. ASSUME NEW x, outcome'[x] = "pending", m.kind = "unit" PROVE m.request # x
  BY <1>4, <1>15
<1>16. \A x \in Requests \cup Listing : outcome'[x] = "pending" => outcome[x] = "pending"
  BY <1>10
<1>17. Takes(s, m, c)
  BY ONLY <1>1, <1>2, <1>5, <1>8, <1>9, <1>11, <1>12, <1>13, <1>14, <1>15, <1>16 DEF Takes
<1> QED
  BY <1>2, <1>3, <1>17, TakenRouted

LEMMA TakeSilentlyRouted ==
  ASSUME TypeOK, Sound, RouteInv, incidents' = {}, NEW s \in Sockets, TakeSilently(s)
  PROVE  RouteInv'
<1>1. PICK m : m = wire[s][1]
  OBVIOUS
<1>2. /\ wire' = [wire EXCEPT ![s] = Tail(@)] /\ UNCHANGED <<tcpState, opened, tcpQueue, due>>
      /\ incidents = {} /\ UNCHANGED <<eip, outcome, dropped>>
  BY <1>1 DEF TakeSilently, Reply
<1>3. wire[s] # <<>> /\ (m.kind = "unregister" \/ (m.kind = "list" /\ m.user \notin Listing))
  BY <1>1 DEF TakeSilently, Reply
<1>4. m.kind = "list" => m.user \in Users
  BY <1>1, <1>3, ReplyFacts DEF Reply
<1>5. ASSUME NEW u \in Listing, m.kind = "list" PROVE Command[m.user] # Command[u]
  BY <1>3, <1>4, <1>5 DEF Listing
<1>6. SameFields(eip', eip) /\ UsersWait(eip, outcome') /\ m # Register
  <2>1. UsersWait(eip, outcome)
    BY DEF RouteInv
  <2>2. m # Register
    BY <1>3 DEF Register
  <2> QED
    BY <1>2, <2>1, <2>2 DEF SameFields, UsersWait
<1>7. \A x : m.kind = "unit" => m.request # x
  BY <1>3
<1>8. \A x, n : n.kind = "rr" => n # m
  BY <1>3
<1>9. PICK d : d = eip
  OBVIOUS
<1>10. Takes(s, m, d)
  BY ONLY <1>1, <1>2, <1>3, <1>5, <1>6, <1>7, <1>8, <1>9 DEF Takes
<1>11. CASE due = "upper destroy"
  <2>1. /\ UsersWait(eip, outcome) /\ Settled(outcome) /\ (Over => Rests(eip, outcome))
        /\ Over' = Over
    BY <1>2, <1>11 DEF RouteInv, Over, Disconnected, Disconnecting
  <2> QED
    BY <1>2, <1>11, <2>1 DEF RouteInv
<1> QED
  BY <1>2, <1>10, <1>11, TakenRouted

(* The steps of TCP alone, and those that destroy the layer.                 *)
LEMMA StillRouted ==
  ASSUME RouteInv, incidents = {}, UNCHANGED <<eip, outcome, dropped>>,
         OnTheWay \subseteq OnTheWay', tcpState' \notin {Disconnected, Disconnecting},
         due = "nothing", due' = due
  PROVE  RouteInv'
<1>1. /\ UsersWait(eip, outcome) /\ Routes(eip, OnTheWay, outcome, dropped)
  BY DEF RouteInv
<1>2. PICK d, way : d = eip /\ way = OnTheWay
  OBVIOUS
<1>3. /\ SameFields(eip', d) /\ way \subseteq OnTheWay'
      /\ Routes(d, way, outcome', dropped') /\ UsersWait(d, outcome')
      /\ ~Over'
  BY <1>1, <1>2 DEF SameFields, Over, Disconnected, Disconnecting
<1> QED
  BY <1>3, LeftRouted

LEMMA RestedRouted ==
  ASSUME RouteInv, incidents = {}, UNCHANGED <<eip, outcome>>, Over, due # "upper destroy"
  PROVE  RouteInv'
<1>1. Rests(eip, outcome) /\ eip.queue = <<>>
  BY DEF RouteInv, Rests, Routes, Acts
<1>2. Rests(eip', outcome') /\ eip'.queue = <<>>
  BY <1>1
<1> QED
  BY <1>2, RestingRouted

LEMMA TickRouted ==
  ASSUME TypeOK, Sound, RouteInv, incidents' = {}, Tick
  PROVE  RouteInv'
<1>1. /\ SendNext(tcpState, tcpQueue, ticks - 1) /\ incidents = {}
      /\ UNCHANGED <<eip, outcome, dropped, due>> /\ due = "nothing"
  BY DEF Tick, SendTick, eipVars
<1>2. CASE tcpState \in {Disconnected, Disconnecting}
  BY <1>1, <1>2, RestedRouted DEF Over
<1>3. CASE tcpState \notin {Disconnected, Disconnecting}
  <2>1. tcpState \in {Connecting, Connected, Disconnecting} /\ opened # 0
    BY <1>3 DEF TypeOK, TcpTypeOK, TcpStates, Sound
  <2>2. OnTheWay \subseteq OnTheWay' /\ tcpState' = tcpState
    BY <1>1, <2>1, SendNextKeeps
  <2> QED
    BY <1>1, <1>3, <2>2, StillRouted DEF Disconnected, Disconnecting
<1> QED
  BY <1>2, <1>3

LEMMA ConnectsRouted ==
  ASSUME TypeOK, Sound, RouteInv, incidents' = {}, NEW s \in Sockets, Connects(s)
  PROVE  RouteInv'
<1>1. /\ ConnectEvent(s) /\ incidents = {} /\ UNCHANGED <<eip, outcome, dropped, due>>
      /\ due = "nothing"
  BY DEF Connects, ConnectEvent, eipVars
<1>2. tcpState = Connecting /\ s = opened
  BY <1>1, LiveSocket DEF ConnectEvent
<1>3. SendNext(Connected, tcpQueue, ticks)
  BY <1>1, <1>2 DEF ConnectEvent
<1>4. opened # 0 /\ Connected \in {Connecting, Connected, Disconnecting}
  BY <1>2 DEF Sockets
<1>5. OnTheWay \subseteq OnTheWay' /\ tcpState' = Connected
  BY <1>3, <1>4, SendNextKeeps
<1>6. tcpState' \notin {Disconnected, Disconnecting}
  BY <1>5 DEF Connected, Disconnected, Disconnecting
<1> QED
  BY <1>1, <1>5, <1>6, StillRouted

LEMMA EndedRouted ==
  ASSUME TypeOK, Sound, RouteInv, incidents' = {}, NEW s \in Sockets, Ended(s)
  PROVE  RouteInv'
<1>1. /\ phase[s] = "ending" /\ incidents = {} /\ UNCHANGED <<eip, outcome, dropped>>
      /\ due = "nothing"
  BY DEF Ended, EndCallback
<1>2. tcpState = Disconnecting
  BY <1>1, LiveSocket
<1> QED
  BY <1>1, <1>2, RestedRouted DEF Over

LEMMA DestroyedRouted ==
  ASSUME TypeOK, RouteInv, RejectAll, Leave(Cleanup(eip))
  PROVE  RouteInv'
<1>1. eip \in Layers
  BY EipTypes
<1>2. PICK d : d = Cleanup(eip)
  OBVIOUS
<1>3. d \in Layers /\ d.state = 0 /\ d.queue = <<>>
  BY <1>1, <1>2, CleanupFacts
<1>4. eip'.state = 0 /\ eip'.queue = <<>>
  BY <1>2, <1>3, LeaveFacts
<1>5. Reject(Requests \cup eip.waiting) /\ UsersWait(eip, outcome)
  BY DEF RejectAll, RouteInv
<1> QED
  BY <1>4, <1>5, CleanedRouted

(* The steps of a close.                                                     *)
LEMMA CloseLayersRouted ==
  ASSUME TypeOK, Sound, RouteInv, incidents' = {}, CloseLayers
  PROVE  RouteInv'
<1>1. /\ ~closing /\ due = "nothing" /\ due' = "upper disconnect" /\ Reject(Requests)
      /\ UNCHANGED <<tcpState, opened, tcpQueue, wire, eip, dropped>> /\ incidents = {}
  BY DEF CloseLayers, CloseCalled
<1>2. /\ UsersWait(eip, outcome) /\ Routes(eip, OnTheWay, outcome, dropped)
      /\ Over => Rests(eip, outcome)
  BY <1>1 DEF RouteInv
<1>3. Requests \cup Listing \subseteq Calls
  BY DEF Calls, Listing
<1>4. Settled(outcome')
  BY <1>1, <1>3 DEF Settled, Reject, Pending
<1>5. \A x \in Requests \cup Listing : outcome'[x] = "pending" => outcome[x] = "pending"
  BY <1>1, <1>3 DEF Reject
<1>6. Over' => Over
  BY <1>1 DEF Over, Disconnected, Disconnecting
<1>7. PICK d, way : d = eip /\ way = OnTheWay
  OBVIOUS
<1>8. OnTheWay' = OnTheWay
  BY <1>1 DEF OnTheWay
<1>9. SameFields(eip', d) /\ way \subseteq OnTheWay' /\ UsersWait(d, outcome')
  BY <1>1, <1>2, <1>5, <1>7, <1>8 DEF SameFields, UsersWait
<1>10. Routes(d, way, outcome', dropped')
  BY <1>1, <1>2, <1>4, <1>5, <1>7 DEF Routes, RequestsPlaced, UsersListed, Settled
<1>11. Over' => Rests(d, outcome')
  BY <1>2, <1>5, <1>6, <1>7 DEF Rests
<1> QED
  BY <1>4, <1>9, <1>10, <1>11, LeftRouted

LEMMA UpperDisconnectsRouted ==
  ASSUME TypeOK, RouteInv, incidents' = {}, UpperDisconnects
  PROVE  RouteInv'
<1>1. PICK ms, c : /\ ms = (IF eip.state = 0 THEN <<>> ELSE <<Unregister(eip)>>)
                   /\ c = [eip EXCEPT !.state = 0]
  OBVIOUS
<1>2. /\ due = "upper disconnect" /\ due' = "upper destroy" /\ SendEach(ms, TRUE, wire)
      /\ Leave(c) /\ UNCHANGED <<outcome, dropped>> /\ incidents = {}
  BY <1>1 DEF UpperDisconnects
<1>3. UsersWait(eip, outcome) /\ Settled(outcome) /\ (Over => Rests(eip, outcome))
  BY <1>2 DEF RouteInv
<1>4. Over' => Over
  <2>1. Over' => tcpState' \in {Disconnected, Disconnecting}
    BY <1>2 DEF Over, Disconnected, Disconnecting
  <2>2. tcpState' = tcpState \/ tcpState' = Connecting
    BY <1>2 DEF SendEach
  <2> QED
    BY <2>1, <2>2 DEF Over, Connecting, Disconnected, Disconnecting
<1>5. eip'.state = 0 /\ eip'.waiting = eip.waiting
  <2>1. eip \in Layers /\ 0 \in 0 .. 2
    BY EipTypes
  <2>2. c \in Layers
    BY <1>1, <2>1, LayerUpdates
  <2>3. c.state = 0 /\ c.waiting = eip.waiting
    BY <1>1, <2>1, <2>2 DEF Layers
  <2> QED
    BY <1>2, <2>2, <2>3, LeaveFacts
<1>6. UsersWait(eip', outcome') /\ Settled(outcome') /\ (Over' => Rests(eip', outcome'))
  BY <1>2, <1>3, <1>4, <1>5 DEF UsersWait, Rests
<1> QED
  BY <1>2, <1>6 DEF RouteInv

LEMMA UpperDestroysRouted ==
  ASSUME TypeOK, RouteInv, incidents' = {}, UpperDestroys
  PROVE  RouteInv'
<1>1. /\ due = "upper destroy" /\ Reject(eip.waiting) /\ Leave(Cleanup(eip)) /\ incidents = {}
  BY DEF UpperDestroys
<1>2. UsersWait(eip, outcome) /\ Settled(outcome)
  BY <1>1 DEF RouteInv
<1>3. PICK d : d = Cleanup(eip)
  OBVIOUS
<1>4. d \in Layers /\ d.state = 0 /\ d.queue = <<>>
  BY <1>3, EipTypes, CleanupFacts
<1>5. eip'.state = 0 /\ eip'.queue = <<>>
  BY <1>1, <1>3, <1>4, LeaveFacts
<1> QED
  BY <1>1, <1>2, <1>5, CleanedRouted

LEMMA LastStepsRouted ==
  ASSUME RouteInv, incidents' = {}, Disconnects \/ Destroys
  PROVE  RouteInv'
<1>1. due \in {"disconnect", "destroy"} /\ UNCHANGED <<eip, outcome, incidents>>
  BY DEF Disconnects, Destroys, CloseDisconnects, CloseDestroys, eipVars
<1> QED
  BY <1>1, RestedRouted DEF Over

-----------------------------------------------------------------------------
(* A callback of the program stays on file until its call is settled, also   *)
(* after an incident.                                                        *)
LEMMA WaitingKept ==
  ASSUME NEW c \in Layers
  PROVE  /\ c.hand = <<>> => SendNextMessage(c).waiting = c.waiting
         /\ SendUsers(c).waiting = c.waiting
<1>1. ASSUME c.hand = <<>> PROVE SendNextMessage(c).waiting = c.waiting
  <2>1. PICK d : d = SendNextMessage(c)
    OBVIOUS
  <2>2. SendsNothing(c, d) \/ Registers(c, d) \/ SendsUnit(c, d) \/ SendsRR(c, d)
    BY <1>1, <2>1, SendNextMessageFacts
  <2>3. CASE SendsNothing(c, d)
    BY <2>1, <2>3 DEF SendsNothing
  <2>4. CASE Registers(c, d)
    BY <2>1, <2>4 DEF Registers, Layers
  <2>5. CASE SendsUnit(c, d)
    BY <2>1, <2>5 DEF SendsUnit, Layers
  <2>6. CASE SendsRR(c, d)
    BY <2>1, <2>6 DEF SendsRR, Layers
  <2> QED
    BY <2>2, <2>3, <2>4, <2>5, <2>6
<1>2. SendUsers(c).waiting = c.waiting
  BY SendUsersFacts DEF Layers
<1> QED
  BY <1>1, <1>2

LEMMA KeptWait ==
  ASSUME UsersWait(eip, outcome), eip'.waiting = eip.waiting,
         \A u \in Listing : outcome'[u] = "pending" => outcome[u] = "pending"
  PROVE  UsersWait(eip', outcome')
BY DEF UsersWait

LEMMA IssueWaits ==
  ASSUME TypeOK, UsersWait(eip, outcome), NEW r \in Requests, Issue(r)
  PROVE  UsersWait(eip', outcome')
<1>1. PICK q, c, d : /\ q = Append(eip.queue, r) /\ c = [eip EXCEPT !.queue = q]
                     /\ d = SendNextMessage(c)
  OBVIOUS
<1>2. Leave(d) /\ outcome' = [outcome EXCEPT ![r] = "pending"]
  BY <1>1 DEF Issue
<1>3. eip \in Layers /\ eip.hand = <<>>
  BY EipTypes
<1>4. q \in Seq(Requests)
  BY <1>1, <1>3, AppendProperties DEF Layers
<1>5. c \in Layers /\ c.hand = <<>> /\ c.waiting = eip.waiting
  <2>1. c \in Layers
    BY <1>1, <1>3, <1>4, LayerUpdates
  <2> QED
    BY <1>1, <1>3, <2>1 DEF Layers
<1>6. d \in Layers /\ d.waiting = eip.waiting
  BY <1>1, <1>5, SendNextMessageFacts, WaitingKept
<1>7. eip'.waiting = eip.waiting
  BY <1>2, <1>6, LeaveFacts
<1>8. \A u \in Listing : outcome'[u] = outcome[u]
  <2>1. outcome \in [Calls -> {"idle", "pending", "answered", "rejected"}]
    BY EipTypes
  <2>2. \A u \in Listing : u \in Calls /\ u # r
    BY EipAssumption DEF Calls, Listing
  <2> QED
    BY <1>2, <2>1, <2>2
<1> QED
  BY <1>7, <1>8, KeptWait

LEMMA UserRequestWaits ==
  ASSUME TypeOK, UsersWait(eip, outcome), NEW u \in Users, UserRequest(u)
  PROVE  UsersWait(eip', outcome')
<1>1. PICK q, w, c, d : /\ q = Append(eip.users, u) /\ w = eip.waiting \cup ({u} \cap Listing)
                        /\ c = [eip EXCEPT !.users = q, !.waiting = w] /\ d = SendUsers(c)
  OBVIOUS
<1>2. /\ Leave(d)
      /\ outcome' = [outcome EXCEPT ![u] = IF u \in Listing THEN "pending" ELSE "answered"]
  BY <1>1 DEF UserRequest
<1>3. eip \in Layers
  BY EipTypes
<1>4. q \in Seq(Users) /\ w \in SUBSET Users
  BY <1>1, <1>3, AppendProperties DEF Layers
<1>5. c \in Layers /\ c.waiting = w
  <2>1. c \in Layers
    BY <1>1, <1>3, <1>4, LayerUpdates
  <2> QED
    BY <1>1, <1>3, <2>1 DEF Layers
<1>6. d \in Layers /\ d.waiting = w
  BY <1>1, <1>5, SendUsersFacts, WaitingKept
<1>7. eip'.waiting = w
  BY <1>2, <1>6, LeaveFacts
<1>8. \A v \in Listing : v # u => outcome'[v] = outcome[v]
  <2>1. outcome \in [Calls -> {"idle", "pending", "answered", "rejected"}]
    BY EipTypes
  <2>2. \A v \in Listing : v \in Calls
    BY DEF Calls, Listing
  <2> QED
    BY <1>2, <2>1, <2>2
<1>9. (u \in Listing => u \in w) /\ eip.waiting \subseteq w
  BY <1>1
<1> QED
  BY <1>7, <1>8, <1>9 DEF UsersWait

LEMMA RegisteringWaits ==
  ASSUME TypeOK, UsersWait(eip, outcome),
         \/ ConnectCalled \/ NextTick \/ \E s \in Sockets : RegisterReply(s)
  PROVE  UsersWait(eip', outcome')
<1>1. eip \in Layers /\ eip.hand = <<>>
  BY EipTypes
<1>2. ASSUME outcome' = outcome, NEW d \in Layers, Leave(d), d.waiting = eip.waiting
      PROVE  UsersWait(eip', outcome')
  BY <1>2, LeaveFacts, KeptWait
<1>3. ASSUME ConnectCalled PROVE UsersWait(eip', outcome')
  <2>1. PICK d : d = Connect(eip)
    OBVIOUS
  <2>2. Leave(d) /\ eip.state = 0 /\ outcome' = outcome
    BY <1>3, <2>1 DEF ConnectCalled
  <2>3. d \in Layers /\ d.waiting = eip.waiting
    <3>1. PICK h : h = <<Register>>
      OBVIOUS
    <3>2. d \in Layers /\ d = [eip EXCEPT !.state = 1, !.hand = h]
      BY <1>1, <2>1, <2>2, <3>1, ConnectFacts
    <3>3. eip \in Layers
      BY <1>1
    <3> QED
      BY ONLY <3>2, <3>3 DEF Layers
  <2> QED
    BY <1>2, <2>2, <2>3
<1>4. ASSUME NextTick PROVE UsersWait(eip', outcome')
  <2>1. PICK t, c, d : /\ t = eip.ticks - 1 /\ c = [eip EXCEPT !.ticks = t]
                       /\ d = SendNextMessage(c)
    OBVIOUS
  <2>2. Leave(d) /\ eip.ticks > 0 /\ outcome' = outcome
    BY <1>4, <2>1 DEF NextTick
  <2>3. t \in Nat
    BY <1>1, <2>1, <2>2 DEF Layers
  <2>4. c \in Layers /\ c.hand = <<>> /\ c.waiting = eip.waiting
    <3>1. c \in Layers
      BY <1>1, <2>1, <2>3, LayerUpdates
    <3> QED
      BY <1>1, <2>1, <3>1 DEF Layers
  <2>5. d \in Layers /\ d.waiting = eip.waiting
    BY <2>1, <2>4, SendNextMessageFacts, WaitingKept
  <2> QED
    BY <1>2, <2>2, <2>5
<1>5. ASSUME NEW s \in Sockets, RegisterReply(s) PROVE UsersWait(eip', outcome')
  <2>1. PICK c, e, d, z : /\ c = [eip EXCEPT !.state = 2, !.session = s]
                          /\ e = SendNextMessage(c) /\ d = SendUsers(e)
                          /\ z = [eip EXCEPT !.state = 0]
    OBVIOUS
  <2>2. (Leave(d) \/ Leave(z)) /\ outcome' = outcome
    BY <1>5, <2>1 DEF RegisterReply
  <2>3. s \in Handles /\ 2 \in 0 .. 2 /\ 0 \in 0 .. 2
    BY DEF Handles
  <2>4. c \in Layers /\ z \in Layers
    BY <1>1, <2>1, <2>3, LayerUpdates
  <2>5. c.hand = <<>> /\ c.waiting = eip.waiting /\ z.waiting = eip.waiting
    BY <1>1, <2>1, <2>4 DEF Layers
  <2>6. e \in Layers /\ e.waiting = eip.waiting
    BY <2>1, <2>4, <2>5, SendNextMessageFacts, WaitingKept
  <2>7. d \in Layers /\ d.waiting = eip.waiting
    BY <2>1, <2>6, SendUsersFacts, WaitingKept
  <2> QED
    BY <1>2, <2>2, <2>4, <2>5, <2>7
<1> QED
  BY <1>3, <1>4, <1>5

LEMMA RejectedWait ==
  ASSUME TypeOK, UsersWait(eip, outcome), RejectAll \/ Reject(eip.waiting)
  PROVE  UsersWait(eip', outcome')
<1> SUFFICES ASSUME NEW u \in Listing PROVE outcome'[u] # "pending"
  BY DEF UsersWait
<1>1. u \in Calls
  BY DEF Calls, Listing
<1>2. outcome[u] = "pending" => u \in Pending /\ u \in eip.waiting
  BY <1>1 DEF Pending, UsersWait
<1> QED
  BY <1>1, <1>2 DEF RejectAll, Reject

LEMMA ReplyWaits ==
  ASSUME TypeOK, UsersWait(eip, outcome), NEW s \in Sockets,
         RRDataReply(s) \/ UnitDataReply(s) \/ ListReply(s)
  PROVE  UsersWait(eip', outcome')
<1>1. eip \in Layers /\ outcome \in [Calls -> {"idle", "pending", "answered", "rejected"}]
  BY EipTypes
<1>2. Listing \subseteq Calls
  BY DEF Calls, Listing
<1>3. ASSUME RRDataReply(s) PROVE UsersWait(eip', outcome')
  <2>1. PICK m, r, c : /\ m = wire[s][1] /\ r = eip.routes[m.context]
                       /\ c = [eip EXCEPT !.routes[m.context] = None]
    OBVIOUS
  <2>2. /\ Reply(s, "rr")
        /\ \/ /\ Leave(c)
              /\ \/ r \in Pending /\ outcome' = [outcome EXCEPT ![r] = "answered"]
                 \/ outcome' = outcome
           \/ RejectAll
    BY <1>3, <2>1 DEF RRDataReply
  <2>3. m.context \in Contexts
    BY <2>1, <2>2, ReplyFacts
  <2>4. None \in Requests \cup {None}
    OBVIOUS
  <2>5. c \in Layers
    BY <1>1, <2>1, <2>3, <2>4, LayerUpdates
  <2>6. c.waiting = eip.waiting
    BY <1>1, <2>1, <2>5 DEF Layers
  <2>7. CASE Leave(c) /\ (outcome' = outcome \/ outcome' = [outcome EXCEPT ![r] = "answered"])
    <3>1. eip'.waiting = eip.waiting
      BY <2>5, <2>6, <2>7, LeaveFacts
    <3>2. \A u \in Listing : outcome'[u] = "pending" => outcome[u] = "pending"
      BY <1>1, <1>2, <2>7
    <3> QED
      BY <3>1, <3>2, KeptWait
  <2> QED
    BY <2>2, <2>7, RejectedWait
<1>4. ASSUME UnitDataReply(s) PROVE UsersWait(eip', outcome')
  <2>1. PICK r : r = wire[s][1].request
    OBVIOUS
  <2>2. eip' = eip /\ (outcome' = outcome \/ outcome' = [outcome EXCEPT ![r] = "answered"])
    BY <1>4, <2>1 DEF UnitDataReply
  <2>3. \A u \in Listing : outcome'[u] = "pending" => outcome[u] = "pending"
    BY <1>1, <1>2, <2>2
  <2> QED
    BY <2>2, <2>3, KeptWait
<1>5. ASSUME ListReply(s) PROVE UsersWait(eip', outcome')
  <2>1. PICK settled, w, c :
          /\ settled = {v \in eip.waiting : Command[v] = Command[wire[s][1].user]}
          /\ w = eip.waiting \ settled /\ c = [eip EXCEPT !.waiting = w]
    OBVIOUS
  <2>2. /\ Leave(c)
        /\ \E result \in {"answered", "rejected"} :
             outcome' = [x \in Calls |-> IF x \in settled THEN result ELSE outcome[x]]
    BY <1>5, <2>1 DEF ListReply
  <2>3. w \in SUBSET Users
    BY <1>1, <2>1 DEF Layers
  <2>4. c \in Layers
    BY <1>1, <2>1, <2>3, LayerUpdates
  <2>5. c.waiting = w
    BY <1>1, <2>1, <2>4 DEF Layers
  <2>6. eip'.waiting = w
    BY <2>2, <2>4, <2>5, LeaveFacts
  <2>7. \A u \in Listing : outcome'[u] = "pending" => outcome[u] = "pending" /\ u \notin settled
    BY <1>2, <2>2
  <2> QED
    BY <2>1, <2>6, <2>7 DEF UsersWait
<1> QED
  BY <1>3, <1>4, <1>5

LEMMA NextWaits ==
  ASSUME TypeOK, UsersWait(eip, outcome), [Next]_vars
  PROVE  UsersWait(eip', outcome')
<1>1. ASSUME UNCHANGED <<eip, outcome>> PROVE UsersWait(eip', outcome')
  BY <1>1, KeptWait
<1>2. ASSUME NEW s \in Sockets, TakeSilently(s) \/ Connects(s) \/ SocketClosed(s) \/ Ended(s)
      PROVE  UsersWait(eip', outcome')
  BY <1>1, <1>2 DEF TakeSilently, Connects, SocketClosed, Ended, eipVars
<1>3. ASSUME Tick \/ Disconnects \/ Destroys \/ UNCHANGED vars PROVE UsersWait(eip', outcome')
  BY <1>1, <1>3 DEF Tick, Disconnects, Destroys, vars, eipVars
<1>4. ASSUME NEW s \in Sockets, Fail(s) PROVE UsersWait(eip', outcome')
  BY <1>4, RejectedWait DEF Fail
<1>5. ASSUME CloseLayers PROVE UsersWait(eip', outcome')
  <2>1. \A u \in Listing : u \in Calls
    BY DEF Calls, Listing
  <2>2. \A u \in Listing : outcome'[u] = "pending" => outcome[u] = "pending"
    BY <1>5, <2>1 DEF CloseLayers, Reject
  <2>3. eip' = eip
    BY <1>5 DEF CloseLayers
  <2> QED
    BY <2>2, <2>3, KeptWait
<1>6. ASSUME UpperDisconnects PROVE UsersWait(eip', outcome')
  <2>1. PICK c : c = [eip EXCEPT !.state = 0]
    OBVIOUS
  <2>2. Leave(c) /\ outcome' = outcome
    BY <1>6, <2>1 DEF UpperDisconnects
  <2>3. eip \in Layers /\ 0 \in 0 .. 2
    BY EipTypes
  <2>4. c \in Layers
    BY <2>1, <2>3, LayerUpdates
  <2>5. c.waiting = eip.waiting
    BY <2>1, <2>3, <2>4 DEF Layers
  <2> QED
    BY <2>2, <2>4, <2>5, LeaveFacts, KeptWait
<1>7. ASSUME UpperDestroys PROVE UsersWait(eip', outcome')
  BY <1>7, RejectedWait DEF UpperDestroys
<1> QED
  BY <1>2, <1>3, <1>4, <1>5, <1>6, <1>7, IssueWaits, UserRequestWaits, RegisteringWaits, ReplyWaits
  DEF Next, Replies

-----------------------------------------------------------------------------
LEMMA NextRouted ==
  ASSUME TypeOK, SocketInv, RouteInv, NoReuse, [Next]_vars
  PROVE  RouteInv'
<1>1. UsersWait(eip', outcome')
  BY NextWaits DEF RouteInv
<1>2. CASE incidents' # {}
  BY <1>1, <1>2 DEF RouteInv
<1>3. CASE incidents' = {}
  <2>1. ASSUME incidents \subseteq incidents' PROVE Sound
    BY <1>3, <2>1 DEF SocketInv, Strayed
  <2>2. ASSUME NEW r \in Requests, Issue(r) PROVE RouteInv'
    BY <1>3, <2>1, <2>2, IssueRouted DEF Issue, Incidents
  <2>3. ASSUME NEW u \in Users, UserRequest(u) PROVE RouteInv'
    BY <1>3, <2>1, <2>3, UserRequestRouted DEF UserRequest, Incidents
  <2>4. CASE ConnectCalled
    BY <1>3, <2>1, <2>4, ConnectCalledRouted DEF ConnectCalled, Incidents
  <2>5. CASE NextTick \/ Tick
    BY <1>3, <2>1, <2>5, NextTickRouted, TickRouted DEF NextTick, Tick, eipVars
  <2>6. ASSUME NEW s \in Sockets, Replies(s) PROVE RouteInv'
    <3>1. Sound
      BY <2>1, <2>6 DEF Replies, RegisterReply, RRDataReply, UnitDataReply, ListReply
    <3> QED
      BY <1>3, <2>6, <3>1, RegisterReplyRouted, RRDataReplyRouted, UnitDataReplyRouted,
         ListReplyRouted DEF Replies
  <2>7. ASSUME NEW s \in Sockets, TakeSilently(s) \/ Connects(s) \/ Ended(s) PROVE RouteInv'
    <3>1. Sound
      BY <2>1, <2>7 DEF TakeSilently, Connects, Ended, eipVars
    <3> QED
      BY <1>3, <2>7, <3>1, TakeSilentlyRouted, ConnectsRouted, EndedRouted
  <2>8. ASSUME NEW s \in Sockets, Fail(s) PROVE RouteInv'
    BY <2>8, DestroyedRouted DEF Fail
  <2>9. ASSUME NEW s \in Sockets, SocketClosed(s) PROVE RouteInv'
    <3>1. incidents' = incidents /\ CloseEvent(s) /\ TcpTypeOK
      BY <2>9 DEF SocketClosed, eipVars, TypeOK
    <3>2. Sound /\ ~Sound
      BY <2>1, <3>1, CloseEventTcp
    <3> QED
      BY <3>2
  <2>10. CASE CloseLayers
    BY <1>3, <2>1, <2>10, CloseLayersRouted DEF CloseLayers
  <2>11. CASE UpperDisconnects \/ UpperDestroys \/ Disconnects \/ Destroys
    BY <1>3, <2>11, UpperDisconnectsRouted, UpperDestroysRouted, LastStepsRouted
  <2>12. ASSUME UNCHANGED vars PROVE RouteInv'
    BY <2>12
    DEF vars, tcpVars, eipVars, RouteInv, OnTheWay, Over, Disconnected, Disconnecting
  <2> QED
    BY <2>2, <2>3, <2>4, <2>5, <2>6, <2>7, <2>8, <2>9, <2>10, <2>11, <2>12 DEF Next
<1> QED
  BY <1>2, <1>3

LEMMA InitRouted == Init => RouteInv
<1> SUFFICES ASSUME Init PROVE RouteInv
  OBVIOUS
<1>1. eip.state = 0 /\ eip.queue = <<>> /\ due = "nothing"
  BY DEF Init, TcpInit
<1>2. Rests(eip, outcome)
  BY <1>1 DEF Init, Rests, Calls, Listing
<1>3. (\A way : Routes(eip, way, outcome, dropped)) /\ UsersWait(eip, outcome)
  BY <1>1, <1>2, RestsRoutes
<1> QED
  BY <1>1, <1>2, <1>3 DEF RouteInv

LEMMA RouteInvSuffices ==
  ASSUME TypeOK, RouteInv
  PROVE  PendingHasRoute
<1> SUFFICES ASSUME incidents = {} PROVE PendingHasRoute
  BY DEF PendingHasRoute
<1>0. CASE due = "upper destroy"
  BY <1>0 DEF PendingHasRoute, RouteInv, Settled, UsersWait, Pending
<1> SUFFICES ASSUME due # "upper destroy" PROVE PendingHasRoute
  BY <1>0
<1>1. /\ UsersWait(eip, outcome) /\ Routes(eip, OnTheWay, outcome, dropped)
      /\ tcpState \in {Disconnected, Disconnecting} => Rests(eip, outcome)
      /\ eip \in Layers /\ tcpState \in TcpStates
  BY EipTypes DEF RouteInv, Over, TcpTypeOK
<1>2. eip.state = 1 => Registering
  BY <1>1, StatesDiffer DEF Registering, Routes, RequestsPlaced, Rests, TcpStates
<1>3. ASSUME NEW r \in Requests \cap (Pending \ dropped)
      PROVE  \/ (\E i \in DOMAIN eip.queue : eip.queue[i] = r)
                /\ (Registering \/ (eip.state = 2 /\ eip.ticks > 0))
             \/ \E m \in OnTheWay : /\ m.kind \in {"rr", "unit"} /\ m.request = r
                                    /\ m.kind = "rr" => eip.routes[m.context] = r
  <2>1. Placed(eip, OnTheWay, r)
    BY <1>1, <1>3 DEF Routes, RequestsPlaced, Pending
  <2>2. CASE r \in Members(eip.queue)
    <3>1. PICK i \in DOMAIN eip.queue : eip.queue[i] = r
      BY <2>2 DEF Members
    <3>2. eip.queue # <<>>
      BY <2>2, NoMembers
    <3>3. eip.state \in 0 .. 2 /\ eip.state # 0 /\ (eip.state = 2 => eip.ticks > 0)
      <4>1. eip.state \in 0 .. 2
        BY <1>1 DEF Layers
      <4>2. Acts(eip)
        BY <1>1 DEF Routes
      <4> QED
        BY <3>2, <4>1, <4>2 DEF Acts
    <3>4. eip.state = 1 \/ eip.state = 2
      BY ONLY <3>3
    <3> QED
      BY <1>2, <3>1, <3>3, <3>4
  <2> QED
    BY <2>1, <2>2 DEF Placed
<1>4. ASSUME NEW u \in Listing \cap Pending
      PROVE  /\ u \in eip.waiting
             /\ \/ (\E i \in DOMAIN eip.users : eip.users[i] = u) /\ Registering
                \/ \E m \in OnTheWay : m.kind = "list" /\ Command[m.user] = Command[u]
  <2>1. u \in eip.waiting /\ Listed(eip, OnTheWay, u)
    BY <1>1, <1>4 DEF Routes, UsersListed, UsersWait, Pending
  <2> QED
    BY <1>2, <2>1 DEF Listed, Members
<1> QED
  BY <1>3, <1>4 DEF PendingHasRoute

(* A call that is not settled has a way to be: it waits for a registration   *)
(* under way or for a tick, or its message is on its way and its context or  *)
(* callback on file.  The exceptions are the incidents, from which the layer *)
(* does not recover by itself, and requests whose error reply was only       *)
(* logged; no sender context may be used again while a message with it is    *)
(* under way.                                                                *)
THEOREM CallsKeepRoutes == Spec /\ []NoReuse => []PendingHasRoute
<1>1. Init => RouteInv
  BY InitRouted
<1>2. TypeOK /\ SocketInv /\ RouteInv /\ NoReuse /\ [Next]_vars => RouteInv'
  BY NextRouted
<1>3. TypeOK /\ RouteInv => PendingHasRoute
  BY RouteInvSuffices
<1> HIDE DEF TypeOK, SocketInv, RouteInv, NoReuse, PendingHasRoute
<1> QED
  BY <1>1, <1>2, <1>3, EipSessionTypes, PTL DEF Spec

(* With no more requests than sender contexts the same holds without a       *)
(* hypothesis on behaviours: every call that is not settled keeps a way.     *)
THEOREM FewCallsKeepRoutes ==
  ASSUME FewRequests
  PROVE  Spec => []PendingHasRoute
BY ContextsSuffice, CallsKeepRoutes, PTL
=============================================================================
