---------------------------- MODULE IdentityProofs ----------------------------
(***************************************************************************)
(* Proofs about listIdentity on a UDP layer.                                *)
(*                                                                          *)
(* A handler maps the record of the layer to another one, so each lemma     *)
(* says of one operator what it makes of a record: that it is one again     *)
(* (Layer), and which of the three states the layer is in (Steady).         *)
(***************************************************************************)
EXTENDS UdpIdentity, TLAPS

Names == Devices \cup {Everyone}
Phases == {"binding", "bound", "closed"}

Records ==
  [listening : BOOLEAN, opened : Nat, current : Nat, phase : Seq(Phases), heard : SUBSET Nat,
   settled : BOOLEAN, waiters : Nat, queue : Seq(Names), ticks : Nat, sent : SUBSET Names]

(* A record that a handler works on, before Leave bounds and empties it.     *)
Layer(u) ==
  /\ u \in Records /\ Len(u.phase) = u.opened
  /\ u.current <= u.opened /\ u.heard \subseteq 1 .. u.opened

(* The layer waits for the socket it created to bind.                        *)
Connecting(u) ==
  /\ ~u.settled /\ ~u.listening
  /\ u.opened > 0 /\ u.current = u.opened /\ u.heard = {u.opened}
  /\ u.phase[u.opened] = "binding"

(* It listens, and what is queued follows a datagram.                        *)
Bound(u) ==
  /\ u.settled /\ u.waiters = 0 /\ u.listening
  /\ u.opened > 0 /\ u.current = u.opened /\ u.heard = {u.opened}
  /\ u.phase[u.opened] = "bound"
Listens(u) == Bound(u) /\ (u.queue # <<>> => u.ticks > 0)

(* It was closed, or its socket failed.                                      *)
Silent(u) == u.settled /\ u.waiters = 0 /\ ~u.listening /\ u.heard = {}
Idle(u) ==
  /\ Silent(u)
  /\ \/ u.current = None /\ u.queue = <<>>
     \/ u.opened > 0 /\ u.current = u.opened /\ u.phase[u.opened] = "closed"

Steady(u) == Connecting(u) \/ Listens(u) \/ Idle(u)

(* What a record must be for mislaid to stay FALSE.                          *)
Kept(u, n) == u.opened <= n + 1 /\ (u.settled \/ u.opened \in u.heard)

SteadyInv == ~mislaid => Steady(udp)

-----------------------------------------------------------------------------
LEMMA NoSocketTypes == <<>> \in Seq(Phases) /\ <<>> \in Seq(Names) /\ Len(<<>>) = 0
  OBVIOUS

LEMMA TicksChange ==
  ASSUME NEW u, Layer(u), NEW t \in Nat
  PROVE  LET v == [u EXCEPT !.ticks = t]
         IN  Layer(v) /\ v \in Records /\ v.opened = u.opened
BY DEF Layer, Records

LEMMA CreateTypes ==
  ASSUME NEW u, Layer(u), NEW n \in Nat
  PROVE  Layer(Create(u, n)) /\ Create(u, n).opened = u.opened + n
<1> DEFINE new == u.opened + 1 .. u.opened + n
           p == [s \in DOMAIN u.phase \cup new |-> IF s \in new THEN "binding" ELSE u.phase[s]]
<1>1. u.opened \in Nat /\ u.phase \in Seq(Phases) /\ DOMAIN u.phase = 1 .. u.opened
  BY DEF Layer, Records
<1>2. DOMAIN u.phase \cup new = 1 .. u.opened + n
  BY <1>1
<1>3. p \in [1 .. u.opened + n -> Phases]
  BY <1>1, <1>2 DEF Phases
<1>4. p \in Seq(Phases) /\ Len(p) = u.opened + n
  <2> DEFINE m == u.opened + n
  <2>1. m \in Nat /\ p \in [1 .. m -> Phases]
    BY <1>1, <1>3
  <2> SUFFICES p \in Seq(Phases) /\ Len(p) = m
    OBVIOUS
  <2> HIDE DEF m, p
  <2> QED
    BY <2>1
<1>5. CASE n = 0
  BY <1>5, <1>1 DEF Create
<1>6. CASE n # 0
  <2>1. Create(u, n) = [u EXCEPT !.opened = @ + n, !.current = u.opened + n, !.phase = p,
                                 !.heard = @ \cup new, !.settled = FALSE, !.waiters = 0]
    BY <1>6 DEF Create
  <2>2. new \in SUBSET Nat /\ u.heard \cup new \subseteq 1 .. u.opened + n
    BY <1>1 DEF Layer
  <2> HIDE DEF new, p
  <2>3. Create(u, n) \in Records
    <3>1. u \in Records /\ u.opened + n \in Nat /\ u.heard \cup new \in SUBSET Nat
      BY <1>1, <2>2 DEF Layer, Records
    <3> DEFINE m == u.opened + n
               h == u.heard \cup new
    <3>2. Create(u, n) = [u EXCEPT !.opened = m, !.current = m, !.phase = p, !.heard = h,
                                   !.settled = FALSE, !.waiters = 0]
      BY <2>1
    <3>3. m \in Nat /\ h \in SUBSET Nat
      BY <3>1
    <3> HIDE DEF m, h
    <3> DEFINE v == [u EXCEPT !.opened = m, !.current = m, !.phase = p]
    <3>4. v \in Records
      BY <1>4, <3>1, <3>3 DEF Records
    <3>5. Create(u, n) = [v EXCEPT !.heard = h, !.settled = FALSE, !.waiters = 0]
      BY <3>1, <3>2 DEF Records
    <3> HIDE DEF v, p
    <3>6. [v EXCEPT !.heard = h, !.settled = FALSE, !.waiters = 0] \in Records
      BY <3>3, <3>4 DEF Records
    <3> QED
      BY <3>5, <3>6
  <2>4. Create(u, n).opened = u.opened + n /\ Create(u, n).phase = p
        /\ Create(u, n).current = u.opened + n /\ Create(u, n).heard = u.heard \cup new
    BY <2>1 DEF Layer, Records
  <2> QED
    BY <1>1, <1>4, <2>2, <2>3, <2>4 DEF Layer
<1> QED
  BY <1>5, <1>6

LEMMA SetUpTypes ==
  ASSUME NEW u, Layer(u), NEW n \in Nat
  PROVE  Layer(SetUp(u, n)) /\ SetUp(u, n).opened \in {u.opened, u.opened + n}
<1>1. CASE u.settled
  BY <1>1, CreateTypes DEF SetUp
<1>2. CASE ~u.settled
  <2>1. SetUp(u, n) = [u EXCEPT !.waiters = @ + n]
    BY <1>2 DEF SetUp
  <2>2. u \in Records /\ u.waiters + n \in Nat
    BY DEF Layer, Records
  <2>3. SetUp(u, n) \in Records
    BY <2>1, <2>2 DEF Records
  <2> QED
    BY <2>1, <2>2, <2>3 DEF Layer, Records
<1> QED
  BY <1>1, <1>2

LEMMA ResolveTypes ==
  ASSUME NEW u, Layer(u), NEW s, NEW ok \in BOOLEAN
  PROVE  Layer(Resolve(u, s, ok))
<1>1. CASE s # u.opened \/ u.settled
  BY <1>1 DEF Resolve
<1>2. CASE s = u.opened /\ ~u.settled /\ ok
  BY <1>2 DEF Resolve, Layer, Records
<1>3. CASE s = u.opened /\ ~u.settled /\ ~ok
  <2>1. Layer([u EXCEPT !.settled = TRUE]) /\ u.waiters \in Nat
    BY DEF Layer, Records
  <2> QED
    BY <1>3, <2>1, CreateTypes DEF Resolve
<1> QED
  BY <1>1, <1>2, <1>3 DEF Layer, Records

LEMMA SendNextTypes ==
  ASSUME NEW u, Layer(u)
  PROVE  Layer(SendNext(u))
<1>0. u.listening \in BOOLEAN /\ u.queue \in Seq(Names)
  BY DEF Layer, Records
<1>1. CASE u.listening /\ u.queue # <<>>
  <2>1. SendNext(u) = [u EXCEPT !.queue = Tail(@), !.ticks = @ + 1,
                                !.sent = @ \cup {Head(u.queue)}]
    BY <1>1 DEF SendNext
  <2>2. Tail(u.queue) \in Seq(Names) /\ Head(u.queue) \in Names
    BY <1>0, <1>1
  <2>3. u.ticks + 1 \in Nat /\ u.sent \cup {Head(u.queue)} \in SUBSET Names
    BY <2>2 DEF Layer, Records
  <2> QED
    BY <2>1, <2>2, <2>3 DEF Layer, Records
<1>2. CASE u.listening /\ u.queue = <<>>
  BY <1>2 DEF SendNext
<1>3. CASE ~u.listening
  BY <1>3, SetUpTypes DEF SendNext
<1> QED
  BY <1>0, <1>1, <1>2, <1>3

LEMMA SendEachTypes ==
  ASSUME NEW u, Layer(u), NEW ms \in Seq(Names)
  PROVE  Layer(SendEach(u, ms))
<1> DEFINE q == u.queue \o ms
           n == Len(ms)
<1>0. u.listening \in BOOLEAN /\ u.queue \in Seq(Names)
  BY DEF Layer, Records
<1>1. q \in Seq(Names) /\ n \in Nat /\ n <= Len(q)
  BY <1>0
<1>2. CASE u.listening
  <2>1. SubSeq(q, n + 1, Len(q)) \in Seq(Names)
    <3> HIDE DEF q, n
    <3> QED
      BY <1>1
  <2>2. {q[i] : i \in 1 .. n} \subseteq Names
    <3> HIDE DEF q, n
    <3> QED
      BY <1>1
  <2>3. SendEach(u, ms) = [u EXCEPT !.queue = SubSeq(q, n + 1, Len(q)), !.ticks = @ + n,
                                    !.sent = @ \cup {q[i] : i \in 1 .. n}]
    BY <1>2 DEF SendEach
  <2> HIDE DEF q, n
  <2> QED
    <3>1. u \in Records /\ u.ticks + n \in Nat
          /\ u.sent \cup {q[i] : i \in 1 .. n} \in SUBSET Names
      BY <1>1, <2>2 DEF Layer, Records
    <3>2. SendEach(u, ms) \in Records
      BY <2>1, <2>3, <3>1 DEF Records
    <3> QED
      BY <2>3, <3>1, <3>2 DEF Layer, Records
<1>3. CASE ~u.listening
  <2>1. SendEach(u, ms) = SetUp([u EXCEPT !.queue = q], n)
    BY <1>3 DEF SendEach
  <2> HIDE DEF q, n
  <2>2. Layer([u EXCEPT !.queue = q])
    BY <1>1 DEF Layer, Records
  <2> QED
    BY <1>1, <2>1, <2>2, SetUpTypes
<1> QED
  BY <1>0, <1>2, <1>3

LEMMA HandleDestroyTypes ==
  ASSUME NEW u, Layer(u)
  PROVE  Layer(HandleDestroy(u))
<1>1. u \in Records /\ u.heard \ {u.current} \in SUBSET Nat /\ 0 \in Nat
  BY DEF Layer, Records
<1>2. HandleDestroy(u) \in Records
  BY <1>1, NoSocketTypes DEF HandleDestroy, Records, None
<1> QED
  BY <1>1, <1>2 DEF HandleDestroy, Layer, Records, None

LEMMA PhaseTypes ==
  ASSUME NEW u, Layer(u), NEW s \in DOMAIN u.phase, NEW how \in Phases
  PROVE  Layer([u EXCEPT !.phase[s] = how])
<1>1. u.phase \in Seq(Phases)
  BY DEF Layer, Records
<1>2. [u.phase EXCEPT ![s] = how] \in Seq(Phases)
      /\ Len([u.phase EXCEPT ![s] = how]) = Len(u.phase)
  BY <1>1
<1> QED
  BY <1>1, <1>2 DEF Layer, Records

LEMMA ClosedTypes ==
  ASSUME NEW u, Layer(u), u.current \in DOMAIN u.phase
  PROVE  Layer(Closed(u))
<1> DEFINE v == [u EXCEPT !.listening = FALSE, !.phase[u.current] = "closed",
                          !.heard = @ \ {u.current}]
<1>1. Layer([u EXCEPT !.phase[u.current] = "closed"])
  BY PhaseTypes DEF Phases
<1>2. Layer(v)
  BY <1>1 DEF Layer, Records
<1>3. Closed(u) = Resolve(v, u.current, FALSE)
  BY DEF Closed
<1> QED
  BY <1>2, <1>3, ResolveTypes

LEMMA LeaveTypes ==
  ASSUME TypeOK, NEW u, Layer(u), Leave(u)
  PROVE  /\ udp' \in Fields /\ Len(udp'.phase) = udp'.opened
         /\ udp'.current <= udp'.opened /\ udp'.heard \subseteq 1 .. udp'.opened
         /\ asked' \subseteq Devices /\ mislaid' \in BOOLEAN
<1>1. u \in Records /\ u.opened \in 0 .. MaxSockets /\ udp' = [u EXCEPT !.sent = {}]
  BY DEF Layer, Records, Leave
<1>2. udp' \in Fields
  BY <1>1 DEF Records, Fields, Phases, Names
<1>3. Len(udp'.phase) = udp'.opened /\ udp'.current <= udp'.opened
      /\ udp'.heard \subseteq 1 .. udp'.opened
  BY <1>1 DEF Layer, Records
<1>4. Reached(u.sent) \subseteq Devices
  BY <1>1 DEF Reached, Records, Names
<1>5. asked' \subseteq Devices
  BY <1>4 DEF Leave, TypeOK
<1>6. mislaid' \in BOOLEAN
  BY DEF Leave, TypeOK
<1> QED
  BY <1>2, <1>3, <1>5, <1>6

LEMMA LayerNow == TypeOK => Layer(udp)
<1> SUFFICES ASSUME TypeOK PROVE Layer(udp)
  OBVIOUS
<1>1. udp \in Fields
  BY DEF TypeOK
<1>2. MaxSockets \in Nat
  BY IdentityAssumption
<1>3. udp \in Records
  BY <1>1, <1>2 DEF Fields, Records, Phases, Names
<1> QED
  BY <1>3 DEF Layer, TypeOK

LEMMA TargetTypes ==
  ASSUME NEW c \in Calls
  PROVE  Targets(c) \in Seq(Names) /\ Len(Targets(c)) \in Nat \ {0}
<1>1. Hosts[c] \in Seq(Devices)
  BY IdentityAssumption
<1>2. CASE Hosts[c] = <<>>
  BY <1>2 DEF Targets, Names
<1>3. CASE Hosts[c] # <<>>
  BY <1>1, <1>3 DEF Targets, Names
<1> QED
  BY <1>2, <1>3

LEMMA SettleTypes ==
  ASSUME TypeOK, NEW C, NEW how \in {"resolved", "rejected"}, Settle(C, how)
  PROVE  outcome' \in [Calls -> {"idle", "pending", "resolved", "rejected"}]
  BY DEF TypeOK, Settle

-----------------------------------------------------------------------------
(* The layer before its constructor calls setup.                             *)
Unset ==
  [listening |-> FALSE, opened |-> 0, current |-> None, phase |-> <<>>, heard |-> {},
   settled |-> TRUE, waiters |-> 0, queue |-> <<>>, ticks |-> 0, sent |-> {}]

LEMMA UnsetTypes == Layer(Unset) /\ Unset.opened = 0
<1>1. Unset \in Records
  BY NoSocketTypes DEF Records, Unset, None
<1> QED
  BY <1>1, NoSocketTypes DEF Layer, Unset, None

LEMMA InitTypes == Init => TypeOK
<1> SUFFICES ASSUME Init PROVE TypeOK
  OBVIOUS
<1>3. udp = Create(Unset, 1)
  BY DEF Init, Constructed, Unset
<1>4. Layer(udp) /\ udp.opened = 1
  BY <1>3, UnsetTypes, CreateTypes
<1>5. udp.sent = {}
  BY <1>3 DEF Create, Unset
<1>6. udp \in Fields
  <2>1. udp \in Records /\ udp.opened \in 0 .. MaxSockets
    BY <1>4, IdentityAssumption DEF Layer
  <2> QED
    BY <1>5, <2>1 DEF Records, Fields, Phases, Names
<1>7. udp.current <= udp.opened /\ udp.heard \subseteq 1 .. udp.opened
      /\ Len(udp.phase) = udp.opened
  BY <1>4 DEF Layer
<1>8. closes \in 0 .. MaxDisconnects
  BY IdentityAssumption DEF Init
<1>9. outcome \in [Calls -> {"idle", "pending", "resolved", "rejected"}]
      /\ found \in [Calls -> SUBSET Devices]
  BY DEF Init
<1> QED
  BY <1>6, <1>7, <1>8, <1>9 DEF Init, TypeOK

LEMMA StepTypes == TypeOK /\ [Next]_vars => TypeOK'
<1> SUFFICES ASSUME TypeOK, [Next]_vars PROVE TypeOK'
  OBVIOUS
<1> USE LayerNow
<1> DEFINE Udp == /\ udp' \in Fields /\ Len(udp'.phase) = udp'.opened
                  /\ udp'.current <= udp'.opened /\ udp'.heard \subseteq 1 .. udp'.opened
                  /\ asked' \subseteq Devices /\ mislaid' \in BOOLEAN
<1>1. ASSUME NEW c \in Calls, ListIdentity(c) PROVE TypeOK'
  <2>1. outcome' \in [Calls -> {"idle", "pending", "resolved", "rejected"}]
    BY <1>1 DEF ListIdentity, TypeOK
  <2>2. Udp
    <3>1. CASE Leave(SendEach(udp, Targets(c)))
      BY <3>1, SendEachTypes, TargetTypes, LeaveTypes
    <3>2. CASE UNCHANGED <<udp, asked, mislaid>>
      BY <3>2 DEF TypeOK
    <3> QED
      BY <1>1, <3>1, <3>2 DEF ListIdentity
  <2> QED
    BY <1>1, <2>1, <2>2 DEF ListIdentity, TypeOK
<1>2. ASSUME NEW c \in Calls, TimerFires(c) PROVE TypeOK'
  <2>1. outcome' \in [Calls -> {"idle", "pending", "resolved", "rejected"}]
    BY <1>2, SettleTypes DEF TimerFires
  <2> QED
    BY <1>2, <2>1 DEF TimerFires, TypeOK
<1>3. ASSUME NEW d \in Devices, IdentityReply(d) PROVE TypeOK'
  <2>1. outcome' \in [Calls -> {"idle", "pending", "resolved", "rejected"}]
    BY <1>3, SettleTypes DEF IdentityReply
  <2>2. found' \in [Calls -> SUBSET Devices] /\ timer' \subseteq Calls
    BY <1>3 DEF IdentityReply, TypeOK
  <2> QED
    BY <1>3, <2>1, <2>2 DEF IdentityReply, TypeOK
<1>4. ASSUME NEW s \in Sockets, Listening(s) PROVE TypeOK'
  <2> DEFINE u == [udp EXCEPT !.phase[s] = "bound"]
             v == [u EXCEPT !.listening = TRUE]
  <2>1. Layer(u)
    BY <1>4, PhaseTypes DEF Listening, Live, Phases
  <2>2. Layer(v)
    <3> HIDE DEF u
    <3> QED
      BY <2>1 DEF Layer, Records
  <2>3. Layer(IF s \in udp.heard THEN Resolve(SendNext(v), s, TRUE) ELSE u)
    BY <2>1, <2>2, SendNextTypes, ResolveTypes
  <2>4. Udp
    BY <1>4, <2>3, LeaveTypes DEF Listening
  <2> QED
    BY <1>4, <2>4 DEF Listening, TypeOK
<1>5. ASSUME NEW s \in Sockets, SocketError(s) PROVE TypeOK'
  <2> DEFINE u == [udp EXCEPT !.heard = @ \ {s}]
  <2>1. Layer(u)
    BY DEF Layer, Records
  <2>2. Layer(Resolve(HandleDestroy(u), s, FALSE))
    BY <2>1, HandleDestroyTypes, ResolveTypes
  <2>3. Udp
    BY <1>5, <2>2, LeaveTypes DEF SocketError
  <2>4. outcome' \in [Calls -> {"idle", "pending", "resolved", "rejected"}]
    BY <1>5, SettleTypes DEF SocketError
  <2> QED
    BY <1>5, <2>3, <2>4 DEF SocketError, TypeOK
<1>6. ASSUME Tick PROVE TypeOK'
  <2>1. Layer([udp EXCEPT !.ticks = @ - 1])
    <3>1. udp \in Records /\ udp.ticks - 1 \in Nat
      BY <1>6 DEF Layer, Records, Tick
    <3> QED
      BY <3>1, TicksChange
  <2>2. Udp
    BY <1>6, <2>1, SendNextTypes, LeaveTypes DEF Tick
  <2> QED
    BY <1>6, <2>2 DEF Tick, TypeOK
<1>7. ASSUME Disconnect PROVE TypeOK'
  <2>1. Udp
    BY <1>7, ClosedTypes, LeaveTypes DEF Disconnect, Live
  <2> QED
    BY <1>7, <2>1, IdentityAssumption DEF Disconnect, TypeOK
<1>8. ASSUME CloseLayers PROVE TypeOK'
  <2>1. ASSUME Live(udp.current) PROVE Udp
    BY <1>8, <2>1, ClosedTypes, HandleDestroyTypes, LeaveTypes DEF CloseLayers, Live
  <2>2. ASSUME ~Live(udp.current) PROVE Udp
    <3>1. Layer([udp EXCEPT !.listening = FALSE])
      BY DEF Layer, Records
    <3> QED
      BY <1>8, <2>2, <3>1, LeaveTypes DEF CloseLayers
  <2>3. Udp
    BY <2>1, <2>2
  <2>4. outcome' \in [Calls -> {"idle", "pending", "resolved", "rejected"}]
    BY <1>8, SettleTypes DEF CloseLayers
  <2> QED
    BY <1>8, <2>3, <2>4, IdentityAssumption DEF CloseLayers, TypeOK
<1>9. CASE UNCHANGED vars
  BY <1>9 DEF vars, TypeOK
<1> QED
  BY <1>1, <1>2, <1>3, <1>4, <1>5, <1>6, <1>7, <1>8, <1>9 DEF Next

(* Every field and variable keeps its type, and a socket the layer speaks of  *)
(* exists: listIdentity and the UDP layer under it never reach a record that  *)
(* the code could not hold, however many sockets are opened.                 *)
THEOREM TypesHold == Spec => []TypeOK
<1>1. Init => TypeOK
  BY InitTypes
<1>2. TypeOK /\ [Next]_vars => TypeOK'
  BY StepTypes
<1> QED
  BY <1>1, <1>2, PTL DEF Spec

-----------------------------------------------------------------------------
(* What one operator makes of the state of the layer.  Kept(u, n) says that  *)
(* at most one socket was created since there were n, and that the promise   *)
(* of the last one can still be resolved.                                    *)
LEMMA CreateSteady ==
  ASSUME NEW u, Layer(u), NEW n \in Nat \ {0}, NEW m \in Nat, u.opened >= m,
         u.heard = {}, ~u.listening, Kept(Create(u, n), m)
  PROVE  Connecting(Create(u, n))
<1>1. Create(u, n).opened = u.opened + n
  BY CreateTypes
<1>2. n = 1 /\ u.opened \in Nat
  BY <1>1 DEF Kept, Layer, Records
<1> DEFINE new == u.opened + 1 .. u.opened + 1
           p == [s \in DOMAIN u.phase \cup new |-> IF s \in new THEN "binding" ELSE u.phase[s]]
<1>3. Create(u, n) = [u EXCEPT !.opened = @ + 1, !.current = u.opened + 1, !.phase = p,
                               !.heard = @ \cup new, !.settled = FALSE, !.waiters = 0]
  BY <1>2 DEF Create
<1>4. new = {u.opened + 1} /\ p[u.opened + 1] = "binding"
  BY <1>2
<1>5. u \in Records
  BY DEF Layer
<1> HIDE DEF new, p
<1>6. Create(u, n).phase = p /\ Create(u, n).heard = {u.opened + 1}
      /\ Create(u, n).current = u.opened + 1 /\ Create(u, n).opened = u.opened + 1
  BY <1>3, <1>4, <1>5 DEF Records
<1>7. Create(u, n).settled = FALSE /\ Create(u, n).listening = u.listening
  BY <1>3, <1>5 DEF Records
<1> QED
  BY <1>2, <1>4, <1>6, <1>7 DEF Connecting

LEMMA SetUpSteady ==
  ASSUME NEW u, Layer(u), NEW n \in Nat \ {0}, Connecting(u) \/ Silent(u),
         Kept(SetUp(u, n), u.opened)
  PROVE  Connecting(SetUp(u, n))
<1>1. CASE Connecting(u)
  <2>1. SetUp(u, n) = [u EXCEPT !.waiters = @ + n]
    BY <1>1 DEF SetUp, Connecting
  <2> QED
    BY <1>1, <2>1 DEF Connecting, Layer, Records
<1>2. CASE Silent(u)
  <2>1. SetUp(u, n) = Create(u, n) /\ u.opened \in Nat
    BY <1>2 DEF SetUp, Silent, Layer, Records
  <2> QED
    BY <1>2, <2>1, CreateSteady DEF Silent
<1> QED
  BY <1>1, <1>2

LEMMA SendNextSteady ==
  ASSUME NEW u, Layer(u), Connecting(u) \/ Bound(u) \/ Silent(u),
         Kept(SendNext(u), u.opened)
  PROVE  Steady(SendNext(u)) /\ (Bound(u) => Listens(SendNext(u)))
<1>0. u \in Records /\ u.ticks \in Nat /\ u.listening \in BOOLEAN
  BY DEF Layer, Records
<1>1. CASE Bound(u) /\ u.queue # <<>>
  <2>1. SendNext(u) = [u EXCEPT !.queue = Tail(@), !.ticks = @ + 1,
                                !.sent = @ \cup {Head(u.queue)}]
    BY <1>1 DEF SendNext, Bound
  <2>2. Bound(SendNext(u)) /\ SendNext(u).ticks > 0
    BY <1>0, <1>1, <2>1 DEF Bound, Records
  <2> QED
    BY <2>2 DEF Listens, Steady
<1>2. CASE Bound(u) /\ u.queue = <<>>
  <2>1. SendNext(u) = u
    BY <1>2 DEF SendNext, Bound
  <2> QED
    BY <1>2, <2>1 DEF Listens, Steady
<1>3. CASE Connecting(u) \/ Silent(u)
  <2>1. SendNext(u) = SetUp(u, 1) /\ ~u.listening
    BY <1>3 DEF SendNext, Connecting, Silent
  <2>2. Connecting(SendNext(u))
    BY <1>3, <2>1, SetUpSteady
  <2> QED
    BY <2>1, <2>2 DEF Steady, Bound
<1> QED
  BY <1>1, <1>2, <1>3

LEMMA SendEachSteady ==
  ASSUME NEW u, Layer(u), Steady(u), NEW ms \in Seq(Names), Len(ms) > 0,
         Kept(SendEach(u, ms), u.opened)
  PROVE  Steady(SendEach(u, ms))
<1> DEFINE q == u.queue \o ms
           n == Len(ms)
<1>0. u \in Records /\ u.ticks \in Nat /\ n \in Nat \ {0} /\ q \in Seq(Names)
  BY DEF Layer, Records
<1>1. CASE Listens(u)
  <2> DEFINE rest == SubSeq(q, n + 1, Len(q))
             some == {q[i] : i \in 1 .. n}
  <2>1. SendEach(u, ms) = [u EXCEPT !.queue = rest, !.ticks = @ + n, !.sent = @ \cup some]
    BY <1>1 DEF SendEach, Listens, Bound
  <2> HIDE DEF rest, some, q, n
  <2>2. Bound(SendEach(u, ms)) /\ SendEach(u, ms).ticks > 0
    BY <1>0, <1>1, <2>1 DEF Listens, Bound, Records
  <2> QED
    BY <2>2 DEF Listens, Steady
<1>2. CASE Connecting(u) \/ Idle(u)
  <2> DEFINE v == [u EXCEPT !.queue = q]
  <2>1. SendEach(u, ms) = SetUp(v, n)
    BY <1>2 DEF SendEach, Connecting, Idle, Silent
  <2> HIDE DEF q, n
  <2>2. v \in Records /\ Layer(v) /\ v.opened = u.opened
    BY <1>0 DEF Layer, Records
  <2>3. Connecting(v) \/ Silent(v)
    BY <1>0, <1>2 DEF Connecting, Idle, Silent, Records
  <2> HIDE DEF v
  <2> QED
    BY <1>0, <2>1, <2>2, <2>3, SetUpSteady DEF Steady
<1> QED
  BY <1>1, <1>2 DEF Steady

(* The promise of the last socket is resolved with a failure, when nothing   *)
(* is heard of any socket any more.                                          *)
LEMMA FailSteady ==
  ASSUME NEW u, Layer(u), ~u.listening, u.heard = {}, u.settled => u.waiters = 0,
         \/ u.current = None /\ u.queue = <<>>
         \/ u.opened > 0 /\ u.current = u.opened /\ u.phase[u.opened] = "closed",
         Kept(Resolve(u, u.opened, FALSE), u.opened)
  PROVE  LET v == Resolve(u, u.opened, FALSE)
         IN  \/ Idle(v) /\ v.queue = u.queue /\ v.opened = u.opened
             \/ Connecting(v)
<1>0. u \in Records /\ u.waiters \in Nat /\ u.opened \in Nat
  BY DEF Layer, Records
<1>1. CASE u.settled
  BY <1>1 DEF Resolve, Idle, Silent
<1>2. CASE ~u.settled
  <2> DEFINE w == [u EXCEPT !.settled = TRUE]
  <2>1. Resolve(u, u.opened, FALSE) = Create(w, u.waiters)
    BY <1>2 DEF Resolve
  <2>2. w \in Records /\ Layer(w) /\ w.opened = u.opened /\ w.heard = {} /\ ~w.listening
        /\ w.waiters = u.waiters /\ w.settled /\ w.current = u.current /\ w.queue = u.queue
        /\ w.phase = u.phase
    BY <1>0 DEF Layer, Records
  <2> HIDE DEF w
  <2>3. CASE u.waiters = 0
    <3>1. Create(w, u.waiters) = w
      BY <2>3 DEF Create
    <3> QED
      BY <2>1, <2>2, <2>3, <3>1 DEF Idle, Silent
  <2>4. CASE u.waiters # 0
    <3>1. u.waiters \in Nat \ {0} /\ w.opened >= u.opened
      BY <1>0, <2>2, <2>4
    <3>2. Connecting(Create(w, u.waiters))
      BY <1>0, <2>1, <2>2, <3>1, CreateSteady
    <3> QED
      BY <2>1, <3>2
  <2> QED
    BY <2>3, <2>4
<1> QED
  BY <1>1, <1>2

LEMMA ClosedSteady ==
  ASSUME NEW u, Layer(u), Steady(u), u.current \in DOMAIN u.phase,
         u.phase[u.current] \in {"binding", "bound"}, Kept(Closed(u), u.opened)
  PROVE  Idle(Closed(u)) \/ Connecting(Closed(u))
<1> DEFINE w == [u EXCEPT !.listening = FALSE, !.phase[u.current] = "closed",
                          !.heard = @ \ {u.current}]
<1>0. u \in Records /\ DOMAIN u.phase = 1 .. u.opened /\ u.opened \in Nat
  BY DEF Layer, Records
<1>1. Connecting(u) \/ Listens(u)
  BY <1>0 DEF Steady, Idle, None
<1>2. u.current = u.opened /\ u.opened > 0 /\ u.heard = {u.opened}
      /\ (u.settled => u.waiters = 0)
  BY <1>1 DEF Connecting, Listens, Bound
<1>3. Layer([u EXCEPT !.phase[u.current] = "closed"])
  BY PhaseTypes DEF Phases
<1>4. Layer(w)
  BY <1>3 DEF Layer, Records
<1>5. w.opened = u.opened /\ w.current = u.opened /\ w.heard = {} /\ ~w.listening
      /\ w.settled = u.settled /\ w.waiters = u.waiters
  BY <1>0, <1>2 DEF Records
<1>6. w.phase[u.opened] = "closed"
  BY <1>0, <1>2 DEF Records
<1>7. Closed(u) = Resolve(w, w.opened, FALSE)
  BY <1>2, <1>5 DEF Closed
<1> HIDE DEF w
<1> QED
  BY <1>2, <1>4, <1>5, <1>6, <1>7, FailSteady

LEMMA DestroySteady ==
  ASSUME NEW u, Layer(u), Idle(u)
  PROVE  Idle(HandleDestroy(u))
  BY DEF HandleDestroy, Idle, Silent, Layer, Records

LEMMA LeaveSteady ==
  ASSUME TypeOK, NEW u, Layer(u), Leave(u), ~mislaid'
  PROVE  ~mislaid /\ Kept(u, udp.opened) /\ (Steady(u) => Steady(udp'))
<1>1. u \in Records /\ udp' = [u EXCEPT !.sent = {}] /\ u.opened \in Nat /\ udp.opened \in Nat
  BY LayerNow DEF Layer, Records, Leave
<1>2. ~mislaid /\ ~(u.opened > udp.opened + 1) /\ ~(~u.settled /\ u.opened \notin u.heard)
  BY DEF Leave
<1>3. Kept(u, udp.opened)
  BY <1>1, <1>2 DEF Kept
<1>4. Steady(u) => Steady(udp')
  BY <1>1 DEF Steady, Connecting, Listens, Bound, Idle, Silent, Records
<1> QED
  BY <1>2, <1>3, <1>4

-----------------------------------------------------------------------------
LEMMA InitSteady == Init => SteadyInv
<1> SUFFICES ASSUME Init PROVE Connecting(udp)
  BY DEF SteadyInv, Steady
<1>1. udp = Create(Unset, 1)
  BY DEF Init, Constructed, Unset
<1>2. Create(Unset, 1).opened = 1
  BY UnsetTypes, CreateTypes
<1>3. Create(Unset, 1).heard = {1}
  BY DEF Create, Unset
<1>4. Kept(Create(Unset, 1), 0)
  BY <1>2, <1>3 DEF Kept
<1>5. Unset.heard = {} /\ ~Unset.listening
  BY DEF Unset
<1> QED
  BY <1>1, <1>4, <1>5, UnsetTypes, CreateSteady

LEMMA StepSteady == TypeOK /\ SteadyInv /\ [Next]_vars => SteadyInv'
<1> SUFFICES ASSUME TypeOK, SteadyInv, [Next]_vars, ~mislaid' PROVE Steady(udp')
  BY DEF SteadyInv
<1>0. Layer(udp) /\ udp \in Records /\ DOMAIN udp.phase = 1 .. udp.opened
      /\ udp.opened \in Nat /\ udp.queue \in Seq(Names)
  BY LayerNow DEF Layer, Records
<1>a. ASSUME ~mislaid PROVE Steady(udp)
  BY <1>a DEF SteadyInv
<1>b. ASSUME UNCHANGED <<udp, mislaid>> PROVE Steady(udp')
  BY <1>a, <1>b
<1>1. ASSUME NEW c \in Calls, ListIdentity(c) PROVE Steady(udp')
  <2>1. CASE Leave(SendEach(udp, Targets(c)))
    <3>1. Targets(c) \in Seq(Names) /\ Len(Targets(c)) > 0
      BY TargetTypes
    <3>2. Layer(SendEach(udp, Targets(c)))
      BY <1>0, <3>1, SendEachTypes
    <3>3. ~mislaid /\ Kept(SendEach(udp, Targets(c)), udp.opened)
      BY <2>1, <3>2, LeaveSteady
    <3>4. Steady(SendEach(udp, Targets(c)))
      BY <1>0, <1>a, <3>1, <3>3, SendEachSteady
    <3> QED
      BY <2>1, <3>2, <3>4, LeaveSteady
  <2> QED
    BY <1>1, <1>b, <2>1 DEF ListIdentity
<1>2. ASSUME NEW c \in Calls, TimerFires(c) PROVE Steady(udp')
  BY <1>2, <1>b DEF TimerFires
<1>3. ASSUME NEW d \in Devices, IdentityReply(d) PROVE Steady(udp')
  BY <1>3, <1>b DEF IdentityReply
<1>4. ASSUME NEW s \in Sockets, Listening(s) PROVE Steady(udp')
  <2> DEFINE u == [udp EXCEPT !.phase[s] = "bound"]
             v == [u EXCEPT !.listening = TRUE]
             w == SendNext(v)
  <2>1. s \in DOMAIN udp.phase /\ udp.phase[s] = "binding"
    BY <1>4 DEF Listening, Live
  <2>2. Layer(u) /\ u \in Records
    BY <1>0, <2>1, PhaseTypes DEF Phases, Layer
  <2>3. u.opened = udp.opened /\ u.heard = udp.heard /\ u.settled = udp.settled
        /\ u.current = udp.current /\ u.listening = udp.listening /\ u.waiters = udp.waiters
        /\ u.queue = udp.queue /\ u.ticks = udp.ticks
        /\ u.phase = [udp.phase EXCEPT ![s] = "bound"]
    BY <1>0 DEF Records
  <2>4. CASE s \notin udp.heard
    <3>1. Leave(u)
      BY <1>4, <2>4 DEF Listening
    <3>2. Steady(udp) /\ (Steady(u) => Steady(udp'))
      BY <1>a, <2>2, <3>1, LeaveSteady
    <3> HIDE DEF u
    <3>3. ASSUME Idle(udp) PROVE Steady(u)
      BY <1>0, <2>1, <2>3, <3>3 DEF Idle, Silent, Steady
    <3>4. ASSUME Connecting(udp) \/ Listens(udp) PROVE Steady(u)
      <4>1. s # udp.opened
        BY <2>4, <3>4 DEF Connecting, Listens, Bound
      <4> QED
        BY <1>0, <2>1, <2>3, <3>4, <4>1 DEF Steady, Connecting, Listens, Bound
    <3>5. Steady(u)
      BY <3>2, <3>3, <3>4 DEF Steady
    <3> QED
      BY <3>2, <3>5
  <2>5. CASE s \in udp.heard
    <3>1. Leave(Resolve(w, s, TRUE))
      BY <1>4, <2>5 DEF Listening
    <3>2. v \in Records /\ Layer(v) /\ v.phase = u.phase /\ v.opened = udp.opened
          /\ v.heard = udp.heard /\ v.settled = udp.settled /\ v.current = udp.current
          /\ v.waiters = udp.waiters /\ v.queue = udp.queue /\ v.ticks = udp.ticks /\ v.listening
      <4> HIDE DEF u
      <4> QED
        BY <2>2, <2>3 DEF Layer, Records
    <3> HIDE DEF v, u
    <3>3. Layer(w) /\ Layer(Resolve(w, s, TRUE))
      BY <3>2, SendNextTypes, ResolveTypes
    <3>4. Steady(udp) /\ (Steady(Resolve(w, s, TRUE)) => Steady(udp'))
      BY <1>a, <3>1, <3>3, LeaveSteady
    <3>5. Connecting(udp) /\ s = udp.opened
      BY <2>1, <2>5, <3>4 DEF Steady, Connecting, Listens, Bound, Idle, Silent
    <3>6. v.phase[v.opened] = "bound"
      BY <2>1, <2>3, <3>2, <3>5
    <3>7. Resolve(w, s, TRUE) = [w EXCEPT !.settled = TRUE, !.waiters = 0]
          /\ w.opened = v.opened /\ w.current = v.current /\ w.heard = v.heard
          /\ w.phase = v.phase /\ w.listening
          /\ (w.queue # <<>> => w.ticks > 0)
      <4>1. CASE v.queue # <<>>
        <5>1. w = [v EXCEPT !.queue = Tail(@), !.ticks = @ + 1,
                            !.sent = @ \cup {Head(v.queue)}]
          BY <3>2, <4>1 DEF SendNext
        <5>2. w.settled = v.settled /\ w.ticks = v.ticks + 1 /\ v.ticks \in Nat
              /\ w.opened = v.opened /\ w.current = v.current /\ w.heard = v.heard
              /\ w.phase = v.phase /\ w.listening = v.listening
          BY <3>2, <5>1 DEF Records
        <5> HIDE DEF w
        <5> QED
          BY <3>2, <3>5, <5>2 DEF Resolve, Connecting
      <4>2. CASE v.queue = <<>>
        <5>1. w = v
          BY <3>2, <4>2 DEF SendNext
        <5> HIDE DEF w
        <5> QED
          BY <3>2, <3>5, <4>2, <5>1 DEF Resolve, Connecting
      <4> QED
        BY <4>1, <4>2
    <3> HIDE DEF w
    <3> DEFINE r == Resolve(w, s, TRUE)
    <3>a. r.settled /\ r.waiters = 0 /\ r.opened = w.opened /\ r.current = w.current
          /\ r.heard = w.heard /\ r.phase = w.phase /\ r.listening = w.listening
          /\ r.queue = w.queue /\ r.ticks = w.ticks
      BY <3>3, <3>7 DEF Layer, Records
    <3> HIDE DEF r
    <3>b. r.current = r.opened /\ r.heard = {r.opened} /\ r.opened > 0
      BY <3>2, <3>5, <3>7, <3>a DEF Connecting
    <3>8. Listens(r)
      BY <3>6, <3>7, <3>a, <3>b DEF Listens, Bound
    <3> QED
      BY <3>4, <3>8 DEF Steady, r
  <2> QED
    BY <2>4, <2>5
<1>5. ASSUME NEW s \in Sockets, SocketError(s) PROVE Steady(udp')
  <2> DEFINE u == [udp EXCEPT !.heard = @ \ {s}]
             v == HandleDestroy(u)
  <2>1. Layer(u) /\ u \in Records /\ u.heard = udp.heard \ {s} /\ u.opened = udp.opened
        /\ u.settled = udp.settled /\ u.current = udp.current /\ u.waiters = udp.waiters
    BY <1>0 DEF Layer, Records
  <2> HIDE DEF u
  <2>2. Layer(v) /\ ~v.listening /\ v.heard = u.heard \ {u.current} /\ v.opened = u.opened
        /\ v.settled = u.settled /\ v.current = None /\ v.waiters = u.waiters /\ v.queue = <<>>
    BY <2>1, HandleDestroyTypes DEF HandleDestroy, Records
  <2> HIDE DEF v
  <2>3. Leave(Resolve(v, s, FALSE)) /\ s \in udp.heard
    BY <1>5 DEF SocketError, u, v
  <2>4. Layer(Resolve(v, s, FALSE))
    BY <2>2, ResolveTypes
  <2>5. Steady(udp) /\ Kept(Resolve(v, s, FALSE), udp.opened)
        /\ (Steady(Resolve(v, s, FALSE)) => Steady(udp'))
    BY <1>a, <2>3, <2>4, LeaveSteady
  <2>6. s = udp.opened /\ udp.heard = {s} /\ (udp.settled => udp.waiters = 0)
    BY <2>3, <2>5 DEF Steady, Connecting, Listens, Bound, Idle, Silent
  <2>7. v.heard = {} /\ s = v.opened /\ v.opened = udp.opened
        /\ (v.settled => v.waiters = 0)
    BY <2>1, <2>2, <2>6
  <2>8. Steady(Resolve(v, s, FALSE))
    BY <2>2, <2>5, <2>7, FailSteady DEF Steady
  <2> QED
    BY <2>5, <2>8
<1>6. ASSUME Tick PROVE Steady(udp')
  <2> DEFINE u == [udp EXCEPT !.ticks = @ - 1]
  <2>1. Layer(u) /\ u \in Records /\ u.opened = udp.opened
    <3>1. udp.ticks - 1 \in Nat
      BY <1>0, <1>6 DEF Records, Tick
    <3> QED
      BY <1>0, <3>1, TicksChange
  <2>2. Leave(SendNext(u)) /\ Layer(SendNext(u))
    BY <1>6, <2>1, SendNextTypes DEF Tick
  <2>3. Steady(udp) /\ Kept(SendNext(u), u.opened) /\ (Steady(SendNext(u)) => Steady(udp'))
    BY <1>a, <2>1, <2>2, LeaveSteady
  <2>4. Connecting(u) \/ Bound(u) \/ Silent(u)
    BY <1>0, <2>3 DEF Steady, Connecting, Listens, Bound, Idle, Silent, Records
  <2> HIDE DEF u
  <2>5. Steady(SendNext(u))
    BY <2>1, <2>3, <2>4, SendNextSteady
  <2> QED
    BY <2>3, <2>5
<1>7. ASSUME Disconnect PROVE Steady(udp')
  <2>1. udp.current \in DOMAIN udp.phase /\ udp.phase[udp.current] \in {"binding", "bound"}
    BY <1>7 DEF Disconnect, Live
  <2>2. Leave(Closed(udp)) /\ Layer(Closed(udp))
    BY <1>0, <1>7, <2>1, ClosedTypes DEF Disconnect
  <2>3. Steady(udp) /\ Kept(Closed(udp), udp.opened) /\ (Steady(Closed(udp)) => Steady(udp'))
    BY <1>a, <2>2, LeaveSteady
  <2>4. Steady(Closed(udp))
    BY <1>0, <2>1, <2>3, ClosedSteady DEF Steady
  <2> QED
    BY <2>3, <2>4
<1>8. ASSUME CloseLayers PROVE Steady(udp')
  <2>1. CASE Live(udp.current)
    <3> DEFINE v == Closed(udp)
               w == HandleDestroy(v)
    <3>1. udp.current \in DOMAIN udp.phase /\ udp.phase[udp.current] \in {"binding", "bound"}
      BY <2>1 DEF Live
    <3>2. Layer(v) /\ Layer(w) /\ Leave(w)
      BY <1>0, <1>8, <2>1, <3>1, ClosedTypes, HandleDestroyTypes DEF CloseLayers
    <3>3. Steady(udp) /\ Kept(w, udp.opened) /\ (Steady(w) => Steady(udp'))
      BY <1>a, <3>2, LeaveSteady
    <3> HIDE DEF v
    <3>4. w.heard = v.heard \ {v.current} /\ w.settled = v.settled /\ w.opened = v.opened
      BY <3>2 DEF HandleDestroy, Layer, Records
    <3> HIDE DEF w
    <3>5. Kept(v, udp.opened)
      BY <3>3, <3>4 DEF Kept
    <3>6. Idle(v) \/ Connecting(v)
      BY <1>0, <3>1, <3>3, <3>5, ClosedSteady DEF v
    <3>7. ~Connecting(v)
      BY <3>3, <3>4 DEF Kept, Connecting
    <3>8. Steady(w)
      BY <3>2, <3>6, <3>7, DestroySteady DEF w, Steady
    <3> QED
      BY <3>3, <3>8
  <2>2. CASE ~Live(udp.current)
    <3> DEFINE v == [udp EXCEPT !.listening = FALSE]
    <3>1. Layer(v) /\ Leave(v)
      BY <1>0, <1>8, <2>2 DEF Layer, Records, CloseLayers
    <3>2. Steady(udp) /\ (Steady(v) => Steady(udp'))
      BY <1>a, <3>1, LeaveSteady
    <3>3. Idle(udp)
      BY <1>0, <2>2, <3>2 DEF Live, Steady, Connecting, Listens, Bound
    <3>4. Idle(v)
      BY <1>0, <3>3 DEF Idle, Silent, Records
    <3> QED
      BY <3>2, <3>4 DEF Steady
  <2> QED
    BY <2>1, <2>2
<1>9. CASE UNCHANGED vars
  BY <1>9, <1>b DEF vars
<1> QED
  BY <1>1, <1>2, <1>3, <1>4, <1>5, <1>6, <1>7, <1>8, <1>9 DEF Next

(* Unless a socket was mislaid the layer connects, listens or is idle, and    *)
(* knows which: what its handlers test (listening, socket, the promise) says *)
(* the same as the sockets do, for any number of calls, sockets and closes.  *)
THEOREM LayerIsSteady == Spec => [](TypeOK /\ SteadyInv)
<1>1. Init => TypeOK /\ SteadyInv
  BY InitTypes, InitSteady
<1>2. TypeOK /\ SteadyInv /\ [Next]_vars => (TypeOK /\ SteadyInv)'
  BY StepTypes, StepSteady
<1> QED
  BY <1>1, <1>2, PTL DEF Spec

(* A UDP layer that believes it listens has a bound socket to send on.        *)
THEOREM ListenerHasSocket == Spec => []ListeningHasSocket
<1>1. TypeOK /\ SteadyInv => ListeningHasSocket
  BY DEF SteadyInv, Steady, Connecting, Listens, Bound, Idle, Silent, ListeningHasSocket, None,
         TypeOK, Fields
<1> QED
  BY <1>1, LayerIsSteady, PTL

(* A request in the queue has something coming that will send it: a           *)
(* setImmediate while the layer listens, the bind of a socket, or the next   *)
(* setup after the program closed the layer.                                 *)
THEOREM QueuedRequestIsDriven == Spec => []QueueIsDriven
<1>1. TypeOK /\ SteadyInv => QueueIsDriven
  BY DEF SteadyInv, Steady, Connecting, Listens, Bound, Idle, Silent, QueueIsDriven, None,
         TypeOK, Fields
<1> QED
  BY <1>1, LayerIsSteady, PTL
=============================================================================
