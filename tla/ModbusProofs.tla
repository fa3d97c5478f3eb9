----------------------------- MODULE ModbusProofs -----------------------------
(***************************************************************************)
(* The Modbus layer keeps what RequestService promises, for any requests,   *)
(* connections and failures.                                                *)
(*                                                                          *)
(* No request has a timeout, and the transaction identifier wraps at        *)
(* 0x10000: a program could keep one request waiting while it issues 65536  *)
(* others, and the last takes the identifier and the callback of the first. *)
(* NoReuse says that this does not happen, and the theorems that need it    *)
(* name it; FewRequests, which IdentifiersSuffice shows to be enough, is    *)
(* the simplest reason why it does not.                                     *)
(***************************************************************************)
EXTENDS ModbusLayer, TcpProofs, FiniteSetTheorems

OnWire(w) == UNION {{w[s][i] : i \in DOMAIN w[s]} : s \in Sockets}

UnderWay == Queued(tcpQueue) \cup OnWire(wire)

(* A new request finds its identifier free: no callback is filed under it    *)
(* and no message under way has it.                                          *)
NoReuse ==
  (\E r \in Requests : outcome[r] = "idle") =>
    /\ contextToCallback[NextTransaction] = NoRequest
    /\ \A m \in UnderWay : m.id # NextTransaction

FewRequests == IsFiniteSet(Requests) /\ Cardinality(Requests) <= TransactionIDs

(* The socket's side, which needs nothing of the identifiers.                *)
SocketInv == TypeOK /\ (~strayed => Sound)

(* Message m finds the callback of its request in the table as long as the   *)
(* request is awaited, and no callback at all afterwards.                    *)
Answerable(m, table, out) ==
  /\ out[m.request] # "idle"
  /\ table[m.id] = IF out[m.request] = "pending" THEN m.request ELSE NoRequest

(* The messages in queue q and the set w of those written agree with the     *)
(* callbacks on file; what is queued has an identifier of its own, and is    *)
(* for a request still awaited, except during a close.                       *)
Agree(q, w, table, out, ending) ==
  /\ \A i \in 1 .. Len(q) :
       /\ Answerable(q[i], table, out)
       /\ ~ending => out[q[i].request] = "pending"
       /\ \A j \in 1 .. Len(q) : q[i].id = q[j].id => i = j
       /\ \A m \in w : q[i].id # m.id
  /\ \A m \in w : Answerable(m, table, out)

(* A callback on file is that of one request, which is awaited.              *)
FiledIsPending(table, out) ==
  /\ \A id \in Transactions : table[id] # NoRequest => out[table[id]] = "pending"
  /\ \A i, j \in Transactions : table[i] = table[j] /\ table[i] # NoRequest => i = j

(* A close has rejected what was on file, and the queue is not empty yet.    *)
Ending == closing \/ due # "nothing"

AnswerIsItsOwn == \A r \in Requests : outcome[r] = "answered" => answer[r] = r

MessageInv ==
  /\ tcpQueue.priority = <<>>
  /\ Agree(tcpQueue.normal, OnWire(wire), contextToCallback, outcome, Ending)
  /\ FiledIsPending(contextToCallback, outcome)
  /\ PendingIsFiled
  /\ AnswerIsItsOwn

-----------------------------------------------------------------------------
(* What is on the wires after a write, a read and the death of sockets.      *)
LEMMA OnWireFacts ==
  ASSUME NEW w \in [Sockets -> Seq(Messages)]
  PROVE  /\ OnWire(w) \subseteq Messages
         /\ \A s \in Sockets : \A k \in 1 .. Len(w[s]) : w[s][k] \in OnWire(w)
         /\ \A s : \A m \in Messages :
              OnWire([w EXCEPT ![s] = Append(@, m)]) \subseteq OnWire(w) \cup {m}
         /\ \A s \in Sockets, k \in Nat :
              OnWire([w EXCEPT ![s] = SubSeq(@, k + 1, Len(@))]) \subseteq OnWire(w)
         /\ \A w2 : (\A s \in Sockets : w2[s] \in {<<>>, w[s]})
                      => OnWire(w2) \subseteq OnWire(w)
<1>1. \A s \in Sockets : /\ DOMAIN w[s] = 1 .. Len(w[s])
                         /\ \A i \in 1 .. Len(w[s]) : w[s][i] \in Messages
  OBVIOUS
<1>2. /\ OnWire(w) \subseteq Messages
      /\ \A s \in Sockets : \A k \in 1 .. Len(w[s]) : w[s][k] \in OnWire(w)
  BY <1>1 DEF OnWire
<1>3. ASSUME NEW s, NEW m \in Messages, NEW n \in OnWire([w EXCEPT ![s] = Append(@, m)])
      PROVE  n \in OnWire(w) \cup {m}
  <2>. DEFINE v == [w EXCEPT ![s] = Append(@, m)]
  <2>1. PICK x \in Sockets : \E i \in DOMAIN v[x] : n = v[x][i]
    BY <1>3 DEF OnWire
  <2>2. CASE x = s
    <3>1. v[x] = Append(w[x], m)
      BY <2>2
    <3>2. DOMAIN v[x] = 1 .. Len(w[x]) + 1
          /\ \A i \in 1 .. Len(w[x]) + 1 : v[x][i] = IF i = Len(w[x]) + 1 THEN m ELSE w[x][i]
      BY <3>1, AppendProperties
    <3>3. Len(w[x]) \in Nat
      OBVIOUS
    <3>. HIDE DEF v
    <3>4. PICK i \in 1 .. Len(w[x]) + 1 : n = v[x][i]
      BY <2>1, <3>2
    <3>5. i = Len(w[x]) + 1 \/ i \in 1 .. Len(w[x])
      BY <3>3
    <3>. QED
      BY <3>2, <3>4, <3>5, <1>2
  <2>3. CASE x # s
    <3>1. v[x] = w[x]
      BY <2>3
    <3>. HIDE DEF v
    <3>. QED
      BY <2>1, <3>1 DEF OnWire
  <2>. QED
    BY <2>2, <2>3
<1>4. ASSUME NEW s \in Sockets, NEW k \in Nat,
             NEW n \in OnWire([w EXCEPT ![s] = SubSeq(@, k + 1, Len(@))])
      PROVE  n \in OnWire(w)
  <2>. DEFINE v == [w EXCEPT ![s] = SubSeq(@, k + 1, Len(@))]
  <2>1. PICK x \in Sockets : \E i \in DOMAIN v[x] : n = v[x][i]
    BY <1>4 DEF OnWire
  <2>2. CASE x = s
    <3>1. v[x] = SubSeq(w[x], k + 1, Len(w[x]))
      BY <2>2
    <3>2. Len(w[x]) \in Nat
      OBVIOUS
    <3>3. PICK i \in DOMAIN v[x] : n = v[x][i]
      BY <2>1
    <3>4. i \in 1 .. Len(w[x]) - k /\ v[x][i] = w[x][k + i]
      BY <3>1, <3>2, <3>3
    <3>. HIDE DEF v
    <3>5. k + i \in 1 .. Len(w[x])
      BY <3>2, <3>4
    <3>. QED
      BY <1>2, <3>3, <3>4, <3>5
  <2>3. CASE x # s
    <3>1. v[x] = w[x]
      BY <2>3
    <3>. HIDE DEF v
    <3>. QED
      BY <2>1, <3>1 DEF OnWire
  <2>. QED
    BY <2>2, <2>3
<1>5. ASSUME NEW w2, \A s \in Sockets : w2[s] \in {<<>>, w[s]}, NEW n \in OnWire(w2)
      PROVE  n \in OnWire(w)
  <2>1. PICK x \in Sockets : \E i \in DOMAIN w2[x] : n = w2[x][i]
    BY DEF OnWire
  <2>2. w2[x] = w[x] \/ DOMAIN w2[x] = {}
    BY <1>5
  <2>. QED
    BY <2>1, <2>2 DEF OnWire
<1>. QED
  BY <1>2, <1>3, <1>4, <1>5

(* The head of the queue is written.                                         *)
LEMMA AgreeWrite ==
  ASSUME NEW q \in Seq(Messages), q # <<>>, NEW w, NEW v, v \subseteq w \cup {Head(q)},
         NEW table, NEW out, NEW ending, Agree(q, w, table, out, ending)
  PROVE  Agree(Tail(q), v, table, out, ending)
<1>1. Len(q) \in Nat /\ Len(Tail(q)) = Len(q) - 1 /\ Head(q) = q[1]
      /\ 1 \in 1 .. Len(q)
      /\ \A i \in 1 .. Len(Tail(q)) : Tail(q)[i] = q[i + 1] /\ i + 1 \in 1 .. Len(q)
                                      /\ i + 1 # 1
  BY HeadTailProperties
<1>. DEFINE n == Len(q) - 1
            t == Tail(q)
<1>2. \A i \in 1 .. Len(t) : t[i] = q[i + 1] /\ i + 1 \in 1 .. Len(q) /\ i + 1 # 1 /\ i \in Int
  BY <1>1
<1>. HIDE DEF t
<1>3. ASSUME NEW i \in 1 .. Len(t)
      PROVE  /\ Answerable(t[i], table, out)
             /\ ~ending => out[t[i].request] = "pending"
             /\ \A j \in 1 .. Len(t) : t[i].id = t[j].id => i = j
             /\ \A m \in v : t[i].id # m.id
  <2>1. /\ Answerable(t[i], table, out)
        /\ ~ending => out[t[i].request] = "pending"
        /\ \A m \in v : t[i].id # m.id
    BY <1>1, <1>2 DEF Agree
  <2>2. ASSUME NEW j \in 1 .. Len(t), t[i].id = t[j].id PROVE i = j
    <3>1. i + 1 = j + 1
      BY <1>2, <2>2 DEF Agree
    <3>. QED
      BY <3>1
  <2>. QED
    BY <2>1, <2>2
<1>4. \A m \in v : Answerable(m, table, out)
  BY <1>1 DEF Agree
<1>. QED
  BY <1>3, <1>4 DEF Agree, t

Outcomes == {"idle", "pending", "answered", "rejected"}
Tables == [Transactions -> Requests \cup {NoRequest}]

(* A new request is filed and its message queued.                            *)
LEMMA AgreeIssue ==
  ASSUME NEW q \in Seq(Messages), NEW w, w \subseteq Messages,
         NEW table \in Tables, NEW out \in [Requests -> Outcomes], NEW ending \in BOOLEAN,
         Agree(q, w, table, out, ending), FiledIsPending(table, out),
         NEW m \in Messages, out[m.request] = "idle", table[m.id] = NoRequest,
         \A i \in 1 .. Len(q) : q[i].id # m.id,
         \A n \in w : n.id # m.id
  PROVE  LET table2 == [table EXCEPT ![m.id] = m.request]
             out2 == [out EXCEPT ![m.request] = "pending"]
         IN  Agree(Append(q, m), w, table2, out2, ending) /\ FiledIsPending(table2, out2)
<1>. DEFINE table2 == [table EXCEPT ![m.id] = m.request]
            out2 == [out EXCEPT ![m.request] = "pending"]
            t == Append(q, m)
            l == Len(q)
<1>1. m.id \in Transactions /\ m.request \in Requests /\ m.request # NoRequest
  BY ModbusAssumption DEF Messages, NoRequest
<1>2. /\ \A id \in Transactions : table2[id] = IF id = m.id THEN m.request ELSE table[id]
      /\ \A r \in Requests : out2[r] = IF r = m.request THEN "pending" ELSE out[r]
  BY <1>1 DEF Tables
<1>3. /\ l \in Nat /\ Len(t) = l + 1
      /\ \A i \in 1 .. l : q[i] \in Messages
      /\ \A i \in 1 .. l : t[i] = q[i]
      /\ t[l + 1] = m
  BY AppendProperties
<1>. HIDE DEF table2, out2, t, l
<1>4. ASSUME NEW n \in Messages, n.id # m.id, Answerable(n, table, out)
      PROVE  /\ Answerable(n, table2, out2)
             /\ out[n.request] = "pending" => out2[n.request] = "pending"
  <2>1. n.request # m.request /\ n.id \in Transactions /\ n.request \in Requests
    BY <1>4 DEF Answerable, Messages
  <2>. QED
    BY <1>1, <1>2, <1>4, <2>1 DEF Answerable
<1>5. Answerable(m, table2, out2) /\ out2[m.request] = "pending"
  BY <1>1, <1>2 DEF Answerable
<1>6. \A i \in 1 .. l + 1 : i = l + 1 \/ i \in 1 .. l
  BY <1>3
<1>7. \A i \in 1 .. l : q[i].id # m.id /\ Answerable(q[i], table, out)
                        /\ (~ending => out[q[i].request] = "pending")
  BY DEF Agree, l
<1>8. ASSUME NEW i \in 1 .. l + 1
      PROVE  /\ Answerable(t[i], table2, out2)
             /\ ~ending => out2[t[i].request] = "pending"
             /\ \A j \in 1 .. l + 1 : t[i].id = t[j].id => i = j
             /\ \A n \in w : t[i].id # n.id
  <2>1. CASE i = l + 1
    <3>1. t[i] = m
      BY <1>3, <2>1
    <3>2. \A j \in 1 .. l + 1 : t[i].id = t[j].id => i = j
      BY <1>3, <1>6, <1>7, <2>1, <3>1
    <3>. QED
      BY <1>5, <3>1, <3>2
  <2>2. CASE i \in 1 .. l
    <3>1. t[i] = q[i] /\ q[i] \in Messages
      BY <1>3, <2>2
    <3>2. \A j \in 1 .. l + 1 : t[i].id = t[j].id => i = j
      <4>1. \A j \in 1 .. l : t[j] = q[j]
        BY <1>3
      <4>2. \A j \in 1 .. l : q[i].id = q[j].id => i = j
        BY <2>2 DEF Agree, l
      <4>3. t[l + 1] = m
        BY <1>3
      <4>. QED
        BY <1>6, <1>7, <2>2, <3>1, <4>1, <4>2, <4>3
    <3>3. \A n \in w : t[i].id # n.id
      BY <2>2, <3>1 DEF Agree, l
    <3>. QED
      BY <1>4, <1>7, <2>2, <3>1, <3>2, <3>3
  <2>. QED
    BY <1>6, <2>1, <2>2
<1>9. \A n \in w : Answerable(n, table2, out2)
  BY <1>4 DEF Agree
<1>10. FiledIsPending(table2, out2)
  <2>1. \A id \in Transactions : table[id] # m.request
    BY <1>1 DEF FiledIsPending
  <2>2. \A id \in Transactions : table[id] # NoRequest => table[id] \in Requests
    BY DEF Tables
  <2>. QED
    BY <1>1, <1>2, <2>1, <2>2 DEF FiledIsPending
<1>11. Agree(t, w, table2, out2, ending)
  BY <1>3, <1>8, <1>9 DEF Agree
<1>. QED
  BY <1>10, <1>11 DEF t, table2, out2

(* The reply to a request still awaited is read: the callback it finds is    *)
(* that of its own request.                                                  *)
AgreesAnswered(q, w, table, out, ending, m) ==
  LET table2 == [table EXCEPT ![m.id] = NoRequest]
      out2 == [out EXCEPT ![m.request] = "answered"]
  IN  /\ table[m.id] = m.request
      /\ Agree(q, w, table2, out2, ending) /\ FiledIsPending(table2, out2)

LEMMA AgreeAnswer ==
  ASSUME NEW q \in Seq(Messages), NEW w, w \subseteq Messages,
         NEW table \in Tables, NEW out \in [Requests -> Outcomes], NEW ending \in BOOLEAN,
         Agree(q, w, table, out, ending), FiledIsPending(table, out),
         NEW m \in w, out[m.request] = "pending"
  PROVE  AgreesAnswered(q, w, table, out, ending, m)
<1>. USE DEF AgreesAnswered
<1>. DEFINE r == m.request
            table2 == [table EXCEPT ![m.id] = NoRequest]
            out2 == [out EXCEPT ![m.request] = "answered"]
<1>1. m \in Messages /\ m.id \in Transactions /\ m.request \in Requests /\ m.request # NoRequest
  BY ModbusAssumption DEF Messages, NoRequest
<1>2. table[m.id] = r
  BY DEF Agree, Answerable
<1>3. /\ \A id \in Transactions : table2[id] = IF id = m.id THEN NoRequest ELSE table[id]
      /\ \A x \in Requests : out2[x] = IF x = r THEN "answered" ELSE out[x]
  BY <1>1, <1>2, ModbusAssumption DEF Tables, NoRequest
<1>4. \A x \in Requests : x # NoRequest
  BY ModbusAssumption DEF NoRequest
<1>. HIDE DEF table2, out2
<1>5. ASSUME NEW n \in Messages, Answerable(n, table, out)
      PROVE  Answerable(n, table2, out2)
  <2>1. n.id \in Transactions /\ n.request \in Requests
    BY DEF Messages
  <2>2. CASE n.id = m.id
    <3>1. out2[n.request] # "idle" /\ out2[n.request] # "pending"
      BY <1>2, <1>3, <1>4, <1>5, <2>1, <2>2 DEF Answerable
    <3>. QED
      BY <1>3, <2>1, <2>2, <3>1 DEF Answerable
  <2>3. CASE n.id # m.id /\ n.request = r
    <3>1. table[n.id] = NoRequest
      BY <1>1, <1>2, <1>4, <1>5, <2>1, <2>3 DEF Answerable, FiledIsPending
    <3>. QED
      BY <1>3, <2>1, <2>3, <3>1 DEF Answerable
  <2>4. CASE n.id # m.id /\ n.request # r
    BY <1>3, <1>5, <2>1, <2>4 DEF Answerable
  <2>. QED
    BY <2>2, <2>3, <2>4
<1>6. ASSUME NEW i \in 1 .. Len(q)
      PROVE  /\ Answerable(q[i], table2, out2)
             /\ ~ending => out2[q[i].request] = "pending"
  <2>1. q[i] \in Messages /\ q[i].request \in Requests /\ q[i].id \in Transactions
    <3>1. q[i] \in Messages
      OBVIOUS
    <3>. QED
      BY <3>1 DEF Messages
  <2>5. q[i].id # m.id /\ Answerable(q[i], table, out)
        /\ (~ending => out[q[i].request] = "pending")
    BY DEF Agree
  <2>2. ~ending => q[i].request # r
    BY <1>1, <1>2, <1>4, <2>1, <2>5 DEF Answerable, FiledIsPending
  <2>. QED
    BY <1>3, <1>5, <2>1, <2>2, <2>5
<1>7. \A n \in w : Answerable(n, table2, out2)
  BY <1>5 DEF Agree
<1>8. FiledIsPending(table2, out2)
  <2>1. \A id \in Transactions : table[id] # NoRequest => table[id] \in Requests
    BY DEF Tables
  <2>2. ASSUME NEW id \in Transactions, table2[id] # NoRequest PROVE out2[table2[id]] = "pending"
    <3>1. /\ id # m.id /\ table2[id] = table[id]
          /\ table[id] \in Requests /\ out[table[id]] = "pending"
      BY <1>3, <2>1, <2>2 DEF FiledIsPending
    <3>2. table[id] # r
      BY <1>1, <1>2, <1>4, <3>1 DEF FiledIsPending
    <3>. QED
      BY <1>3, <3>1, <3>2
  <2>3. \A i, j \in Transactions : table2[i] = table2[j] /\ table2[i] # NoRequest => i = j
    BY <1>3 DEF FiledIsPending
  <2>. QED
    BY <2>2, <2>3 DEF FiledIsPending
<1>9. Agree(q, w, table2, out2, ending)
  BY <1>6, <1>7 DEF Agree
<1>. QED
  BY <1>1, <1>2, <1>8, <1>9 DEF table2, out2

(* Every request on file is rejected.                                        *)
LEMMA AgreeReject ==
  ASSUME NEW q, NEW w, NEW table, NEW out, NEW ending \in BOOLEAN,
         Agree(q, w, table, out, ending),
         NEW out2, \A i \in 1 .. Len(q) : out2[q[i].request] \notin {"idle", "pending"},
         \A m \in w : out2[m.request] \notin {"idle", "pending"},
         \A i \in 1 .. Len(q) : q[i].id \in Transactions,
         \A m \in w : m.id \in Transactions
  PROVE  Agree(q, w, NoContexts, out2, TRUE) /\ FiledIsPending(NoContexts, out2)
<1>1. \A id \in Transactions : NoContexts[id] = NoRequest
  BY DEF NoContexts
<1>. QED
  BY <1>1 DEF Agree, Answerable, FiledIsPending

-----------------------------------------------------------------------------
LEMMA NextTransactionType == TypeOK => NextTransaction \in Transactions
<1>1. ASSUME NEW c \in Nat, NEW t \in Nat \ {0} PROVE (c + 1) % t \in 0 .. t - 1
  BY <1>1
<1>. QED
  BY <1>1, ModbusAssumption DEF TypeOK, Transactions, NextTransaction

LEMMA OutcomeTypes ==
  ASSUME TypeOK, NEW r \in Requests, NEW how \in Outcomes
  PROVE  /\ [outcome EXCEPT ![r] = how] \in [Requests -> Outcomes]
         /\ Rejected \in [Requests -> Outcomes]
         /\ [Rejected EXCEPT ![r] = how] \in [Requests -> Outcomes]
         /\ NoContexts \in Tables
         /\ [NoContexts EXCEPT ![NextTransaction] = r] \in Tables
<1>1. outcome \in [Requests -> Outcomes]
  BY DEF TypeOK, Outcomes
<1>2. Rejected \in [Requests -> Outcomes]
  BY <1>1 DEF Rejected, Outcomes
<1>. QED
  BY <1>1, <1>2 DEF NoContexts, Tables

LEMMA InitSockets == Init => SocketInv
<1>. SUFFICES ASSUME Init PROVE SocketInv
  OBVIOUS
<1>1. TcpTypeOK /\ Sound
  BY InitTcp DEF Init
<1>2. transactionCounter \in Transactions
  BY ModbusAssumption DEF Init, Transactions
<1>. QED
  BY <1>1, <1>2 DEF Init, SocketInv, TypeOK

LEMMA IssueSockets ==
  ASSUME SocketInv, NEW r \in Requests, Issue(r)
  PROVE  SocketInv'
<1>. DEFINE m == [id |-> NextTransaction, request |-> r]
<1>1. NextTransaction \in Transactions
  BY NextTransactionType DEF SocketInv
<1>2. m \in TcpMessages
  BY <1>1, MessagesAssumption DEF Messages
<1>3. TcpTypeOK' /\ (Sound /\ due # "destroy" => Sound')
  <2>1. TcpTypeOK /\ FALSE \in BOOLEAN /\ TcpSend(m, FALSE)
    BY DEF SocketInv, TypeOK, Issue
  <2>. HIDE DEF m
  <2>. QED
    BY <1>2, <2>1, TcpSendTcp
<1>4. UNCHANGED <<answer, discarded>> /\ strayed' = (strayed \/ due = "destroy")
      /\ stranded' = stranded \cup (IF tcpState = Disconnecting \/ due # "nothing"
                                      THEN {r} ELSE {})
      /\ transactionCounter' = NextTransaction
      /\ contextToCallback' = [contextToCallback EXCEPT ![NextTransaction] = r]
      /\ outcome' = [outcome EXCEPT ![r] = "pending"]
  BY DEF Issue, File
<1>. QED
  BY <1>1, <1>3, <1>4 DEF SocketInv, TypeOK

LEMMA HandleDataSockets ==
  ASSUME SocketInv, NEW s \in Sockets, NEW k \in 1 .. MaxCoalesced, HandleData(s, k)
  PROVE  SocketInv'
<1>. DEFINE reply == wire[s][k]
            r == contextToCallback[reply.id]
<1>1. DataEvent(s, k) /\ k \in Nat /\ k \in 1 .. Len(wire[s])
  BY DEF HandleData, DataEvent
<1>2. TcpTypeOK' /\ (Sound => Sound')
  BY <1>1, DataEventTcp DEF SocketInv, TypeOK
<1>3. \A i \in 1 .. Len(wire[s]) : wire[s][i].id \in Transactions /\ wire[s][i].request \in Requests
  <2>1. wire[s] \in Seq(Messages)
    BY MessagesAssumption DEF SocketInv, TypeOK, TcpTypeOK
  <2>2. \A m \in Messages : m.id \in Transactions /\ m.request \in Requests
    BY DEF Messages
  <2>. QED
    BY <2>1, <2>2
<1>4. UNCHANGED <<transactionCounter, stranded, strayed>>
      /\ contextToCallback' = [contextToCallback EXCEPT ![reply.id] = NoRequest]
      /\ discarded' = discarded \cup {wire[s][i].request : i \in 1 .. k - 1}
  BY DEF HandleData
<1>5. \/ r = NoRequest /\ UNCHANGED <<outcome, answer>>
      \/ /\ r # NoRequest
         /\ outcome' = [outcome EXCEPT ![r] = "answered"]
         /\ answer' = [answer EXCEPT ![r] = reply.request]
  BY DEF HandleData
<1>6. reply.id \in Transactions /\ reply.request \in Requests
  BY <1>1, <1>3
<1>7. discarded' \subseteq Requests
  <2>1. discarded \subseteq Requests
    BY DEF SocketInv, TypeOK
  <2>2. \A i \in 1 .. k - 1 : i \in 1 .. Len(wire[s])
    BY <1>1
  <2>. QED
    BY <1>3, <1>4, <2>1, <2>2
<1>. HIDE DEF reply
<1>8. /\ contextToCallback' \in [Transactions -> Requests \cup {NoRequest}]
      /\ outcome' \in [Requests -> {"idle", "pending", "answered", "rejected"}]
      /\ answer' \in [Requests -> Requests \cup {NoRequest}]
  BY <1>4, <1>5, <1>6 DEF SocketInv, TypeOK
<1>. QED
  BY <1>2, <1>4, <1>7, <1>8 DEF SocketInv, TypeOK

(* What the rejection of every callback does to the types.                   *)
LEMMA RejectAllType ==
  ASSUME SocketInv, RejectAll, TcpTypeOK', Sound => Sound'
  PROVE  SocketInv'
<1>1. Rejected \in [Requests -> Outcomes]
  BY DEF SocketInv, TypeOK, Rejected, Outcomes
<1>2. NoContexts \in Tables
  BY DEF NoContexts, Tables
<1>. QED
  BY <1>1, <1>2 DEF SocketInv, TypeOK, RejectAll, Outcomes, Tables

LEMMA FailSockets ==
  ASSUME SocketInv, NEW s \in Sockets, Fail(s)
  PROVE  SocketInv'
<1>1. ASSUME NEW after \in Phases, SocketFailure(s, after), RejectAll
      PROVE  SocketInv'
  BY <1>1, SocketFailureTcp, RejectAllType DEF SocketInv, TypeOK
<1>2. ASSUME NEW after \in Phases, NEW r \in Requests, RejectAllAndIssue(r),
             SocketFailureAndResend(s, after)
      PROVE  SocketInv'
  <2>1. TcpTypeOK'
    BY <1>2, SocketFailureAndResendType DEF SocketInv, TypeOK
  <2>2. /\ transactionCounter' = NextTransaction
        /\ contextToCallback' = [NoContexts EXCEPT ![NextTransaction] = r]
        /\ outcome' = [Rejected EXCEPT ![r] = "pending"]
        /\ stranded' = stranded \cup {r} /\ strayed' = TRUE /\ UNCHANGED <<answer, discarded>>
    BY <1>2 DEF RejectAllAndIssue, File
  <2>3. outcome' \in [Requests -> Outcomes] /\ contextToCallback' \in Tables
    BY <2>2, OutcomeTypes DEF SocketInv, Outcomes
  <2>. QED
    BY <2>1, <2>2, <2>3, NextTransactionType DEF SocketInv, TypeOK, Outcomes, Tables
<1>. QED
  BY <1>1, <1>2 DEF Fail

LEMMA NextSockets == SocketInv /\ [Next]_vars => SocketInv'
<1>. SUFFICES ASSUME SocketInv, [Next]_vars PROVE SocketInv'
  OBVIOUS
<1>1. ASSUME NEW r \in Requests, Issue(r) PROVE SocketInv'
  BY <1>1, IssueSockets
<1>2. ASSUME NEW s \in Sockets, NEW k \in 1 .. MaxCoalesced, HandleData(s, k) PROVE SocketInv'
  BY <1>2, HandleDataSockets
<1>3. ASSUME NEW s \in Sockets, Connect(s) PROVE SocketInv'
  BY <1>3, ConnectEventTcp DEF Connect, modbusVars, SocketInv, TypeOK
<1>4. ASSUME NEW s \in Sockets, Fail(s) PROVE SocketInv'
  BY <1>4, FailSockets
<1>5. ASSUME NEW s \in Sockets, SocketClosed(s) PROVE SocketInv'
  BY <1>5, CloseEventTcp DEF SocketClosed, modbusVars, SocketInv, TypeOK
<1>6. ASSUME NEW s \in Sockets, Ended(s) PROVE SocketInv'
  BY <1>6, EndCallbackTcp DEF Ended, modbusVars, SocketInv, TypeOK
<1>7. CASE Tick
  BY <1>7, SendTickTcp DEF Tick, modbusVars, SocketInv, TypeOK
<1>8. CASE CloseLayers
  <2>1. CloseCalled("disconnect") /\ RejectAll /\ "disconnect" \in CloseSteps \ {"destroy"}
    BY <1>8 DEF CloseLayers, CloseSteps
  <2>. QED
    BY <2>1, CloseCalledTcp, RejectAllType DEF SocketInv, TypeOK
<1>11. CASE Disconnects
  BY <1>11, CloseDisconnectsTcp DEF Disconnects, modbusVars, SocketInv, TypeOK
<1>12. CASE Destroys
  BY <1>12, CloseDestroysTcp DEF Destroys, modbusVars, SocketInv, TypeOK
<1>9. CASE DisconnectTcp
  BY <1>9, DisconnectType DEF DisconnectTcp, SocketInv, TypeOK
<1>10. CASE UNCHANGED vars
  BY <1>10 DEF vars, tcpVars, modbusVars, SocketInv, TypeOK, TcpTypeOK, Sound
<1>. QED
  BY <1>1, <1>2, <1>3, <1>4, <1>5, <1>6, <1>7, <1>8, <1>9, <1>10, <1>11, <1>12 DEF Next

(* The inductive invariant of the sockets, whatever the identifiers.         *)
THEOREM SocketsAreSound == Spec => []SocketInv
BY InitSockets, NextSockets, PTL DEF Spec

(* Every variable has its type.                                              *)
THEOREM ModbusTypes == Spec => []TypeOK
<1>1. SocketInv => TypeOK
  BY DEF SocketInv
<1>. QED
  BY <1>1, SocketsAreSound, PTL

(* The connection state tells the truth about the sockets, whatever order    *)
(* their callbacks come in (layers/tcp/index.js).                            *)
THEOREM StateIsTrue == Spec => []StateMatchesSocket
<1>1. ASSUME SocketInv, ~strayed, due # "destroy"
      PROVE  /\ tcpState = Connected => phase[opened] = "open" /\ opened \in listening
             /\ tcpState = Connecting => phase[opened] = "connecting" /\ opened \in listening
             /\ \A s \in Sockets :
                  phase[s] \in {"connecting", "open"} => s = opened /\ tcpState # Disconnected
  <2>1. Sound
    BY <1>1 DEF SocketInv
  <2>2. /\ opened # 0 => phase[opened] = PhaseIn(tcpState)
        /\ tcpState # Disconnected => opened # 0 /\ opened \in listening
        /\ \A s \in Sockets : phase[s] \in {"connecting", "open"} => s = opened /\ s # 0
    BY <1>1, <2>1, TcpAssumption DEF Sound, Sockets
  <2>3. /\ PhaseIn(Connected) = "open" /\ PhaseIn(Connecting) = "connecting"
        /\ PhaseIn(Disconnected) = "dead"
        /\ Connected # Disconnected /\ Connecting # Disconnected
    BY DEF PhaseIn, Disconnected, Disconnecting, Connecting, Connected
  <2>. QED
    BY <2>2, <2>3
<1>2. SocketInv => StateMatchesSocket
  BY <1>1 DEF StateMatchesSocket
<1>. QED
  BY <1>2, SocketsAreSound, PTL

-----------------------------------------------------------------------------
(* An empty queue and fewer messages on the wires agree all the more.        *)
LEMMA AgreeFewer ==
  ASSUME NEW q, NEW w, NEW v, v \subseteq w, NEW table, NEW out,
         NEW ending, NEW ending2, ending => ending2,
         Agree(q, w, table, out, ending)
  PROVE  Agree(q, v, table, out, ending2) /\ \A e : Agree(<<>>, v, table, out, e)
<1>1. Agree(q, v, table, out, ending2)
  BY DEF Agree
<1>2. 1 .. Len(<<>>) = {}
  OBVIOUS
<1>. QED
  BY <1>1, <1>2 DEF Agree

(* sendNextMessage keeps the agreement: what it writes it takes out of the   *)
(* queue.                                                                    *)
LEMMA SendNextMessages ==
  ASSUME TcpTypeOK, NEW state, NEW q \in Queue(Messages), NEW t, SendNext(state, q, t),
         q.priority = <<>>, NEW table, NEW out, NEW ending,
         Agree(q.normal, OnWire(wire), table, out, ending)
  PROVE  tcpQueue'.priority = <<>> /\ Agree(tcpQueue'.normal, OnWire(wire'), table, out, ending)
<1>1. wire \in [Sockets -> Seq(Messages)] /\ q.normal \in Seq(Messages)
  BY MessagesAssumption DEF TcpTypeOK, Queue
<1>2. CASE tcpQueue' = q /\ wire' = wire
  BY <1>2
<1>3. CASE /\ HasRequest(q) /\ wire' = [wire EXCEPT ![opened] = Append(@, Peek(q))]
           /\ tcpQueue' = Dequeue(q)
  <2>1. q.normal # <<>> /\ Peek(q) = Head(q.normal)
    BY <1>3 DEF HasRequest, Peek
  <2>2. tcpQueue'.priority = <<>> /\ tcpQueue'.normal = Tail(q.normal)
    BY <1>3 DEF Dequeue, Queue
  <2>3. Head(q.normal) \in Messages
    BY <1>1, <2>1, HeadTailProperties
  <2>4. OnWire(wire') \subseteq OnWire(wire) \cup {Head(q.normal)}
    <3>1. wire' = [wire EXCEPT ![opened] = Append(@, Head(q.normal))]
      BY <1>3, <2>1
    <3>2. \A s : \A m \in Messages :
            OnWire([wire EXCEPT ![s] = Append(@, m)]) \subseteq OnWire(wire) \cup {m}
      BY <1>1, OnWireFacts
    <3>. QED
      BY <2>3, <3>1, <3>2
  <2>. QED
    BY <1>1, <2>1, <2>2, <2>4, AgreeWrite
<1>. QED
  BY <1>2, <1>3 DEF SendNext

(* What internalDestroy leaves on the wires.                                 *)
LEMMA DestroyMessages ==
  ASSUME TcpTypeOK, NEW p, InternalDestroy(p)
  PROVE  /\ tcpQueue'.priority = <<>> /\ tcpQueue'.normal = <<>>
         /\ OnWire(wire') \subseteq OnWire(wire)
<1>1. wire \in [Sockets -> Seq(Messages)]
  BY MessagesAssumption DEF TcpTypeOK
<1>2. \A s \in Sockets : wire'[s] \in {<<>>, wire[s]}
  BY DEF InternalDestroy, OfLive
<1>. QED
  BY <1>1, <1>2, OnWireFacts DEF InternalDestroy, EmptyQueue

MessagesAgree ==
  /\ tcpQueue.priority = <<>>
  /\ Agree(tcpQueue.normal, OnWire(wire), contextToCallback, outcome, Ending)

AllFiled(table, out) ==
  \A r \in Requests : out[r] = "pending" => \E id \in Transactions : table[id] = r

LEMMA MessageInvParts ==
  MessageInv <=> /\ MessagesAgree /\ FiledIsPending(contextToCallback, outcome)
                 /\ AllFiled(contextToCallback, outcome) /\ AnswerIsItsOwn
BY DEF MessageInv, MessagesAgree, AllFiled, PendingIsFiled, Pending, Filed

LEMMA MessageInvNext ==
  ASSUME MessagesAgree', FiledIsPending(contextToCallback', outcome'),
         AllFiled(contextToCallback', outcome'), AnswerIsItsOwn'
  PROVE  MessageInv'
BY DEF MessageInv, MessagesAgree, AllFiled, PendingIsFiled, Pending, Filed

LEMMA MessageTypes ==
  ASSUME TypeOK
  PROVE  /\ contextToCallback \in Tables /\ outcome \in [Requests -> Outcomes]
         /\ Ending \in BOOLEAN /\ wire \in [Sockets -> Seq(Messages)]
         /\ OnWire(wire) \subseteq Messages
         /\ tcpQueue \in Queue(Messages) /\ tcpQueue.normal \in Seq(Messages)
<1>1. wire \in [Sockets -> Seq(Messages)] /\ tcpQueue \in Queue(Messages) /\ Ending \in BOOLEAN
  BY MessagesAssumption DEF TypeOK, TcpTypeOK, Ending
<1>2. tcpQueue.normal \in Seq(Messages)
  BY <1>1 DEF Queue
<1>. QED
  BY <1>1, <1>2, OnWireFacts DEF TypeOK, Tables, Outcomes

LEMMA InitMessages == Init => MessageInv
<1>. SUFFICES ASSUME Init PROVE MessageInv
  OBVIOUS
<1>1. tcpQueue.priority = <<>> /\ tcpQueue.normal = <<>> /\ OnWire(wire) = {}
  BY DEF Init, TcpInit, EmptyQueue, OnWire
<1>2. 1 .. Len(tcpQueue.normal) = {}
  BY <1>1
<1>3. MessagesAgree
  BY <1>1, <1>2 DEF MessagesAgree, Agree
<1>. QED
  BY <1>3, MessageInvParts DEF Init, FiledIsPending, AllFiled, AnswerIsItsOwn

(* A new request.                                                            *)
LEMMA IssueMessages ==
  ASSUME SocketInv, MessageInv, NoReuse, NEW r \in Requests, Issue(r)
  PROVE  /\ MessageInv'
         /\ LET q == Enqueue(tcpQueue, [id |-> NextTransaction, request |-> r], FALSE)
            IN  /\ q \in Queue(Messages) /\ q.priority = <<>>
                /\ Agree(q.normal, OnWire(wire), contextToCallback', outcome', Ending)
<1>. DEFINE m == [id |-> NextTransaction, request |-> r]
            q == Enqueue(tcpQueue, m, FALSE)
<1>1. m.id \in Transactions /\ m \in Messages /\ m.id = NextTransaction /\ m.request = r
  BY NextTransactionType DEF SocketInv, Messages
<1>2. /\ TypeOK /\ TcpTypeOK /\ outcome[r] = "idle"
      /\ SendNext(tcpState, q, ticks) /\ UNCHANGED <<Ending, answer>>
      /\ contextToCallback' = [contextToCallback EXCEPT ![m.id] = m.request]
      /\ outcome' = [outcome EXCEPT ![m.request] = "pending"]
  BY <1>1 DEF SocketInv, TypeOK, Issue, File, TcpSend, Ending
<1>3. /\ contextToCallback[m.id] = NoRequest
      /\ \A i \in 1 .. Len(tcpQueue.normal) : tcpQueue.normal[i].id # m.id
      /\ \A n \in OnWire(wire) : n.id # m.id
  <2>1. tcpQueue.normal \in Seq(Messages)
    BY <1>2, MessageTypes
  <2>2. \A i \in 1 .. Len(tcpQueue.normal) : tcpQueue.normal[i] \in UnderWay
    BY <2>1 DEF UnderWay, Queued
  <2>. QED
    BY <1>1, <1>2, <2>2 DEF NoReuse, UnderWay
<1>. HIDE DEF m
<1>4. /\ Agree(Append(tcpQueue.normal, m), OnWire(wire), contextToCallback', outcome', Ending)
      /\ FiledIsPending(contextToCallback', outcome')
  <2>1. /\ contextToCallback \in Tables /\ outcome \in [Requests -> Outcomes]
        /\ Ending \in BOOLEAN /\ OnWire(wire) \subseteq Messages
        /\ tcpQueue.normal \in Seq(Messages)
    BY <1>2, MessageTypes
  <2>2. /\ Agree(tcpQueue.normal, OnWire(wire), contextToCallback, outcome, Ending)
        /\ FiledIsPending(contextToCallback, outcome)
    BY MessageInvParts DEF MessagesAgree
  <2>3. outcome[m.request] = "idle"
    BY <1>1, <1>2
  <2>4. PICK n, w, table, out, ending :
          /\ n = tcpQueue.normal /\ w = OnWire(wire) /\ table = contextToCallback
          /\ out = outcome /\ ending = Ending
    OBVIOUS
  <2>5. /\ n \in Seq(Messages) /\ w \subseteq Messages /\ table \in Tables
        /\ out \in [Requests -> Outcomes] /\ ending \in BOOLEAN
        /\ Agree(n, w, table, out, ending) /\ FiledIsPending(table, out)
        /\ m \in Messages /\ out[m.request] = "idle" /\ table[m.id] = NoRequest
        /\ \A i \in 1 .. Len(n) : n[i].id # m.id
        /\ \A x \in w : x.id # m.id
    BY <1>1, <1>3, <2>1, <2>2, <2>3, <2>4
  <2>6. /\ Agree(Append(n, m), w, [table EXCEPT ![m.id] = m.request],
                 [out EXCEPT ![m.request] = "pending"], ending)
        /\ FiledIsPending([table EXCEPT ![m.id] = m.request],
                          [out EXCEPT ![m.request] = "pending"])
    BY ONLY <2>5, AgreeIssue
  <2>. QED
    BY <1>2, <2>4, <2>6
<1>5. /\ q \in Queue(Messages) /\ q.priority = <<>>
      /\ q.normal = Append(tcpQueue.normal, m)
  BY <1>1, <1>2, MessageTypes, MessageInvParts, QueueFacts DEF MessagesAgree, Enqueue, Queue
<1>. HIDE DEF q
<1>6. MessagesAgree'
  BY <1>2, <1>4, <1>5, SendNextMessages DEF MessagesAgree
<1>7. AllFiled(contextToCallback', outcome')
  <2>1. AllFiled(contextToCallback, outcome) /\ contextToCallback \in Tables
        /\ outcome \in [Requests -> Outcomes]
    BY <1>2, MessageTypes, MessageInvParts
  <2>2. contextToCallback'[m.id] = r
    BY <1>1, <1>2, <2>1 DEF Tables
  <2>3. ASSUME NEW x \in Requests, x # r, outcome'[x] = "pending"
        PROVE  \E id \in Transactions : contextToCallback'[id] = x
    <3>1. PICK id \in Transactions : contextToCallback[id] = x
      BY <1>1, <1>2, <2>1, <2>3 DEF AllFiled
    <3>2. id # m.id
      BY <1>3, <3>1, ModbusAssumption DEF NoRequest
    <3>. QED
      BY <1>2, <2>1, <3>1, <3>2 DEF Tables
  <2>. QED
    BY <1>1, <2>2, <2>3 DEF AllFiled
<1>8. AnswerIsItsOwn'
  BY <1>1, <1>2, MessageTypes, MessageInvParts DEF AnswerIsItsOwn
<1>9. MessageInv'
  BY <1>4, <1>6, <1>7, <1>8, MessageInvNext
<1>. QED
  BY <1>4, <1>5, <1>9 DEF q, m

(* A reply: which request it settles, with what, and what is left.           *)
LEMMA HandleDataMessages ==
  ASSUME SocketInv, MessageInv, NEW s \in Sockets, NEW k \in 1 .. MaxCoalesced, HandleData(s, k)
  PROVE  /\ MessageInv'
         /\ contextToCallback[wire[s][k].id]
              = IF outcome[wire[s][k].request] = "pending" THEN wire[s][k].request ELSE NoRequest
<1>. DEFINE m == wire[s][k]
            r == contextToCallback[m.id]
<1>1. /\ TypeOK /\ k \in Nat /\ k \in 1 .. Len(wire[s])
      /\ wire' = [wire EXCEPT ![s] = SubSeq(@, k + 1, Len(@))]
      /\ UNCHANGED <<tcpQueue, Ending>>
      /\ contextToCallback' = [contextToCallback EXCEPT ![m.id] = NoRequest]
  BY DEF SocketInv, HandleData, DataEvent, Ending
<1>2. \/ r = NoRequest /\ UNCHANGED <<outcome, answer>>
      \/ /\ r # NoRequest
         /\ outcome' = [outcome EXCEPT ![r] = "answered"]
         /\ answer' = [answer EXCEPT ![r] = m.request]
  BY DEF HandleData
<1>3. /\ m \in OnWire(wire) /\ OnWire(wire') \subseteq OnWire(wire)
      /\ OnWire(wire) \subseteq Messages
      /\ contextToCallback \in Tables /\ outcome \in [Requests -> Outcomes]
      /\ Ending \in BOOLEAN /\ tcpQueue.normal \in Seq(Messages)
  <2>1. wire \in [Sockets -> Seq(Messages)]
    BY <1>1, MessageTypes
  <2>. QED
    BY <1>1, <2>1, OnWireFacts, MessageTypes
<1>4. m.id \in Transactions /\ m.request \in Requests
  BY <1>3 DEF Messages
<1>5. /\ Agree(tcpQueue.normal, OnWire(wire), contextToCallback, outcome, Ending)
      /\ FiledIsPending(contextToCallback, outcome) /\ AllFiled(contextToCallback, outcome)
      /\ AnswerIsItsOwn /\ tcpQueue.priority = <<>>
  BY MessageInvParts DEF MessagesAgree
<1>. HIDE DEF m
<1>6. outcome' = IF r = NoRequest THEN outcome ELSE [outcome EXCEPT ![r] = "answered"]
  BY <1>2
<1>7. /\ Agree(tcpQueue.normal, OnWire(wire), contextToCallback', outcome', Ending)
      /\ FiledIsPending(contextToCallback', outcome')
      /\ r = IF outcome[m.request] = "pending" THEN m.request ELSE NoRequest
  <2>1. /\ m \in OnWire(wire) /\ OnWire(wire) \subseteq Messages
        /\ Agree(tcpQueue.normal, OnWire(wire), contextToCallback, outcome, Ending)
        /\ FiledIsPending(contextToCallback, outcome)
        /\ contextToCallback \in Tables /\ outcome \in [Requests -> Outcomes]
        /\ Ending \in BOOLEAN /\ tcpQueue.normal \in Seq(Messages)
    BY <1>3, <1>5
  <2>2. contextToCallback' = [contextToCallback EXCEPT ![m.id] = NoRequest]
    BY <1>1
  <2>3. CASE outcome[m.request] = "pending"
    <3>1. /\ contextToCallback[m.id] = m.request
          /\ Agree(tcpQueue.normal, OnWire(wire), [contextToCallback EXCEPT ![m.id] = NoRequest],
                   [outcome EXCEPT ![m.request] = "answered"], Ending)
          /\ FiledIsPending([contextToCallback EXCEPT ![m.id] = NoRequest],
                            [outcome EXCEPT ![m.request] = "answered"])
      <4>1. PICK n, w, table, out, ending :
              /\ n = tcpQueue.normal /\ w = OnWire(wire) /\ table = contextToCallback
              /\ out = outcome /\ ending = Ending
        OBVIOUS
      <4>2. /\ n \in Seq(Messages) /\ w \subseteq Messages /\ table \in Tables
            /\ out \in [Requests -> Outcomes] /\ ending \in BOOLEAN
            /\ Agree(n, w, table, out, ending) /\ FiledIsPending(table, out)
            /\ m \in w /\ out[m.request] = "pending"
        BY <2>1, <2>3, <4>1
      <4>3. AgreesAnswered(n, w, table, out, ending, m)
        BY ONLY <4>2, AgreeAnswer
      <4>. QED
        BY <4>1, <4>3 DEF AgreesAnswered
    <3>. QED
      BY <1>2, <1>4, <2>2, <2>3, <3>1, ModbusAssumption DEF NoRequest
  <2>4. CASE outcome[m.request] # "pending"
    <3>1. r = NoRequest
      BY <2>1, <2>4 DEF Agree, Answerable
    <3>2. contextToCallback' = contextToCallback /\ outcome' = outcome
      BY <1>2, <2>1, <2>2, <3>1 DEF Tables
    <3>. QED
      BY <2>1, <2>4, <3>1, <3>2
  <2>. QED
    BY <2>3, <2>4
<1>8. MessagesAgree'
  <2>1. Agree(tcpQueue.normal, OnWire(wire'), contextToCallback', outcome', Ending)
    BY <1>3, <1>7, AgreeFewer
  <2>. QED
    BY <1>1, <1>5, <2>1 DEF MessagesAgree
<1>9. AllFiled(contextToCallback', outcome')
  <2>1. ASSUME NEW x \in Requests, outcome'[x] = "pending"
        PROVE  \E id \in Transactions : contextToCallback'[id] = x
    <3>1. outcome[x] = "pending" /\ x # r
      BY <1>3, <1>6, <2>1, ModbusAssumption DEF NoRequest
    <3>2. PICK id \in Transactions : contextToCallback[id] = x
      BY <1>5, <3>1 DEF AllFiled
    <3>. QED
      BY <1>1, <1>3, <3>1, <3>2 DEF Tables
  <2>. QED
    BY <2>1 DEF AllFiled
<1>10. AnswerIsItsOwn'
  <2>1. r # NoRequest => r = m.request
    BY <1>7
  <2>2. answer \in [Requests -> Requests \cup {NoRequest}]
    BY <1>1 DEF TypeOK
  <2>. QED
    BY <1>2, <1>3, <1>4, <1>5, <2>1, <2>2 DEF AnswerIsItsOwn
<1>11. MessageInv'
  BY <1>7, <1>8, <1>9, <1>10, MessageInvNext
<1>. QED
  BY <1>7, <1>11 DEF m

(* Every callback on file is rejected: nothing is awaited any more.          *)
LEMMA RejectedFacts ==
  ASSUME SocketInv, MessageInv
  PROVE  /\ \A r \in Requests : /\ Rejected[r] # "pending"
                                /\ Rejected[r] = "idle" <=> outcome[r] = "idle"
                                /\ outcome[r] # "pending" => Rejected[r] = outcome[r]
                                /\ outcome[r] = "pending" => Rejected[r] = "rejected"
         /\ Filed = Pending
<1>1. AllFiled(contextToCallback, outcome) /\ FiledIsPending(contextToCallback, outcome)
  BY MessageInvParts
<1>2. \A r \in Requests : r # NoRequest
  BY ModbusAssumption DEF NoRequest
<1>3. \A r \in Requests : r \in Filed <=> outcome[r] = "pending"
  BY <1>1, <1>2 DEF Filed, AllFiled, FiledIsPending
<1>. QED
  BY <1>3 DEF Rejected, Filed, Pending

LEMMA RejectAllMessages ==
  ASSUME SocketInv, MessageInv, RejectAll,
         \/ Ending' /\ UNCHANGED <<tcpQueue, wire>>
         \/ /\ tcpQueue'.priority = <<>> /\ tcpQueue'.normal = <<>>
            /\ OnWire(wire') \subseteq OnWire(wire)
  PROVE  MessageInv'
<1>. DEFINE q == tcpQueue.normal
            w == OnWire(wire)
<1>1. /\ contextToCallback' = NoContexts /\ outcome' = Rejected /\ UNCHANGED answer
      /\ TypeOK /\ Ending \in BOOLEAN /\ q \in Seq(Messages) /\ w \subseteq Messages
  BY MessageTypes DEF RejectAll, SocketInv
<1>2. /\ Agree(q, w, contextToCallback, outcome, Ending)
      /\ AnswerIsItsOwn /\ tcpQueue.priority = <<>>
  BY MessageInvParts DEF MessagesAgree
<1>. HIDE DEF q, w
<1>3. /\ \A m \in w : Rejected[m.request] \notin {"idle", "pending"} /\ m.id \in Transactions
      /\ \A i \in 1 .. Len(q) :
           Rejected[q[i].request] \notin {"idle", "pending"} /\ q[i].id \in Transactions
  <2>1. \A m \in w : m.id \in Transactions /\ m.request \in Requests /\ outcome[m.request] # "idle"
    BY <1>1, <1>2 DEF Agree, Answerable, Messages
  <2>2. \A i \in 1 .. Len(q) : q[i] \in Messages /\ outcome[q[i].request] # "idle"
    BY <1>1, <1>2 DEF Agree, Answerable
  <2>3. \A i \in 1 .. Len(q) : q[i].id \in Transactions /\ q[i].request \in Requests
    BY <2>2 DEF Messages
  <2>. QED
    BY <2>1, <2>2, <2>3, RejectedFacts
<1>4. Agree(q, w, NoContexts, Rejected, TRUE) /\ FiledIsPending(NoContexts, Rejected)
  BY <1>1, <1>2, <1>3, AgreeReject
<1>5. MessagesAgree'
  <2>1. CASE Ending' /\ UNCHANGED <<tcpQueue, wire>>
    BY <1>1, <1>2, <1>4, <2>1 DEF MessagesAgree, q, w
  <2>2. CASE /\ tcpQueue'.priority = <<>> /\ tcpQueue'.normal = <<>>
             /\ OnWire(wire') \subseteq OnWire(wire)
    <3>1. Agree(<<>>, OnWire(wire'), NoContexts, Rejected, Ending')
      BY <1>4, <2>2, AgreeFewer DEF w
    <3>. QED
      BY <1>1, <2>2, <3>1 DEF MessagesAgree
  <2>. QED
    BY <2>1, <2>2
<1>6. AllFiled(contextToCallback', outcome')
  BY <1>1, RejectedFacts DEF AllFiled
<1>7. AnswerIsItsOwn'
  BY <1>1, <1>2 DEF AnswerIsItsOwn, Rejected
<1>. QED
  BY <1>1, <1>4, <1>5, <1>6, <1>7, MessageInvNext

(* The same with an error callback that issues r.                            *)
LEMMA RejectAllAndIssueMessages ==
  ASSUME SocketInv, MessageInv, NoReuse, NEW s \in Sockets, NEW after \in Phases,
         NEW r \in Requests, RejectAllAndIssue(r), SocketFailureAndResend(s, after)
  PROVE  MessageInv'
<1>. DEFINE w == OnWire(wire)
            m == [id |-> NextTransaction, request |-> r]
<1>1. m.id \in Transactions /\ m \in Messages /\ m.id = NextTransaction /\ m.request = r
  BY NextTransactionType DEF SocketInv, Messages
<1>2. /\ contextToCallback' = [NoContexts EXCEPT ![m.id] = m.request]
      /\ outcome' = [Rejected EXCEPT ![m.request] = "pending"]
      /\ UNCHANGED answer /\ outcome[r] = "idle" /\ TypeOK /\ w \subseteq Messages
  BY <1>1, MessageTypes DEF RejectAllAndIssue, File, SocketInv
<1>3. tcpQueue'.priority = <<>> /\ tcpQueue'.normal = <<>> /\ OnWire(wire') \subseteq w
  <2>1. wire \in [Sockets -> Seq(Messages)] /\ \A x \in Sockets : wire'[x] \in {<<>>, wire[x]}
    BY <1>2, MessageTypes DEF SocketFailureAndResend, OfLive
  <2>. QED
    BY <2>1, OnWireFacts DEF SocketFailureAndResend, EmptyQueue
<1>4. /\ Agree(tcpQueue.normal, w, contextToCallback, outcome, Ending) /\ AnswerIsItsOwn
  BY MessageInvParts DEF MessagesAgree
<1>5. \A n \in w : n.id # m.id
  BY <1>1, <1>2 DEF NoReuse, UnderWay
<1>. HIDE DEF w, m
<1>6. /\ NoContexts \in Tables /\ Rejected \in [Requests -> Outcomes]
      /\ NoContexts[m.id] = NoRequest /\ <<>> \in Seq(Messages)
      /\ Rejected[r] = "idle"
  BY <1>1, <1>2, OutcomeTypes, RejectedFacts DEF NoContexts, SocketInv, Outcomes
<1>7. Agree(<<>>, w, NoContexts, Rejected, TRUE) /\ FiledIsPending(NoContexts, Rejected)
  <2>1. Agree(<<>>, w, contextToCallback, outcome, TRUE)
    BY <1>4, AgreeFewer
  <2>2. \A n \in w : n.id \in Transactions /\ n.request \in Requests /\ outcome[n.request] # "idle"
    BY <1>2, <1>4 DEF Agree, Answerable, Messages
  <2>3. \A n \in w : Rejected[n.request] \notin {"idle", "pending"}
    BY <2>2, RejectedFacts
  <2>4. \A i \in 1 .. Len(<<>>) : FALSE
    OBVIOUS
  <2>. QED
    BY <2>1, <2>2, <2>3, <2>4, AgreeReject
<1>8. Agree(Append(<<>>, m), w, contextToCallback', outcome', TRUE)
      /\ FiledIsPending(contextToCallback', outcome')
  <2>1. \A i \in 1 .. Len(<<>>) : <<>>[i].id # m.id
    OBVIOUS
  <2>2. Rejected[m.request] = "idle"
    BY <1>1, <1>6
  <2>. QED
    BY <1>1, <1>2, <1>5, <1>6, <1>7, <2>1, <2>2, AgreeIssue
<1>9. MessagesAgree'
  <2>1. Agree(<<>>, OnWire(wire'), contextToCallback', outcome', Ending')
    BY <1>3, <1>8, AgreeFewer
  <2>. QED
    BY <1>3, <2>1 DEF MessagesAgree
<1>10. AllFiled(contextToCallback', outcome')
  <2>1. contextToCallback'[m.id] = r
    BY <1>1, <1>2, <1>6 DEF Tables
  <2>2. \A x \in Requests : outcome'[x] = "pending" => x = r
    BY <1>1, <1>2, <1>6, RejectedFacts
  <2>. QED
    BY <1>1, <2>1, <2>2 DEF AllFiled
<1>11. AnswerIsItsOwn'
  BY <1>1, <1>2, <1>4, <1>6, RejectedFacts DEF AnswerIsItsOwn, Rejected
<1>. QED
  BY <1>8, <1>9, <1>10, <1>11, MessageInvNext

(* The events that change no table.                                          *)
LEMMA SameTable ==
  ASSUME SocketInv, MessageInv, UNCHANGED <<contextToCallback, outcome, answer>>,
         \/ MessagesAgree'
         \/ /\ UNCHANGED tcpQueue /\ (Ending => Ending')
            /\ OnWire(wire') \subseteq OnWire(wire)
         \/ /\ tcpQueue'.priority = <<>> /\ tcpQueue'.normal = <<>>
            /\ OnWire(wire') \subseteq OnWire(wire)
  PROVE  MessageInv'
<1>1. /\ Agree(tcpQueue.normal, OnWire(wire), contextToCallback, outcome, Ending)
      /\ FiledIsPending(contextToCallback, outcome) /\ AllFiled(contextToCallback, outcome)
      /\ AnswerIsItsOwn /\ tcpQueue.priority = <<>>
  BY MessageInvParts DEF MessagesAgree
<1>2. MessagesAgree'
  <2>1. CASE /\ UNCHANGED tcpQueue /\ (Ending => Ending')
             /\ OnWire(wire') \subseteq OnWire(wire)
    <3>1. Agree(tcpQueue.normal, OnWire(wire'), contextToCallback, outcome, Ending')
      BY <1>1, <2>1 DEF Agree
    <3>. QED
      BY <1>1, <2>1, <3>1 DEF MessagesAgree
  <2>2. CASE /\ tcpQueue'.priority = <<>> /\ tcpQueue'.normal = <<>>
             /\ OnWire(wire') \subseteq OnWire(wire)
    <3>1. Agree(<<>>, OnWire(wire'), contextToCallback, outcome, Ending')
      BY <1>1, <2>2, AgreeFewer
    <3>. QED
      BY <2>2, <3>1 DEF MessagesAgree
  <2>. QED
    BY <2>1, <2>2
<1>. QED
  BY <1>1, <1>2, MessageInvNext DEF AnswerIsItsOwn

LEMMA NextMessages == SocketInv /\ MessageInv /\ NoReuse /\ [Next]_vars => MessageInv'
<1>. SUFFICES ASSUME SocketInv, MessageInv, NoReuse, [Next]_vars PROVE MessageInv'
  OBVIOUS
<1>0. TypeOK /\ TcpTypeOK /\ tcpQueue \in Queue(Messages) /\ tcpQueue.priority = <<>>
      /\ Agree(tcpQueue.normal, OnWire(wire), contextToCallback, outcome, Ending)
  BY MessageTypes, MessageInvParts DEF SocketInv, TypeOK, MessagesAgree
<1>1. ASSUME NEW r \in Requests, Issue(r) PROVE MessageInv'
  BY <1>1, IssueMessages
<1>2. ASSUME NEW s \in Sockets, NEW k \in 1 .. MaxCoalesced, HandleData(s, k) PROVE MessageInv'
  BY <1>2, HandleDataMessages
<1>3. ASSUME NEW s \in Sockets, Connect(s) PROVE MessageInv'
  <2>1. ConnectEvent(s) /\ UNCHANGED <<contextToCallback, outcome, answer, Ending>>
    BY <1>3 DEF Connect, modbusVars, ConnectEvent, Ending
  <2>2. CASE SendNext(Connected, tcpQueue, ticks)
    <3>1. MessagesAgree'
      BY <1>0, <2>1, <2>2, SendNextMessages DEF MessagesAgree
    <3>. QED
      BY <2>1, <3>1, SameTable
  <2>3. CASE UNCHANGED <<tcpQueue, wire>>
    BY <2>1, <2>3, SameTable
  <2>. QED
    BY <2>1, <2>2, <2>3 DEF ConnectEvent
<1>4. ASSUME NEW s \in Sockets, Fail(s) PROVE MessageInv'
  <2>1. ASSUME NEW after \in Phases, SocketFailure(s, after), RejectAll PROVE MessageInv'
    BY <1>0, <2>1, DestroyMessages, RejectAllMessages DEF SocketFailure
  <2>2. ASSUME NEW after \in Phases, NEW r \in Requests, RejectAllAndIssue(r),
               SocketFailureAndResend(s, after)
        PROVE  MessageInv'
    BY <2>2, RejectAllAndIssueMessages
  <2>. QED
    BY <1>4, <2>1, <2>2 DEF Fail
<1>5. ASSUME NEW s \in Sockets, SocketClosed(s) PROVE MessageInv'
  BY <1>5, SameTable DEF SocketClosed, CloseEvent, modbusVars, Ending
<1>6. ASSUME NEW s \in Sockets, Ended(s) PROVE MessageInv'
  <2>1. EndCallback(s) /\ UNCHANGED <<contextToCallback, outcome, answer>>
    BY <1>6 DEF Ended, modbusVars
  <2>2. CASE InternalDestroy([phase EXCEPT ![s] = "ended"])
    BY <1>0, <2>1, <2>2, DestroyMessages, SameTable
  <2>3. CASE /\ due' = (IF closing THEN "destroy" ELSE due) /\ closing' = FALSE
             /\ UNCHANGED <<tcpQueue, wire>>
    BY <2>1, <2>3, SameTable DEF Ending
  <2>. QED
    BY <2>1, <2>2, <2>3 DEF EndCallback
<1>7. ASSUME Tick PROVE MessageInv'
  <2>1. SendNext(tcpState, tcpQueue, ticks - 1)
        /\ UNCHANGED <<contextToCallback, outcome, answer, Ending>>
    BY <1>7 DEF Tick, modbusVars, SendTick, Ending
  <2>2. MessagesAgree'
    BY <1>0, <2>1, SendNextMessages DEF MessagesAgree
  <2>. QED
    BY <2>1, <2>2, SameTable
<1>8. ASSUME CloseLayers PROVE MessageInv'
  <2>1. RejectAll /\ Ending' /\ UNCHANGED <<tcpQueue, wire>>
    BY <1>8 DEF CloseLayers, CloseCalled, Ending
  <2>. QED
    BY <2>1, RejectAllMessages
<1>11. ASSUME Disconnects PROVE MessageInv'
  <2>1. /\ UNCHANGED <<contextToCallback, outcome, answer, tcpQueue, wire>>
        /\ due' = "destroy" \/ closing' = TRUE
    BY <1>11 DEF Disconnects, CloseDisconnects, modbusVars
  <2>2. Ending => Ending'
    BY <2>1 DEF Ending
  <2>. QED
    BY <2>1, <2>2, SameTable
<1>12. ASSUME Destroys PROVE MessageInv'
  <2>1. InternalDestroy(phase) /\ UNCHANGED <<contextToCallback, outcome, answer>>
    BY <1>12 DEF Destroys, CloseDestroys, modbusVars
  <2>. QED
    BY <1>0, <2>1, DestroyMessages, SameTable
<1>9. ASSUME DisconnectTcp PROVE MessageInv'
  BY <1>9, SameTable DEF DisconnectTcp, Disconnect, Ending
<1>10. ASSUME UNCHANGED vars PROVE MessageInv'
  BY <1>10, SameTable DEF vars, tcpVars, modbusVars, Ending
<1>. QED
  BY <1>1, <1>2, <1>3, <1>4, <1>5, <1>6, <1>7, <1>8, <1>9, <1>10, <1>11, <1>12 DEF Next

-----------------------------------------------------------------------------
(* The requests of the messages in queue q and on socket o.                  *)
WayOf(q, w, o) ==
  {m.request : m \in Queued(q)}
    \cup (IF o = 0 THEN {} ELSE {w[o][i].request : i \in DOMAIN w[o]})

(* sendNextMessage loses none of them.                                       *)
LEMMA SendNextWay ==
  ASSUME TcpTypeOK, NEW state, NEW q \in Queue(Messages), NEW t, SendNext(state, q, t),
         q.priority = <<>>, state # Disconnected, state = Connected => opened \in Sockets
  PROVE  WayOf(q, wire, opened) \subseteq OnTheWay' /\ UNCHANGED opened /\ tcpState' = state
<1>0. q.normal \in Seq(Messages) /\ wire \in [Sockets -> Seq(Messages)] /\ opened' = opened
      /\ tcpState' = state
  BY MessagesAssumption DEF TcpTypeOK, Queue, SendNext
<1>1. OnTheWay' = WayOf(tcpQueue', wire', opened')
  BY DEF OnTheWay, WayOf
<1>2. CASE tcpQueue' = q /\ wire' = wire
  BY <1>0, <1>1, <1>2
<1>3. CASE /\ state = Connected /\ HasRequest(q)
           /\ wire' = [wire EXCEPT ![opened] = Append(@, Peek(q))] /\ tcpQueue' = Dequeue(q)
  <2>. DEFINE w == wire[opened]
              l == Len(w)
              n == q.normal
              d == Tail(n)
              v == wire'[opened]
  <2>1. /\ opened \in Sockets /\ n # <<>> /\ Peek(q) = Head(n) /\ w \in Seq(Messages)
        /\ l \in Nat /\ n \in Seq(Messages)
    BY <1>0, <1>3 DEF HasRequest, Peek
  <2>2. tcpQueue'.priority = <<>> /\ tcpQueue'.normal = d /\ v = Append(w, Head(n))
    BY <1>0, <1>3, <2>1 DEF Dequeue, Queue
  <2>3. /\ Head(n) = n[1] /\ Head(n) \in Messages
        /\ DOMAIN d = 1 .. Len(n) - 1 /\ DOMAIN n = 1 .. Len(n) /\ Len(n) \in Nat
        /\ \A i \in 1 .. Len(n) - 1 : d[i] = n[i + 1]
    BY <2>1, HeadTailProperties
  <2>4. /\ DOMAIN v = 1 .. l + 1 /\ v[l + 1] = n[1] /\ DOMAIN w = 1 .. l
        /\ \A i \in 1 .. l : v[i] = w[i]
    BY <2>1, <2>2, <2>3, AppendProperties
  <2>5. opened # 0
    BY <2>1, TcpAssumption DEF Sockets
  <2>6. /\ Queued(q) = {n[i] : i \in DOMAIN n}
        /\ Queued(tcpQueue') = {d[i] : i \in DOMAIN d}
    BY <2>2 DEF Queued
  <2>7. OnTheWay' = {d[i].request : i \in DOMAIN d} \cup {v[i].request : i \in DOMAIN v}
    BY <1>0, <1>1, <2>5, <2>6 DEF WayOf
  <2>8. WayOf(q, wire, opened) = {n[i].request : i \in DOMAIN n}
                                  \cup {w[i].request : i \in DOMAIN w}
    BY <2>5, <2>6 DEF WayOf
  <2>. HIDE DEF w, l, n, d, v
  <2>9. ASSUME NEW i \in 1 .. Len(n) PROVE n[i].request \in OnTheWay'
    <3>1. CASE i = 1
      <4>1. l + 1 \in DOMAIN v
        BY <2>1, <2>4
      <4>. QED
        BY <2>4, <2>7, <3>1, <4>1
    <3>2. CASE i # 1
      <4>1. i - 1 \in 1 .. Len(n) - 1 /\ (i - 1) + 1 = i
        BY <2>3, <3>2
      <4>2. d[i - 1] = n[i]
        BY <2>3, <4>1
      <4>. QED
        BY <2>3, <2>7, <4>1, <4>2
    <3>. QED
      BY <3>1, <3>2
  <2>10. ASSUME NEW i \in 1 .. l PROVE w[i].request \in OnTheWay'
    <3>1. i \in 1 .. l + 1
      BY <2>1
    <3>. QED
      BY <2>4, <2>7, <3>1
  <2>. QED
    BY <1>0, <2>3, <2>4, <2>8, <2>9, <2>10
<1>. QED
  BY <1>2, <1>3, <1>0 DEF SendNext

Awaited == Pending \ (stranded \cup discarded)

(* While a part of a close is due nothing is awaited but what was issued     *)
(* since the close began.                                                    *)
WayInv == PendingIsUnderWay /\ (due # "nothing" /\ ~strayed => Awaited = {})

LEMMA IssueWay ==
  ASSUME SocketInv, MessageInv, ~strayed, due = "nothing", PendingIsUnderWay,
         NEW r \in Requests, Issue(r)
  PROVE  \A x \in Awaited' : x \in OnTheWay' /\ tcpState' \in {Connecting, Connected}
<1>. DEFINE m == [id |-> NextTransaction, request |-> r]
            q == Enqueue(tcpQueue, m, FALSE)
<1>1. m \in Messages /\ m.request = r
  BY NextTransactionType DEF SocketInv, Messages
<1>2. /\ TypeOK /\ TcpTypeOK /\ Sound
      /\ SendNext(tcpState, q, ticks) /\ UNCHANGED discarded
      /\ stranded' = stranded \cup (IF tcpState = Disconnecting \/ due # "nothing"
                                      THEN {r} ELSE {})
      /\ outcome' = [outcome EXCEPT ![r] = "pending"]
  BY DEF SocketInv, TypeOK, Issue, TcpSend
<1>3. tcpQueue \in Queue(Messages) /\ tcpQueue.normal \in Seq(Messages) /\ tcpQueue.priority = <<>>
  BY <1>2, MessageTypes, MessageInvParts DEF MessagesAgree
<1>. HIDE DEF m
<1>4. /\ q \in Queue(Messages) /\ q.priority = <<>>
      /\ q.normal = Append(tcpQueue.normal, m)
  BY <1>1, <1>3, QueueFacts DEF Enqueue, Queue
<1>. HIDE DEF q
<1>5. Queued(q) = Queued(tcpQueue) \cup {m}
  <2>1. /\ DOMAIN q.normal = 1 .. Len(tcpQueue.normal) + 1
        /\ DOMAIN tcpQueue.normal = 1 .. Len(tcpQueue.normal) /\ Len(tcpQueue.normal) \in Nat
        /\ \A i \in 1 .. Len(tcpQueue.normal) : q.normal[i] = tcpQueue.normal[i]
        /\ q.normal[Len(tcpQueue.normal) + 1] = m
    BY <1>1, <1>3, <1>4, AppendProperties
  <2>2. /\ Queued(q) = {q.normal[i] : i \in DOMAIN q.normal}
        /\ Queued(tcpQueue) = {tcpQueue.normal[i] : i \in DOMAIN tcpQueue.normal}
    BY <1>3, <1>4 DEF Queued
  <2>3. \A i \in 1 .. Len(tcpQueue.normal) + 1 :
          i = Len(tcpQueue.normal) + 1 \/ i \in 1 .. Len(tcpQueue.normal)
    BY <2>1
  <2>4. \A i \in 1 .. Len(tcpQueue.normal) : i \in 1 .. Len(tcpQueue.normal) + 1
    BY <2>1
  <2>5. Len(tcpQueue.normal) + 1 \in 1 .. Len(tcpQueue.normal) + 1
    BY <2>1
  <2>. QED
    BY <2>1, <2>2, <2>3, <2>4, <2>5
<1>6. ASSUME NEW x \in Awaited', x # r
      PROVE  x \in OnTheWay /\ tcpState \in {Connecting, Connected}
  BY <1>2, <1>6 DEF Awaited, Pending, PendingIsUnderWay
<1>7. OnTheWay \cup {r} \subseteq WayOf(q, wire, opened)
  BY <1>1, <1>5 DEF OnTheWay, WayOf
<1>8. CASE tcpState = Disconnected
  <2>1. tcpQueue' = q /\ tcpState' = Connecting
    BY <1>2, <1>8 DEF SendNext, Disconnected, Disconnecting, Connecting, Connected
  <2>2. r \in OnTheWay'
    BY <1>1, <1>5, <2>1 DEF OnTheWay
  <2>3. \A x \in Awaited' : x = r
    BY <1>6, <1>8 DEF Disconnected, Connecting, Connected
  <2>. QED
    BY <2>1, <2>2, <2>3
<1>9. CASE tcpState = Disconnecting
  <2>1. \A x \in Awaited' : x # r
    BY <1>2, <1>9 DEF Awaited
  <2>. QED
    BY <1>6, <1>9, <2>1 DEF Disconnecting, Connecting, Connected
<1>10. CASE tcpState \in {Connecting, Connected}
  <2>1. tcpState # Disconnected /\ (tcpState = Connected => opened \in Sockets)
    BY <1>2, <1>10, TcpAssumption
    DEF Sound, TcpTypeOK, Sockets, Disconnected, Connecting, Connected
  <2>2. WayOf(q, wire, opened) \subseteq OnTheWay' /\ tcpState' = tcpState
    BY <1>2, <1>4, <2>1, SendNextWay
  <2>. QED
    BY <1>6, <1>7, <1>10, <2>2
<1>. QED
  BY <1>2, <1>8, <1>9, <1>10 DEF TcpTypeOK, TcpStates

LEMMA HandleDataWay ==
  ASSUME SocketInv, MessageInv, ~strayed, PendingIsUnderWay,
         NEW s \in Sockets, NEW k \in 1 .. MaxCoalesced, HandleData(s, k)
  PROVE  \A x \in Awaited' : x \in OnTheWay' /\ tcpState' \in {Connecting, Connected}
<1>. DEFINE w == wire[s]
            v == wire'[s]
            m == wire[s][k]
            r == contextToCallback[m.id]
            l == Len(w)
<1>1. /\ TypeOK /\ Sound /\ s = opened /\ s # 0 /\ k \in 1 .. l
      /\ wire' = [wire EXCEPT ![s] = SubSeq(@, k + 1, Len(@))]
      /\ UNCHANGED <<tcpState, opened, tcpQueue, stranded>>
      /\ discarded' = discarded \cup {w[i].request : i \in 1 .. k - 1}
  BY TcpAssumption DEF SocketInv, HandleData, DataEvent, Sound, Sockets
<1>2. wire \in [Sockets -> Seq(Messages)] /\ outcome \in [Requests -> Outcomes]
      /\ w \in Seq(Messages) /\ l \in Nat
  BY <1>1, MessageTypes
<1>3. \/ r = NoRequest /\ outcome' = outcome
      \/ r # NoRequest /\ outcome' = [outcome EXCEPT ![r] = "answered"]
  BY DEF HandleData
<1>4. /\ outcome[m.request] = "pending" => r = m.request
      /\ outcome[m.request] # "pending" => r = NoRequest
  BY HandleDataMessages
<1>5. m.request \in Requests
  <2>1. m \in Messages
    BY <1>1, <1>2
  <2>. QED
    BY <2>1 DEF Messages
<1>6. v = SubSeq(w, k + 1, l)
  BY <1>1, <1>2
<1>7. /\ DOMAIN v = 1 .. l - k /\ \A i \in 1 .. l - k : v[i] = w[k + i]
      /\ DOMAIN w = 1 .. l
  BY <1>1, <1>2, <1>6
<1>8. /\ OnTheWay = {n.request : n \in Queued(tcpQueue)} \cup {w[i].request : i \in DOMAIN w}
      /\ OnTheWay' = {n.request : n \in Queued(tcpQueue)} \cup {v[i].request : i \in DOMAIN v}
  BY <1>1 DEF OnTheWay
<1>. HIDE DEF w, v, l
<1>9. ASSUME NEW x \in Awaited' PROVE x \in OnTheWay' /\ tcpState' \in {Connecting, Connected}
  <2>1. /\ x \in Requests /\ outcome'[x] = "pending" /\ x \notin stranded
        /\ x \notin discarded'
    BY <1>1, <1>9 DEF Awaited, Pending
  <2>2. outcome[x] = "pending" /\ x # m.request
    BY <1>2, <1>3, <1>4, <1>5, <2>1, ModbusAssumption DEF NoRequest
  <2>3. x \in OnTheWay /\ tcpState \in {Connecting, Connected}
    BY <1>1, <2>1, <2>2 DEF PendingIsUnderWay, Pending
  <2>4. ASSUME NEW i \in 1 .. l, x = w[i].request PROVE x \in OnTheWay'
    <3>1. CASE i < k
      <4>1. i \in 1 .. k - 1
        BY <1>1, <1>2, <3>1
      <4>. QED
        BY <1>1, <2>1, <2>4, <4>1
    <3>2. CASE i = k
      BY <2>2, <2>4, <3>2 DEF w
    <3>3. CASE i > k
      <4>1. i - k \in 1 .. l - k /\ k + (i - k) = i
        BY <1>1, <1>2, <3>3
      <4>2. v[i - k] = w[i]
        BY <1>7, <4>1
      <4>. QED
        BY <1>7, <1>8, <2>4, <4>1, <4>2
    <3>. QED
      BY <1>1, <1>2, <3>1, <3>2, <3>3
  <2>. QED
    BY <1>1, <1>7, <1>8, <2>3, <2>4
<1>. QED
  BY <1>9

LEMMA NextWay ==
  SocketInv /\ MessageInv /\ WayInv /\ [Next]_vars => WayInv'
<1>. DEFINE Way == /\ \A x \in Awaited' : x \in OnTheWay' /\ tcpState' \in {Connecting, Connected}
                   /\ due' # "nothing" => Awaited' = {}
<1>. SUFFICES ASSUME SocketInv, MessageInv, WayInv, [Next]_vars, ~strayed'
              PROVE  Way
  BY DEF WayInv, PendingIsUnderWay, Awaited
<1>0. /\ \A x \in Awaited : ~strayed => x \in OnTheWay /\ tcpState \in {Connecting, Connected}
      /\ PendingIsUnderWay /\ (due # "nothing" /\ ~strayed => Awaited = {})
  BY DEF WayInv, PendingIsUnderWay, Awaited
<1>. HIDE DEF WayInv
<1>00. /\ TypeOK /\ TcpTypeOK /\ (~strayed => Sound) /\ tcpQueue \in Queue(Messages)
       /\ tcpQueue.priority = <<>>
  BY MessageTypes, MessageInvParts DEF SocketInv, TypeOK, MessagesAgree
<1>01. ASSUME RejectAll PROVE Way
  <2>1. \A x \in Requests : outcome'[x] # "pending"
    BY <1>01, RejectedFacts DEF RejectAll
  <2>. QED
    BY <2>1 DEF Awaited, Pending
<1>1. ASSUME NEW r \in Requests, Issue(r) PROVE Way
  <2>1. ~strayed /\ due' = due
    BY <1>1 DEF Issue, TcpSend
  <2>2. CASE due = "nothing"
    BY <1>0, <1>1, <2>1, <2>2, IssueWay
  <2>3. CASE due # "nothing"
    <3>1. /\ r \in stranded' /\ stranded \subseteq stranded' /\ discarded' = discarded
          /\ outcome' = [outcome EXCEPT ![r] = "pending"]
      BY <1>1, <2>3 DEF Issue
    <3>2. Awaited' \subseteq Awaited
      BY <1>00, <3>1 DEF Awaited, Pending, TypeOK
    <3>. QED
      BY <1>0, <2>1, <2>3, <3>2
  <2>. QED
    BY <2>2, <2>3
<1>2. ASSUME NEW s \in Sockets, NEW k \in 1 .. MaxCoalesced, HandleData(s, k) PROVE Way
  <2>1. ~strayed /\ due = "nothing" /\ due' = due
    BY <1>2 DEF HandleData, DataEvent
  <2>. QED
    BY <1>0, <1>2, <2>1, HandleDataWay
<1>3. ASSUME NEW s \in Sockets, Connect(s) PROVE Way
  <2>1. /\ ~strayed /\ ConnectEvent(s) /\ due = "nothing" /\ due' = due
        /\ UNCHANGED <<outcome, stranded, discarded>>
    BY <1>3 DEF Connect, ConnectEvent, modbusVars
  <2>2. s = opened /\ tcpState = Connecting /\ SendNext(Connected, tcpQueue, ticks)
    <3>1. phase[s] = "connecting"
      BY <2>1 DEF ConnectEvent
    <3>2. s = opened /\ s # 0
      BY <1>00, <2>1, <3>1, TcpAssumption DEF Sound, Sockets
    <3>3. phase[opened] = PhaseIn(tcpState) /\ tcpState \in TcpStates
      BY <1>00, <2>1, <3>2 DEF Sound, TcpTypeOK
    <3>4. tcpState = Connecting
      BY ONLY <3>1, <3>2, <3>3
      DEF TcpStates, PhaseIn, Disconnected, Disconnecting, Connecting, Connected
    <3>. QED
      BY <2>1, <3>2, <3>4 DEF ConnectEvent
  <2>3. WayOf(tcpQueue, wire, opened) \subseteq OnTheWay' /\ tcpState' = Connected
    <3>1. opened \in Sockets /\ Connected # Disconnected
      BY <2>2 DEF Disconnected, Connected
    <3>. QED
      BY <1>00, <2>2, <3>1, SendNextWay
  <2>. QED
    BY <1>0, <2>1, <2>3 DEF Awaited, Pending, OnTheWay, WayOf
<1>4. ASSUME NEW s \in Sockets, Fail(s) PROVE Way
  BY <1>01, <1>4 DEF Fail, RejectAllAndIssue
<1>5. ASSUME NEW s \in Sockets, SocketClosed(s) PROVE Way
  <2>1. ~strayed /\ CloseEvent(s)
    BY <1>5 DEF SocketClosed, modbusVars
  <2>. QED
    BY <1>00, <2>1, CloseEventTcp
<1>6. ASSUME NEW s \in Sockets, Ended(s) PROVE Way
  <2>1. ~strayed /\ EndCallback(s) /\ UNCHANGED <<outcome, stranded, discarded>>
        /\ due = "nothing"
    BY <1>6 DEF Ended, EndCallback, modbusVars
  <2>2. tcpState = Disconnecting
    BY <1>00, <2>1, EndCallbackTcp DEF Sound
  <2>3. Awaited = {} /\ Awaited' = Awaited
    BY <1>0, <2>1, <2>2 DEF Awaited, Pending, Disconnecting, Connecting, Connected
  <2>. QED
    BY <2>3
<1>7. ASSUME Tick PROVE Way
  <2>1. /\ ~strayed /\ SendNext(tcpState, tcpQueue, ticks - 1) /\ due' = "nothing"
        /\ UNCHANGED <<outcome, stranded, discarded>>
    BY <1>7 DEF Tick, modbusVars, SendTick
  <2>2. CASE tcpState \in {Connecting, Connected}
    <3>1. tcpState # Disconnected /\ (tcpState = Connected => opened \in Sockets)
      BY <1>00, <2>1, <2>2, TcpAssumption
      DEF Sound, TcpTypeOK, Sockets, Disconnected, Connecting, Connected
    <3>2. WayOf(tcpQueue, wire, opened) \subseteq OnTheWay' /\ tcpState' = tcpState
      BY <1>00, <2>1, <3>1, SendNextWay
    <3>. QED
      BY <1>0, <2>1, <3>2 DEF Awaited, Pending, OnTheWay, WayOf
  <2>3. CASE tcpState \notin {Connecting, Connected}
    BY <1>0, <2>1, <2>3 DEF Awaited, Pending
  <2>. QED
    BY <2>2, <2>3
<1>8. ASSUME CloseLayers PROVE Way
  BY <1>01, <1>8 DEF CloseLayers
<1>9. ASSUME DisconnectTcp PROVE Way
  BY <1>9 DEF DisconnectTcp
<1>10. ASSUME UNCHANGED vars PROVE Way
  BY <1>0, <1>10 DEF vars, tcpVars, modbusVars, Awaited, Pending, OnTheWay
<1>11. ASSUME Disconnects \/ Destroys PROVE Way
  <2>1. ~strayed /\ due # "nothing" /\ UNCHANGED <<outcome, stranded, discarded>>
    BY <1>11 DEF Disconnects, Destroys, CloseDisconnects, CloseDestroys, modbusVars
  <2>2. Awaited = {} /\ Awaited' = Awaited
    BY <1>0, <2>1 DEF Awaited, Pending
  <2>. QED
    BY <2>2
<1>. QED
  BY <1>1, <1>2, <1>3, <1>4, <1>5, <1>6, <1>7, <1>8, <1>9, <1>10, <1>11 DEF Next

-----------------------------------------------------------------------------
(* What sendNextMessage writes, and when.                                    *)
LEMMA WrittenIsPending ==
  ASSUME TcpTypeOK, NEW state, NEW q \in Queue(Messages), NEW t, SendNext(state, q, t),
         q.priority = <<>>, NEW table, NEW out,
         Agree(q.normal, OnWire(wire), table, out, Ending),
         NEW s \in Sockets, Len(wire'[s]) > Len(wire[s])
  PROVE  state = Connected /\ (~Ending => out[wire'[s][Len(wire'[s])].request] = "pending")
<1>1. wire \in [Sockets -> Seq(Messages)] /\ q.normal \in Seq(Messages) /\ Len(wire[s]) \in Nat
  BY MessagesAssumption DEF TcpTypeOK, Queue
<1>2. wire'[s] # wire[s]
  <2>. SUFFICES ASSUME wire'[s] = wire[s] PROVE FALSE
    OBVIOUS
  <2>1. ~(Len(wire[s]) > Len(wire[s]))
    BY <1>1
  <2>. QED
    BY <2>1
<1>3. /\ state = Connected /\ HasRequest(q)
      /\ wire' = [wire EXCEPT ![opened] = Append(@, Peek(q))]
  BY <1>2 DEF SendNext
<1>4. s = opened /\ wire'[s] = Append(wire[s], Peek(q))
  BY <1>1, <1>2, <1>3
<1>5. q.normal # <<>> /\ Peek(q) = Head(q.normal)
  BY <1>3 DEF HasRequest, Peek
<1>6. Head(q.normal) = q.normal[1] /\ 1 \in 1 .. Len(q.normal) /\ Head(q.normal) \in Messages
  BY <1>1, <1>5, HeadTailProperties
<1>7. wire'[s][Len(wire'[s])] = q.normal[1]
  BY <1>1, <1>4, <1>5, <1>6, AppendProperties
<1>8. ~Ending => out[q.normal[1].request] = "pending"
  BY <1>6 DEF Agree
<1>. QED
  BY <1>3, <1>7, <1>8

(* A step that only takes messages off the wires writes none.                *)
LEMMA NothingWritten ==
  ASSUME TypeOK, NEW s \in Sockets, \A x \in Sockets : wire'[x] \in {<<>>, wire[x]}
  PROVE  ~(Len(wire'[s]) > Len(wire[s]))
<1>1. Len(wire[s]) \in Nat
  BY MessageTypes
<1>2. CASE wire'[s] = wire[s]
  BY <1>1, <1>2
<1>3. CASE wire'[s] = <<>>
  BY <1>1, <1>3
<1>. QED
  BY <1>2, <1>3

(* This layer has one part of a close to itself, and with internalDestroy    *)
(* due nothing connects the layer.                                           *)
ModbusSteps == {"nothing", "disconnect", "destroy"}
DestroyDue ==
  due \in ModbusSteps /\ (due = "destroy" => tcpState \in {Disconnected, Connecting})

LEMMA NextModbusSteps == due \in ModbusSteps /\ [Next]_vars => due' \in ModbusSteps
<1>. SUFFICES ASSUME due \in ModbusSteps, [Next]_vars, due' # due, due' \notin ModbusSteps
              PROVE  FALSE
  OBVIOUS
<1>1. ~(\E r \in Requests : Issue(r))
  BY DEF Issue, TcpSend
<1>2. \A s \in Sockets : ~(Fail(s) \/ Ended(s))
  BY DEF Fail, SocketFailure, SocketFailureAndResend, Ended, EndCallback, ModbusSteps
<1>3. ~(Disconnects \/ DisconnectTcp \/ Tick \/ CloseLayers \/ Destroys)
  BY DEF Disconnects, CloseDisconnects, DisconnectTcp, Disconnect, Tick, SendTick,
         CloseLayers, CloseCalled, Destroys, CloseDestroys, ModbusSteps
<1>4. \A s \in Sockets : ~(Connect(s) \/ SocketClosed(s)
                            \/ \E k \in 1 .. MaxCoalesced : HandleData(s, k))
  BY DEF Connect, ConnectEvent, SocketClosed, CloseEvent, HandleData, DataEvent
<1>. QED
  BY <1>1, <1>2, <1>3, <1>4 DEF Next, vars, tcpVars

LEMMA NextDestroyDue == DestroyDue /\ [Next]_vars => DestroyDue'
<1>. SUFFICES ASSUME DestroyDue, [Next]_vars, due' = "destroy"
              PROVE  tcpState' \in {Disconnected, Connecting}
  BY NextModbusSteps DEF DestroyDue
<1>1. ASSUME NEW r \in Requests, Issue(r) PROVE tcpState' \in {Disconnected, Connecting}
  BY <1>1
  DEF Issue, TcpSend, SendNext, DestroyDue, Disconnected, Disconnecting, Connecting, Connected
<1>2. ASSUME NEW s \in Sockets, Fail(s) PROVE tcpState' \in {Disconnected, Connecting}
  BY <1>2 DEF Fail, SocketFailure, SocketFailureAndResend
<1>3. ASSUME NEW s \in Sockets, Ended(s) PROVE tcpState' \in {Disconnected, Connecting}
  BY <1>3 DEF Ended, EndCallback
<1>4. ASSUME Disconnects PROVE tcpState' \in {Disconnected, Connecting}
  BY <1>4 DEF Disconnects, CloseDisconnects
<1>5. ASSUME DisconnectTcp PROVE tcpState' \in {Disconnected, Connecting}
  BY <1>5
  DEF DisconnectTcp, Disconnect, StartDisconnect, DestroyDue,
      Disconnected, Disconnecting, Connecting, Connected
<1>6. ASSUME NEW s \in Sockets PROVE ~(Connect(s) \/ SocketClosed(s)
                                      \/ \E k \in 1 .. MaxCoalesced : HandleData(s, k))
  BY DEF Connect, ConnectEvent, SocketClosed, CloseEvent, HandleData, DataEvent
<1>7. ~(Tick \/ CloseLayers \/ Destroys)
  BY DEF Tick, SendTick, CloseLayers, CloseCalled, Destroys, CloseDestroys
<1>8. ASSUME UNCHANGED vars PROVE tcpState' \in {Disconnected, Connecting}
  BY <1>8 DEF vars, tcpVars, DestroyDue
<1>. QED
  BY <1>1, <1>2, <1>3, <1>4, <1>5, <1>6, <1>7, <1>8 DEF Next

LEMMA NothingConnects == Spec => []DestroyDue
<1>1. Init => DestroyDue
  BY DEF Init, TcpInit, DestroyDue, ModbusSteps
<1>. QED
  BY <1>1, NextDestroyDue, PTL DEF Spec

LEMMA NextWrites ==
  ASSUME SocketInv, MessageInv, NoReuse, DestroyDue, [Next]_vars,
         NEW s \in Sockets, Len(wire'[s]) > Len(wire[s])
  PROVE  \/ outcome'[wire'[s][Len(wire'[s])].request] = "pending"
         \/ due = "disconnect" \/ (strayed /\ closing)
<1>. DEFINE Fine == \/ outcome'[wire'[s][Len(wire'[s])].request] = "pending"
                    \/ due = "disconnect" \/ (strayed /\ closing)
<1>0. /\ TypeOK /\ TcpTypeOK /\ (~strayed => Sound) /\ tcpQueue \in Queue(Messages)
      /\ tcpQueue.priority = <<>> /\ strayed \in BOOLEAN
      /\ Agree(tcpQueue.normal, OnWire(wire), contextToCallback, outcome, Ending)
  BY MessageTypes, MessageInvParts DEF SocketInv, TypeOK, MessagesAgree
<1>1. tcpState # Disconnecting => (closing => strayed)
  BY <1>0 DEF Sound
<1>14. due \in {"nothing", "disconnect", "destroy"}
  BY DEF DestroyDue, ModbusSteps
<1>2. Disconnecting # Connected /\ Disconnecting # Connecting
  BY DEF Disconnecting, Connected, Connecting
<1>3. ~(\A x \in Sockets : wire'[x] \in {<<>>, wire[x]})
  BY <1>0, NothingWritten
<1>. HIDE DEF Fine
<1>4. ASSUME NEW r \in Requests, Issue(r) PROVE Fine
  <2>. DEFINE q == Enqueue(tcpQueue, [id |-> NextTransaction, request |-> r], FALSE)
  <2>1. /\ q \in Queue(Messages) /\ q.priority = <<>>
        /\ Agree(q.normal, OnWire(wire), contextToCallback', outcome', Ending)
    BY <1>4, IssueMessages
  <2>2. SendNext(tcpState, q, ticks)
    BY <1>4 DEF Issue, TcpSend
  <2>. HIDE DEF q
  <2>3. tcpState = Connected /\ (~Ending => Fine)
    BY <1>0, <2>1, <2>2, WrittenIsPending DEF Fine
  <2>4. tcpState # Disconnecting /\ due # "destroy"
    BY <2>3 DEF DestroyDue, Disconnected, Disconnecting, Connecting, Connected
  <2>. QED
    BY <1>1, <1>14, <2>3, <2>4 DEF Fine, Ending
<1>5. ASSUME NEW x \in Sockets, NEW k \in 1 .. MaxCoalesced, HandleData(x, k) PROVE Fine
  <2>1. k \in 1 .. Len(wire[x]) /\ wire' = [wire EXCEPT ![x] = SubSeq(@, k + 1, Len(@))]
    BY <1>5 DEF HandleData, DataEvent
  <2>2. wire \in [Sockets -> Seq(Messages)]
    BY <1>0, MessageTypes
  <2>3. ~(Len(wire'[s]) > Len(wire[s]))
    <3>1. Len(wire[s]) \in Nat
      BY <2>2
    <3>2. CASE s = x
      <4>1. wire'[s] = SubSeq(wire[s], k + 1, Len(wire[s]))
        BY <2>1, <2>2, <3>2
      <4>2. Len(wire'[s]) = Len(wire[s]) - k
        BY <2>1, <2>2, <3>1, <3>2, <4>1, SubSeqProperties
      <4>. QED
        BY <2>1, <3>1, <4>2
    <3>3. CASE s # x
      BY <2>1, <2>2, <3>1, <3>3
    <3>. QED
      BY <3>2, <3>3
  <2>. QED
    BY <2>3
<1>6. ASSUME NEW x \in Sockets, Connect(x) PROVE Fine
  <2>1. ConnectEvent(x) /\ UNCHANGED outcome
    BY <1>6 DEF Connect, modbusVars
  <2>2. tcpState = Connecting /\ SendNext(Connected, tcpQueue, ticks) /\ due = "nothing"
    BY <1>3, <2>1 DEF ConnectEvent
  <2>. QED
    BY <1>0, <1>1, <1>2, <2>1, <2>2, WrittenIsPending DEF Fine, Ending
<1>7. ASSUME NEW x \in Sockets, Fail(x) PROVE Fine
  BY <1>3, <1>7 DEF Fail, SocketFailure, SocketFailureAndResend, InternalDestroy, OfLive
<1>8. ASSUME NEW x \in Sockets, SocketClosed(x) PROVE Fine
  BY <1>3, <1>8 DEF SocketClosed, CloseEvent
<1>9. ASSUME NEW x \in Sockets, Ended(x) PROVE Fine
  BY <1>3, <1>9 DEF Ended, EndCallback, InternalDestroy, OfLive
<1>10. ASSUME Tick PROVE Fine
  <2>1. SendNext(tcpState, tcpQueue, ticks - 1) /\ UNCHANGED outcome /\ due = "nothing"
    BY <1>10 DEF Tick, SendTick, modbusVars
  <2>. QED
    BY <1>0, <1>1, <1>2, <2>1, WrittenIsPending DEF Fine, Ending
<1>11. ASSUME CloseLayers PROVE Fine
  BY <1>3, <1>11 DEF CloseLayers, CloseCalled
<1>15. ASSUME Disconnects \/ Destroys PROVE Fine
  BY <1>3, <1>15
  DEF Disconnects, Destroys, CloseDisconnects, CloseDestroys, InternalDestroy, OfLive
<1>12. ASSUME DisconnectTcp PROVE Fine
  BY <1>3, <1>12 DEF DisconnectTcp, Disconnect
<1>13. ASSUME UNCHANGED vars PROVE Fine
  BY <1>3, <1>13 DEF vars, tcpVars
<1>. QED
  BY <1>4, <1>5, <1>6, <1>7, <1>8, <1>9, <1>10, <1>11, <1>12, <1>13, <1>15 DEF Next, Fine

-----------------------------------------------------------------------------
(* A step of this layer is one of RequestService.                            *)
ServiceOutcome ==
  [r \in Requests |-> IF outcome[r] = "answered" /\ answer[r] # r THEN "mistaken" ELSE outcome[r]]

LEMMA OutcomeIsServed == SocketInv /\ AnswerIsItsOwn => ServiceOutcome = outcome
BY DEF SocketInv, TypeOK, ServiceOutcome, AnswerIsItsOwn

LEMMA InitServes == Init => Service!Init
BY DEF Init, Service!Init

LEMMA NextServes ==
  ASSUME SocketInv, MessageInv, [Next]_vars
  PROVE  \/ outcome' = outcome
         \/ \E r \in Requests :
              \/ outcome[r] = "idle" /\ outcome' = [outcome EXCEPT ![r] = "pending"]
              \/ outcome[r] = "pending" /\ outcome' = [outcome EXCEPT ![r] = "answered"]
              \/ outcome[r] = "idle" /\ outcome' = [Rejected EXCEPT ![r] = "pending"]
         \/ outcome' = Rejected
<1>1. ASSUME NEW s \in Sockets, NEW k \in 1 .. MaxCoalesced, HandleData(s, k), outcome' # outcome
      PROVE  \E r \in Requests : /\ outcome[r] = "pending"
                                 /\ outcome' = [outcome EXCEPT ![r] = "answered"]
  <2>. DEFINE m == wire[s][k]
  <2>1. /\ contextToCallback[m.id] # NoRequest
        /\ outcome' = [outcome EXCEPT ![contextToCallback[m.id]] = "answered"]
    BY <1>1 DEF HandleData
  <2>2. contextToCallback[m.id] = IF outcome[m.request] = "pending" THEN m.request ELSE NoRequest
    BY <1>1, HandleDataMessages
  <2>3. m.request \in Requests
    <3>1. wire \in [Sockets -> Seq(Messages)] /\ k \in 1 .. Len(wire[s])
      BY <1>1, MessageTypes DEF SocketInv, HandleData, DataEvent
    <3>2. m \in Messages
      BY <3>1
    <3>. QED
      BY <3>2 DEF Messages
  <2>. QED
    BY <2>1, <2>2, <2>3
<1>2. ASSUME NEW r \in Requests, Issue(r)
      PROVE  outcome[r] = "idle" /\ outcome' = [outcome EXCEPT ![r] = "pending"]
  BY <1>2 DEF Issue
<1>3. ASSUME NEW s \in Sockets, Fail(s), outcome' # Rejected
      PROVE  \E r \in Requests : /\ outcome[r] = "idle"
                                 /\ outcome' = [Rejected EXCEPT ![r] = "pending"]
  BY <1>3 DEF Fail, RejectAll, RejectAllAndIssue
<1>4. \A s \in Sockets : Connect(s) \/ SocketClosed(s) \/ Ended(s) => outcome' = outcome
  BY DEF Connect, SocketClosed, Ended, modbusVars
<1>5. Tick \/ Disconnects \/ Destroys \/ DisconnectTcp \/ UNCHANGED vars => outcome' = outcome
  BY DEF Tick, Disconnects, Destroys, DisconnectTcp, vars, modbusVars
<1>6. CloseLayers => outcome' = Rejected
  BY DEF CloseLayers, RejectAll
<1>. QED
  BY <1>1, <1>2, <1>3, <1>4, <1>5, <1>6 DEF Next

LEMMA StepServes ==
  ASSUME SocketInv, MessageInv, [Next]_vars, SocketInv', MessageInv'
  PROVE  [Service!Next]_ServiceOutcome
<1>1. ServiceOutcome = outcome
  BY OutcomeIsServed, MessageInvParts
<1>2. ServiceOutcome' = outcome'
  BY OutcomeIsServed DEF MessageInv, SocketInv, TypeOK, ServiceOutcome, AnswerIsItsOwn
<1>3. outcome \in [Requests -> Outcomes]
  BY MessageTypes DEF SocketInv
<1>4. ASSUME NEW r \in Requests, outcome[r] = "idle", outcome' = [outcome EXCEPT ![r] = "pending"]
      PROVE  Service!Next
  BY <1>1, <1>2, <1>4 DEF Service!Next, Service!Issue, ServiceOutcome
<1>5. ASSUME NEW r \in Requests, outcome[r] = "pending",
             outcome' = [outcome EXCEPT ![r] = "answered"]
      PROVE  Service!Next
  BY <1>1, <1>2, <1>5 DEF Service!Next, Service!Answer, ServiceOutcome
<1>6. ASSUME NEW issued \in SUBSET {r \in Requests : outcome[r] = "idle"},
             outcome' = [r \in Requests |-> CASE r \in Pending -> "rejected"
                                              [] r \in issued -> "pending"
                                              [] OTHER -> outcome[r]]
      PROVE  Service!Next
  <2>1. Pending \in SUBSET {r \in Requests : outcome[r] = "pending"}
    BY DEF Pending
  <2>. QED
    BY <1>1, <1>2, <1>6, <2>1 DEF Service!Next, Service!Reject, ServiceOutcome
<1>7. ASSUME outcome' = Rejected PROVE Service!Next
  <2>1. outcome' = [r \in Requests |-> CASE r \in Pending -> "rejected"
                                         [] r \in {} -> "pending"
                                         [] OTHER -> outcome[r]]
    BY <1>7, RejectedFacts DEF Rejected
  <2>2. {} \in SUBSET {r \in Requests : outcome[r] = "idle"}
    OBVIOUS
  <2>. QED
    BY <1>6, <2>1, <2>2
<1>8. ASSUME NEW x \in Requests, outcome[x] = "idle", outcome' = [Rejected EXCEPT ![x] = "pending"]
      PROVE  Service!Next
  <2>1. outcome' = [r \in Requests |-> CASE r \in Pending -> "rejected"
                                         [] r \in {x} -> "pending"
                                         [] OTHER -> outcome[r]]
    BY <1>8, RejectedFacts DEF Rejected, Pending
  <2>2. {x} \in SUBSET {r \in Requests : outcome[r] = "idle"}
    BY <1>8
  <2>. QED
    BY <1>6, <2>1, <2>2
<1>. QED
  BY <1>1, <1>2, <1>4, <1>5, <1>7, <1>8, NextServes

-----------------------------------------------------------------------------
(* setConnectionState never sees a transition it throws at: every handler    *)
(* checks the state before it changes it (layers/tcp/index.js).              *)
THEOREM TransitionsAreLegal == Spec => LegalTransitions
<1>. DEFINE Legal == \/ <<tcpState, tcpState'>> \notin IllegalTransitions
                     \/ \E s \in Sockets, after \in Phases : SocketFailureAndResend(s, after)
<1>. USE DEF Disconnected, Disconnecting, Connecting, Connected
<1>1. ASSUME NEW q, NEW t, SendNext(tcpState, q, t) PROVE Legal
  BY <1>1 DEF SendNext, IllegalTransitions
<1>2. ASSUME tcpState' = Disconnected PROVE Legal
  BY <1>2 DEF IllegalTransitions
<1>3. ASSUME UNCHANGED tcpState PROVE Legal
  BY <1>3 DEF IllegalTransitions
<1>4. ASSUME StartDisconnect PROVE Legal
  BY <1>4 DEF StartDisconnect, IllegalTransitions
<1>5. ASSUME [Next]_vars PROVE Legal
  <2>1. ASSUME NEW s \in Sockets, ConnectEvent(s) PROVE Legal
    BY <1>3, <2>1 DEF ConnectEvent, SendNext, IllegalTransitions
  <2>2. ASSUME NEW s \in Sockets, CloseEvent(s) PROVE Legal
    BY <2>2 DEF CloseEvent, IllegalTransitions
  <2>3. ASSUME NEW s \in Sockets, EndCallback(s) PROVE Legal
    BY <1>2, <2>3 DEF EndCallback, IllegalTransitions
  <2>4. ASSUME NEW s \in Sockets, Fail(s) PROVE Legal
    BY <1>2, <2>4 DEF Fail, SocketFailure
  <2>5. ASSUME CloseCalled("disconnect") \/ CloseDisconnects \/ CloseDestroys PROVE Legal
    BY <1>2, <1>3, <1>4, <2>5 DEF CloseCalled, CloseDisconnects, CloseDestroys
  <2>6. ASSUME NEW m, TcpSend(m, FALSE) PROVE Legal
    BY <1>1, <2>6 DEF TcpSend
  <2>7. ASSUME SendTick PROVE Legal
    BY <1>1, <2>7 DEF SendTick
  <2>8. ASSUME NEW r \in Requests, Issue(r) PROVE Legal
    BY <2>6, <2>8 DEF Issue
  <2>9. ASSUME NEW s \in Sockets, NEW k \in 1 .. MaxCoalesced, HandleData(s, k) PROVE Legal
    BY <1>3, <2>9 DEF HandleData, DataEvent
  <2>10. ASSUME UNCHANGED vars PROVE Legal
    BY <1>3, <2>10 DEF vars, tcpVars
  <2>. HIDE DEF Legal
  <2>. QED
    BY <1>4, <1>5, <2>1, <2>2, <2>3, <2>4, <2>5, <2>7, <2>8, <2>9, <2>10
    DEF Next, Connect, SocketClosed, Ended, Tick, CloseLayers, Disconnects, Destroys,
        DisconnectTcp, Disconnect
<1>6. [Next]_vars => [Legal]_vars
  BY <1>5
<1>. QED
  BY <1>6, PTL DEF Spec, LegalTransitions

(* The inductive invariant of the messages, as long as no identifier is used *)
(* again while something is under way with it.                               *)
THEOREM MessagesAreSound == Spec /\ []NoReuse => [](SocketInv /\ MessageInv)
<1>1. Init => SocketInv /\ MessageInv
  BY InitSockets, InitMessages
<1>2. SocketInv /\ MessageInv /\ NoReuse /\ [Next]_vars => SocketInv' /\ MessageInv'
  BY NextSockets, NextMessages
<1>. QED
  BY <1>1, <1>2, PTL DEF Spec

(* A request that is not settled has its callback on file (__contextToCallback). *)
THEOREM PendingStaysFiled == Spec /\ []NoReuse => []PendingIsFiled
<1>1. MessageInv => PendingIsFiled
  BY DEF MessageInv
<1>. QED
  BY <1>1, MessagesAreSound, PTL

(* A request that is not settled is on its way: in the queue of a layer that *)
(* connects, or written on the open connection and not answered yet.         *)
THEOREM PendingStaysUnderWay == Spec /\ []NoReuse => []PendingIsUnderWay
<1>1. Init => WayInv
  BY DEF Init, WayInv, PendingIsUnderWay, Awaited, Pending
<1>2. SocketInv /\ MessageInv /\ WayInv /\ [Next]_vars => WayInv'
  BY NextWay
<1>3. WayInv => PendingIsUnderWay
  BY DEF WayInv
<1>. QED
  BY <1>1, <1>2, <1>3, MessagesAreSound, PTL DEF Spec

(* Nothing is sent for a request the program was told has failed.            *)
THEOREM RejectedIsNeverSent == Spec /\ []NoReuse => NothingSentAfterRejection
<1>1. SocketInv /\ MessageInv /\ NoReuse /\ DestroyDue /\ [Next]_vars
      => [\A s \in Sockets :
            Len(wire'[s]) > Len(wire[s])
              => \/ outcome'[wire'[s][Len(wire'[s])].request] = "pending"
                 \/ due = "disconnect"
                 \/ strayed /\ closing]_vars
  BY NextWrites
<1>. QED
  BY <1>1, MessagesAreSound, NothingConnects, PTL DEF Spec, NothingSentAfterRejection

(* The layer implements RequestService: a request is settled once, with the  *)
(* device's reply to itself or with an error.                                *)
THEOREM EveryAnswerIsItsOwn == Spec /\ []NoReuse => ImplementsService
<1>1. Init => Service!Init
  BY InitServes
<1>2. SocketInv /\ MessageInv /\ [Next]_vars /\ SocketInv' /\ MessageInv'
      => [Service!Next]_ServiceOutcome
  BY StepServes
<1>. QED
  BY <1>1, <1>2, MessagesAreSound, PTL DEF Spec, ImplementsService, Service!Spec, ServiceOutcome

-----------------------------------------------------------------------------
(* Few requests need no identifier twice: each takes the one after the one   *)
(* before, so n requests have used the n identifiers that follow the first.  *)
Issued == {r \in Requests : outcome[r] # "idle"}

UsedIDs == {id \in Transactions : contextToCallback[id] # NoRequest} \cup {m.id : m \in UnderWay}

(* The n identifiers that follow f, and the last of them.                    *)
After(f, n) == {id \in Transactions : \/ f < id /\ id <= f + n
                                      \/ f < id + TransactionIDs /\ id + TransactionIDs <= f + n}
Last(f, n) == IF f + n < TransactionIDs THEN f + n ELSE f + n - TransactionIDs

IdentifierInv ==
  \E f \in Transactions : /\ transactionCounter = Last(f, Cardinality(Issued))
                          /\ UsedIDs \subseteq After(f, Cardinality(Issued))

LEMMA Wrap ==
  ASSUME NEW t \in Nat \ {0}, NEW c \in 0 .. t - 1
  PROVE  (c + 1) % t = IF c + 1 = t THEN 0 ELSE c + 1
<1>1. CASE c + 1 = t
  BY <1>1
<1>2. CASE c + 1 < t
  BY <1>2
<1>. QED
  BY <1>1, <1>2

(* The next identifier is a new one until all have been used.                *)
LEMMA NextIsNew ==
  ASSUME NEW f \in Transactions, NEW n \in Nat, n < TransactionIDs,
         transactionCounter = Last(f, n)
  PROVE  /\ NextTransaction = Last(f, n + 1) /\ NextTransaction \notin After(f, n)
         /\ After(f, n) \cup {NextTransaction} \subseteq After(f, n + 1)
<1>. DEFINE t == TransactionIDs
            c == transactionCounter
            x == NextTransaction
<1>1. t \in Nat \ {0} /\ f \in 0 .. t - 1 /\ f \in Nat
  BY ModbusAssumption DEF Transactions
<1>2. c \in 0 .. t - 1
  BY <1>1 DEF Last
<1>3. x = IF c + 1 = t THEN 0 ELSE c + 1
  BY <1>1, <1>2, Wrap DEF NextTransaction
<1>4. c = IF f + n < t THEN f + n ELSE f + n - t
  BY DEF Last
<1>. HIDE DEF t, c, x
<1>5. x = IF f + (n + 1) < t THEN f + (n + 1) ELSE f + (n + 1) - t
  BY <1>1, <1>3, <1>4 DEF t
<1>6. x \in 0 .. t - 1
  BY <1>1, <1>2, <1>3
<1>7. /\ ~(f < x /\ x <= f + n) /\ ~(f < x + t /\ x + t <= f + n)
      /\ (f < x /\ x <= f + (n + 1)) \/ (f < x + t /\ x + t <= f + (n + 1))
  BY <1>1, <1>5, <1>6 DEF t
<1>8. \A id \in 0 .. t - 1 :
        (f < id /\ id <= f + n) \/ (f < id + t /\ id + t <= f + n)
          => (f < id /\ id <= f + (n + 1)) \/ (f < id + t /\ id + t <= f + (n + 1))
  BY <1>1
<1>. QED
  BY <1>5, <1>6, <1>7, <1>8 DEF Last, After, Transactions, t, x

(* sendNextMessage puts nothing on its way that was not in the queue.        *)
LEMMA SendNextUnderWay ==
  ASSUME TcpTypeOK, NEW state, NEW q \in Queue(Messages), NEW t, SendNext(state, q, t),
         q.priority = <<>>
  PROVE  UnderWay' \subseteq {q.normal[i] : i \in DOMAIN q.normal} \cup OnWire(wire)
<1>1. wire \in [Sockets -> Seq(Messages)] /\ q.normal \in Seq(Messages)
  BY MessagesAssumption DEF TcpTypeOK, Queue
<1>2. CASE tcpQueue' = q /\ wire' = wire
  <2>1. Queued(tcpQueue') = {q.normal[i] : i \in DOMAIN q.normal}
    BY <1>2 DEF Queued
  <2>. QED
    BY <1>2, <2>1 DEF UnderWay
<1>3. CASE /\ HasRequest(q) /\ wire' = [wire EXCEPT ![opened] = Append(@, Peek(q))]
           /\ tcpQueue' = Dequeue(q)
  <2>. DEFINE n == q.normal
              d == Tail(n)
  <2>1. n # <<>> /\ Peek(q) = Head(n)
    BY <1>3 DEF HasRequest, Peek
  <2>2. /\ Head(n) = n[1] /\ 1 \in DOMAIN n /\ Head(n) \in Messages
        /\ DOMAIN d = 1 .. Len(n) - 1 /\ DOMAIN n = 1 .. Len(n) /\ Len(n) \in Nat
        /\ \A i \in 1 .. Len(n) - 1 : d[i] = n[i + 1]
    BY <1>1, <2>1, HeadTailProperties
  <2>3. tcpQueue'.priority = <<>> /\ tcpQueue'.normal = d
    BY <1>3, <2>1 DEF Dequeue, Queue
  <2>4. Queued(tcpQueue') = {d[i] : i \in DOMAIN d}
    BY <2>3 DEF Queued
  <2>5. OnWire(wire') \subseteq OnWire(wire) \cup {Head(n)}
    <3>1. wire' = [wire EXCEPT ![opened] = Append(@, Head(n))]
      BY <1>3, <2>1
    <3>2. \A s : \A m \in Messages :
            OnWire([wire EXCEPT ![s] = Append(@, m)]) \subseteq OnWire(wire) \cup {m}
      BY <1>1, OnWireFacts
    <3>. QED
      BY <2>2, <3>1, <3>2
  <2>. HIDE DEF n, d
  <2>6. \A i \in DOMAIN d : i + 1 \in DOMAIN n /\ d[i] = n[i + 1]
    BY <2>2
  <2>. QED
    BY <2>2, <2>4, <2>5, <2>6 DEF UnderWay, n
<1>. QED
  BY <1>2, <1>3 DEF SendNext

(* What a step does to the identifiers in use: nothing new is in use, or a   *)
(* request is issued with the next one.                                      *)
NothingNew ==
  /\ transactionCounter' = transactionCounter
  /\ Issued' = Issued
  /\ UsedIDs' \subseteq UsedIDs

IssuesNext ==
  /\ transactionCounter' = NextTransaction
  /\ \E r \in Requests \ Issued : Issued' = Issued \cup {r}
  /\ UsedIDs' \subseteq UsedIDs \cup {NextTransaction}

LEMMA NewIsNext ==
  ASSUME TypeOK, NEW r \in Requests, outcome[r] = "idle",
         \A x \in Requests : x # r => (outcome'[x] = "idle" <=> outcome[x] = "idle"),
         outcome'[r] = "pending",
         transactionCounter' = NextTransaction,
         NEW table \in Tables, contextToCallback' = [table EXCEPT ![NextTransaction] = r],
         \A id \in Transactions : table[id] # NoRequest => contextToCallback[id] # NoRequest,
         UnderWay' \subseteq UnderWay \cup {[id |-> NextTransaction, request |-> r]}
  PROVE  IssuesNext
<1>1. Issued' = Issued \cup {r} /\ r \in Requests \ Issued
  BY DEF Issued
<1>2. \A id \in Transactions :
        contextToCallback'[id] # NoRequest
          => contextToCallback[id] # NoRequest \/ id = NextTransaction
  BY DEF Tables
<1>3. \A m \in UnderWay' : m \in UnderWay \/ m.id = NextTransaction
  OBVIOUS
<1>4. UsedIDs' \subseteq UsedIDs \cup {NextTransaction}
  BY <1>2, <1>3 DEF UsedIDs
<1>. QED
  BY <1>1, <1>4 DEF IssuesNext

LEMMA NextIdentifiers ==
  ASSUME SocketInv, MessageInv, [Next]_vars
  PROVE  NothingNew \/ IssuesNext
<1>0. /\ TypeOK /\ TcpTypeOK /\ tcpQueue \in Queue(Messages) /\ tcpQueue.priority = <<>>
      /\ tcpQueue.normal \in Seq(Messages) /\ wire \in [Sockets -> Seq(Messages)]
      /\ contextToCallback \in Tables /\ outcome \in [Requests -> Outcomes]
      /\ UnderWay = {tcpQueue.normal[i] : i \in DOMAIN tcpQueue.normal} \cup OnWire(wire)
  BY MessageTypes, MessageInvParts DEF SocketInv, TypeOK, MessagesAgree, UnderWay, Queued
<1>1. ASSUME UNCHANGED <<transactionCounter, contextToCallback, outcome>>,
             UnderWay' \subseteq UnderWay
      PROVE  NothingNew
  BY <1>1 DEF NothingNew, Issued, UsedIDs
<1>2. ASSUME NEW p, InternalDestroy(p) PROVE UnderWay' \subseteq UnderWay
  <2>1. tcpQueue' = EmptyQueue /\ OnWire(wire') \subseteq OnWire(wire)
    BY <1>0, <1>2, DestroyMessages DEF InternalDestroy
  <2>2. Queued(EmptyQueue) = {}
    BY DEF Queued, EmptyQueue
  <2>. QED
    BY <2>1, <2>2 DEF UnderWay
<1>3. ASSUME RejectAll, UnderWay' \subseteq UnderWay PROVE NothingNew
  <2>1. Issued' = Issued /\ UNCHANGED transactionCounter
    BY <1>3, RejectedFacts DEF RejectAll, Issued
  <2>2. \A id \in Transactions : contextToCallback'[id] = NoRequest
    BY <1>3 DEF RejectAll, NoContexts
  <2>. QED
    BY <1>3, <2>1, <2>2 DEF NothingNew, UsedIDs
<1>4. ASSUME NEW r \in Requests, Issue(r) PROVE IssuesNext
  <2>. DEFINE m == [id |-> NextTransaction, request |-> r]
              q == Enqueue(tcpQueue, m, FALSE)
              n == tcpQueue.normal
  <2>1. m \in Messages
    BY NextTransactionType DEF SocketInv, Messages
  <2>. HIDE DEF m
  <2>2. q \in Queue(Messages) /\ q.priority = <<>> /\ q.normal = Append(n, m)
    BY <1>0, <2>1, QueueFacts DEF Enqueue, Queue
  <2>3. SendNext(tcpState, q, ticks)
    BY <1>4 DEF Issue, TcpSend, m
  <2>. HIDE DEF q
  <2>4. UnderWay' \subseteq {q.normal[i] : i \in DOMAIN q.normal} \cup OnWire(wire)
    BY <1>0, <2>2, <2>3, SendNextUnderWay
  <2>5. \A i \in DOMAIN q.normal : q.normal[i] = m \/ (i \in DOMAIN n /\ q.normal[i] = n[i])
    <3>1. n \in Seq(Messages)
      BY <1>0
    <3>. HIDE DEF n
    <3>. QED
      BY <2>1, <2>2, <3>1, AppendProperties
  <2>6. UnderWay' \subseteq UnderWay \cup {m}
    BY <1>0, <2>4, <2>5
  <2>. QED
    BY <1>0, <1>4, <2>6, NewIsNext DEF Issue, File, m
<1>5. ASSUME NEW s \in Sockets, NEW k \in 1 .. MaxCoalesced, HandleData(s, k) PROVE NothingNew
  <2>1. /\ UNCHANGED <<tcpQueue, transactionCounter>> /\ k \in Nat /\ k \in 1 .. Len(wire[s])
        /\ wire' = [wire EXCEPT ![s] = SubSeq(@, k + 1, Len(@))]
        /\ contextToCallback' = [contextToCallback EXCEPT ![wire[s][k].id] = NoRequest]
    BY <1>5 DEF HandleData, DataEvent
  <2>2. UnderWay' \subseteq UnderWay
    <3>1. OnWire(wire') \subseteq OnWire(wire)
      BY <1>0, <2>1, OnWireFacts
    <3>. QED
      BY <2>1, <3>1 DEF UnderWay
  <2>3. \A id \in Transactions :
          contextToCallback'[id] # NoRequest => contextToCallback[id] # NoRequest
    BY <1>0, <2>1 DEF Tables
  <2>4. Issued' = Issued
    <3>1. \/ outcome' = outcome
          \/ \E r \in Requests : /\ outcome[r] = "pending"
                                 /\ outcome' = [outcome EXCEPT ![r] = "answered"]
      <4>1. contextToCallback[wire[s][k].id]
              = IF outcome[wire[s][k].request] = "pending" THEN wire[s][k].request ELSE NoRequest
        BY <1>5, HandleDataMessages
      <4>2. wire[s][k] \in Messages
        BY <1>0, <2>1
      <4>3. wire[s][k].request \in Requests
        BY <4>2 DEF Messages
      <4>. QED
        BY <1>5, <4>1, <4>3 DEF HandleData
    <3>. QED
      BY <1>0, <3>1 DEF Issued
  <2>. QED
    BY <2>1, <2>2, <2>3, <2>4 DEF NothingNew, UsedIDs
<1>6. ASSUME NEW t, SendNext(tcpState, tcpQueue, t) \/ SendNext(Connected, tcpQueue, t)
      PROVE  UnderWay' \subseteq UnderWay
  BY <1>0, <1>6, SendNextUnderWay
<1>7. ASSUME UNCHANGED <<tcpQueue, wire>> PROVE UnderWay' \subseteq UnderWay
  BY <1>7 DEF UnderWay
<1>8. ASSUME NEW s \in Sockets, Connect(s) PROVE NothingNew
  BY <1>1, <1>6, <1>7, <1>8 DEF Connect, ConnectEvent, modbusVars
<1>9. ASSUME NEW s \in Sockets, Fail(s) PROVE NothingNew \/ IssuesNext
  <2>1. ASSUME NEW after \in Phases, SocketFailure(s, after), RejectAll PROVE NothingNew
    BY <1>2, <1>3, <2>1 DEF SocketFailure
  <2>2. ASSUME NEW after \in Phases, NEW r \in Requests, RejectAllAndIssue(r),
               SocketFailureAndResend(s, after)
        PROVE  IssuesNext
    <3>1. tcpQueue' = EmptyQueue /\ \A x \in Sockets : wire'[x] \in {<<>>, wire[x]}
      BY <2>2 DEF SocketFailureAndResend, OfLive
    <3>2. Queued(EmptyQueue) = {}
      BY DEF Queued, EmptyQueue
    <3>3. UnderWay' \subseteq UnderWay
      BY <1>0, <3>1, <3>2, OnWireFacts DEF UnderWay
    <3>4. /\ transactionCounter' = NextTransaction
          /\ contextToCallback' = [NoContexts EXCEPT ![NextTransaction] = r]
          /\ outcome' = [Rejected EXCEPT ![r] = "pending"] /\ outcome[r] = "idle"
      BY <2>2 DEF RejectAllAndIssue, File
    <3>5. /\ NoContexts \in Tables /\ \A id \in Transactions : NoContexts[id] = NoRequest
          /\ Rejected \in [Requests -> Outcomes]
      BY <1>0, OutcomeTypes DEF NoContexts, Outcomes
    <3>6. /\ outcome'[r] = "pending"
          /\ \A x \in Requests : x # r => (outcome'[x] = "idle" <=> outcome[x] = "idle")
      BY <3>4, <3>5, RejectedFacts
    <3>. QED
      BY <1>0, <3>3, <3>4, <3>5, <3>6, NewIsNext
  <2>. QED
    BY <1>9, <2>1, <2>2 DEF Fail
<1>10. ASSUME NEW s \in Sockets, SocketClosed(s) PROVE NothingNew
  BY <1>1, <1>7, <1>10 DEF SocketClosed, CloseEvent, modbusVars
<1>11. ASSUME NEW s \in Sockets, Ended(s) PROVE NothingNew
  BY <1>1, <1>2, <1>7, <1>11 DEF Ended, EndCallback, modbusVars
<1>12. ASSUME Tick PROVE NothingNew
  BY <1>1, <1>6, <1>12 DEF Tick, SendTick, modbusVars
<1>13. ASSUME CloseLayers PROVE NothingNew
  BY <1>3, <1>7, <1>13 DEF CloseLayers, CloseCalled
<1>16. ASSUME Disconnects \/ Destroys PROVE NothingNew
  BY <1>1, <1>2, <1>7, <1>16
  DEF Disconnects, Destroys, CloseDisconnects, CloseDestroys, modbusVars
<1>14. ASSUME DisconnectTcp PROVE NothingNew
  BY <1>1, <1>7, <1>14 DEF DisconnectTcp, Disconnect
<1>15. ASSUME UNCHANGED vars PROVE NothingNew
  BY <1>1, <1>7, <1>15 DEF vars, tcpVars, modbusVars
<1>. QED
  BY <1>4, <1>5, <1>8, <1>9, <1>10, <1>11, <1>12, <1>13, <1>14, <1>15, <1>16 DEF Next

LEMMA FewIssued ==
  ASSUME FewRequests
  PROVE  /\ IsFiniteSet(Issued) /\ Cardinality(Issued) \in Nat
         /\ \A r \in Requests \ Issued :
              /\ Cardinality(Issued) < TransactionIDs
              /\ Cardinality(Issued \cup {r}) = Cardinality(Issued) + 1
<1>1. IsFiniteSet(Requests) /\ Cardinality(Requests) <= TransactionIDs
      /\ Issued \in SUBSET Requests /\ TransactionIDs \in Nat
  BY ModbusAssumption DEF FewRequests, Issued
<1>2. IsFiniteSet(Issued) /\ Cardinality(Issued) <= Cardinality(Requests)
      /\ (Cardinality(Requests) = Cardinality(Issued) => Requests = Issued)
  BY <1>1, FS_Subset
<1>3. Cardinality(Issued) \in Nat /\ Cardinality(Requests) \in Nat
  BY <1>1, <1>2, FS_CardinalityType
<1>4. ASSUME NEW r \in Requests \ Issued
      PROVE  /\ Cardinality(Issued) < TransactionIDs
             /\ Cardinality(Issued \cup {r}) = Cardinality(Issued) + 1
  <2>1. Cardinality(Requests) # Cardinality(Issued)
    BY <1>2
  <2>2. Cardinality(Issued \cup {r}) = Cardinality(Issued) + 1
    BY <1>2, FS_AddElement
  <2>. QED
    BY <1>1, <1>2, <1>3, <2>1, <2>2
<1>. QED
  BY <1>2, <1>3, <1>4

LEMMA InitIdentifiers == Init => IdentifierInv
<1>. SUFFICES ASSUME Init PROVE IdentifierInv
  OBVIOUS
<1>1. Issued = {} /\ Cardinality(Issued) = 0
  BY FS_EmptySet DEF Init, Issued
<1>2. UnderWay = {}
  BY DEF Init, TcpInit, EmptyQueue, UnderWay, Queued, OnWire
<1>3. UsedIDs = {}
  BY <1>2 DEF Init, UsedIDs
<1>4. transactionCounter \in Transactions /\ transactionCounter = Last(transactionCounter, 0)
  BY ModbusAssumption DEF Init, Transactions, Last
<1>. QED
  BY <1>1, <1>3, <1>4 DEF IdentifierInv

LEMMA IdentifiersAreNew ==
  ASSUME FewRequests, SocketInv, IdentifierInv
  PROVE  NoReuse
<1>. SUFFICES ASSUME NEW r \in Requests, outcome[r] = "idle"
              PROVE  /\ contextToCallback[NextTransaction] = NoRequest
                     /\ \A m \in UnderWay : m.id # NextTransaction
  BY DEF NoReuse
<1>. DEFINE n == Cardinality(Issued)
<1>1. PICK f \in Transactions : transactionCounter = Last(f, n) /\ UsedIDs \subseteq After(f, n)
  BY DEF IdentifierInv
<1>2. n \in Nat /\ n < TransactionIDs
  BY FewIssued DEF Issued
<1>. HIDE DEF n
<1>3. NextTransaction \notin UsedIDs
  BY <1>1, <1>2, NextIsNew
<1>4. NextTransaction \in Transactions
  BY NextTransactionType DEF SocketInv
<1>. QED
  BY <1>3, <1>4 DEF UsedIDs

LEMMA IdentifiersStayFew ==
  ASSUME FewRequests, IdentifierInv, NothingNew \/ IssuesNext
  PROVE  IdentifierInv'
<1>. DEFINE n == Cardinality(Issued)
<1>1. PICK f \in Transactions : transactionCounter = Last(f, n) /\ UsedIDs \subseteq After(f, n)
  BY DEF IdentifierInv
<1>2. CASE NothingNew
  BY <1>1, <1>2 DEF NothingNew, IdentifierInv
<1>3. CASE IssuesNext
  <2>1. n \in Nat /\ n < TransactionIDs /\ Cardinality(Issued') = n + 1
    BY <1>3, FewIssued DEF IssuesNext
  <2>. HIDE DEF n
  <2>2. /\ transactionCounter' = Last(f, n + 1)
        /\ UsedIDs' \subseteq After(f, n + 1)
    BY <1>1, <1>3, <2>1, NextIsNew DEF IssuesNext
  <2>. QED
    BY <2>1, <2>2 DEF IdentifierInv
<1>. QED
  BY <1>2, <1>3

(* With no more requests than identifiers none is used twice, wherever the   *)
(* counter starts and however often it wraps.                                *)
THEOREM IdentifiersSuffice ==
  ASSUME FewRequests
  PROVE  Spec => []NoReuse
<1>1. Init => SocketInv /\ MessageInv /\ IdentifierInv
  BY InitSockets, InitMessages, InitIdentifiers
<1>2. SocketInv /\ IdentifierInv => NoReuse
  BY IdentifiersAreNew
<1>3. SocketInv /\ MessageInv /\ IdentifierInv /\ [Next]_vars
      => SocketInv' /\ MessageInv' /\ IdentifierInv'
  BY <1>2, NextSockets, NextMessages, NextIdentifiers, IdentifiersStayFew
<1>. QED
  BY <1>1, <1>2, <1>3, PTL DEF Spec

(* So a program of no more requests than there are identifiers is served:    *)
(* what it waits for is on file, and settled once, by its own reply.         *)
THEOREM FewRequestsAreServed ==
  ASSUME FewRequests
  PROVE  Spec => []PendingIsFiled /\ ImplementsService
BY IdentifiersSuffice, PendingStaysFiled, EveryAnswerIsItsOwn, PTL
=============================================================================
