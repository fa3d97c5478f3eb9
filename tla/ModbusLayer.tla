----------------------------- MODULE ModbusLayer -----------------------------
(***************************************************************************)
(* The Modbus layer (layers/modbus/index.js) on a TCPLayer: the requests a  *)
(* program issues, the table of contexts in Layer that finds the callback   *)
(* of a reply, the connections that carry them, and the device.             *)
(*                                                                          *)
(* A PDU is the request it belongs to: a message is the transaction         *)
(* identifier with that request, and the device answers the messages of a   *)
(* connection in order, each with the identifier and the PDU it got.  The   *)
(* chunks of the stream end between frames here; Framing models the rest.   *)
(***************************************************************************)
EXTENDS TcpLayer, FiniteSets

CONSTANTS
  Requests,          \* bound: requests the program issues, each once
  TransactionIDs,    \* 0 .. TransactionIDs - 1; 0x10000 in the code
  FirstTransaction,  \* identifiers used before the behaviour begins
  MaxCoalesced,      \* bound: replies that arrive in one chunk
  MayClose,          \* TRUE: the program may call tcpLayer.close()
  MayDisconnect,     \* TRUE: the program may call tcpLayer.disconnect()
  ResendOnError      \* TRUE: an error callback may issue a request itself

ASSUME ModbusAssumption ==
  /\ Requests \subseteq Nat \ {0}
  /\ TransactionIDs \in Nat \ {0}
  /\ FirstTransaction \subseteq 0 .. TransactionIDs - 1
  /\ MaxCoalesced \in Nat \ {0}
  /\ MayClose \in BOOLEAN /\ MayDisconnect \in BOOLEAN /\ ResendOnError \in BOOLEAN

VARIABLES
  transactionCounter,  \* Modbus._transactionCounter
  contextToCallback,   \* Layer.__contextToCallback: requests by identifier
  outcome,             \* how the promise of each request stands
  answer,              \* the request whose reply settled a request
  stranded,            \* history: requests issued where nothing settles them
  discarded,           \* history: requests whose reply the defragger dropped
  strayed              \* history: a live socket was left with listeners on it

modbusVars == <<transactionCounter, contextToCallback, outcome, answer, stranded,
                discarded, strayed>>

vars == <<tcpVars, modbusVars>>

NoRequest == 0

Transactions == 0 .. TransactionIDs - 1
Messages == [id : Transactions, request : Requests]

ASSUME MessagesAssumption == TcpMessages = Messages

Init ==
  /\ TcpInit
  /\ transactionCounter \in FirstTransaction
  /\ contextToCallback = [id \in Transactions |-> NoRequest]
  /\ outcome = [r \in Requests |-> "idle"]
  /\ answer = [r \in Requests |-> NoRequest]
  /\ stranded = {} /\ discarded = {} /\ strayed = FALSE

-----------------------------------------------------------------------------
(* Faulty forms of NextTransaction: it never wraps, or never moves on.       *)
TransactionUnwrapped == transactionCounter + 1
TransactionStuck == transactionCounter

NextTransaction == (transactionCounter + 1) % TransactionIDs

Pending == {r \in Requests : outcome[r] = "pending"}

(* _send, up to the call of Layer.send: the callback is filed under the next *)
(* transaction identifier, over the one that may still be there.             *)
File(r, table) ==
  /\ transactionCounter' = NextTransaction
  /\ contextToCallback' = [table EXCEPT ![NextTransaction] = r]

(* readRequest and writeRequest: file the callback and send the message.     *)
(* "stranded" remembers a request issued where a close or a disconnect will  *)
(* drop it; one issued when internalDestroy is due has it destroy a socket   *)
(* opened for it, and leaves the state connecting.                           *)
Issue(r) ==
  /\ outcome[r] = "idle"
  /\ File(r, contextToCallback)
  /\ TcpSend([id |-> NextTransaction, request |-> r], FALSE)
  /\ outcome' = [outcome EXCEPT ![r] = "pending"]
  /\ stranded' = stranded \cup (IF tcpState = Disconnecting \/ due # "nothing" THEN {r} ELSE {})
  /\ strayed' = (strayed \/ due = "destroy")
  /\ UNCHANGED <<answer, discarded>>

(* Faulty form of HandleData: the identifier is read from the first frame of *)
(* the chunk, the reply from the last.                                       *)
HandleDataOfFirst(s, k) ==
  LET r == contextToCallback[wire[s][1].id]
  IN  /\ DataEvent(s, k)
      /\ contextToCallback' = [contextToCallback EXCEPT ![wire[s][1].id] = NoRequest]
      /\ IF r = NoRequest
           THEN UNCHANGED <<outcome, answer>>
           ELSE /\ outcome' = [outcome EXCEPT ![r] = "answered"]
                /\ answer' = [answer EXCEPT ![r] = wire[s][k].request]
      /\ discarded' = discarded \cup {wire[s][i].request : i \in 1 .. k - 1}
      /\ UNCHANGED <<transactionCounter, stranded, strayed>>

(* handleData with the last frame of a chunk of k: the frames before it are  *)
(* gone.  The callback filed under its identifier is taken out and settled,  *)
(* by an exception response as by any other; without one it is ignored.      *)
HandleData(s, k) ==
  LET reply == wire[s][k]
      r == contextToCallback[reply.id]
  IN  /\ DataEvent(s, k)
      /\ contextToCallback' = [contextToCallback EXCEPT ![reply.id] = NoRequest]
      /\ IF r = NoRequest
           THEN UNCHANGED <<outcome, answer>>
           ELSE /\ outcome' = [outcome EXCEPT ![r] = "answered"]
                /\ answer' = [answer EXCEPT ![r] = reply.request]
      /\ discarded' = discarded \cup {wire[s][i].request : i \in 1 .. k - 1}
      /\ UNCHANGED <<transactionCounter, stranded, strayed>>

Filed == {r \in Requests : \E id \in Transactions : contextToCallback[id] = r}

NoContexts == [id \in Transactions |-> NoRequest]

Rejected == [r \in Requests |-> IF r \in Filed THEN "rejected" ELSE outcome[r]]

(* internalDestroy of this layer: every callback on file is taken out and    *)
(* called with the error.                                                    *)
RejectAll ==
  /\ contextToCallback' = NoContexts
  /\ outcome' = Rejected
  /\ UNCHANGED <<transactionCounter, answer, stranded, discarded, strayed>>

(* The same with an error callback that issues r before it returns.          *)
RejectAllAndIssue(r) ==
  /\ Filed # {} /\ outcome[r] = "idle"
  /\ File(r, NoContexts)
  /\ outcome' = [Rejected EXCEPT ![r] = "pending"]
  /\ stranded' = stranded \cup {r}
  /\ strayed' = TRUE
  /\ UNCHANGED <<answer, discarded>>

-----------------------------------------------------------------------------
(* destroy of the TCP layer destroys this layer first.                       *)
Fail(s) ==
  \E after \in Phases :
    \/ SocketFailure(s, after) /\ RejectAll /\ (due' = "destroy" => Filed # {})
    \/ /\ ResendOnError
       /\ \E r \in Requests : RejectAllAndIssue(r)
       /\ SocketFailureAndResend(s, after)

(* The events of TCPLayer that this layer has no part in.                    *)
Tick == SendTick /\ UNCHANGED modbusVars
Connect(s) == ConnectEvent(s) /\ UNCHANGED modbusVars
SocketClosed(s) == CloseEvent(s) /\ UNCHANGED modbusVars
Ended(s) ==
  /\ EndCallback(s)
  /\ due' = "destroy" => MayDisconnect /\ strayed
  /\ UNCHANGED modbusVars

(* tcpLayer.close(): this layer closes first, which rejects what is on file. *)
(* Continuations of those promises, and error callbacks, may issue requests  *)
(* before Disconnects, and the former before Destroys too.                   *)
CloseLayers ==
  /\ MayClose
  /\ CloseCalled("disconnect") /\ RejectAll

Disconnects == CloseDisconnects /\ UNCHANGED modbusVars
Destroys == CloseDestroys /\ UNCHANGED modbusVars

(* tcpLayer.disconnect() does not reach this layer.                          *)
DisconnectTcp ==
  /\ MayDisconnect
  /\ Disconnect
  /\ strayed' = TRUE
  /\ UNCHANGED <<transactionCounter, contextToCallback, outcome, answer, stranded,
                 discarded>>

Next ==
  \/ \E r \in Requests : Issue(r)
  \/ \E s \in Sockets :
       \/ Connect(s)
       \/ \E k \in 1 .. MaxCoalesced : HandleData(s, k)
       \/ Fail(s)
       \/ SocketClosed(s)
       \/ Ended(s)
  \/ Tick
  \/ CloseLayers \/ Disconnects \/ Destroys
  \/ DisconnectTcp

Spec == Init /\ [][Next]_vars

(* The event loop runs what is due, a connection attempt ends one way or     *)
(* the other (connectTimeout), and the device answers or its connection      *)
(* fails.  Nothing makes the program call, close or disconnect.              *)
Fairness ==
  /\ WF_vars(Tick) /\ WF_vars(Disconnects) /\ WF_vars(Destroys)
  /\ \A s \in Sockets :
       /\ WF_vars(Connect(s) \/ (phase[s] = "connecting" /\ Fail(s)))
       /\ WF_vars(\E k \in 1 .. MaxCoalesced : HandleData(s, k))
       /\ WF_vars(SocketClosed(s))
       /\ WF_vars(Ended(s))

FairSpec == Spec /\ Fairness
-----------------------------------------------------------------------------
TypeOK ==
  /\ TcpTypeOK
  /\ transactionCounter \in Transactions
  /\ contextToCallback \in [Transactions -> Requests \cup {NoRequest}]
  /\ outcome \in [Requests -> {"idle", "pending", "answered", "rejected"}]
  /\ answer \in [Requests -> Requests \cup {NoRequest}]
  /\ stranded \subseteq Requests /\ discarded \subseteq Requests
  /\ strayed \in BOOLEAN

(* The connection state tells the truth about the sockets: connected, the    *)
(* last socket is open and heard; connecting, it is under way and heard, so  *)
(* that some event ends the attempt; and no other socket is left alive, in   *)
(* any order of failures, closes and late callbacks.  The exceptions leave   *)
(* a socket behind: tcpLayer.disconnect(), after which only close() would    *)
(* destroy it, a request issued by an error callback, and one issued between *)
(* the disconnect of a close and its internalDestroy, where the socket of    *)
(* the connection is still to be destroyed.                                  *)
StateMatchesSocket ==
  ~strayed /\ due # "destroy" =>
    /\ tcpState = Connected => phase[opened] = "open" /\ opened \in listening
    /\ tcpState = Connecting => phase[opened] = "connecting" /\ opened \in listening
    /\ \A s \in Sockets :
         phase[s] \in {"connecting", "open"} => s = opened /\ tcpState # Disconnected

(* A request that is not settled can be: its callback is on file, so that a  *)
(* reply or an error will find it, however often the transaction identifier  *)
(* has wrapped and the connection has failed.                                *)
PendingIsFiled == Pending \subseteq Filed

OnTheWay == {m.request : m \in Queued(tcpQueue)}
            \cup (IF opened = 0 THEN {}
                    ELSE {wire[opened][i].request : i \in DOMAIN wire[opened]})

(* A request that is not settled is still on its way: its message waits for  *)
(* a connection that is under way, or was written on the open one and not    *)
(* yet answered.  The exceptions are those issued while the layer closes or  *)
(* is disconnecting or by an error callback, and those whose reply shared a  *)
(* chunk with a later one.                                                   *)
PendingIsUnderWay ==
  ~strayed => \A r \in Pending \ (stranded \cup discarded) :
                r \in OnTheWay /\ tcpState \in {Connecting, Connected}

(* setConnectionState never sees a transition it throws at, whatever order   *)
(* the callbacks of live and of forgotten sockets come in.  A failure whose  *)
(* error callback sends again goes through Disconnected.                     *)
LegalTransitions ==
  [][\/ <<tcpState, tcpState'>> \notin IllegalTransitions
     \/ \E s \in Sockets, after \in Phases : SocketFailureAndResend(s, after)]_vars

(* Nothing is written to the device for a request the program was told has   *)
(* failed: a queue that outlives its requests is never sent.  The exception: *)
(* close() rejects what is queued at once and empties the queue only when    *)
(* the connection has ended.  A request issued before it disconnects makes   *)
(* the layer write what is at the head of the queue, and the 'close' event   *)
(* of a socket left behind opens the layer for sending in between.           *)
NothingSentAfterRejection ==
  [][\A s \in Sockets :
       Len(wire'[s]) > Len(wire[s])
         => \/ outcome'[wire'[s][Len(wire'[s])].request] = "pending"
            \/ due = "disconnect"
            \/ strayed /\ closing]_vars

(* This layer implements RequestService: a request is settled at most once,  *)
(* with the device's reply to itself or with an error.                       *)
Service == INSTANCE RequestService WITH
  outcome <- [r \in Requests |-> IF outcome[r] = "answered" /\ answer[r] # r
                                   THEN "mistaken" ELSE outcome[r]]

ImplementsService == Service!Spec

(* Every request is settled in the end, with the exceptions above.           *)
RequestsSettle ==
  \A r \in Requests :
    outcome[r] = "pending" ~> (outcome[r] # "pending" \/ strayed
                               \/ r \in stranded \cup discarded)

(* Every request is settled in the end, without exception.                   *)
AllRequestsSettle ==
  \A r \in Requests : outcome[r] = "pending" ~> outcome[r] # "pending"
=============================================================================
