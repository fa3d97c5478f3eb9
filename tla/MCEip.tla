-------------------------------- MODULE MCEip --------------------------------
(* The EtherNet/IP layer with a few calls: two requests, both under contexts *)
(* or one of them on a connection, and a list request.  A byte of the sender *)
(* context has two values, and the counter starts just below its carry.      *)
EXTENDS EipSession

MCUnconnected == {{1}, {1, 2}}
MCTcpMessages == Messages
MCCommand == [u \in Users |-> IF u = 9 THEN "NOP" ELSE "ListServices"]
MCFirstContext == {[i \in 1 .. ContextBytes |-> IF i = 1 THEN Octets - 1 ELSE 0]}
=============================================================================
