------------------------------- MODULE MCModbus -------------------------------
(* The Modbus layer with a few requests.  The counter starts just below its  *)
(* limit, so that it wraps; as in the code, more identifiers than requests   *)
(* are under way.                                                            *)
EXTENDS ModbusLayer

MCFirstTransaction == {TransactionIDs - 2}
MCTcpMessages == Messages
=============================================================================
