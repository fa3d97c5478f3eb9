------------------------------ MODULE MCIdentity ------------------------------
(* Two calls: one that names both devices, so that setup is called twice at *)
(* once, and a broadcast.                                                    *)
EXTENDS UdpIdentity

MCHosts == [c \in Calls |-> IF c = 3 THEN <<>> ELSE <<"plc", "drive">>]
=============================================================================
