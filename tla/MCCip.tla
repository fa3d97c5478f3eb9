-------------------------------- MODULE MCCip --------------------------------
(* The CIP connection with a few requests, one of them unconnected, and a    *)
(* device that does not know LargeForwardOpen and holds the two connections  *)
(* the layer asks for next: two duplicates in a row, until Expire.           *)
EXTENDS CipConnection

MCLeftovers == {{2, 3}}
=============================================================================
