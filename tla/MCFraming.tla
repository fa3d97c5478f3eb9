------------------------------ MODULE MCFraming ------------------------------
(* Framing on frames of two and three bytes: a header of two bytes whose    *)
(* length field ends after the first, so that a chunk can end before, in    *)
(* and after the header.                                                    *)
EXTENDS Framing

MCFrameLengths == {2, 3}
=============================================================================
