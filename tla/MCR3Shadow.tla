----------------------------- MODULE MCR3Shadow -----------------------------
(* Bytes are bits.  Of the floats, two bytes wide, 00 and 01 are the two   *)
(* zeros and 11 is not a number.                                           *)
EXTENDS R3Shadow

MCSegment == <<1, 0>>
MCZeros == {<<0, 0>>, <<0, 1>>}
MCNaNs == {<<1, 1>>}
NoData == [a \in 0 .. Size - 1 |-> 0]
(* A data segment of one byte, at address 1.                               *)
SomeData == [a \in 0 .. Size - 1 |-> IF a = 1 THEN 1 ELSE 0]
=============================================================================
