------------------------------ MODULE MCXdmaTx ------------------------------
(* Model of XdmaTx for TLC: bursts of single-segment packets, and one whose *)
(* second packet does not fit behind the first in a ring of four.           *)
EXTENDS XdmaTx

CONSTANT BurstSizes

SingleSegment(n) == [i \in 1 .. n |-> 1]

MultiSegmentBursts == {<<2, 3>>}

SingleSegmentBursts == {SingleSegment(n) : n \in BurstSizes}
=============================================================================
