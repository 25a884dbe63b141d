----------------------------- MODULE PacketFifo -----------------------------
(***************************************************************************)
(* What either direction of the driver promises, with no ring, hardware or *)
(* polling in it: packets are numbered in the order in which they enter,   *)
(* at most Capacity of them are inside at a time, and they leave in that   *)
(* order, each exactly once.                                               *)
(***************************************************************************)
EXTENDS Integers, Sequences

CONSTANT Capacity   \* packets the channel can hold

VARIABLES taken,    \* packets that have entered
          out       \* packets that have left, in order

fifoVars == <<taken, out>>

FifoTypeOK == taken \in Nat /\ out \in Seq(Nat)

FifoInit == taken = 0 /\ out = <<>>

Take(k) ==
    /\ taken + k - Len(out) <= Capacity
    /\ taken' = taken + k
    /\ UNCHANGED out

Give ==
    /\ Len(out) < taken
    /\ out' = Append(out, Len(out) + 1)
    /\ UNCHANGED taken

FifoNext == (\E k \in 1 .. Capacity : Take(k)) \/ Give

FifoSpec == FifoInit /\ [][FifoNext]_fifoVars
=============================================================================
