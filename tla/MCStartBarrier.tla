--------------------------- MODULE MCStartBarrier ---------------------------
(* Model of StartBarrier for TLC: the two forwarding threads main launches. *)
EXTENDS StartBarrier
=============================================================================
