----------------------------- MODULE MCInterApp -----------------------------
(* Model of InterApp for TLC: the two threads and switch_start, a few      *)
(* packets, registers of Word values.                                      *)
EXTENDS InterApp
=============================================================================
