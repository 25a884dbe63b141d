---------------------------- MODULE MCForwarder -----------------------------
(* Model of Forwarder for TLC: rings of DescMax, more packets than a ring. *)
EXTENDS Forwarder
=============================================================================
