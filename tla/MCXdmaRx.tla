------------------------------ MODULE MCXdmaRx ------------------------------
(* Model of XdmaRx and XdmaPoll for TLC: a ring of DescMax descriptors,     *)
(* MaxPkts packets.                                                         *)
EXTENDS XdmaPoll
=============================================================================
