----------------------------- MODULE MCDevProbe -----------------------------
(* Model of DevProbe for TLC: every set of enabled BARs and up to two      *)
(* config_bar arguments, in and out of range.                              *)
EXTENDS DevProbe

Values == -1 .. BarNum

ArgLists == {<<>>} \cup {<<v>> : v \in Values} \cup {<<v, w>> : v, w \in Values}
=============================================================================
