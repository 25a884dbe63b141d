--------------------------- MODULE MCDevLifecycle ---------------------------
(* Model of DevLifecycle for TLC: both applications, one to three ports    *)
(* found, two queues.                                                      *)
EXTENDS DevLifecycle
=============================================================================
