--------------------------- MODULE MCSessionWorker ---------------------------
(* Instances of SessionWorker for TLC: streams and uploads are model values. *)
EXTENDS SessionWorker

CONSTANTS s1, s2, w1
=============================================================================
