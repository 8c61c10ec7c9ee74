----------------------------- MODULE MCDecodedPool -----------------------------
(* A delay of one capture, a ring of two and a decoder two frames ahead:      *)
(* frames age, wrap and are decoded ahead within a clock of four.            *)
EXTENDS DecodedPool
=============================================================================
