---------------------------- MODULE MCDecodeChain ----------------------------
(* The encode and the decode worker on a ring that wraps. *)
EXTENDS DecodeChain
=============================================================================
