---------------------------- MODULE MCDecodeRings ----------------------------
(* The encode and the decode worker on a ring of three slots that wraps, over  *)
(* two cycles and with faults; and on one of two slots that laps the decoder   *)
(* in the middle of its catch-up.                                              *)
EXTENDS DecodeChain

VARIABLE lapped

Lapped ==
    INSTANCE DecodeChain WITH SlotCount <- 2, MaxCaptures <- 4, MaxEpochs <- 1, MaxFaults <- 0, Latency <- 1

RingsInit == Init /\ lapped \in BOOLEAN

RingsNext ==
    \/ ~lapped /\ Next /\ UNCHANGED lapped
    \/ lapped /\ Lapped!Next /\ UNCHANGED lapped

RingsSpec == RingsInit /\ [][RingsNext]_<<vars, lapped>>
=============================================================================
