---------------------------- MODULE MCFrameRing ----------------------------
(* A ring of three slots that wraps, two encoders that finish in any order,  *)
(* and two readers; one allocation short of what they could all hold.        *)
EXTENDS FrameRing, TLC

\* Allocations, encoders and readers are told apart by nothing.
Symmetry == Permutations(Allocations) \cup Permutations(Encoders) \cup Permutations(Readers)
=============================================================================
