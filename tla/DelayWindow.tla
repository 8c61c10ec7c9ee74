----------------------------- MODULE DelayWindow -----------------------------
(***************************************************************************)
(* What the delay buffer promises (the contract in frame-ring.hpp, without *)
(* its slots, indices and generations): a window on the last captures.     *)
(* A capture enters at the newest end while it is still pending, is        *)
(* decided once (ready or dropped), can be pinned by readers while ready,  *)
(* and leaves only from the oldest end, when the window is full, decided   *)
(* and not pinned.                                                         *)
(***************************************************************************)
EXTENDS Integers, Sequences

CONSTANTS Capacity,    \* captures the window holds
          Times        \* the clock's values

VARIABLE window       \* the captures kept, oldest first

Last(w) == w[Len(w)]
Pending(captureNs) == [captureNs |-> captureNs, pins |-> 0, status |-> "pending"]

Init == window = <<>>

\* The newest capture, never older than the one before it. A full window gives
\* up its oldest capture for it.
Capture(captureNs) ==
    /\ window # <<>> => captureNs >= Last(window).captureNs
    /\ \/ /\ Len(window) < Capacity
          /\ window' = Append(window, Pending(captureNs))
       \/ /\ Len(window) = Capacity
          /\ window[1].status # "pending"
          /\ window[1].pins = 0
          /\ window' = Append(Tail(window), Pending(captureNs))

Decide(p, status) ==
    /\ window[p].status = "pending"
    /\ window' = [window EXCEPT ![p].status = status]

Pin(p) ==
    /\ window[p].status = "Ready"
    /\ window' = [window EXCEPT ![p].pins = @ + 1]

Unpin(p) ==
    /\ window[p].pins > 0
    /\ window' = [window EXCEPT ![p].pins = @ - 1]

Next ==
    \/ \E captureNs \in Times : Capture(captureNs)
    \/ \E p \in 1..Len(window) :
           \/ \E status \in {"Ready", "Dropped"} : Decide(p, status)
           \/ Pin(p)
           \/ Unpin(p)

Spec == Init /\ [][Next]_window
=============================================================================
