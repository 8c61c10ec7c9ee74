----------------------------- MODULE RingSelect -----------------------------
(***************************************************************************)
(* The pure selections of frame-ring.hpp (namespace ringselect) and the    *)
(* two searches of FrameRing that walk the window the same way.            *)
(*                                                                         *)
(* A window is the ring in logical order: a sequence of slots, oldest      *)
(* first, with captureNs non-decreasing. Positions are 1..Len(w) here and  *)
(* 0..count-1 in the code; "none" is 0 here and count (or false) there.    *)
(***************************************************************************)
EXTENDS Integers, Sequences, FiniteSets, FiniteSetsExt

\* SlotState. "Reserved" and "Encoding" are the captures still undecided.
Undecided == {"Reserved", "Encoding"}
Settled   == {"Ready", "Dropped"}
SlotState == {"Free"} \cup Undecided \cup Settled

IsReady(slot) == slot.state = "Ready"

LastAtOrBefore_Strict(w, targetNs) ==
    Cardinality({p \in 1..Len(w) : w[p].captureNs < targetNs})
\* The newest position captured at or before targetNs: the binary search of
\* the code, the answer kept in lo .. hi - 1.
LastAtOrBefore(w, targetNs) ==
    LET Bounds == 1..Len(w) + 1
        search[range \in Bounds \X Bounds] ==
            LET lo  == range[1]
                hi  == range[2]
                mid == lo + (hi - lo) \div 2
            IN  IF hi - lo <= 1 THEN lo
                ELSE IF w[mid].captureNs <= targetNs THEN search[<<mid, hi>>]
                ELSE search[<<lo, mid>>]
    IN  IF w = <<>> \/ w[1].captureNs > targetNs THEN 0
        ELSE search[<<1, Len(w) + 1>>]

\* The frame to show for targetNs: the newest Ready one at or before the due
\* position, at most maxBack positions back.
SelectForDisplay(w, targetNs, maxBack) ==
    LET due   == LastAtOrBefore(w, targetNs)
        ready == {p \in 1..Len(w) : due - maxBack <= p /\ p <= due /\ IsReady(w[p])}
    IN  IF ready = {} THEN 0 ELSE Max(ready)

\* What decode-ahead does not wait for: dropped slots, and undecided ones that
\* are already due.
PassedOver_AnyUndecided(slot, targetNs, windowEndNs) ==
    slot.captureNs <= windowEndNs /\ ~IsReady(slot)
PassedOver(slot, targetNs, windowEndNs) ==
    /\ slot.captureNs <= windowEndNs
    /\ \/ slot.state = "Dropped"
       \/ slot.state \in Undecided /\ slot.captureNs <= targetNs

\* FrameRing::PinNextForDecode: a reader that is late jumps to the frame due;
\* otherwise it takes the next one after afterNs that it must not pass over.
NextForDecode(w, afterNs, targetNs, windowEndNs, lateNs, maxBack) ==
    LET jump  == IF afterNs + lateNs < targetNs
                 THEN SelectForDisplay(w, targetNs, maxBack) ELSE 0
        after == LastAtOrBefore(w, afterNs)
        stops == {p \in 1..Len(w) : p > after /\ ~PassedOver(w[p], targetNs, windowEndNs)}
        next  == IF stops = {} THEN 0 ELSE Min(stops)
    IN  IF jump # 0 /\ w[jump].captureNs > afterNs THEN jump
        ELSE IF next # 0 /\ IsReady(w[next]) /\ w[next].captureNs <= windowEndNs
             THEN next ELSE 0

\* FrameRing::PinNextInRange: the first Ready slot with afterNs < captureNs <=
\* untilNs, whatever lies in between.
NextInRange(w, afterNs, untilNs) ==
    LET after == LastAtOrBefore(w, afterNs)
        ready == {p \in 1..Len(w) :
                      /\ p > after
                      /\ IsReady(w[p])
                      /\ afterNs < w[p].captureNs /\ w[p].captureNs <= untilNs}
    IN  IF ready = {} THEN 0 ELSE Min(ready)

\* A cursor is the packet a decoder decoded last (ringselect::ChainCursor).
NoCursor == [valid |-> FALSE, chain |-> 0, seq |-> 0]

\* A packet can be decoded next: a key always, a P-frame only right after the
\* packet before it in its own chain.
Decodable(packet, cursor) ==
    \/ packet.key
    \/ cursor.valid /\ packet.chain = cursor.chain /\ packet.seq = cursor.seq + 1

\* The catch-up frames among those behind the frame due: the key is one.
CatchUpRun_NoKey(behind, key) == {p \in behind : p > key}
CatchUpRun(behind, key) == {p \in behind : p >= key}

\* ringselect::PlanDecodeStart: the key that the Ready frame at position due
\* can be decoded from, how many packets come before it, and the first Ready
\* key after it. Slots that are not Ready and frames of another codec are not
\* part of due's bitstream.
PlanDecodeStart(w, due) ==
    LET target    == w[due]
        Keys(P)   == {p \in P : IsReady(w[p]) /\ w[p].key}
        later     == Keys(due + 1 .. Len(w))
        behind    == {p \in 1..due - 1 : IsReady(w[p]) /\ w[p].codec = target.codec}
        key       == IF Keys(behind) = {} THEN 0 ELSE Max(Keys(behind))
        run       == CatchUpRun(behind, key)
        Fits(p)   == /\ w[p].chain = target.chain
                     /\ w[p].seq = target.seq - Cardinality({q \in run : q >= p})
        found     == target.key \/ (key # 0 /\ \A p \in run : Fits(p))
    IN  [found   |-> found,
         keyPos  |-> IF target.key THEN due ELSE IF found THEN key ELSE 0,
         catchUp |-> IF found /\ ~target.key THEN Cardinality(run) ELSE 0,
         nextKey |-> IF later = {} THEN 0 ELSE Min(later)]

\* ringselect::ChooseDecodeStart: catch up now, or hold the picture until the
\* next key, whichever shows a fresh frame sooner.
ChooseDecodeStart(plan, due, decodeNs, intervalNs) ==
    IF ~plan.found THEN "WaitForKey"
    ELSE IF plan.catchUp = 0 \/ plan.nextKey = 0 THEN "CatchUp"
    ELSE IF plan.catchUp * decodeNs <= (plan.nextKey - due) * intervalNs
         THEN "CatchUp" ELSE "WaitForKey"
=============================================================================
