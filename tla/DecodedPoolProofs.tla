--------------------------- MODULE DecodedPoolProofs ---------------------------
(***************************************************************************)
(* Proofs about DecodedPool, for every delay, ring, lookahead and set of   *)
(* frames that do not decode, and any number of cycles.                    *)
(***************************************************************************)
EXTENDS DecodedPool, FiniteSetTheorems, WellFoundedInduction, TLAPS

-----------------------------------------------------------------------------
(* What is selected from a window is a Ready slot of it. *)

\* A nonempty set of naturals has a least element: < is well founded.
LEMMA NonemptyHasLeast ==
    ASSUME NEW S, S \subseteq Nat, S # {}
    PROVE  \E m \in S : \A n \in S : m <= n
<1> DEFINE R == {p \in Nat \X Nat : p[1] < p[2]}
<1>1. IsWellFoundedOn(R, Nat)
  BY NatLessThanWellFounded, Zenon DEF OpToRel
<1>2. PICK x \in S : \A y \in S : ~(<<y, x>> \in R)
  BY <1>1, WFMin, Zenon
<1>3. ASSUME NEW y \in S PROVE x <= y
  <2>1. <<y, x>> \notin R
    BY <1>2
  <2>2. ~(y < x)
    BY <2>1
  <2> QED BY <2>2
<1> QED
  BY <1>3

\* A nonempty subset of 1..n has a maximum.
LEMMA MaxInSet ==
    ASSUME NEW n \in Nat, NEW S, S \subseteq 1..n, S # {}
    PROVE  Max(S) \in S /\ \A x \in S : x <= Max(S)
<1> DEFINE T == {n - x : x \in S}
<1>1. PICK m \in T : \A t \in T : m <= t
  <2>0. ASSUME NEW x \in S PROVE n - x \in Nat
    OBVIOUS
  <2>1. T \subseteq Nat
    BY <2>0
  <2>2. T # {}
    OBVIOUS
  <2> HIDE DEF T
  <2> QED BY <2>1, <2>2, NonemptyHasLeast
<1>2. PICK x \in S : m = n - x
  OBVIOUS
<1>3. ASSUME NEW y \in S PROVE x >= y
  <2>1. n - y \in T
    OBVIOUS
  <2>2. m <= n - y
    BY <2>1, <1>1
  <2> QED BY <2>2, <1>2
<1> QED
  BY <1>3 DEF Max

\* A nonempty set of naturals has a minimum.
LEMMA MinInSet ==
    ASSUME NEW S, S \subseteq Nat, S # {}
    PROVE  Min(S) \in S /\ \A x \in S : Min(S) <= x
  BY NonemptyHasLeast DEF Min

\* What SelectForDisplay returns is a Ready slot of the window, or none.
LEMMA DisplayIsReady ==
    ASSUME NEW w, Len(w) \in Nat, NEW targetNs, NEW maxBack
    PROVE  LET p == SelectForDisplay(w, targetNs, maxBack)
           IN  p # 0 => p \in 1..Len(w) /\ IsReady(w[p])
<1> DEFINE due   == LastAtOrBefore(w, targetNs)
           ready == {p \in 1..Len(w) : due - maxBack <= p /\ p <= due /\ IsReady(w[p])}
<1>1. SelectForDisplay(w, targetNs, maxBack) = IF ready = {} THEN 0 ELSE Max(ready)
  BY Zenon DEF SelectForDisplay
<1>2. ready # {} => Max(ready) \in ready
  <2>1. ready \subseteq 1..Len(w)
    OBVIOUS
  <2> HIDE DEF ready
  <2> QED BY <2>1, MaxInSet
<1> QED
  BY <1>1, <1>2

\* So is what PinNextForDecode pins.
LEMMA DecodeIsReady ==
    ASSUME NEW w, Len(w) \in Nat, NEW afterNs, NEW targetNs, NEW windowEndNs, NEW lateNs, NEW maxBack
    PROVE  LET p == NextForDecode(w, afterNs, targetNs, windowEndNs, lateNs, maxBack)
           IN  p # 0 => p \in 1..Len(w) /\ IsReady(w[p])
<1> DEFINE jump == IF afterNs + lateNs < targetNs
                   THEN SelectForDisplay(w, targetNs, maxBack) ELSE 0
           stops == {p \in 1..Len(w) :
                        /\ p > LastAtOrBefore(w, afterNs)
                        /\ ~PassedOver(w[p], targetNs, windowEndNs)}
           next == IF stops = {} THEN 0 ELSE Min(stops)
<1>1. NextForDecode(w, afterNs, targetNs, windowEndNs, lateNs, maxBack) =
          IF jump # 0 /\ w[jump].captureNs > afterNs THEN jump
          ELSE IF next # 0 /\ IsReady(w[next]) /\ w[next].captureNs <= windowEndNs
               THEN next ELSE 0
  BY Zenon DEF NextForDecode
<1>2. jump # 0 => jump \in 1..Len(w) /\ IsReady(w[jump])
  BY DisplayIsReady
<1>3. next # 0 => next \in 1..Len(w)
  <2>1. stops \subseteq Nat /\ stops \subseteq 1..Len(w)
    OBVIOUS
  <2> HIDE DEF stops
  <2> QED BY <2>1, MinInSet
<1> HIDE DEF jump, next
<1> QED
  BY <1>1, <1>2, <1>3
-----------------------------------------------------------------------------
(* The playback side. *)

\* The records of the playback side.
RecordsOK ==
    /\ shown \in [captureNs : 0..MaxNow, ring : 0..MaxCycles]
    /\ decoder \in [pc : {"top", "decode", "finish", "asleep", "dozing"}, ring : 0..MaxCycles,
                    target : 0..MaxNow, epoch : 0..2 * MaxCycles, captureNs : 0..MaxNow]
    /\ cursor \in [ns : 0..MaxNow, epoch : 0..2 * MaxCycles]
    /\ IsFiniteSet(pool)

\* The epoch tells the cycle, and whether its ring is attached.
EpochTells ==
    /\ epoch = IF attached THEN 2 * This - 1 ELSE 2 * This
    /\ attached => This >= 1
    /\ graphics.pc = "acquire" => attached

\* Whatever carries the epoch of this cycle is of this cycle's ring.
EpochMeansRing ==
    /\ \A f \in pool : f.epoch = epoch => f.ring = This
    /\ decoder.pc \in {"decode", "finish"} =>
          /\ decoder.ring \in Cycles /\ decoder.epoch <= epoch
          /\ decoder.epoch = epoch => decoder.ring = This /\ Cardinality(pool) < Lookahead
    /\ decoder.pc = "finish" => decoder.captureNs \in 1..MaxNow

\* So is what is on screen.
ShownOfRing ==
    /\ ~attached => shown = Nowhere
    /\ shown.ring # 0 => shown.ring = This

PoolInvariant == PoolTypeOK /\ RecordsOK /\ EpochTells /\ EpochMeansRing /\ ShownOfRing
-----------------------------------------------------------------------------
ConstantsAreNat ==
    /\ Delay \in Nat /\ SlotCount \in Nat /\ Lookahead \in Nat /\ MaxNow \in Nat /\ MaxCycles \in Nat
    /\ SlotCount >= 1 /\ Lookahead >= 1 /\ MaxNow >= 1 /\ MaxCycles >= 1

LEMMA Constants == ConstantsAreNat
  BY PoolAssumption DEF ConstantsAreNat

LEMMA WindowsOK ==
    ASSUME PoolTypeOK
    PROVE  /\ windows \in Seq(Seq(Slot)) /\ Len(windows) \in Nat /\ This <= MaxCycles
           /\ This = Len(windows) /\ Cycles = 1..Len(windows)
           /\ \A c \in 1..Len(windows) : Len(windows[c]) <= SlotCount
  <1>1. windows \in Seq(Seq(Slot)) /\ This <= MaxCycles
        /\ \A c \in Cycles : Len(windows[c]) <= SlotCount
    BY DEF PoolTypeOK
  <1>2. QED
    BY <1>1 DEF Cycles, This

LEMMA WindowOf ==
    ASSUME PoolTypeOK, NEW c \in Cycles
    PROVE  windows[c] \in Seq(Slot) /\ Len(windows[c]) <= SlotCount /\ Len(windows[c]) \in Nat
  <1>1. windows \in Seq(Seq(Slot)) /\ c \in 1..Len(windows) /\ Len(windows[c]) <= SlotCount
    BY WindowsOK
  <1>2. windows[c] \in Seq(Slot)
    BY <1>1
  <1>3. QED
    BY <1>1, <1>2

\* A capture enters the window, or does not.
LEMMA CapturedWindow ==
    ASSUME PoolTypeOK, NEW w \in Seq(Slot), Len(w) <= SlotCount
    PROVE  Captured(w) \in Seq(Slot) /\ Len(Captured(w)) <= SlotCount
  <1>1. [captureNs |-> now, state |-> "Encoding"] \in Slot
    BY DEF PoolTypeOK, Slot, Undecided, Settled
  <1>2. CASE Len(w) = SlotCount
    <2>1. Tail(w) \in Seq(Slot) /\ Len(Tail(w)) = Len(w) - 1
      BY <1>2, Constants DEF ConstantsAreNat
    <2>2. Append(Tail(w), [captureNs |-> now, state |-> "Encoding"]) \in Seq(Slot)
          /\ Len(Append(Tail(w), [captureNs |-> now, state |-> "Encoding"])) = Len(w)
      BY <1>1, <2>1
    <2>3. QED
      BY <1>2, <2>2 DEF Captured
  <1>3. CASE Len(w) # SlotCount
    <2>1. Append(w, [captureNs |-> now, state |-> "Encoding"]) \in Seq(Slot)
          /\ Len(Append(w, [captureNs |-> now, state |-> "Encoding"])) <= SlotCount
      BY <1>1, <1>3, Constants DEF ConstantsAreNat
    <2>2. QED
      BY <1>3, <2>1 DEF Captured
  <1>4. QED
    BY <1>2, <1>3

\* The frame due is one of the window, or none.
LEMMA CandidateIsTime ==
    ASSUME NEW w \in Seq(Slot), NEW ns
    PROVE  CandidateNs(w, ns) \in 0..MaxNow
  <1> DEFINE p == SelectForDisplay(w, ns, MaxBack)
  <1>1. p # 0 => p \in 1..Len(w)
    BY DisplayIsReady
  <1>2. p # 0 => w[p] \in Slot
    BY <1>1
  <1>3. CandidateNs(w, ns) = IF p = 0 THEN 0 ELSE w[p].captureNs
    BY DEF CandidateNs
  <1> HIDE DEF p
  <1>4. QED
    BY <1>2, <1>3, Constants DEF Slot, ConstantsAreNat

\* One window of the rings changes.
LEMMA WindowReplaced ==
    ASSUME PoolTypeOK, NEW c \in Cycles, NEW w \in Seq(Slot), Len(w) <= SlotCount,
           windows' = [windows EXCEPT ![c] = w]
    PROVE  /\ windows' \in Seq(Seq(Slot)) /\ Len(windows') = Len(windows)
           /\ \A d \in Cycles' : Len(windows'[d]) <= SlotCount
  <1>1. /\ windows \in Seq(Seq(Slot)) /\ c \in 1..Len(windows)
        /\ \A d \in 1..Len(windows) : Len(windows[d]) <= SlotCount
    BY WindowsOK
  <1>2. /\ windows' \in Seq(Seq(Slot)) /\ Len(windows') = Len(windows)
        /\ \A d \in 1..Len(windows) : windows'[d] = IF d = c THEN w ELSE windows[d]
    BY <1>1
  <1>3. QED
    BY <1>1, <1>2 DEF Cycles
-----------------------------------------------------------------------------
LEMMA PoolInit == Init => PoolInvariant
  <1> SUFFICES ASSUME Init PROVE PoolInvariant
    OBVIOUS
  <1>1. PoolTypeOK
    <2>1. /\ windows \in Seq(Seq(Slot)) /\ This = 0 /\ Cycles = {}
      BY DEF Init, Cycles, This
    <2>2. Cardinality(pool) = 0
      BY FS_EmptySet DEF Init
    <2>3. now \in 1..MaxNow /\ 0 \in 0..MaxNow /\ 0 \in 0..MaxCycles /\ epoch \in 0..2 * MaxCycles
          /\ This <= MaxCycles /\ 0 <= Lookahead /\ cursor.epoch \in 0..epoch
      BY <2>1, Constants DEF Init, ConstantsAreNat
    <2>4. QED
      BY <2>1, <2>2, <2>3 DEF Init, PoolTypeOK, NotRendering, Nowhere, AtTop
  <1>2. RecordsOK
    BY FS_EmptySet, Constants DEF Init, RecordsOK, Nowhere, AtTop, ConstantsAreNat
  <1>3. EpochTells /\ EpochMeansRing /\ ShownOfRing
    BY DEF Init, EpochTells, EpochMeansRing, ShownOfRing, Nowhere, AtTop, NotRendering, Cycles, This
  <1>4. QED
    BY <1>1, <1>2, <1>3 DEF PoolInvariant

\* A new cycle or the end of one: the epoch moves on and the pool is emptied.
LEMMA CyclesStep ==
    ASSUME PoolInvariant, StartCycle \/ StopCycle
    PROVE  PoolInvariant'
  <1>t. PoolTypeOK /\ RecordsOK /\ EpochTells /\ EpochMeansRing /\ ShownOfRing
    BY DEF PoolInvariant
  <1>c. ConstantsAreNat
    BY Constants
  <1>w. /\ windows \in Seq(Seq(Slot)) /\ This \in Nat /\ This <= MaxCycles
        /\ This = Len(windows) /\ Cycles = 1..Len(windows)
        /\ \A c \in 1..Len(windows) : Len(windows[c]) <= SlotCount
    BY <1>t, WindowsOK
  <1>e. /\ epoch \in Nat /\ attached \in BOOLEAN /\ now \in 1..MaxNow
        /\ graphics \in [pc : {"idle", "acquire"}, target : 0..MaxNow, due : 0..MaxNow]
        /\ cursor.ns \in 0..MaxNow /\ cursor.epoch \in 0..epoch /\ captureCell \in 0..MaxNow
    BY <1>t, <1>c DEF PoolTypeOK, ConstantsAreNat
  <1>d. /\ epoch' = epoch + 1 /\ pool' = {} /\ IsFiniteSet(pool') /\ Cardinality(pool') = 0
        /\ target' = 0 /\ lastShown' = 0 /\ lastAcquire' = 0 /\ woken' = TRUE
        /\ now' = now /\ UNCHANGED <<graphics, decoder, cursor>>
    BY FS_EmptySet DEF StartCycle, StopCycle, Detach, NextEpoch, viewVars, decodeVars
  <1>1. /\ windows' \in Seq(Seq(Slot)) /\ This' <= MaxCycles
        /\ \A c \in Cycles' : Len(windows'[c]) <= SlotCount
        /\ Cycles \subseteq Cycles'
        /\ This' = IF attached THEN This ELSE This + 1
        /\ (attached => ~attached') /\ (~attached => attached') /\ attached' \in BOOLEAN
    <2>1. CASE StartCycle
      <3>1. windows' = Append(windows, <<>>) /\ ~attached /\ attached' = TRUE /\ This < MaxCycles
        BY <2>1 DEF StartCycle
      <3>2. <<>> \in Seq(Slot) /\ Len(<<>>) = 0
        OBVIOUS
      <3>3. /\ windows' \in Seq(Seq(Slot)) /\ Len(windows') = Len(windows) + 1
            /\ \A c \in 1..Len(windows) : windows'[c] = windows[c]
            /\ windows'[Len(windows) + 1] = <<>>
        BY <1>w, <3>1, <3>2 DEF Cycles
      <3>4. \A c \in Cycles' : c \in 1..Len(windows) \/ c = Len(windows) + 1
        BY <1>w, <3>3 DEF Cycles, This
      <3>5. \A c \in Cycles' : Len(windows'[c]) <= SlotCount
        <4> SUFFICES ASSUME NEW c \in Cycles' PROVE Len(windows'[c]) <= SlotCount
          OBVIOUS
        <4>1. CASE c = Len(windows) + 1
          <5>1. windows'[c] = <<>>
            BY <3>3, <4>1, Zenon
          <5>2. Len(windows'[c]) = 0
            BY <5>1
          <5>3. QED
            BY <1>c, <5>2 DEF ConstantsAreNat
        <4>2. CASE c \in 1..Len(windows)
          BY <1>w, <3>3, <4>2
        <4>3. QED
          BY <3>4, <4>1, <4>2
      <3>6. This' = This + 1 /\ This' <= MaxCycles /\ Cycles \subseteq Cycles'
        BY <1>w, <1>c, <3>1, <3>3 DEF Cycles, This, ConstantsAreNat
      <3>7. QED
        BY <1>w, <3>1, <3>3, <3>5, <3>6 DEF StartCycle
    <2>2. CASE StopCycle
      <3>1. attached /\ attached' = FALSE /\ This \in Cycles
        BY <2>2, <1>t, <1>w DEF StopCycle, EpochTells
      <3>2. CASE windows' = windows
        BY <1>w, <3>1, <3>2 DEF Cycles, This
      <3>3. CASE windows' = [windows EXCEPT ![This] = <<>>]
        <4>1. <<>> \in Seq(Slot) /\ Len(<<>>) <= SlotCount
          BY <1>c DEF ConstantsAreNat
        <4>2. QED
          BY <1>t, <1>w, <3>1, <3>3, <4>1, WindowReplaced DEF Cycles, This
      <3>4. QED
        BY <2>2, <3>2, <3>3 DEF StopCycle
    <2>3. QED
      BY <2>1, <2>2
  <1>2. epoch' \in 0..2 * MaxCycles
    BY <1>d, <1>t, <1>w, <1>c, <1>1, <1>e DEF EpochTells, ConstantsAreNat
  <1>3. (shown' = shown \/ shown' = Nowhere) /\ (~attached' => shown' = Nowhere) /\ graphics.pc = "idle"
        /\ captureCell' \in {captureCell, 0}
    <2>1. CASE StartCycle
      BY <2>1 DEF StartCycle, viewVars
    <2>2. CASE StopCycle
      BY <2>2 DEF StopCycle
    <2>3. QED
      BY <2>1, <2>2
  <1>4. PoolTypeOK'
    <2>1. shown'.captureNs \in 0..MaxNow /\ shown'.ring \in 0..MaxCycles
      BY <1>t, <1>c, <1>3 DEF RecordsOK, Nowhere, ConstantsAreNat
    <2>2. cursor'.ns \in 0..MaxNow /\ cursor'.epoch \in 0..epoch' /\ captureCell' \in 0..MaxNow
      BY <1>d, <1>e, <1>c, <1>3 DEF ConstantsAreNat
    <2>d. decoder'.pc \in {"top", "decode", "finish", "asleep", "dozing"}
      BY <1>t, <1>d DEF RecordsOK
    <2>3. attached' \in BOOLEAN /\ woken' \in BOOLEAN /\ Cardinality(pool') <= Lookahead
      BY <1>1, <1>d, <1>t, <1>c DEF PoolTypeOK, ConstantsAreNat
    <2>4. QED
      BY <1>c, <1>d, <1>e, <1>1, <1>2, <2>1, <2>2, <2>d, <2>3 DEF PoolTypeOK, ConstantsAreNat
  <1>6. RecordsOK'
    BY <1>t, <1>c, <1>d, <1>3 DEF RecordsOK, Nowhere, ConstantsAreNat
  <1>7. EpochTells'
    BY <1>t, <1>w, <1>d, <1>e, <1>1, <1>3 DEF EpochTells
  <1>8. EpochMeansRing'
    <2>1. decoder.pc \in {"decode", "finish"} => decoder.epoch <= epoch' /\ decoder.epoch # epoch'
      BY <1>t, <1>d, <1>e, <1>c DEF EpochMeansRing, RecordsOK, ConstantsAreNat
    <2>2. QED
      BY <1>t, <1>d, <1>e, <1>1, <2>1 DEF EpochMeansRing
  <1>9. ShownOfRing'
    BY <1>t, <1>1, <1>3 DEF ShownOfRing, Nowhere
  <1>10. QED
    BY <1>4, <1>6, <1>7, <1>8, <1>9 DEF PoolInvariant

\* A step that keeps the cycle, and only takes frames out of the pool or puts in
\* the one that was decoded.
LEMMA SameCycle ==
    ASSUME PoolInvariant, UNCHANGED <<attached, epoch>>, Len(windows') = Len(windows),
           PoolTypeOK', RecordsOK',
           graphics'.pc = "acquire" => attached,
           \A f \in pool' : f.epoch = epoch => f.ring = This,
           decoder'.pc \in {"decode", "finish"} =>
              /\ decoder'.ring \in Cycles /\ decoder'.epoch <= epoch
              /\ decoder'.epoch = epoch => decoder'.ring = This /\ Cardinality(pool') < Lookahead,
           decoder'.pc = "finish" => decoder'.captureNs \in 1..MaxNow,
           ~attached => shown' = Nowhere, shown'.ring # 0 => shown'.ring = This
    PROVE  PoolInvariant'
  <1>1. This' = This /\ Cycles' = Cycles
    BY DEF This, Cycles
  <1>2. EpochTells'
    BY <1>1 DEF PoolInvariant, EpochTells
  <1>3. EpochMeansRing'
    BY <1>1 DEF EpochMeansRing
  <1>4. ShownOfRing'
    BY <1>1 DEF ShownOfRing
  <1>5. QED
    BY <1>2, <1>3, <1>4 DEF PoolInvariant

\* Fewer frames are still finitely many, and not more.
LEMMA FewerFrames ==
    ASSUME PoolTypeOK, RecordsOK, NEW S, S \subseteq pool
    PROVE  /\ S \subseteq Frame /\ IsFiniteSet(S) /\ Cardinality(S) \in Nat
           /\ Cardinality(S) <= Cardinality(pool) /\ Cardinality(S) <= Lookahead
  <1>1. IsFiniteSet(pool) /\ pool \subseteq Frame /\ Cardinality(pool) <= Lookahead
    BY DEF PoolTypeOK, RecordsOK
  <1>2. IsFiniteSet(S) /\ Cardinality(S) <= Cardinality(pool)
    BY <1>1, FS_Subset
  <1>3. Cardinality(S) \in Nat /\ Cardinality(pool) \in Nat
    BY <1>1, <1>2, FS_CardinalityType
  <1>4. QED
    BY <1>1, <1>2, <1>3, Constants DEF ConstantsAreNat

\* The clock, the encoders and the wakes leave the cycle as it is.
LEMMA QuietStep ==
    ASSUME PoolInvariant,
           \/ Tick \/ WakeUp
           \/ \E c \in Cycles, p \in 1..SlotCount, state \in Settled : Settle(c, p, state)
    PROVE  PoolInvariant'
  <1>t. PoolTypeOK /\ RecordsOK /\ EpochTells /\ EpochMeansRing /\ ShownOfRing
    BY DEF PoolInvariant
  <1>1. ASSUME UNCHANGED <<attached, captureCell, epoch, viewVars, askVars, pool, cursor>>, woken' \in BOOLEAN,
               decoder' = decoder \/ decoder' = AtTop, now' \in 1..MaxNow,
               windows' \in Seq(Seq(Slot)), Len(windows') = Len(windows),
               \A c \in Cycles' : Len(windows'[c]) <= SlotCount
        PROVE  PoolInvariant'
    <2>1. This' = This
      BY <1>1 DEF This
    <2>2. decoder'.pc \in {"top", "decode", "finish", "asleep", "dozing"}
      BY <1>1, <1>t DEF RecordsOK, AtTop
    <2>3. PoolTypeOK'
      BY <1>1, <1>t, <2>1, <2>2 DEF PoolTypeOK, viewVars, askVars
    <2>4. RecordsOK'
      BY <1>1, <1>t, Constants DEF RecordsOK, AtTop, viewVars, ConstantsAreNat
    <2>5. decoder'.pc \in {"decode", "finish"} => decoder' = decoder
      BY <1>1 DEF AtTop
    <2>6. QED
      BY <1>1, <1>t, <2>3, <2>4, <2>5, SameCycle
         DEF EpochTells, EpochMeansRing, ShownOfRing, viewVars
  <1>w. /\ windows \in Seq(Seq(Slot)) /\ Cycles = 1..Len(windows)
        /\ \A c \in 1..Len(windows) : Len(windows[c]) <= SlotCount
        /\ now \in 1..MaxNow /\ woken \in BOOLEAN
    BY <1>t, WindowsOK DEF PoolTypeOK
  <1>2. ASSUME Tick PROVE PoolInvariant'
    <2>1. now' \in 1..MaxNow
      BY <1>2, <1>w, Constants DEF Tick, ConstantsAreNat
    <2>2. QED
      BY <1>1, <1>2, <1>w, <2>1 DEF Tick, decodeVars, Cycles
  <1>3. ASSUME WakeUp PROVE PoolInvariant'
    BY <1>1, <1>3, <1>w DEF WakeUp, ringVars, Cycles
  <1>4. ASSUME NEW c \in Cycles, NEW p \in 1..SlotCount, NEW state \in Settled, Settle(c, p, state)
        PROVE  PoolInvariant'
    <2> DEFINE w == [windows[c] EXCEPT ![p].state = state]
    <2>1. windows[c] \in Seq(Slot) /\ Len(windows[c]) <= SlotCount /\ p \in 1..Len(windows[c])
      BY <1>4, <1>t, WindowOf DEF Settle
    <2>2. windows[c][p] \in Slot
      BY <2>1
    <2>3. [windows[c][p] EXCEPT !.state = state] \in Slot
      BY <2>2 DEF Slot
    <2>4. w = [windows[c] EXCEPT ![p] = [windows[c][p] EXCEPT !.state = state]]
      OBVIOUS
    <2>5. w \in Seq(Slot) /\ Len(w) <= SlotCount
      BY <2>1, <2>3, <2>4
    <2>6. windows' = [windows EXCEPT ![c] = w]
      BY <1>4 DEF Settle
    <2> HIDE DEF w
    <2>7. QED
      BY <1>1, <1>4, <1>t, <1>w, <2>5, <2>6, WindowReplaced DEF Settle, decodeVars
  <1>5. QED
    BY <1>2, <1>3, <1>4

\* The graphics thread captures, and asks for a frame or wakes the decoder.
LEMMA RenderStepKeeps ==
    ASSUME PoolInvariant, Render
    PROVE  PoolInvariant'
  <1>t. PoolTypeOK /\ RecordsOK /\ EpochTells /\ EpochMeansRing /\ ShownOfRing
    BY DEF PoolInvariant
  <1>c. ConstantsAreNat
    BY Constants
  <1> DEFINE window == Captured(windows[This])
             oldest == IF window = <<>> THEN 0 ELSE window[1].captureNs
             Due(ns) == CandidateNs(window, ns)
  <1>1. attached /\ This \in Cycles /\ windows' = [windows EXCEPT ![This] = window]
        /\ captureCell' = now
    BY <1>t, WindowsOK DEF Render, EpochTells
  <1>2. window \in Seq(Slot) /\ Len(window) <= SlotCount
    <2>1. windows[This] \in Seq(Slot) /\ Len(windows[This]) <= SlotCount
      BY <1>1, <1>t, WindowOf
    <2>2. QED
      BY <1>t, <2>1, CapturedWindow
  <1>3. oldest \in 0..MaxNow
    <2> HIDE DEF window
    <2>1. window # <<>> => window[1] \in Slot
      BY <1>2
    <2>2. QED
      BY <2>1, <1>c DEF Slot, ConstantsAreNat
  <1>4. ASSUME NEW ns PROVE Due(ns) \in 0..MaxNow
    BY <1>2, CandidateIsTime
  <1> HIDE DEF window
  <1>5. now \in 1..MaxNow /\ (now - Delay > 0 => now - Delay \in 0..MaxNow)
    BY <1>t, <1>c DEF PoolTypeOK, ConstantsAreNat
  <1>6. /\ target' = target \/ target' \in 0..MaxNow
        /\ woken' = woken \/ woken' = TRUE
        /\ \/ graphics' = graphics
           \/ \E ns \in 0..MaxNow : graphics' = [pc |-> "acquire", target |-> ns, due |-> Due(ns)]
    <2> HIDE DEF oldest, Due
    <2>1. \/ UNCHANGED <<graphics, target, woken>>
          \/ UNCHANGED graphics /\ UNCHANGED <<target, woken>>
          \/ UNCHANGED graphics /\ target' = oldest /\ woken' = TRUE
          \/ /\ UNCHANGED <<target, woken>>
             /\ \/ graphics' = [pc |-> "acquire", target |-> oldest, due |-> Due(oldest)]
                \/ /\ now - Delay > 0
                   /\ graphics' = [pc |-> "acquire", target |-> now - Delay, due |-> Due(now - Delay)]
      BY <1>5, <1>c DEF Render, Publishes, window, oldest, Due, ConstantsAreNat
    <2>2. QED
      BY <1>3, <1>5, <2>1
  <1>7. graphics' \in [pc : {"idle", "acquire"}, target : 0..MaxNow, due : 0..MaxNow]
    <2> HIDE DEF Due
    <2>1. QED
      BY <1>4, <1>6, <1>t DEF PoolTypeOK
  <1>8. /\ windows' \in Seq(Seq(Slot)) /\ Len(windows') = Len(windows)
        /\ \A c \in Cycles' : Len(windows'[c]) <= SlotCount
    BY <1>1, <1>2, <1>t, WindowReplaced
  <1>9. UNCHANGED <<now, attached, epoch, shown, lastShown, lastAcquire, pool, decodeVars>>
    BY DEF Render
  <1>10. PoolTypeOK'
    <2>1. This' = This
      BY <1>8 DEF This
    <2>a. target \in 0..MaxNow /\ woken \in BOOLEAN
      BY <1>t DEF PoolTypeOK
    <2>b. captureCell' \in 0..MaxNow
      BY <1>1, <1>5, <1>c DEF ConstantsAreNat
    <2>2. captureCell' \in 0..MaxNow /\ target' \in 0..MaxNow /\ woken' \in BOOLEAN
      <3>1. target' \in 0..MaxNow /\ woken' \in BOOLEAN
        BY <1>6, <2>a, Zenon
      <3>2. QED
        BY <2>b, <3>1
    <2>3. QED
      BY <1>7, <1>8, <1>9, <1>t, <2>1, <2>2 DEF PoolTypeOK, decodeVars
  <1>11. RecordsOK'
    BY <1>9, <1>t DEF RecordsOK, decodeVars
  <1>12. QED
    BY <1>1, <1>8, <1>9, <1>10, <1>11, <1>t, SameCycle
       DEF EpochTells, EpochMeansRing, ShownOfRing, decodeVars

\* Of some frames of the pool one is the newest.
LEMMA NewestFrame ==
    ASSUME PoolTypeOK, NEW S, S \subseteq pool, S # {}
    PROVE  \E f \in S : \A g \in S : g.captureNs <= f.captureNs
  <1> DEFINE times == {f.captureNs : f \in S}
  <1>1. times \subseteq 1..MaxNow /\ times # {}
    BY DEF PoolTypeOK, Frame
  <1>2. \E m \in times : \A n \in times : n <= m
    <2> HIDE DEF times
    <2>1. QED
      BY <1>1, MaxInSet, Constants DEF ConstantsAreNat
  <1>3. QED
    BY <1>2

\* AcquireForDisplay shows a frame of this cycle's epoch, or none.
LEMMA AcquireKeeps ==
    ASSUME PoolInvariant, Acquire
    PROVE  PoolInvariant'
  <1>t. PoolTypeOK /\ RecordsOK /\ EpochTells /\ EpochMeansRing /\ ShownOfRing
    BY DEF PoolInvariant
  <1> DEFINE usable == {f \in pool : Usable(f, shown.captureNs)}
             dueNow == {f \in usable : IsDue(f)}
             best   == CHOOSE f \in dueNow : \A g \in dueNow : g.captureNs <= f.captureNs
  <1>1. attached /\ epoch' = epoch /\ UNCHANGED <<ringVars, decodeVars>> /\ graphics' = NotRendering
        /\ target' = graphics.target /\ woken' = TRUE
        /\ lastShown' = shown.captureNs /\ lastAcquire' = now
    BY <1>t DEF Acquire, EpochTells, Publishes
  <1>2. pool' \subseteq pool
    BY DEF Acquire
  <1>3. shown' = shown \/ (dueNow # {} /\ shown' = [captureNs |-> best.captureNs, ring |-> best.ring])
    BY DEF Acquire
  <1>4. dueNow # {} => best \in dueNow
    <2>1. dueNow \subseteq pool
      OBVIOUS
    <2>2. dueNow # {} => \E f \in dueNow : \A g \in dueNow : g.captureNs <= f.captureNs
      <3> HIDE DEF dueNow
      <3>1. QED
        BY <1>t, <2>1, NewestFrame
    <2> HIDE DEF dueNow
    <2>3. QED
      BY <2>2
  <1>5. shown' \in [captureNs : 0..MaxNow, ring : 0..MaxCycles] /\ (shown'.ring # 0 => shown'.ring = This)
    <2>1. CASE shown' = shown
      BY <1>t, <2>1 DEF RecordsOK, ShownOfRing
    <2>2. CASE dueNow # {} /\ shown' = [captureNs |-> best.captureNs, ring |-> best.ring]
      <3>1. best \in pool /\ best.epoch = epoch
        BY <1>4, <2>2 DEF Usable
      <3> HIDE DEF best
      <3>2. best \in Frame /\ best.ring = This
        BY <3>1, <1>t DEF PoolTypeOK, EpochMeansRing
      <3>3. best.captureNs \in 0..MaxNow /\ best.ring \in 0..MaxCycles
        BY <3>2, Constants DEF Frame, ConstantsAreNat
      <3>4. QED
        BY <2>2, <3>2, <3>3
    <2>3. QED
      BY <1>3, <2>1, <2>2
  <1>6. /\ pool' \subseteq Frame /\ IsFiniteSet(pool') /\ Cardinality(pool') \in Nat
        /\ Cardinality(pool') <= Cardinality(pool) /\ Cardinality(pool') <= Lookahead
    BY <1>2, <1>t, FewerFrames
  <1>7. PoolTypeOK'
    <2>1. This' = This /\ Cycles' = Cycles
      BY <1>1 DEF This, Cycles, ringVars
    <2>2. graphics' \in [pc : {"idle", "acquire"}, target : 0..MaxNow, due : 0..MaxNow]
      BY <1>1, Constants DEF NotRendering, ConstantsAreNat
    <2>3. {target', lastShown', lastAcquire'} \subseteq 0..MaxNow
      BY <1>1, <1>t DEF PoolTypeOK
    <2>4. QED
      BY <1>1, <1>5, <1>6, <1>t, <2>1, <2>2, <2>3 DEF PoolTypeOK, ringVars, decodeVars
  <1>8. RecordsOK'
    BY <1>1, <1>5, <1>6, <1>t DEF RecordsOK, decodeVars
  <1>9. decoder.pc \in {"decode", "finish"} =>
              /\ decoder.ring \in Cycles /\ decoder.epoch <= epoch
              /\ decoder.epoch = epoch => decoder.ring = This /\ Cardinality(pool') < Lookahead
    <2>1. Cardinality(pool) \in Nat /\ Lookahead \in Nat
      BY <1>t, FS_CardinalityType, Constants DEF RecordsOK, ConstantsAreNat
    <2>2. QED
      BY <1>6, <1>t, <2>1 DEF EpochMeansRing
  <1>10. QED
    BY <1>1, <1>2, <1>5, <1>7, <1>8, <1>9, <1>t, SameCycle
       DEF EpochMeansRing, decodeVars, ringVars, NotRendering

\* The decode worker: its loop's top, the decode, and the frame it puts in.
LEMMA DecodeStepKeeps ==
    ASSUME PoolInvariant, Look \/ Decode \/ Finish
    PROVE  PoolInvariant'
  <1>t. PoolTypeOK /\ RecordsOK /\ EpochTells /\ EpochMeansRing /\ ShownOfRing
    BY DEF PoolInvariant
  <1>c. ConstantsAreNat
    BY Constants
  <1>u. UNCHANGED <<ringVars, epoch, viewVars, askVars>>
    BY DEF Look, Decode, Finish
  <1>e. epoch \in 0..2 * MaxCycles /\ epoch \in Nat /\ target \in 0..MaxNow
    BY <1>t, <1>c DEF PoolTypeOK, ConstantsAreNat
  <1>1. ASSUME pool' \subseteq Frame, IsFiniteSet(pool'), Cardinality(pool') <= Lookahead,
               decoder' \in [pc : {"top", "decode", "finish", "asleep", "dozing"}, ring : 0..MaxCycles,
                             target : 0..MaxNow, epoch : 0..2 * MaxCycles, captureNs : 0..MaxNow],
               cursor' \in [ns : 0..MaxNow, epoch : 0..epoch], woken' \in BOOLEAN
        PROVE  PoolTypeOK' /\ RecordsOK'
    <2>1. This' = This /\ Cycles' = Cycles
      BY <1>u DEF This, Cycles, ringVars
    <2>2. cursor' \in [ns : 0..MaxNow, epoch : 0..2 * MaxCycles]
      BY <1>1, <1>e, <1>c DEF ConstantsAreNat
    <2>3. PoolTypeOK'
      BY <1>1, <1>t, <1>u, <2>1 DEF PoolTypeOK, ringVars, viewVars, askVars
    <2>4. RecordsOK'
      BY <1>1, <1>t, <1>u, <2>2 DEF RecordsOK, viewVars
    <2>5. QED
      BY <2>3, <2>4
  <1>s. ASSUME PoolTypeOK', RecordsOK',
               \A f \in pool' : f.epoch = epoch => f.ring = This,
               decoder'.pc \in {"decode", "finish"} =>
                  /\ decoder'.ring \in Cycles /\ decoder'.epoch <= epoch
                  /\ decoder'.epoch = epoch => decoder'.ring = This /\ Cardinality(pool') < Lookahead,
               decoder'.pc = "finish" => decoder'.captureNs \in 1..MaxNow
        PROVE  PoolInvariant'
    BY <1>s, <1>t, <1>u, SameCycle
       DEF EpochTells, ShownOfRing, ringVars, viewVars
  <1>a. AtTop \in [pc : {"top"}, ring : 0..MaxCycles, target : 0..MaxNow, epoch : 0..2 * MaxCycles,
                   captureNs : 0..MaxNow]
    BY <1>c DEF AtTop, ConstantsAreNat
  <1>p. /\ pool \subseteq Frame /\ IsFiniteSet(pool) /\ Cardinality(pool) <= Lookahead
        /\ Cardinality(pool) \in Nat /\ woken \in BOOLEAN
    BY <1>t, FS_CardinalityType DEF PoolTypeOK, RecordsOK
  <1>2. CASE Look
    <2> DEFINE usable == {f \in pool : Usable(f, lastShown)}
    <2>1. cursor' \in [ns : 0..MaxNow, epoch : 0..epoch]
      <3>1. cursor \in [ns : 0..MaxNow, epoch : 0..epoch]
        BY <1>t DEF RecordsOK, PoolTypeOK
      <3>2. [ns |-> 0, epoch |-> epoch] \in [ns : 0..MaxNow, epoch : 0..epoch]
        BY <1>e, <1>c DEF ConstantsAreNat
      <3>3. cursor' = cursor \/ cursor' = [ns |-> 0, epoch |-> epoch]
        BY <1>2 DEF Look, Synced
      <3>4. QED
        BY <3>1, <3>2, <3>3
    <2>2. woken' = FALSE /\ pool' \subseteq pool
      BY <1>2 DEF Look
    <2>3. /\ pool' \subseteq Frame /\ IsFiniteSet(pool') /\ Cardinality(pool') \in Nat
          /\ Cardinality(pool') <= Lookahead
      BY <1>t, <2>2, FewerFrames
    <2>4. \/ decoder' = [AtTop EXCEPT !.pc = "asleep"] \/ decoder' = [AtTop EXCEPT !.pc = "dozing"]
          \/ /\ attached /\ ~Full(pool')
             /\ decoder' = [pc |-> "decode", ring |-> This, target |-> target, epoch |-> epoch,
                            captureNs |-> 0]
      BY <1>2 DEF Look, AtTop
    <2>5. attached => This \in 0..MaxCycles /\ This \in Cycles
      BY <1>t, <1>c, WindowsOK DEF EpochTells, ConstantsAreNat
    <2>6. decoder' \in [pc : {"asleep", "dozing", "decode"}, ring : 0..MaxCycles, target : 0..MaxNow,
                        epoch : 0..2 * MaxCycles, captureNs : 0..MaxNow]
      <3>1. CASE decoder' = [AtTop EXCEPT !.pc = "asleep"] \/ decoder' = [AtTop EXCEPT !.pc = "dozing"]
        BY <1>a, <3>1
      <3>2. CASE attached /\ decoder' = [pc |-> "decode", ring |-> This, target |-> target,
                                         epoch |-> epoch, captureNs |-> 0]
        BY <1>c, <1>e, <2>5, <3>2 DEF ConstantsAreNat
      <3>3. QED
        BY <2>4, <3>1, <3>2
    <2>7. decoder'.pc = "decode" => /\ decoder'.ring = This /\ This \in Cycles /\ decoder'.epoch = epoch
                                    /\ Cardinality(pool') < Lookahead
      <3>1. [AtTop EXCEPT !.pc = "asleep"].pc = "asleep" /\ [AtTop EXCEPT !.pc = "dozing"].pc = "dozing"
        BY DEF AtTop
      <3>2. ASSUME decoder'.pc = "decode"
            PROVE  /\ attached /\ ~Full(pool')
                   /\ decoder' = [pc |-> "decode", ring |-> This, target |-> target, epoch |-> epoch,
                                  captureNs |-> 0]
        BY <2>4, <3>1, <3>2
      <3>3. QED
        BY <1>c, <2>3, <2>5, <3>2 DEF Full, ConstantsAreNat
    <2>8. PoolTypeOK' /\ RecordsOK'
      BY <1>1, <2>1, <2>2, <2>3, <2>6
    <2>9. \A f \in pool' : f.epoch = epoch => f.ring = This
      BY <1>t, <2>2 DEF EpochMeansRing
    <2>10. QED
      BY <1>s, <1>e, <2>6, <2>7, <2>8, <2>9
  <1>3. CASE Decode
    <2> DEFINE w == windows[decoder.ring]
               p == NextForDecode(w, cursor.ns, decoder.target, Forever, Interval, MaxBack)
    <2>1. decoder.pc = "decode" /\ w \in Seq(Slot) /\ Len(w) \in Nat
      BY <1>3, <1>t, WindowOf DEF Decode, EpochMeansRing
    <2>2. p # 0 => p \in 1..Len(w)
      <3> HIDE DEF w
      <3>1. QED
        BY <2>1, DecodeIsReady
    <2>3. p # 0 => w[p].captureNs \in 1..MaxNow
      <3> HIDE DEF p
      <3>1. p # 0 => w[p] \in Slot
        BY <2>1, <2>2
      <3>2. QED
        BY <3>1 DEF Slot
    <2>4. /\ UNCHANGED <<pool, cursor, woken>>
          /\ \/ decoder' = [AtTop EXCEPT !.pc = "dozing"]
             \/ p # 0 /\ decoder' = [decoder EXCEPT !.pc = "finish", !.captureNs = w[p].captureNs]
      BY <1>3 DEF Decode
    <2> HIDE DEF p, w
    <2>5. decoder' \in [pc : {"dozing", "finish"}, ring : 0..MaxCycles,
                        target : 0..MaxNow, epoch : 0..2 * MaxCycles, captureNs : 0..MaxNow]
      <3>1. [AtTop EXCEPT !.pc = "dozing"] \in [pc : {"dozing", "finish"}, ring : 0..MaxCycles,
                        target : 0..MaxNow, epoch : 0..2 * MaxCycles, captureNs : 0..MaxNow]
        BY <1>a
      <3>2. CASE p # 0 /\ decoder' = [decoder EXCEPT !.pc = "finish", !.captureNs = w[p].captureNs]
        <4>1. w[p].captureNs \in 0..MaxNow
          BY <1>c, <2>3, <3>2 DEF ConstantsAreNat
        <4>2. QED
          BY <1>t, <3>2, <4>1 DEF RecordsOK
      <3>3. QED
        BY <2>4, <3>1, <3>2
    <2>6. decoder'.pc = "finish" => /\ decoder'.ring = decoder.ring /\ decoder'.epoch = decoder.epoch
                                    /\ decoder'.captureNs \in 1..MaxNow
      BY <1>t, <1>a, <2>3, <2>4 DEF RecordsOK
    <2>7. cursor' \in [ns : 0..MaxNow, epoch : 0..epoch]
      BY <1>t, <2>4 DEF RecordsOK, PoolTypeOK
    <2>8. PoolTypeOK' /\ RecordsOK'
      BY <1>1, <1>p, <2>4, <2>5, <2>7
    <2>9. QED
      BY <1>s, <1>t, <2>1, <2>4, <2>5, <2>6, <2>8 DEF EpochMeansRing
  <1>4. CASE Finish
    <2> DEFINE frame == [captureNs |-> decoder.captureNs, ring |-> decoder.ring, epoch |-> decoder.epoch]
    <2>1. decoder' = AtTop /\ woken' = woken /\ decoder.pc = "finish"
          /\ cursor' = [cursor EXCEPT !.ns = decoder.captureNs]
      BY <1>4 DEF Finish
    <2>2. pool' = pool \/ (decoder.epoch = epoch /\ pool' = pool \cup {frame})
      BY <1>4 DEF Finish
    <2>3. frame \in Frame
      BY <1>t, <1>c, <2>1, WindowsOK DEF EpochMeansRing, RecordsOK, Frame, ConstantsAreNat
    <2>4. decoder.epoch = epoch => frame.ring = This /\ Cardinality(pool) < Lookahead
      BY <1>t, <2>1 DEF EpochMeansRing
    <2> HIDE DEF frame
    <2>5. pool' \subseteq Frame /\ IsFiniteSet(pool') /\ Cardinality(pool') <= Lookahead
      <3>1. CASE pool' = pool
        BY <1>p, <3>1
      <3>2. CASE frame \in pool /\ pool' = pool \cup {frame}
        <4>1. pool' = pool
          BY <3>2
        <4>2. QED
          BY <1>p, <4>1
      <3>3. CASE frame \notin pool /\ decoder.epoch = epoch /\ pool' = pool \cup {frame}
        <4>1. IsFiniteSet(pool') /\ Cardinality(pool') = Cardinality(pool) + 1
          BY <1>p, <3>3, FS_AddElement
        <4>2. QED
          BY <1>p, <1>c, <2>3, <2>4, <3>3, <4>1 DEF ConstantsAreNat
      <3>4. QED
        BY <2>2, <3>1, <3>2, <3>3
    <2>6. cursor' \in [ns : 0..MaxNow, epoch : 0..epoch]
      BY <1>t, <2>1 DEF RecordsOK, PoolTypeOK
    <2>7. PoolTypeOK' /\ RecordsOK'
      BY <1>1, <1>a, <1>p, <2>1, <2>5, <2>6
    <2>8. \A f \in pool' : f.epoch = epoch => f.ring = This
      BY <1>t, <2>2, <2>4 DEF EpochMeansRing
    <2>9. QED
      BY <1>s, <2>1, <2>7, <2>8 DEF AtTop
  <1>5. QED
    BY <1>2, <1>3, <1>4
-----------------------------------------------------------------------------
LEMMA PoolStep == PoolInvariant /\ [Next]_vars => PoolInvariant'
  <1> SUFFICES ASSUME PoolInvariant, [Next]_vars PROVE PoolInvariant'
    OBVIOUS
  <1>1. CASE Next
    BY <1>1, CyclesStep, QuietStep, RenderStepKeeps, AcquireKeeps, DecodeStepKeeps
       DEF Next, RenderStep, DecodeStep
  <1>2. CASE UNCHANGED vars
    BY <1>2
       DEF vars, ringVars, viewVars, askVars, decodeVars, PoolInvariant, PoolTypeOK, RecordsOK,
           EpochTells, EpochMeansRing, ShownOfRing, This, Cycles
  <1>3. QED
    BY <1>1, <1>2

\* What is on screen is a frame of the ring attached now, for any delay, ring,
\* lookahead and number of restarts (DecodeLoop, AcquireForDisplay, Detach).
THEOREM ShownTheorem == Spec => []ShownIsOfThisCycle
  <1>1. PoolInvariant => ShownIsOfThisCycle
    BY DEF PoolInvariant, ShownIsOfThisCycle, ShownOfRing
  <1>2. QED
    BY <1>1, PoolInit, PoolStep, PTL DEF Spec

\* What a step that puts a frame on screen does: the frame is newer than the one
\* before it, is due, and is not stale after a pause.
LEMMA ShownMovesOn ==
    ASSUME PoolInvariant, Next, shown' # shown, shown' # Nowhere
    PROVE  /\ shown'.captureNs > shown.captureNs /\ shown'.captureNs <= graphics.target
           /\ Resumed => graphics.due <= shown'.captureNs + Stale
  <1>t. PoolTypeOK /\ RecordsOK
    BY DEF PoolInvariant
  <1>1. Acquire
    BY DEF Next, RenderStep, DecodeStep, Tick, StartCycle, StopCycle, Render, Settle, Look, Decode,
           Finish, WakeUp, viewVars
  <1> DEFINE usable == {f \in pool : Usable(f, shown.captureNs)}
             dueNow == {f \in usable : IsDue(f)}
             best   == CHOOSE f \in dueNow : \A g \in dueNow : g.captureNs <= f.captureNs
  <1>2. /\ dueNow # {} /\ ~TooOld(best.captureNs, graphics.due)
        /\ shown' = [captureNs |-> best.captureNs, ring |-> best.ring]
    BY <1>1 DEF Acquire
  <1>3. best \in dueNow
    <2>1. dueNow \subseteq pool
      OBVIOUS
    <2> HIDE DEF dueNow
    <2>2. \E f \in dueNow : \A g \in dueNow : g.captureNs <= f.captureNs
      BY <1>t, <1>2, <2>1, NewestFrame
    <2>3. QED
      BY <2>2
  <1>4. best \in pool /\ best.captureNs > shown.captureNs /\ best.captureNs <= graphics.target
    BY <1>3 DEF Usable, IsDue
  <1>5. best.captureNs \in Int /\ graphics.due \in Int /\ Stale \in Int
    <2> HIDE DEF best
    <2>1. QED
      BY <1>t, <1>4, PoolAssumption, Constants DEF PoolTypeOK, Frame, ConstantsAreNat
  <1>6. Resumed => ~(graphics.due > best.captureNs + Stale)
    BY <1>2 DEF TooOld
  <1> HIDE DEF best, dueNow
  <1>7. QED
    BY <1>2, <1>4, <1>5, <1>6

\* Within a cycle the picture only moves forward, never ahead of the delay, and
\* after a pause never to a frame far older than the one due (AcquireForDisplay).
THEOREM ShownInOrderTheorem == Spec => ShownInOrder
  <1>1. PoolInvariant /\ [Next]_vars =>
            [shown' # shown /\ shown' # Nowhere =>
                /\ shown'.captureNs > shown.captureNs
                /\ shown'.captureNs <= graphics.target]_vars
    BY ShownMovesOn
  <1>2. PoolInvariant /\ [Next]_vars =>
            [Resumed /\ shown' # shown /\ shown' # Nowhere
                => graphics.due <= shown'.captureNs + Stale]_vars
    BY ShownMovesOn
  <1>3. QED
    BY <1>1, <1>2, PoolInit, PoolStep, PTL DEF Spec, ShownInOrder, ShownAdvances, NoFrameFromBeforeThePause
=============================================================================
