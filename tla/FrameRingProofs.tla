--------------------------- MODULE FrameRingProofs ---------------------------
(***************************************************************************)
(* Proofs about FrameRing, for every number of slots, encoders, readers    *)
(* and allocations, and every bound on captures and time.                  *)
(***************************************************************************)
EXTENDS FrameRing, FiniteSetTheorems, SequenceTheorems, WellFoundedInduction, TLAPS

-----------------------------------------------------------------------------
(* What is selected from a window is a Ready slot of it. *)

\* A nonempty set of naturals has a least element: < is well founded.
LEMMA NonemptyHasLeast ==
    ASSUME NEW S, S \subseteq Nat, S # {}
    PROVE  \E m \in S : \A n \in S : m <= n
<1> DEFINE R == {p \in Nat \X Nat : p[1] < p[2]}
<1>1. IsWellFoundedOn(R, Nat)
  BY NatLessThanWellFounded, Zenon DEF OpToRel
<1>2. PICK x \in S : \A y \in S : ~(<<y, x>> \in R)
  BY <1>1, WFMin, Zenon
<1>3. ASSUME NEW y \in S PROVE x <= y
  <2>1. <<y, x>> \notin R
    BY <1>2
  <2>2. ~(y < x)
    BY <2>1
  <2> QED BY <2>2
<1> QED
  BY <1>3

\* A nonempty subset of 1..n has a maximum.
LEMMA MaxInSet ==
    ASSUME NEW n \in Nat, NEW S, S \subseteq 1..n, S # {}
    PROVE  Max(S) \in S /\ \A x \in S : x <= Max(S)
<1> DEFINE T == {n - x : x \in S}
<1>1. PICK m \in T : \A t \in T : m <= t
  <2>0. ASSUME NEW x \in S PROVE n - x \in Nat
    OBVIOUS
  <2>1. T \subseteq Nat
    BY <2>0
  <2>2. T # {}
    OBVIOUS
  <2> HIDE DEF T
  <2> QED BY <2>1, <2>2, NonemptyHasLeast
<1>2. PICK x \in S : m = n - x
  OBVIOUS
<1>3. ASSUME NEW y \in S PROVE x >= y
  <2>1. n - y \in T
    OBVIOUS
  <2>2. m <= n - y
    BY <2>1, <1>1
  <2> QED BY <2>2, <1>2
<1> QED
  BY <1>3 DEF Max

\* A nonempty set of naturals has a minimum.
LEMMA MinInSet ==
    ASSUME NEW S, S \subseteq Nat, S # {}
    PROVE  Min(S) \in S /\ \A x \in S : Min(S) <= x
  BY NonemptyHasLeast DEF Min

\* What SelectForDisplay returns is a Ready slot of the window, or none.
LEMMA DisplayIsReady ==
    ASSUME NEW w, Len(w) \in Nat, NEW targetNs, NEW maxBack
    PROVE  LET p == SelectForDisplay(w, targetNs, maxBack)
           IN  p # 0 => p \in 1..Len(w) /\ IsReady(w[p])
<1> DEFINE due   == LastAtOrBefore(w, targetNs)
           ready == {p \in 1..Len(w) : due - maxBack <= p /\ p <= due /\ IsReady(w[p])}
<1>1. SelectForDisplay(w, targetNs, maxBack) = IF ready = {} THEN 0 ELSE Max(ready)
  BY Zenon DEF SelectForDisplay
<1>2. ready # {} => Max(ready) \in ready
  <2>1. ready \subseteq 1..Len(w)
    OBVIOUS
  <2> HIDE DEF ready
  <2> QED BY <2>1, MaxInSet
<1> QED
  BY <1>1, <1>2

\* So is what PinNextInRange pins.
LEMMA RangeIsReady ==
    ASSUME NEW w, Len(w) \in Nat, NEW afterNs, NEW untilNs
    PROVE  LET p == NextInRange(w, afterNs, untilNs)
           IN  p # 0 => p \in 1..Len(w) /\ IsReady(w[p])
<1> DEFINE ready == {p \in 1..Len(w) :
                        /\ p > LastAtOrBefore(w, afterNs)
                        /\ IsReady(w[p])
                        /\ afterNs < w[p].captureNs /\ w[p].captureNs <= untilNs}
<1>1. NextInRange(w, afterNs, untilNs) = IF ready = {} THEN 0 ELSE Min(ready)
  BY Zenon DEF NextInRange
<1>2. ready # {} => Min(ready) \in ready
  <2>1. ready \subseteq Nat
    OBVIOUS
  <2> HIDE DEF ready
  <2> QED BY <2>1, MinInSet
<1> QED
  BY <1>1, <1>2

\* And what PinNextForDecode pins.
LEMMA DecodeIsReady ==
    ASSUME NEW w, Len(w) \in Nat, NEW afterNs, NEW targetNs, NEW windowEndNs, NEW lateNs, NEW maxBack
    PROVE  LET p == NextForDecode(w, afterNs, targetNs, windowEndNs, lateNs, maxBack)
           IN  p # 0 => p \in 1..Len(w) /\ IsReady(w[p])
<1> DEFINE jump == IF afterNs + lateNs < targetNs
                   THEN SelectForDisplay(w, targetNs, maxBack) ELSE 0
           stops == {p \in 1..Len(w) :
                        /\ p > LastAtOrBefore(w, afterNs)
                        /\ ~PassedOver(w[p], targetNs, windowEndNs)}
           next == IF stops = {} THEN 0 ELSE Min(stops)
<1>1. NextForDecode(w, afterNs, targetNs, windowEndNs, lateNs, maxBack) =
          IF jump # 0 /\ w[jump].captureNs > afterNs THEN jump
          ELSE IF next # 0 /\ IsReady(w[next]) /\ w[next].captureNs <= windowEndNs
               THEN next ELSE 0
  BY Zenon DEF NextForDecode
<1>2. jump # 0 => jump \in 1..Len(w) /\ IsReady(w[jump])
  BY DisplayIsReady
<1>3. next # 0 => next \in 1..Len(w)
  <2>1. stops \subseteq Nat /\ stops \subseteq 1..Len(w)
    OBVIOUS
  <2> HIDE DEF stops
  <2> QED BY <2>1, MinInSet
<1> HIDE DEF jump, next
<1> QED
  BY <1>1, <1>2, <1>3
-----------------------------------------------------------------------------
(* The binary search. *)

TimesInOrder(w) ==
    /\ Len(w) \in Nat
    /\ w = <<>> <=> Len(w) = 0
    /\ \A p \in 1..Len(w) : w[p].captureNs \in Int
    /\ \A p, q \in 1..Len(w) : p <= q => w[p].captureNs <= w[q].captureNs

\* The slots captured at or before a time are the first k of an ordered window.
FirstAre(w, targetNs, k) ==
    k \in 0..Len(w) /\ \A p \in 1..Len(w) : w[p].captureNs <= targetNs <=> p <= k

LEMMA FirstExist ==
    ASSUME NEW w, TimesInOrder(w), NEW targetNs \in Int
    PROVE  \E k : FirstAre(w, targetNs, k)
<1> DEFINE early == {p \in 1..Len(w) : w[p].captureNs <= targetNs}
<1>1. CASE early = {}
  <2>1. FirstAre(w, targetNs, 0)
    BY <1>1 DEF FirstAre, TimesInOrder
  <2> QED
    BY <2>1
<1>2. CASE early # {}
  <2>1. early \subseteq 1..Len(w) /\ Len(w) \in Nat
    BY DEF TimesInOrder
  <2>2. Max(early) \in early /\ \A p \in early : p <= Max(early)
    <3> HIDE DEF early
    <3> QED
      BY <1>2, <2>1, MaxInSet
  <2> DEFINE k == Max(early)
  <2>3. k \in 1..Len(w) /\ w[k].captureNs <= targetNs
    BY <2>2
  <2>4. \A p \in 1..Len(w) : w[p].captureNs <= targetNs => p <= k
    BY <2>2
  <2> HIDE DEF k
  <2>5. \A p \in 1..Len(w) : p <= k => w[p].captureNs <= targetNs
    BY <2>3 DEF TimesInOrder
  <2>6. FirstAre(w, targetNs, k)
    BY <2>1, <2>3, <2>4, <2>5 DEF FirstAre
  <2> QED
    BY <2>6
<1> QED
  BY <1>1, <1>2

Bounds(w) == 1..Len(w) + 1
\* f is a solution of the search's recursion.
Search(w, targetNs, f) ==
    f = [range \in Bounds(w) \X Bounds(w) |->
            LET lo  == range[1]
                hi  == range[2]
                mid == lo + (hi - lo) \div 2
            IN  IF hi - lo <= 1 THEN lo
                ELSE IF w[mid].captureNs <= targetNs THEN f[<<mid, hi>>]
                ELSE f[<<lo, mid>>]]
\* What it computes when the first k slots are the early ones.
Nearest(k, lo, hi) == IF hi - lo <= 1 \/ k < lo THEN lo ELSE IF k >= hi THEN hi - 1 ELSE k

LEMMA NearestHalves ==
    ASSUME NEW w, NEW targetNs, NEW k, FirstAre(w, targetNs, k), Len(w) \in Nat,
           NEW lo \in Bounds(w), NEW hi \in Bounds(w), hi - lo > 1
    PROVE  LET mid == lo + (hi - lo) \div 2
           IN  /\ mid \in Bounds(w) /\ mid - lo < hi - lo /\ hi - mid < hi - lo
               /\ w[mid].captureNs <= targetNs => Nearest(k, mid, hi) = Nearest(k, lo, hi)
               /\ ~(w[mid].captureNs <= targetNs) => Nearest(k, lo, mid) = Nearest(k, lo, hi)
<1> DEFINE mid == lo + (hi - lo) \div 2
<1>1. mid \in lo + 1..hi - 1
  BY DEF Bounds
<1>2. mid \in 1..Len(w)
  BY <1>1 DEF Bounds
<1>3. w[mid].captureNs <= targetNs <=> mid <= k
  BY <1>2 DEF FirstAre
<1>4. k \in Nat
  BY DEF FirstAre
<1> HIDE DEF mid
<1>5. mid <= k => Nearest(k, mid, hi) = Nearest(k, lo, hi)
  BY <1>1, <1>4 DEF Nearest, Bounds
<1>6. ~(mid <= k) => Nearest(k, lo, mid) = Nearest(k, lo, hi)
  BY <1>1, <1>4 DEF Nearest, Bounds
<1>7. mid \in Bounds(w) /\ mid - lo < hi - lo /\ hi - mid < hi - lo
  BY <1>1, <1>2 DEF Bounds
<1>8. /\ mid \in Bounds(w) /\ mid - lo < hi - lo /\ hi - mid < hi - lo
      /\ w[mid].captureNs <= targetNs => Nearest(k, mid, hi) = Nearest(k, lo, hi)
      /\ ~(w[mid].captureNs <= targetNs) => Nearest(k, lo, mid) = Nearest(k, lo, hi)
  BY <1>3, <1>5, <1>6, <1>7
<1> QED
  BY <1>8, Zenon DEF mid

LEMMA SearchApplied ==
    ASSUME NEW w, NEW targetNs, NEW f, Search(w, targetNs, f),
           NEW lo \in Bounds(w), NEW hi \in Bounds(w)
    PROVE  LET mid == lo + (hi - lo) \div 2
           IN  f[<<lo, hi>>] = IF hi - lo <= 1 THEN lo
                               ELSE IF w[mid].captureNs <= targetNs THEN f[<<mid, hi>>]
                               ELSE f[<<lo, mid>>]
BY DEF Search

LEMMA SearchExists ==
    ASSUME NEW w, NEW targetNs, NEW k, FirstAre(w, targetNs, k), Len(w) \in Nat
    PROVE  \E f : Search(w, targetNs, f)
<1> DEFINE f == [range \in Bounds(w) \X Bounds(w) |-> Nearest(k, range[1], range[2])]
           Step(range) ==
               LET lo  == range[1]
                   hi  == range[2]
                   mid == lo + (hi - lo) \div 2
               IN  IF hi - lo <= 1 THEN lo
                   ELSE IF w[mid].captureNs <= targetNs THEN f[<<mid, hi>>]
                   ELSE f[<<lo, mid>>]
<1>1. ASSUME NEW lo \in Bounds(w), NEW hi \in Bounds(w)
      PROVE  Nearest(k, lo, hi) = Step(<<lo, hi>>)
  <2>1. CASE hi - lo <= 1
    BY <2>1 DEF Nearest
  <2>2. CASE hi - lo > 1
    <3> DEFINE mid == lo + (hi - lo) \div 2
    <3>1. /\ mid \in Bounds(w)
          /\ w[mid].captureNs <= targetNs => Nearest(k, mid, hi) = Nearest(k, lo, hi)
          /\ ~(w[mid].captureNs <= targetNs) => Nearest(k, lo, mid) = Nearest(k, lo, hi)
      BY <2>2, NearestHalves
    <3>2. Step(<<lo, hi>>) = IF w[mid].captureNs <= targetNs THEN f[<<mid, hi>>] ELSE f[<<lo, mid>>]
      BY <2>2 DEF Bounds
    <3> HIDE DEF mid, Step
    <3>3. f[<<mid, hi>>] = Nearest(k, mid, hi) /\ f[<<lo, mid>>] = Nearest(k, lo, mid)
      BY <3>1
    <3> HIDE DEF f
    <3> QED
      BY <3>1, <3>2, <3>3
  <2>3. hi - lo \in Int
    BY DEF Bounds
  <2> QED
    BY <2>1, <2>2, <2>3
<1>2. \A range \in Bounds(w) \X Bounds(w) : Nearest(k, range[1], range[2]) = Step(range)
  <2> HIDE DEF Step
  <2> QED
    BY <1>1
<1>3. f = [range \in Bounds(w) \X Bounds(w) |-> Step(range)]
  BY <1>2, Zenon
<1>4. Search(w, targetNs, f)
  BY <1>3, Zenon DEF Search
<1> QED
  BY <1>4, Zenon

LEMMA SearchUnique ==
    ASSUME NEW w, NEW targetNs, NEW k, FirstAre(w, targetNs, k), Len(w) \in Nat,
           NEW f, Search(w, targetNs, f)
    PROVE  \A lo, hi \in Bounds(w) : f[<<lo, hi>>] = Nearest(k, lo, hi)
<1> DEFINE bad == {n \in Nat : \E lo, hi \in Bounds(w) : hi - lo = n /\ f[<<lo, hi>>] # Nearest(k, lo, hi)}
<1>1. \A lo, hi \in Bounds(w) : hi - lo <= 1 => f[<<lo, hi>>] = Nearest(k, lo, hi)
  <2> SUFFICES ASSUME NEW lo \in Bounds(w), NEW hi \in Bounds(w), hi - lo <= 1
               PROVE  f[<<lo, hi>>] = Nearest(k, lo, hi)
    OBVIOUS
  <2>1. f[<<lo, hi>>] = lo
    BY SearchApplied
  <2> QED
    BY <2>1 DEF Nearest
<1>2. bad = {}
  <2> SUFFICES ASSUME bad # {} PROVE FALSE
    OBVIOUS
  <2>0. bad \subseteq Nat
    OBVIOUS
  <2>1. PICK n \in bad : \A m \in bad : n <= m
    <3> HIDE DEF bad
    <3> QED
      BY <2>0, NonemptyHasLeast
  <2>2. PICK lo \in Bounds(w), hi \in Bounds(w) : hi - lo = n /\ f[<<lo, hi>>] # Nearest(k, lo, hi)
    BY <2>1
  <2>3. hi - lo > 1
    BY <1>1, <2>2 DEF Bounds
  <2> DEFINE mid == lo + (hi - lo) \div 2
  <2>4. /\ mid \in Bounds(w) /\ mid - lo < n /\ hi - mid < n
        /\ w[mid].captureNs <= targetNs => Nearest(k, mid, hi) = Nearest(k, lo, hi)
        /\ ~(w[mid].captureNs <= targetNs) => Nearest(k, lo, mid) = Nearest(k, lo, hi)
    BY <2>2, <2>3, NearestHalves
  <2>5. f[<<lo, hi>>] = IF w[mid].captureNs <= targetNs THEN f[<<mid, hi>>] ELSE f[<<lo, mid>>]
    <3>1. ~(hi - lo <= 1)
      BY <2>3 DEF Bounds
    <3> QED
      BY <3>1, SearchApplied
  <2>6. \A a, b \in Bounds(w) : b - a < n => f[<<a, b>>] = Nearest(k, a, b)
    <3> SUFFICES ASSUME NEW a \in Bounds(w), NEW b \in Bounds(w), b - a < n,
                        f[<<a, b>>] # Nearest(k, a, b)
                 PROVE  FALSE
      OBVIOUS
    <3>1. b - a \in Nat
      BY <1>1 DEF Bounds
    <3>2. b - a \in bad
      BY <3>1
    <3> HIDE DEF bad
    <3>3. n <= b - a /\ n \in Nat
      BY <2>0, <2>1, <3>2
    <3> QED
      BY <3>1, <3>3
  <2> HIDE DEF mid, bad
  <2> QED
    BY <2>2, <2>4, <2>5, <2>6
<1>3. ASSUME NEW lo \in Bounds(w), NEW hi \in Bounds(w)
      PROVE  f[<<lo, hi>>] = Nearest(k, lo, hi)
  <2>1. hi - lo \in Nat \/ hi - lo <= 1
    BY DEF Bounds
  <2> QED
    BY <1>1, <1>2, <2>1
<1> QED
  BY <1>3

\* The binary search finds the last slot captured at or before targetNs, in a
\* window of any length: position 0 when there is none.
LEMMA SearchIsRight ==
    ASSUME NEW w, TimesInOrder(w), NEW targetNs \in Int
    PROVE  FirstAre(w, targetNs, LastAtOrBefore(w, targetNs))
<1>1. PICK k : FirstAre(w, targetNs, k)
  BY FirstExist
<1>2. CASE w = <<>> \/ w[1].captureNs > targetNs
  <2>1. LastAtOrBefore(w, targetNs) = 0
    BY <1>2, Zenon DEF LastAtOrBefore
  <2>2. k = 0
    BY <1>1, <1>2 DEF FirstAre, TimesInOrder
  <2> QED
    BY <1>1, <2>1, <2>2
<1>3. CASE ~(w = <<>> \/ w[1].captureNs > targetNs)
  <2> DEFINE f == CHOOSE f : Search(w, targetNs, f)
  <2>1. Search(w, targetNs, f)
    BY <1>1, SearchExists, Zenon DEF TimesInOrder
  <2>2. LastAtOrBefore(w, targetNs) = f[<<1, Len(w) + 1>>]
    BY <1>3, Zenon DEF LastAtOrBefore, Search, Bounds
  <2> HIDE DEF f
  <2>3. Len(w) \in Nat \ {0} /\ w[1].captureNs <= targetNs
    BY <1>3 DEF TimesInOrder
  <2>4. k \in 1..Len(w)
    BY <1>1, <2>3 DEF FirstAre
  <2>5. Nearest(k, 1, Len(w) + 1) = k
    BY <2>3, <2>4 DEF Nearest
  <2>6. f[<<1, Len(w) + 1>>] = Nearest(k, 1, Len(w) + 1)
    BY <1>1, <2>1, <2>3, SearchUnique DEF Bounds
  <2> QED
    BY <1>1, <2>2, <2>5, <2>6
<1> QED
  BY <1>2, <1>3

\* What SelectForDisplay shows in an ordered window: the newest Ready slot at or before the target, at
\* most maxBack positions behind the one due.
LEMMA DisplayIsNewest ==
    ASSUME NEW w, TimesInOrder(w), NEW targetNs \in Int, NEW maxBack \in Nat
    PROVE  LET shown == SelectForDisplay(w, targetNs, maxBack)
               Due(p) == p \in 1..Len(w) /\ w[p].captureNs <= targetNs
           IN  /\ shown # 0 => /\ Due(shown) /\ IsReady(w[shown])
                               /\ \A p : Due(p) /\ IsReady(w[p]) => p <= shown
               /\ shown = 0 => \A p : Due(p) /\ IsReady(w[p]) => LastAtOrBefore(w, targetNs) - p > maxBack
<1> DEFINE due   == LastAtOrBefore(w, targetNs)
           ready == {p \in 1..Len(w) : due - maxBack <= p /\ p <= due /\ IsReady(w[p])}
           shown == SelectForDisplay(w, targetNs, maxBack)
           Due(p) == p \in 1..Len(w) /\ w[p].captureNs <= targetNs
<1>1. shown = IF ready = {} THEN 0 ELSE Max(ready)
  BY Zenon DEF SelectForDisplay
<1>2. due \in 0..Len(w) /\ \A p \in 1..Len(w) : w[p].captureNs <= targetNs <=> p <= due
  BY SearchIsRight DEF FirstAre
<1>3. Len(w) \in Nat
  BY DEF TimesInOrder
<1>4. ready # {} => Max(ready) \in ready /\ \A p \in ready : p <= Max(ready)
  <2>1. ready \subseteq 1..Len(w)
    OBVIOUS
  <2> HIDE DEF ready
  <2> QED
    BY <1>3, <2>1, MaxInSet
<1> HIDE DEF due, shown
<1>5. shown # 0 => ready # {} /\ shown \in ready /\ \A p \in ready : p <= shown
  <2> HIDE DEF ready
  <2> QED
    BY <1>1, <1>4
<1>6. ASSUME shown # 0
      PROVE  Due(shown) /\ IsReady(w[shown]) /\ \A p : Due(p) /\ IsReady(w[p]) => p <= shown
  <2>1. shown \in 1..Len(w) /\ due - maxBack <= shown /\ shown <= due /\ IsReady(w[shown])
    BY <1>5, <1>6
  <2>2. ASSUME NEW p, Due(p), IsReady(w[p]) PROVE p <= shown
    <3>1. p \in 1..Len(w) /\ p <= due
      BY <1>2, <2>2
    <3>2. CASE due - maxBack <= p
      BY <1>5, <1>6, <2>2, <3>1, <3>2
    <3>3. CASE ~(due - maxBack <= p)
      BY <1>2, <1>3, <2>1, <3>1, <3>3
    <3> QED
      BY <3>2, <3>3
  <2> QED
    BY <1>2, <2>1, <2>2
<1>7. ASSUME shown = 0, NEW p, Due(p), IsReady(w[p])
      PROVE  due - p > maxBack
  <2>1. p \in 1..Len(w) /\ p <= due
    BY <1>2, <1>7
  <2>2. ready = {}
    <3>1. Max(ready) \in ready => Max(ready) # 0
      OBVIOUS
    <3> HIDE DEF ready
    <3> QED
      BY <1>1, <1>4, <1>7, <3>1
  <2>3. ~(due - maxBack <= p)
    BY <1>7, <2>1, <2>2
  <2> QED
    BY <1>2, <1>3, <2>1, <2>3
<1> QED
  BY <1>6, <1>7 DEF due, shown

LEMMA DecodeGoesInOrder ==
    ASSUME NEW w, TimesInOrder(w), NEW afterNs \in Int, NEW targetNs \in Int, NEW windowEndNs \in Int,
           targetNs <= windowEndNs, NEW lateNs \in Nat, NEW maxBack \in Nat
    PROVE  LET p == NextForDecode(w, afterNs, targetNs, windowEndNs, lateNs, maxBack)
           IN  p # 0 =>
                 /\ p \in 1..Len(w)
                 /\ w[p].captureNs > afterNs
                 /\ w[p].captureNs <= windowEndNs
                 /\ \/ afterNs + lateNs < targetNs /\ w[p].captureNs <= targetNs
                    \/ \A q \in 1..p - 1 : w[q].captureNs > afterNs => PassedOver(w[q], targetNs, windowEndNs)
<1> DEFINE jump == IF afterNs + lateNs < targetNs
                   THEN SelectForDisplay(w, targetNs, maxBack) ELSE 0
           after == LastAtOrBefore(w, afterNs)
           stops == {p \in 1..Len(w) : p > after /\ ~PassedOver(w[p], targetNs, windowEndNs)}
           next == IF stops = {} THEN 0 ELSE Min(stops)
           pos == NextForDecode(w, afterNs, targetNs, windowEndNs, lateNs, maxBack)
<1>1. pos = IF jump # 0 /\ w[jump].captureNs > afterNs THEN jump
            ELSE IF next # 0 /\ IsReady(w[next]) /\ w[next].captureNs <= windowEndNs
                 THEN next ELSE 0
  BY Zenon DEF NextForDecode
<1>2. jump # 0 => /\ afterNs + lateNs < targetNs
                  /\ jump \in 1..Len(w) /\ w[jump].captureNs <= targetNs
  BY DisplayIsNewest
<1>3. after \in 0..Len(w) /\ \A q \in 1..Len(w) : w[q].captureNs <= afterNs <=> q <= after
  BY SearchIsRight DEF FirstAre
<1>4. next # 0 => next \in stops /\ \A q \in stops : next <= q
  <2>1. stops \subseteq Nat
    OBVIOUS
  <2> HIDE DEF stops
  <2> QED
    BY <2>1, MinInSet
<1>5. /\ Len(w) \in Nat
      /\ \A q \in 1..Len(w) : w[q].captureNs \in Int
  BY DEF TimesInOrder
<1> HIDE DEF pos, next, jump, after
<1>6. ASSUME next # 0
      PROVE  /\ next \in 1..Len(w) /\ w[next].captureNs > afterNs
             /\ \A q \in 1..next - 1 : w[q].captureNs > afterNs => PassedOver(w[q], targetNs, windowEndNs)
  <2>1. next \in 1..Len(w) /\ next > after
    BY <1>4, <1>6
  <2>2. w[next].captureNs > afterNs
    BY <1>3, <1>5, <2>1
  <2>3. ASSUME NEW q \in 1..next - 1, w[q].captureNs > afterNs
        PROVE  PassedOver(w[q], targetNs, windowEndNs)
    <3>1. q \in 1..Len(w) /\ q > after /\ ~(next <= q)
      BY <1>3, <1>5, <2>1, <2>3
    <3> QED
      BY <1>4, <1>6, <3>1
  <2> QED
    BY <2>1, <2>2, <2>3
<1>7. CASE jump # 0 /\ w[jump].captureNs > afterNs
  <2>1. pos = jump /\ w[jump].captureNs \in Int /\ w[jump].captureNs <= windowEndNs
    BY <1>1, <1>2, <1>5, <1>7
  <2> QED
    BY <1>2, <1>7, <2>1 DEF pos
<1>8. CASE ~(jump # 0 /\ w[jump].captureNs > afterNs)
  <2>1. pos # 0 => pos = next /\ next # 0 /\ w[next].captureNs <= windowEndNs
    BY <1>1, <1>8
  <2> QED
    BY <1>6, <2>1 DEF pos
<1> QED
  BY <1>7, <1>8
-----------------------------------------------------------------------------

USE RingAssumption

\* The indices of the window are slots.
LEMMA IndexIsSlot ==
    ASSUME TypeOK, NEW p \in Nat \ {0}
    PROVE  IndexAt(p) \in Slots
<1>1. Oldest \in Slots
  BY DEF TypeOK, Slots, Oldest
<1> QED
  BY <1>1 DEF IndexAt, Slots

\* The window is a sequence, as long as the slots reserved at least once.
LEMMA WindowLength ==
    ASSUME TypeOK
    PROVE  Window \in Seq(Header) /\ Len(Window) = buffered
<1>1. \A p \in 1..buffered : headers[IndexAt(p)] \in Header
  BY IndexIsSlot DEF TypeOK
<1>2. buffered \in Nat
  BY DEF TypeOK
<1> QED
  BY <1>1, <1>2 DEF Window

\* A position a reader pins is a Ready slot of the window.
Selectable(p) == p # 0 => p \in 1..buffered /\ headers[IndexAt(p)].state = "Ready"

LEMMA DisplayIsSelectable ==
    ASSUME TypeOK, NEW targetNs, NEW maxBack
    PROVE  Selectable(SelectForDisplay(Window, targetNs, maxBack))
<1>1. Len(Window) = buffered /\ buffered \in Nat
  BY WindowLength DEF TypeOK
<1> QED
  BY <1>1, DisplayIsReady DEF Selectable, IsReady, Window

LEMMA RangeIsSelectable ==
    ASSUME TypeOK, NEW afterNs, NEW untilNs
    PROVE  Selectable(NextInRange(Window, afterNs, untilNs))
<1>1. Len(Window) = buffered /\ buffered \in Nat
  BY WindowLength DEF TypeOK
<1> QED
  BY <1>1, RangeIsReady DEF Selectable, IsReady, Window

LEMMA DecodeIsSelectable ==
    ASSUME TypeOK, NEW afterNs, NEW targetNs, NEW windowEndNs
    PROVE  Selectable(NextForDecode(Window, afterNs, targetNs, windowEndNs, LateNs, MaxBack))
<1>1. Len(Window) = buffered /\ buffered \in Nat
  BY WindowLength DEF TypeOK
<1> QED
  BY <1>1, DecodeIsReady DEF Selectable, IsReady, Window

\* The actions of Next, one by one, with a pin's position made explicit.
LEMMA NextCases ==
    ASSUME TypeOK, Next
    PROVE  \/ \E t \in Times : Reserve(t)
           \/ FreePrevious
           \/ \E r \in reserved : DropReservation(r)
           \/ \E e \in Encoders : \E r \in reserved : BeginEncode(e, r)
           \/ \E e \in Encoders : DropEncoding(e)
           \/ \E e \in Encoders : \E a \in Allocations : AllocatePayload(e, a)
           \/ \E e \in Encoders : Publish(e)
           \/ \E r \in Readers : \E p \in 1..buffered :
                  headers[IndexAt(p)].state = "Ready" /\ Pin(r, p)
           \/ \E r \in Readers : Unpin(r)
<1>1. ASSUME NEW r \in Readers, NEW p, Selectable(p), Pin(r, p)
      PROVE  \E q \in 1..buffered : headers[IndexAt(q)].state = "Ready" /\ Pin(r, q)
  BY <1>1 DEF Selectable, Pin
<1>2. ASSUME NEW r \in Readers, ReaderStep(r), ~Unpin(r)
      PROVE  \E q \in 1..buffered : headers[IndexAt(q)].state = "Ready" /\ Pin(r, q)
  <2>1. CASE \E afterNs, targetNs, windowEndNs \in Times :
                 targetNs <= windowEndNs /\ PinNextForDecode(r, afterNs, targetNs, windowEndNs)
    BY <2>1, <1>1, DecodeIsSelectable, Zenon DEF PinNextForDecode
  <2>2. CASE \E afterNs, untilNs \in Times : PinNextInRange(r, afterNs, untilNs)
    BY <2>2, <1>1, RangeIsSelectable, Zenon DEF PinNextInRange
  <2>3. CASE \E targetNs \in Times : PinForDisplay(r, targetNs)
    BY <2>3, <1>1, DisplayIsSelectable, Zenon DEF PinForDisplay
  <2> QED
    BY <1>2, <2>1, <2>2, <2>3, Zenon DEF ReaderStep
<1> QED
  BY <1>2, Zenon DEF Next, GraphicsStep, EncoderStep

\* Type correctness, action by action.
LEMMA ReserveType ==
    ASSUME TypeOK, NEW t \in Times, Reserve(t)
    PROVE  TypeOK'
<1>1. NextSlot(writeIndex) \in Slots
  BY DEF TypeOK, Slots, NextSlot
<1>2. Later(t, lastCaptureNs) \in Nat
  BY DEF TypeOK, Later, Times
<1>3. [state |-> "Reserved", captureNs |-> Later(t, lastCaptureNs),
       generation |-> nextGeneration, pins |-> 0, alloc |-> NoAllocation] \in Header
  BY <1>2 DEF TypeOK, Header, SlotState, Undecided, MaybeAllocation
<1>4. headers' \in [Slots -> Header]
  BY <1>3 DEF Reserve, TypeOK
<1>5. reserved' \subseteq Reservation
  BY DEF Reserve, TypeOK, Reservation
<1>6. freeing' \in MaybeAllocation
  BY DEF Reserve, TypeOK, Header
<1>7. buffered' \in 0..SlotCount
  BY DEF Reserve, TypeOK
<1> QED
  BY <1>1, <1>2, <1>4, <1>5, <1>6, <1>7 DEF Reserve, TypeOK

LEMMA StagedType ==
    ASSUME NEW slot \in Header, NEW state \in SlotState, NEW alloc \in MaybeAllocation
    PROVE  Staged(slot, state, alloc) \in Header
BY DEF Staged, Header

LEMMA PinnedType ==
    ASSUME NEW slot \in Header, NEW pins \in Nat
    PROVE  Pinned(slot, pins) \in Header
BY DEF Pinned, Header

LEMMA StatesAreSlotStates ==
    {"Free", "Reserved", "Encoding", "Ready", "Dropped"} = SlotState
BY DEF SlotState, Undecided, Settled

LEMMA MarkedDroppedType ==
    ASSUME TypeOK, NEW index \in Slots, NEW generation
    PROVE  MarkedDropped(index, generation) \in [Slots -> Header]
<1>1. headers[index] \in Header /\ headers[index].alloc \in MaybeAllocation
  BY DEF TypeOK, Header
<1> QED
  BY <1>1, StagedType, StatesAreSlotStates DEF MarkedDropped, TypeOK

\* Type correctness.
LEMMA TypeStep ==
    ASSUME RingInvariant, [Next]_vars
    PROVE  TypeOK'
<1>0. TypeOK
  BY DEF RingInvariant
<1>1. ASSUME NEW t \in Times, Reserve(t) PROVE TypeOK'
  BY <1>0, <1>1, ReserveType
<1>2. ASSUME FreePrevious PROVE TypeOK'
  BY <1>0, <1>2 DEF FreePrevious, ringVars, TypeOK, MaybeAllocation
<1>3. ASSUME NEW r \in reserved, DropReservation(r) PROVE TypeOK'
  <2>1. r.index \in Slots
    BY <1>0 DEF TypeOK, Reservation
  <2> QED
    BY <1>0, <1>3, <2>1, MarkedDroppedType DEF DropReservation, UnchangedIndices, TypeOK
<1>4. ASSUME NEW e \in Encoders, NEW r \in reserved, BeginEncode(e, r) PROVE TypeOK'
  <2>1. r.index \in Slots /\ r.generation \in Nat
    BY <1>0 DEF TypeOK, Reservation
  <2>2. headers[r.index] \in Header /\ headers[r.index].alloc \in MaybeAllocation
    BY <1>0, <2>1 DEF TypeOK, Header
  <2>3. headers' \in [Slots -> Header]
    BY <1>0, <1>4, <2>2, StagedType, StatesAreSlotStates DEF BeginEncode, TypeOK
  <2>4. encoder' \in [Encoders -> Encoder]
    BY <1>0, <1>4, <2>1 DEF BeginEncode, TypeOK, Encoder, MaybeAllocation
  <2> QED
    BY <1>0, <1>4, <2>3, <2>4 DEF BeginEncode, UnchangedIndices, TypeOK
<1>5. ASSUME NEW e \in Encoders, DropEncoding(e) PROVE TypeOK'
  <2>1. encoder[e].index \in Slots
    BY <1>0 DEF TypeOK, Encoder
  <2>2. encoder' \in [Encoders -> Encoder]
    BY <1>0, <1>5 DEF DropEncoding, TypeOK, Encoder, IdleEncoder, MaybeAllocation, Slots
  <2> QED
    BY <1>0, <1>5, <2>1, <2>2, MarkedDroppedType DEF DropEncoding, UnchangedIndices, TypeOK
<1>6. ASSUME NEW e \in Encoders, NEW a \in Allocations, AllocatePayload(e, a) PROVE TypeOK'
  <2>1. encoder' \in [Encoders -> Encoder]
    BY <1>0, <1>6 DEF AllocatePayload, TypeOK, Encoder, MaybeAllocation
  <2> QED
    BY <1>0, <1>6, <2>1 DEF AllocatePayload, ringVars, TypeOK
<1>7. ASSUME NEW e \in Encoders, Publish(e) PROVE TypeOK'
  <2>1. encoder[e].index \in Slots /\ encoder[e].alloc \in MaybeAllocation
    BY <1>0 DEF TypeOK, Encoder
  <2>2. headers[encoder[e].index] \in Header
    BY <1>0, <2>1 DEF TypeOK
  <2>3. headers' \in [Slots -> Header]
    BY <1>0, <1>7, <2>1, <2>2, StagedType, StatesAreSlotStates DEF Publish, TypeOK
  <2>4. encoder' \in [Encoders -> Encoder]
    BY <1>0, <1>7 DEF Publish, TypeOK, Encoder, IdleEncoder, MaybeAllocation, Slots
  <2> QED
    BY <1>0, <1>7, <2>3, <2>4 DEF Publish, UnchangedIndices, TypeOK
<1>8. ASSUME NEW r \in Readers, NEW p \in 1..buffered,
             headers[IndexAt(p)].state = "Ready", Pin(r, p)
      PROVE  TypeOK'
  <2>1. IndexAt(p) \in Slots
    BY <1>0, IndexIsSlot
  <2>2. headers[IndexAt(p)] \in Header /\ headers[IndexAt(p)].pins + 1 \in Nat
    BY <1>0, <2>1 DEF TypeOK, Header
  <2>3. headers' \in [Slots -> Header]
    BY <1>0, <1>8, <2>1, <2>2, PinnedType DEF Pin, TypeOK
  <2>4. view' \in [Readers -> View \cup {NoView}]
    BY <1>0, <1>8, <2>1, <2>2 DEF Pin, TypeOK, View, Header
  <2> QED
    BY <1>0, <1>8, <2>3, <2>4 DEF Pin, UnchangedIndices, TypeOK
<1>9. ASSUME NEW r \in Readers, Unpin(r) PROVE TypeOK'
  <2>1. view[r].index \in Slots
    BY <1>0, <1>9 DEF TypeOK, Unpin, View
  <2>2. headers[view[r].index] \in Header
    BY <1>0, <2>1 DEF TypeOK
  <2>3. headers[view[r].index].pins > 0 => headers[view[r].index].pins - 1 \in Nat
    BY <2>2 DEF Header
  <2>4. headers' \in [Slots -> Header]
    BY <1>0, <1>9, <2>2, <2>3, PinnedType DEF Unpin, TypeOK
  <2>5. view' \in [Readers -> View \cup {NoView}]
    BY <1>0, <1>9 DEF Unpin, TypeOK
  <2> QED
    BY <1>0, <1>9, <2>4, <2>5 DEF Unpin, UnchangedIndices, TypeOK
<1>10. CASE UNCHANGED vars
  BY <1>0, <1>10 DEF vars, ringVars, TypeOK
<1> QED
  BY <1>0, <1>1, <1>2, <1>3, <1>4, <1>5, <1>6, <1>7, <1>8, <1>9, <1>10, NextCases, Zenon

\* Every payload has one place.
LEMMA PlacesStep ==
    ASSUME RingInvariant, [Next]_vars
    PROVE  PayloadPlaces'
<1>0. TypeOK /\ PayloadPlaces /\ UndecidedIsHeld
  BY DEF RingInvariant
<1>1. ASSUME NEW t \in Times, Reserve(t) PROVE PayloadPlaces'
  BY <1>0, <1>1 DEF Reserve, PayloadPlaces, TypeOK
<1>2. ASSUME FreePrevious PROVE PayloadPlaces'
  BY <1>0, <1>2 DEF FreePrevious, ringVars, PayloadPlaces
<1>3. ASSUME NEW r \in reserved, DropReservation(r) PROVE PayloadPlaces'
  BY <1>0, <1>3 DEF DropReservation, MarkedDropped, Staged, Undecided, PayloadPlaces, TypeOK
<1>4. ASSUME NEW e \in Encoders, NEW r \in reserved, BeginEncode(e, r) PROVE PayloadPlaces'
  BY <1>0, <1>4 DEF BeginEncode, CanEncode, Staged, PayloadPlaces, TypeOK
<1>5. ASSUME NEW e \in Encoders, DropEncoding(e) PROVE PayloadPlaces'
  BY <1>0, <1>5 DEF DropEncoding, MarkedDropped, Staged, Undecided, IdleEncoder, PayloadPlaces, TypeOK
<1>6. ASSUME NEW e \in Encoders, NEW a \in Allocations, AllocatePayload(e, a) PROVE PayloadPlaces'
  BY <1>0, <1>6 DEF AllocatePayload, ringVars, PayloadPlaces, TypeOK
<1>7. ASSUME NEW e \in Encoders, Publish(e) PROVE PayloadPlaces'
  BY <1>0, <1>7 DEF Publish, CanPublish, Staged, IdleEncoder, PayloadPlaces, TypeOK
<1>8. ASSUME NEW r \in Readers, NEW p \in 1..buffered,
             headers[IndexAt(p)].state = "Ready", Pin(r, p)
      PROVE  PayloadPlaces'
  BY <1>0, <1>8 DEF Pin, Pinned, PayloadPlaces, TypeOK
<1>9. ASSUME NEW r \in Readers, Unpin(r) PROVE PayloadPlaces'
  BY <1>0, <1>9 DEF Unpin, Pinned, PayloadPlaces, TypeOK
<1>10. CASE UNCHANGED vars
  BY <1>0, <1>10 DEF vars, ringVars, PayloadPlaces
<1> QED
  BY <1>0, <1>1, <1>2, <1>3, <1>4, <1>5, <1>6, <1>7, <1>8, <1>9, <1>10, NextCases, Zenon

\* Every allocation in use has one owner.
LEMMA OwnedStep ==
    ASSUME RingInvariant, [Next]_vars
    PROVE  AllocationOwnedOnce'
<1>0. TypeOK /\ AllocationOwnedOnce /\ PayloadPlaces /\ UndecidedIsHeld
  BY DEF RingInvariant
<1>1. ASSUME NEW t \in Times, Reserve(t) PROVE AllocationOwnedOnce'
  BY <1>0, <1>1 DEF Reserve, AllocationOwnedOnce, TypeOK
<1>2. ASSUME FreePrevious PROVE AllocationOwnedOnce'
  BY <1>0, <1>2 DEF FreePrevious, ringVars, AllocationOwnedOnce, TypeOK
<1>3. ASSUME NEW r \in reserved, DropReservation(r) PROVE AllocationOwnedOnce'
  BY <1>0, <1>3 DEF DropReservation, MarkedDropped, Staged, AllocationOwnedOnce, TypeOK
<1>4. ASSUME NEW e \in Encoders, NEW r \in reserved, BeginEncode(e, r)
      PROVE  AllocationOwnedOnce'
  BY <1>0, <1>4 DEF BeginEncode, Staged, AllocationOwnedOnce, PayloadPlaces, TypeOK
<1>5. ASSUME NEW e \in Encoders, DropEncoding(e) PROVE AllocationOwnedOnce'
  BY <1>0, <1>5 DEF DropEncoding, MarkedDropped, Staged, IdleEncoder, AllocationOwnedOnce,
                    PayloadPlaces, TypeOK
<1>6. ASSUME NEW e \in Encoders, NEW a \in Allocations, AllocatePayload(e, a)
      PROVE  AllocationOwnedOnce'
  BY <1>0, <1>6, RingAssumption DEF AllocatePayload, ringVars, AllocationOwnedOnce, PayloadPlaces, TypeOK
<1>7. ASSUME NEW e \in Encoders, Publish(e) PROVE AllocationOwnedOnce'
  <2> DEFINE ix == encoder[e].index
             a  == encoder[e].alloc
  <2>1. CanPublish(e) /\ ix \in Slots /\ a # NoAllocation /\ headers[ix].alloc = NoAllocation
    BY <1>0, <1>7 DEF Publish, CanPublish, PayloadPlaces, UndecidedIsHeld, Encoding, TypeOK, Encoder
  <2>2. \A i \in Slots : headers'[i].alloc = IF i = ix THEN a ELSE headers[i].alloc
    BY <1>0, <1>7, <2>1 DEF Publish, Staged, TypeOK
  <2>3. \A f \in Encoders :
            encoder'[f].alloc = IF f = e THEN NoAllocation ELSE encoder[f].alloc
    BY <1>0, <1>7 DEF Publish, IdleEncoder, TypeOK
  <2>4. live' = live /\ freeing' = freeing
    BY <1>7, <2>1 DEF Publish
  <2> HIDE DEF ix
  <2> QED
    BY <1>0, <2>1, <2>2, <2>3, <2>4 DEF AllocationOwnedOnce
<1>8. ASSUME NEW r \in Readers, NEW p \in 1..buffered,
             headers[IndexAt(p)].state = "Ready", Pin(r, p)
      PROVE  AllocationOwnedOnce'
  BY <1>0, <1>8 DEF Pin, Pinned, AllocationOwnedOnce, TypeOK
<1>9. ASSUME NEW r \in Readers, Unpin(r) PROVE AllocationOwnedOnce'
  BY <1>0, <1>9 DEF Unpin, Pinned, AllocationOwnedOnce, TypeOK
<1>10. CASE UNCHANGED vars
  BY <1>0, <1>10 DEF vars, ringVars, AllocationOwnedOnce
<1> QED
  BY <1>0, <1>1, <1>2, <1>3, <1>4, <1>5, <1>6, <1>7, <1>8, <1>9, <1>10, NextCases, Zenon

\* Every undecided capture has one holder.
LEMMA HeldStep ==
    ASSUME RingInvariant, [Next]_vars
    PROVE  UndecidedIsHeld'
<1>0. TypeOK /\ UndecidedIsHeld
  BY DEF RingInvariant
<1>1. ASSUME NEW t \in Times, Reserve(t) PROVE UndecidedIsHeld'
  BY <1>0, <1>1 DEF Reserve, UndecidedIsHeld, CanEncode, CanPublish, Encoding, SlotBusy,
                    Undecided, TypeOK, Encoder, Reservation
<1>2. ASSUME FreePrevious PROVE UndecidedIsHeld'
  BY <1>0, <1>2 DEF FreePrevious, ringVars, UndecidedIsHeld, CanEncode, CanPublish, Encoding
<1>3. ASSUME NEW r \in reserved, DropReservation(r) PROVE UndecidedIsHeld'
  BY <1>0, <1>3 DEF DropReservation, MarkedDropped, Staged, UndecidedIsHeld, CanEncode,
                    CanPublish, Encoding, Undecided, TypeOK, Encoder, Reservation
<1>4. ASSUME NEW e \in Encoders, NEW r \in reserved, BeginEncode(e, r) PROVE UndecidedIsHeld'
  BY <1>0, <1>4 DEF BeginEncode, Staged, UndecidedIsHeld, CanEncode, CanPublish, Encoding,
                    TypeOK, Encoder, Reservation, UnchangedIndices
<1>5. ASSUME NEW e \in Encoders, DropEncoding(e) PROVE UndecidedIsHeld'
  BY <1>0, <1>5 DEF DropEncoding, MarkedDropped, Staged, IdleEncoder, UndecidedIsHeld,
                    CanEncode, CanPublish, Encoding, Undecided, TypeOK, Encoder, Reservation
<1>6. ASSUME NEW e \in Encoders, NEW a \in Allocations, AllocatePayload(e, a)
      PROVE  UndecidedIsHeld'
  BY <1>0, <1>6 DEF AllocatePayload, ringVars, UndecidedIsHeld, CanEncode, CanPublish,
                    Encoding, TypeOK, Encoder
<1>7. ASSUME NEW e \in Encoders, Publish(e) PROVE UndecidedIsHeld'
  BY <1>0, <1>7 DEF Publish, Staged, IdleEncoder, UndecidedIsHeld, CanEncode, CanPublish,
                    Encoding, TypeOK, Encoder, Reservation
<1>8. ASSUME NEW r \in Readers, NEW p \in 1..buffered,
             headers[IndexAt(p)].state = "Ready", Pin(r, p)
      PROVE  UndecidedIsHeld'
  BY <1>0, <1>8 DEF Pin, Pinned, UndecidedIsHeld, CanEncode, CanPublish, Encoding, TypeOK,
                    Encoder, Reservation
<1>9. ASSUME NEW r \in Readers, Unpin(r) PROVE UndecidedIsHeld'
  BY <1>0, <1>9 DEF Unpin, Pinned, UndecidedIsHeld, CanEncode, CanPublish, Encoding, TypeOK,
                    Encoder, Reservation
<1>10. CASE UNCHANGED vars
  BY <1>0, <1>10 DEF vars, ringVars, UndecidedIsHeld, CanEncode, CanPublish, Encoding
<1> QED
  BY <1>0, <1>1, <1>2, <1>3, <1>4, <1>5, <1>6, <1>7, <1>8, <1>9, <1>10, NextCases, Zenon

\* What a reader has pinned stays as it was. Its payload is in use because a
\* Ready slot owns one.
Kept(r) ==
    /\ headers[view[r].index].state = "Ready"
    /\ headers[view[r].index].generation = view[r].generation
    /\ headers[view[r].index].captureNs = view[r].captureNs
    /\ headers[view[r].index].alloc = view[r].alloc

LEMMA KeptIsEnough ==
    ASSUME TypeOK', AllocationOwnedOnce', PayloadPlaces',
           \A r \in Readers : view'[r] # NoView => Kept(r)',
           \A i \in Slots : headers'[i].pins = Cardinality(HoldersOf(i)')
    PROVE  PinnedFramesStay'
<1>1. ASSUME NEW i \in Slots, headers'[i].state = "Ready"
      PROVE  headers'[i].alloc \in live' \ {freeing'}
  BY <1>1 DEF TypeOK, Header, MaybeAllocation, AllocationOwnedOnce, PayloadPlaces
<1>2. \A r \in Readers : view'[r] # NoView => view'[r].index \in Slots
  BY DEF TypeOK, View
<1>3. \A i \in Slots : headers'[i].pins = Cardinality(HoldersOf(i))'
  OBVIOUS
<1> QED
  BY <1>1, <1>2, <1>3 DEF PinnedFramesStay, Kept

LEMMA HoldersFinite ==
    ASSUME NEW i
    PROVE  IsFiniteSet(HoldersOf(i)) /\ Cardinality(HoldersOf(i)) \in Nat
<1>1. HoldersOf(i) \subseteq Readers /\ IsFiniteSet(Readers)
  BY RingAssumption DEF HoldersOf
<1> QED
  BY <1>1, FS_Subset, FS_CardinalityType

\* An unpinned slot is held by no reader.
LEMMA UnpinnedIsUnheld ==
    ASSUME PinnedFramesStay, NEW i \in Slots, headers[i].pins = 0, NEW r \in Readers,
           view[r] # NoView
    PROVE  view[r].index # i
<1>1. Cardinality(HoldersOf(i)) = 0
  BY DEF PinnedFramesStay
<1>2. HoldersOf(i) = {}
  BY <1>1, HoldersFinite, FS_EmptySet
<1> QED
  BY <1>2 DEF HoldersOf

\* A step that leaves the views alone and the fields of a pinned slot.
LEMMA ViewsUntouched ==
    ASSUME PinnedFramesStay, TypeOK, TypeOK', AllocationOwnedOnce', PayloadPlaces', view' = view,
           \A i \in Slots : headers'[i].pins = headers[i].pins,
           \A i \in Slots : headers[i].state = "Ready" =>
                /\ headers'[i].state = headers[i].state
                /\ headers'[i].generation = headers[i].generation
                /\ headers'[i].captureNs = headers[i].captureNs
                /\ headers'[i].alloc = headers[i].alloc
    PROVE  PinnedFramesStay'
<1>1. \A r \in Readers : view'[r] # NoView => Kept(r)'
  BY DEF PinnedFramesStay, Kept, TypeOK, View
<1>2. \A i \in Slots : HoldersOf(i)' = HoldersOf(i)
  BY DEF HoldersOf
<1>3. \A i \in Slots : headers'[i].pins = Cardinality(HoldersOf(i)')
  BY <1>2 DEF PinnedFramesStay
<1> QED
  BY <1>1, <1>3, KeptIsEnough

LEMMA PinnedStep ==
    ASSUME RingInvariant, [Next]_vars
    PROVE  PinnedFramesStay'
<1>0. /\ TypeOK /\ PinnedFramesStay /\ AllocationOwnedOnce /\ PayloadPlaces /\ UndecidedIsHeld
      /\ TypeOK' /\ AllocationOwnedOnce' /\ PayloadPlaces'
  BY TypeStep, OwnedStep, PlacesStep DEF RingInvariant
<1>1. ASSUME NEW t \in Times, Reserve(t) PROVE PinnedFramesStay'
  <2>1. writeIndex \in Slots /\ headers[writeIndex].pins = 0
    BY <1>0, <1>1 DEF TypeOK, Header, Reserve, SlotBusy
  <2>2. \A r \in Readers : view[r] # NoView => view[r].index # writeIndex
    BY <1>0, <2>1, UnpinnedIsUnheld
  <2>3. \A r \in Readers : view'[r] # NoView => Kept(r)'
    BY <1>0, <1>1, <2>2 DEF Reserve, PinnedFramesStay, Kept, TypeOK, View
  <2>4. \A i \in Slots : HoldersOf(i)' = HoldersOf(i)
    BY <1>1 DEF HoldersOf, Reserve
  <2>5. \A i \in Slots : headers'[i].pins = Cardinality(HoldersOf(i)')
    BY <1>0, <1>1, <2>1, <2>4 DEF PinnedFramesStay, Reserve, TypeOK
  <2> QED
    BY <1>0, <2>3, <2>5, KeptIsEnough
<1>2. ASSUME FreePrevious PROVE PinnedFramesStay'
  BY <1>0, <1>2, ViewsUntouched DEF FreePrevious, ringVars
<1>3. ASSUME NEW r \in reserved, DropReservation(r) PROVE PinnedFramesStay'
  <2>1. /\ view' = view
        /\ \A i \in Slots : headers'[i].pins = headers[i].pins
        /\ \A i \in Slots : i # r.index => headers'[i] = headers[i]
        /\ headers[r.index].state = "Reserved"
        /\ r.index \in Slots
    BY <1>0, <1>3 DEF DropReservation, MarkedDropped, Staged, UndecidedIsHeld, CanEncode,
                      TypeOK, Reservation
  <2> QED
    BY <1>0, <2>1, ViewsUntouched
<1>4. ASSUME NEW e \in Encoders, NEW r \in reserved, BeginEncode(e, r) PROVE PinnedFramesStay'
  <2>1. /\ view' = view
        /\ \A i \in Slots : headers'[i].pins = headers[i].pins
        /\ \A i \in Slots : i # r.index => headers'[i] = headers[i]
        /\ headers[r.index].state = "Reserved"
        /\ r.index \in Slots
    BY <1>0, <1>4 DEF BeginEncode, Staged, UndecidedIsHeld, CanEncode, TypeOK, Reservation
  <2> QED
    BY <1>0, <2>1, ViewsUntouched
<1>5. ASSUME NEW e \in Encoders, DropEncoding(e) PROVE PinnedFramesStay'
  <2>1. /\ view' = view
        /\ \A i \in Slots : headers'[i].pins = headers[i].pins
        /\ \A i \in Slots : i # encoder[e].index => headers'[i] = headers[i]
        /\ headers[encoder[e].index].state = "Encoding"
        /\ encoder[e].index \in Slots
    BY <1>0, <1>5 DEF DropEncoding, MarkedDropped, Staged, UndecidedIsHeld, CanPublish,
                      Encoding, TypeOK, Encoder
  <2> QED
    BY <1>0, <2>1, ViewsUntouched
<1>6. ASSUME NEW e \in Encoders, NEW a \in Allocations, AllocatePayload(e, a)
      PROVE  PinnedFramesStay'
  BY <1>0, <1>6, ViewsUntouched DEF AllocatePayload, ringVars
<1>7. ASSUME NEW e \in Encoders, Publish(e) PROVE PinnedFramesStay'
  <2>1. /\ view' = view
        /\ \A i \in Slots : headers'[i].pins = headers[i].pins
        /\ \A i \in Slots : i # encoder[e].index => headers'[i] = headers[i]
        /\ headers[encoder[e].index].state = "Encoding"
        /\ encoder[e].index \in Slots
    BY <1>0, <1>7 DEF Publish, Staged, UndecidedIsHeld, CanPublish, Encoding, TypeOK, Encoder
  <2> QED
    BY <1>0, <2>1, ViewsUntouched
<1>8. ASSUME NEW r \in Readers, NEW p \in 1..buffered,
             headers[IndexAt(p)].state = "Ready", Pin(r, p)
      PROVE  PinnedFramesStay'
  <2>0. PICK ix \in Slots : ix = IndexAt(p)
    BY <1>0, IndexIsSlot
  <2>1. headers[ix] \in Header /\ headers[ix].state = "Ready"
    BY <1>0, <1>8, <2>0 DEF TypeOK
  <2>2. /\ \A i \in Slots : headers'[i].pins = IF i = ix THEN headers[ix].pins + 1
                                               ELSE headers[i].pins
        /\ \A i \in Slots : /\ headers'[i].state = headers[i].state
                            /\ headers'[i].generation = headers[i].generation
                            /\ headers'[i].captureNs = headers[i].captureNs
                            /\ headers'[i].alloc = headers[i].alloc
        /\ \A q \in Readers : view'[q] =
              IF q = r THEN [index |-> ix, generation |-> headers[ix].generation,
                             captureNs |-> headers[ix].captureNs, alloc |-> headers[ix].alloc]
              ELSE view[q]
        /\ view[r] = NoView
    BY <1>0, <1>8, <2>0, <2>1 DEF Pin, Pinned, TypeOK
  <2>3. view'[r] # NoView
    BY <1>8, <2>1, <2>2, RingAssumption DEF View, Header, MaybeAllocation
  <2>4. HoldersOf(ix)' = HoldersOf(ix) \cup {r} /\ r \notin HoldersOf(ix)
    BY <2>2, <2>3 DEF HoldersOf
  <2>5. \A i \in Slots : i # ix => HoldersOf(i)' = HoldersOf(i)
    BY <2>2, <2>3 DEF HoldersOf
  <2>6. Cardinality(HoldersOf(ix)') = Cardinality(HoldersOf(ix)) + 1
    BY <2>4, HoldersFinite, FS_AddElement
  <2>7. \A i \in Slots : headers'[i].pins = Cardinality(HoldersOf(i)')
    BY <1>0, <2>1, <2>2, <2>5, <2>6 DEF PinnedFramesStay
  <2>8. \A q \in Readers : view'[q] # NoView => Kept(q)'
    BY <1>0, <2>1, <2>2 DEF PinnedFramesStay, Kept, TypeOK, View
  <2> QED
    BY <1>0, <2>7, <2>8, KeptIsEnough
<1>9. ASSUME NEW r \in Readers, Unpin(r) PROVE PinnedFramesStay'
  <2>0. PICK ix \in Slots : ix = view[r].index
    BY <1>0, <1>9 DEF Unpin, TypeOK, View
  <2>1. r \in HoldersOf(ix) /\ headers[ix].generation = view[r].generation
    BY <1>0, <1>9, <2>0 DEF Unpin, HoldersOf, PinnedFramesStay
  <2>2. headers[ix].pins = Cardinality(HoldersOf(ix)) /\ headers[ix].pins > 0
    BY <1>0, <2>1, HoldersFinite, FS_EmptySet DEF PinnedFramesStay
  <2>3. /\ \A i \in Slots : headers'[i].pins = IF i = ix THEN headers[ix].pins - 1
                                               ELSE headers[i].pins
        /\ \A i \in Slots : /\ headers'[i].state = headers[i].state
                            /\ headers'[i].generation = headers[i].generation
                            /\ headers'[i].captureNs = headers[i].captureNs
                            /\ headers'[i].alloc = headers[i].alloc
        /\ \A q \in Readers : view'[q] = IF q = r THEN NoView ELSE view[q]
    BY <1>0, <1>9, <2>0, <2>1, <2>2 DEF Unpin, Pinned, TypeOK
  <2>4. HoldersOf(ix)' = HoldersOf(ix) \ {r}
    BY <2>0, <2>3 DEF HoldersOf
  <2>5. \A i \in Slots : i # ix => HoldersOf(i)' = HoldersOf(i)
    BY <2>0, <2>3 DEF HoldersOf
  <2>6. Cardinality(HoldersOf(ix)') = Cardinality(HoldersOf(ix)) - 1
    BY <2>1, <2>4, HoldersFinite, FS_RemoveElement
  <2>7. \A i \in Slots : headers'[i].pins = Cardinality(HoldersOf(i)')
    BY <1>0, <2>2, <2>3, <2>5, <2>6 DEF PinnedFramesStay
  <2>8. \A q \in Readers : view'[q] # NoView => Kept(q)'
    BY <1>0, <2>3 DEF PinnedFramesStay, Kept, TypeOK, View
  <2> QED
    BY <1>0, <2>7, <2>8, KeptIsEnough
<1>10. CASE UNCHANGED vars
  BY <1>0, <1>10, ViewsUntouched DEF vars, ringVars
<1> QED
  BY <1>0, <1>1, <1>2, <1>3, <1>4, <1>5, <1>6, <1>7, <1>8, <1>9, <1>10, NextCases, Zenon

LEMMA InitInvariant ==
    ASSUME Init
    PROVE  RingInvariant
<1>1. TypeOK
  BY DEF Init, TypeOK, Header, Encoder, IdleEncoder, Slots, MaybeAllocation, SlotState
<1>2. AllocationOwnedOnce /\ PayloadPlaces /\ UndecidedIsHeld
  BY DEF Init, AllocationOwnedOnce, PayloadPlaces, UndecidedIsHeld, IdleEncoder, Encoding
<1>3. \A i \in Slots : HoldersOf(i) = {}
  BY DEF Init, HoldersOf
<1>4. PinnedFramesStay
  BY <1>3, FS_EmptySet DEF Init, PinnedFramesStay
<1> QED
  BY <1>1, <1>2, <1>4 DEF RingInvariant

\* The inductive invariant holds throughout.
THEOREM RingInvariantHolds == Spec => []RingInvariant
<1>1. RingInvariant /\ [Next]_vars => RingInvariant'
  BY TypeStep, PinnedStep, OwnedStep, PlacesStep, HeldStep DEF RingInvariant
<1> QED
  BY InitInvariant, <1>1, PTL DEF Spec

\* Every reachable state is one of the types declared: indices stay inside the
\* ring however often it wraps (Reserve), whatever the number of slots.
THEOREM TypeCorrect == Spec => []TypeOK
<1>1. RingInvariant => TypeOK
  BY DEF RingInvariant
<1> QED
  BY RingInvariantHolds, <1>1, PTL

\* A frame a reader has pinned is neither overwritten nor freed before its
\* Unpin (Reserve, FillViewLocked, Unpin), for any number of readers.
THEOREM PinnedFramesAlwaysStay == Spec => []PinnedFramesStay
<1>1. RingInvariant => PinnedFramesStay
  BY DEF RingInvariant
<1> QED
  BY RingInvariantHolds, <1>1, PTL

\* No payload of the arena leaks or is freed twice (Reserve, Publish).
THEOREM AllocationsNeverLeak == Spec => []AllocationOwnedOnce
<1>1. RingInvariant => AllocationOwnedOnce
  BY DEF RingInvariant
<1> QED
  BY RingInvariantHolds, <1>1, PTL

\* Each undecided capture has one holder to decide it, and a holder's decision
\* is never refused (BeginEncode, Publish, MarkDropped).
THEOREM UndecidedAlwaysHeld == Spec => []UndecidedIsHeld
<1>1. RingInvariant => UndecidedIsHeld
  BY DEF RingInvariant
<1> QED
  BY RingInvariantHolds, <1>1, PTL
-----------------------------------------------------------------------------
(* The ring implements the window of captures. *)

\* A sum of two indices wraps at most once.
LEMMA ModOnce ==
    ASSUME NEW n \in Nat \ {0}, NEW x \in 0..(n + n - 1)
    PROVE  x % n = IF x < n THEN x ELSE x - n
OBVIOUS

LEMMA WrapsOnce ==
    \A x \in 0..(SlotCount + SlotCount - 1) : x % SlotCount = IF x < SlotCount THEN x ELSE x - SlotCount
BY ModOnce

\* The slot p positions from the oldest capture, without the modulus.
OldestOf(write, count) == IF write < count THEN write + SlotCount - count ELSE write - count
SlotAt(oldest, p) == IF oldest + p - 1 < SlotCount THEN oldest + p - 1 ELSE oldest + p - 1 - SlotCount

LEMMA OldestIs ==
    ASSUME NEW write \in Slots, NEW count \in 0..SlotCount
    PROVE  (write + SlotCount - count) % SlotCount = OldestOf(write, count) /\ OldestOf(write, count) \in Slots
<1>1. PICK x \in 0..(SlotCount + SlotCount - 1) : x = write + SlotCount - count
  BY DEF Slots
<1>2. x % SlotCount = IF x < SlotCount THEN x ELSE x - SlotCount
  BY WrapsOnce
<1>3. x % SlotCount = OldestOf(write, count) /\ OldestOf(write, count) \in Slots
  BY <1>1, <1>2 DEF OldestOf, Slots
<1> QED
  BY <1>1, <1>3

LEMMA SlotAtIs ==
    ASSUME NEW oldest \in Slots, NEW p \in 1..SlotCount
    PROVE  (oldest + p - 1) % SlotCount = SlotAt(oldest, p)
<1>1. PICK x \in 0..(SlotCount + SlotCount - 1) : x = oldest + p - 1
  BY DEF Slots
<1>2. x % SlotCount = IF x < SlotCount THEN x ELSE x - SlotCount
  BY WrapsOnce
<1>3. SlotAt(oldest, p) = IF x < SlotCount THEN x ELSE x - SlotCount
  BY <1>1 DEF SlotAt, Slots
<1> QED
  BY <1>1, <1>2, <1>3

LEMMA IndexIs ==
    ASSUME TypeOK
    PROVE  /\ Oldest = OldestOf(writeIndex, buffered) /\ Oldest \in Slots
           /\ \A p \in 1..SlotCount : IndexAt(p) = SlotAt(Oldest, p)
<1>1. Oldest = OldestOf(writeIndex, buffered) /\ Oldest \in Slots
  BY OldestIs DEF TypeOK, Oldest
<1> QED
  BY <1>1, SlotAtIs DEF IndexAt

\* Different positions are different slots.
LEMMA IndexInjective ==
    ASSUME TypeOK, NEW p \in 1..SlotCount, NEW q \in 1..SlotCount, IndexAt(p) = IndexAt(q)
    PROVE  p = q
BY IndexIs DEF SlotAt, Slots

\* The slot written next is the oldest of a full window, and outside any other.
LEMMA WriteIndexIs ==
    ASSUME TypeOK
    PROVE  /\ buffered = SlotCount => IndexAt(1) = writeIndex
           /\ buffered < SlotCount => \A p \in 1..buffered : IndexAt(p) # writeIndex
           /\ buffered < SlotCount => IndexAt(buffered + 1) = writeIndex
<1>1. writeIndex \in Nat /\ writeIndex < SlotCount /\ buffered \in 0..SlotCount /\ SlotCount \in Nat \ {0}
  BY DEF TypeOK, Slots
<1>2. buffered = SlotCount => IndexAt(1) = writeIndex
  BY <1>1, IndexIs DEF SlotAt, OldestOf
<1>3. buffered < SlotCount => IndexAt(buffered + 1) = writeIndex
  BY <1>1, IndexIs DEF SlotAt, OldestOf
<1>4. buffered < SlotCount => \A p \in 1..buffered : IndexAt(p) # writeIndex
  BY <1>1, <1>3, IndexInjective
<1> QED
  BY <1>2, <1>3, <1>4

\* Reserve keeps the order: the window grows by a slot, or moves on by one.
LEMMA ReserveMoves ==
    ASSUME TypeOK, TypeOK', NEW t, Reserve(t)
    PROVE  /\ buffered < SlotCount => \A p \in 1..buffered + 1 : IndexAt(p)' = IndexAt(p)
           /\ buffered = SlotCount => /\ \A p \in 1..buffered - 1 : IndexAt(p)' = IndexAt(p + 1)
                                      /\ IndexAt(buffered)' = writeIndex
<1>1. writeIndex \in Nat /\ writeIndex < SlotCount /\ buffered \in 0..SlotCount /\ SlotCount \in Nat \ {0}
  BY DEF TypeOK, Slots
<1>2. writeIndex' = IF writeIndex + 1 < SlotCount THEN writeIndex + 1 ELSE 0
  <2>1. writeIndex + 1 \in 0..(SlotCount + SlotCount - 1)
    BY <1>1
  <2>2. writeIndex' = (writeIndex + 1) % SlotCount
    BY DEF Reserve, NextSlot
  <2> QED
    BY <1>1, <2>1, <2>2, WrapsOnce
<1>3. buffered' = IF buffered < SlotCount THEN buffered + 1 ELSE buffered
  BY DEF Reserve
<1>4. Oldest' = OldestOf(writeIndex', buffered') /\ Oldest' \in Slots
  BY OldestIs DEF TypeOK, Oldest
<1>5. \A p \in 1..SlotCount : IndexAt(p)' = SlotAt(Oldest', p)
  BY <1>4, SlotAtIs DEF IndexAt
<1>6. Oldest = OldestOf(writeIndex, buffered) /\ \A p \in 1..SlotCount : IndexAt(p) = SlotAt(Oldest, p)
  BY IndexIs
<1>7. ASSUME buffered < SlotCount
      PROVE  \A p \in 1..buffered + 1 : IndexAt(p)' = IndexAt(p)
  <2>1. Oldest' = Oldest
    BY <1>1, <1>2, <1>3, <1>4, <1>6, <1>7 DEF OldestOf
  <2> QED
    BY <1>1, <1>5, <1>6, <1>7, <2>1
<1>8. ASSUME buffered = SlotCount
      PROVE  Oldest = writeIndex /\ Oldest' = writeIndex'
  BY <1>1, <1>2, <1>3, <1>4, <1>6, <1>8 DEF OldestOf
<1>9. ASSUME buffered = SlotCount
      PROVE  \A p \in 1..buffered - 1 : IndexAt(p)' = IndexAt(p + 1)
  <2>1. \A p \in 1..buffered - 1 : IndexAt(p + 1) = SlotAt(writeIndex, p + 1)
    BY <1>1, <1>6, <1>8, <1>9
  <2>2. \A p \in 1..buffered - 1 : SlotAt(writeIndex', p) = SlotAt(writeIndex, p + 1)
    BY <1>1, <1>2, <1>9 DEF SlotAt
  <2> QED
    BY <1>1, <1>5, <1>8, <1>9, <2>1, <2>2
<1>10. ASSUME buffered = SlotCount
       PROVE  IndexAt(buffered)' = writeIndex
  <2>1. IndexAt(SlotCount)' = SlotAt(writeIndex', SlotCount)
    BY <1>1, <1>5, <1>8, <1>10
  <2>2. SlotAt(writeIndex', SlotCount) = writeIndex
    BY <1>1, <1>2 DEF SlotAt
  <2>3. buffered' = SlotCount
    BY <1>3, <1>10
  <2>4. IndexAt(buffered)' = (Oldest' + buffered' - 1) % SlotCount
    BY DEF IndexAt
  <2> QED
    BY <2>1, <2>2, <2>3, <2>4 DEF IndexAt
<1> QED
  BY <1>7, <1>9, <1>10

\* The window is in order of capture, and its newest capture is the last one taken.
WindowOrdered ==
    /\ lastCaptureNs \in Times
    /\ buffered > 0 => headers[IndexAt(buffered)].captureNs = lastCaptureNs
    /\ \A p, q \in 1..buffered :
           p <= q => headers[IndexAt(p)].captureNs <= headers[IndexAt(q)].captureNs

\* What a step of the ring other than Reserve does to one slot: nothing the window tells, a decision, a
\* pin or an unpin.
Same(old, new)    == new.pins = old.pins /\ AbstractStatus(new.state) = AbstractStatus(old.state)
Decided(old, new) == new.pins = old.pins /\ old.state \in Undecided /\ new.state \in Settled
PinnedOnce(old, new)   == new.state = old.state /\ old.state = "Ready" /\ new.pins = old.pins + 1
UnpinnedOnce(old, new) == new.state = old.state /\ old.pins > 0 /\ new.pins = old.pins - 1

OneSlot ==
    \/ headers' = headers
    \/ \E i \in Slots :
          /\ \A j \in Slots : j # i => headers'[j] = headers[j]
          /\ headers'[i].captureNs = headers[i].captureNs
          /\ \/ Same(headers[i], headers'[i])
             \/ Decided(headers[i], headers'[i])
             \/ PinnedOnce(headers[i], headers'[i])
             \/ UnpinnedOnce(headers[i], headers'[i])

LEMMA OtherSteps ==
    ASSUME RingInvariant, Next, \A t \in Times : ~Reserve(t)
    PROVE  OneSlot /\ UNCHANGED <<writeIndex, buffered, lastCaptureNs>>
<1>0. TypeOK /\ UndecidedIsHeld /\ PinnedFramesStay
  BY DEF RingInvariant
<1> USE DEF OneSlot, Same, Decided, PinnedOnce, UnpinnedOnce, UnchangedIndices
<1>2. ASSUME FreePrevious PROVE OneSlot /\ UNCHANGED <<writeIndex, buffered, lastCaptureNs>>
  BY <1>2 DEF FreePrevious, ringVars
<1>3. ASSUME NEW r \in reserved, DropReservation(r)
      PROVE  OneSlot /\ UNCHANGED <<writeIndex, buffered, lastCaptureNs>>
  <2>1. r.index \in Slots
    BY <1>0 DEF TypeOK, Reservation
  <2> QED
    BY <1>0, <1>3, <2>1 DEF DropReservation, MarkedDropped, Staged, Settled, TypeOK
<1>4. ASSUME NEW e \in Encoders, NEW r \in reserved, BeginEncode(e, r)
      PROVE  OneSlot /\ UNCHANGED <<writeIndex, buffered, lastCaptureNs>>
  <2>1. r.index \in Slots
    BY <1>0 DEF TypeOK, Reservation
  <2> QED
    BY <1>0, <1>4, <2>1 DEF BeginEncode, CanEncode, Staged, AbstractStatus, Undecided, TypeOK
<1>5. ASSUME NEW e \in Encoders, DropEncoding(e)
      PROVE  OneSlot /\ UNCHANGED <<writeIndex, buffered, lastCaptureNs>>
  <2>1. encoder[e].index \in Slots
    BY <1>0 DEF TypeOK, Encoder
  <2> QED
    BY <1>0, <1>5, <2>1 DEF DropEncoding, MarkedDropped, Staged, Settled, TypeOK
<1>6. ASSUME NEW e \in Encoders, NEW a \in Allocations, AllocatePayload(e, a)
      PROVE  OneSlot /\ UNCHANGED <<writeIndex, buffered, lastCaptureNs>>
  BY <1>6 DEF AllocatePayload, ringVars
<1>7. ASSUME NEW e \in Encoders, Publish(e)
      PROVE  OneSlot /\ UNCHANGED <<writeIndex, buffered, lastCaptureNs>>
  <2>1. encoder[e].index \in Slots
    BY <1>0 DEF TypeOK, Encoder
  <2> QED
    BY <1>0, <1>7, <2>1 DEF Publish, CanPublish, Staged, Settled, Undecided, TypeOK
<1>8. ASSUME NEW r \in Readers, NEW p \in 1..buffered,
             headers[IndexAt(p)].state = "Ready", Pin(r, p)
      PROVE  OneSlot /\ UNCHANGED <<writeIndex, buffered, lastCaptureNs>>
  <2>1. PICK i \in Slots : i = IndexAt(p)
    BY <1>0, IndexIsSlot
  <2>2. headers' = [headers EXCEPT ![i] = Pinned(headers[i], headers[i].pins + 1)]
    BY <1>8, <2>1 DEF Pin
  <2>3. headers[i].state = "Ready"
    BY <1>8, <2>1
  <2> QED
    BY <1>0, <1>8, <2>2, <2>3 DEF Pin, Pinned, TypeOK
<1>9. ASSUME NEW r \in Readers, Unpin(r)
      PROVE  OneSlot /\ UNCHANGED <<writeIndex, buffered, lastCaptureNs>>
  <2>1. view[r].index \in Slots
    BY <1>0, <1>9 DEF TypeOK, Unpin, View
  <2> QED
    BY <1>0, <1>9, <2>1 DEF Unpin, Pinned, TypeOK
<1> QED
  BY <1>0, <1>2, <1>3, <1>4, <1>5, <1>6, <1>7, <1>8, <1>9, NextCases, Zenon

LEMMA OrderStep ==
    ASSUME RingInvariant, RingInvariant', WindowOrdered, [Next]_vars
    PROVE  WindowOrdered'
<1>0. TypeOK /\ TypeOK'
  BY DEF RingInvariant
<1>t. /\ writeIndex \in Slots /\ buffered \in 0..SlotCount /\ buffered' \in 0..SlotCount
      /\ SlotCount \in Nat \ {0} /\ lastCaptureNs \in Nat
      /\ \A i \in Slots : headers[i].captureNs \in Nat
  BY <1>0 DEF TypeOK, Header
<1>i. \A p \in 1..SlotCount : IndexAt(p) \in Slots
  BY <1>0, IndexIsSlot
<1>1. ASSUME NEW t \in Times, Reserve(t)
      PROVE  WindowOrdered'
  <2> DEFINE captured == Later(t, lastCaptureNs)
  <2>1. captured \in Times /\ lastCaptureNs <= captured /\ lastCaptureNs' = captured
    BY <1>1 DEF WindowOrdered, Later, Times, Reserve
  <2>2. /\ headers'[writeIndex].captureNs = captured
        /\ \A i \in Slots : i # writeIndex => headers'[i] = headers[i]
    BY <1>0, <1>1 DEF Reserve, TypeOK
  <2> HIDE DEF captured
  <2>3. \A p \in 1..buffered : headers[IndexAt(p)].captureNs <= lastCaptureNs
    BY <1>t DEF WindowOrdered
  <2>4. CASE buffered < SlotCount
    <3>1. buffered' = buffered + 1
      BY <1>1, <2>4 DEF Reserve
    <3>2. \A p \in 1..buffered + 1 : IndexAt(p)' = IndexAt(p)
      BY <1>0, <1>1, <2>4, ReserveMoves
    <3>3. IndexAt(buffered + 1) = writeIndex /\ \A p \in 1..buffered : IndexAt(p) # writeIndex
      BY <1>0, <2>4, WriteIndexIs
    <3>4. \A p \in 1..buffered : headers'[IndexAt(p)'] = headers[IndexAt(p)]
      BY <1>t, <1>i, <2>2, <3>2, <3>3
    <3>b. PICK b \in 0..SlotCount : b = buffered
      BY <1>t
    <3>5. headers'[IndexAt(b + 1)'].captureNs = captured
      <4>1. IndexAt(b + 1)' = IndexAt(b + 1)
        BY <3>2, <3>b
      <4> QED
        BY <2>2, <3>3, <3>b, <4>1
    <3>6. (IndexAt(buffered))' = IndexAt(b + 1)'
      BY <3>1, <3>b DEF IndexAt
    <3>7. \A p, q \in 1..buffered + 1 :
             p <= q => headers'[IndexAt(p)'].captureNs <= headers'[IndexAt(q)'].captureNs
      <4> SUFFICES ASSUME NEW p \in 1..buffered + 1, NEW q \in 1..buffered + 1, p <= q
                   PROVE  headers'[IndexAt(p)'].captureNs <= headers'[IndexAt(q)'].captureNs
        OBVIOUS
      <4>1. CASE q \in 1..buffered
        BY <1>t, <4>1, <3>4 DEF WindowOrdered
      <4>2. CASE q = buffered + 1 /\ p \in 1..buffered
        <5>1. headers'[IndexAt(p)'].captureNs <= lastCaptureNs /\ headers[IndexAt(p)].captureNs \in Nat
          BY <1>t, <1>i, <2>3, <3>4, <4>2
        <5> QED
          BY <1>t, <2>1, <3>4, <3>5, <3>b, <4>2, <5>1 DEF Times
      <4>3. CASE p = buffered + 1
        BY <1>t, <2>1, <3>5, <3>b, <4>3 DEF Times
      <4> QED
        BY <1>t, <4>1, <4>2, <4>3
    <3> QED
      BY <2>1, <3>1, <3>5, <3>6, <3>7 DEF WindowOrdered
  <2>5. CASE buffered = SlotCount
    <3>1. buffered' = buffered
      BY <1>t, <1>1, <2>5 DEF Reserve
    <3>2. /\ \A p \in 1..buffered - 1 : IndexAt(p)' = IndexAt(p + 1)
          /\ IndexAt(buffered)' = writeIndex
      BY <1>0, <1>1, <2>5, ReserveMoves
    <3>3. IndexAt(1) = writeIndex
      BY <1>0, <2>5, WriteIndexIs
    <3>4. \A p \in 1..buffered - 1 : IndexAt(p + 1) # writeIndex
      BY <1>0, <1>t, <2>5, <3>3, IndexInjective
    <3>5. \A p \in 1..buffered - 1 : headers'[IndexAt(p)'] = headers[IndexAt(p + 1)]
      BY <1>t, <1>i, <2>2, <2>5, <3>2, <3>4
    <3>6. headers'[IndexAt(buffered)'].captureNs = captured
      BY <2>2, <3>2
    <3>7. \A p, q \in 1..buffered :
             p <= q => headers'[IndexAt(p)'].captureNs <= headers'[IndexAt(q)'].captureNs
      <4> SUFFICES ASSUME NEW p \in 1..buffered, NEW q \in 1..buffered, p <= q
                   PROVE  headers'[IndexAt(p)'].captureNs <= headers'[IndexAt(q)'].captureNs
        OBVIOUS
      <4>0. headers'[IndexAt(SlotCount)'].captureNs = captured
        <5>1. IndexAt(SlotCount)' = (IndexAt(buffered))'
          BY <2>5, <3>1 DEF IndexAt
        <5> QED
          BY <3>6, <5>1
      <4>1. CASE q \in 1..buffered - 1
        BY <1>t, <4>1, <3>5 DEF WindowOrdered
      <4>2. CASE q = buffered /\ p \in 1..buffered - 1
        <5>1. headers'[IndexAt(p)'].captureNs <= lastCaptureNs /\ headers[IndexAt(p + 1)].captureNs \in Nat
          BY <1>t, <1>i, <2>3, <2>5, <3>5, <4>2
        <5> QED
          BY <1>t, <2>1, <2>5, <3>5, <4>0, <4>2, <5>1 DEF Times
      <4>3. CASE p = buffered
        BY <1>t, <2>1, <2>5, <4>0, <4>3 DEF Times
      <4> QED
        BY <1>t, <4>1, <4>2, <4>3
    <3> QED
      BY <2>1, <3>1, <3>6, <3>7 DEF WindowOrdered
  <2> QED
    BY <1>t, <2>4, <2>5
<1>2. ASSUME OneSlot, UNCHANGED <<writeIndex, buffered, lastCaptureNs>>
      PROVE  WindowOrdered'
  <2>1. \A i \in Slots : headers'[i].captureNs = headers[i].captureNs
    BY <1>2 DEF OneSlot
  <2>2. \A p : IndexAt(p)' = IndexAt(p)
    BY <1>2 DEF IndexAt, Oldest
  <2> QED
    BY <1>2, <1>t, <1>i, <2>1, <2>2 DEF WindowOrdered
<1>3. CASE UNCHANGED vars
  BY <1>3, <1>2 DEF vars, ringVars, OneSlot
<1> QED
  BY <1>1, <1>2, <1>3, OtherSteps

AbstractSlot(slot) == [captureNs |-> slot.captureNs, pins |-> slot.pins, status |-> AbstractStatus(slot.state)]
AbstractSlots == [captureNs : Nat, pins : Nat, status : {"pending", "Ready", "Dropped", "Free"}]

LEMMA AbstractSlotType == \A slot \in Header : AbstractSlot(slot) \in AbstractSlots
BY StatesAreSlotStates DEF AbstractSlot, AbstractSlots, AbstractStatus, Undecided, Header

LEMMA AbstractIs ==
    ASSUME TypeOK
    PROVE  /\ AbstractWindow \in Seq(AbstractSlots) /\ Len(AbstractWindow) = buffered
           /\ \A p \in 1..buffered : AbstractWindow[p] = AbstractSlot(headers[IndexAt(p)])
<1>1. AbstractWindow = [p \in 1..buffered |-> AbstractSlot(headers[IndexAt(p)])]
  BY DEF AbstractWindow, Window, AbstractSlot
<1>2. \A p \in 1..buffered : AbstractSlot(headers[IndexAt(p)]) \in AbstractSlots
  BY AbstractSlotType, IndexIsSlot DEF TypeOK
<1>3. buffered \in Nat
  BY DEF TypeOK
<1> QED
  BY <1>1, <1>2, <1>3

LEMMA AppendIs ==
    ASSUME NEW S, NEW seq \in Seq(S), NEW elt \in S
    PROVE  Append(seq, elt) = [p \in 1..Len(seq) + 1 |-> IF p <= Len(seq) THEN seq[p] ELSE elt]
<1> DEFINE longer == Append(seq, elt)
<1>1. /\ longer \in Seq(S) /\ Len(longer) = Len(seq) + 1 /\ Len(seq) \in Nat
      /\ \A p \in 1..Len(seq) : longer[p] = seq[p]
      /\ longer[Len(seq) + 1] = elt
  BY AppendProperties, LenProperties
<1> HIDE DEF longer
<1>2. longer = [p \in 1..Len(seq) + 1 |-> longer[p]]
  BY <1>1, LenProperties
<1>3. \A p \in 1..Len(seq) + 1 : longer[p] = IF p <= Len(seq) THEN seq[p] ELSE elt
  BY <1>1
<1>4. longer = [p \in 1..Len(seq) + 1 |-> IF p <= Len(seq) THEN seq[p] ELSE elt]
  BY <1>2, <1>3
<1> QED
  BY <1>4 DEF longer

\* Reserve is a capture at the newest end, for which a full window gives up its oldest.
LEMMA ReserveCaptures ==
    ASSUME RingInvariant, TypeOK', WindowOrdered, NEW t \in Times, Reserve(t)
    PROVE  Promise!Next
<1>0. TypeOK
  BY DEF RingInvariant
<1>1. PICK b \in Nat : b = buffered /\ b <= SlotCount
  BY <1>0 DEF TypeOK
<1>2. PICK w \in Seq(AbstractSlots) : w = AbstractWindow
  BY <1>0, AbstractIs
<1>3. Len(w) = b /\ \A p \in 1..b : w[p] = AbstractSlot(headers[IndexAt(p)])
  BY <1>0, <1>1, <1>2, AbstractIs
<1> DEFINE captured == Later(t, lastCaptureNs)
           e == Promise!Pending(captured)
<1>4. captured \in Times /\ lastCaptureNs <= captured
  BY DEF WindowOrdered, Later, Times
<1>5. /\ writeIndex \in Slots
      /\ AbstractSlot(headers'[writeIndex]) = e
      /\ \A i \in Slots : i # writeIndex => headers'[i] = headers[i]
  BY <1>0 DEF Reserve, TypeOK, AbstractSlot, AbstractStatus, Undecided, Promise!Pending
<1>6. e \in AbstractSlots
  BY <1>4 DEF Promise!Pending, AbstractSlots, Times
<1>7. AbstractWindow' = [p \in 1..buffered' |-> AbstractSlot(headers'[IndexAt(p)'])]
  BY DEF AbstractWindow, Window, AbstractSlot
<1>8. w # <<>> => captured >= Promise!Last(w).captureNs
  <2> SUFFICES ASSUME w # <<>>
               PROVE  captured >= w[Len(w)].captureNs
    BY DEF Promise!Last
  <2>1. b > 0
    BY <1>3
  <2>2. w[b] = AbstractSlot(headers[IndexAt(b)])
    BY <1>3, <2>1
  <2>3. w[b].captureNs = lastCaptureNs
    BY <1>1, <2>1, <2>2 DEF WindowOrdered, AbstractSlot
  <2> QED
    BY <1>3, <1>4, <2>3 DEF Times, WindowOrdered
<1>i. \A p \in 1..SlotCount : IndexAt(p) \in Slots
  BY <1>0, IndexIsSlot
<1> HIDE DEF e, captured
<1>9. CASE b < SlotCount
  <2>1. buffered' = b + 1
    BY <1>1, <1>9 DEF Reserve
  <2>2. \A p \in 1..b + 1 : IndexAt(p)' = IndexAt(p)
    BY <1>0, <1>1, <1>9, ReserveMoves
  <2>3. IndexAt(b + 1) = writeIndex /\ \A p \in 1..b : IndexAt(p) # writeIndex
    BY <1>0, <1>1, <1>9, WriteIndexIs
  <2>4. \A p \in 1..b : AbstractSlot(headers'[IndexAt(p)']) = w[p]
    BY <1>1, <1>3, <1>5, <1>i, <2>2, <2>3
  <2>5. AbstractSlot(headers'[IndexAt(b + 1)']) = e
    BY <1>5, <2>2, <2>3
  <2>6. Append(w, e) = [p \in 1..b + 1 |-> IF p <= b THEN w[p] ELSE e]
    BY <1>1, <1>3, <1>6, AppendIs
  <2>7. AbstractWindow' = Append(w, e)
    BY <1>7, <2>1, <2>4, <2>5, <2>6
  <2> QED
    BY <1>2, <1>3, <1>4, <1>8, <1>9, <2>7 DEF Promise!Next, Promise!Capture, e
<1>10. CASE b = SlotCount
  <2>1. buffered' = b
    BY <1>1, <1>10 DEF Reserve
  <2>2. /\ \A p \in 1..b - 1 : IndexAt(p)' = IndexAt(p + 1)
        /\ IndexAt(b)' = writeIndex
    <3>1. IndexAt(b)' = IndexAt(buffered)'
      BY <2>1 DEF IndexAt
    <3> QED
      BY <1>0, <1>1, <1>10, <3>1, ReserveMoves
  <2>3. IndexAt(1) = writeIndex /\ ~SlotBusy(headers[writeIndex]) /\ b > 0
    BY <1>0, <1>1, <1>10, WriteIndexIs DEF Reserve
  <2>4. \A p \in 1..b - 1 : IndexAt(p + 1) # writeIndex
    BY <1>0, <1>10, <2>3, IndexInjective
  <2>5. \A p \in 1..b - 1 : AbstractSlot(headers'[IndexAt(p)']) = w[p + 1]
    BY <1>1, <1>3, <1>5, <1>10, <1>i, <2>2, <2>4
  <2>6. AbstractSlot(headers'[IndexAt(b)']) = e
    BY <1>5, <2>2
  <2>7. Append(Tail(w), e) = [p \in 1..b |-> IF p <= b - 1 THEN w[p + 1] ELSE e]
    <3>1. Tail(w) \in Seq(AbstractSlots) /\ Len(Tail(w)) = b - 1 /\ \A p \in 1..b - 1 : Tail(w)[p] = w[p + 1]
      BY <1>3, <2>3
    <3>2. PICK v \in Seq(AbstractSlots) : v = Tail(w)
      BY <3>1
    <3>3. Append(v, e) = [p \in 1..Len(v) + 1 |-> IF p <= Len(v) THEN v[p] ELSE e]
      BY <1>6, AppendIs
    <3> QED
      BY <1>1, <2>3, <3>1, <3>2, <3>3
  <2>8. AbstractWindow' = Append(Tail(w), e)
    BY <1>7, <2>1, <2>3, <2>5, <2>6, <2>7
  <2>9. w[1].status # "pending" /\ w[1].pins = 0
    <3>1. w[1] = AbstractSlot(headers[writeIndex]) /\ headers[writeIndex] \in Header
      BY <1>0, <1>3, <1>5, <2>3 DEF TypeOK
    <3> QED
      BY <2>3, <3>1, StatesAreSlotStates DEF SlotBusy, AbstractSlot, AbstractStatus, Undecided, Header
  <2> QED
    BY <1>2, <1>3, <1>4, <1>8, <1>10, <2>8, <2>9 DEF Promise!Next, Promise!Capture, e
<1> QED
  BY <1>1, <1>9, <1>10

\* Every other step changes one capture of the window, or nothing it tells.
LEMMA OthersDecideOrPin ==
    ASSUME TypeOK, TypeOK', OneSlot, UNCHANGED <<writeIndex, buffered>>
    PROVE  [Promise!Next]_AbstractWindow
<1>1. PICK b \in 0..SlotCount : b = buffered
  BY DEF TypeOK
<1>2. PICK w \in Seq(AbstractSlots) : w = AbstractWindow
  BY AbstractIs
<1>3. Len(w) = b /\ \A p \in 1..b : w[p] = AbstractSlot(headers[IndexAt(p)])
  BY <1>1, <1>2, AbstractIs
<1>4. AbstractWindow' = [p \in 1..b |-> AbstractSlot(headers'[IndexAt(p)])]
  <2>1. AbstractWindow' = [p \in 1..buffered' |-> AbstractSlot(headers'[IndexAt(p)'])]
    BY DEF AbstractWindow, Window, AbstractSlot
  <2>2. \A p : IndexAt(p)' = IndexAt(p)
    BY DEF IndexAt, Oldest
  <2> QED
    BY <1>1, <2>1, <2>2
<1>5. w = [p \in 1..b |-> w[p]]
  BY <1>3, LenProperties
<1>6. ASSUME \A p \in 1..b : AbstractSlot(headers'[IndexAt(p)]) = AbstractSlot(headers[IndexAt(p)])
      PROVE  [Promise!Next]_AbstractWindow
  <2>1. AbstractWindow' = [p \in 1..b |-> w[p]]
    BY <1>3, <1>4, <1>6
  <2> QED
    BY <1>2, <1>5, <2>1
<1>7. \A p \in 1..b : IndexAt(p) \in Slots
  BY IndexIsSlot
<1>8. CASE headers' = headers
  BY <1>6, <1>8
<1>9. ASSUME NEW i \in Slots,
             \A j \in Slots : j # i => headers'[j] = headers[j],
             headers'[i].captureNs = headers[i].captureNs,
             \/ Same(headers[i], headers'[i])
             \/ Decided(headers[i], headers'[i])
             \/ PinnedOnce(headers[i], headers'[i])
             \/ UnpinnedOnce(headers[i], headers'[i])
      PROVE  [Promise!Next]_AbstractWindow
  <2>1. CASE Same(headers[i], headers'[i])
    <3>1. \A j \in Slots : AbstractSlot(headers'[j]) = AbstractSlot(headers[j])
      BY <1>9, <2>1 DEF Same, AbstractSlot
    <3> QED
      BY <1>6, <1>7, <3>1
  <2>2. CASE \A p \in 1..b : IndexAt(p) # i
    BY <1>6, <1>7, <1>9, <2>2
  <2>3. CASE ~Same(headers[i], headers'[i]) /\ \E p \in 1..b : IndexAt(p) = i
    <3>1. PICK p \in 1..b : IndexAt(p) = i
      BY <2>3
    <3>2. \A q \in 1..b : q # p => IndexAt(q) # i
      BY <3>1, IndexInjective
    <3>3. \A q \in 1..b : q # p => AbstractSlot(headers'[IndexAt(q)]) = w[q]
      BY <1>3, <1>7, <1>9, <3>2
    <3>4. headers[i] \in Header /\ headers'[i] \in Header
      BY DEF TypeOK
    <3>5. w[p] = AbstractSlot(headers[i]) /\ w[p] \in AbstractSlots
      BY <1>3, <3>1, <3>4, AbstractSlotType
    <3> DEFINE new == AbstractSlot(headers'[i])
    <3>6. AbstractWindow' = [w EXCEPT ![p] = new]
      BY <1>3, <1>4, <1>5, <3>1, <3>3
    <3>7. p \in 1..Len(w)
      BY <1>3
    <3>8. CASE Decided(headers[i], headers'[i])
      <4>1. new.status \in {"Ready", "Dropped"} /\ w[p].status = "pending"
        BY <3>5, <3>8 DEF Decided, AbstractSlot, AbstractStatus, Undecided, Settled
      <4>2. new = [w[p] EXCEPT !.status = new.status]
        BY <1>9, <3>5, <3>8 DEF Decided, AbstractSlot, AbstractSlots
      <4> HIDE DEF new
      <4>3. AbstractWindow' = [w EXCEPT ![p].status = new.status]
        BY <3>6, <4>2
      <4> QED
        BY <1>2, <3>7, <4>1, <4>3 DEF Promise!Next, Promise!Decide
    <3>9. CASE PinnedOnce(headers[i], headers'[i])
      <4>1. w[p].status = "Ready"
        BY <3>5, <3>9 DEF PinnedOnce, AbstractSlot, AbstractStatus, Undecided
      <4>2. new = [w[p] EXCEPT !.pins = w[p].pins + 1]
        BY <1>9, <3>5, <3>9 DEF PinnedOnce, AbstractSlot, AbstractSlots
      <4> HIDE DEF new
      <4>3. AbstractWindow' = [w EXCEPT ![p].pins = @ + 1]
        BY <3>6, <4>2
      <4> QED
        BY <1>2, <3>7, <4>1, <4>3 DEF Promise!Next, Promise!Pin
    <3>10. CASE UnpinnedOnce(headers[i], headers'[i])
      <4>1. w[p].pins > 0
        BY <3>5, <3>10 DEF UnpinnedOnce, AbstractSlot
      <4>4. /\ new = [captureNs |-> headers'[i].captureNs, pins |-> headers'[i].pins,
                    status |-> AbstractStatus(headers'[i].state)]
            /\ w[p] = [captureNs |-> headers[i].captureNs, pins |-> headers[i].pins,
                       status |-> AbstractStatus(headers[i].state)]
        BY <3>5 DEF AbstractSlot
      <4>5. /\ headers'[i].captureNs = headers[i].captureNs
            /\ headers'[i].state = headers[i].state
            /\ headers'[i].pins = headers[i].pins - 1
        BY <1>9, <3>4, <3>10 DEF UnpinnedOnce, Header
      <4> HIDE DEF new
      <4>2. new = [w[p] EXCEPT !.pins = w[p].pins - 1]
        BY <4>4, <4>5
      <4> HIDE DEF new
      <4>3. AbstractWindow' = [w EXCEPT ![p].pins = @ - 1]
        BY <3>6, <4>2
      <4> QED
        BY <1>2, <3>7, <4>1, <4>3 DEF Promise!Next, Promise!Unpin
    <3> QED
      BY <1>9, <2>3, <3>8, <3>9, <3>10
  <2> QED
    BY <2>1, <2>2, <2>3
<1> QED
  BY <1>8, <1>9 DEF OneSlot

\* The window is always in the order the searches need (Reserve's clamp).
THEOREM WindowStaysOrdered == Spec => []WindowOrdered
<1>1. Init => WindowOrdered
  BY DEF Init, WindowOrdered, Times
<1>2. RingInvariant /\ RingInvariant' /\ WindowOrdered /\ [Next]_vars => WindowOrdered'
  BY OrderStep
<1> QED
  BY <1>1, <1>2, RingInvariantHolds, PTL DEF Spec

\* The ring of slots, indices and generations implements the window of captures (Reserve, BeginEncode,
\* Publish, MarkDropped and the pins): a step of it is a step of the window, or none.
THEOREM RingImplementsWindow == Spec => ImplementsDelayWindow
<1>1. Init => Promise!Init
  BY DEF Init, Promise!Init, AbstractWindow, Window
<1>2. RingInvariant /\ RingInvariant' /\ WindowOrdered /\ [Next]_vars => [Promise!Next]_AbstractWindow
  <2> SUFFICES ASSUME RingInvariant, RingInvariant', WindowOrdered, [Next]_vars
               PROVE  [Promise!Next]_AbstractWindow
    OBVIOUS
  <2>1. TypeOK /\ TypeOK'
    BY DEF RingInvariant
  <2>2. CASE \E t \in Times : Reserve(t)
    BY <2>1, <2>2, ReserveCaptures
  <2>3. CASE Next /\ \A t \in Times : ~Reserve(t)
    BY <2>1, <2>3, OtherSteps, OthersDecideOrPin
  <2>4. CASE UNCHANGED vars
    BY <2>1, <2>4, OthersDecideOrPin DEF vars, ringVars, OneSlot
  <2> QED
    BY <2>2, <2>3, <2>4
<1> QED
  BY <1>1, <1>2, RingInvariantHolds, WindowStaysOrdered, PTL DEF Spec, ImplementsDelayWindow, Promise!Spec

-----------------------------------------------------------------------------
(* The selections. *)

LEMMA WindowInOrder ==
    ASSUME TypeOK, WindowOrdered
    PROVE  /\ TimesInOrder(Window) /\ Len(Window) = buffered /\ buffered \in Nat
           /\ \A p \in 1..buffered : Window[p] \in Header
<1>1. Window \in Seq(Header) /\ Len(Window) = buffered /\ buffered \in Nat
  BY WindowLength DEF TypeOK
<1>2. \A p \in 1..buffered : Window[p] = headers[IndexAt(p)] /\ Window[p] \in Header
  BY <1>1 DEF Window
<1>3. \A p \in 1..buffered : Window[p].captureNs \in Int
  BY <1>2 DEF Header
<1>4. Window = <<>> <=> Len(Window) = 0
  BY <1>1
<1>5. \A p, q \in 1..buffered : p <= q => Window[p].captureNs <= Window[q].captureNs
  BY <1>2 DEF WindowOrdered
<1> QED
  BY <1>1, <1>2, <1>3, <1>4, <1>5 DEF TimesInOrder

LEMMA DisplayRight ==
    ASSUME TypeOK, WindowOrdered
    PROVE  DisplaySelectionRight
<1> SUFFICES ASSUME NEW targetNs \in Times
             PROVE  LET due   == {p \in 1..buffered : Window[p].captureNs <= targetNs}
                        shown == SelectForDisplay(Window, targetNs, MaxBack)
                        ready == {p \in due : IsReady(Window[p])}
                    IN  IF shown = 0
                        THEN \A p \in ready : Cardinality({q \in due : q > p}) > MaxBack
                        ELSE shown \in ready /\ \A p \in ready : p <= shown
  BY DEF DisplaySelectionRight
<1> DEFINE due   == {p \in 1..buffered : Window[p].captureNs <= targetNs}
           shown == SelectForDisplay(Window, targetNs, MaxBack)
           ready == {p \in due : IsReady(Window[p])}
           k     == LastAtOrBefore(Window, targetNs)
<1>1. TimesInOrder(Window) /\ Len(Window) = buffered /\ buffered \in Nat /\ targetNs \in Int /\ MaxBack \in Nat
  BY WindowInOrder DEF Times
<1>2. /\ shown # 0 => shown \in ready /\ \A p \in ready : p <= shown
      /\ shown = 0 => \A p \in ready : k - p > MaxBack
  BY <1>1, DisplayIsNewest
<1>3. k \in 0..buffered /\ \A p \in 1..buffered : Window[p].captureNs <= targetNs <=> p <= k
  BY <1>1, SearchIsRight DEF FirstAre
<1> HIDE DEF shown, k
<1>4. ASSUME shown = 0, NEW p \in ready PROVE Cardinality({q \in due : q > p}) > MaxBack
  <2>1. k - p > MaxBack /\ p \in 1..k
    BY <1>1, <1>2, <1>3, <1>4
  <2>2. {q \in due : q > p} = p + 1..k
    BY <1>1, <1>3, <2>1
  <2>3. Cardinality(p + 1..k) = k - p
    <3>1. p + 1 \in Int /\ k \in Int /\ ~(p + 1 > k) /\ k - (p + 1) + 1 = k - p
      BY <1>1, <1>3, <2>1
    <3> QED
      BY <3>1, FS_Interval
  <2> HIDE DEF due
  <2> QED
    BY <2>1, <2>2, <2>3
<1> QED
  BY <1>2, <1>4 DEF shown

LEMMA DecodeRight ==
    ASSUME TypeOK, WindowOrdered
    PROVE  DecodeAheadSkipsNothing
<1> SUFFICES ASSUME NEW afterNs \in Times, NEW targetNs \in Times, NEW windowEndNs \in targetNs..MaxTime
             PROVE  LET p == NextForDecode(Window, afterNs, targetNs, windowEndNs, LateNs, MaxBack)
                    IN  p # 0 =>
                          /\ Window[p].captureNs > afterNs
                          /\ Window[p].captureNs <= windowEndNs
                          /\ \/ afterNs + LateNs < targetNs /\ Window[p].captureNs <= targetNs
                             \/ \A q \in 1..p - 1 : Window[q].captureNs > afterNs =>
                                    \/ Window[q].state = "Dropped"
                                    \/ Window[q].state \in Undecided /\ Window[q].captureNs <= targetNs
  BY DEF DecodeAheadSkipsNothing
<1> DEFINE pos == NextForDecode(Window, afterNs, targetNs, windowEndNs, LateNs, MaxBack)
<1>1. /\ TimesInOrder(Window) /\ LateNs \in Nat /\ MaxBack \in Nat
      /\ afterNs \in Int /\ targetNs \in Int /\ windowEndNs \in Int /\ targetNs <= windowEndNs
  BY WindowInOrder DEF Times
<1>2. pos # 0 =>
        /\ Window[pos].captureNs > afterNs
        /\ Window[pos].captureNs <= windowEndNs
        /\ \/ afterNs + LateNs < targetNs /\ Window[pos].captureNs <= targetNs
           \/ \A q \in 1..pos - 1 : Window[q].captureNs > afterNs => PassedOver(Window[q], targetNs, windowEndNs)
  BY <1>1, DecodeGoesInOrder
<1> HIDE DEF pos
<1>3. pos # 0 =>
        /\ Window[pos].captureNs > afterNs
        /\ Window[pos].captureNs <= windowEndNs
        /\ \/ afterNs + LateNs < targetNs /\ Window[pos].captureNs <= targetNs
           \/ \A q \in 1..pos - 1 : Window[q].captureNs > afterNs =>
                  \/ Window[q].state = "Dropped"
                  \/ Window[q].state \in Undecided /\ Window[q].captureNs <= targetNs
  BY <1>2 DEF PassedOver
<1> QED
  BY <1>3 DEF pos

\* What the ring hands out is right at any time it is asked, for a ring of any length: the display gets the
\* newest Ready frame due, decode-ahead loses no frame it could wait for (LastAtOrBefore's binary search,
\* SelectForDisplay, PinNextForDecode).
THEOREM SelectionsAlwaysRight == Spec => []SelectionsRight
<1>1. RingInvariant /\ WindowOrdered => SelectionsRight
  BY DisplayRight, DecodeRight DEF RingInvariant, SelectionsRight
<1> QED
  BY <1>1, RingInvariantHolds, WindowStaysOrdered, PTL
=============================================================================
