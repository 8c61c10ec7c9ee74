--------------------------- MODULE HostPartsProofs --------------------------
(***************************************************************************)
(* Theorems about parts of the plugin around the filters (MCHostParts):    *)
(* the guard of the filters, what the bridge hears of OBS's outputs, the   *)
(* settings file over sessions, one HTTP call, the dock and the scene      *)
(* collection. A behaviour of PartsSpec is one of one part, so each part   *)
(* has an invariant of its own, that the steps of the others leave alone.  *)
(***************************************************************************)
EXTENDS MCHostParts, FiniteSetTheorems, WellFoundedInduction, TLAPS

partsVars == <<part, vars, signInVars, tasksVars, supportVars, httpVars, coreVars, dockVars,
               scenesVars, outputsVars, sessionVars>>

\* A step is one of the part that runs; the others stay as they are.
LEMMA PartSteps ==
    ASSUME [PartsNext]_partsVars
    PROVE  /\ part' = part
           /\ [Next]_vars /\ (part # "guard" => UNCHANGED vars)
           /\ part = "http" => [Http!HttpNext]_httpVars
           /\ part = "dock" => [TheDock!DockNext]_dockVars
           /\ part = "scenes" => [Scenes!AutoNext]_scenesVars
           /\ part = "core" => [Core!CoreNext]_coreVars
           /\ part = "signIn" => [SignIn!AccountNext]_signInVars
           /\ part = "outputs" => [Heard!WatchNext]_outputsVars
           /\ part = "session" => [Session!SessionNext]_sessionVars
BY Zenon DEF PartsNext, partsVars, signInVars, tasksVars, supportVars, httpVars, coreVars, dockVars,
   scenesVars, outputsVars, sessionVars

\* A set of naturals has a least one: what the inductions below stand on.
LEMMA LeastName ==
    ASSUME NEW S, S \subseteq Nat, S # {}
    PROVE  \E m \in S : \A n \in S : m <= n
<1> DEFINE R == {p \in Nat \X Nat : p[1] < p[2]}
<1>1. IsWellFoundedOn(R, Nat)
  BY NatLessThanWellFounded, Zenon DEF OpToRel
<1>2. PICK x \in S : \A y \in S : ~(<<y, x>> \in R)
  BY <1>1, WFMin, Zenon
<1>3. ASSUME NEW y \in S PROVE x <= y
  <2>1. <<y, x>> \notin R
    BY <1>2
  <2> QED
    BY <2>1
<1> QED
  BY <1>3

-----------------------------------------------------------------------------
(* The guard of the filters.                                               *)

CallNames == {"on", "off", "keep", "forget", "listen", "unlisten"}
GuardCall == CallNames \X Filters

\* The order of the calls for one filter, when it is switched on and when it is switched off.
Turn(name) == CASE name = "on" -> 1 [] name = "keep" -> 2 [] name = "listen" -> 3
                [] name = "forget" -> 4 [] name = "unlisten" -> 5 [] OTHER -> 6
Precedes(c, d) == c # d /\ (c[2] = d[2] => Turn(c[1]) < Turn(d[1]))
Orderly(list) == \A i, j \in DOMAIN list : i < j => Precedes(list[i], list[j])

LEMMA CallsJoin ==
    ASSUME NEW s \in Seq(GuardCall), NEW t \in Seq(GuardCall), Orderly(s), Orderly(t),
           \A c \in ToSet(s), d \in ToSet(t) : Precedes(c, d)
    PROVE  s \o t \in Seq(GuardCall) /\ Orderly(s \o t) /\ ToSet(s \o t) = ToSet(s) \cup ToSet(t)
<1> HIDE DEF GuardCall
<1>1. PICK st, m, n : st = s \o t /\ m = Len(s) /\ n = Len(t)
  OBVIOUS
<1>2. /\ st \in Seq(GuardCall) /\ m \in Nat /\ n \in Nat
      /\ DOMAIN s = 1..m /\ DOMAIN t = 1..n /\ DOMAIN st = 1..m + n
      /\ \A i \in 1..m : st[i] = s[i]
      /\ \A i \in m + 1..m + n : st[i] = t[i - m]
  BY <1>1
<1>3. ASSUME NEW i \in DOMAIN st, NEW j \in DOMAIN st, i < j PROVE Precedes(st[i], st[j])
  <2>1. CASE j <= m
    <3>1. i \in 1..m /\ j \in 1..m
      BY <1>2, <1>3, <2>1
    <3> QED
      BY <1>2, <1>3, <3>1 DEF Orderly
  <2>2. CASE i <= m /\ j > m
    <3>1. i \in 1..m /\ j \in m + 1..m + n /\ j - m \in 1..n
      BY <1>2, <1>3, <2>2
    <3>2. st[i] \in ToSet(s) /\ st[j] \in ToSet(t)
      BY <1>2, <3>1 DEF ToSet
    <3> QED
      BY <3>2
  <2>3. CASE i > m
    <3>1. i \in m + 1..m + n /\ j \in m + 1..m + n /\ i - m \in 1..n /\ j - m \in 1..n /\ i - m < j - m
      BY <1>2, <1>3, <2>3
    <3> QED
      BY <1>2, <3>1 DEF Orderly
  <2> QED
    BY <1>2, <2>1, <2>2, <2>3
<1>4. ToSet(st) = ToSet(s) \cup ToSet(t)
  <2>1. ASSUME NEW i \in DOMAIN st PROVE st[i] \in ToSet(s) \cup ToSet(t)
    <3>1. i \in 1..m \/ (i \in m + 1..m + n /\ i - m \in 1..n)
      BY <1>2
    <3> QED
      BY <1>2, <3>1 DEF ToSet
  <2>2. ASSUME NEW i \in DOMAIN s PROVE s[i] \in ToSet(st)
    <3>1. i \in DOMAIN st /\ i \in 1..m
      BY <1>2
    <3> QED
      BY <1>2, <3>1 DEF ToSet
  <2>3. ASSUME NEW i \in DOMAIN t PROVE t[i] \in ToSet(st)
    <3>1. m + i \in DOMAIN st /\ m + i \in m + 1..m + n /\ (m + i) - m = i
      BY <1>2
    <3>2. st[m + i] = t[i]
      BY <1>2, <3>1
    <3> QED
      BY <3>1, <3>2 DEF ToSet
  <2> QED
    BY <2>1, <2>2, <2>3 DEF ToSet
<1>5. Orderly(st)
  BY <1>3 DEF Orderly
<1> QED
  BY <1>1, <1>2, <1>4, <1>5

\* The blocks of calls one after the other, up to the n-th.
Chained(f, blocks, n) == f = [i \in 1..n |-> IF i = 1 THEN blocks[i] ELSE f[i - 1] \o blocks[i]]

LEMMA ChainedExists == ASSUME NEW n \in Nat \ {0}, NEW blocks PROVE \E f : Chained(f, blocks, n)
<1> DEFINE bad == {m \in Nat \ {0} : ~\E f : Chained(f, blocks, m)}
<1>1. SUFFICES ASSUME bad # {} PROVE FALSE
  OBVIOUS
<1>2. PICK m \in bad : \A k \in bad : m <= k
  <2>1. bad \subseteq Nat
    OBVIOUS
  <2> HIDE DEF bad
  <2> QED
    BY <1>1, <2>1, LeastName
<1>3. m \in Nat \ {0}
  OBVIOUS
<1>4. CASE m = 1
  <2>1. PICK f : f = [i \in 1..1 |-> blocks[i]]
    OBVIOUS
  <2>2. f = [i \in 1..1 |-> IF i = 1 THEN blocks[i] ELSE f[i - 1] \o blocks[i]]
    BY <2>1
  <2> QED
    BY <1>2, <1>4, <2>2 DEF Chained
<1>5. CASE m # 1
  <2>1. m - 1 \in Nat \ {0}
    BY <1>3, <1>5
  <2>2. ~(m <= m - 1)
    BY <1>3
  <2>3. m - 1 \notin bad
    BY <1>2, <2>2
  <2>4. PICK f : Chained(f, blocks, m - 1)
    BY <2>1, <2>3
  <2>5. PICK g : g = [i \in 1..m |-> IF i = m THEN f[m - 1] \o blocks[m] ELSE f[i]]
    OBVIOUS
  <2>6. g[m] = f[m - 1] \o blocks[m] /\ \A i \in 1..m - 1 : g[i] = f[i]
    <3> HIDE DEF bad
    <3>1. m \in 1..m /\ \A i \in 1..m - 1 : i \in 1..m /\ i # m
      BY <1>3
    <3> QED
      BY <2>5, <3>1
  <2>7. ASSUME NEW i \in 1..m PROVE g[i] = IF i = 1 THEN blocks[i] ELSE g[i - 1] \o blocks[i]
    <3>1. CASE i = m
      <4>1. m - 1 \in 1..m - 1
        BY <2>1
      <4> QED
        BY <1>5, <2>6, <3>1, <4>1
    <3>2. CASE i # m
      <4>1. i \in 1..m - 1 /\ (i # 1 => i - 1 \in 1..m - 1)
        BY <1>3, <3>2
      <4>2. f[i] = IF i = 1 THEN blocks[i] ELSE f[i - 1] \o blocks[i]
        BY <2>4, <4>1 DEF Chained
      <4> QED
        BY <2>6, <4>1, <4>2
    <3> QED
      BY <3>1, <3>2
  <2>8. g = [i \in 1..m |-> g[i]]
    BY <2>5
  <2>9. Chained(g, blocks, m)
    BY <2>7, <2>8 DEF Chained
  <2> QED
    BY <1>2, <2>9
<1> QED
  BY <1>4, <1>5

\* Blocks of calls that follow each other in order make an orderly list.
LEMMA ChainedOrderly ==
    ASSUME NEW n \in Nat \ {0}, NEW blocks, NEW f, Chained(f, blocks, n),
           \A i \in 1..n : blocks[i] \in Seq(GuardCall) /\ Orderly(blocks[i]),
           \A i, j \in 1..n : i < j => \A c \in ToSet(blocks[i]), d \in ToSet(blocks[j]) : Precedes(c, d)
    PROVE  \A m \in 1..n : /\ f[m] \in Seq(GuardCall) /\ Orderly(f[m])
                           /\ ToSet(f[m]) = UNION {ToSet(blocks[i]) : i \in 1..m}
<1> DEFINE Fine(m) == /\ f[m] \in Seq(GuardCall) /\ Orderly(f[m])
                      /\ ToSet(f[m]) = UNION {ToSet(blocks[i]) : i \in 1..m}
           bad == {m \in 1..n : ~Fine(m)}
<1>1. SUFFICES ASSUME bad # {} PROVE FALSE
  OBVIOUS
<1>2. PICK m \in bad : \A k \in bad : m <= k
  <2>1. bad \subseteq Nat
    OBVIOUS
  <2> HIDE DEF bad
  <2> QED
    BY <1>1, <2>1, LeastName
<1>3. m \in 1..n
  OBVIOUS
<1>4. f[m] = IF m = 1 THEN blocks[m] ELSE f[m - 1] \o blocks[m]
  <2>1. f = [i \in 1..n |-> IF i = 1 THEN blocks[i] ELSE f[i - 1] \o blocks[i]]
    BY Zenon DEF Chained
  <2> HIDE DEF bad
  <2>2. \A i \in 1..n : f[i] = IF i = 1 THEN blocks[i] ELSE f[i - 1] \o blocks[i]
    BY <2>1
  <2> QED
    BY <1>3, <2>2
<1>5. ~Fine(m)
  OBVIOUS
<1>6. CASE m = 1
  <2>1. UNION {ToSet(blocks[i]) : i \in 1..1} = ToSet(blocks[1])
    OBVIOUS
  <2> QED
    BY <1>3, <1>4, <1>5, <1>6, <2>1
<1>7. CASE m # 1
  <2>1. m - 1 \in 1..n /\ ~(m <= m - 1)
    BY <1>3, <1>7
  <2>2. Fine(m - 1)
    BY <1>2, <2>1
  <2>3. \A c \in ToSet(f[m - 1]), d \in ToSet(blocks[m]) : Precedes(c, d)
    <3> SUFFICES ASSUME NEW i \in 1..m - 1, NEW c \in ToSet(blocks[i]), NEW d \in ToSet(blocks[m])
        PROVE Precedes(c, d)
      BY <2>2
    <3>1. i \in 1..n /\ i < m
      BY <1>3
    <3> QED
      BY <1>3, <3>1
  <2>4. /\ f[m - 1] \o blocks[m] \in Seq(GuardCall) /\ Orderly(f[m - 1] \o blocks[m])
        /\ ToSet(f[m - 1] \o blocks[m]) = ToSet(f[m - 1]) \cup ToSet(blocks[m])
    BY <1>3, <2>2, <2>3, CallsJoin
  <2>5. UNION {ToSet(blocks[i]) : i \in 1..m} = (UNION {ToSet(blocks[i]) : i \in 1..m - 1}) \cup ToSet(blocks[m])
    <3> HIDE DEF bad, Fine
    <3>1. PICK S, R : S = 1..m /\ R = 1..m - 1 /\ S = R \cup {m}
      BY <1>3
    <3>2. UNION {ToSet(blocks[i]) : i \in S} = (UNION {ToSet(blocks[i]) : i \in R}) \cup ToSet(blocks[m])
      BY <3>1
    <3> QED
      BY <3>1, <3>2, Zenon
  <2> QED
    BY <1>4, <1>5, <1>7, <2>2, <2>4, <2>5
<1> QED
  BY <1>6, <1>7

\* One call after the other, for one filter after the other.
LEMMA CallsForIs ==
    ASSUME NEW order \in Seq(Filters), \A i, j \in 1..Len(order) : i # j => order[i] # order[j],
           NEW names \in Seq(CallNames), \A i, j \in 1..Len(names) : i < j => Turn(names[i]) < Turn(names[j])
    PROVE  /\ CallsFor(order, names) \in Seq(GuardCall) /\ Orderly(CallsFor(order, names))
           /\ ToSet(CallsFor(order, names)) = ToSet(names) \X ToSet(order)
<1>1. PICK n, k : n = Len(order) /\ k = Len(names)
  OBVIOUS
<1>2. n \in Nat /\ k \in Nat /\ DOMAIN order = 1..n /\ DOMAIN names = 1..k
  BY <1>1
<1>3. PICK blocks : blocks = [i \in 1..n |-> [j \in 1..k |-> <<names[j], order[i]>>]]
  OBVIOUS
<1>4. CallsFor(order, names) = FlattenSeq(blocks)
  BY <1>1, <1>3, Zenon DEF CallsFor
<1>5. ASSUME NEW i \in 1..n
      PROVE  /\ blocks[i] \in Seq(GuardCall) /\ Orderly(blocks[i])
             /\ ToSet(blocks[i]) = ToSet(names) \X {order[i]}
  <2>1. blocks[i] = [j \in 1..k |-> <<names[j], order[i]>>]
    BY <1>3
  <2>2. DOMAIN blocks[i] = 1..k /\ \A j \in 1..k : blocks[i][j] = <<names[j], order[i]>>
    BY <2>1
  <2>3. \A j \in 1..k : names[j] \in CallNames
    BY <1>2
  <2>4. order[i] \in Filters
    BY <1>2
  <2>5. blocks[i] \in Seq(GuardCall)
    BY <1>2, <2>1, <2>3, <2>4 DEF GuardCall
  <2>6. Orderly(blocks[i])
    <3> SUFFICES ASSUME NEW a \in 1..k, NEW b \in 1..k, a < b PROVE Precedes(blocks[i][a], blocks[i][b])
      BY <2>2 DEF Orderly
    <3>1. Turn(names[a]) < Turn(names[b])
      BY <1>1
    <3>2. Turn(names[a]) \in Nat
      BY DEF Turn
    <3> QED
      BY <2>2, <3>1, <3>2 DEF Precedes
  <2>7. ToSet(blocks[i]) = ToSet(names) \X {order[i]}
    <3>1. ToSet(blocks[i]) = {<<names[j], order[i]>> : j \in 1..k}
      BY <2>2 DEF ToSet
    <3>2. ToSet(names) = {names[j] : j \in 1..k}
      BY <1>2 DEF ToSet
    <3> QED
      BY <3>1, <3>2
  <2> QED
    BY <2>5, <2>6, <2>7
<1>6. CASE n = 0
  <2>1. blocks = << >>
    BY <1>3, <1>6
  <2>2. FlattenSeq(blocks) = << >>
    BY <2>1 DEF FlattenSeq
  <2>3. ToSet(order) = {}
    BY <1>2, <1>6 DEF ToSet
  <2>4. ToSet(<< >>) = {} /\ Orderly(<< >>) /\ << >> \in Seq(GuardCall)
    BY DEF ToSet, Orderly
  <2> QED
    BY <1>4, <2>2, <2>3, <2>4
<1>7. CASE n # 0
  <2>1. Len(blocks) = n
    BY <1>2, <1>3
  <2>2. PICK g : Chained(g, blocks, n) /\ FlattenSeq(blocks) = g[n]
    <3> DEFINE flatten == CHOOSE h : h = [i \in 1..Len(blocks) |-> IF i = 1 THEN blocks[i] ELSE h[i - 1] \o blocks[i]]
    <3>1. FlattenSeq(blocks) = flatten[n]
      BY <1>7, <2>1, Zenon DEF FlattenSeq
    <3>2. \E h : Chained(h, blocks, n)
      BY <1>2, <1>7, ChainedExists
    <3>3. \E h : h = [i \in 1..Len(blocks) |-> IF i = 1 THEN blocks[i] ELSE h[i - 1] \o blocks[i]]
      BY <2>1, <3>2, Zenon DEF Chained
    <3>4. Chained(flatten, blocks, n)
      BY <2>1, <3>3, Zenon DEF Chained
    <3> QED
      BY <3>1, <3>4, Zenon
  <2>3. ASSUME NEW i \in 1..n, NEW j \in 1..n, i < j, NEW c \in ToSet(blocks[i]), NEW d \in ToSet(blocks[j])
        PROVE Precedes(c, d)
    <3>1. c[2] = order[i] /\ d[2] = order[j]
      BY <1>5
    <3>2. order[i] # order[j]
      BY <1>1, <1>2, <2>3
    <3> QED
      BY <3>1, <3>2 DEF Precedes
  <2>4. /\ g[n] \in Seq(GuardCall) /\ Orderly(g[n])
        /\ ToSet(g[n]) = UNION {ToSet(blocks[i]) : i \in 1..n}
    <3>1. n \in Nat \ {0} /\ n \in 1..n
      BY <1>2, <1>7
    <3>2. \A m \in 1..n : /\ g[m] \in Seq(GuardCall) /\ Orderly(g[m])
                          /\ ToSet(g[m]) = UNION {ToSet(blocks[i]) : i \in 1..m}
      <4>1. \A i \in 1..n : blocks[i] \in Seq(GuardCall) /\ Orderly(blocks[i])
        BY <1>5
      <4>2. \A i, j \in 1..n : i < j => \A c \in ToSet(blocks[i]), d \in ToSet(blocks[j]) : Precedes(c, d)
        BY <2>3
      <4> QED
        BY <2>2, <3>1, <4>1, <4>2, ChainedOrderly, Zenon
    <3> QED
      BY <3>1, <3>2
  <2>5. UNION {ToSet(blocks[i]) : i \in 1..n} = ToSet(names) \X ToSet(order)
    <3>1. ToSet(order) = {order[i] : i \in 1..n}
      BY <1>2 DEF ToSet
    <3> QED
      BY <1>5, <3>1
  <2> QED
    BY <1>4, <2>2, <2>4, <2>5
<1> QED
  BY <1>6, <1>7

\* The orders the bridge may find the audio filters in name each of them once.
LEMMA OrderIs ==
    ASSUME NEW order \in SetToSeqs(Audio)
    PROVE  /\ order \in Seq(Audio) /\ ToSet(order) = Audio
           /\ \A i, j \in 1..Len(order) : i # j => order[i] # order[j]
<1>1. PICK n : n = Cardinality(Audio)
  OBVIOUS
<1>2. n \in Nat
  BY <1>1, FilterAssumption, FS_CardinalityType
<1>3. order \in [1..n -> Audio] /\ \A i, j \in 1..n : i # j => order[i] # order[j]
  BY <1>1, Zenon DEF SetToSeqs
<1>4. order \in Seq(Audio) /\ Len(order) = n
  BY <1>2, <1>3
<1>5. order \in Injection(1..n, Audio)
  BY <1>3 DEF Injection, IsInjective
<1>6. Cardinality(1..n) = n
  <2>1. Cardinality(1..n) = IF 1 > n THEN 0 ELSE n - 1 + 1
    BY <1>2, FS_Interval
  <2> QED
    BY <1>2, <2>1
<1>7. order \in Surjection(1..n, Audio)
  BY <1>1, <1>5, <1>6, FilterAssumption, FS_Injection, Zenon
<1>8. ToSet(order) = Audio
  BY <1>3, <1>7 DEF Surjection, ToSet
<1> QED
  BY <1>3, <1>4, <1>8

\* One name of a call, or three in turn.
LEMMA OneName ==
    ASSUME NEW a \in CallNames
    PROVE  /\ <<a>> \in Seq(CallNames) /\ ToSet(<<a>>) = {a}
           /\ \A i, j \in 1..Len(<<a>>) : i < j => Turn(<<a>>[i]) < Turn(<<a>>[j])
<1>1. DOMAIN <<a>> = {1} /\ <<a>>[1] = a
  OBVIOUS
<1>2. ToSet(<<a>>) = {a}
  BY <1>1 DEF ToSet
<1> QED
  BY <1>2

LEMMA ThreeNames ==
    ASSUME NEW a \in CallNames, NEW b \in CallNames, NEW c \in CallNames,
           Turn(a) < Turn(b), Turn(b) < Turn(c), NEW s, s = <<a, b, c>>
    PROVE  /\ s \in Seq(CallNames) /\ ToSet(s) = {a, b, c}
           /\ \A i, j \in 1..Len(s) : i < j => Turn(s[i]) < Turn(s[j])
<1>1. Turn(a) \in Nat /\ Turn(b) \in Nat /\ Turn(c) \in Nat
  BY DEF Turn
<1>2. s \in Seq(CallNames) /\ Len(s) = 3 /\ DOMAIN s = {1, 2, 3} /\ s[1] = a /\ s[2] = b /\ s[3] = c
  OBVIOUS
<1>3. ToSet(s) = {a, b, c}
  BY <1>2 DEF ToSet
<1>4. ASSUME NEW i \in 1..3, NEW j \in 1..3, i < j
      PROVE  Turn(s[i]) < Turn(s[j])
  <2>1. \/ i = 1 /\ j = 2
        \/ i = 1 /\ j = 3
        \/ i = 2 /\ j = 3
    BY <1>4
  <2> QED
    BY <1>1, <1>2, <2>1
<1> QED
  BY <1>2, <1>3, <1>4

LEMMA SwitchOnIs ==
    ASSUME NEW order \in SetToSeqs(Audio)
    PROVE  /\ SwitchOnCalls(order) \in Seq(GuardCall) /\ Orderly(SwitchOnCalls(order))
           /\ ToSet(SwitchOnCalls(order)) = {"on", "keep", "listen"} \X Filters
<1>1. /\ order \in Seq(Audio) /\ ToSet(order) = Audio
      /\ \A i, j \in 1..Len(order) : i # j => order[i] # order[j]
  BY OrderIs
<1>2. PICK all, n : all = Append(order, Video) /\ n = Len(order)
  OBVIOUS
<1>3. /\ n \in Nat /\ DOMAIN order = 1..n /\ all \in Seq(Filters) /\ Len(all) = n + 1 /\ DOMAIN all = 1..n + 1
      /\ \A i \in 1..n : all[i] = order[i] /\ order[i] \in Audio
      /\ all[n + 1] = Video
  BY <1>1, <1>2 DEF Filters
<1>4. \A i \in 1..n + 1 : i \in 1..n \/ i = n + 1
  BY <1>3
<1>5. \A i, j \in 1..Len(all) : i # j => all[i] # all[j]
  BY <1>1, <1>2, <1>3, <1>4, FilterAssumption
<1>6. ToSet(all) = Filters
  <2>1. ToSet(all) = ToSet(order) \cup {Video}
    <3>1. \A i \in 1..n : i \in 1..n + 1
      BY <1>3
    <3>2. n + 1 \in 1..n + 1
      BY <1>3
    <3> QED
      BY <1>3, <1>4, <3>1, <3>2 DEF ToSet
  <2> QED
    BY <1>1, <2>1 DEF Filters
<1>7. PICK names : names = <<"on", "keep", "listen">>
  OBVIOUS
<1>8. /\ names \in Seq(CallNames) /\ ToSet(names) = {"on", "keep", "listen"}
      /\ \A i, j \in 1..Len(names) : i < j => Turn(names[i]) < Turn(names[j])
  <2>1. "on" \in CallNames /\ "keep" \in CallNames /\ "listen" \in CallNames
    BY DEF CallNames
  <2>2. Turn("on") < Turn("keep") /\ Turn("keep") < Turn("listen")
    BY DEF Turn
  <2> QED
    <3>1. PICK a, b, c : a = "on" /\ b = "keep" /\ c = "listen"
      OBVIOUS
    <3>2. a \in CallNames /\ b \in CallNames /\ c \in CallNames /\ names = <<a, b, c>>
      BY <1>7, <2>1, <3>1
    <3>3. Turn(a) < Turn(b) /\ Turn(b) < Turn(c)
      BY <2>2, <3>1
    <3>4. /\ names \in Seq(CallNames) /\ ToSet(names) = {a, b, c}
      BY <3>2, <3>3, ThreeNames
    <3>5. \A i, j \in 1..Len(names) : i < j => Turn(names[i]) < Turn(names[j])
      BY <3>2, <3>3, ThreeNames
    <3> QED
      BY <3>1, <3>4, <3>5
<1>9. SwitchOnCalls(order) = CallsFor(all, names)
  BY <1>2, <1>7 DEF SwitchOnCalls
<1>10. /\ CallsFor(all, names) \in Seq(GuardCall) /\ Orderly(CallsFor(all, names))
       /\ ToSet(CallsFor(all, names)) = ToSet(names) \X ToSet(all)
  BY <1>3, <1>5, <1>8, CallsForIs, Zenon
<1> QED
  BY <1>6, <1>8, <1>9, <1>10, Zenon

LEMMA SwitchOffIs ==
    ASSUME NEW order \in SetToSeqs(Audio)
    PROVE  /\ SwitchOffCalls(order) \in Seq(GuardCall) /\ Orderly(SwitchOffCalls(order))
           /\ ToSet(SwitchOffCalls(order)) = {"forget", "unlisten", "off"} \X Filters
<1>1. /\ order \in Seq(Filters) /\ ToSet(order) = Audio
      /\ \A i, j \in 1..Len(order) : i # j => order[i] # order[j]
  <2>1. order \in Seq(Audio)
    BY OrderIs
  <2>2. order \in Seq(Filters)
    BY <2>1 DEF Filters
  <2> QED
    BY <2>2, OrderIs
<1>2. PICK first : first = <<Video>>
  OBVIOUS
<1>3. /\ first \in Seq(Filters) /\ ToSet(first) = {Video}
      /\ \A i, j \in 1..Len(first) : i # j => first[i] # first[j]
  <2>1. first \in Seq(Filters) /\ Len(first) = 1 /\ DOMAIN first = {1} /\ first[1] = Video
    BY <1>2 DEF Filters
  <2> QED
    BY <2>1 DEF ToSet
<1>4. "forget" \in CallNames /\ "unlisten" \in CallNames /\ "off" \in CallNames
  BY DEF CallNames
<1>5. Turn("forget") < Turn("unlisten") /\ Turn("unlisten") < Turn("off") /\ Turn("forget") < Turn("off")
  BY DEF Turn
<1>6. PICK va, vf, vu, vo : /\ va = CallsFor(first, <<"forget", "unlisten", "off">>)
                            /\ vf = CallsFor(order, <<"forget">>) /\ vu = CallsFor(order, <<"unlisten">>)
                            /\ vo = CallsFor(order, <<"off">>)
  OBVIOUS
<1>7. va \in Seq(GuardCall) /\ Orderly(va) /\ ToSet(va) = {"forget", "unlisten", "off"} \X {Video}
  <2>1. PICK names : names = <<"forget", "unlisten", "off">>
    OBVIOUS
  <2>2. /\ names \in Seq(CallNames) /\ ToSet(names) = {"forget", "unlisten", "off"}
        /\ \A i, j \in 1..Len(names) : i < j => Turn(names[i]) < Turn(names[j])
    <3>1. PICK a, b, c : a = "forget" /\ b = "unlisten" /\ c = "off"
      OBVIOUS
    <3>2. a \in CallNames /\ b \in CallNames /\ c \in CallNames /\ names = <<a, b, c>>
      BY <1>4, <2>1, <3>1
    <3>3. Turn(a) < Turn(b) /\ Turn(b) < Turn(c)
      BY <1>5, <3>1
    <3>4. /\ names \in Seq(CallNames) /\ ToSet(names) = {a, b, c}
      BY <3>2, <3>3, ThreeNames
    <3>5. \A i, j \in 1..Len(names) : i < j => Turn(names[i]) < Turn(names[j])
      BY <3>2, <3>3, ThreeNames
    <3> QED
      BY <3>1, <3>4, <3>5
  <2> QED
    BY <1>3, <1>6, <2>1, <2>2, CallsForIs, Zenon
<1>8. ASSUME NEW c \in CallNames, NEW v, v = CallsFor(order, <<c>>)
      PROVE  v \in Seq(GuardCall) /\ Orderly(v) /\ ToSet(v) = {c} \X Audio
  <2>1. PICK names : names = <<c>>
    OBVIOUS
  <2>2. /\ names \in Seq(CallNames) /\ ToSet(names) = {c}
        /\ \A i, j \in 1..Len(names) : i < j => Turn(names[i]) < Turn(names[j])
    BY <2>1, OneName, Zenon
  <2> QED
    BY <1>1, <1>8, <2>1, <2>2, CallsForIs, Zenon
<1>9. /\ vf \in Seq(GuardCall) /\ Orderly(vf) /\ ToSet(vf) = {"forget"} \X Audio
      /\ vu \in Seq(GuardCall) /\ Orderly(vu) /\ ToSet(vu) = {"unlisten"} \X Audio
      /\ vo \in Seq(GuardCall) /\ Orderly(vo) /\ ToSet(vo) = {"off"} \X Audio
  BY <1>4, <1>6, <1>8, Zenon
<1>10. PICK s : s = va \o vf
  OBVIOUS
<1>11. s \in Seq(GuardCall) /\ Orderly(s) /\ ToSet(s) = ({"forget", "unlisten", "off"} \X {Video}) \cup ({"forget"} \X Audio)
  <2>1. \A c \in ToSet(va), d \in ToSet(vf) : Precedes(c, d)
    BY <1>7, <1>9, FilterAssumption DEF Precedes
  <2> QED
    BY <1>7, <1>9, <1>10, <2>1, CallsJoin, Zenon
<1>12. PICK t : t = s \o vu
  OBVIOUS
<1>13. t \in Seq(GuardCall) /\ Orderly(t) /\ ToSet(t) = ToSet(s) \cup ({"unlisten"} \X Audio)
  <2>1. \A c \in ToSet(s), d \in ToSet(vu) : Precedes(c, d)
    BY <1>9, <1>11, <1>5, FilterAssumption DEF Precedes
  <2> QED
    <3>1. s \o vu \in Seq(GuardCall) /\ Orderly(s \o vu) /\ ToSet(s \o vu) = ToSet(s) \cup ToSet(vu)
      BY <1>9, <1>11, <2>1, CallsJoin, Zenon
    <3> QED
      BY <1>9, <1>12, <3>1, Zenon
<1>14. PICK u : u = t \o vo
  OBVIOUS
<1>15. u \in Seq(GuardCall) /\ Orderly(u) /\ ToSet(u) = ToSet(t) \cup ({"off"} \X Audio)
  <2>1. \A c \in ToSet(t), d \in ToSet(vo) : Precedes(c, d)
    BY <1>9, <1>11, <1>13, <1>5, FilterAssumption DEF Precedes
  <2> QED
    <3>1. t \o vo \in Seq(GuardCall) /\ Orderly(t \o vo) /\ ToSet(t \o vo) = ToSet(t) \cup ToSet(vo)
      BY <1>9, <1>13, <2>1, CallsJoin, Zenon
    <3> QED
      BY <1>9, <1>14, <3>1, Zenon
<1>16. ToSet(u) = {"forget", "unlisten", "off"} \X Filters
  BY <1>11, <1>13, <1>15 DEF Filters
<1>17. SwitchOffCalls(order) = u
  BY <1>2, <1>6, <1>10, <1>12, <1>14, Zenon DEF SwitchOffCalls
<1> QED
  BY <1>15, <1>16, <1>17

CallLeft(name, f) == <<name, f>> \in ToSet(todo)
Busy(f) == \E t \in Outsiders : outsider[t].filter = f /\ outsider[t].at # "away"

\* The calls left are those of the last request, in order.
CallsLeft ==
    /\ todo \in Seq(GuardCall) /\ Orderly(todo)
    /\ ToSet(todo) \subseteq (IF delayOn THEN {"on", "keep", "listen"} ELSE {"forget", "unlisten", "off"}) \X Filters

\* Switching on: what was called for a filter holds, and once all is, nobody
\* has left a filter off who does not still have to answer for it.
OnSoFar ==
    delayOn => \A f \in Filters :
      /\ ~CallLeft("keep", f) => f \in kept
      /\ ~CallLeft("listen", f) => f \in listening
      /\ ~CallLeft("on", f) => on[f] \/ (Settled /\ Busy(f))

\* Switching off: nobody listens to a filter that is off for good.
OffSoFar ==
    ~delayOn => \A f \in Filters :
      /\ ~CallLeft("unlisten", f) => f \notin listening
      /\ ~CallLeft("off", f) => ~on[f]
      /\ CallLeft("unlisten", f) => CallLeft("off", f)

GuardInvariant == TypeOK /\ CallsLeft /\ OnSoFar /\ OffSoFar

LEMMA GuardInit == Init => GuardInvariant
<1> SUFFICES ASSUME Init PROVE GuardInvariant
  OBVIOUS
<1>1. ToSet(todo) = {}
  BY DEF Init, ToSet
<1>2. TypeOK
  <2>1. Video \in Filters /\ Away.at = "away" /\ Away.filter = Video
        /\ Away \in [at : {"away", "flipped", "called", "checked"}, filter : Filters]
    BY DEF Away, Filters
  <2>2. outsider \in [Outsiders -> [at : {"away", "flipped", "called", "checked"}, filter : Filters]]
    BY <2>1, Zenon DEF Init
  <2>3. \A f \in Filters : ~InCallback(f)
    BY <2>1 DEF Init, InCallback
  <2> QED
    <3>1. on \in [Filters -> BOOLEAN]
      BY DEF Init
    <3>2. todo \in Seq({"on", "off", "keep", "forget", "listen", "unlisten"} \X Filters)
      BY DEF Init
    <3> QED
      BY <2>2, <2>3, <3>1, <3>2, Zenon DEF Init, TypeOK
<1>3. CallsLeft
  BY <1>1 DEF Init, CallsLeft, Orderly
<1>4. OnSoFar /\ OffSoFar
  BY <1>1 DEF Init, OnSoFar, OffSoFar, CallLeft
<1> QED
  BY <1>2, <1>3, <1>4 DEF GuardInvariant

\* Making one call leaves the ones after it.
LEMMA CallMade ==
    ASSUME CallsLeft, NEW name, NEW f, Next1(name, f)
    PROVE  /\ <<name, f>> \in ToSet(todo) /\ <<name, f>> \in GuardCall
           /\ todo' \in Seq(GuardCall) /\ Orderly(todo')
           /\ ToSet(todo') = ToSet(todo) \ {<<name, f>>}
           /\ \A c \in ToSet(todo') : Precedes(<<name, f>>, c)
<1>1. PICK s, n, t : s = todo /\ n = Len(todo) /\ t = Tail(todo)
  OBVIOUS
<1>2. s \in Seq(GuardCall) /\ s # << >> /\ Orderly(s) /\ s[1] = <<name, f>> /\ todo' = t /\ t = Tail(s)
  BY <1>1 DEF CallsLeft, Next1
<1>3. /\ n \in Nat /\ n >= 1 /\ DOMAIN s = 1..n /\ t \in Seq(GuardCall) /\ DOMAIN t = 1..n - 1
      /\ \A i \in 1..n - 1 : t[i] = s[i + 1]
  <2> HIDE DEF GuardCall
  <2>1. n \in Nat /\ n >= 1 /\ DOMAIN s = 1..n /\ t \in Seq(GuardCall) /\ Len(t) = n - 1
    BY <1>1, <1>2
  <2> QED
    BY <1>2, <2>1
<1>4. \A i \in 1..n - 1 : i + 1 \in 1..n /\ i + 1 # 1
  BY <1>3
<1>5. 1 \in 1..n /\ s[1] \in GuardCall
  <2> HIDE DEF GuardCall
  <2>1. 1 \in 1..n
    BY <1>3
  <2>2. \A i \in DOMAIN s : s[i] \in GuardCall
    BY <1>2
  <2> QED
    BY <1>3, <2>1, <2>2
<1>6. \A i \in 1..n : i = 1 \/ (i - 1 \in 1..n - 1 /\ (i - 1) + 1 = i)
  BY <1>3
<1>7. Orderly(t)
  <2> SUFFICES ASSUME NEW i \in 1..n - 1, NEW j \in 1..n - 1, i < j PROVE Precedes(t[i], t[j])
    BY <1>3 DEF Orderly
  <2>1. i + 1 \in 1..n /\ j + 1 \in 1..n /\ i + 1 < j + 1
    BY <1>3
  <2> QED
    BY <1>2, <1>3, <2>1 DEF Orderly
<1>8. \A c \in ToSet(t) : c \in ToSet(s) /\ Precedes(<<name, f>>, c)
  <2> SUFFICES ASSUME NEW i \in 1..n - 1 PROVE t[i] \in ToSet(s) /\ Precedes(<<name, f>>, t[i])
    BY <1>3 DEF ToSet
  <2>1. 1 \in 1..n /\ i + 1 \in 1..n /\ 1 < i + 1
    BY <1>3
  <2>2. t[i] = s[i + 1] /\ s[i + 1] \in ToSet(s)
    BY <1>3, <2>1 DEF ToSet
  <2>3. Precedes(s[1], s[i + 1])
    BY <1>2, <1>3, <2>1 DEF Orderly
  <2> QED
    BY <1>2, <2>2, <2>3
<1>9. \A c \in ToSet(s) : c = <<name, f>> \/ c \in ToSet(t)
  <2> SUFFICES ASSUME NEW i \in 1..n PROVE s[i] = <<name, f>> \/ s[i] \in ToSet(t)
    BY <1>3 DEF ToSet
  <2>1. CASE i # 1
    <3>1. i - 1 \in 1..n - 1 /\ s[i] = t[i - 1]
      BY <1>3, <1>6, <2>1
    <3> QED
      BY <1>3, <3>1 DEF ToSet
  <2> QED
    BY <1>2, <2>1
<1>10. <<name, f>> \in ToSet(s)
  BY <1>2, <1>3, <1>5 DEF ToSet
<1>11. ToSet(t) = ToSet(s) \ {<<name, f>>}
  BY <1>8, <1>9 DEF Precedes
<1> QED
  BY <1>1, <1>2, <1>3, <1>5, <1>7, <1>8, <1>10, <1>11

\* A call made for a filter: what is left for it, and for the others.
LEMMA LeftAfter ==
    ASSUME CallsLeft, NEW name, NEW f, Next1(name, f)
    PROVE  /\ CallsLeft' \/ delayOn' # delayOn
           /\ f \in Filters /\ CallLeft(name, f)
           /\ name \in IF delayOn THEN {"on", "keep", "listen"} ELSE {"forget", "unlisten", "off"}
           /\ \A n, g : CallLeft(n, g)' <=> CallLeft(n, g) /\ ~(n = name /\ g = f)
           /\ \A n : CallLeft(n, f)' => Turn(name) < Turn(n)
<1>1. /\ <<name, f>> \in ToSet(todo) /\ <<name, f>> \in GuardCall
      /\ todo' \in Seq(GuardCall) /\ Orderly(todo')
      /\ ToSet(todo') = ToSet(todo) \ {<<name, f>>}
      /\ \A c \in ToSet(todo') : Precedes(<<name, f>>, c)
  BY CallMade
<1>2. CallsLeft' \/ delayOn' # delayOn
  BY <1>1 DEF CallsLeft
<1>3. f \in Filters /\ CallLeft(name, f)
  BY <1>1 DEF GuardCall, CallLeft
<1>4. name \in IF delayOn THEN {"on", "keep", "listen"} ELSE {"forget", "unlisten", "off"}
  BY <1>1 DEF CallsLeft
<1>5. \A n, g : CallLeft(n, g)' <=> CallLeft(n, g) /\ ~(n = name /\ g = f)
  BY <1>1 DEF CallLeft
<1>6. \A n : CallLeft(n, f)' => Turn(name) < Turn(n)
  BY <1>1 DEF CallLeft, Precedes
<1> QED
  BY <1>2, <1>3, <1>4, <1>5, <1>6

LEMMA GuardBridge ==
    ASSUME GuardInvariant, Bridge
    PROVE  GuardInvariant'
<1>1. ASSUME NEW order \in SetToSeqs(Audio), Ask(TRUE, SwitchOnCalls(order)) PROVE GuardInvariant'
  <2>1. ToSet(todo') = {"on", "keep", "listen"} \X Filters /\ todo' \in Seq(GuardCall) /\ Orderly(todo') /\ delayOn'
    BY <1>1, SwitchOnIs DEF Ask
  <2>2. TypeOK'
    BY <1>1, <2>1 DEF GuardInvariant, TypeOK, Ask, InCallback, GuardCall, CallNames
  <2>3. CallsLeft'
    BY <2>1 DEF CallsLeft
  <2>4. \A f \in Filters : CallLeft("on", f)' /\ CallLeft("keep", f)' /\ CallLeft("listen", f)'
    BY <2>1 DEF CallLeft
  <2>5. OnSoFar' /\ OffSoFar'
    BY <2>1, <2>4 DEF OnSoFar, OffSoFar
  <2> QED
    BY <2>2, <2>3, <2>5 DEF GuardInvariant
<1>2. ASSUME NEW order \in SetToSeqs(Audio), Ask(FALSE, SwitchOffCalls(order)) PROVE GuardInvariant'
  <2>1. ToSet(todo') = {"forget", "unlisten", "off"} \X Filters /\ todo' \in Seq(GuardCall) /\ Orderly(todo') /\ ~delayOn'
    BY <1>2, SwitchOffIs DEF Ask
  <2>2. TypeOK'
    BY <1>2, <2>1 DEF GuardInvariant, TypeOK, Ask, InCallback, GuardCall, CallNames
  <2>3. CallsLeft'
    BY <2>1 DEF CallsLeft
  <2>4. \A f \in Filters : CallLeft("unlisten", f)' /\ CallLeft("off", f)'
    BY <2>1 DEF CallLeft
  <2>5. OnSoFar' /\ OffSoFar'
    BY <2>1, <2>4 DEF OnSoFar, OffSoFar
  <2> QED
    BY <2>2, <2>3, <2>5 DEF GuardInvariant
<1>3. ASSUME NEW f \in Filters, SetEnabled(f) PROVE GuardInvariant'
  <2>1. PICK name \in {"on", "off"} : Next1(name, f) /\ on' = [on EXCEPT ![f] = (name = "on")]
    BY <1>3 DEF SetEnabled
  <2>2. UNCHANGED <<listening, kept, delayOn, outsider>>
    BY <1>3 DEF SetEnabled
  <2>3. /\ CallsLeft' \/ delayOn' # delayOn
        /\ CallLeft(name, f)
        /\ name \in IF delayOn THEN {"on", "keep", "listen"} ELSE {"forget", "unlisten", "off"}
        /\ \A n, g : CallLeft(n, g)' <=> CallLeft(n, g) /\ ~(n = name /\ g = f)
        /\ \A n : CallLeft(n, f)' => Turn(name) < Turn(n)
    BY <2>1, LeftAfter DEF GuardInvariant
  <2>4. CallsLeft'
    BY <2>2, <2>3
  <2>5. TypeOK'
    BY <2>1, <2>2, <2>4 DEF GuardInvariant, TypeOK, InCallback, CallsLeft, GuardCall, CallNames
  <2>6. ~Settled
    BY <2>1 DEF Next1, Settled
  <2>7. \A g \in Filters : on[g] \in BOOLEAN /\ on'[g] = (IF g = f THEN name = "on" ELSE on[g])
    BY <2>1 DEF GuardInvariant, TypeOK
  <2>8. OnSoFar'
    BY <2>2, <2>3, <2>6, <2>7 DEF OnSoFar, GuardInvariant
  <2>9. OffSoFar'
    <3>1. delayOn = FALSE => name = "off"
      BY <2>3, <2>1
    <3>2. name = "off" => ~CallLeft("unlisten", f)'
      BY <2>3 DEF Turn
    <3> QED
      BY <2>2, <2>3, <2>7, <3>1, <3>2 DEF OffSoFar, GuardInvariant
  <2> QED
    BY <2>4, <2>5, <2>8, <2>9 DEF GuardInvariant
<1>4. ASSUME NEW f \in Filters, Keep(f) PROVE GuardInvariant'
  <2>1. PICK name \in {"keep", "forget"} :
           Next1(name, f) /\ kept' = IF name = "keep" THEN kept \cup {f} ELSE kept \ {f}
    BY <1>4 DEF Keep
  <2>2. UNCHANGED <<on, listening, delayOn, outsider>>
    BY <1>4 DEF Keep
  <2>3. /\ CallsLeft' \/ delayOn' # delayOn
        /\ CallLeft(name, f)
        /\ name \in IF delayOn THEN {"on", "keep", "listen"} ELSE {"forget", "unlisten", "off"}
        /\ \A n, g : CallLeft(n, g)' <=> CallLeft(n, g) /\ ~(n = name /\ g = f)
    BY <2>1, LeftAfter DEF GuardInvariant
  <2>4. CallsLeft'
    BY <2>2, <2>3
  <2>5. TypeOK'
    BY <2>1, <2>2, <2>4 DEF GuardInvariant, TypeOK, InCallback, CallsLeft, GuardCall, CallNames
  <2>6. ~Settled
    BY <2>1 DEF Next1, Settled
  <2>7. OnSoFar' /\ OffSoFar'
    BY <2>1, <2>2, <2>3, <2>6 DEF OnSoFar, OffSoFar, GuardInvariant
  <2> QED
    BY <2>4, <2>5, <2>7 DEF GuardInvariant
<1>5. ASSUME NEW f \in Filters, ConnectGuard(f) \/ DisconnectGuard(f) PROVE GuardInvariant'
  <2>1. PICK name \in {"listen", "unlisten"} :
           /\ Next1(name, f) /\ listening' = IF name = "listen" THEN listening \cup {f} ELSE listening \ {f}
           /\ name = "unlisten" => ~InCallback(f)
    BY <1>5 DEF ConnectGuard, DisconnectGuard
  <2>2. UNCHANGED <<on, kept, delayOn, outsider>>
    BY <1>5 DEF ConnectGuard, DisconnectGuard
  <2>3. /\ CallsLeft' \/ delayOn' # delayOn
        /\ CallLeft(name, f)
        /\ name \in IF delayOn THEN {"on", "keep", "listen"} ELSE {"forget", "unlisten", "off"}
        /\ \A n, g : CallLeft(n, g)' <=> CallLeft(n, g) /\ ~(n = name /\ g = f)
    BY <2>1, LeftAfter DEF GuardInvariant
  <2>4. CallsLeft'
    BY <2>2, <2>3
  <2>5. TypeOK'
    BY <2>1, <2>2, <2>4 DEF GuardInvariant, TypeOK, InCallback, CallsLeft, GuardCall, CallNames
  <2>6. ~Settled
    BY <2>1 DEF Next1, Settled
  <2>7. OnSoFar' /\ OffSoFar'
    BY <2>1, <2>2, <2>3, <2>6 DEF OnSoFar, OffSoFar, GuardInvariant
  <2> QED
    BY <2>4, <2>5, <2>7 DEF GuardInvariant
<1> QED
  BY <1>1, <1>2, <1>3, <1>4, <1>5 DEF Bridge, SwitchOn, SwitchOff

\* Without early interference the filters are left alone while they are switched on.
LEMMA GuardOutside ==
    ASSUME ~Early, GuardInvariant, NEW t \in Outsiders, Outside(t)
    PROVE  GuardInvariant'
<1>1. /\ UNCHANGED <<listening, kept, delayOn, todo>>
      /\ \A n, f : CallLeft(n, f)' <=> CallLeft(n, f)
      /\ Settled' <=> Settled
      /\ CallsLeft'
  <2>1. UNCHANGED <<listening, kept, delayOn, todo>>
    BY DEF Outside, Flip, Emit, IsGuardedFilter, SwitchBackOn
  <2> QED
    BY <2>1 DEF CallLeft, Settled, CallsLeft, GuardInvariant
<1>2. /\ outsider \in [Outsiders -> [at : {"away", "flipped", "called", "checked"}, filter : Filters]]
      /\ on \in [Filters -> BOOLEAN]
      /\ \A u \in Outsiders : outsider[u].at \in {"called", "checked"} => outsider[u].filter \in listening
  BY DEF GuardInvariant, TypeOK, InCallback
<1>3. PICK who : who = outsider[t]
  OBVIOUS
<1>4. who.at \in {"away", "flipped", "called", "checked"} /\ who.filter \in Filters
  BY <1>2, <1>3
<1>5. \A f \in Filters : delayOn /\ Settled => f \in kept /\ f \in listening
  <2>1. Settled => \A n, f : ~CallLeft(n, f)
    BY DEF Settled, CallLeft, ToSet
  <2> QED
    BY <2>1 DEF GuardInvariant, OnSoFar
\* What a step of the outsider has to show.
<1>6. ASSUME NEW state, outsider' = [outsider EXCEPT ![t] = state],
             state.at \in {"away", "flipped", "called", "checked"}, state.filter \in Filters,
             state = [at |-> state.at, filter |-> state.filter],
             state.at \in {"called", "checked"} => state.filter \in listening,
             on' \in [Filters -> BOOLEAN],
             \A f \in Filters : delayOn /\ on[f] /\ ~on'[f] => Settled /\ state.at # "away" /\ state.filter = f,
             \A f \in Filters : delayOn /\ Settled /\ who.at # "away" /\ who.filter = f
                                 => on'[f] \/ (state.at # "away" /\ state.filter = f),
             \A f \in Filters : ~delayOn /\ ~on[f] /\ on'[f] => CallLeft("unlisten", f)
      PROVE  GuardInvariant'
  <2>1. state \in [at : {"away", "flipped", "called", "checked"}, filter : Filters]
    BY <1>6
  <2>2. /\ \A u \in Outsiders : outsider'[u] = IF u = t THEN state ELSE outsider[u]
        /\ outsider' \in [Outsiders -> [at : {"away", "flipped", "called", "checked"}, filter : Filters]]
    BY <1>2, <1>6, <2>1
  <2>3. TypeOK'
    BY <1>1, <1>2, <1>6, <2>2 DEF TypeOK, InCallback, GuardInvariant
  <2>4. OnSoFar'
    <3> SUFFICES ASSUME delayOn, NEW f \in Filters, ~CallLeft("on", f) PROVE (on[f] \/ (Settled /\ Busy(f)))'
      BY <1>1 DEF OnSoFar, GuardInvariant
    <3>1. on[f] \/ (Settled /\ Busy(f))
      BY DEF OnSoFar, GuardInvariant
    <3>2. CASE on[f]
      BY <1>1, <1>6, <2>2, <3>2 DEF Busy
    <3>3. CASE ~on[f] /\ Settled /\ Busy(f)
      <4>1. PICK u \in Outsiders : outsider[u].filter = f /\ outsider[u].at # "away"
        BY <3>3 DEF Busy
      <4>2. CASE u = t
        BY <1>1, <1>3, <1>6, <2>2, <3>3, <4>1, <4>2 DEF Busy
      <4>3. CASE u # t
        BY <1>1, <2>2, <3>3, <4>1, <4>3 DEF Busy
      <4> QED
        BY <4>2, <4>3
    <3> QED
      BY <3>1, <3>2, <3>3
  <2>5. OffSoFar'
    <3> SUFFICES ASSUME ~delayOn, NEW f \in Filters, ~CallLeft("off", f) PROVE ~on'[f]
      BY <1>1 DEF OffSoFar, GuardInvariant
    <3>1. ~on[f] /\ ~CallLeft("unlisten", f)
      BY DEF OffSoFar, GuardInvariant
    <3> QED
      BY <1>6, <3>1
  <2> QED
    BY <1>1, <2>3, <2>4, <2>5 DEF GuardInvariant
<1>7. ASSUME Emit(t) PROVE GuardInvariant'
  <2>1. PICK state : state = IF who.filter \in listening THEN [who EXCEPT !.at = "called"] ELSE Away
    OBVIOUS
  <2>2. outsider' = [outsider EXCEPT ![t] = state] /\ on' = on /\ who.at = "flipped"
    BY <1>3, <1>7, <2>1 DEF Emit, Goes
  <2>3. state = [at |-> IF who.filter \in listening THEN "called" ELSE "away",
                 filter |-> IF who.filter \in listening THEN who.filter ELSE Video]
    BY <1>2, <1>3, <2>1 DEF Away
  <2>4. /\ state.at \in {"called", "away"} /\ state.filter \in Filters
        /\ state = [at |-> state.at, filter |-> state.filter]
        /\ state.at = "called" => state.filter \in listening
        /\ who.filter \in listening => state.at = "called" /\ state.filter = who.filter
    BY <1>4, <2>3 DEF Filters
  <2>5. \A f \in Filters : delayOn /\ Settled /\ who.filter = f => who.filter \in listening
    BY <1>5
  <2> QED
    BY <1>2, <1>6, <2>2, <2>4, <2>5
<1>8. ASSUME IsGuardedFilter(t) PROVE GuardInvariant'
  <2>1. PICK state : state = IF who.filter \in kept THEN [who EXCEPT !.at = "checked"] ELSE Away
    OBVIOUS
  <2>2. outsider' = [outsider EXCEPT ![t] = state] /\ on' = on /\ who.at = "called"
    BY <1>3, <1>8, <2>1 DEF IsGuardedFilter, Goes
  <2>3. state = [at |-> IF who.filter \in kept THEN "checked" ELSE "away",
                 filter |-> IF who.filter \in kept THEN who.filter ELSE Video]
    BY <1>2, <1>3, <2>1 DEF Away
  <2>4. /\ state.at \in {"checked", "away"} /\ state.filter \in Filters
        /\ state = [at |-> state.at, filter |-> state.filter]
        /\ state.at = "checked" => state.filter = who.filter
        /\ who.filter \in kept => state.at = "checked" /\ state.filter = who.filter
    BY <1>4, <2>3 DEF Filters
  <2>5. \A f \in Filters : delayOn /\ Settled /\ who.filter = f => who.filter \in kept
    BY <1>5
  <2>6. who.filter \in listening
    BY <1>2, <1>3, <2>2
  <2> QED
    BY <1>2, <1>6, <2>2, <2>4, <2>5, <2>6
<1>9. ASSUME SwitchBackOn(t) PROVE GuardInvariant'
  <2>1. outsider' = [outsider EXCEPT ![t] = Away] /\ who.at = "checked" /\ on' = [on EXCEPT ![who.filter] = TRUE]
    BY <1>3, <1>9 DEF SwitchBackOn, Goes
  <2>2. /\ on' \in [Filters -> BOOLEAN]
        /\ \A f \in Filters : on'[f] = IF f = who.filter THEN TRUE ELSE on[f]
    BY <1>2, <1>4, <2>1
  <2>3. who.filter \in listening
    BY <1>2, <1>3, <2>1
  <2>4. ~delayOn => CallLeft("unlisten", who.filter)
    BY <1>4, <2>3 DEF OffSoFar, GuardInvariant
  <2>5. Away.at = "away" /\ Away.filter \in Filters /\ Away = [at |-> Away.at, filter |-> Away.filter]
    BY DEF Away, Filters
  <2> QED
    BY <1>6, <2>1, <2>2, <2>4, <2>5
<1>10. ASSUME NEW f \in Filters, Flip(t, f) PROVE GuardInvariant'
  <2>1. PICK state : state = [at |-> "flipped", filter |-> f]
    OBVIOUS
  <2>2. outsider' = [outsider EXCEPT ![t] = state] /\ who.at = "away" /\ on' = [on EXCEPT ![f] = FALSE]
    BY <1>3, <1>10, <2>1 DEF Flip, Goes, Away
  <2>3. /\ on' \in [Filters -> BOOLEAN]
        /\ \A g \in Filters : on'[g] = IF g = f THEN FALSE ELSE on[g]
    BY <1>2, <2>2
  <2>4. delayOn => Settled
    BY <1>10 DEF Flip
  <2>5. state.at = "flipped" /\ state.filter = f /\ state = [at |-> state.at, filter |-> state.filter]
    BY <2>1
  <2> QED
    BY <1>6, <2>2, <2>3, <2>4, <2>5
<1> QED
  BY <1>7, <1>8, <1>9, <1>10 DEF Outside

LEMMA GuardStep ==
    ASSUME ~Early, GuardInvariant, [Next]_vars
    PROVE  GuardInvariant'
<1>1. CASE UNCHANGED vars
  BY <1>1 DEF vars, GuardInvariant, TypeOK, InCallback, CallsLeft, OnSoFar, OffSoFar, CallLeft, Busy, Settled
<1> QED
  BY <1>1, GuardBridge, GuardOutside DEF Next

LEMMA GuardIsEnough == GuardInvariant => FiltersStay
<1> SUFFICES ASSUME GuardInvariant PROVE FiltersStay
  OBVIOUS
<1>1. Settled => \A n, f : ~CallLeft(n, f)
  BY DEF Settled, CallLeft, ToSet
<1> QED
  BY <1>1 DEF GuardInvariant, OnSoFar, OffSoFar, Busy, FiltersStay, OffStaysOff, OnStaysOn

-----------------------------------------------------------------------------
(* Outputs (OutputWatch). *)

Bases == UNION {[M -> Nat] : M \in SUBSET Mixes}
OutputsTypes ==
    /\ outs \in [phase : [Outputs_ -> {"none", "stopped", "active", "gone"}], mix : [Outputs_ -> Mixes],
                 skipped : [Mixes -> Nat], errors : 0..MaxErrors]
    /\ watch \in [up : BOOLEAN, on : BOOLEAN, listing : BOOLEAN, refs : SUBSET Outputs_,
                  watched : SUBSET Outputs_, connected : SUBSET Outputs_, queued : Nat, sent : Nat,
                  told : Nat, dropped : Nat, atShutdown : Nat, base : Bases,
                  lag : [Mixes -> Nat], start : [Mixes -> Nat]]

\* What was heard is queued, told or dropped, and no more than the outputs said.
Counted ==
    /\ watch.sent = watch.queued + watch.told + watch.dropped /\ watch.sent <= outs.errors
    /\ ~watch.up => watch.told = watch.atShutdown

\* Whatever the bridge refers to exists, and what it watches while it exists is connected.
Connections ==
    /\ \A o \in watch.refs \cup watch.connected : Heard!Exists(o)
    /\ \A o \in watch.watched : outs.phase[o] # "none" /\ (Heard!Exists(o) => o \in watch.connected)
    /\ ~watch.up => ~watch.on /\ ~watch.listing /\ watch.connected = {}

\* The lag reported so far was skipped before the baseline of the next reading.
Lag ==
    /\ watch.on => \A m \in Mixes :
          /\ watch.lag[m] <= outs.skipped[m] - watch.start[m]
          /\ m \in DOMAIN watch.base => watch.lag[m] <= watch.base[m] - watch.start[m]
    /\ watch.lag["main"] = 0

HeardInvariant == OutputsTypes /\ Counted /\ Connections /\ Lag

LEMMA HeardInit == ASSUME Heard!WatchInit PROVE HeardInvariant
<1> USE PartsAssumption DEF Heard!WatchInit
<1>1. OutputsTypes
  <2>1. Heard!None \in [{} -> Nat]
    BY DEF Heard!None
  <2>2. Heard!None \in Bases
    BY <2>1 DEF Bases
  <2> HIDE DEF Heard!None
  <2> QED
    BY <2>2 DEF OutputsTypes
<1>2. Counted /\ Connections /\ Lag
  BY DEF Counted, Connections, Lag, Heard!Exists
<1> QED
  BY <1>1, <1>2 DEF HeardInvariant

\* A reading of the mixes: what it adds to the lag is what was skipped since the last one.
LEMMA TakeReads ==
    ASSUME OutputsTypes, NEW w, w = Heard!TakeMixSkippedFrames(watch)
    PROVE  /\ w.base \in Bases
           /\ \A m \in DOMAIN w.base : m \in Mixes /\ m # "main" /\ w.base[m] = outs.skipped[m]
           /\ w.lag \in [Mixes -> Nat]
           /\ \A m \in Mixes : \/ w.lag[m] = watch.lag[m]
                               \/ /\ m # "main" /\ m \in DOMAIN watch.base
                                  /\ w.lag[m] = watch.lag[m] + (outs.skipped[m] - watch.base[m])
           /\ w = [watch EXCEPT !.base = w.base, !.lag = w.lag]
<1> DEFINE base == Heard!Baselines
           lag == [m \in Mixes |-> watch.lag[m]
                      + IF m \in Heard!MixesNow THEN Heard!Since(watch.base, m) ELSE 0]
<1>1. Heard!MixesNow \subseteq Mixes /\ "main" \notin Heard!MixesNow
  BY DEF Heard!MixesNow, OutputsTypes
<1>2. base \in [Heard!MixesNow -> Nat] /\ \A m \in Heard!MixesNow : base[m] = outs.skipped[m]
  BY <1>1 DEF Heard!Baselines, OutputsTypes
<1>3. base \in Bases
  BY <1>1, <1>2 DEF Bases
<1>4. ASSUME NEW m \in Mixes
      PROVE  /\ lag[m] \in Nat
             /\ \/ lag[m] = watch.lag[m]
                \/ /\ m # "main" /\ m \in DOMAIN watch.base
                   /\ lag[m] = watch.lag[m] + (outs.skipped[m] - watch.base[m])
  <2>1. watch.lag[m] \in Nat /\ outs.skipped[m] \in Nat
    BY DEF OutputsTypes
  <2>2. PICK M \in SUBSET Mixes : watch.base \in [M -> Nat]
    BY DEF OutputsTypes, Bases
  <2>3. m \in DOMAIN watch.base => watch.base[m] \in Nat
    BY <2>2
  <2> QED
    BY <1>1, <2>1, <2>3 DEF Heard!Since
<1>5. w = [watch EXCEPT !.base = base, !.lag = lag]
  BY DEF Heard!TakeMixSkippedFrames
<1> HIDE DEF base, lag
<1>6. w.base = base /\ w.lag = lag
  BY <1>5 DEF OutputsTypes
<1>7. lag \in [Mixes -> Nat]
  BY <1>4 DEF lag
<1> QED
  BY <1>1, <1>2, <1>3, <1>4, <1>5, <1>6, <1>7


LEMMA HeardTypesStep ==
    ASSUME OutputsTypes, Connections, Counted, Heard!WatchNext
    PROVE  OutputsTypes'
<1> USE PartsAssumption
<1>1. ASSUME NEW o \in Outputs_, NEW m \in Mixes, Heard!Create(o, m) PROVE OutputsTypes'
  BY <1>1 DEF OutputsTypes, Heard!Create
<1>2. ASSUME NEW o \in Outputs_, NEW error \in BOOLEAN, Heard!StopOutput(o, error) PROVE OutputsTypes'
  <2>1. outs.errors \in 0..MaxErrors /\ (error => outs.errors + 1 \in 0..MaxErrors)
    BY <1>2 DEF OutputsTypes, Heard!StopOutput
  <2>2. outs' \in [phase : [Outputs_ -> {"none", "stopped", "active", "gone"}], mix : [Outputs_ -> Mixes],
                   skipped : [Mixes -> Nat], errors : 0..MaxErrors]
    BY <1>2, <2>1 DEF OutputsTypes, Heard!StopOutput
  <2> QED
    <3>1. CASE o \in watch.connected /\ error
      <4>1. watch' = [watch EXCEPT !.queued = watch.queued + 1, !.sent = watch.sent + 1]
        BY <1>2, <3>1 DEF Heard!StopOutput, Heard!OutputStopSignal
      <4>2. watch.queued + 1 \in Nat /\ watch.sent + 1 \in Nat
        BY DEF OutputsTypes
      <4>3. watch' \in [up : BOOLEAN, on : BOOLEAN, listing : BOOLEAN, refs : SUBSET Outputs_,
                  watched : SUBSET Outputs_, connected : SUBSET Outputs_, queued : Nat, sent : Nat,
                  told : Nat, dropped : Nat, atShutdown : Nat, base : Bases,
                  lag : [Mixes -> Nat], start : [Mixes -> Nat]]
        BY <4>1, <4>2 DEF OutputsTypes
      <4> QED
        BY <2>2, <4>3 DEF OutputsTypes
    <3>2. CASE ~(o \in watch.connected /\ error)
      <4>1. watch' = watch
        BY <1>2, <3>2 DEF Heard!StopOutput, Heard!OutputStopSignal
      <4> QED
        BY <2>2, <4>1 DEF OutputsTypes
    <3> QED
      BY <3>1, <3>2
<1>3. ASSUME NEW o \in Outputs_, Heard!Destroy(o) PROVE OutputsTypes'
  BY <1>3 DEF OutputsTypes, Heard!Destroy
<1>4. ASSUME NEW o \in Outputs_, Heard!Connect(o) PROVE OutputsTypes'
  BY <1>4 DEF OutputsTypes, Heard!Connect
<1>5. ASSUME NEW o \in Outputs_, Heard!FrontendEventCallback(o) PROVE OutputsTypes'
  BY <1>5 DEF OutputsTypes, Heard!FrontendEventCallback
<1>6. ASSUME NEW o \in Outputs_, Heard!OtherStart(o) PROVE OutputsTypes'
  BY <1>6 DEF OutputsTypes, Heard!OtherStart
<1>7. ASSUME NEW m \in Mixes, Heard!SkipFrame(m) PROVE OutputsTypes'
  BY <1>7 DEF OutputsTypes, Heard!SkipFrame
<1>8. ASSUME Heard!Watched PROVE OutputsTypes'
  BY <1>8 DEF OutputsTypes, Heard!Watched
<1>t. PICK w : w = Heard!TakeMixSkippedFrames(watch)
  OBVIOUS
<1>u. /\ w.base \in Bases /\ w.lag \in [Mixes -> Nat]
      /\ w = [watch EXCEPT !.base = w.base, !.lag = w.lag]
  BY <1>t, TakeReads
<1>9. ASSUME Heard!Enable PROVE OutputsTypes'
  <2>1. watch' = Heard!Listed([w EXCEPT !.on = TRUE, !.lag = [m \in Mixes |-> 0], !.start = outs.skipped])
    BY <1>9, <1>t DEF Heard!Enable
  <2>2. outs' = outs
    BY <1>9 DEF Heard!Enable
  <2> QED
    BY <1>u, <2>1, <2>2 DEF OutputsTypes, Heard!Listed
<1>10. ASSUME Heard!Tick PROVE OutputsTypes'
  <2>1. watch' = Heard!Listed(w) /\ outs' = outs
    BY <1>10, <1>t DEF Heard!Tick
  <2> QED
    BY <1>u, <2>1 DEF OutputsTypes, Heard!Listed
<1>11. ASSUME Heard!Disable PROVE OutputsTypes'
  BY <1>11 DEF OutputsTypes, Heard!Disable
<1>12. ASSUME Heard!OutputEncodeErrorTask PROVE OutputsTypes'
  <2> DEFINE told == IF watch.up THEN watch.told + 1 ELSE watch.told
             dropped == IF watch.up THEN watch.dropped ELSE watch.dropped + 1
  <2>1. /\ watch.queued > 0 /\ outs' = outs
        /\ watch' = [watch EXCEPT !.queued = watch.queued - 1, !.told = told, !.dropped = dropped]
    BY <1>12 DEF Heard!OutputEncodeErrorTask, Heard!TaskRuns
  <2>2. watch.queued - 1 \in Nat /\ told \in Nat /\ dropped \in Nat
    BY <2>1 DEF OutputsTypes
  <2> HIDE DEF told, dropped
  <2> QED
    BY <2>1, <2>2 DEF OutputsTypes
<1>13. ASSUME Heard!Shutdown PROVE OutputsTypes'
  BY <1>13 DEF OutputsTypes, Heard!Shutdown, Heard!UnwatchOutputStops
<1> QED
  BY <1>1, <1>2, <1>3, <1>4, <1>5, <1>6, <1>7, <1>8, <1>9, <1>10, <1>11, <1>12, <1>13 DEF Heard!WatchNext

LEMMA CountedStep ==
    ASSUME OutputsTypes, Counted, Connections, Heard!WatchNext
    PROVE  Counted'
<1> USE DEF Counted, OutputsTypes
<1>1. ASSUME NEW o \in Outputs_, NEW m \in Mixes, Heard!Create(o, m) PROVE Counted'
  BY <1>1 DEF Heard!Create
<1>2. ASSUME NEW o \in Outputs_, NEW error \in BOOLEAN, Heard!StopOutput(o, error) PROVE Counted'
  <2>1. outs'.errors = IF error THEN outs.errors + 1 ELSE outs.errors
    BY <1>2 DEF Heard!StopOutput
  <2>2. CASE o \in watch.connected /\ error
    <3>1. watch' = [watch EXCEPT !.queued = watch.queued + 1, !.sent = watch.sent + 1]
      BY <1>2, <2>2 DEF Heard!StopOutput, Heard!OutputStopSignal
    <3>2. /\ watch'.sent = watch.sent + 1 /\ watch'.queued = watch.queued + 1 /\ watch'.told = watch.told
          /\ watch'.dropped = watch.dropped /\ watch'.up = watch.up /\ watch'.atShutdown = watch.atShutdown
      BY <3>1
    <3> QED
      BY <2>1, <2>2, <3>2
  <2>3. CASE ~(o \in watch.connected /\ error)
    <3>1. watch' = watch
      BY <1>2, <2>3 DEF Heard!StopOutput, Heard!OutputStopSignal
    <3> QED
      BY <2>1, <3>1
  <2> QED
    BY <2>2, <2>3
<1>3. ASSUME NEW o \in Outputs_, Heard!Destroy(o) PROVE Counted'
  BY <1>3 DEF Heard!Destroy
<1>4. ASSUME NEW o \in Outputs_, Heard!Connect(o) PROVE Counted'
  BY <1>4 DEF Heard!Connect
<1>5. ASSUME NEW o \in Outputs_, Heard!FrontendEventCallback(o) PROVE Counted'
  BY <1>5 DEF Heard!FrontendEventCallback
<1>6. ASSUME NEW o \in Outputs_, Heard!OtherStart(o) PROVE Counted'
  BY <1>6 DEF Heard!OtherStart
<1>7. ASSUME NEW m \in Mixes, Heard!SkipFrame(m) PROVE Counted'
  BY <1>7 DEF Heard!SkipFrame
<1>8. ASSUME Heard!Watched PROVE Counted'
  BY <1>8 DEF Heard!Watched
<1>t. PICK w : w = Heard!TakeMixSkippedFrames(watch)
  OBVIOUS
<1>u. w = [watch EXCEPT !.base = w.base, !.lag = w.lag]
  BY <1>t, TakeReads
<1>9. ASSUME Heard!Enable PROVE Counted'
  <2>1. watch' = Heard!Listed([w EXCEPT !.on = TRUE, !.lag = [m \in Mixes |-> 0], !.start = outs.skipped])
    BY <1>9, <1>t DEF Heard!Enable
  <2>2. outs' = outs
    BY <1>9 DEF Heard!Enable
  <2> QED
    BY <1>u, <2>1, <2>2 DEF Heard!Listed
<1>10. ASSUME Heard!Tick PROVE Counted'
  <2>1. watch' = Heard!Listed(w) /\ outs' = outs
    BY <1>10, <1>t DEF Heard!Tick
  <2> QED
    BY <1>u, <2>1 DEF Heard!Listed
<1>11. ASSUME Heard!Disable PROVE Counted'
  BY <1>11 DEF Heard!Disable
<1>12. ASSUME Heard!OutputEncodeErrorTask PROVE Counted'
  <2>1. /\ watch.queued > 0 /\ outs' = outs
        /\ watch' = [watch EXCEPT !.queued = watch.queued - 1,
                                  !.told = IF watch.up THEN watch.told + 1 ELSE watch.told,
                                  !.dropped = IF watch.up THEN watch.dropped ELSE watch.dropped + 1]
    BY <1>12 DEF Heard!OutputEncodeErrorTask, Heard!TaskRuns
  <2> QED
    BY <2>1
<1>13. ASSUME Heard!Shutdown PROVE Counted'
  BY <1>13 DEF Heard!Shutdown, Heard!UnwatchOutputStops
<1> QED
  BY <1>1, <1>2, <1>3, <1>4, <1>5, <1>6, <1>7, <1>8, <1>9, <1>10, <1>11, <1>12, <1>13 DEF Heard!WatchNext

LEMMA ConnectionsStep ==
    ASSUME OutputsTypes, Connections, Heard!WatchNext
    PROVE  Connections'
<1> USE DEF Connections, OutputsTypes, Heard!Exists, Heard!Active, Heard!Quiet
<1>1. ASSUME NEW o \in Outputs_, NEW m \in Mixes, Heard!Create(o, m) PROVE Connections'
  BY <1>1 DEF Heard!Create
<1>2. ASSUME NEW o \in Outputs_, NEW error \in BOOLEAN, Heard!StopOutput(o, error) PROVE Connections'
  <2>1. /\ watch'.refs = watch.refs /\ watch'.watched = watch.watched /\ watch'.connected = watch.connected
        /\ watch'.up = watch.up /\ watch'.on = watch.on /\ watch'.listing = watch.listing
    BY <1>2 DEF Heard!StopOutput, Heard!OutputStopSignal
  <2>2. outs.phase[o] = "active" /\ outs'.phase = [outs.phase EXCEPT ![o] = "stopped"]
    BY <1>2 DEF Heard!StopOutput
  <2>3. outs.phase \in [Outputs_ -> {"none", "stopped", "active", "gone"}]
    OBVIOUS
  <2> QED
    BY <2>1, <2>2, <2>3
<1>3. ASSUME NEW o \in Outputs_, Heard!Destroy(o) PROVE Connections'
  BY <1>3 DEF Heard!Destroy
<1>4. ASSUME NEW o \in Outputs_, Heard!Connect(o) PROVE Connections'
  BY <1>4 DEF Heard!Connect
<1>5. ASSUME NEW o \in Outputs_, Heard!FrontendEventCallback(o) PROVE Connections'
  BY <1>5 DEF Heard!FrontendEventCallback
<1>6. ASSUME NEW o \in Outputs_, Heard!OtherStart(o) PROVE Connections'
  BY <1>6 DEF Heard!OtherStart
<1>7. ASSUME NEW m \in Mixes, Heard!SkipFrame(m) PROVE Connections'
  BY <1>7 DEF Heard!SkipFrame
<1>8. ASSUME Heard!Watched PROVE Connections'
  BY <1>8 DEF Heard!Watched
<1>t. PICK w : w = Heard!TakeMixSkippedFrames(watch)
  OBVIOUS
<1>u. w = [watch EXCEPT !.base = w.base, !.lag = w.lag]
  BY <1>t, TakeReads
<1>9. ASSUME Heard!Enable PROVE Connections'
  <2>1. watch' = Heard!Listed([w EXCEPT !.on = TRUE, !.lag = [m \in Mixes |-> 0], !.start = outs.skipped])
    BY <1>9, <1>t DEF Heard!Enable
  <2>2. outs' = outs /\ watch.up
    BY <1>9 DEF Heard!Enable
  <2> QED
    BY <1>u, <2>1, <2>2 DEF Heard!Listed
<1>10. ASSUME Heard!Tick PROVE Connections'
  <2>1. watch' = Heard!Listed(w) /\ outs' = outs /\ watch.on
    BY <1>10, <1>t DEF Heard!Tick
  <2> QED
    BY <1>u, <2>1 DEF Heard!Listed
<1>11. ASSUME Heard!Disable PROVE Connections'
  BY <1>11 DEF Heard!Disable
<1>12. ASSUME Heard!OutputEncodeErrorTask PROVE Connections'
  BY <1>12 DEF Heard!OutputEncodeErrorTask, Heard!TaskRuns
<1>13. ASSUME Heard!Shutdown PROVE Connections'
  BY <1>13 DEF Heard!Shutdown, Heard!UnwatchOutputStops
<1> QED
  BY <1>1, <1>2, <1>3, <1>4, <1>5, <1>6, <1>7, <1>8, <1>9, <1>10, <1>11, <1>12, <1>13 DEF Heard!WatchNext

LEMMA LagStep ==
    ASSUME OutputsTypes, OutputsTypes', Lag, Heard!WatchNext
    PROVE  Lag'
<1>t. PICK w : w = Heard!TakeMixSkippedFrames(watch)
  OBVIOUS
<1>u. /\ \A m \in DOMAIN w.base : m \in Mixes /\ m # "main" /\ w.base[m] = outs.skipped[m]
      /\ \A m \in Mixes : \/ w.lag[m] = watch.lag[m]
                          \/ /\ m # "main" /\ m \in DOMAIN watch.base
                             /\ w.lag[m] = watch.lag[m] + (outs.skipped[m] - watch.base[m])
      /\ w = [watch EXCEPT !.base = w.base, !.lag = w.lag]
  BY <1>t, TakeReads
<1> USE PartsAssumption DEF OutputsTypes
<1> DEFINE Same == /\ watch'.lag = watch.lag /\ watch'.base = watch.base /\ watch'.start = watch.start
                   /\ watch'.on => watch.on
<1>0. ASSUME Same, outs'.skipped = outs.skipped PROVE Lag'
  BY <1>0 DEF Lag
<1>1. ASSUME NEW o \in Outputs_, NEW m \in Mixes, Heard!Create(o, m) PROVE Lag'
  BY <1>0, <1>1 DEF Heard!Create
<1>2. ASSUME NEW o \in Outputs_, NEW error \in BOOLEAN, Heard!StopOutput(o, error) PROVE Lag'
  BY <1>0, <1>2 DEF Heard!StopOutput, Heard!OutputStopSignal
<1>3. ASSUME NEW o \in Outputs_, Heard!Destroy(o) PROVE Lag'
  BY <1>0, <1>3 DEF Heard!Destroy
<1>4. ASSUME NEW o \in Outputs_, Heard!Connect(o) PROVE Lag'
  BY <1>0, <1>4 DEF Heard!Connect
<1>5. ASSUME NEW o \in Outputs_, Heard!FrontendEventCallback(o) PROVE Lag'
  BY <1>0, <1>5 DEF Heard!FrontendEventCallback
<1>6. ASSUME NEW o \in Outputs_, Heard!OtherStart(o) PROVE Lag'
  BY <1>0, <1>6 DEF Heard!OtherStart
<1>7. ASSUME NEW m \in Mixes, Heard!SkipFrame(m) PROVE Lag'
  <2>1. watch' = watch /\ outs'.skipped = [outs.skipped EXCEPT ![m] = outs.skipped[m] + 1]
    BY <1>7 DEF Heard!SkipFrame
  <2>2. \A n \in Mixes : outs'.skipped[n] >= outs.skipped[n]
    BY <2>1
  <2>3. \A n \in Mixes : watch.lag[n] \in Nat /\ watch.start[n] \in Nat /\ outs.skipped[n] \in Nat
                         /\ outs'.skipped[n] \in Nat
    OBVIOUS
  <2>4. watch.on => \A n \in Mixes : watch.lag[n] <= outs'.skipped[n] - watch.start[n]
    BY <2>2, <2>3 DEF Lag
  <2> QED
    BY <2>1, <2>4 DEF Lag
<1>8. ASSUME Heard!Watched PROVE Lag'
  BY <1>0, <1>8 DEF Heard!Watched
<1>9. ASSUME Heard!Enable PROVE Lag'
  <2>1. watch' = Heard!Listed([w EXCEPT !.on = TRUE, !.lag = [m \in Mixes |-> 0], !.start = outs.skipped])
    BY <1>9, <1>t DEF Heard!Enable
  <2>2. outs' = outs
    BY <1>9 DEF Heard!Enable
  <2>3. watch'.lag = [m \in Mixes |-> 0] /\ watch'.start = outs.skipped /\ watch'.base = w.base
    BY <1>u, <2>1 DEF Heard!Listed
  <2>4. \A m \in Mixes : outs.skipped[m] \in Nat
    OBVIOUS
  <2> QED
    BY <1>u, <2>2, <2>3, <2>4 DEF Lag
<1>10. ASSUME Heard!Tick PROVE Lag'
  <2>1. watch' = Heard!Listed(w) /\ outs' = outs /\ watch.on
    BY <1>10, <1>t DEF Heard!Tick
  <2>2. watch'.lag = w.lag /\ watch'.start = watch.start /\ watch'.base = w.base
    BY <1>u, <2>1 DEF Heard!Listed
  <2>3. ASSUME NEW m \in Mixes PROVE w.lag[m] <= outs.skipped[m] - watch.start[m]
    <3>1. watch.lag[m] \in Nat /\ watch.start[m] \in Nat /\ outs.skipped[m] \in Nat
      OBVIOUS
    <3>2. m \in DOMAIN watch.base => watch.base[m] \in Nat
      <4>1. PICK M \in SUBSET Mixes : watch.base \in [M -> Nat]
        BY DEF Bases
      <4> QED
        BY <4>1
    <3>3. watch.lag[m] <= outs.skipped[m] - watch.start[m]
      BY <2>1 DEF Lag
    <3>4. m \in DOMAIN watch.base => watch.lag[m] <= watch.base[m] - watch.start[m]
      BY <2>1 DEF Lag
    <3> QED
      BY <1>u, <3>1, <3>2, <3>3, <3>4
  <2>4. w.lag["main"] = 0
    BY <1>u DEF Lag
  <2> QED
    BY <1>u, <2>1, <2>2, <2>3, <2>4 DEF Lag
<1>11. ASSUME Heard!Disable PROVE Lag'
  BY <1>0, <1>11 DEF Heard!Disable
<1>12. ASSUME Heard!OutputEncodeErrorTask PROVE Lag'
  BY <1>0, <1>12 DEF Heard!OutputEncodeErrorTask, Heard!TaskRuns
<1>13. ASSUME Heard!Shutdown PROVE Lag'
  BY <1>0, <1>13 DEF Heard!Shutdown, Heard!UnwatchOutputStops
<1> QED
  BY <1>1, <1>2, <1>3, <1>4, <1>5, <1>6, <1>7, <1>8, <1>9, <1>10, <1>11, <1>12, <1>13 DEF Heard!WatchNext

LEMMA HeardStep ==
    ASSUME HeardInvariant, [Heard!WatchNext]_outputsVars
    PROVE  HeardInvariant'
<1>1. CASE Heard!WatchNext
  BY <1>1, HeardTypesStep, CountedStep, ConnectionsStep, LagStep DEF HeardInvariant
<1>2. CASE UNCHANGED outputsVars
  BY <1>2 DEF outputsVars, HeardInvariant, OutputsTypes, Counted, Connections, Lag, Heard!Exists
<1> QED
  BY <1>1, <1>2

LEMMA HeardIsEnough == HeardInvariant => Heard!HeardOnce
<1> SUFFICES ASSUME HeardInvariant PROVE Heard!HeardOnce
  OBVIOUS
<1>1. Heard!WatchTypeOK
  <2>1. outs.errors \in 0..MaxErrors /\ watch.queued \in Nat /\ watch.told \in Nat /\ watch.dropped \in Nat
    BY DEF HeardInvariant, OutputsTypes
  <2>2. watch.queued \in 0..MaxErrors /\ watch.told \in 0..MaxErrors
    BY <2>1, PartsAssumption DEF HeardInvariant, Counted
  <2>3. outs.phase \in [Outputs_ -> {"none", "stopped", "active", "gone"}]
    BY DEF HeardInvariant, OutputsTypes
  <2> QED
    BY <2>2, <2>3 DEF Heard!WatchTypeOK
<1> QED
  BY <1>1 DEF HeardInvariant, Counted, Connections, Lag, Heard!HeardOnce

-----------------------------------------------------------------------------
(* The settings over sessions (PluginSession). *)

\* Delays a file or a session can hold: 0 is a file's missing one.
Delays == {5} \cup SetDelays

FileOK(f) ==
    /\ f.kind \in {"none", "cut", "broken", "settings"}
    /\ f.kind = "none" <=> f = Session!NoFile
    /\ f.kind = "settings" => /\ f.delay \in {0} \cup Delays
                              /\ f.corner \in Nat

SessionTypes ==
    /\ disk = [file |-> disk.file, aside |-> disk.aside, sessions |-> disk.sessions, edits |-> disk.edits,
               written |-> disk.written, asked |-> disk.asked, saved |-> disk.saved]
    /\ FileOK(disk.file)
    /\ DOMAIN disk.aside \subseteq Nat /\ IsFiniteSet(DOMAIN disk.aside)
    /\ plugin = [loaded |-> plugin.loaded, settings |-> plugin.settings, state |-> plugin.state,
                 saves |-> plugin.saves, tasks |-> plugin.tasks]
    /\ plugin.settings \in [delay : Delays, corner : 0..3, on : [Switches -> BOOLEAN]]

Kept(f) == \E n \in DOMAIN disk.aside : disk.aside[n] = f
\* The texts nobody could read are in the file or aside, and aside once a session may save over the file.
TextsKept ==
    /\ \A f \in disk.written : f.kind = "broken" /\ (disk.file = f \/ Kept(f))
    /\ plugin.loaded /\ plugin.saves => \A f \in disk.written : Kept(f)

\* What was turned off is what the file says is off, and what the session runs without.
SwitchesKept ==
    /\ IF disk.file.kind = "settings"
       THEN {s \in Switches : disk.file.switches[s] = Session!Off(s)} = disk.asked ELSE disk.asked = {}
    /\ plugin.loaded => {s \in Switches : ~plugin.settings.on[s]} = disk.asked

\* The file a session saved gives the settings it ended with.
SettingsKept == \A ended \in disk.saved : disk.file.kind = "settings" /\ Session!Loaded(disk.file) = ended

SessionInvariant == SessionTypes /\ TextsKept /\ SwitchesKept /\ SettingsKept

LEMMA SessionInitOK == ASSUME Session!SessionInit PROVE SessionInvariant
<1> USE DEF Session!SessionInit, Session!NoFile, Session!Defaults
<1>1. SessionTypes
  BY FS_EmptySet DEF SessionTypes, FileOK, Delays
<1>2. TextsKept /\ SwitchesKept /\ SettingsKept
  BY DEF TextsKept, SwitchesKept, SettingsKept
<1> QED
  BY <1>1, <1>2 DEF SessionInvariant

\* There is always a free name: the first number too many is one more than the files set aside.
LEMMA NameIsFree ==
    ASSUME SessionTypes
    PROVE  Session!SetAsideName \in Nat /\ Session!SetAsideName \notin DOMAIN disk.aside
<1> DEFINE S == DOMAIN disk.aside
           c == Cardinality(S)
<1>1. IsFiniteSet(S) /\ c \in Nat
  BY FS_CardinalityType DEF SessionTypes
<1>2. Session!FreeNames # {}
  <2> SUFFICES ASSUME Session!FreeNames = {} PROVE FALSE
    OBVIOUS
  <2>0. Session!Cardinality(S) = c
    BY Zenon DEF Session!Cardinality, Cardinality
  <2>1. 1..(c + 1) \subseteq S
    BY <2>0 DEF Session!FreeNames
  <2>2. Cardinality(1..(c + 1)) <= c
    BY <1>1, <2>1, FS_Subset
  <2>3. Cardinality(1..(c + 1)) = c + 1
    <3>1. 1 \in Int /\ c + 1 \in Int /\ ~(1 > c + 1) /\ (c + 1) - 1 + 1 = c + 1
      BY <1>1
    <3> HIDE DEF c
    <3> QED
      BY <3>1, FS_Interval
  <2> HIDE DEF c
  <2> QED
    BY <1>1, <2>2, <2>3
<1>3. Session!FreeNames \subseteq Nat
  BY <1>1 DEF Session!FreeNames
<1>4. \E n \in Session!FreeNames : \A m \in Session!FreeNames : n <= m
  BY <1>2, <1>3, LeastName
<1>5. Session!SetAsideName \in Session!FreeNames
  BY <1>4 DEF Session!SetAsideName
<1> QED
  BY <1>3, <1>5 DEF Session!FreeNames

\* A file once loaded: exactly the switches it turns off are off.
LEMMA LoadedIs ==
    ASSUME NEW f, FileOK(f), f.kind = "settings"
    PROVE  /\ Session!Loaded(f) \in [delay : Delays, corner : 0..3, on : [Switches -> BOOLEAN]]
           /\ {s \in Switches : ~Session!Loaded(f).on[s]} = {s \in Switches : f.switches[s] = Session!Off(s)}
<1>1. \A s \in Switches : Session!ReadSetting(s, f.switches[s]) <=> f.switches[s] # Session!Off(s)
  BY DEF Session!ReadSetting, Session!ReadBufferCodec, Session!ReadHiddenSwitch, Session!Off
<1>2. \A s \in Switches : Session!ReadSetting(s, f.switches[s]) \in BOOLEAN
  BY DEF Session!ReadSetting, Session!ReadBufferCodec, Session!ReadHiddenSwitch
<1>3. /\ f.delay \in {0} \cup Delays /\ f.corner \in Nat
  BY DEF FileOK
<1> QED
  BY <1>1, <1>2, <1>3 DEF Session!Loaded, Delays

LEMMA LoadStep ==
    ASSUME SessionInvariant, Session!LoadBufferSettings
    PROVE  SessionInvariant'
<1> USE DEF SessionInvariant, SessionTypes
<1>1. /\ disk'.file = disk.file /\ disk'.aside = disk.aside /\ disk'.written = disk.written
      /\ disk'.asked = disk.asked /\ disk'.saved = disk.saved /\ disk.file.kind \in {"none", "settings"}
      /\ disk' = [file |-> disk'.file, aside |-> disk'.aside, sessions |-> disk'.sessions, edits |-> disk'.edits,
                  written |-> disk'.written, asked |-> disk'.asked, saved |-> disk'.saved]
  BY DEF Session!LoadBufferSettings
<1>0. plugin'.loaded
  BY DEF Session!LoadBufferSettings, Session!Started
<1>2. /\ plugin'.settings \in [delay : Delays, corner : 0..3, on : [Switches -> BOOLEAN]]
      /\ {s \in Switches : ~plugin'.settings.on[s]} = disk.asked
      /\ plugin' = [loaded |-> plugin'.loaded, settings |-> plugin'.settings, state |-> plugin'.state,
                    saves |-> plugin'.saves, tasks |-> plugin'.tasks]
  <2>1. CASE disk.file.kind = "none"
    <3>1. plugin' = Session!Started(Session!Defaults, TRUE)
      BY <2>1 DEF Session!LoadBufferSettings, FileOK
    <3> QED
      BY <2>1, <3>1 DEF Session!Started, Session!Defaults, SwitchesKept, Delays
  <2>2. CASE disk.file.kind = "settings"
    <3>1. plugin' = Session!Started(Session!Loaded(disk.file), TRUE)
      BY <2>2 DEF Session!LoadBufferSettings, Session!NoFile, FileOK
    <3>2. /\ Session!Loaded(disk.file) \in [delay : Delays, corner : 0..3, on : [Switches -> BOOLEAN]]
          /\ {s \in Switches : ~Session!Loaded(disk.file).on[s]} = disk.asked
      BY <2>2, LoadedIs DEF SwitchesKept
    <3> QED
      BY <3>1, <3>2 DEF Session!Started
  <2> QED
    BY <1>1, <2>1, <2>2
<1>3. SessionTypes'
  BY <1>0, <1>1, <1>2
<1>4. TextsKept'
  BY <1>1 DEF TextsKept, Kept
<1>5. SwitchesKept'
  BY <1>1, <1>2 DEF SwitchesKept
<1>6. SettingsKept'
  BY <1>1, Zenon DEF SettingsKept
<1> QED
  BY <1>3, <1>4, <1>5, <1>6

\* Sessions that start without a readable file, with the defaults.
LEMMA StartedPlain ==
    ASSUME SessionInvariant, disk.file.kind \in {"broken", "cut"}, NEW saves,
           plugin' = Session!Started(Session!Defaults, saves),
           disk'.asked = disk.asked, disk'.file = disk.file \/ disk'.file = Session!NoFile
    PROVE  /\ plugin'.settings \in [delay : Delays, corner : 0..3, on : [Switches -> BOOLEAN]]
           /\ plugin' = [loaded |-> plugin'.loaded, settings |-> plugin'.settings, state |-> plugin'.state,
                         saves |-> plugin'.saves, tasks |-> plugin'.tasks]
           /\ plugin'.loaded /\ plugin'.saves = saves
           /\ SwitchesKept'
           /\ FileOK(disk'.file)
BY DEF SessionInvariant, SessionTypes, SwitchesKept, Session!Started, Session!Defaults, Delays, FileOK, Session!NoFile

LEMMA SetAsideStep ==
    ASSUME SessionInvariant, NEW renamed \in BOOLEAN, Session!SettingsSetAside(renamed)
    PROVE  SessionInvariant'
<1> DEFINE name == Session!SetAsideName
           S == DOMAIN disk.aside
<1>1. name \in Nat /\ name \notin S /\ S \subseteq Nat /\ IsFiniteSet(S)
  BY NameIsFree DEF SessionInvariant, SessionTypes
<1>2. /\ disk.file.kind \in {"broken", "cut"}
      /\ plugin' = Session!Started(Session!Defaults, TRUE)
      /\ disk'.asked = disk.asked /\ disk'.written = disk.written /\ disk'.saved = {}
      /\ disk'.file = disk.file \/ disk'.file = Session!NoFile
      /\ disk'.aside = Session!SetAsideInvalidSettingsFile
      /\ disk' = [file |-> disk'.file, aside |-> disk'.aside, sessions |-> disk'.sessions, edits |-> disk'.edits,
                  written |-> disk'.written, asked |-> disk'.asked, saved |-> disk'.saved]
  BY DEF Session!SettingsSetAside, SessionInvariant, SessionTypes
<1> HIDE DEF name
<1>3. /\ DOMAIN disk'.aside = S \cup {name}
      /\ \A n \in S : disk'.aside[n] = disk.aside[n]
      /\ disk'.aside[name] = disk.file
  BY <1>1, <1>2, Zenon DEF Session!SetAsideInvalidSettingsFile, name
<1>4. IsFiniteSet(S \cup {name})
  BY <1>1, FS_AddElement
<1> HIDE DEF S
<1>5. SessionTypes'
  BY <1>1, <1>2, <1>3, <1>4, StartedPlain DEF SessionTypes
<1>6. TextsKept'
  <2>1. ASSUME NEW f \in disk.written PROVE f.kind = "broken" /\ Kept(f)'
    <3>1. f.kind = "broken" /\ (disk.file = f \/ \E n \in S : disk.aside[n] = f)
      BY DEF SessionInvariant, TextsKept, Kept, S
    <3> QED
      BY <1>3, <3>1 DEF Kept
  <2> QED
    BY <1>2, <2>1 DEF TextsKept
<1>7. SettingsKept'
  BY <1>2 DEF SettingsKept
<1> QED
  BY <1>2, <1>5, <1>6, <1>7, StartedPlain DEF SessionInvariant

LEMMA LeftAloneStep ==
    ASSUME SessionInvariant, Session!SettingsLeftAlone
    PROVE  SessionInvariant'
<1>1. /\ disk.file.kind \in {"broken", "cut"} /\ plugin' = Session!Started(Session!Defaults, FALSE)
      /\ disk'.file = disk.file /\ disk'.aside = disk.aside /\ disk'.written = disk.written
      /\ disk'.asked = disk.asked /\ disk'.saved = disk.saved
      /\ disk' = [file |-> disk'.file, aside |-> disk'.aside, sessions |-> disk'.sessions, edits |-> disk'.edits,
                  written |-> disk'.written, asked |-> disk'.asked, saved |-> disk'.saved]
  BY DEF Session!SettingsLeftAlone, SessionInvariant, SessionTypes
<1>2. SessionTypes'
  BY <1>1, StartedPlain DEF SessionTypes, SessionInvariant
<1>3. TextsKept'
  <2>1. ~plugin'.saves
    BY <1>1 DEF Session!Started
  <2> QED
    BY <1>1, <2>1 DEF TextsKept, SessionInvariant, Kept
<1>4. SettingsKept'
  BY <1>1, Zenon DEF SettingsKept, SessionInvariant
<1> QED
  BY <1>1, <1>2, <1>3, <1>4, StartedPlain DEF SessionInvariant

\* What a save writes turns off what the session runs without, and is loaded as what was saved.
LEMMA SavedIs ==
    ASSUME NEW s \in [delay : Delays, corner : 0..3, on : [Switches -> BOOLEAN]]
    PROVE  LET f == Session!SaveBufferSettings(s)
           IN  /\ FileOK(f) /\ f.kind = "settings"
               /\ {w \in Switches : f.switches[w] = Session!Off(w)} = {w \in Switches : ~s.on[w]}
               /\ Session!Loaded(f) = s
<1> DEFINE f == Session!SaveBufferSettings(s)
           reads == [w \in Switches |-> Session!ReadSetting(w, f.switches[w])]
<1>1. /\ FileOK(f) /\ f.kind = "settings"
      /\ {w \in Switches : f.switches[w] = Session!Off(w)} = {w \in Switches : ~s.on[w]}
  BY DEF Session!SaveBufferSettings, Session!File, FileOK, Session!Off, Session!NoFile
<1>2. /\ s.delay \in Nat \ {0} /\ s.corner \in 0..3 /\ s.on \in [Switches -> BOOLEAN]
      /\ s = [delay |-> s.delay, corner |-> s.corner, on |-> s.on]
  <2>1. s.delay \in Delays /\ s.corner \in 0..3 /\ s.on \in [Switches -> BOOLEAN]
    OBVIOUS
  <2>2. Delays \subseteq Nat \ {0}
    BY SettingsAssumption DEF Delays
  <2>3. s = [delay |-> s.delay, corner |-> s.corner, on |-> s.on]
    OBVIOUS
  <2> QED
    BY <2>1, <2>2, <2>3
<1>3. /\ f.delay = s.delay /\ f.corner = s.corner
      /\ f.switches = [w \in Switches |-> IF s.on[w] THEN "missing" ELSE Session!Off(w)]
  BY DEF Session!SaveBufferSettings, Session!File
<1>4. \A w \in Switches : reads[w] = s.on[w]
  <2> SUFFICES ASSUME NEW w \in Switches PROVE reads[w] = s.on[w]
    OBVIOUS
  <2>1. f.switches[w] = IF s.on[w] THEN "missing" ELSE Session!Off(w)
    BY <1>3
  <2>2. s.on[w] \in BOOLEAN
    BY <1>2
  <2>3. reads[w] = Session!ReadSetting(w, f.switches[w])
    OBVIOUS
  <2> HIDE DEF f, reads
  <2>4. CASE s.on[w]
    BY <2>1, <2>2, <2>3, <2>4 DEF Session!ReadSetting, Session!ReadBufferCodec, Session!ReadHiddenSwitch
  <2>5. CASE ~s.on[w]
    BY <2>1, <2>2, <2>3, <2>5
    DEF Session!ReadSetting, Session!ReadBufferCodec, Session!ReadHiddenSwitch, Session!Off
  <2> QED
    BY <2>4, <2>5
<1>5. reads = s.on
  BY <1>2, <1>4
<1>6. Session!Loaded(f) = [delay |-> IF f.delay = 0 THEN 5 ELSE f.delay,
                           corner |-> IF f.corner > 3 THEN 0 ELSE f.corner, on |-> reads]
  BY Zenon DEF Session!Loaded
<1> HIDE DEF f, reads
<1>7. Session!Loaded(f) = s
  BY <1>2, <1>3, <1>5, <1>6
<1> QED
  BY <1>1, <1>7 DEF f

LEMMA UnloadStep ==
    ASSUME SessionInvariant, Session!Unload \/ Session!Killed \/ Session!KilledSaving
    PROVE  SessionInvariant'
<1>1. /\ plugin.loaded /\ plugin' = Session!Unloaded
      /\ \/ disk' = disk
         \/ /\ plugin.saves
            /\ disk' = [disk EXCEPT !.file = Session!SaveBufferSettings(plugin.settings),
                                    !.saved = {plugin.settings}]
         \/ plugin.saves /\ disk' = [disk EXCEPT !.file = Session!Cut, !.asked = {}, !.saved = {}]
  BY DEF Session!Unload, Session!Killed, Session!KilledSaving
<1>2. /\ plugin'.settings = plugin.settings /\ ~plugin'.loaded
      /\ plugin' = [loaded |-> plugin'.loaded, settings |-> plugin'.settings, state |-> plugin'.state,
                    saves |-> plugin'.saves, tasks |-> plugin'.tasks]
  BY <1>1 DEF Session!Unloaded, SessionInvariant, SessionTypes
<1>3. CASE disk' = disk
  <2>1. SettingsKept'
    BY <1>3, Zenon DEF SettingsKept, SessionInvariant
  <2> QED
    BY <1>2, <1>3, <2>1 DEF SessionInvariant, SessionTypes, TextsKept, SwitchesKept, Kept
<1>4. CASE /\ plugin.saves
           /\ disk' = [disk EXCEPT !.file = Session!SaveBufferSettings(plugin.settings),
                                   !.saved = {plugin.settings}]
  <2> DEFINE f == Session!SaveBufferSettings(plugin.settings)
  <2>1. /\ FileOK(f) /\ f.kind = "settings"
        /\ {w \in Switches : f.switches[w] = Session!Off(w)} = {w \in Switches : ~plugin.settings.on[w]}
        /\ Session!Loaded(f) = plugin.settings
    BY SavedIs DEF SessionInvariant, SessionTypes
  <2>2. disk' = [disk EXCEPT !.file = f, !.saved = {plugin.settings}]
    BY <1>4
  <2> HIDE DEF f
  <2>3. /\ disk'.file = f /\ disk'.aside = disk.aside /\ disk'.written = disk.written
        /\ disk'.asked = disk.asked /\ disk'.saved = {plugin.settings}
        /\ disk' = [file |-> disk'.file, aside |-> disk'.aside, sessions |-> disk'.sessions,
                    edits |-> disk'.edits, written |-> disk'.written, asked |-> disk'.asked, saved |-> disk'.saved]
    BY <2>2 DEF SessionInvariant, SessionTypes
  <2>4. SessionTypes'
    BY <1>2, <2>1, <2>3 DEF SessionInvariant, SessionTypes
  <2>5. TextsKept'
    BY <1>1, <1>2, <1>4, <2>3 DEF SessionInvariant, TextsKept, Kept
  <2>6. SwitchesKept'
    BY <1>1, <1>2, <2>1, <2>3 DEF SessionInvariant, SwitchesKept
  <2>7. SettingsKept'
    BY <2>1, <2>3 DEF SettingsKept
  <2> QED
    BY <2>4, <2>5, <2>6, <2>7 DEF SessionInvariant
<1>5. CASE plugin.saves /\ disk' = [disk EXCEPT !.file = Session!Cut, !.asked = {}, !.saved = {}]
  <2>1. /\ disk'.file = Session!Cut /\ disk'.aside = disk.aside /\ disk'.written = disk.written
        /\ disk'.asked = {} /\ disk'.saved = {}
        /\ disk' = [file |-> disk'.file, aside |-> disk'.aside, sessions |-> disk'.sessions,
                    edits |-> disk'.edits, written |-> disk'.written, asked |-> disk'.asked, saved |-> disk'.saved]
    BY <1>5 DEF SessionInvariant, SessionTypes
  <2>2. FileOK(Session!Cut) /\ Session!Cut.kind = "cut"
    BY DEF FileOK, Session!Cut, Session!NoFile
  <2>3. SessionTypes'
    BY <1>2, <2>1, <2>2 DEF SessionInvariant, SessionTypes
  <2>4. TextsKept' /\ SwitchesKept'
    BY <1>1, <1>2, <1>5, <2>1, <2>2 DEF SessionInvariant, TextsKept, Kept, SwitchesKept
  <2>5. SettingsKept'
    BY <2>1 DEF SettingsKept
  <2> QED
    BY <2>3, <2>4, <2>5 DEF SessionInvariant
<1> QED
  BY <1>1, <1>3, <1>4, <1>5

LEMMA ByHandStep ==
    ASSUME SessionInvariant, NEW f, Session!WriteByHand(f), FileOK(f), f.kind \in {"broken", "settings"}
    PROVE  SessionInvariant'
<1>1. /\ ~plugin.loaded /\ plugin' = plugin /\ disk.file.kind # "broken"
      /\ disk'.file = f /\ disk'.aside = disk.aside /\ disk'.saved = {}
      /\ disk'.written = IF f.kind = "broken" THEN disk.written \cup {f} ELSE disk.written
      /\ disk'.asked = IF f.kind = "settings" THEN {s \in Switches : f.switches[s] = Session!Off(s)} ELSE {}
      /\ disk' = [file |-> disk'.file, aside |-> disk'.aside, sessions |-> disk'.sessions, edits |-> disk'.edits,
                  written |-> disk'.written, asked |-> disk'.asked, saved |-> disk'.saved]
  BY DEF Session!WriteByHand, SessionInvariant, SessionTypes
<1>2. SessionTypes'
  BY <1>1 DEF SessionInvariant, SessionTypes
<1>3. TextsKept'
  <2>1. ASSUME NEW g \in disk'.written PROVE g.kind = "broken" /\ (disk'.file = g \/ Kept(g)')
    <3>1. CASE g \in disk.written
      BY <1>1, <3>1 DEF SessionInvariant, TextsKept, Kept
    <3>2. CASE g \notin disk.written
      BY <1>1, <2>1, <3>2
    <3> QED
      BY <3>1, <3>2
  <2> QED
    BY <1>1, <2>1 DEF TextsKept
<1>4. SwitchesKept' /\ SettingsKept'
  BY <1>1 DEF SwitchesKept, SettingsKept
<1> QED
  BY <1>2, <1>3, <1>4 DEF SessionInvariant

\* Steps that touch neither what is kept nor how the session runs.
LEMMA RunningStep ==
    ASSUME SessionInvariant,
           \/ \E delay \in SetDelays, corner \in {0, 3} : Session!ChangeSettings(delay, corner)
           \/ \E task \in {"toggle", "enable", "disable"}, pressed \in BOOLEAN :
                 Session!HotkeyCallback(task, pressed)
           \/ Session!TaskRuns
           \/ UNCHANGED sessionVars
    PROVE  SessionInvariant'
<1> DEFINE Runs ==
             /\ disk' = disk /\ plugin'.loaded = plugin.loaded /\ plugin'.saves = plugin.saves
             /\ plugin'.settings.on = plugin.settings.on
             /\ plugin'.settings \in [delay : Delays, corner : 0..3, on : [Switches -> BOOLEAN]]
             /\ plugin' = [loaded |-> plugin'.loaded, settings |-> plugin'.settings, state |-> plugin'.state,
                           saves |-> plugin'.saves, tasks |-> plugin'.tasks]
<1>1. ASSUME NEW delay \in SetDelays, NEW corner \in {0, 3}, Session!ChangeSettings(delay, corner)
      PROVE  Runs
  <2> DEFINE chosen == [plugin.settings EXCEPT !.delay = delay, !.corner = corner]
  <2>0. /\ plugin = [loaded |-> plugin.loaded, settings |-> plugin.settings, state |-> plugin.state,
                     saves |-> plugin.saves, tasks |-> plugin.tasks]
        /\ plugin.settings \in [delay : Delays, corner : 0..3, on : [Switches -> BOOLEAN]]
    BY DEF SessionInvariant, SessionTypes
  <2>1. plugin' = [plugin EXCEPT !.settings = chosen] /\ disk' = disk
    <3>1. PICK later, first : /\ later = [plugin.settings EXCEPT !.delay = delay]
                              /\ first = [plugin EXCEPT !.settings = later]
      OBVIOUS
    <3>2. first.settings = later
      BY <2>0, <3>1
    <3>3. plugin' = [first EXCEPT !.settings = [first.settings EXCEPT !.corner = corner]] /\ disk' = disk
      BY <1>1, <3>1, Zenon DEF Session!ChangeSettings
    <3>4. PICK settings : settings = [later EXCEPT !.corner = corner]
      OBVIOUS
    <3>5. plugin' = [first EXCEPT !.settings = settings]
      BY <3>2, <3>3, <3>4
    <3>6. plugin' = [plugin EXCEPT !.settings = settings]
      BY <2>0, <3>1, <3>5
    <3> QED
      BY <3>1, <3>3, <3>4, <3>6
  <2>2. chosen \in [delay : Delays, corner : 0..3, on : [Switches -> BOOLEAN]] /\ chosen.on = plugin.settings.on
    <3>1. plugin.settings \in [delay : Delays, corner : 0..3, on : [Switches -> BOOLEAN]]
      BY DEF SessionInvariant, SessionTypes
    <3>2. delay \in Delays /\ corner \in 0..3
      BY DEF Delays
    <3> QED
      BY <3>1, <3>2
  <2> HIDE DEF chosen
  <2> QED
    BY <2>1, <2>2 DEF SessionInvariant, SessionTypes
<1>2. ASSUME NEW task \in {"toggle", "enable", "disable"}, NEW pressed \in BOOLEAN,
             Session!HotkeyCallback(task, pressed)
      PROVE  Runs
  BY <1>2 DEF Session!HotkeyCallback, SessionInvariant, SessionTypes
<1>3. ASSUME Session!TaskRuns PROVE Runs
  <2>1. PICK state : plugin' = [plugin EXCEPT !.tasks = <<>>, !.state = state] /\ disk' = disk
    BY <1>3 DEF Session!TaskRuns
  <2> QED
    BY <2>1 DEF SessionInvariant, SessionTypes
<1>4. ASSUME UNCHANGED sessionVars PROVE Runs
  BY <1>4 DEF sessionVars, SessionInvariant, SessionTypes
<1> HIDE DEF Runs
<1>5. Runs
  BY <1>1, <1>2, <1>3, <1>4
<1> USE DEF Runs
<1>6. SettingsKept'
  BY <1>5, Zenon DEF SettingsKept, SessionInvariant
<1> QED
  BY <1>5, <1>6 DEF SessionInvariant, SessionTypes, TextsKept, SwitchesKept, Kept

LEMMA SessionStep ==
    ASSUME SessionInvariant, [Session!SessionNext]_sessionVars
    PROVE  SessionInvariant'
<1>1. ASSUME Session!WriteByHand(Session!Broken(disk.edits)) PROVE SessionInvariant'
  <2>1. FileOK(Session!Broken(disk.edits)) /\ Session!Broken(disk.edits).kind = "broken"
    BY DEF FileOK, Session!Broken, Session!NoFile
  <2> QED
    BY <1>1, <2>1, ByHandStep
<1>2. ASSUME NEW delay \in {0} \cup SetDelays, NEW values, Session!WriteByHand(Session!File(delay, 7, values))
      PROVE  SessionInvariant'
  <2>1. FileOK(Session!File(delay, 7, values)) /\ Session!File(delay, 7, values).kind = "settings"
    BY DEF FileOK, Session!File, Session!NoFile, Delays
  <2> QED
    BY <1>2, <2>1, ByHandStep
<1> QED
  BY <1>1, <1>2, LoadStep, SetAsideStep, LeftAloneStep, UnloadStep, RunningStep, Zenon DEF Session!SessionNext

LEMMA SessionIsEnough == SessionInvariant => Session!SettingsSurvive
BY DEF SessionInvariant, SessionTypes, TextsKept, SwitchesKept, SettingsKept, Kept, FileOK, Delays,
       Session!SettingsSurvive, Session!SessionTypeOK

-----------------------------------------------------------------------------
(* One HTTP call (HttpCall). *)

\* Where Send has an AsyncCall, and where it has subscribed to the cancel.
Calling == {"subscribes", "opens", "waits", "leaves", "closes", "unsubscribes"}
Subscribed == Calling \ {"subscribes"}
Answered == {"leaves", "closes", "unsubscribes", "returned"}

HttpTypes ==
    /\ job = [pc |-> job.pc, use |-> job.use, awaits |-> job.awaits, deadline |-> job.deadline,
              got |-> job.got, answer |-> job.answer, result |-> job.result, requests |-> job.requests]
    /\ asyncCall = [alive |-> asyncCall.alive, step |-> asyncCall.step, wake |-> asyncCall.wake,
                    closed |-> asyncCall.closed, status |-> asyncCall.status, error |-> asyncCall.error,
                    bytes |-> asyncCall.bytes, connected |-> asyncCall.connected]
    /\ winhttp = [handle |-> winhttp.handle, doing |-> winhttp.doing, want |-> winhttp.want,
                  left |-> winhttp.left, reply |-> winhttp.reply]
    /\ token \in [cancelled : BOOLEAN, locked : BOOLEAN, subscribed : BOOLEAN]
    /\ job.pc \in {"idle", "checks", "returned"} \cup Calling
    /\ job.use \in Http!Uses
    /\ job.awaits \in Http!Steps /\ job.got \in 0..MaxResponse /\ winhttp.left \in Nat
    /\ winhttp.doing = "read" => winhttp.want = 1 /\ winhttp.left >= 1

\* The AsyncCall is in use while WinHTTP or the token may reach it: a handle is open only in
\* the call, and closed once the last callback was seen.
InUse ==
    /\ asyncCall.alive <=> job.pc \in Calling
    /\ winhttp.handle \in {"none", "bare", "open", "closing"}
    /\ winhttp.handle \in {"bare", "open"} => job.pc \in {"waits", "leaves"}
    /\ winhttp.handle = "closing" => job.pc = "closes"
    /\ job.pc = "waits" => winhttp.handle = "open"
    /\ asyncCall.closed /\ job.pc \in Calling => winhttp.handle = "none" /\ job.pc \in {"closes", "unsubscribes"}
    /\ token.subscribed => job.pc \in Subscribed

\* A cancel has woken the call, or is about to.
Waking ==
    /\ token.locked => token.cancelled
    /\ asyncCall.wake => token.cancelled
    /\ job.pc \in Subscribed =>
          asyncCall.wake \/ (token.subscribed /\ (token.cancelled => token.locked))

\* While Send waits, WinHTTP works on the step it waits for or has told it how that ended.
Underway ==
    /\ job.awaits \in {"data", "read"} => winhttp.reply \in Replies
    /\ \/ /\ winhttp.doing = job.awaits /\ ~asyncCall.step
          /\ job.awaits \in {"data", "read"} => job.got + winhttp.left = winhttp.reply.size
          /\ job.awaits = "read" => job.got + 1 <= MaxResponse
       \/ /\ winhttp.doing = "nothing" /\ asyncCall.step /\ asyncCall.status = "error"
          /\ asyncCall.error \in {"Timeout", "Tls", "Other", "Resolve", "Connect"}
       \/ /\ winhttp.doing = "nothing" /\ asyncCall.step /\ asyncCall.status = job.awaits
          /\ job.awaits = "headers" => winhttp.reply \in Replies /\ winhttp.left = winhttp.reply.size
          /\ job.awaits = "data" => /\ job.got + winhttp.left = winhttp.reply.size
                                    /\ asyncCall.bytes \in 0..winhttp.left
                                    /\ asyncCall.bytes = 0 => winhttp.left = 0
          /\ job.awaits = "read" => /\ job.got + 1 + winhttp.left = winhttp.reply.size
                                    /\ asyncCall.bytes = 1 /\ job.got + 1 <= MaxResponse

\* A step has not ended before it began.
Progress ==
    /\ job.pc = "waits" => Underway
    /\ job.pc \in {"subscribes", "opens"} => ~asyncCall.step

\* There is no result while a request is under way.
Noticed == Http!NoticeIsTrue /\ (job.pc # "idle" => ~job.result.newer)

CallInvariant ==
    HttpTypes /\ InUse /\ Waking /\ Progress /\ Http!AnswerIsTrue /\ Noticed

LEMMA CallInit == ASSUME Http!HttpInit PROVE CallInvariant
<1>1. HttpTypes
  <2>1. asyncCall = [alive |-> FALSE, step |-> FALSE, wake |-> FALSE, closed |-> FALSE,
                     status |-> "none", error |-> "none", bytes |-> 0, connected |-> FALSE]
    BY DEF Http!HttpInit, Http!NewAsyncCall
  <2>2. 0 \in 0..MaxResponse
    BY RepliesAssumption
  <2> QED
    BY <2>1, <2>2 DEF Http!HttpInit, HttpTypes, Http!Steps, Http!Uses, Calling
<1>2. InUse /\ Waking
  BY DEF Http!HttpInit, InUse, Waking, Http!NewAsyncCall, Calling, Subscribed
<1>3. job.pc = "idle" /\ ~job.result.newer
  BY DEF Http!HttpInit, Http!NoResult
<1> QED
  BY <1>1, <1>2, <1>3 DEF CallInvariant, Progress, Http!AnswerIsTrue, Noticed, Http!NoticeIsTrue

\* A wait ends with an answer that is true, or with the next step of the call.
LeftWith(error) ==
    /\ job' = [job EXCEPT !.pc = "leaves", !.answer = Http!Answer(error, winhttp.reply, job.got)]
    /\ winhttp' = winhttp
    /\ error = "ok" => winhttp.reply \in Replies /\ job.got = winhttp.reply.size /\ job.got <= MaxResponse
    /\ error = "TooLarge" => winhttp.reply.size > MaxResponse
    /\ error = "Cancelled" => token.cancelled
    /\ error = "Timeout" => asyncCall.connected \/ job.deadline = "passed"
StartedWith(next, want, got) ==
    /\ winhttp' = [winhttp EXCEPT !.doing = next, !.want = want]
    /\ job' = [job EXCEPT !.awaits = next, !.got = got]
    /\ next \in Http!Steps /\ got \in 0..MaxResponse /\ ~asyncCall'.step
    /\ next \in {"data", "read"} => winhttp.reply \in Replies /\ got + winhttp.left = winhttp.reply.size
    /\ next = "read" => want = 1 /\ winhttp.left >= 1 /\ got + 1 <= MaxResponse
Left == \E error : LeftWith(error)
Started == \E next, want, got : StartedWith(next, want, got)

LEMMA WaitEnds ==
    ASSUME CallInvariant, Http!WaitStep
    PROVE  Left \/ Started
<1>1. HttpTypes /\ Waking /\ Underway
  BY DEF CallInvariant, Progress, Http!WaitStep
<1>2. CASE Http!StepOutcome # "done"
  <2>1. Http!Leaves(Http!FailedStep(Http!StepOutcome))
    BY <1>2 DEF Http!WaitStep
  <2>2. CASE asyncCall.wake
    <3>1. Http!StepOutcome = "cancelled" /\ token.cancelled
      BY <1>1, <2>2 DEF Http!StepOutcome, Waking
    <3>2. LeftWith("Cancelled")
      BY <2>1, <3>1 DEF Http!Leaves, Http!FailedStep, LeftWith
    <3> QED
      BY <3>2 DEF Left
  <2>3. CASE ~asyncCall.wake /\ ~asyncCall.step
    <3>1. Http!StepOutcome = "deadline" /\ job.deadline = "passed"
      BY <2>3 DEF Http!StepOutcome, Http!WaitStep
    <3>2. LeftWith("Timeout")
      BY <2>1, <3>1 DEF Http!Leaves, Http!FailedStep, LeftWith
    <3> QED
      BY <3>2 DEF Left
  <2>4. CASE ~asyncCall.wake /\ asyncCall.step
    <3>1. Http!StepOutcome = "failed" /\ asyncCall.status # job.awaits
      BY <1>2, <2>4 DEF Http!StepOutcome
    <3>2. asyncCall.error \in {"Timeout", "Tls", "Other", "Resolve", "Connect"}
      BY <1>1, <2>4, <3>1 DEF Underway
    <3> DEFINE error == IF asyncCall.error = "Timeout" /\ ~asyncCall.connected THEN "Connect"
                        ELSE asyncCall.error
    <3>3. Http!Leaves(error)
      BY <2>1, <3>1 DEF Http!FailedStep
    <3>4. error \in {"Tls", "Other", "Resolve", "Connect"} \/ (error = "Timeout" /\ asyncCall.connected)
      BY <3>2
    <3> HIDE DEF error
    <3>5. LeftWith(error)
      BY <3>3, <3>4 DEF Http!Leaves, LeftWith
    <3> QED
      BY <3>5 DEF Left
  <2> QED
    BY <2>2, <2>3, <2>4
<1>3. CASE Http!StepOutcome = "done"
  <2>1. /\ asyncCall.status = job.awaits /\ asyncCall.step /\ ~asyncCall.wake
        /\ asyncCall' = [asyncCall EXCEPT !.step = FALSE]
        /\ Http!AfterSend \/ Http!AfterHeaders \/ Http!AfterData \/ Http!AfterRead
    BY <1>3 DEF Http!StepOutcome, Http!WaitStep
  <2>2. ~asyncCall'.step
    BY <1>1, <2>1 DEF HttpTypes
  <2>3. /\ winhttp.doing = "nothing" \/ winhttp.doing = job.awaits
        /\ asyncCall.status = "error" => job.awaits = "error"
        /\ job.use \in Http!Uses
    /\ job.awaits \in Http!Steps /\ job.got \in 0..MaxResponse /\ winhttp.left \in Nat
    BY <1>1, <2>1 DEF Underway, HttpTypes
  <2>4. ASSUME Http!Leaves("Other") PROVE Left
    <3>1. LeftWith("Other")
      BY <2>4 DEF Http!Leaves, LeftWith
    <3> QED
      BY <3>1 DEF Left
  <2>5. CASE Http!AfterSend
    <3>1. Left \/ StartedWith("headers", 0, 0)
      BY <2>2, <2>4, <2>5, RepliesAssumption DEF Http!AfterSend, Http!Starts, StartedWith, Http!Steps
    <3> QED
      BY <3>1 DEF Started
  <2>6. CASE Http!AfterHeaders
    <3>1. winhttp.reply \in Replies /\ winhttp.left = winhttp.reply.size
      BY <1>1, <2>1, <2>6 DEF Http!AfterHeaders, Underway
    <3>2. winhttp.reply.size \in Nat /\ 0 + winhttp.left = winhttp.reply.size /\ 0 \in 0..MaxResponse
      BY <2>3, <3>1, RepliesAssumption
    <3>3. Left \/ StartedWith("data", 0, 0)
      BY <2>2, <2>4, <2>6, <3>1, <3>2 DEF Http!AfterHeaders, Http!Starts, StartedWith, Http!Steps
    <3> QED
      BY <3>3 DEF Started
  <2>7. CASE Http!AfterData
    <3>1. /\ winhttp.reply \in Replies /\ job.got + winhttp.left = winhttp.reply.size
          /\ asyncCall.bytes \in 0..winhttp.left /\ (asyncCall.bytes = 0 => winhttp.left = 0)
      BY <1>1, <2>1, <2>7 DEF Http!AfterData, Underway
    <3>2. CASE asyncCall.bytes = 0 /\ Http!Leaves("ok")
      <4>1. job.got = winhttp.reply.size /\ job.got <= MaxResponse
        BY <2>3, <3>1, <3>2, RepliesAssumption
      <4>2. LeftWith("ok")
        BY <3>1, <3>2, <4>1 DEF Http!Leaves, LeftWith
      <4> QED
        BY <4>2 DEF Left
    <3>3. CASE job.got + asyncCall.bytes > MaxResponse /\ Http!Leaves("TooLarge")
      <4>1. winhttp.reply.size > MaxResponse
        BY <2>3, <3>1, <3>3, RepliesAssumption
      <4>2. LeftWith("TooLarge")
        BY <3>3, <4>1 DEF Http!Leaves, LeftWith
      <4> QED
        BY <4>2 DEF Left
    <3>4. CASE /\ asyncCall.bytes > 0 /\ job.got + asyncCall.bytes <= MaxResponse
               /\ Http!Starts("read", 1, job.got)
      <4>1. winhttp.left >= 1 /\ job.got + 1 <= MaxResponse
        BY <2>3, <3>1, <3>4, RepliesAssumption
      <4>2. Left \/ StartedWith("read", 1, job.got)
        BY <2>2, <2>3, <2>4, <3>1, <3>4, <4>1 DEF Http!Starts, StartedWith, Http!Steps
      <4> QED
        BY <4>2 DEF Started
    <3> QED
      BY <2>7, <3>2, <3>3, <3>4 DEF Http!AfterData
  <2>8. CASE Http!AfterRead
    <3>1. /\ winhttp.reply \in Replies /\ job.got + 1 + winhttp.left = winhttp.reply.size
          /\ asyncCall.bytes = 1 /\ job.got + 1 <= MaxResponse
      BY <1>1, <2>1, <2>8 DEF Http!AfterRead, Underway
    <3>2. job.got + 1 \in 0..MaxResponse
      BY <2>3, <3>1, RepliesAssumption
    <3>3. Left \/ StartedWith("data", 0, job.got + 1)
      BY <2>2, <2>4, <2>8, <3>1, <3>2 DEF Http!AfterRead, Http!Starts, StartedWith, Http!Steps
    <3> QED
      BY <3>3 DEF Started
  <2> QED
    BY <2>1, <2>5, <2>6, <2>7, <2>8
<1> QED
  BY <1>2, <1>3

\* The types are kept.
LEMMA CallTypesStep ==
    ASSUME CallInvariant, Http!HttpNext
    PROVE  HttpTypes'
<1> USE DEF HttpTypes, Http!Steps, Calling
<1>0. HttpTypes
  BY DEF CallInvariant
<1>1. ASSUME NEW use \in Http!Uses, Http!Request(use) PROVE HttpTypes'
  <2>1. PICK deadline \in Http!Deadlines(use) :
           job' = [job EXCEPT !.pc = "checks", !.use = use, !.deadline = deadline, !.requests = @ + 1,
                              !.got = 0, !.answer = Http!NoAnswer, !.result = Http!NoResult]
    BY <1>1 DEF Http!Request
  <2>2. 0 \in 0..MaxResponse /\ UNCHANGED <<asyncCall, winhttp, token>>
    BY <1>1, RepliesAssumption DEF Http!Request
  <2> QED
    BY <1>0, <2>1, <2>2
<1>2. ASSUME Http!CheckRequest PROVE HttpTypes'
  BY <1>0, <1>2 DEF Http!CheckRequest, Http!RefusedCall, Http!NewAsyncCall
<1>3. ASSUME Http!SubscribeCancel PROVE HttpTypes'
  BY <1>0, <1>3 DEF Http!SubscribeCancel
<1>4. ASSUME Http!OpenRequest PROVE HttpTypes'
  <2>1. CASE \E handle \in {"none", "bare"} :
                /\ winhttp' = [winhttp EXCEPT !.handle = handle]
                /\ job' = [job EXCEPT !.pc = "leaves", !.answer = Http!Answer("Other", Http!NoReply, 0)]
    BY <1>0, <1>4, <2>1 DEF Http!OpenRequest
  <2>2. CASE /\ winhttp' = [winhttp EXCEPT !.handle = "open", !.doing = "send", !.left = 0, !.reply = Http!NoReply]
             /\ job' = [job EXCEPT !.pc = "waits", !.awaits = "send"]
    BY <1>0, <1>4, <2>2 DEF Http!OpenRequest
  <2> QED
    BY <1>4, <2>1, <2>2 DEF Http!OpenRequest
<1>5. ASSUME Http!WaitStep PROVE HttpTypes'
  <2>1. UNCHANGED token /\ asyncCall' = [asyncCall EXCEPT !.step = asyncCall'.step]
    BY <1>0, <1>5 DEF Http!WaitStep
  <2>2. ASSUME NEW error, LeftWith(error) PROVE HttpTypes'
    BY <1>0, <2>1, <2>2 DEF LeftWith
  <2>3. ASSUME NEW next, NEW want, NEW got, StartedWith(next, want, got) PROVE HttpTypes'
    BY <1>0, <2>1, <2>3 DEF StartedWith
  <2> QED
    BY <1>5, <2>2, <2>3, WaitEnds, Zenon DEF Left, Started
<1>6. ASSUME Http!CloseRequest PROVE HttpTypes'
  BY <1>0, <1>6 DEF Http!CloseRequest
<1>7. ASSUME Http!LastCallbackSeen PROVE HttpTypes'
  BY <1>0, <1>7 DEF Http!LastCallbackSeen
<1>8. ASSUME Http!UnsubscribeCancel PROVE HttpTypes'
  BY <1>0, <1>8 DEF Http!UnsubscribeCancel
<1>9. ASSUME Http!UseAnswer PROVE HttpTypes'
  BY <1>0, <1>9 DEF Http!UseAnswer
<1>10. ASSUME Http!DeadlinePasses PROVE HttpTypes'
  BY <1>0, <1>10 DEF Http!DeadlinePasses
<1>11. ASSUME Http!Connects PROVE HttpTypes'
  BY <1>0, <1>11 DEF Http!Connects
<1>12. ASSUME Http!Completes PROVE HttpTypes'
  <2>1. PICK status, bytes : asyncCall' = [asyncCall EXCEPT !.status = status, !.error = "none",
                                                             !.bytes = bytes, !.step = TRUE]
    BY <1>12 DEF Http!Completes, Http!Signals
  <2>2. PICK reply, left : /\ winhttp' = [winhttp EXCEPT !.doing = "nothing", !.left = left, !.reply = reply]
                           /\ left \in Nat
    <3> DEFINE To(reply, left) == /\ winhttp' = [winhttp EXCEPT !.doing = "nothing", !.left = left, !.reply = reply]
                                  /\ left \in Nat
    <3> SUFFICES \E reply, left : To(reply, left)
      OBVIOUS
    <3>1. CASE winhttp' = [winhttp EXCEPT !.doing = "nothing"]
      <4>1. To(winhttp.reply, winhttp.left)
        BY <1>0, <3>1
      <4> QED
        BY <4>1, Zenon
    <3>2. CASE winhttp.doing = "read" /\ winhttp' = [winhttp EXCEPT !.doing = "nothing", !.left = @ - winhttp.want]
      <4>1. To(winhttp.reply, winhttp.left - 1)
        <5>1. winhttp.want = 1 /\ winhttp.left - 1 \in Nat
          BY <1>0, <3>2
        <5>2. winhttp' = [winhttp EXCEPT !.doing = "nothing", !.left = winhttp.left - 1]
          BY <3>2, <5>1
        <5> QED
          BY <1>0, <5>1, <5>2
      <4> QED
        BY <4>1, Zenon
    <3>3. ASSUME NEW reply \in Replies,
                 winhttp' = [winhttp EXCEPT !.doing = "nothing", !.reply = reply, !.left = reply.size]
          PROVE  \E r, l : To(r, l)
      <4>1. To(reply, reply.size)
        BY <1>0, <3>3, RepliesAssumption
      <4> QED
        BY <4>1, Zenon
    <3> HIDE DEF To
    <3> QED
      BY <1>12, <3>1, <3>2, <3>3 DEF Http!Completes
  <2> QED
    BY <1>0, <1>12, <2>1, <2>2 DEF Http!Completes
<1>13. ASSUME Http!StepFails PROVE HttpTypes'
  BY <1>0, <1>13 DEF Http!StepFails, Http!Signals
<1>14. ASSUME Http!HandleClosing PROVE HttpTypes'
  BY <1>0, <1>14 DEF Http!HandleClosing
<1>15. ASSUME Http!CancelJob PROVE HttpTypes'
  BY <1>0, <1>15 DEF Http!CancelJob
<1>16. ASSUME Http!CancelWakes PROVE HttpTypes'
  BY <1>0, <1>16 DEF Http!CancelWakes
<1> QED
  BY <1>1, <1>2, <1>3, <1>4, <1>5, <1>6, <1>7, <1>8, <1>9, <1>10, <1>11, <1>12, <1>13, <1>14, <1>15, <1>16,
     Zenon DEF Http!HttpNext

\* The AsyncCall is in use while it may be reached.
LEMMA InUseStep ==
    ASSUME CallInvariant, Http!HttpNext
    PROVE  InUse'
<1> USE DEF InUse, Calling, Subscribed
<1>0. HttpTypes /\ InUse
  BY DEF CallInvariant
<1>1. ASSUME NEW use \in Http!Uses, Http!Request(use) PROVE InUse'
  BY <1>0, <1>1 DEF Http!Request, HttpTypes
<1>2. ASSUME Http!CheckRequest PROVE InUse'
  <2>1. ASSUME NEW error, Http!RefusedCall(error) PROVE InUse'
    BY <1>0, <1>2, <2>1 DEF Http!CheckRequest, Http!RefusedCall, HttpTypes
  <2>2. ASSUME job' = [job EXCEPT !.pc = "subscribes"], asyncCall' = Http!NewAsyncCall,
               UNCHANGED <<winhttp, token>>
        PROVE  InUse'
    BY <1>0, <1>2, <2>2 DEF Http!CheckRequest, Http!NewAsyncCall, HttpTypes
  <2> QED
    BY <1>2, <2>1, <2>2 DEF Http!CheckRequest
<1>3. ASSUME Http!SubscribeCancel PROVE InUse'
  BY <1>0, <1>3 DEF Http!SubscribeCancel, HttpTypes
<1>4. ASSUME Http!OpenRequest PROVE InUse'
  BY <1>0, <1>4 DEF Http!OpenRequest, HttpTypes
<1>5. ASSUME Http!WaitStep PROVE InUse'
  <2>1. UNCHANGED token /\ asyncCall' = [asyncCall EXCEPT !.step = asyncCall'.step] /\ job.pc = "waits"
    BY <1>0, <1>5 DEF Http!WaitStep, HttpTypes
  <2>2. ASSUME NEW error, LeftWith(error) PROVE InUse'
    BY <1>0, <2>1, <2>2 DEF LeftWith, HttpTypes
  <2>3. ASSUME NEW next, NEW want, NEW got, StartedWith(next, want, got) PROVE InUse'
    BY <1>0, <2>1, <2>3 DEF StartedWith, HttpTypes
  <2> QED
    BY <1>5, <2>2, <2>3, WaitEnds, Zenon DEF Left, Started
<1>6. ASSUME Http!CloseRequest PROVE InUse'
  BY <1>0, <1>6 DEF Http!CloseRequest, HttpTypes
<1>7. ASSUME Http!LastCallbackSeen PROVE InUse'
  BY <1>0, <1>7 DEF Http!LastCallbackSeen, HttpTypes, Http!MayLeave
<1>8. ASSUME Http!UnsubscribeCancel PROVE InUse'
  BY <1>0, <1>8 DEF Http!UnsubscribeCancel, HttpTypes
<1>9. ASSUME Http!UseAnswer PROVE InUse'
  BY <1>0, <1>9 DEF Http!UseAnswer, HttpTypes
<1>10. ASSUME Http!DeadlinePasses PROVE InUse'
  BY <1>0, <1>10 DEF Http!DeadlinePasses, HttpTypes
<1>11. ASSUME Http!Connects PROVE InUse'
  BY <1>0, <1>11 DEF Http!Connects, HttpTypes, Http!Working
<1>12. ASSUME Http!Completes PROVE InUse'
  <2>1. asyncCall'.alive = asyncCall.alive /\ asyncCall'.closed = asyncCall.closed
    <3>1. PICK status, bytes : asyncCall' = [asyncCall EXCEPT !.status = status, !.error = "none",
                                                               !.bytes = bytes, !.step = TRUE]
      BY <1>12 DEF Http!Completes, Http!Signals
    <3> QED
      BY <1>0, <3>1 DEF HttpTypes
  <2>2. winhttp'.handle = winhttp.handle /\ UNCHANGED <<job, token>>
    BY <1>0, <1>12 DEF Http!Completes, HttpTypes
  <2> QED
    BY <1>0, <2>1, <2>2
<1>13. ASSUME Http!StepFails PROVE InUse'
  BY <1>0, <1>13 DEF Http!StepFails, HttpTypes, Http!Signals, Http!Working
<1>14. ASSUME Http!HandleClosing PROVE InUse'
  BY <1>0, <1>14 DEF Http!HandleClosing, HttpTypes
<1>15. ASSUME Http!CancelJob PROVE InUse'
  BY <1>0, <1>15 DEF Http!CancelJob, HttpTypes
<1>16. ASSUME Http!CancelWakes PROVE InUse'
  BY <1>0, <1>16 DEF Http!CancelWakes, HttpTypes
<1> QED
  BY <1>1, <1>2, <1>3, <1>4, <1>5, <1>6, <1>7, <1>8, <1>9, <1>10, <1>11, <1>12, <1>13, <1>14, <1>15, <1>16,
     Zenon DEF Http!HttpNext

\* A cancel wakes the call.
LEMMA WakingStep ==
    ASSUME CallInvariant, Http!HttpNext
    PROVE  Waking'
<1> USE DEF Waking, Calling, Subscribed
<1>0. HttpTypes /\ Waking
  BY DEF CallInvariant
<1>1. ASSUME NEW use \in Http!Uses, Http!Request(use) PROVE Waking'
  BY <1>0, <1>1 DEF Http!Request, HttpTypes
<1>2. ASSUME Http!CheckRequest PROVE Waking'
  <2>1. ASSUME NEW error, Http!RefusedCall(error) PROVE Waking'
    BY <1>0, <1>2, <2>1 DEF Http!CheckRequest, Http!RefusedCall, HttpTypes
  <2>2. ASSUME job' = [job EXCEPT !.pc = "subscribes"], asyncCall' = Http!NewAsyncCall,
               UNCHANGED <<winhttp, token>>
        PROVE  Waking'
    BY <1>0, <1>2, <2>2 DEF Http!CheckRequest, Http!NewAsyncCall, HttpTypes
  <2> QED
    BY <1>2, <2>1, <2>2 DEF Http!CheckRequest
<1>3. ASSUME Http!SubscribeCancel PROVE Waking'
  BY <1>0, <1>3 DEF Http!SubscribeCancel, HttpTypes
<1>4. ASSUME Http!OpenRequest PROVE Waking'
  BY <1>0, <1>4 DEF Http!OpenRequest, HttpTypes
<1>5. ASSUME Http!WaitStep PROVE Waking'
  <2>1. UNCHANGED token /\ asyncCall' = [asyncCall EXCEPT !.step = asyncCall'.step] /\ job.pc = "waits"
    BY <1>0, <1>5 DEF Http!WaitStep, HttpTypes
  <2>2. ASSUME NEW error, LeftWith(error) PROVE Waking'
    BY <1>0, <2>1, <2>2 DEF LeftWith, HttpTypes
  <2>3. ASSUME NEW next, NEW want, NEW got, StartedWith(next, want, got) PROVE Waking'
    BY <1>0, <2>1, <2>3 DEF StartedWith, HttpTypes
  <2> QED
    BY <1>5, <2>2, <2>3, WaitEnds, Zenon DEF Left, Started
<1>6. ASSUME Http!CloseRequest PROVE Waking'
  BY <1>0, <1>6 DEF Http!CloseRequest, HttpTypes
<1>7. ASSUME Http!LastCallbackSeen PROVE Waking'
  BY <1>0, <1>7 DEF Http!LastCallbackSeen, HttpTypes, Http!MayLeave
<1>8. ASSUME Http!UnsubscribeCancel PROVE Waking'
  BY <1>0, <1>8 DEF Http!UnsubscribeCancel, HttpTypes
<1>9. ASSUME Http!UseAnswer PROVE Waking'
  BY <1>0, <1>9 DEF Http!UseAnswer, HttpTypes
<1>10. ASSUME Http!DeadlinePasses PROVE Waking'
  BY <1>0, <1>10 DEF Http!DeadlinePasses, HttpTypes
<1>11. ASSUME Http!Connects PROVE Waking'
  BY <1>0, <1>11 DEF Http!Connects, HttpTypes, Http!Working
<1>12. ASSUME Http!Completes PROVE Waking'
  BY <1>0, <1>12 DEF Http!Completes, HttpTypes, Http!Signals, Http!Working
<1>13. ASSUME Http!StepFails PROVE Waking'
  BY <1>0, <1>13 DEF Http!StepFails, HttpTypes, Http!Signals, Http!Working
<1>14. ASSUME Http!HandleClosing PROVE Waking'
  BY <1>0, <1>14 DEF Http!HandleClosing, HttpTypes
<1>15. ASSUME Http!CancelJob PROVE Waking'
  BY <1>0, <1>15 DEF Http!CancelJob, HttpTypes
<1>16. ASSUME Http!CancelWakes PROVE Waking'
  BY <1>0, <1>16 DEF Http!CancelWakes, HttpTypes
<1> QED
  BY <1>1, <1>2, <1>3, <1>4, <1>5, <1>6, <1>7, <1>8, <1>9, <1>10, <1>11, <1>12, <1>13, <1>14, <1>15, <1>16,
     Zenon DEF Http!HttpNext

\* A wait is for the step WinHTTP works on.
LEMMA UnderwayStep ==
    ASSUME CallInvariant, Http!HttpNext
    PROVE  Progress'
<1> USE DEF Progress, Underway, Calling, Http!Steps, InUse
<1>0. HttpTypes /\ InUse /\ Progress
  BY DEF CallInvariant
<1>1. ASSUME NEW use \in Http!Uses, Http!Request(use) PROVE Progress'
  BY <1>0, <1>1 DEF Http!Request, HttpTypes
<1>2. ASSUME Http!CheckRequest PROVE Progress'
  <2>1. ASSUME NEW error, Http!RefusedCall(error) PROVE Progress'
    BY <1>0, <1>2, <2>1 DEF Http!CheckRequest, Http!RefusedCall, HttpTypes
  <2>2. ASSUME job' = [job EXCEPT !.pc = "subscribes"], asyncCall' = Http!NewAsyncCall,
               UNCHANGED <<winhttp, token>>
        PROVE  Progress'
    BY <1>0, <1>2, <2>2 DEF Http!CheckRequest, Http!NewAsyncCall, HttpTypes
  <2> QED
    BY <1>2, <2>1, <2>2 DEF Http!CheckRequest
<1>3. ASSUME Http!SubscribeCancel PROVE Progress'
  BY <1>0, <1>3 DEF Http!SubscribeCancel, HttpTypes
<1>4. ASSUME Http!OpenRequest PROVE Progress'
  <2>1. CASE job'.pc = "leaves"
    BY <2>1
  <2>2. CASE /\ winhttp' = [winhttp EXCEPT !.handle = "open", !.doing = "send", !.left = 0, !.reply = Http!NoReply]
             /\ job' = [job EXCEPT !.pc = "waits", !.awaits = "send"] /\ asyncCall' = asyncCall
    <3>1. job.pc = "opens" /\ ~asyncCall.step
      BY <1>0, <1>4 DEF Http!OpenRequest
    <3>2. /\ job'.awaits = "send" /\ winhttp'.doing = "send" /\ ~asyncCall'.step /\ job'.pc = "waits"
      BY <1>0, <2>2, <3>1 DEF HttpTypes
    <3> QED
      BY <3>2
  <2> QED
    BY <1>0, <1>4, <2>1, <2>2 DEF Http!OpenRequest, HttpTypes
<1>5. ASSUME Http!WaitStep PROVE Progress'
  <2>1. UNCHANGED token /\ asyncCall' = [asyncCall EXCEPT !.step = asyncCall'.step] /\ job.pc = "waits"
    BY <1>0, <1>5 DEF Http!WaitStep, HttpTypes
  <2>2. ASSUME NEW error, LeftWith(error) PROVE Progress'
    BY <1>0, <2>1, <2>2 DEF LeftWith, HttpTypes
  <2>3. ASSUME NEW next, NEW want, NEW got, StartedWith(next, want, got) PROVE Progress'
    BY <1>0, <2>1, <2>3 DEF StartedWith, HttpTypes
  <2> QED
    BY <1>5, <2>2, <2>3, WaitEnds, Zenon DEF Left, Started
<1>6. ASSUME Http!CloseRequest PROVE Progress'
  BY <1>0, <1>6 DEF Http!CloseRequest, HttpTypes
<1>7. ASSUME Http!LastCallbackSeen PROVE Progress'
  BY <1>0, <1>7 DEF Http!LastCallbackSeen, HttpTypes, Http!MayLeave
<1>8. ASSUME Http!UnsubscribeCancel PROVE Progress'
  BY <1>0, <1>8 DEF Http!UnsubscribeCancel, HttpTypes
<1>9. ASSUME Http!UseAnswer PROVE Progress'
  BY <1>0, <1>9 DEF Http!UseAnswer, HttpTypes
<1>10. ASSUME Http!DeadlinePasses PROVE Progress'
  BY <1>0, <1>10 DEF Http!DeadlinePasses, HttpTypes
<1>11. ASSUME Http!Connects PROVE Progress'
  BY <1>0, <1>11 DEF Http!Connects, HttpTypes, Http!Working
<1>12. ASSUME Http!Completes PROVE Progress'
  <2> SUFFICES ASSUME job'.pc = "waits" PROVE Underway'
    BY <1>0, <1>12 DEF Http!Completes, HttpTypes, Http!Working
  <2>1. job.pc = "waits" /\ job' = job /\ winhttp.doing = job.awaits
        /\ (job.awaits \in {"data", "read"} =>
              winhttp.reply \in Replies /\ job.got + winhttp.left = winhttp.reply.size)
        /\ (job.awaits = "read" => job.got + 1 <= MaxResponse)
    BY <1>0, <1>12 DEF Http!Completes, HttpTypes, Http!Working
  <2>2. CASE winhttp.doing = "send" /\ Http!Signals("send", "none", 0)
             /\ winhttp' = [winhttp EXCEPT !.doing = "nothing"]
    BY <1>0, <2>1, <2>2 DEF Http!Signals, HttpTypes
  <2>3. ASSUME NEW reply \in Replies, winhttp.doing = "headers", Http!Signals("headers", "none", 0),
               winhttp' = [winhttp EXCEPT !.doing = "nothing", !.reply = reply, !.left = reply.size]
        PROVE  Underway'
    BY <1>0, <2>1, <2>3 DEF Http!Signals, HttpTypes
  <2>4. ASSUME NEW available \in 0..winhttp.left, winhttp.doing = "data", available = 0 <=> winhttp.left = 0,
               Http!Signals("data", "none", available), winhttp' = [winhttp EXCEPT !.doing = "nothing"]
        PROVE  Underway'
    BY <1>0, <2>1, <2>4 DEF Http!Signals, HttpTypes
  <2>5. CASE winhttp.doing = "read" /\ Http!Signals("read", "none", winhttp.want)
             /\ winhttp' = [winhttp EXCEPT !.doing = "nothing", !.left = @ - winhttp.want]
    <3>1. /\ asyncCall'.bytes = 1 /\ asyncCall'.step /\ asyncCall'.status = "read"
          /\ winhttp'.doing = "nothing" /\ winhttp'.left = winhttp.left - 1 /\ winhttp'.reply = winhttp.reply
      BY <1>0, <2>5 DEF Http!Signals, HttpTypes
    <3>2. job.got + 1 + (winhttp.left - 1) = winhttp.reply.size
      BY <1>0, <2>1, <2>5 DEF HttpTypes
    <3> QED
      BY <2>1, <2>5, <3>1, <3>2
  <2> QED
    BY <1>12, <2>2, <2>3, <2>4, <2>5 DEF Http!Completes
<1>13. ASSUME Http!StepFails PROVE Progress'
  <2>1. PICK error : /\ Http!Signals("error", error, 0)
                     /\ winhttp.handle # "closing" => error \in Http!Errors
                     /\ winhttp' = [winhttp EXCEPT !.doing = "nothing"] /\ job' = job
    BY <1>13 DEF Http!StepFails
  <2>2. winhttp.handle \in {"open", "closing"}
    BY <1>13 DEF Http!StepFails, Http!Working
  <2>3. CASE job.pc = "waits"
    BY <1>0, <2>1, <2>3 DEF Http!Signals, Http!Errors, HttpTypes
  <2> QED
    BY <1>0, <2>1, <2>2, <2>3 DEF HttpTypes
<1>14. ASSUME Http!HandleClosing PROVE Progress'
  BY <1>0, <1>14 DEF Http!HandleClosing, HttpTypes
<1>15. ASSUME Http!CancelJob PROVE Progress'
  BY <1>0, <1>15 DEF Http!CancelJob, HttpTypes
<1>16. ASSUME Http!CancelWakes PROVE Progress'
  BY <1>0, <1>16 DEF Http!CancelWakes, HttpTypes
<1> QED
  BY <1>1, <1>2, <1>3, <1>4, <1>5, <1>6, <1>7, <1>8, <1>9, <1>10, <1>11, <1>12, <1>13, <1>14, <1>15, <1>16,
     Zenon DEF Http!HttpNext

\* An answer, once given, stays true.
LEMMA AnswerStep ==
    ASSUME CallInvariant, Http!HttpNext
    PROVE  Http!AnswerIsTrue'
<1> USE DEF Http!AnswerIsTrue, Http!Answer, Answered
<1>0. HttpTypes /\ Http!AnswerIsTrue
  BY DEF CallInvariant
<1>1. ASSUME NEW use \in Http!Uses, Http!Request(use) PROVE Http!AnswerIsTrue'
  BY <1>0, <1>1 DEF Http!Request, HttpTypes
<1>2. ASSUME Http!CheckRequest PROVE Http!AnswerIsTrue'
  <2>1. ASSUME NEW error, Http!RefusedCall(error) PROVE Http!AnswerIsTrue'
    BY <1>0, <1>2, <2>1 DEF Http!CheckRequest, Http!RefusedCall, HttpTypes
  <2>2. ASSUME job' = [job EXCEPT !.pc = "subscribes"], asyncCall' = Http!NewAsyncCall,
               UNCHANGED <<winhttp, token>>
        PROVE  Http!AnswerIsTrue'
    BY <1>0, <1>2, <2>2 DEF Http!CheckRequest, Http!NewAsyncCall, HttpTypes
  <2> QED
    BY <1>2, <2>1, <2>2 DEF Http!CheckRequest
<1>3. ASSUME Http!SubscribeCancel PROVE Http!AnswerIsTrue'
  BY <1>0, <1>3 DEF Http!SubscribeCancel, HttpTypes
<1>4. ASSUME Http!OpenRequest PROVE Http!AnswerIsTrue'
  <2>1. CASE job' = [job EXCEPT !.pc = "leaves", !.answer = Http!Answer("Other", Http!NoReply, 0)]
    BY <1>0, <2>1 DEF HttpTypes
  <2>2. CASE job' = [job EXCEPT !.pc = "waits", !.awaits = "send"]
    BY <1>0, <2>2 DEF HttpTypes
  <2> QED
    BY <1>4, <2>1, <2>2 DEF Http!OpenRequest
<1>5. ASSUME Http!WaitStep PROVE Http!AnswerIsTrue'
  <2>1. UNCHANGED token /\ asyncCall' = [asyncCall EXCEPT !.step = asyncCall'.step] /\ job.pc = "waits"
    BY <1>0, <1>5 DEF Http!WaitStep, HttpTypes
  <2>2. ASSUME NEW error, LeftWith(error) PROVE Http!AnswerIsTrue'
    BY <1>0, <2>1, <2>2 DEF LeftWith, HttpTypes
  <2>3. ASSUME NEW next, NEW want, NEW got, StartedWith(next, want, got) PROVE Http!AnswerIsTrue'
    BY <1>0, <2>1, <2>3 DEF StartedWith, HttpTypes
  <2> QED
    BY <1>5, <2>2, <2>3, WaitEnds, Zenon DEF Left, Started
<1>6. ASSUME Http!CloseRequest PROVE Http!AnswerIsTrue'
  BY <1>0, <1>6 DEF Http!CloseRequest, HttpTypes
<1>7. ASSUME Http!LastCallbackSeen PROVE Http!AnswerIsTrue'
  BY <1>0, <1>7 DEF Http!LastCallbackSeen, HttpTypes, Http!MayLeave
<1>8. ASSUME Http!UnsubscribeCancel PROVE Http!AnswerIsTrue'
  BY <1>0, <1>8 DEF Http!UnsubscribeCancel, HttpTypes
<1>9. ASSUME Http!UseAnswer PROVE Http!AnswerIsTrue'
  BY <1>0, <1>9 DEF Http!UseAnswer, HttpTypes
<1>10. ASSUME Http!DeadlinePasses PROVE Http!AnswerIsTrue'
  BY <1>0, <1>10 DEF Http!DeadlinePasses, HttpTypes
<1>11. ASSUME Http!Connects PROVE Http!AnswerIsTrue'
  BY <1>0, <1>11 DEF Http!Connects, HttpTypes, Http!Working
<1>12. ASSUME Http!Completes PROVE Http!AnswerIsTrue'
  BY <1>0, <1>12 DEF Http!Completes, HttpTypes, Http!Signals, Http!Working
<1>13. ASSUME Http!StepFails PROVE Http!AnswerIsTrue'
  BY <1>0, <1>13 DEF Http!StepFails, HttpTypes, Http!Signals, Http!Working
<1>14. ASSUME Http!HandleClosing PROVE Http!AnswerIsTrue'
  BY <1>0, <1>14 DEF Http!HandleClosing, HttpTypes
<1>15. ASSUME Http!CancelJob PROVE Http!AnswerIsTrue'
  BY <1>0, <1>15 DEF Http!CancelJob, HttpTypes
<1>16. ASSUME Http!CancelWakes PROVE Http!AnswerIsTrue'
  BY <1>0, <1>16 DEF Http!CancelWakes, HttpTypes
<1> QED
  BY <1>1, <1>2, <1>3, <1>4, <1>5, <1>6, <1>7, <1>8, <1>9, <1>10, <1>11, <1>12, <1>13, <1>14, <1>15, <1>16,
     Zenon DEF Http!HttpNext

\* A notice is of the request that ended.
LEMMA NoticeStep ==
    ASSUME CallInvariant, Http!HttpNext
    PROVE  Noticed'
<1> USE DEF Noticed, Http!NoticeIsTrue, Http!NoResult
<1>0. HttpTypes /\ Noticed
  BY DEF CallInvariant
<1>1. ASSUME NEW use \in Http!Uses, Http!Request(use) PROVE Noticed'
  BY <1>0, <1>1 DEF Http!Request, HttpTypes
<1>2. ASSUME Http!CheckRequest PROVE Noticed'
  <2>1. ASSUME NEW error, Http!RefusedCall(error) PROVE Noticed'
    BY <1>0, <1>2, <2>1 DEF Http!CheckRequest, Http!RefusedCall, HttpTypes
  <2>2. ASSUME job' = [job EXCEPT !.pc = "subscribes"], asyncCall' = Http!NewAsyncCall,
               UNCHANGED <<winhttp, token>>
        PROVE  Noticed'
    BY <1>0, <1>2, <2>2 DEF Http!CheckRequest, Http!NewAsyncCall, HttpTypes
  <2> QED
    BY <1>2, <2>1, <2>2 DEF Http!CheckRequest
<1>3. ASSUME Http!SubscribeCancel PROVE Noticed'
  BY <1>0, <1>3 DEF Http!SubscribeCancel, HttpTypes
<1>4. ASSUME Http!OpenRequest PROVE Noticed'
  BY <1>0, <1>4 DEF Http!OpenRequest, HttpTypes
<1>5. ASSUME Http!WaitStep PROVE Noticed'
  <2>1. UNCHANGED token /\ asyncCall' = [asyncCall EXCEPT !.step = asyncCall'.step] /\ job.pc = "waits"
    BY <1>0, <1>5 DEF Http!WaitStep, HttpTypes
  <2>2. ASSUME NEW error, LeftWith(error) PROVE Noticed'
    BY <1>0, <2>1, <2>2 DEF LeftWith, HttpTypes
  <2>3. ASSUME NEW next, NEW want, NEW got, StartedWith(next, want, got) PROVE Noticed'
    BY <1>0, <2>1, <2>3 DEF StartedWith, HttpTypes
  <2> QED
    BY <1>5, <2>2, <2>3, WaitEnds, Zenon DEF Left, Started
<1>6. ASSUME Http!CloseRequest PROVE Noticed'
  BY <1>0, <1>6 DEF Http!CloseRequest, HttpTypes
<1>7. ASSUME Http!LastCallbackSeen PROVE Noticed'
  BY <1>0, <1>7 DEF Http!LastCallbackSeen, HttpTypes, Http!MayLeave
<1>8. ASSUME Http!UnsubscribeCancel PROVE Noticed'
  BY <1>0, <1>8 DEF Http!UnsubscribeCancel, HttpTypes
<1>9. ASSUME Http!UseAnswer PROVE Noticed'
  <2>1. /\ job' = [job EXCEPT !.pc = "idle", !.result = Http!ResultOf(job.use, job.answer)]
    BY <1>9 DEF Http!UseAnswer
  <2>2. Http!ResultOf(job.use, job.answer).newer =>
           /\ job.use = "update" /\ job.answer.error = "ok" /\ job.answer.reply.status = 200
           /\ job.answer.reply.tag # <<>> /\ Http!IsNewer(job.answer.reply.tag, RunningVersion)
    <3>1. ~Http!RunResult(job.answer).newer
      BY DEF Http!RunResult, Http!NoResult
    <3>2. Http!CheckForUpdate(job.answer).newer =>
             /\ job.answer.error = "ok" /\ job.answer.reply.status = 200
             /\ job.answer.reply.tag # <<>> /\ Http!IsNewer(job.answer.reply.tag, RunningVersion)
      BY DEF Http!CheckForUpdate, Http!NoResult
    <3>3. job.use \in Http!Uses
      BY <1>0 DEF HttpTypes
    <3> QED
      BY <3>1, <3>2, <3>3 DEF Http!ResultOf, Http!Uses
  <2>3. job'.result = Http!ResultOf(job.use, job.answer) /\ job'.use = job.use /\ job'.answer = job.answer
        /\ job'.pc = "idle"
    BY <1>0, <2>1 DEF HttpTypes
  <2>4. ASSUME NEW latest, Http!IsNewer(latest, RunningVersion) PROVE Http!Above(latest, RunningVersion)
    BY <2>4 DEF Http!IsNewer, Http!Above
  <2> QED
    BY <2>2, <2>3, <2>4
<1>10. ASSUME Http!DeadlinePasses PROVE Noticed'
  BY <1>0, <1>10 DEF Http!DeadlinePasses, HttpTypes
<1>11. ASSUME Http!Connects PROVE Noticed'
  BY <1>0, <1>11 DEF Http!Connects, HttpTypes, Http!Working
<1>12. ASSUME Http!Completes PROVE Noticed'
  BY <1>0, <1>12 DEF Http!Completes, HttpTypes, Http!Signals, Http!Working
<1>13. ASSUME Http!StepFails PROVE Noticed'
  BY <1>0, <1>13 DEF Http!StepFails, HttpTypes, Http!Signals, Http!Working
<1>14. ASSUME Http!HandleClosing PROVE Noticed'
  BY <1>0, <1>14 DEF Http!HandleClosing, HttpTypes
<1>15. ASSUME Http!CancelJob PROVE Noticed'
  BY <1>0, <1>15 DEF Http!CancelJob, HttpTypes
<1>16. ASSUME Http!CancelWakes PROVE Noticed'
  BY <1>0, <1>16 DEF Http!CancelWakes, HttpTypes
<1> QED
  BY <1>1, <1>2, <1>3, <1>4, <1>5, <1>6, <1>7, <1>8, <1>9, <1>10, <1>11, <1>12, <1>13, <1>14, <1>15, <1>16,
     Zenon DEF Http!HttpNext

LEMMA CallStep ==
    ASSUME CallInvariant, [Http!HttpNext]_httpVars
    PROVE  CallInvariant'
<1>1. CASE Http!HttpNext
  BY <1>1, CallTypesStep, InUseStep, WakingStep, UnderwayStep, AnswerStep, NoticeStep DEF CallInvariant
<1>2. CASE UNCHANGED httpVars
  BY <1>2 DEF httpVars, CallInvariant, HttpTypes, InUse, Waking, Progress, Underway, Http!AnswerIsTrue, Noticed,
     Http!NoticeIsTrue
<1> QED
  BY <1>1, <1>2

LEMMA CallIsEnough == CallInvariant => Http!CallEndsCleanly
BY DEF CallInvariant, HttpTypes, InUse, Waking, Noticed, Http!CallEndsCleanly, Http!HttpTypeOK, Calling, Subscribed,
   Http!NothingReachesFreedCall, Http!CancelWakesTheWait

-----------------------------------------------------------------------------
(* The dock.                                                               *)

DockStates == {"Inactive", "Filling", "Active", "Error"}
DockNames == DockScenes \cup {TheDock!NoScene}
DockRows == [inline: {"sign out", "cancel", "none"},
             primary: {"open trigglow", "retry", "sign in", "none"}, copy: BOOLEAN]
DockModes ==
    [state: DockStates, generation: 0..MaxWindows, effective: Nat, live: DockNames,
     loading: DockNames, delay: DockDelays, quality: DockQualities]
DockDesks ==
    [scenes: SUBSET DockScenes, loaded: BOOLEAN, account: {"in", "inactive", "waiting", "out"},
     link: BOOLEAN, retry: BOOLEAN, room: Rooms, load: Loads \cup {"none"}]
DockViews ==
    [headline: DockStates, announced: DockStates, locked: BOOLEAN, enableOn: BOOLEAN,
     disableOn: BOOLEAN, missing: SUBSET {"account", "scene"}, seconds: Int, quality: Int,
     live: DockNames, loading: DockNames, liveList: SUBSET DockScenes,
     loadingList: SUBSET DockScenes,
     fit: {"choose a scene", "fits", "trimmed", "trimmed, locked"}, fitRow: BOOLEAN,
     notice: Loads \cup {"none"}, heard: Loads \cup {"none", "restored"}, healthTimer: BOOLEAN,
     armed: BOOLEAN, window: Nat, total: Nat, left: Nat, account: DockRows, linkCopied: BOOLEAN]

\* What every refresh sets, what the callback sets besides, and the account's row.
Spoken(d) == d.notice # "none" => d.heard = d.notice
Refreshed(d, m, k) ==
    /\ d.headline = m.state /\ d.announced = m.state
    /\ d.locked = TheDock!Busy(m) /\ d.disableOn = TheDock!Busy(m) /\ d.healthTimer = TheDock!Busy(m)
    /\ d.enableOn => ~TheDock!Busy(m) /\ TheDock!CanEnable(k) /\ m.live # TheDock!NoScene
    /\ ~TheDock!Busy(m) /\ ~d.enableOn => d.missing # {}
    /\ d.notice # "none" => TheDock!Busy(m) /\ ~d.fitRow
    /\ d.fit = "trimmed" => ~TheDock!Busy(m)
    /\ d.fit = "trimmed, locked" => TheDock!Busy(m)
    /\ d.seconds = m.delay /\ d.live \in {TheDock!NoScene, m.live}
Counting(d, m) ==
    /\ d.armed <=> m.state = "Filling"
    /\ d.armed => d.window = m.generation /\ d.total = TheDock!AppliedDelaySeconds(m)
    /\ d.left \in 0..d.total
InRow(d, k) == d.account = TheDock!AccountRow(k) /\ (d.linkCopied => k.account = "waiting")
SameTimer(d, e) ==
    d.armed = e.armed /\ d.window = e.window /\ d.total = e.total /\ d.left = e.left
SameRow(d, e) == d.account = e.account /\ d.linkCopied = e.linkCopied

DockInvariant ==
    /\ dock \in DockViews /\ mode \in DockModes /\ desk \in DockDesks
    /\ Spoken(dock) /\ Refreshed(dock, mode, desk) /\ Counting(dock, mode) /\ InRow(dock, desk)

LEMMA ModeNumbers ==
    ASSUME NEW m \in DockModes
    PROVE  /\ m.delay \in Nat /\ m.quality \in Nat \ {0} /\ m.effective \in Nat /\ m.generation \in Nat
           /\ m.delay \in Int /\ m.quality \in Int
<1>1. m.delay \in Nat
  BY DockAssumption DEF DockModes
<1>2. m.quality \in Nat \ {0}
  BY DockAssumption DEF DockModes
<1>3. m.generation \in Nat /\ m.effective \in Nat
  BY DockAssumption DEF DockModes
<1> QED
  BY <1>1, <1>2, <1>3

LEMMA NoticeSet ==
    ASSUME NEW d \in DockViews, NEW c \in Loads \cup {"none"}, NEW f \in BOOLEAN,
           NEW h \in Loads \cup {"none", "restored"}
    PROVE  [d EXCEPT !.notice = c, !.fitRow = f, !.heard = h] \in DockViews
BY DEF DockViews

LEMMA HealthFacts ==
    ASSUME NEW d \in DockViews, NEW m \in DockModes, NEW k \in DockDesks, Spoken(d)
    PROVE  LET e == TheDock!RefreshPipelineHealth(d, m, k)
           IN  /\ e \in DockViews /\ Spoken(e) /\ SameTimer(d, e) /\ SameRow(d, e)
               /\ e.notice # "none" => TheDock!Busy(m) /\ ~e.fitRow
               /\ e.headline = d.headline /\ e.announced = d.announced /\ e.locked = d.locked
               /\ e.enableOn = d.enableOn /\ e.disableOn = d.disableOn /\ e.missing = d.missing
               /\ e.healthTimer = d.healthTimer /\ e.seconds = d.seconds /\ e.live = d.live
               /\ e.fit = d.fit /\ e.liveList = d.liveList
<1> DEFINE cause == IF TheDock!Busy(m) THEN k.load ELSE "none"
           e == TheDock!RefreshPipelineHealth(d, m, k)
<1>1. cause \in Loads \cup {"none"} /\ (cause # "none" => TheDock!Busy(m))
  BY DEF DockDesks
<1>2. /\ d.heard \in Loads \cup {"none", "restored"} /\ d.notice \in Loads \cup {"none"}
      /\ d.notice # "none" => d.heard = d.notice
  BY DEF DockViews, Spoken
<1>3. PICK h : h = CASE cause \notin {"none", d.notice} -> cause
                    [] cause = "none" /\ d.notice # "none" /\ TheDock!Busy(m) -> "restored"
                    [] OTHER -> d.heard
  OBVIOUS
<1>4. h \in Loads \cup {"none", "restored"} /\ (cause # "none" => h = cause)
  BY <1>1, <1>2, <1>3
<1>5. PICK f \in BOOLEAN : f = (cause = "none")
  OBVIOUS
<1>6. e = [d EXCEPT !.notice = cause, !.fitRow = f, !.heard = h]
  BY <1>3, <1>5, Zenon DEF TheDock!RefreshPipelineHealth
<1> HIDE DEF cause, e
<1> QED
  <2>1. e \in DockViews
    <3>1. PICK c \in Loads \cup {"none"} : c = cause
      BY <1>1
    <3>2. PICK said \in Loads \cup {"none", "restored"} : said = h
      BY <1>4
    <3>3. [d EXCEPT !.notice = c, !.fitRow = f, !.heard = said] \in DockViews
      BY Zenon, NoticeSet
    <3> QED
      BY <1>6, <3>1, <3>2, <3>3, Zenon
  <2>2. e.notice = cause /\ e.fitRow = f /\ e.heard = h
    BY <1>6 DEF DockViews
  <2>3. SameTimer(d, e) /\ SameRow(d, e)
    BY <1>6 DEF DockViews, SameTimer, SameRow
  <2>4. /\ e.headline = d.headline /\ e.announced = d.announced /\ e.locked = d.locked
        /\ e.enableOn = d.enableOn /\ e.disableOn = d.disableOn /\ e.missing = d.missing
        /\ e.healthTimer = d.healthTimer /\ e.seconds = d.seconds /\ e.live = d.live
        /\ e.fit = d.fit /\ e.liveList = d.liveList
    BY <1>6 DEF DockViews
  <2>5. e.notice # "none" => TheDock!Busy(m) /\ ~e.fitRow /\ e.heard = e.notice
    BY <1>1, <1>4, <1>5, <2>2
  <2> QED
    BY <2>1, <2>3, <2>4, <2>5, Zenon DEF Spoken, e

LEMMA HeadSet ==
    ASSUME NEW d \in DockViews, NEW s \in DockStates, NEW b \in BOOLEAN, NEW f \in BOOLEAN
    PROVE  [d EXCEPT !.headline = s, !.announced = s, !.locked = b, !.enableOn = f, !.disableOn = b]
               \in DockViews
BY DEF DockViews

LEMMA FieldsSet ==
    ASSUME NEW d \in DockViews, NEW S \in SUBSET {"account", "scene"}, NEW n \in Int, NEW q \in Int,
           NEW a \in DockNames, NEW b \in DockNames
    PROVE  [d EXCEPT !.missing = S, !.seconds = n, !.quality = q, !.live = a, !.loading = b] \in DockViews
BY DEF DockViews

LEMMA StatusFacts ==
    ASSUME NEW d \in DockViews, NEW m \in DockModes, NEW k \in DockDesks, Spoken(d)
    PROVE  LET e == TheDock!RefreshFromStatus(d, m, k)
           IN  e \in DockViews /\ Spoken(e) /\ Refreshed(e, m, k) /\ SameTimer(d, e) /\ SameRow(d, e)
<1> DEFINE busy == TheDock!Busy(m)
           c == [d EXCEPT !.healthTimer = busy]
           told == TheDock!RefreshPipelineHealth(c, m, k)
           seen == [told EXCEPT !.headline = m.state, !.announced = m.state,
                         !.locked = busy,
                         !.enableOn = ~busy /\ TheDock!HasScene(d, m) /\ TheDock!CanEnable(k),
                         !.disableOn = busy,
                         !.missing = IF busy THEN {}
                                     ELSE (IF TheDock!CanEnable(k) THEN {} ELSE {"account"})
                                            \cup (IF TheDock!HasScene(d, m) THEN {} ELSE {"scene"}),
                         !.seconds = m.delay, !.quality = m.quality,
                         !.live = TheDock!Shown(m.live, d.liveList),
                         !.loading = TheDock!Shown(m.loading, d.loadingList)]
           e == TheDock!RefreshFitEstimate(seen, m, k)
<1>1. TheDock!RefreshFromStatus(d, m, k) = e
  BY DEF TheDock!RefreshFromStatus
<1>2. c \in DockViews /\ Spoken(c) /\ SameTimer(d, c) /\ SameRow(d, c) /\ c.healthTimer = busy
  <2>1. busy \in BOOLEAN
    BY DEF TheDock!Busy
  <2> HIDE DEF busy
  <2> QED
    BY <2>1 DEF DockViews, Spoken, SameTimer, SameRow
<1> HIDE DEF c
<1>3. /\ told \in DockViews /\ Spoken(told) /\ SameTimer(d, told) /\ SameRow(d, told)
      /\ told.healthTimer = busy
      /\ told.notice # "none" => busy /\ ~told.fitRow
  BY <1>2, HealthFacts DEF SameTimer, SameRow
<1> HIDE DEF told
<1>4. /\ busy \in BOOLEAN /\ TheDock!HasScene(d, m) \in BOOLEAN /\ TheDock!CanEnable(k) \in BOOLEAN
      /\ TheDock!HasScene(d, m) => m.live # TheDock!NoScene
      /\ TheDock!Shown(m.live, d.liveList) \in DockNames \cap {TheDock!NoScene, m.live}
      /\ TheDock!Shown(m.loading, d.loadingList) \in DockNames
      /\ m.delay \in Int /\ m.quality \in Int /\ m.state \in DockStates
  <2>1. m.live \in DockNames /\ m.loading \in DockNames /\ m.delay \in DockDelays /\ m.quality \in DockQualities
        /\ m.state \in DockStates
    BY DEF DockModes
  <2>2. m.delay \in Int /\ m.quality \in Int
    BY ModeNumbers
  <2>3. TheDock!NoScene \in DockNames
    BY DEF DockNames
  <2> QED
    BY <2>1, <2>2, <2>3 DEF TheDock!Busy, TheDock!HasScene, TheDock!CanEnable, TheDock!Shown
<1> HIDE DEF busy
<1>5. /\ seen \in DockViews /\ Spoken(seen) /\ SameTimer(d, seen) /\ SameRow(d, seen)
      /\ seen.headline = m.state /\ seen.announced = m.state /\ seen.locked = busy
      /\ seen.disableOn = busy /\ seen.healthTimer = busy
      /\ seen.enableOn => ~busy /\ TheDock!CanEnable(k) /\ m.live # TheDock!NoScene
      /\ ~busy /\ ~seen.enableOn => seen.missing # {}
      /\ seen.notice # "none" => busy /\ ~seen.fitRow
      /\ seen.seconds = m.delay /\ seen.live \in {TheDock!NoScene, m.live}
  <2> DEFINE enableOn == ~busy /\ TheDock!HasScene(d, m) /\ TheDock!CanEnable(k)
             missing == IF busy THEN {}
                        ELSE (IF TheDock!CanEnable(k) THEN {} ELSE {"account"})
                               \cup (IF TheDock!HasScene(d, m) THEN {} ELSE {"scene"})
             live == TheDock!Shown(m.live, d.liveList)
             loading == TheDock!Shown(m.loading, d.loadingList)
  <2>1. /\ enableOn \in BOOLEAN /\ missing \in SUBSET {"account", "scene"}
        /\ enableOn => ~busy /\ TheDock!CanEnable(k) /\ m.live # TheDock!NoScene
        /\ ~busy /\ ~enableOn => missing # {}
    BY <1>4
  <2>2. live \in DockNames /\ live \in {TheDock!NoScene, m.live} /\ loading \in DockNames
    BY <1>4
  <2>3. PICK lit \in BOOLEAN : lit = enableOn
    BY <2>1
  <2>4. seen = [told EXCEPT !.headline = m.state, !.announced = m.state, !.locked = busy,
                  !.enableOn = lit, !.disableOn = busy, !.missing = missing, !.seconds = m.delay,
                  !.quality = m.quality, !.live = live, !.loading = loading]
    BY <2>3
  <2> HIDE DEF enableOn, missing, live, loading, seen
  <2> QED
    <3>1. seen \in DockViews
      <4>1. /\ told \in DockViews /\ m.state \in DockStates /\ busy \in BOOLEAN /\ lit \in BOOLEAN
            /\ missing \in SUBSET {"account", "scene"} /\ m.delay \in Int /\ m.quality \in Int
            /\ live \in DockNames /\ loading \in DockNames
        BY <1>3, <1>4, <2>1, <2>2
      <4>2. PICK half : half = [told EXCEPT !.headline = m.state, !.announced = m.state, !.locked = busy,
                                  !.enableOn = lit, !.disableOn = busy]
        OBVIOUS
      <4>3. half \in DockViews
        BY <4>1, <4>2, HeadSet
      <4>4. seen = [half EXCEPT !.missing = missing, !.seconds = m.delay, !.quality = m.quality, !.live = live,
                                !.loading = loading]
        BY <4>2, <2>4
      <4> QED
        BY <4>1, <4>3, <4>4, FieldsSet
    <3>2. /\ seen.headline = m.state /\ seen.announced = m.state /\ seen.locked = busy
          /\ seen.disableOn = busy /\ seen.enableOn = lit /\ seen.missing = missing
          /\ seen.seconds = m.delay /\ seen.live = live
      BY <1>3, <2>4 DEF DockViews
    <3>3. /\ seen.healthTimer = told.healthTimer /\ seen.notice = told.notice
          /\ seen.fitRow = told.fitRow /\ seen.heard = told.heard
      BY <1>3, <2>4 DEF DockViews
    <3>4. SameTimer(told, seen) /\ SameRow(told, seen)
      BY <1>3, <2>4 DEF DockViews, SameTimer, SameRow
    <3>5. SameTimer(d, seen) /\ SameRow(d, seen)
      BY <1>3, <3>4 DEF SameTimer, SameRow
    <3>6. Spoken(seen) /\ (seen.notice # "none" => busy /\ ~seen.fitRow)
      BY <1>3, <3>3, Zenon DEF Spoken
    <3> QED
      <4>1. seen.healthTimer = busy
        BY <1>3, <3>3
      <4>2. /\ seen.enableOn => ~busy /\ TheDock!CanEnable(k) /\ m.live # TheDock!NoScene
            /\ ~busy /\ ~seen.enableOn => seen.missing # {}
        BY <2>1, <2>3, <3>2
      <4>3. seen.live \in {TheDock!NoScene, m.live}
        BY <2>2, <3>2
      <4> QED
        BY <3>1, <3>2, <3>5, <3>6, <4>1, <4>2, <4>3, Zenon
<1> HIDE DEF seen
<1>6. PICK fit \in {"choose a scene", "fits", "trimmed", "trimmed, locked"} :
            /\ e = [seen EXCEPT !.fit = fit]
            /\ fit = "trimmed" => ~busy
            /\ fit = "trimmed, locked" => busy
  BY <1>4, Zenon DEF TheDock!RefreshFitEstimate, busy
<1> HIDE DEF e
<1>7. e \in DockViews /\ Spoken(e) /\ SameTimer(d, e) /\ SameRow(d, e)
  BY <1>5, <1>6 DEF DockViews, Spoken, SameTimer, SameRow
<1>8. Refreshed(e, m, k)
  BY <1>5, <1>6 DEF Refreshed, DockViews, busy
<1> QED
  BY <1>1, <1>7, <1>8, Zenon

LEMMA AppliedIsNat == ASSUME NEW m \in DockModes PROVE TheDock!AppliedDelaySeconds(m) \in Nat
BY ModeNumbers DEF TheDock!AppliedDelaySeconds, TheDock!Lesser

LEMMA ChangedFacts ==
    ASSUME NEW d \in DockViews, NEW m \in DockModes, NEW k \in DockDesks, Spoken(d), d.left \in 0..d.total,
           d.armed /\ m.state = "Filling" /\ d.window = m.generation
               => d.total = TheDock!AppliedDelaySeconds(m)
    PROVE  LET e == TheDock!OnStatusChanged(d, m, k)
           IN  e \in DockViews /\ Spoken(e) /\ Refreshed(e, m, k) /\ Counting(e, m) /\ SameRow(d, e)
<1> DEFINE seen == TheDock!RefreshFromStatus(d, m, k)
           e == TheDock!OnStatusChanged(d, m, k)
           seconds == TheDock!AppliedDelaySeconds(m)
<1>1. seen \in DockViews /\ Spoken(seen) /\ Refreshed(seen, m, k) /\ SameTimer(d, seen) /\ SameRow(d, seen)
  BY StatusFacts, Zenon
<1>2. seconds \in Nat /\ m.generation \in Nat
  BY AppliedIsNat, ModeNumbers
<1>3. e = IF m.state # "Filling" THEN TheDock!DisarmFillTimer(seen)
          ELSE IF TheDock!OpensWindow(seen, m) THEN TheDock!ArmFillTimer(seen, m.generation, seconds)
               ELSE seen
  BY DEF TheDock!OnStatusChanged
<1> HIDE DEF seen, seconds, e
<1>4. /\ seen.armed \in BOOLEAN /\ seen.left \in 0..seen.total
      /\ seen.armed /\ m.state = "Filling" /\ seen.window = m.generation => seen.total = seconds
  <2>1. /\ seen.armed = d.armed /\ seen.window = d.window /\ seen.total = d.total /\ seen.left = d.left
        /\ d.armed \in BOOLEAN
    BY <1>1 DEF SameTimer, DockViews
  <2> QED
    BY <2>1 DEF seconds
<1>5. ASSUME NEW f \in DockViews, SameRow(seen, f),
             f.headline = seen.headline, f.announced = seen.announced, f.locked = seen.locked,
             f.enableOn = seen.enableOn, f.disableOn = seen.disableOn, f.missing = seen.missing,
             f.healthTimer = seen.healthTimer, f.seconds = seen.seconds, f.live = seen.live,
             f.fit = seen.fit, f.notice = seen.notice, f.heard = seen.heard, f.fitRow = seen.fitRow
      PROVE  Spoken(f) /\ Refreshed(f, m, k) /\ SameRow(d, f)
  <2>1. Spoken(f)
    BY <1>1, <1>5, Zenon DEF Spoken
  <2>2. Refreshed(f, m, k)
    BY <1>1, <1>5, Zenon DEF Refreshed
  <2>3. SameRow(d, f)
    BY <1>1, <1>5, Zenon DEF SameRow
  <2> QED
    BY <2>1, <2>2, <2>3
<1>6. CASE m.state # "Filling"
  <2>1. e = [seen EXCEPT !.armed = FALSE]
    BY <1>3, <1>6 DEF TheDock!DisarmFillTimer
  <2>2. e \in DockViews
    BY <1>1, <2>1 DEF DockViews
  <2>3. /\ SameRow(seen, e)
        /\ e.headline = seen.headline /\ e.announced = seen.announced /\ e.locked = seen.locked
        /\ e.enableOn = seen.enableOn /\ e.disableOn = seen.disableOn /\ e.missing = seen.missing
        /\ e.healthTimer = seen.healthTimer /\ e.seconds = seen.seconds /\ e.live = seen.live
        /\ e.fit = seen.fit /\ e.notice = seen.notice /\ e.heard = seen.heard /\ e.fitRow = seen.fitRow
    BY <1>1, <2>1 DEF DockViews, SameRow
  <2>4. e.armed = FALSE /\ e.left = seen.left /\ e.total = seen.total
    BY <1>1, <2>1 DEF DockViews
  <2>5. Counting(e, m)
    BY <1>4, <1>6, <2>4 DEF Counting
  <2> QED
    BY <1>5, <2>2, <2>3, <2>5, Zenon DEF e
<1>7. CASE m.state = "Filling" /\ TheDock!OpensWindow(seen, m)
  <2>1. e = [seen EXCEPT !.armed = TRUE, !.window = m.generation, !.total = seconds, !.left = seconds]
    BY <1>3, <1>7 DEF TheDock!ArmFillTimer
  <2>2. e \in DockViews
    BY <1>1, <1>2, <2>1 DEF DockViews
  <2>3. /\ SameRow(seen, e)
        /\ e.headline = seen.headline /\ e.announced = seen.announced /\ e.locked = seen.locked
        /\ e.enableOn = seen.enableOn /\ e.disableOn = seen.disableOn /\ e.missing = seen.missing
        /\ e.healthTimer = seen.healthTimer /\ e.seconds = seen.seconds /\ e.live = seen.live
        /\ e.fit = seen.fit /\ e.notice = seen.notice /\ e.heard = seen.heard /\ e.fitRow = seen.fitRow
    BY <1>1, <2>1 DEF DockViews, SameRow
  <2>4. e.armed = TRUE /\ e.left = seconds /\ e.total = seconds /\ e.window = m.generation
    BY <1>1, <2>1 DEF DockViews
  <2>5. Counting(e, m)
    BY <1>2, <1>7, <2>4 DEF Counting, seconds
  <2> QED
    BY <1>5, <2>2, <2>3, <2>5, Zenon DEF e
<1>8. CASE m.state = "Filling" /\ ~TheDock!OpensWindow(seen, m)
  <2>1. e = seen
    BY <1>3, <1>8
  <2>2. seen.armed /\ seen.window = m.generation
    BY <1>8 DEF TheDock!OpensWindow
  <2>3. Counting(e, m)
    BY <1>4, <1>8, <2>1, <2>2 DEF Counting, seconds
  <2> QED
    BY <1>1, <2>1, <2>3, Zenon DEF e
<1> QED
  BY <1>6, <1>7, <1>8

LEMMA RowIsTyped == ASSUME NEW k \in DockDesks PROVE TheDock!AccountRow(k) \in DockRows
<1>1. k.link \in BOOLEAN
  BY DEF DockDesks
<1> QED
  BY <1>1 DEF TheDock!AccountRow, DockRows

LEMMA AccountFacts ==
    ASSUME NEW d \in DockViews, NEW m \in DockModes, NEW k \in DockDesks, Spoken(d)
    PROVE  LET e == TheDock!RefreshAccountUi(d, m, k)
           IN  e \in DockViews /\ Spoken(e) /\ Refreshed(e, m, k) /\ SameTimer(d, e) /\ InRow(e, k)
<1> DEFINE row == TheDock!AccountRow(k)
           c == [d EXCEPT !.account = row, !.linkCopied = d.linkCopied /\ k.account = "waiting"]
<1>1. PICK b \in BOOLEAN : b = (d.linkCopied /\ k.account = "waiting")
  OBVIOUS
<1>2. c = [d EXCEPT !.account = row, !.linkCopied = b]
  BY <1>1
<1>3. row \in DockRows
  BY RowIsTyped
<1> HIDE DEF row, c
<1>4. c \in DockViews
  BY <1>2, <1>3 DEF DockViews
<1>5. c.account = row /\ c.linkCopied = b /\ SameTimer(d, c) /\ c.notice = d.notice /\ c.heard = d.heard
  BY <1>2 DEF DockViews, SameTimer
<1>6. Spoken(c)
  BY <1>5 DEF Spoken
<1>7. TheDock!RefreshAccountUi(d, m, k) = TheDock!RefreshFromStatus(c, m, k)
  BY DEF TheDock!RefreshAccountUi, c, row
<1>8. PICK e : e = TheDock!RefreshFromStatus(c, m, k)
  OBVIOUS
<1>9. e \in DockViews /\ Spoken(e) /\ Refreshed(e, m, k) /\ SameTimer(c, e) /\ SameRow(c, e)
  BY <1>4, <1>6, <1>8, StatusFacts, Zenon
<1>10. SameTimer(d, e)
  BY <1>5, <1>9 DEF SameTimer
<1>11. InRow(e, k)
  BY <1>1, <1>5, <1>9 DEF InRow, SameRow, row
<1> QED
  BY <1>7, <1>8, <1>9, <1>10, <1>11, Zenon

LEMMA ShownName ==
    ASSUME NEW name \in DockNames, NEW list
    PROVE  TheDock!Shown(name, list) \in DockNames /\ TheDock!Shown(name, list) \in {TheDock!NoScene, name}
BY DEF TheDock!Shown, DockNames

LEMMA ListedScenes == ASSUME NEW k \in DockDesks PROVE TheDock!Listed(k) \in SUBSET DockScenes
<1>1. k.scenes \in SUBSET DockScenes
  BY DEF DockDesks
<1> QED
  BY <1>1 DEF TheDock!Listed

\* A popup's list is its own.
LEMMA PopupFacts ==
    ASSUME NEW d \in DockViews, NEW m \in DockModes, NEW k \in DockDesks, Spoken(d),
           NEW e \in {TheDock!RefreshLiveCombo(d, m, k), TheDock!RefreshLoadingCombo(d, m, k)}
    PROVE  /\ e \in DockViews /\ Spoken(e) /\ SameTimer(d, e) /\ SameRow(d, e)
           /\ Refreshed(d, m, k) => Refreshed(e, m, k)
<1>1. m.live \in DockNames /\ m.loading \in DockNames
  BY DEF DockModes
<1>2. PICK list \in SUBSET DockScenes, a \in DockNames, b \in DockNames :
           /\ list = TheDock!Listed(k) /\ a = TheDock!Shown(m.live, list) /\ b = TheDock!Shown(m.loading, list)
           /\ a \in {TheDock!NoScene, m.live}
  BY <1>1, ListedScenes, ShownName
<1>3. CASE e = [d EXCEPT !.liveList = list, !.live = a]
  <2>1. e \in DockViews
    BY <1>3 DEF DockViews
  <2>2. SameTimer(d, e) /\ SameRow(d, e)
    BY <1>3 DEF DockViews, SameTimer, SameRow
  <2>3. /\ e.headline = d.headline /\ e.announced = d.announced /\ e.locked = d.locked
        /\ e.enableOn = d.enableOn /\ e.disableOn = d.disableOn /\ e.missing = d.missing
        /\ e.healthTimer = d.healthTimer /\ e.seconds = d.seconds /\ e.live = a
        /\ e.fit = d.fit /\ e.notice = d.notice /\ e.heard = d.heard /\ e.fitRow = d.fitRow
    BY <1>3 DEF DockViews
  <2>4. Spoken(e)
    BY <2>3 DEF Spoken
  <2>5. Refreshed(d, m, k) => Refreshed(e, m, k)
    BY <1>2, <2>3, Zenon DEF Refreshed
  <2> QED
    BY <2>1, <2>2, <2>4, <2>5
<1>4. CASE e = [d EXCEPT !.loadingList = list, !.loading = b]
  <2>1. e \in DockViews
    BY <1>4 DEF DockViews
  <2>2. SameTimer(d, e) /\ SameRow(d, e)
    BY <1>4 DEF DockViews, SameTimer, SameRow
  <2>3. /\ e.headline = d.headline /\ e.announced = d.announced /\ e.locked = d.locked
        /\ e.enableOn = d.enableOn /\ e.disableOn = d.disableOn /\ e.missing = d.missing
        /\ e.healthTimer = d.healthTimer /\ e.seconds = d.seconds /\ e.live = d.live
        /\ e.fit = d.fit /\ e.notice = d.notice /\ e.heard = d.heard /\ e.fitRow = d.fitRow
    BY <1>4 DEF DockViews
  <2>4. Spoken(e)
    BY <2>3 DEF Spoken
  <2>5. Refreshed(d, m, k) => Refreshed(e, m, k)
    BY <2>3, Zenon DEF Refreshed
  <2> QED
    BY <2>1, <2>2, <2>4, <2>5
<1> QED
  BY <1>2, <1>3, <1>4, Zenon DEF TheDock!RefreshLiveCombo, TheDock!RefreshLoadingCombo

LEMMA AvailableFacts ==
    ASSUME NEW d \in DockViews, NEW m \in DockModes, NEW k \in DockDesks, Spoken(d)
    PROVE  LET e == TheDock!RefreshAvailableScenes(d, m, k)
           IN  e \in DockViews /\ Spoken(e) /\ Refreshed(e, m, k) /\ SameTimer(d, e) /\ SameRow(d, e)
<1>1. PICK a : a = TheDock!RefreshLiveCombo(d, m, k)
  OBVIOUS
<1>2. PICK b : b = TheDock!RefreshLoadingCombo(a, m, k)
  OBVIOUS
<1>3. PICK e : e = TheDock!RefreshFromStatus(b, m, k)
  OBVIOUS
<1>4. a \in DockViews /\ Spoken(a) /\ SameTimer(d, a) /\ SameRow(d, a)
  BY <1>1, PopupFacts
<1>5. b \in DockViews /\ Spoken(b) /\ SameTimer(a, b) /\ SameRow(a, b)
  BY <1>2, <1>4, PopupFacts
<1>6. e \in DockViews /\ Spoken(e) /\ Refreshed(e, m, k) /\ SameTimer(b, e) /\ SameRow(b, e)
  BY <1>3, <1>5, StatusFacts, Zenon
<1>7. SameTimer(d, e) /\ SameRow(d, e)
  BY <1>4, <1>5, <1>6 DEF SameTimer, SameRow
<1>8. e = TheDock!RefreshAvailableScenes(d, m, k)
  BY <1>1, <1>2, <1>3, Zenon DEF TheDock!RefreshAvailableScenes
<1> QED
  BY <1>6, <1>7, <1>8, Zenon

LEMMA TimerKept ==
    ASSUME NEW d, NEW e, NEW m, SameTimer(d, e), Counting(d, m)
    PROVE  Counting(e, m)
BY DEF SameTimer, Counting

LEMMA RowKept ==
    ASSUME NEW d, NEW e, NEW k, SameRow(d, e), InRow(d, k)
    PROVE  InRow(e, k)
BY DEF SameRow, InRow

LEMMA DockInitOK == TheDock!DockInit => DockInvariant
<1> SUFFICES ASSUME TheDock!DockInit PROVE DockInvariant
  OBVIOUS
<1>1. mode \in DockModes /\ mode.state = "Inactive"
  <2>1. 0 \in 0..MaxWindows /\ 0 \in Nat
    BY DockAssumption
  <2> QED
    BY <2>1 DEF TheDock!DockInit, DockModes, DockStates, DockNames
<1>2. desk \in DockDesks
  BY DEF TheDock!DockInit, DockDesks
<1>3. TheDock!Blank \in DockViews
  <2>1. TheDock!NoScene \in DockNames
    BY DEF DockNames
  <2> QED
    BY <2>1 DEF TheDock!Blank, DockViews, DockStates, DockRows
<1>4. TheDock!Blank.armed = FALSE /\ TheDock!Blank.left = 0 /\ TheDock!Blank.total = 0 /\ Spoken(TheDock!Blank)
  BY DEF TheDock!Blank, Spoken
<1>5. Counting(TheDock!Blank, mode)
  BY <1>1, <1>4 DEF Counting
<1>6. dock = TheDock!RefreshAccountUi(TheDock!Blank, mode, desk)
  BY DEF TheDock!DockInit
<1> QED
  BY <1>1, <1>2, <1>3, <1>4, <1>5, <1>6, AccountFacts, TimerKept, Zenon DEF DockInvariant

\* The controller tells the dock of its status: the countdown is that of the window, unless the window is the
\* same with other seconds.
LEMMA TellsStep ==
    ASSUME DockInvariant, NEW m \in DockModes, TheDock!Tells(m),
           mode.state = "Filling" /\ m.state = "Filling" /\ mode.generation = m.generation
               => TheDock!AppliedDelaySeconds(mode) = TheDock!AppliedDelaySeconds(m)
    PROVE  DockInvariant'
<1>1. dock' = TheDock!OnStatusChanged(dock, m, desk) /\ mode' = m /\ desk' = desk
  BY DEF TheDock!Tells
<1>2. /\ dock \in DockViews /\ desk \in DockDesks /\ Spoken(dock) /\ Counting(dock, mode) /\ InRow(dock, desk)
  BY DEF DockInvariant
<1>3. dock.left \in 0..dock.total
  BY <1>2 DEF Counting
<1>4. dock.armed /\ m.state = "Filling" /\ dock.window = m.generation
          => dock.total = TheDock!AppliedDelaySeconds(m)
  BY <1>2, Zenon DEF Counting
<1>5. PICK e : e = TheDock!OnStatusChanged(dock, m, desk)
  OBVIOUS
<1>6. e \in DockViews /\ Spoken(e) /\ Refreshed(e, m, desk) /\ Counting(e, m) /\ SameRow(dock, e)
  BY <1>2, <1>3, <1>4, <1>5, ChangedFacts, Zenon
<1>7. InRow(e, desk)
  BY <1>2, <1>6, RowKept
<1> QED
  BY <1>1, <1>2, <1>5, <1>6, <1>7, Zenon DEF DockInvariant

LEMMA RoomIsNat == ASSUME NEW m \in DockModes, NEW k \in DockDesks PROVE TheDock!RoomFor(m, k) \in Nat
<1>1. k.room \in Nat
  BY DockAssumption DEF DockDesks
<1>2. m.delay \in Nat /\ m.quality \in Nat \ {0}
  BY ModeNumbers
<1>3. k.room \div m.quality \in Nat
  BY <1>1, <1>2
<1> QED
  BY <1>2, <1>3 DEF TheDock!RoomFor, TheDock!Lesser

LEMMA FillingMode ==
    ASSUME NEW m \in DockModes, NEW k \in DockDesks, m.generation < MaxWindows
    PROVE  TheDock!Filling(m, k) \in DockModes /\ TheDock!Filling(m, k).generation = m.generation + 1
<1>1. m.generation + 1 \in 0..MaxWindows
  BY DockAssumption DEF DockModes
<1>2. TheDock!RoomFor(m, k) \in Nat
  BY RoomIsNat
<1>3. PICK n \in 0..MaxWindows, r \in Nat : n = m.generation + 1 /\ r = TheDock!RoomFor(m, k)
  BY <1>1, <1>2
<1>4. TheDock!Filling(m, k) = [m EXCEPT !.state = "Filling", !.generation = n, !.effective = r]
  BY <1>3, Zenon DEF TheDock!Filling
<1> QED
  BY <1>3, <1>4 DEF DockModes, DockStates

LEMMA StoppedMode ==
    ASSUME NEW m \in DockModes
    PROVE  TheDock!Stopped(m) \in DockModes /\ TheDock!Stopped(m).state = "Inactive"
BY DEF TheDock!Stopped, DockModes, DockStates

LEMMA RefusedMode ==
    ASSUME NEW m \in DockModes
    PROVE  TheDock!Refused(m) \in DockModes /\ TheDock!Refused(m).state = "Error"
BY DEF TheDock!Refused, DockModes, DockStates

LEMMA EnableStep == ASSUME DockInvariant, TheDock!Enable PROVE DockInvariant'
<1>1. mode \in DockModes /\ desk \in DockDesks
  BY DEF DockInvariant
<1>2. ~TheDock!Busy(mode) /\ mode.generation < MaxWindows /\ TheDock!Tells(TheDock!Enabled(mode, desk))
  BY DEF TheDock!Enable
<1>3. TheDock!Enabled(mode, desk) \in DockModes
  BY <1>1, <1>2, FillingMode, RefusedMode, Zenon DEF TheDock!Enabled
<1>4. mode.state # "Filling"
  BY <1>2 DEF TheDock!Busy
<1> QED
  BY <1>2, <1>3, <1>4, TellsStep, Zenon

LEMMA DisableStep == ASSUME DockInvariant, TheDock!Disable PROVE DockInvariant'
<1>1. mode \in DockModes
  BY DEF DockInvariant
<1>2. TheDock!Stopped(mode) \in DockModes /\ TheDock!Stopped(mode).state # "Filling"
  BY <1>1, StoppedMode
<1> QED
  BY <1>2, TellsStep, Zenon DEF TheDock!Disable

\* A field is changed only while the dock is not locked, that is while the delay does not run.
LEMMA FieldStep ==
    ASSUME DockInvariant, ~dock.locked, NEW m \in DockModes, TheDock!Tells(m)
    PROVE  DockInvariant'
<1>1. mode.state # "Filling"
  BY DEF DockInvariant, Refreshed, TheDock!Busy
<1> QED
  BY <1>1, TellsStep, Zenon

LEMMA ChooseStep ==
    ASSUME DockInvariant,
           \/ \E s \in DockNames : TheDock!ChooseLive(s) \/ TheDock!ChooseLoading(s)
           \/ \E n \in DockDelays : TheDock!ChooseSeconds(n)
           \/ \E q \in DockQualities : TheDock!ChooseQuality(q)
    PROVE  DockInvariant'
<1>1. mode \in DockModes
  BY DEF DockInvariant
<1>2. ASSUME NEW s \in DockNames
      PROVE  [mode EXCEPT !.live = s] \in DockModes /\ [mode EXCEPT !.loading = s] \in DockModes
  BY <1>1, <1>2 DEF DockModes
<1>3. ASSUME NEW n \in DockDelays PROVE [mode EXCEPT !.delay = n] \in DockModes
  BY <1>1, <1>3 DEF DockModes
<1>4. ASSUME NEW q \in DockQualities PROVE [mode EXCEPT !.quality = q] \in DockModes
  BY <1>1, <1>4 DEF DockModes
<1> QED
  BY <1>2, <1>3, <1>4, FieldStep, Zenon
     DEF TheDock!ChooseLive, TheDock!ChooseLoading, TheDock!ChooseSeconds, TheDock!ChooseQuality

LEMMA PopupStep ==
    ASSUME DockInvariant, TheDock!OpenLivePopup \/ TheDock!OpenLoadingPopup
    PROVE  DockInvariant'
<1>1. /\ dock \in DockViews /\ mode \in DockModes /\ desk \in DockDesks /\ Spoken(dock)
      /\ Refreshed(dock, mode, desk) /\ Counting(dock, mode) /\ InRow(dock, desk)
  BY DEF DockInvariant
<1>2. /\ dock' \in {TheDock!RefreshLiveCombo(dock, mode, desk), TheDock!RefreshLoadingCombo(dock, mode, desk)}
      /\ mode' = mode /\ desk' = desk
  BY Zenon DEF TheDock!OpenLivePopup, TheDock!OpenLoadingPopup
<1>3. PICK e \in {TheDock!RefreshLiveCombo(dock, mode, desk), TheDock!RefreshLoadingCombo(dock, mode, desk)} :
          e = dock'
  BY <1>2
<1>4. e \in DockViews /\ Spoken(e) /\ SameTimer(dock, e) /\ SameRow(dock, e) /\ Refreshed(e, mode, desk)
  BY <1>1, <1>3, PopupFacts
<1>5. Counting(e, mode) /\ InRow(e, desk)
  BY <1>1, <1>4, TimerKept, RowKept
<1> QED
  BY <1>1, <1>2, <1>3, <1>4, <1>5, Zenon DEF DockInvariant

LEMMA SecondStep == ASSUME DockInvariant, TheDock!SecondPasses PROVE DockInvariant'
<1>1. /\ dock \in DockViews /\ mode \in DockModes /\ desk \in DockDesks /\ Spoken(dock)
      /\ Refreshed(dock, mode, desk) /\ Counting(dock, mode) /\ InRow(dock, desk)
  BY DEF DockInvariant
<1>2. dock.left > 0 /\ dock.left \in Nat /\ dock.total \in Nat /\ mode' = mode /\ desk' = desk
  BY <1>1 DEF TheDock!SecondPasses, DockViews
<1>3. PICK n \in Nat : n = dock.left - 1
  BY <1>2
<1>4. PICK e : e = [dock EXCEPT !.left = n]
  OBVIOUS
<1>5. dock' = e
  BY <1>3, <1>4, Zenon DEF TheDock!SecondPasses
<1>6. e \in DockViews
  BY <1>1, <1>4 DEF DockViews
<1>7. /\ e.headline = dock.headline /\ e.announced = dock.announced /\ e.locked = dock.locked
      /\ e.enableOn = dock.enableOn /\ e.disableOn = dock.disableOn /\ e.missing = dock.missing
      /\ e.healthTimer = dock.healthTimer /\ e.seconds = dock.seconds /\ e.live = dock.live
      /\ e.fit = dock.fit /\ e.notice = dock.notice /\ e.heard = dock.heard /\ e.fitRow = dock.fitRow
      /\ SameRow(dock, e)
  BY <1>1, <1>4 DEF DockViews, SameRow
<1>8. e.armed = dock.armed /\ e.window = dock.window /\ e.total = dock.total /\ e.left = n
  BY <1>1, <1>4 DEF DockViews
<1>9. Spoken(e) /\ Refreshed(e, mode, desk)
  BY <1>1, <1>7, Zenon DEF Spoken, Refreshed
<1>10. n \in 0..dock.total
  BY <1>1, <1>2, <1>3 DEF Counting
<1>11. Counting(e, mode)
  BY <1>1, <1>8, <1>10, Zenon DEF Counting
<1>12. InRow(e, desk)
  BY <1>1, <1>7, RowKept
<1> QED
  BY <1>1, <1>2, <1>5, <1>6, <1>9, <1>11, <1>12, Zenon DEF DockInvariant

LEMMA ElapsedStep == ASSUME DockInvariant, TheDock!OnFillTimerElapsed PROVE DockInvariant'
<1>1. mode \in DockModes /\ desk \in DockDesks
  BY DEF DockInvariant
<1>2. PICK r \in Nat : r = TheDock!RoomFor(mode, desk)
  BY <1>1, RoomIsNat
<1>3. [mode EXCEPT !.state = "Active", !.effective = r] \in DockModes
  BY <1>1 DEF DockModes, DockStates
<1>4. [mode EXCEPT !.state = "Active", !.effective = r].state # "Filling"
  BY <1>1 DEF DockModes
<1>5. CASE mode.state = "Filling"
  BY <1>2, <1>3, <1>4, <1>5, TellsStep, Zenon DEF TheDock!OnFillTimerElapsed
<1>6. CASE mode.state # "Filling"
  BY <1>1, <1>6, TellsStep, Zenon DEF TheDock!OnFillTimerElapsed
<1> QED
  BY <1>5, <1>6

LEMMA HealthStep == ASSUME DockInvariant, TheDock!HealthTick PROVE DockInvariant'
<1>1. /\ dock \in DockViews /\ mode \in DockModes /\ desk \in DockDesks /\ Spoken(dock)
      /\ Refreshed(dock, mode, desk) /\ Counting(dock, mode) /\ InRow(dock, desk)
  BY DEF DockInvariant
<1>2. PICK e : e = TheDock!RefreshPipelineHealth(dock, mode, desk)
  OBVIOUS
<1>3. /\ e \in DockViews /\ Spoken(e) /\ SameTimer(dock, e) /\ SameRow(dock, e)
      /\ e.notice # "none" => TheDock!Busy(mode) /\ ~e.fitRow
      /\ e.headline = dock.headline /\ e.announced = dock.announced /\ e.locked = dock.locked
      /\ e.enableOn = dock.enableOn /\ e.disableOn = dock.disableOn /\ e.missing = dock.missing
      /\ e.healthTimer = dock.healthTimer /\ e.seconds = dock.seconds /\ e.live = dock.live
      /\ e.fit = dock.fit
  BY <1>1, <1>2, HealthFacts, Zenon
<1>4. Refreshed(e, mode, desk)
  BY <1>1, <1>3, Zenon DEF Refreshed
<1>5. Counting(e, mode) /\ InRow(e, desk)
  BY <1>1, <1>3, TimerKept, RowKept
<1> QED
  BY <1>1, <1>2, <1>3, <1>4, <1>5, Zenon DEF DockInvariant, TheDock!HealthTick

LEMMA RestartedStep == ASSUME DockInvariant, TheDock!OnBufferRestarted PROVE DockInvariant'
<1>1. mode \in DockModes /\ desk \in DockDesks /\ mode.generation < MaxWindows
  BY DEF DockInvariant, TheDock!OnBufferRestarted
<1>2. PICK m \in DockModes : m = TheDock!Filling(mode, desk) /\ m.generation = mode.generation + 1
  BY <1>1, FillingMode
<1>3. mode.generation \in Nat
  BY <1>1, ModeNumbers
<1>4. m.generation # mode.generation
  BY <1>2, <1>3
<1> QED
  BY <1>2, <1>4, TellsStep, Zenon DEF TheDock!OnBufferRestarted

\* The desk changes without a call: nothing the dock shows depends on it but the account.
LEMMA QuietStep ==
    ASSUME DockInvariant, UNCHANGED <<dock, mode>>, desk' \in DockDesks,
           desk'.account = desk.account, desk'.link = desk.link, desk'.retry = desk.retry
    PROVE  DockInvariant'
<1>1. Refreshed(dock, mode, desk')
  BY Zenon DEF DockInvariant, Refreshed, TheDock!CanEnable
<1>2. InRow(dock, desk')
  BY Zenon DEF DockInvariant, InRow, TheDock!AccountRow, TheDock!LoggedIn
<1> QED
  BY <1>1, <1>2, Zenon DEF DockInvariant

LEMMA DeskStep ==
    ASSUME DockInvariant,
           \/ \E S \in SUBSET DockScenes : TheDock!ScenesChange(S)
           \/ \E l \in Loads \cup {"none"} : TheDock!LoadChanges(l)
           \/ \E r \in Rooms : TheDock!VideoReset(r)
    PROVE  DockInvariant'
<1>1. desk \in DockDesks
  BY DEF DockInvariant
<1>2. CASE \E S \in SUBSET DockScenes : TheDock!ScenesChange(S)
  <2>1. PICK S \in SUBSET DockScenes : desk' = [desk EXCEPT !.scenes = S] /\ UNCHANGED <<dock, mode>>
    BY <1>2, Zenon DEF TheDock!ScenesChange
  <2>2. desk' \in DockDesks
    BY <1>1, <2>1 DEF DockDesks
  <2>3. desk'.account = desk.account /\ desk'.link = desk.link /\ desk'.retry = desk.retry
    BY <1>1, <2>1 DEF DockDesks
  <2> QED
    BY <2>1, <2>2, <2>3, QuietStep, Zenon
<1>3. CASE \E l \in Loads \cup {"none"} : TheDock!LoadChanges(l)
  <2>1. PICK l \in Loads \cup {"none"} : desk' = [desk EXCEPT !.load = l] /\ UNCHANGED <<dock, mode>>
    BY <1>3, Zenon DEF TheDock!LoadChanges
  <2>2. desk' \in DockDesks
    BY <1>1, <2>1 DEF DockDesks
  <2>3. desk'.account = desk.account /\ desk'.link = desk.link /\ desk'.retry = desk.retry
    BY <1>1, <2>1 DEF DockDesks
  <2> QED
    BY <2>1, <2>2, <2>3, QuietStep, Zenon
<1>4. CASE \E r \in Rooms : TheDock!VideoReset(r)
  <2>1. PICK r \in Rooms : desk' = [desk EXCEPT !.room = r] /\ UNCHANGED <<dock, mode>>
    BY <1>4, Zenon DEF TheDock!VideoReset
  <2>2. desk' \in DockDesks
    BY <1>1, <2>1 DEF DockDesks
  <2>3. desk'.account = desk.account /\ desk'.link = desk.link /\ desk'.retry = desk.retry
    BY <1>1, <2>1 DEF DockDesks
  <2> QED
    BY <2>1, <2>2, <2>3, QuietStep, Zenon
<1> QED
  BY <1>2, <1>3, <1>4

\* A running delay stops, and tells the dock so, before the new collection's scenes are listed.
LEMMA CollectionStep ==
    ASSUME DockInvariant, NEW S \in SUBSET DockScenes, TheDock!CollectionLoaded(S)
    PROVE  DockInvariant'
<1>1. /\ dock \in DockViews /\ mode \in DockModes /\ desk \in DockDesks /\ Spoken(dock)
      /\ Refreshed(dock, mode, desk) /\ Counting(dock, mode) /\ InRow(dock, desk)
  BY DEF DockInvariant
<1>2. PICK k : k = [desk EXCEPT !.scenes = S, !.loaded = TRUE]
  OBVIOUS
<1>3. k \in DockDesks
  BY <1>1, <1>2 DEF DockDesks
<1>4. k.account = desk.account /\ k.link = desk.link /\ k.retry = desk.retry
  BY <1>1, <1>2 DEF DockDesks
<1>5. InRow(dock, k)
  BY <1>1, <1>4, Zenon DEF InRow, TheDock!AccountRow, TheDock!LoggedIn
<1>6. PICK m : m = IF TheDock!Busy(mode) THEN TheDock!Stopped(mode) ELSE mode
  OBVIOUS
<1>7. PICK d : d = IF TheDock!Busy(mode) THEN TheDock!OnStatusChanged(dock, m, k) ELSE dock
  OBVIOUS
<1>8. m \in DockModes
  BY <1>1, <1>6, StoppedMode
<1>9. d \in DockViews /\ Spoken(d) /\ Counting(d, m) /\ InRow(d, k)
  <2>1. CASE TheDock!Busy(mode)
    <3>1. m.state # "Filling"
      BY <1>1, <1>6, <2>1, StoppedMode
    <3>2. dock.left \in 0..dock.total
      BY <1>1 DEF Counting
    <3>3. d \in DockViews /\ Spoken(d) /\ Counting(d, m) /\ SameRow(dock, d)
      BY <1>1, <1>3, <1>7, <1>8, <2>1, <3>1, <3>2, ChangedFacts, Zenon
    <3> QED
      BY <1>5, <3>3, RowKept
  <2>2. CASE ~TheDock!Busy(mode)
    BY <1>1, <1>5, <1>6, <1>7, <2>2
  <2> QED
    BY <2>1, <2>2
<1>10. PICK e : e = TheDock!RefreshAvailableScenes(d, m, k)
  OBVIOUS
<1>11. e \in DockViews /\ Spoken(e) /\ Refreshed(e, m, k) /\ SameTimer(d, e) /\ SameRow(d, e)
  BY <1>3, <1>8, <1>9, <1>10, AvailableFacts, Zenon
<1>12. Counting(e, m) /\ InRow(e, k)
  BY <1>9, <1>11, TimerKept, RowKept
<1>13. desk' = k /\ mode' = m /\ dock' = e
  BY <1>2, <1>6, <1>7, <1>10, Zenon DEF TheDock!CollectionLoaded
<1> QED
  BY <1>3, <1>8, <1>11, <1>12, <1>13, Zenon DEF DockInvariant

\* Every change of the account refreshes the dock.
LEMMA AccountStep ==
    ASSUME DockInvariant, NEW d \in DockViews, NEW k \in DockDesks, Spoken(d), SameTimer(dock, d),
           desk' = k, mode' = mode, dock' = TheDock!RefreshAccountUi(d, mode, k)
    PROVE  DockInvariant'
<1>1. mode \in DockModes /\ Counting(dock, mode)
  BY DEF DockInvariant
<1>2. PICK e : e = TheDock!RefreshAccountUi(d, mode, k)
  OBVIOUS
<1>3. e \in DockViews /\ Spoken(e) /\ Refreshed(e, mode, k) /\ SameTimer(d, e) /\ InRow(e, k)
  BY <1>1, <1>2, AccountFacts, Zenon
<1>4. Counting(e, mode)
  BY <1>1, <1>3, TimerKept
<1> QED
  BY <1>1, <1>2, <1>3, <1>4, Zenon DEF DockInvariant

LEMMA BecomesStep ==
    ASSUME DockInvariant, NEW k \in DockDesks, TheDock!AccountBecomes(k)
    PROVE  DockInvariant'
<1>1. dock \in DockViews /\ Spoken(dock) /\ SameTimer(dock, dock)
  BY DEF DockInvariant, SameTimer
<1> QED
  BY <1>1, AccountStep, Zenon DEF TheDock!AccountBecomes

LEMMA AccountActions ==
    ASSUME DockInvariant,
           \/ TheDock!PressSignIn \/ TheDock!LinkArrives \/ TheDock!PressAccount \/ TheDock!PressCopyLink
           \/ TheDock!Retheme
           \/ \E o \in {"in", "out"}, r \in BOOLEAN : TheDock!SignInEnds(o, r)
           \/ \E o \in {"in", "inactive", "out"} : TheDock!SessionChecked(o)
    PROVE  DockInvariant'
<1>1. dock \in DockViews /\ desk \in DockDesks /\ Spoken(dock) /\ SameTimer(dock, dock)
  BY DEF DockInvariant, SameTimer
<1>2. ASSUME NEW b \in BOOLEAN
      PROVE  LET d == [dock EXCEPT !.linkCopied = b]
             IN  d \in DockViews /\ Spoken(d) /\ SameTimer(dock, d)
  <2>1. PICK d : d = [dock EXCEPT !.linkCopied = b]
    OBVIOUS
  <2>2. d \in DockViews
    BY <1>1, <2>1 DEF DockViews
  <2>3. SameTimer(dock, d) /\ d.notice = dock.notice /\ d.heard = dock.heard
    BY <1>1, <2>1 DEF DockViews, SameTimer
  <2>4. Spoken(d)
    BY <1>1, <2>3 DEF Spoken
  <2> QED
    BY <2>1, <2>2, <2>3, <2>4
<1>3. CASE TheDock!PressSignIn
  <2>1. [desk EXCEPT !.account = "waiting", !.link = FALSE, !.retry = FALSE] \in DockDesks
    BY <1>1 DEF DockDesks
  <2> QED
    BY <1>2, <1>3, <2>1, AccountStep, Zenon DEF TheDock!PressSignIn
<1>4. CASE TheDock!LinkArrives
  <2>1. [desk EXCEPT !.link = TRUE] \in DockDesks
    BY <1>1 DEF DockDesks
  <2> QED
    BY <1>4, <2>1, BecomesStep, Zenon DEF TheDock!LinkArrives
<1>5. CASE TheDock!PressAccount
  <2>1. [desk EXCEPT !.account = "out", !.link = FALSE, !.retry = FALSE] \in DockDesks
    BY <1>1 DEF DockDesks
  <2> QED
    BY <1>5, <2>1, BecomesStep, Zenon DEF TheDock!PressAccount
<1>6. CASE TheDock!PressCopyLink
  BY <1>1, <1>2, <1>6, AccountStep, Zenon DEF TheDock!PressCopyLink
<1>7. CASE TheDock!Retheme
  BY <1>1, <1>7, AccountStep, Zenon DEF TheDock!Retheme
<1>8. ASSUME NEW o \in {"in", "out"}, NEW r \in BOOLEAN, TheDock!SignInEnds(o, r) PROVE DockInvariant'
  <2>1. PICK f \in BOOLEAN : f = (r /\ o = "out")
    OBVIOUS
  <2>2. [desk EXCEPT !.account = o, !.link = FALSE, !.retry = f] \in DockDesks
    BY <1>1 DEF DockDesks
  <2>3. TheDock!AccountBecomes([desk EXCEPT !.account = o, !.link = FALSE, !.retry = f])
    BY <1>8, <2>1, Zenon DEF TheDock!SignInEnds
  <2> QED
    BY <2>2, <2>3, BecomesStep, Zenon
<1>9. ASSUME NEW o \in {"in", "inactive", "out"}, TheDock!SessionChecked(o) PROVE DockInvariant'
  <2>1. [desk EXCEPT !.account = o] \in DockDesks
    BY <1>1 DEF DockDesks
  <2> QED
    BY <1>9, <2>1, BecomesStep, Zenon DEF TheDock!SessionChecked
<1> QED
  BY <1>3, <1>4, <1>5, <1>6, <1>7, <1>8, <1>9, Zenon

LEMMA DockStep ==
    ASSUME DockInvariant, [TheDock!DockNext]_dockVars
    PROVE  DockInvariant'
<1>1. CASE UNCHANGED dockVars
  BY <1>1, Zenon DEF dockVars, DockInvariant
<1>2. CASE TheDock!DockNext
  BY <1>2, EnableStep, DisableStep, ChooseStep, PopupStep, SecondStep, ElapsedStep, HealthStep, RestartedStep,
     DeskStep, CollectionStep, AccountActions, Zenon
     DEF TheDock!DockNext, TheDock!PressEnable, TheDock!HotkeyEnable, TheDock!PressDisable,
         TheDock!HotkeyDisable, DockNames
<1> QED
  BY <1>1, <1>2

LEMMA DockIsEnough == DockInvariant => TheDock!DockIsTrue
<1> SUFFICES ASSUME DockInvariant PROVE TheDock!DockIsTrue
  OBVIOUS
<1>1. mode \in DockModes /\ desk \in DockDesks
  BY DEF DockInvariant
<1>2. TheDock!DockTypeOK
  <2>1. mode.state \in DockStates /\ mode.generation \in 0..MaxWindows
    BY <1>1 DEF DockModes
  <2>2. desk.account \in {"in", "inactive", "waiting", "out"}
    BY <1>1 DEF DockDesks
  <2>3. dock.left \in 0..dock.total
    BY DEF DockInvariant, Counting
  <2> QED
    BY <2>1, <2>2, <2>3 DEF TheDock!DockTypeOK, DockStates
<1> QED
  BY <1>2, Zenon DEF TheDock!DockIsTrue, DockInvariant, Refreshed, Counting, InRow, Spoken

-----------------------------------------------------------------------------
(* The scene collection.                                                   *)

SceneNames == LiveScenes \cup SceneTitles \cup {"gone"}
NotLive == ""
OnOff == {"absent", "off", "on"}
SceneBadges ==
    [there: BOOLEAN, marked: BOOLEAN, visible: BOOLEAN, top: BOOLEAN,
     at: {"nowhere", "corner", "user"}, placed: SUBSET (Corners \cup {0})]
Collections ==
    [loaded: BOOLEAN, titles: [LiveScenes -> SceneNames], wrapper: {"none", "current", "legacy"},
     shows: SUBSET LiveScenes, filters: [LiveScenes -> [Scenes!Tags -> OnOff]],
     mic: {"mic", "mic 2"}, ears: [Scenes!Ears -> OnOff], badges: [Scenes!BadgeTags -> SceneBadges],
     retired: BOOLEAN, squatter: BOOLEAN, stray: {"none", "image", "other"}, edits: Nat]
SceneHolds ==
    [state: {"Inactive", "Filling", "Active"}, live: SceneNames \cup {NotLive},
     video: (LiveScenes \X Scenes!Tags) \cup {Scenes!NoRef}, ears: SUBSET Scenes!Ears,
     overlay: BOOLEAN, corner: Corners \cup {0}, shown: BOOLEAN]

\* Two scenes never have one name; one scene at most is in the wrapper, and one badge at most, which the
\* plugin finds again by a name of its own or by the marker.
Sound(c) ==
    /\ c \in Collections
    /\ \A r, s \in LiveScenes : c.titles[r] = c.titles[s] => r = s \/ c.titles[r] = "gone"
    /\ \A r, s \in c.shows : r = s
    /\ \A t, u \in Scenes!BadgeTags : c.badges[t].there /\ c.badges[u].there => t = u
    /\ \A t \in Scenes!BadgeTags :
          c.badges[t].there => c.wrapper # "none" /\ (c.badges[t].marked \/ t \in {"current", "legacy"})

\* What is on in a collection that is loaded is what the bridge switched on and still holds.
VideoOn(c, ref) ==
    /\ \A s \in LiveScenes, t \in Scenes!Tags : c.filters[s][t] = "on" => ref = <<s, t>>
    /\ Scenes!Alive(c, ref) => c.filters[ref[1]][ref[2]] = "on"
EarsAreOn(c, mine) == \A e \in Scenes!Ears : c.ears[e] = "on" => e \in mine
BadgesShow(c, shown) ==
    \A t \in Scenes!BadgeTags : c.badges[t].there =>
        (c.badges[t].visible <=> shown) /\ (c.badges[t].visible => c.badges[t].top)
HasBadge(c) == \E t \in Scenes!BadgeTags : c.badges[t].there
\* What the last call said of the badge is still so.
Showing(c, h) ==
    /\ h.state = "Active" => BadgesShow(c, h.shown)
    /\ h.shown => h.overlay /\ h.state = "Active" /\ HasBadge(c)

NothingOn(c) ==
    /\ \A s \in LiveScenes, t \in Scenes!Tags : c.filters[s][t] # "on"
    /\ \A e \in Scenes!Ears : c.ears[e] # "on"

Joined(c, h) ==
    /\ Sound(c) /\ h \in SceneHolds
    /\ h.state = "Inactive" => h.video = Scenes!NoRef /\ h.ears = {}
    /\ ~c.loaded => h.state = "Inactive"
    /\ c.loaded => VideoOn(c, h.video) /\ EarsAreOn(c, h.ears)
    /\ \A s \in LiveScenes : h.video = <<s, "renamed">> => c.filters[s]["current"] = "absent"
    /\ Showing(c, h)
ScenesInvariant == Joined(coll, held)

\* The places of a collection: all that Sound is about but the types.
SamePlaces(c, d) ==
    d.loaded = c.loaded /\ d.titles = c.titles /\ d.wrapper = c.wrapper /\ d.shows = c.shows /\ d.badges = c.badges

LEMMA SoundKept ==
    ASSUME NEW c, Sound(c), NEW d \in Collections, SamePlaces(c, d)
    PROVE  Sound(d)
BY DEF Sound, SamePlaces

LEMMA CollectionFields ==
    ASSUME NEW c \in Collections
    PROVE  /\ c.loaded \in BOOLEAN /\ c.titles \in [LiveScenes -> SceneNames]
           /\ c.wrapper \in {"none", "current", "legacy"} /\ c.shows \subseteq LiveScenes
           /\ c.filters \in [LiveScenes -> [Scenes!Tags -> OnOff]] /\ c.mic \in {"mic", "mic 2"}
           /\ c.ears \in [Scenes!Ears -> OnOff] /\ c.badges \in [Scenes!BadgeTags -> SceneBadges]
           /\ c.stray \in {"none", "image", "other"} /\ c.edits \in Nat
           /\ c.retired \in BOOLEAN /\ c.squatter \in BOOLEAN
BY DEF Collections

LEMMA FiltersSet ==
    ASSUME NEW c \in Collections, NEW f \in [LiveScenes -> [Scenes!Tags -> OnOff]],
           NEW d, d = [c EXCEPT !.filters = f]
    PROVE  d \in Collections /\ SamePlaces(c, d) /\ d.filters = f /\ d.ears = c.ears /\ d.mic = c.mic
BY DEF Collections, SamePlaces

LEMMA EarsSet ==
    ASSUME NEW c \in Collections, NEW f \in [Scenes!Ears -> OnOff], NEW d, d = [c EXCEPT !.ears = f]
    PROVE  d \in Collections /\ SamePlaces(c, d) /\ d.ears = f /\ d.filters = c.filters /\ d.mic = c.mic
BY DEF Collections, SamePlaces

LEMMA SwitchedIs ==
    ASSUME NEW c \in Collections, NEW refs, NEW to \in OnOff, NEW d, d = Scenes!Switched(c, refs, to)
    PROVE  /\ d \in Collections /\ SamePlaces(c, d) /\ d.ears = c.ears /\ d.mic = c.mic
           /\ \A s \in LiveScenes, t \in Scenes!Tags :
                 d.filters[s][t] = IF <<s, t>> \in refs THEN to ELSE c.filters[s][t]
<1> DEFINE f == [s \in LiveScenes |->
                    [t \in Scenes!Tags |-> IF <<s, t>> \in refs THEN to ELSE c.filters[s][t]]]
<1>1. f \in [LiveScenes -> [Scenes!Tags -> OnOff]]
  <2>1. c.filters \in [LiveScenes -> [Scenes!Tags -> OnOff]]
    BY CollectionFields
  <2>2. \A s \in LiveScenes, t \in Scenes!Tags : c.filters[s][t] \in OnOff
    BY <2>1
  <2> QED
    BY <2>2, Zenon
<1>2. d = [c EXCEPT !.filters = f]
  BY Zenon DEF Scenes!Switched
<1>3. \A s \in LiveScenes, t \in Scenes!Tags : f[s][t] = IF <<s, t>> \in refs THEN to ELSE c.filters[s][t]
  BY Zenon
<1> HIDE DEF f
<1>4. d \in Collections /\ SamePlaces(c, d) /\ d.filters = f /\ d.ears = c.ears /\ d.mic = c.mic
  BY <1>1, <1>2, FiltersSet
<1> QED
  BY <1>3, <1>4, Zenon

LEMMA SwitchedEarsIs ==
    ASSUME NEW c \in Collections, NEW refs, NEW to \in OnOff, NEW d, d = Scenes!SwitchedEars(c, refs, to)
    PROVE  /\ d \in Collections /\ SamePlaces(c, d) /\ d.filters = c.filters /\ d.mic = c.mic
           /\ \A e \in Scenes!Ears : d.ears[e] = IF e \in refs THEN to ELSE c.ears[e]
<1> DEFINE f == [e \in Scenes!Ears |-> IF e \in refs THEN to ELSE c.ears[e]]
<1>1. f \in [Scenes!Ears -> OnOff]
  BY CollectionFields, Zenon
<1>2. d = [c EXCEPT !.ears = f]
  BY Zenon DEF Scenes!SwitchedEars
<1>3. \A e \in Scenes!Ears : f[e] = IF e \in refs THEN to ELSE c.ears[e]
  BY Zenon
<1> HIDE DEF f
<1>4. d \in Collections /\ SamePlaces(c, d) /\ d.ears = f /\ d.filters = c.filters /\ d.mic = c.mic
  BY <1>1, <1>2, EarsSet
<1> QED
  BY <1>3, <1>4, Zenon

\* A lookup by name finds one at most, of a name the plugin gives.
LEMMA OneNameFound ==
    ASSUME NEW used
    PROVE  /\ Scenes!LookupNames(used) \subseteq used \cap {"current", "legacy"}
           /\ \A t, u \in Scenes!LookupNames(used) : t = u
           /\ used \cap {"current", "legacy"} # {} => Scenes!LookupNames(used) # {}
BY Zenon DEF Scenes!LookupNames

LEMMA FoundOn ==
    ASSUME NEW c \in Collections, NEW s \in LiveScenes
    PROVE  /\ Scenes!FindBufferFilterOn(c, s) \subseteq {s} \X {"current", "legacy"}
           /\ \A v, w \in Scenes!FindBufferFilterOn(c, s) : v = w
<1> DEFINE used == {u \in Scenes!Tags : c.filters[s][u] # "absent"}
<1>1. Scenes!FindBufferFilterOn(c, s) = {<<s, t>> : t \in Scenes!LookupNames(used)}
  BY Zenon DEF Scenes!FindBufferFilterOn
<1> HIDE DEF used
<1> QED
  BY <1>1, OneNameFound

LEMMA FoundIn ==
    ASSUME NEW c, Sound(c), NEW title
    PROVE  /\ Scenes!FindBufferFilter(c, title) \subseteq LiveScenes \X {"current", "legacy"}
           /\ \A v, w \in Scenes!FindBufferFilter(c, title) : v = w
<1> DEFINE shown == {r \in c.shows : c.titles[r] = title}
<1>1. c \in Collections /\ shown \subseteq LiveScenes /\ \A r, s \in shown : r = s
  BY CollectionFields DEF Sound
<1> HIDE DEF shown
<1>2. \/ Scenes!FindBufferFilter(c, title) = {}
      \/ Scenes!FindBufferFilter(c, title) = UNION {Scenes!FindBufferFilterOn(c, s) : s \in shown}
  BY Zenon DEF Scenes!FindBufferFilter, shown
<1>3. ASSUME NEW v \in Scenes!FindBufferFilter(c, title)
      PROVE  \E s \in shown : v \in Scenes!FindBufferFilterOn(c, s)
  BY <1>2
<1>4. Scenes!FindBufferFilter(c, title) \subseteq LiveScenes \X {"current", "legacy"}
  <2> SUFFICES ASSUME NEW v \in Scenes!FindBufferFilter(c, title)
               PROVE  v \in LiveScenes \X {"current", "legacy"}
    OBVIOUS
  <2>1. PICK s \in shown : v \in Scenes!FindBufferFilterOn(c, s)
    BY <1>3
  <2>2. v \in {s} \X {"current", "legacy"}
    BY <1>1, <2>1, FoundOn
  <2> QED
    BY <1>1, <2>2
<1>5. ASSUME NEW v \in Scenes!FindBufferFilter(c, title), NEW w \in Scenes!FindBufferFilter(c, title)
      PROVE  v = w
  <2>1. PICK s \in shown : v \in Scenes!FindBufferFilterOn(c, s)
    BY <1>3
  <2>2. PICK r \in shown : w \in Scenes!FindBufferFilterOn(c, r)
    BY <1>3
  <2>3. s = r
    BY <1>1
  <2> QED
    BY <1>1, <2>1, <2>2, <2>3, FoundOn, Zenon
<1> QED
  BY <1>4, <1>5

LEMMA CoveredIs ==
    ASSUME NEW b \in [Scenes!BadgeTags -> SceneBadges], NEW f, f = Scenes!Covered(b)
    PROVE  /\ f \in [Scenes!BadgeTags -> SceneBadges]
           /\ \A t \in Scenes!BadgeTags : f[t].there = b[t].there /\ f[t].marked = b[t].marked
<1>1. ASSUME NEW t \in Scenes!BadgeTags
      PROVE  f[t] \in SceneBadges /\ f[t].there = b[t].there /\ f[t].marked = b[t].marked
  <2>1. PICK old \in SceneBadges : old = b[t]
    OBVIOUS
  <2>2. f[t] = [old EXCEPT !.top = FALSE]
    BY <2>1 DEF Scenes!Covered
  <2> QED
    BY <2>1, <2>2 DEF SceneBadges
<1>2. f = [t \in Scenes!BadgeTags |-> f[t]]
  BY Zenon DEF Scenes!Covered
<1> QED
  BY <1>1, <1>2

\* What the delay is switched on with: a filter on the live scene, and one on each audio source.
LEMMA WrapperEnsured ==
    ASSUME NEW c, Sound(c), NEW s \in LiveScenes, c.titles[s] # "gone",
           NEW d, d = Scenes!EnsureBufferWrapperScene(c, s)
    PROVE  /\ Sound(d) /\ d.loaded = c.loaded /\ d.titles = c.titles /\ d.ears = c.ears /\ d.mic = c.mic
           /\ \A r \in LiveScenes, t \in Scenes!Tags :
                 d.filters[r][t] = "on" => c.filters[r][t] = "on"
<1> DEFINE title == c.titles[s]
           staying == {r \in c.shows : c.titles[r] = title}
           off == Scenes!Switched(c, Scenes!StaleFilters(c, title), "off")
           wrapper == IF c.wrapper = "none" THEN "current" ELSE c.wrapper
           badges == IF staying = {} THEN Scenes!Covered(c.badges) ELSE c.badges
           made == [off EXCEPT !.wrapper = wrapper, !.shows = staying \cup {s}, !.badges = badges]
           filters == [made.filters EXCEPT ![s] = [made.filters[s] EXCEPT !["current"] = "off"]]
<1>1. c \in Collections
  BY DEF Sound
<1>2. /\ off \in Collections /\ SamePlaces(c, off) /\ off.ears = c.ears /\ off.mic = c.mic
      /\ \A r \in LiveScenes, t \in Scenes!Tags :
            off.filters[r][t] = IF <<r, t>> \in Scenes!StaleFilters(c, title) THEN "off" ELSE c.filters[r][t]
  BY <1>1, SwitchedIs DEF OnOff
<1>3. d = c \/ d = Scenes!WithFilter(made, s)
  <2>1. off.wrapper = c.wrapper /\ off.badges = c.badges
    BY <1>2 DEF SamePlaces
  <2>2. made = [off EXCEPT !.wrapper = IF @ = "none" THEN "current" ELSE @, !.shows = staying \cup {s},
                           !.badges = IF staying = {} THEN Scenes!Covered(c.badges) ELSE @]
    BY <1>2, <2>1 DEF Collections
  <2> QED
    BY <2>2, Zenon DEF Scenes!EnsureBufferWrapperScene
<1>4. Scenes!WithFilter(made, s) = made \/ Scenes!WithFilter(made, s) = [made EXCEPT !.filters = filters]
  BY Zenon DEF Scenes!WithFilter
<1>14. /\ badges \in [Scenes!BadgeTags -> SceneBadges]
       /\ \A t \in Scenes!BadgeTags :
             badges[t].there = c.badges[t].there /\ badges[t].marked = c.badges[t].marked
  <2>1. c.badges \in [Scenes!BadgeTags -> SceneBadges]
    BY <1>1, CollectionFields
  <2>2. PICK b : b = c.badges
    OBVIOUS
  <2>3. badges = b \/ badges = Scenes!Covered(b)
    BY <2>2
  <2> HIDE DEF badges
  <2>4. CASE badges = Scenes!Covered(b)
    BY <2>1, <2>2, <2>4, CoveredIs
  <2> QED
    BY <2>1, <2>2, <2>3, <2>4
<1>5. /\ made \in Collections /\ made.loaded = c.loaded /\ made.titles = c.titles /\ made.ears = c.ears
      /\ made.mic = c.mic /\ made.filters = off.filters /\ made.wrapper = wrapper
      /\ made.shows = staying \cup {s} /\ made.badges = badges
  <2>1. wrapper \in {"none", "current", "legacy"} /\ staying \cup {s} \subseteq LiveScenes
    BY <1>1, CollectionFields
  <2> HIDE DEF off, wrapper, staying, badges
  <2> QED
    BY <1>2, <1>14, <2>1 DEF Collections, SamePlaces
<1>6. \A r, q \in made.shows : r = q
  <2>1. \A r \in staying : r = s
    <3>1. c.shows \subseteq LiveScenes
      BY <1>1, CollectionFields
    <3>2. \A r, q \in LiveScenes : c.titles[r] = c.titles[q] => r = q \/ c.titles[r] = "gone"
      BY Zenon DEF Sound
    <3> QED
      BY <3>1, <3>2
  <2> HIDE DEF made, staying
  <2> QED
    BY <1>5, <2>1
<1>7. Sound(made)
  <2> HIDE DEF made, off, staying, title, badges
  <2>1. \A t \in Scenes!BadgeTags :
           made.badges[t].there => made.wrapper # "none" /\ (made.badges[t].marked \/ t \in {"current", "legacy"})
    BY <1>5, <1>14 DEF Sound
  <2>2. \A r, q \in LiveScenes : made.titles[r] = made.titles[q] => r = q \/ made.titles[r] = "gone"
    BY <1>5 DEF Sound
  <2>3. \A t, u \in Scenes!BadgeTags : made.badges[t].there /\ made.badges[u].there => t = u
    BY <1>5, <1>14 DEF Sound
  <2> QED
    BY <1>5, <1>6, <2>1, <2>2, <2>3, Zenon DEF Sound
<1>8. \A r \in LiveScenes, t \in Scenes!Tags : made.filters[r][t] = "on" => c.filters[r][t] = "on"
  <2> HIDE DEF made, off
  <2> QED
    BY <1>2, <1>5
<1>9. filters \in [LiveScenes -> [Scenes!Tags -> OnOff]]
  <2> HIDE DEF made
  <2>1. made.filters \in [LiveScenes -> [Scenes!Tags -> OnOff]]
    BY <1>5, CollectionFields
  <2> QED
    BY <2>1 DEF OnOff
<1>10. \A r \in LiveScenes, t \in Scenes!Tags : filters[r][t] = "on" => made.filters[r][t] = "on"
  <2> HIDE DEF made
  <2>1. made.filters \in [LiveScenes -> [Scenes!Tags -> OnOff]]
    BY <1>5, CollectionFields
  <2>2. PICK f, g : f = made.filters /\ g = f[s]
    OBVIOUS
  <2>3. filters = [f EXCEPT ![s] = [g EXCEPT !["current"] = "off"]]
    BY <2>2
  <2> QED
    BY <2>1, <2>2, <2>3 DEF Scenes!Tags
<1> HIDE DEF made, filters
<1>11. CASE d = c
  BY <1>11
<1>12. CASE d = made
  BY <1>5, <1>7, <1>8, <1>12
<1>13. CASE d = [made EXCEPT !.filters = filters]
  <2>1. /\ d \in Collections /\ SamePlaces(made, d) /\ d.filters = filters /\ d.ears = made.ears
        /\ d.mic = made.mic
    BY <1>5, <1>9, <1>13, FiltersSet
  <2>2. Sound(d)
    BY <1>7, <2>1, SoundKept
  <2> QED
    BY <1>5, <1>8, <1>10, <2>1, <2>2 DEF SamePlaces
<1> QED
  BY <1>3, <1>4, <1>11, <1>12, <1>13, Zenon

LEMMA EarsEnsured ==
    ASSUME NEW c, Sound(c), NEW s \in LiveScenes, NEW d, d = Scenes!EnsureAudioDelayFilters(c, s)
    PROVE  /\ Sound(d) /\ SamePlaces(c, d) /\ d.filters = c.filters
           /\ \A e \in Scenes!Ears : d.ears[e] = "on" => c.ears[e] = "on"
<1>1. c \in Collections
  BY DEF Sound
<1>2. CASE d = c
  BY <1>2 DEF SamePlaces
<1>3. CASE d = [c EXCEPT !.ears = [c.ears EXCEPT ![<<"current", c.mic>>] = "off"]]
  <2> DEFINE ears == [c.ears EXCEPT ![<<"current", c.mic>>] = "off"]
  <2>1. ears \in [Scenes!Ears -> OnOff] /\ \A e \in Scenes!Ears : ears[e] = "on" => c.ears[e] = "on"
    BY <1>1, CollectionFields DEF OnOff
  <2> HIDE DEF ears
  <2>2. d = [c EXCEPT !.ears = ears]
    BY <1>3 DEF ears
  <2>3. d \in Collections /\ SamePlaces(c, d) /\ d.ears = ears /\ d.filters = c.filters
    BY <1>1, <2>1, <2>2, EarsSet
  <2> QED
    BY <2>1, <2>3, SoundKept
<1> QED
  BY <1>2, <1>3, Zenon DEF Scenes!EnsureAudioDelayFilters

\* The badge the plugin finds is the one there is.
LEMMA BadgeFound ==
    ASSUME NEW c, Sound(c)
    PROVE  Scenes!FindOverlayBadgeItem(c) = {t \in Scenes!BadgeTags : c.badges[t].there}
<1> DEFINE there == {t \in Scenes!BadgeTags : c.badges[t].there}
           named == Scenes!LookupNames(there)
           marked == {t \in Scenes!BadgeTags : c.badges[t].there /\ c.badges[t].marked}
<1>1. Scenes!FindOverlayBadgeItem(c) = IF named # {} THEN named ELSE marked
  BY Zenon DEF Scenes!FindOverlayBadgeItem
<1>2. \A t, u \in there : t = u
  BY DEF Sound
<1>3. \A t \in there : t \in marked \/ t \in {"current", "legacy"}
  BY DEF Sound
<1>4. marked \subseteq there
  OBVIOUS
<1>5. named \subseteq there \cap {"current", "legacy"} /\ (there \cap {"current", "legacy"} # {} => named # {})
  BY OneNameFound, Zenon
<1> HIDE DEF there, named, marked
<1>6. CASE named # {}
  BY <1>1, <1>2, <1>5, <1>6 DEF there
<1>7. CASE named = {}
  BY <1>1, <1>3, <1>4, <1>5, <1>7 DEF there
<1> QED
  BY <1>6, <1>7

LEMMA BadgesSet ==
    ASSUME NEW c \in Collections, NEW b \in [Scenes!BadgeTags -> SceneBadges], NEW d,
           d = [c EXCEPT !.badges = b]
    PROVE  /\ d \in Collections /\ d.badges = b /\ d.loaded = c.loaded /\ d.titles = c.titles
           /\ d.wrapper = c.wrapper /\ d.shows = c.shows /\ d.filters = c.filters /\ d.ears = c.ears
           /\ d.mic = c.mic
BY DEF Collections

LEMMA BadgesSound ==
    ASSUME NEW c, Sound(c), NEW b \in [Scenes!BadgeTags -> SceneBadges], NEW d, d = [c EXCEPT !.badges = b],
           \A t, u \in Scenes!BadgeTags : b[t].there /\ b[u].there => t = u,
           \A t \in Scenes!BadgeTags :
              b[t].there => c.wrapper # "none" /\ (b[t].marked \/ t \in {"current", "legacy"})
    PROVE  Sound(d)
<1>1. c \in Collections
  BY DEF Sound
<1>2. /\ d \in Collections /\ d.badges = b /\ d.titles = c.titles /\ d.wrapper = c.wrapper
      /\ d.shows = c.shows
  BY <1>1, BadgesSet
<1> QED
  BY <1>2 DEF Sound

LEMMA Tidied ==
    ASSUME NEW c, Sound(c), NEW d, d = [c EXCEPT !.retired = FALSE]
    PROVE  /\ Sound(d) /\ SamePlaces(c, d) /\ d.filters = c.filters /\ d.ears = c.ears /\ d.mic = c.mic
           /\ d.stray = c.stray
<1>1. c \in Collections
  BY DEF Sound
<1>2. d \in Collections /\ SamePlaces(c, d)
  BY <1>1 DEF Collections, SamePlaces
<1>3. d.filters = c.filters /\ d.ears = c.ears /\ d.mic = c.mic /\ d.stray = c.stray
  BY <1>1 DEF Collections
<1> QED
  BY <1>2, <1>3, SoundKept

LEMMA PlacedIs ==
    ASSUME NEW b \in SceneBadges, NEW corner \in Corners \cup {0}, NEW p, p = Scenes!Placed(b, corner)
    PROVE  p \in SceneBadges /\ p.there /\ p.marked /\ p.visible /\ p.top
<1>1. PICK at \in {"nowhere", "corner", "user"} :
         at = IF Scenes!ShouldPlace(b, corner) THEN "corner" ELSE b.at
  BY DEF SceneBadges
<1>2. PICK corners \in SUBSET (Corners \cup {0}) : corners = {corner}
  OBVIOUS
<1>3. p = [b EXCEPT !.marked = TRUE, !.visible = TRUE, !.top = TRUE, !.there = TRUE, !.at = at,
                    !.placed = corners]
  BY <1>1, <1>2 DEF Scenes!Placed, SceneBadges
<1>4. p.there /\ p.marked /\ p.visible /\ p.top
  BY <1>3 DEF SceneBadges
<1>5. p \in SceneBadges
  BY <1>1, <1>2, <1>3 DEF SceneBadges
<1> QED
  BY <1>4, <1>5

\* Whatever became of drawing it: the badge is the one there was, or the first, and is visible and above
\* the scene exactly when the call says that it shows one.
LEMMA OverlaySet ==
    ASSUME NEW c, Sound(c), NEW visible \in BOOLEAN, NEW corner \in Corners \cup {0},
           NEW draw \in Scenes!Draws, NEW d, d = Scenes!SetDelayOverlay(c, visible, corner, draw),
           NEW shown \in BOOLEAN, shown = Scenes!Shows(c, visible, draw)
    PROVE  /\ Sound(d) /\ BadgesShow(d, shown) /\ (shown => visible /\ HasBadge(d))
           /\ d.loaded = c.loaded /\ d.filters = c.filters
           /\ d.ears = c.ears /\ d.mic = c.mic /\ d.titles = c.titles
<1> DEFINE clean == [c EXCEPT !.retired = FALSE]
           found == Scenes!FindOverlayBadgeItem(clean)
           badge == IF found # {} THEN CHOOSE t \in found : TRUE ELSE Scenes!NewBadge(clean)
           placed == Scenes!Placed(clean.badges[badge], corner)
           hidden == Scenes!Hidden(clean.badges, found)
<1>1. /\ Sound(clean) /\ SamePlaces(c, clean) /\ clean.filters = c.filters /\ clean.ears = c.ears
      /\ clean.mic = c.mic
  BY Tidied
<1>2. found = {t \in Scenes!BadgeTags : clean.badges[t].there}
  BY <1>1, BadgeFound, Zenon
<1>20. Scenes!FindOverlayBadgeItem(c) = found
  <2>1. Scenes!FindOverlayBadgeItem(c) = {t \in Scenes!BadgeTags : c.badges[t].there}
    BY BadgeFound, Zenon
  <2>2. clean.badges = c.badges
    BY <1>1 DEF SamePlaces
  <2> HIDE DEF clean, found
  <2> QED
    BY <1>2, <2>1, <2>2
<1>3. \/ c.wrapper = "none" /\ d = c
      \/ c.wrapper # "none" /\ (~visible \/ draw = "imageless") /\ d = [clean EXCEPT !.badges = hidden]
      \/ c.wrapper # "none" /\ found = {} /\ draw = "sourceless" /\ d = clean
      \/ /\ c.wrapper # "none" /\ visible /\ draw # "imageless" /\ (draw = "sourceless" => found # {})
         /\ d = [clean EXCEPT !.badges = [clean.badges EXCEPT ![badge] = placed]]
  BY Zenon DEF Scenes!SetDelayOverlay, Scenes!RemoveRetiredOverlayItems
<1>30. shown <=> visible /\ c.wrapper # "none" /\ draw # "imageless" /\ (draw = "sourceless" => found # {})
  <2>1. shown = (visible /\ c.wrapper # "none" /\ draw # "imageless" /\ (draw = "sourceless" => found # {}))
    BY <1>20, Zenon DEF Scenes!Shows
  <2> HIDE DEF found
  <2> QED
    BY <2>1
<1>4. clean \in Collections /\ clean.badges \in [Scenes!BadgeTags -> SceneBadges]
  BY <1>1, CollectionFields DEF Sound
<1>5. badge \in Scenes!BadgeTags /\ (found # {} => badge \in found)
  <2> HIDE DEF found
  <2>1. CASE found # {}
    BY <1>2, <2>1
  <2>2. CASE found = {}
    BY <2>2 DEF Scenes!NewBadge, Scenes!BadgeTags
  <2> QED
    BY <2>1, <2>2
<1> HIDE DEF clean, found, badge, hidden, placed
<1>6. CASE c.wrapper = "none" /\ d = c
  BY <1>6, <1>30 DEF Sound, BadgesShow
<1>7. CASE /\ c.wrapper # "none" /\ visible /\ draw # "imageless" /\ (draw = "sourceless" => found # {})
           /\ d = [clean EXCEPT !.badges = [clean.badges EXCEPT ![badge] = placed]]
  <2>0. PICK old \in SceneBadges : old = clean.badges[badge]
    BY <1>4, <1>5
  <2>1. placed \in SceneBadges /\ placed.there /\ placed.marked /\ placed.visible /\ placed.top
    BY <2>0, PlacedIs DEF placed
  <2>2. PICK b : b = [clean.badges EXCEPT ![badge] = placed]
    OBVIOUS
  <2>3. /\ b \in [Scenes!BadgeTags -> SceneBadges] /\ b[badge] = placed
        /\ \A t \in Scenes!BadgeTags : t # badge => b[t] = clean.badges[t]
    BY <1>4, <1>5, <2>1, <2>2
  <2>4. \A t \in Scenes!BadgeTags : b[t].there => t = badge
    <3>1. \A t, u \in found : t = u
      BY <1>1, <1>2 DEF Sound
    <3>2. ASSUME NEW t \in Scenes!BadgeTags, b[t].there, t # badge PROVE FALSE
      <4>1. t \in found
        BY <1>2, <2>3, <3>2
      <4> QED
        BY <1>5, <3>1, <3>2, <4>1
    <3> QED
      BY <3>2
  <2>5. d = [clean EXCEPT !.badges = b]
    BY <1>7, <2>2
  <2>6. clean.wrapper # "none"
    BY <1>1, <1>7 DEF SamePlaces
  <2>7. Sound(d)
    <3>1. \A t \in Scenes!BadgeTags : b[t].there => clean.wrapper # "none" /\ b[t].marked
      BY <2>1, <2>3, <2>4, <2>6
    <3> QED
      BY <1>1, <2>3, <2>4, <2>5, <3>1, BadgesSound
  <2>8. /\ d.badges = b /\ d.loaded = clean.loaded /\ d.titles = clean.titles /\ d.filters = clean.filters
        /\ d.ears = clean.ears /\ d.mic = clean.mic
    BY <1>4, <2>3, <2>5, BadgesSet
  <2>9. shown /\ visible
    BY <1>7, <1>30
  <2>10. BadgesShow(d, shown) /\ HasBadge(d)
    BY <1>5, <2>1, <2>3, <2>4, <2>8, <2>9 DEF BadgesShow, HasBadge
  <2> QED
    BY <1>1, <2>7, <2>8, <2>9, <2>10 DEF SamePlaces
<1>8. CASE c.wrapper # "none" /\ (~visible \/ draw = "imageless") /\ d = [clean EXCEPT !.badges = hidden]
  <2>1. ASSUME NEW t \in Scenes!BadgeTags
        PROVE  /\ hidden[t] \in SceneBadges /\ hidden[t].there = clean.badges[t].there
               /\ hidden[t].marked = clean.badges[t].marked /\ (hidden[t].there => ~hidden[t].visible)
    <3>1. PICK b \in SceneBadges : b = clean.badges[t]
      BY <1>4, <2>1
    <3>2. hidden[t] = IF b.there THEN [b EXCEPT !.visible = FALSE] ELSE b
      BY <1>2, <2>1, <3>1 DEF hidden, Scenes!Hidden
    <3> QED
      BY <3>1, <3>2 DEF SceneBadges
  <2>2. hidden \in [Scenes!BadgeTags -> SceneBadges]
    <3>1. hidden = [t \in Scenes!BadgeTags |-> hidden[t]]
      BY Zenon DEF hidden, Scenes!Hidden
    <3> QED
      BY <2>1, <3>1
  <2>3. Sound(d)
    <3>1. \A t, u \in Scenes!BadgeTags : hidden[t].there /\ hidden[u].there => t = u
      BY <1>1, <2>1 DEF Sound
    <3>2. \A t \in Scenes!BadgeTags :
             hidden[t].there => clean.wrapper # "none" /\ (hidden[t].marked \/ t \in {"current", "legacy"})
      BY <1>1, <2>1 DEF Sound
    <3> QED
      BY <1>1, <1>8, <2>2, <3>1, <3>2, BadgesSound
  <2>4. /\ d.badges = hidden /\ d.loaded = clean.loaded /\ d.titles = clean.titles
        /\ d.filters = clean.filters /\ d.ears = clean.ears /\ d.mic = clean.mic
    BY <1>4, <1>8, <2>2, BadgesSet
  <2>5. ~shown
    BY <1>8, <1>30
  <2>6. BadgesShow(d, shown)
    BY <2>1, <2>4, <2>5 DEF BadgesShow
  <2> QED
    BY <1>1, <2>3, <2>4, <2>5, <2>6 DEF SamePlaces
<1>9. CASE c.wrapper # "none" /\ found = {} /\ draw = "sourceless" /\ d = clean
  <2>1. ~shown
    BY <1>9, <1>30
  <2>2. BadgesShow(d, shown)
    BY <1>2, <1>9 DEF BadgesShow
  <2> QED
    BY <1>1, <1>9, <2>1, <2>2 DEF SamePlaces
<1> QED
  BY <1>3, <1>6, <1>7, <1>8, <1>9

\* An older collection's objects take the current names where they are free.
LEMMA MovedIs ==
    ASSUME NEW f \in [Scenes!Tags -> OnOff], NEW free
    PROVE  (IF f["legacy"] # "absent" /\ free
            THEN [f EXCEPT !["current"] = f["legacy"], !["legacy"] = "absent"] ELSE f)
           \in [Scenes!Tags -> OnOff]
<1>1. PICK old \in OnOff : old = f["legacy"]
  BY DEF Scenes!Tags
<1>2. [f EXCEPT !["current"] = old, !["legacy"] = "absent"] \in [Scenes!Tags -> OnOff]
  BY DEF OnOff
<1> QED
  BY <1>1, <1>2

LEMMA MigratedIs ==
    ASSUME NEW c, Sound(c), NEW d, d = Scenes!MigrateLegacyAutoNames(c)
    PROVE  Sound(d) /\ d.loaded = c.loaded
<1> DEFINE clean == IF c.wrapper = "none" THEN c ELSE Scenes!RemoveRetiredOverlayItems(c)
           moves == "legacy" \in Scenes!FindOverlayBadgeItem(clean) /\ c.stray = "none"
           wrapper == IF clean.wrapper = "legacy" /\ ~c.squatter THEN "current" ELSE clean.wrapper
           filters == [s \in LiveScenes |->
              IF c.filters[s]["legacy"] # "absent" /\ c.filters[s]["current"] = "absent"
              THEN [c.filters[s] EXCEPT !["current"] = c.filters[s]["legacy"], !["legacy"] = "absent"]
              ELSE c.filters[s]]
           ears == [e \in Scenes!Ears |->
                LET old == <<"legacy", e[2]>>  new == <<"current", e[2]>>
                    moved == c.ears[old] # "absent" /\ c.ears[new] = "absent"
                IN  CASE moved /\ e = new -> c.ears[old]
                      [] moved /\ e = old -> "absent"
                      [] OTHER -> c.ears[e]]
           badges == IF moves THEN [clean.badges EXCEPT !["current"] = clean.badges["legacy"],
                                                        !["legacy"] = Scenes!NoBadge]
                     ELSE clean.badges
<1>1. Sound(clean) /\ SamePlaces(c, clean)
  <2>1. CASE c.wrapper = "none"
    BY <2>1 DEF SamePlaces
  <2>2. CASE c.wrapper # "none"
    BY <2>2, Tidied DEF Scenes!RemoveRetiredOverlayItems
  <2> QED
    BY <2>1, <2>2
<1>2. c \in Collections /\ clean \in Collections
  BY <1>1 DEF Sound
<1>3. d = [clean EXCEPT !.wrapper = wrapper, !.filters = filters, !.ears = ears, !.badges = badges]
  BY Zenon DEF Scenes!MigrateLegacyAutoNames
<1>4. wrapper \in {"none", "current", "legacy"} /\ (clean.wrapper # "none" => wrapper # "none")
  <2> HIDE DEF clean
  <2> QED
    BY <1>2, CollectionFields
<1>5. filters \in [LiveScenes -> [Scenes!Tags -> OnOff]]
  <2>1. ASSUME NEW s \in LiveScenes PROVE filters[s] \in [Scenes!Tags -> OnOff]
    <3>1. PICK f \in [Scenes!Tags -> OnOff] : f = c.filters[s]
      BY <1>2, <2>1, CollectionFields
    <3> QED
      BY <2>1, <3>1, MovedIs
  <2> QED
    BY <2>1
<1>6. ears \in [Scenes!Ears -> OnOff]
  <2>1. PICK f \in [Scenes!Ears -> OnOff] : f = c.ears
    BY <1>2, CollectionFields
  <2>2. ASSUME NEW e \in Scenes!Ears PROVE ears[e] \in OnOff
    <3>1. f[<<"legacy", e[2]>>] \in OnOff /\ f[e] \in OnOff /\ "absent" \in OnOff
      BY <2>1, <2>2 DEF Scenes!Ears, OnOff
    <3> QED
      BY <2>1, <2>2, <3>1, Zenon
  <2> QED
    BY <2>2
<1> HIDE DEF clean, wrapper, filters, ears
<1>7. clean.badges \in [Scenes!BadgeTags -> SceneBadges] /\ Scenes!NoBadge \in SceneBadges /\ ~Scenes!NoBadge.there
  BY <1>2, CollectionFields DEF SceneBadges, Scenes!NoBadge
<1>8. /\ badges \in [Scenes!BadgeTags -> SceneBadges]
      /\ \A t, u \in Scenes!BadgeTags : badges[t].there /\ badges[u].there => t = u
      /\ \A t \in Scenes!BadgeTags :
            badges[t].there => wrapper # "none" /\ (badges[t].marked \/ t \in {"current", "legacy"})
  <2>1. CASE ~moves
    <3>1. badges = clean.badges
      BY <2>1
    <3> HIDE DEF badges
    <3> QED
      BY <1>1, <1>4, <1>7, <3>1 DEF Sound
  <2>2. CASE moves
    <3>1. "legacy" \in Scenes!BadgeTags /\ "current" \in Scenes!BadgeTags
      BY DEF Scenes!BadgeTags
    <3>2. "legacy" \in {t \in Scenes!BadgeTags : clean.badges[t].there}
      BY <1>1, <2>2, BadgeFound, Zenon
    <3>3. PICK old, none : old = clean.badges["legacy"] /\ none = Scenes!NoBadge
      OBVIOUS
    <3>4. old \in SceneBadges /\ old.there /\ none \in SceneBadges /\ ~none.there
      BY <1>7, <3>1, <3>2, <3>3
    <3>5. badges = [clean.badges EXCEPT !["current"] = old, !["legacy"] = none]
      BY <2>2, <3>3
    <3> HIDE DEF badges, moves
    <3>6. /\ badges \in [Scenes!BadgeTags -> SceneBadges] /\ badges["current"] = old /\ badges["legacy"] = none
          /\ \A t \in Scenes!BadgeTags : t \notin {"current", "legacy"} => badges[t] = clean.badges[t]
      BY <1>7, <3>1, <3>4, <3>5
    <3>7. clean.wrapper # "none" /\ \A t \in Scenes!BadgeTags : clean.badges[t].there => t = "legacy"
      BY <1>1, <3>1, <3>2 DEF Sound
    <3>8. \A t \in Scenes!BadgeTags : badges[t].there => t = "current"
      <4>1. ASSUME NEW t \in Scenes!BadgeTags, badges[t].there, t # "current" PROVE FALSE
        <5>1. t # "legacy"
          BY <3>4, <3>6, <4>1
        <5> QED
          BY <3>6, <3>7, <4>1, <5>1
      <4> QED
        BY <4>1
    <3> QED
      BY <1>4, <3>6, <3>7, <3>8
  <2> QED
    BY <2>1, <2>2, Zenon
<1> HIDE DEF badges
<1>9. /\ d \in Collections /\ d.loaded = clean.loaded /\ d.titles = clean.titles /\ d.wrapper = wrapper
      /\ d.shows = clean.shows /\ d.badges = badges
  <2>1. PICK e : e = [clean EXCEPT !.wrapper = wrapper, !.filters = filters]
    OBVIOUS
  <2>2. e \in Collections
    BY <1>2, <1>4, <1>5, <2>1 DEF Collections
  <2>3. /\ e.loaded = clean.loaded /\ e.titles = clean.titles /\ e.wrapper = wrapper
        /\ e.shows = clean.shows
    BY <1>2, <2>1 DEF Collections
  <2>4. d = [e EXCEPT !.ears = ears, !.badges = badges]
    BY <1>2, <1>3, <2>1 DEF Collections
  <2>5. d \in Collections
    BY <1>6, <1>8, <2>2, <2>4 DEF Collections
  <2>6. /\ d.loaded = e.loaded /\ d.titles = e.titles /\ d.wrapper = e.wrapper /\ d.shows = e.shows
        /\ d.badges = badges
    BY <2>2, <2>4 DEF Collections
  <2> QED
    BY <2>3, <2>5, <2>6
<1>10. Sound(d)
  BY <1>1, <1>8, <1>9 DEF Sound
<1> QED
  BY <1>1, <1>9, <1>10 DEF SamePlaces

LEMMA AllOff ==
    ASSUME NEW c, Sound(c), NEW d, d = Scenes!DisableAllDelayFilters(c)
    PROVE  Sound(d) /\ SamePlaces(c, d) /\ NothingOn(d)
<1> DEFINE lit == Scenes!On(c)
           heard == Scenes!EarsOn(c)
           m == Scenes!Switched(c, lit, "off")
<1>1. c \in Collections
  BY DEF Sound
<1>2. \A s \in LiveScenes, t \in Scenes!Tags : c.filters[s][t] = "on" => <<s, t>> \in lit
  BY DEF Scenes!On
<1>3. \A e \in Scenes!Ears : c.ears[e] = "on" => e \in heard
  BY DEF Scenes!EarsOn
<1> HIDE DEF lit, heard
<1>4. /\ m \in Collections /\ SamePlaces(c, m) /\ m.ears = c.ears
      /\ \A s \in LiveScenes, t \in Scenes!Tags :
            m.filters[s][t] = IF <<s, t>> \in lit THEN "off" ELSE c.filters[s][t]
  BY <1>1, SwitchedIs DEF OnOff
<1>5. d = Scenes!SwitchedEars(m, heard, "off")
  BY Zenon DEF Scenes!DisableAllDelayFilters, lit, heard
<1> HIDE DEF m
<1>6. /\ d \in Collections /\ SamePlaces(m, d) /\ d.filters = m.filters
      /\ \A e \in Scenes!Ears : d.ears[e] = IF e \in heard THEN "off" ELSE m.ears[e]
  BY <1>4, <1>5, SwitchedEarsIs DEF OnOff
<1>7. SamePlaces(c, d)
  BY <1>4, <1>6 DEF SamePlaces
<1>8. Sound(d)
  BY <1>6, <1>7, SoundKept
<1>9. ASSUME NEW s \in LiveScenes, NEW t \in Scenes!Tags, d.filters[s][t] = "on" PROVE FALSE
  <2>1. m.filters[s][t] = "on"
    BY <1>6, <1>9
  <2>2. <<s, t>> \notin lit
    BY <1>4, <2>1
  <2>3. c.filters[s][t] = "on"
    BY <1>4, <2>1, <2>2
  <2> QED
    BY <1>2, <2>2, <2>3
<1>10. \A e \in Scenes!Ears : d.ears[e] # "on"
  BY <1>3, <1>4, <1>6
<1> QED
  BY <1>7, <1>8, <1>9, <1>10 DEF NothingOn

\* The bridge's own references.
LEMMA HoldFields ==
    ASSUME NEW h \in SceneHolds
    PROVE  /\ h.state \in {"Inactive", "Filling", "Active"} /\ h.ears \subseteq Scenes!Ears
           /\ h.video \in (LiveScenes \X Scenes!Tags) \cup {Scenes!NoRef} /\ h.overlay \in BOOLEAN
           /\ h.corner \in Corners \cup {0} /\ h.shown \in BOOLEAN
BY DEF SceneHolds

LEMMA NoRefIsNone ==
    ASSUME NEW s, NEW t
    PROVE  <<s, t>> # Scenes!NoRef
<1>1. Len(<<s, t>>) = 2 /\ Len(Scenes!NoRef) = 0
  BY DEF Scenes!NoRef
<1> QED
  BY <1>1

LEMMA ReleasedIs ==
    ASSUME NEW h \in SceneHolds, NEW g, g = Scenes!Released(h)
    PROVE  g \in SceneHolds /\ g.state = "Inactive" /\ g.video = Scenes!NoRef /\ g.ears = {} /\ ~g.shown
BY DEF Scenes!Released, SceneHolds

LEMMA ReleasedJoins ==
    ASSUME NEW c, Sound(c), NEW h \in SceneHolds, h.state = "Inactive", h.video = Scenes!NoRef, h.ears = {},
           ~h.shown, c.loaded => NothingOn(c)
    PROVE  Joined(c, h)
<1>1. ~Scenes!Alive(c, h.video)
  BY DEF Scenes!Alive
<1>2. \A s : h.video # <<s, "renamed">>
  BY NoRefIsNone, Zenon
<1>3. c.loaded => VideoOn(c, h.video) /\ EarsAreOn(c, h.ears)
  BY <1>1 DEF VideoOn, EarsAreOn, NothingOn
<1> QED
  BY <1>2, <1>3 DEF Joined, Showing

\* A change that leaves every filter as it is.
LEMMA JoinedKept ==
    ASSUME NEW c, NEW h, Joined(c, h), NEW d, Sound(d), d.loaded = c.loaded, d.filters = c.filters,
           d.ears = c.ears, Showing(d, h)
    PROVE  Joined(d, h)
<1>1. VideoOn(c, h.video) => VideoOn(d, h.video)
  BY Zenon DEF VideoOn, Scenes!Alive
<1>2. EarsAreOn(c, h.ears) => EarsAreOn(d, h.ears)
  BY DEF EarsAreOn
<1> QED
  BY <1>1, <1>2 DEF Joined

LEMMA ShowingKept ==
    ASSUME NEW c, NEW h, Joined(c, h), NEW d, d.badges = c.badges
    PROVE  Showing(d, h)
BY DEF Joined, Showing, BadgesShow, HasBadge

\* A change that takes the badge away.
LEMMA JoinedWithout ==
    ASSUME NEW c, NEW h, Joined(c, h), NEW d, Sound(d), d.loaded = c.loaded, d.filters = c.filters,
           d.ears = c.ears, ~HasBadge(d), NEW g, g = [h EXCEPT !.shown = FALSE]
    PROVE  Joined(d, g)
<1>1. h \in SceneHolds
  BY DEF Joined
<1>2. /\ g \in SceneHolds /\ g.state = h.state /\ g.video = h.video /\ g.ears = h.ears /\ ~g.shown
  BY <1>1 DEF SceneHolds
<1>3. VideoOn(c, h.video) => VideoOn(d, g.video)
  BY <1>2, Zenon DEF VideoOn, Scenes!Alive
<1>4. EarsAreOn(c, h.ears) => EarsAreOn(d, g.ears)
  BY <1>2 DEF EarsAreOn
<1>5. Showing(d, g)
  BY <1>2 DEF Showing, BadgesShow, HasBadge
<1> QED
  BY <1>2, <1>3, <1>4, <1>5 DEF Joined

LEMMA EarsFor ==
    ASSUME NEW c \in Collections, NEW h, h.ears \subseteq Scenes!Ears
    PROVE  /\ Scenes!AudioFiltersFor(c, h) \subseteq Scenes!Ears
           /\ {e \in h.ears : c.ears[e] # "absent"} \subseteq Scenes!AudioFiltersFor(c, h)
<1> DEFINE still == {e \in h.ears : c.ears[e] # "absent"}
           used == {u \in {"current", "legacy"} : c.ears[<<u, c.mic>>] # "absent"}
<1>1. Scenes!FindAudioFilterOn(c) = {<<t, c.mic>> : t \in Scenes!LookupNames(used)}
  BY Zenon DEF Scenes!FindAudioFilterOn
<1>2. \/ still # {} /\ Scenes!AudioFiltersFor(c, h) = still
      \/ still = {} /\ Scenes!AudioFiltersFor(c, h) \in {{}, Scenes!FindAudioFilterOn(c)}
  BY Zenon DEF Scenes!AudioFiltersFor
<1>3. still \subseteq Scenes!Ears
  OBVIOUS
<1>4. c.mic \in {"mic", "mic 2"}
  BY CollectionFields
<1> HIDE DEF still, used
<1>5. Scenes!FindAudioFilterOn(c) \subseteq Scenes!Ears
  <2>1. ASSUME NEW t \in Scenes!LookupNames(used) PROVE <<t, c.mic>> \in Scenes!Ears
    <3>1. t \in {"current", "legacy"}
      BY OneNameFound, Zenon
    <3> QED
      BY <1>4, <3>1 DEF Scenes!Ears
  <2> QED
    BY <1>1, <2>1
<1> QED
  BY <1>2, <1>3, <1>5 DEF still

\* Stopping switches off whatever is on.
LEMMA StoppedIs ==
    ASSUME NEW c, Sound(c), NEW h, h.ears \subseteq Scenes!Ears, NEW d, d = Scenes!Stopped(c, h)
    PROVE  /\ Sound(d) /\ d.loaded = c.loaded
           /\ VideoOn(c, h.video) /\ EarsAreOn(c, h.ears) => NothingOn(d)
<1> DEFINE hidden == Scenes!SetDelayOverlay(c, FALSE, 0, "drawn")
           refs == Scenes!BufferFilterFor(hidden, h)
           ears == Scenes!AudioFiltersFor(hidden, h)
           m == Scenes!Switched(hidden, refs, "off")
<1>1. Sound(hidden) /\ hidden.loaded = c.loaded /\ hidden.filters = c.filters /\ hidden.ears = c.ears
  <2>1. PICK o : o = hidden
    OBVIOUS
  <2>2. PICK visible \in BOOLEAN, corner \in Corners \cup {0}, draw \in Scenes!Draws :
           visible = FALSE /\ corner = 0 /\ draw = "drawn"
    BY DEF Scenes!Draws
  <2>3. o = Scenes!SetDelayOverlay(c, visible, corner, draw)
    BY <2>1, <2>2
  <2>5. PICK shown \in BOOLEAN : shown = Scenes!Shows(c, visible, draw)
    BY Zenon DEF Scenes!Shows
  <2>4. Sound(o) /\ o.loaded = c.loaded /\ o.filters = c.filters /\ o.ears = c.ears
    BY <2>3, <2>5, OverlaySet
  <2> QED
    BY <2>1, <2>4
<1>2. d = Scenes!SwitchedEars(m, ears, "off")
  BY Zenon DEF Scenes!Stopped
<1>3. Scenes!Alive(hidden, h.video) => refs = {h.video}
  BY Zenon DEF Scenes!BufferFilterFor
<1>4. hidden \in Collections
  BY <1>1 DEF Sound
<1>5. {e \in h.ears : hidden.ears[e] # "absent"} \subseteq ears
  BY <1>4, EarsFor, Zenon
<1> HIDE DEF hidden, refs, ears
<1>6. /\ m \in Collections /\ SamePlaces(hidden, m) /\ m.ears = hidden.ears
      /\ \A s \in LiveScenes, t \in Scenes!Tags :
            m.filters[s][t] = IF <<s, t>> \in refs THEN "off" ELSE hidden.filters[s][t]
  BY <1>4, SwitchedIs DEF OnOff
<1> HIDE DEF m
<1>7. /\ d \in Collections /\ SamePlaces(m, d) /\ d.filters = m.filters
      /\ \A e \in Scenes!Ears : d.ears[e] = IF e \in ears THEN "off" ELSE m.ears[e]
  BY <1>2, <1>6, SwitchedEarsIs DEF OnOff
<1>8. SamePlaces(hidden, d) /\ d.loaded = c.loaded
  BY <1>1, <1>6, <1>7 DEF SamePlaces
<1>9. Sound(d)
  BY <1>1, <1>7, <1>8, SoundKept
<1>10. ASSUME VideoOn(c, h.video), NEW s \in LiveScenes, NEW t \in Scenes!Tags, d.filters[s][t] = "on"
       PROVE  FALSE
  <2>1. hidden.filters[s][t] = "on" /\ <<s, t>> \notin refs
    BY <1>6, <1>7, <1>10
  <2>2. h.video = <<s, t>>
    BY <1>1, <1>10, <2>1 DEF VideoOn
  <2>3. Scenes!Alive(hidden, h.video)
    BY <2>1, <2>2, NoRefIsNone DEF Scenes!Alive
  <2> QED
    BY <1>3, <2>1, <2>2, <2>3
<1>11. ASSUME EarsAreOn(c, h.ears), NEW e \in Scenes!Ears, d.ears[e] = "on" PROVE FALSE
  <2>1. hidden.ears[e] = "on" /\ e \notin ears
    BY <1>6, <1>7, <1>11
  <2>2. e \in h.ears
    BY <1>1, <1>11, <2>1 DEF EarsAreOn
  <2> QED
    BY <1>5, <2>1, <2>2
<1> QED
  BY <1>8, <1>9, <1>10, <1>11 DEF NothingOn

LEMMA SwitchOnStep ==
    ASSUME Joined(coll, held), NEW s \in LiveScenes, Scenes!Enable(s)
    PROVE  Joined(coll', held')
<1> DEFINE c1 == Scenes!EnsureBufferWrapperScene(coll, s)
           c2 == Scenes!EnsureAudioDelayFilters(c1, s)
           h1 == [held EXCEPT !.live = coll.titles[s], !.video = Scenes!NoRef, !.ears = {}]
           video == Scenes!FindBufferFilter(c2, h1.live)
           ears == Scenes!AudioFiltersFor(c2, h1)
           ref == IF video = {} THEN Scenes!NoRef ELSE CHOOSE v \in video : TRUE
           m == Scenes!Switched(c2, video, "on")
           d == Scenes!SwitchedEars(m, ears, "on")
           h2 == [h1 EXCEPT !.state = "Filling", !.ears = ears, !.video = ref]
<1>1. /\ coll.loaded /\ held.state = "Inactive" /\ coll.titles[s] # "gone" /\ coll' = d /\ held' = h2
  BY Zenon DEF Scenes!Enable
<1>2. /\ Sound(coll) /\ held \in SceneHolds /\ held.video = Scenes!NoRef /\ held.ears = {}
      /\ VideoOn(coll, held.video) /\ EarsAreOn(coll, held.ears) /\ ~held.shown
  BY <1>1 DEF Joined, Showing
<1>3. NothingOn(coll)
  BY <1>2, NoRefIsNone DEF NothingOn, VideoOn, EarsAreOn
<1>4. /\ Sound(c1) /\ c1.loaded = coll.loaded /\ c1.ears = coll.ears
      /\ \A r \in LiveScenes, t \in Scenes!Tags : c1.filters[r][t] = "on" => coll.filters[r][t] = "on"
  <2>1. PICK c : c = c1
    OBVIOUS
  <2>2. Sound(coll) /\ coll.titles[s] # "gone" /\ c = Scenes!EnsureBufferWrapperScene(coll, s)
    BY <1>1, <1>2, <2>1
  <2>3. /\ Sound(c) /\ c.loaded = coll.loaded /\ c.ears = coll.ears
        /\ \A r \in LiveScenes, t \in Scenes!Tags : c.filters[r][t] = "on" => coll.filters[r][t] = "on"
    BY <2>2, WrapperEnsured
  <2> HIDE DEF c1
  <2> QED
    BY <2>1, <2>3
<1> HIDE DEF c1
<1>5. /\ Sound(c2) /\ SamePlaces(c1, c2) /\ c2.filters = c1.filters
      /\ \A e \in Scenes!Ears : c2.ears[e] = "on" => c1.ears[e] = "on"
  BY <1>4, EarsEnsured
<1> HIDE DEF c2
<1>6. c2 \in Collections /\ NothingOn(c2) /\ c2.loaded
  BY <1>1, <1>3, <1>4, <1>5 DEF NothingOn, Sound, SamePlaces
<1>7. h1 \in SceneHolds /\ h1.ears = {} /\ ~h1.shown
  <2>1. coll \in Collections
    BY <1>2, Zenon DEF Sound
  <2>2. coll.titles \in [LiveScenes -> SceneNames]
    BY <2>1, CollectionFields
  <2>3. PICK title \in SceneNames : title = coll.titles[s]
    BY <2>2
  <2> QED
    BY <1>2, <2>3 DEF SceneHolds
<1> HIDE DEF h1
<1>8. ears \subseteq Scenes!Ears
  BY <1>6, <1>7, EarsFor
<1>9. video \subseteq LiveScenes \X {"current", "legacy"} /\ \A v, w \in video : v = w
  BY <1>5, FoundIn
<1> HIDE DEF video, ears
<1>10. \/ video = {} /\ ref = Scenes!NoRef
       \/ ref \in video
  OBVIOUS
<1>11. ref \in (LiveScenes \X Scenes!Tags) \cup {Scenes!NoRef}
  BY <1>9, <1>10 DEF Scenes!Tags
<1> HIDE DEF ref
<1>12. h2 \in SceneHolds /\ h2.state = "Filling" /\ h2.ears = ears /\ h2.video = ref /\ ~h2.shown
  BY <1>7, <1>8, <1>11 DEF SceneHolds
<1> HIDE DEF h2
<1>13. /\ m \in Collections /\ SamePlaces(c2, m) /\ m.ears = c2.ears
       /\ \A r \in LiveScenes, t \in Scenes!Tags :
             m.filters[r][t] = IF <<r, t>> \in video THEN "on" ELSE c2.filters[r][t]
  BY <1>6, SwitchedIs DEF OnOff
<1> HIDE DEF m
<1>14. /\ d \in Collections /\ SamePlaces(m, d) /\ d.filters = m.filters
       /\ \A e \in Scenes!Ears : d.ears[e] = IF e \in ears THEN "on" ELSE m.ears[e]
  BY <1>13, SwitchedEarsIs DEF OnOff
<1> HIDE DEF d
<1>15. SamePlaces(c2, d)
  BY <1>13, <1>14 DEF SamePlaces
<1>16. Sound(d) /\ d.loaded
  BY <1>5, <1>6, <1>14, <1>15, SoundKept DEF SamePlaces
<1>17. ASSUME NEW r \in LiveScenes, NEW t \in Scenes!Tags, d.filters[r][t] = "on" PROVE ref = <<r, t>>
  <2>1. <<r, t>> \in video
    BY <1>6, <1>13, <1>14, <1>17 DEF NothingOn
  <2> QED
    BY <1>9, <1>10, <2>1
<1>18. ASSUME Scenes!Alive(d, ref) PROVE d.filters[ref[1]][ref[2]] = "on"
  <2>1. ref \in video
    BY <1>10, <1>18 DEF Scenes!Alive
  <2>2. PICK r \in LiveScenes, t \in Scenes!Tags : ref = <<r, t>>
    BY <1>9, <2>1 DEF Scenes!Tags
  <2> QED
    BY <1>13, <1>14, <2>1, <2>2
<1>19. VideoOn(d, ref)
  BY <1>17, <1>18, Zenon DEF VideoOn
<1>20. EarsAreOn(d, ears)
  BY <1>6, <1>13, <1>14 DEF EarsAreOn, NothingOn
<1>21. \A r \in LiveScenes : ref # <<r, "renamed">>
  <2>1. ASSUME NEW r \in LiveScenes, ref = <<r, "renamed">> PROVE FALSE
    <3>1. ref \in video
      BY <1>10, <2>1, NoRefIsNone
    <3>2. <<r, "renamed">> \in LiveScenes \X {"current", "legacy"}
      BY <1>9, <2>1, <3>1
    <3> QED
      BY <3>2
  <2> QED
    BY <2>1
<1>22. Joined(d, h2)
  BY <1>12, <1>16, <1>19, <1>20, <1>21 DEF Joined, Showing
<1> QED
  BY <1>1, <1>22

\* Bringing the badge up to date, for the same filters.
LEMMA OverlayStep ==
    ASSUME Joined(coll, held), coll.loaded, NEW h \in SceneHolds, h.video = held.video, h.ears = held.ears,
           h.state = "Inactive" => held.state = "Inactive", Scenes!UpdateOverlay(h)
    PROVE  Joined(coll', held')
<1>1. PICK visible \in BOOLEAN : visible = (h.overlay /\ h.state = "Active")
  OBVIOUS
<1>2. PICK draw \in Scenes!Draws :
         /\ coll' = Scenes!SetDelayOverlay(coll, visible, h.corner, draw)
         /\ held' = [h EXCEPT !.shown = Scenes!Shows(coll, visible, draw)]
  BY <1>1, Zenon DEF Scenes!UpdateOverlay
<1>3. PICK shown \in BOOLEAN : shown = Scenes!Shows(coll, visible, draw)
  BY DEF Scenes!Shows
<1>4. h.corner \in Corners \cup {0} /\ h.overlay \in BOOLEAN /\ Sound(coll)
  BY HoldFields DEF Joined
<1>5. PICK c : c = coll'
  OBVIOUS
<1>6. /\ Sound(c) /\ BadgesShow(c, shown) /\ (shown => visible /\ HasBadge(c)) /\ c.loaded = coll.loaded
      /\ c.filters = coll.filters /\ c.ears = coll.ears
  <2>1. PICK corner \in Corners \cup {0} : corner = h.corner
    BY <1>4
  <2>2. c = Scenes!SetDelayOverlay(coll, visible, corner, draw)
    BY <1>2, <1>5, <2>1
  <2>3. PICK was : was = coll
    OBVIOUS
  <2>4. Sound(was) /\ c = Scenes!SetDelayOverlay(was, visible, corner, draw) /\ shown = Scenes!Shows(was, visible, draw)
    BY <1>3, <1>4, <2>2, <2>3
  <2>5. /\ Sound(c) /\ BadgesShow(c, shown) /\ (shown => visible /\ HasBadge(c)) /\ c.loaded = was.loaded
        /\ c.filters = was.filters /\ c.ears = was.ears
    BY <2>4, OverlaySet
  <2> QED
    BY <2>3, <2>5
<1>7. PICK g : g = [h EXCEPT !.shown = shown]
  OBVIOUS
<1>8. held' = g
  BY <1>2, <1>3, <1>7
<1>9. /\ g \in SceneHolds /\ g.state = h.state /\ g.video = held.video /\ g.ears = held.ears
      /\ g.shown = shown /\ g.overlay = h.overlay
  BY <1>7 DEF SceneHolds
<1>10. VideoOn(c, g.video) /\ EarsAreOn(c, g.ears)
  BY <1>6, <1>9 DEF Joined, VideoOn, EarsAreOn, Scenes!Alive
<1>11. \A s \in LiveScenes : g.video = <<s, "renamed">> => c.filters[s]["current"] = "absent"
  BY <1>6, <1>9 DEF Joined
<1>12. Showing(c, g)
  BY <1>1, <1>6, <1>9 DEF Showing
<1>13. Joined(c, g)
  BY <1>6, <1>9, <1>10, <1>11, <1>12 DEF Joined
<1> QED
  BY <1>5, <1>8, <1>13

LEMMA SwitchOffStep ==
    ASSUME Joined(coll, held), Scenes!Disable
    PROVE  Joined(coll', held')
<1>1. coll.loaded /\ coll' = Scenes!Stopped(coll, held) /\ held' = Scenes!Released(held)
  BY Zenon DEF Scenes!Disable
<1>2. Sound(coll) /\ held \in SceneHolds /\ VideoOn(coll, held.video) /\ EarsAreOn(coll, held.ears)
  BY <1>1 DEF Joined
<1>3. held.ears \subseteq Scenes!Ears
  BY <1>2, HoldFields
<1>4. Sound(coll') /\ NothingOn(coll')
  BY <1>1, <1>2, <1>3, StoppedIs
<1>5. /\ held' \in SceneHolds /\ held'.state = "Inactive" /\ held'.video = Scenes!NoRef
      /\ held'.ears = {} /\ ~held'.shown
  BY <1>1, <1>2, ReleasedIs
<1> QED
  BY <1>4, <1>5, ReleasedJoins

LEMMA FilledStep ==
    ASSUME Joined(coll, held), Scenes!OnFillTimerElapsed
    PROVE  Joined(coll', held')
<1>1. PICK h : h = [held EXCEPT !.state = "Active"]
  OBVIOUS
<1>2. coll.loaded /\ held.state = "Filling" /\ Scenes!UpdateOverlay(h)
  BY <1>1, Zenon DEF Scenes!OnFillTimerElapsed
<1>3. h \in SceneHolds /\ h.state = "Active" /\ h.video = held.video /\ h.ears = held.ears
  BY <1>1 DEF SceneHolds, Joined
<1> QED
  BY <1>2, <1>3, OverlayStep

LEMMA AskStep ==
    ASSUME Joined(coll, held), NEW show \in BOOLEAN, NEW corner \in Corners, Scenes!SetOverlay(show, corner)
    PROVE  Joined(coll', held')
<1>1. PICK h : h = [held EXCEPT !.overlay = show, !.corner = corner]
  OBVIOUS
<1>2. coll.loaded /\ Scenes!UpdateOverlay(h)
  BY <1>1, Zenon DEF Scenes!SetOverlay
<1>3. h \in SceneHolds /\ h.state = held.state /\ h.video = held.video /\ h.ears = held.ears
  BY <1>1 DEF SceneHolds, Joined
<1> QED
  BY <1>2, <1>3, OverlayStep

LEMMA EndStep ==
    ASSUME Joined(coll, held), Scenes!ObsEnds
    PROVE  Joined(coll', held')
<1>1. coll' = [coll EXCEPT !.loaded = FALSE] /\ held' = Scenes!Released(held)
  BY Zenon DEF Scenes!ObsEnds
<1>2. Sound(coll) /\ coll \in Collections /\ held \in SceneHolds
  BY DEF Joined, Sound
<1>3. /\ coll' \in Collections /\ ~coll'.loaded /\ coll'.titles = coll.titles /\ coll'.shows = coll.shows
      /\ coll'.wrapper = coll.wrapper /\ coll'.badges = coll.badges
  BY <1>1, <1>2 DEF Collections
<1>4. Sound(coll')
  BY <1>2, <1>3 DEF Sound
<1>5. /\ held' \in SceneHolds /\ held'.state = "Inactive" /\ held'.video = Scenes!NoRef
      /\ held'.ears = {} /\ ~held'.shown
  BY <1>1, <1>2, ReleasedIs
<1> QED
  BY <1>3, <1>4, <1>5, ReleasedJoins

LEMMA CollectionLoadStep ==
    ASSUME Joined(coll, held), Scenes!CollectionLoaded
    PROVE  Joined(coll', held')
<1> DEFINE m == Scenes!MigrateLegacyAutoNames(coll)
           c == Scenes!DisableAllDelayFilters(m)
<1>1. ~coll.loaded /\ coll' = [c EXCEPT !.loaded = TRUE] /\ held' = held
  BY Zenon DEF Scenes!CollectionLoaded
<1>2. /\ Sound(coll) /\ held \in SceneHolds /\ held.state = "Inactive" /\ held.video = Scenes!NoRef
      /\ held.ears = {} /\ ~held.shown
  BY <1>1 DEF Joined, Showing
<1>3. Sound(m)
  BY <1>2, MigratedIs
<1> HIDE DEF m
<1>4. Sound(c) /\ NothingOn(c)
  BY <1>3, AllOff
<1> HIDE DEF c
<1>5. c \in Collections
  BY <1>4 DEF Sound
<1>6. /\ coll' \in Collections /\ coll'.titles = c.titles /\ coll'.shows = c.shows
      /\ coll'.wrapper = c.wrapper /\ coll'.badges = c.badges
      /\ coll'.filters = c.filters /\ coll'.ears = c.ears
  BY <1>1, <1>5 DEF Collections
<1>7. Sound(coll')
  BY <1>4, <1>6 DEF Sound
<1>8. NothingOn(coll')
  BY <1>4, <1>6 DEF NothingOn
<1> QED
  BY <1>1, <1>2, <1>7, <1>8, ReleasedJoins

LEMMA DuplicateStep ==
    ASSUME Joined(coll, held), Scenes!CollectionDuplicated
    PROVE  Joined(coll', held')
<1> DEFINE c == IF held.state = "Inactive" THEN coll ELSE Scenes!Stopped(coll, Scenes!Reloaded(held))
           m == Scenes!MigrateLegacyAutoNames(c)
<1>1. coll' = Scenes!DisableAllDelayFilters(m) /\ held' = Scenes!Released(held)
  BY Zenon DEF Scenes!CollectionDuplicated
<1>2. Sound(coll) /\ held \in SceneHolds
  BY DEF Joined
<1>3. Sound(c)
  <2>1. PICK h : h = Scenes!Reloaded(held)
    OBVIOUS
  <2>2. h.ears \subseteq Scenes!Ears
    BY <1>2, <2>1 DEF SceneHolds, Scenes!Reloaded
  <2>3. PICK d : d = Scenes!Stopped(coll, h)
    OBVIOUS
  <2>4. Sound(d)
    BY <1>2, <2>2, <2>3, StoppedIs
  <2> QED
    BY <1>2, <2>1, <2>3, <2>4
<1> HIDE DEF c
<1>4. Sound(m)
  BY <1>3, MigratedIs
<1> HIDE DEF m
<1>5. Sound(coll') /\ NothingOn(coll')
  BY <1>1, <1>4, AllOff
<1>6. /\ held' \in SceneHolds /\ held'.state = "Inactive" /\ held'.video = Scenes!NoRef
      /\ held'.ears = {} /\ ~held'.shown
  BY <1>1, <1>2, ReleasedIs
<1> QED
  BY <1>5, <1>6, ReleasedJoins

\* The user's edits.
LEMMA Edited ==
    ASSUME NEW c, NEW h, Joined(c, h), NEW d, d = [c EXCEPT !.edits = c.edits + 1]
    PROVE  Joined(d, h)
<1>1. c \in Collections /\ Sound(c)
  BY DEF Joined, Sound
<1>2. d \in Collections /\ SamePlaces(c, d) /\ d.filters = c.filters /\ d.ears = c.ears
  <2>0. c.edits \in Nat
    BY <1>1, CollectionFields
  <2>1. PICK n \in Nat : n = c.edits + 1
    BY <2>0
  <2>2. d = [c EXCEPT !.edits = n]
    BY <2>1
  <2> QED
    BY <1>1, <2>2 DEF Collections, SamePlaces
<1>3. Sound(d)
  BY <1>1, <1>2, SoundKept
<1>4. Showing(d, h)
  BY <1>2, ShowingKept DEF SamePlaces
<1> QED
  BY <1>2, <1>3, <1>4, JoinedKept DEF SamePlaces

LEMMA EditStep ==
    ASSUME NEW c, Scenes!Edit(c), NEW h, Joined(c, h), held' = h
    PROVE  Joined(coll', held')
<1>1. coll' = [c EXCEPT !.edits = c.edits + 1]
  BY Zenon DEF Scenes!Edit
<1> QED
  BY <1>1, Edited

LEMMA RenameSceneStep ==
    ASSUME Joined(coll, held), NEW s \in LiveScenes, NEW title \in SceneTitles, Scenes!RenameScene(s, title)
    PROVE  Joined(coll', held')
<1> DEFINE titles == [coll.titles EXCEPT ![s] = title]
           c == [coll EXCEPT !.titles = titles]
<1>1. Scenes!Here(title) = {} /\ Scenes!Edit(c) /\ held' = held
  BY Zenon DEF Scenes!RenameScene
<1>2. Sound(coll) /\ coll \in Collections /\ coll.titles \in [LiveScenes -> SceneNames]
  BY CollectionFields DEF Joined, Sound
<1>3. titles \in [LiveScenes -> SceneNames]
  BY <1>2 DEF SceneNames
<1>4. \A r, q \in LiveScenes : titles[r] = titles[q] => r = q \/ titles[r] = "gone"
  <2>1. \A r \in LiveScenes : coll.titles[r] # title
    BY <1>1 DEF Scenes!Here
  <2> QED
    BY <1>2, <2>1 DEF Sound
<1> HIDE DEF titles
<1>5. /\ c \in Collections /\ c.titles = titles /\ c.shows = coll.shows /\ c.wrapper = coll.wrapper
      /\ c.badges = coll.badges /\ c.filters = coll.filters /\ c.ears = coll.ears
      /\ c.loaded = coll.loaded
  BY <1>2, <1>3 DEF Collections
<1> HIDE DEF c
<1>6. Sound(c)
  BY <1>2, <1>4, <1>5 DEF Sound
<1>7. Showing(c, held)
  BY <1>5, ShowingKept
<1>8. Joined(c, held)
  BY <1>5, <1>6, <1>7, JoinedKept
<1> QED
  BY <1>1, <1>8, EditStep

LEMMA RemoveWrapperStep ==
    ASSUME Joined(coll, held), Scenes!RemoveWrapper
    PROVE  Joined(coll', held')
<1> DEFINE badges == [t \in Scenes!BadgeTags |-> Scenes!NoBadge]
           c == [coll EXCEPT !.wrapper = "none", !.shows = {}, !.retired = FALSE, !.badges = badges]
<1>1. Scenes!Edit(c) /\ held' = [held EXCEPT !.shown = FALSE]
  BY Zenon DEF Scenes!RemoveWrapper
<1>2. Sound(coll) /\ coll \in Collections
  BY DEF Joined, Sound
<1>3. badges \in [Scenes!BadgeTags -> SceneBadges] /\ \A t \in Scenes!BadgeTags : ~badges[t].there
  <2>1. Scenes!NoBadge \in SceneBadges /\ ~Scenes!NoBadge.there
    BY DEF SceneBadges, Scenes!NoBadge
  <2> QED
    BY <2>1
<1> HIDE DEF badges
<1>4. /\ c \in Collections /\ c.titles = coll.titles /\ c.shows = {} /\ c.wrapper = "none"
      /\ c.badges = badges /\ c.filters = coll.filters /\ c.ears = coll.ears
      /\ c.loaded = coll.loaded
  BY <1>2, <1>3 DEF Collections
<1> HIDE DEF c
<1>5. Sound(c) /\ ~HasBadge(c)
  BY <1>2, <1>3, <1>4 DEF Sound, HasBadge
<1>6. Joined(c, held')
  BY <1>1, <1>4, <1>5, JoinedWithout
<1> QED
  BY <1>1, <1>6, EditStep

LEMMA RenameMicStep ==
    ASSUME Joined(coll, held), Scenes!RenameMic
    PROVE  Joined(coll', held')
<1>1. PICK mic \in {"mic", "mic 2"} : mic = IF coll.mic = "mic" THEN "mic 2" ELSE "mic"
  OBVIOUS
<1> DEFINE c == [coll EXCEPT !.mic = mic]
<1>2. Scenes!Edit(c) /\ held' = held
  BY <1>1, Zenon DEF Scenes!RenameMic
<1>3. Sound(coll) /\ coll \in Collections
  BY DEF Joined, Sound
<1>4. c \in Collections /\ SamePlaces(coll, c) /\ c.filters = coll.filters /\ c.ears = coll.ears
  BY <1>1, <1>3 DEF Collections, SamePlaces
<1> HIDE DEF c
<1>5. Sound(c) /\ Showing(c, held)
  BY <1>3, <1>4, SoundKept, ShowingKept DEF SamePlaces
<1>6. Joined(c, held)
  BY <1>4, <1>5, JoinedKept DEF SamePlaces
<1> QED
  BY <1>2, <1>6, EditStep

LEMMA NamesakeStep ==
    ASSUME Joined(coll, held), NEW kind \in {"image", "other"}, Scenes!AddNamesake(kind)
    PROVE  Joined(coll', held')
<1> DEFINE c == [coll EXCEPT !.stray = kind]
<1>1. Scenes!Edit(c) /\ held' = held
  BY Zenon DEF Scenes!AddNamesake
<1>2. Sound(coll) /\ coll \in Collections
  BY DEF Joined, Sound
<1>3. c \in Collections /\ SamePlaces(coll, c) /\ c.filters = coll.filters /\ c.ears = coll.ears
  BY <1>2 DEF Collections, SamePlaces
<1> HIDE DEF c
<1>4. Sound(c) /\ Showing(c, held)
  BY <1>2, <1>3, SoundKept, ShowingKept DEF SamePlaces
<1>5. Joined(c, held)
  BY <1>3, <1>4, JoinedKept DEF SamePlaces
<1> QED
  BY <1>1, <1>5, EditStep

LEMMA RemoveSceneStep ==
    ASSUME Joined(coll, held), NEW s \in LiveScenes, Scenes!RemoveScene(s)
    PROVE  Joined(coll', held')
<1> DEFINE titles == [coll.titles EXCEPT ![s] = "gone"]
           filters == [coll.filters EXCEPT ![s] = [t \in Scenes!Tags |-> "absent"]]
           shows == coll.shows \ {s}
           c == [coll EXCEPT !.titles = titles, !.shows = shows, !.filters = filters]
<1>1. Scenes!Edit(c) /\ held' = held
  BY Zenon DEF Scenes!RemoveScene
<1>2. /\ Sound(coll) /\ coll \in Collections /\ coll.titles \in [LiveScenes -> SceneNames]
      /\ coll.shows \subseteq LiveScenes /\ coll.filters \in [LiveScenes -> [Scenes!Tags -> OnOff]]
  BY CollectionFields DEF Joined, Sound
<1>3. titles \in [LiveScenes -> SceneNames] /\ shows \subseteq LiveScenes
  BY <1>2 DEF SceneNames
<1>4. /\ \A r, q \in LiveScenes : titles[r] = titles[q] => r = q \/ titles[r] = "gone"
      /\ \A r, q \in shows : r = q
  BY <1>2 DEF Sound
<1>5. /\ filters \in [LiveScenes -> [Scenes!Tags -> OnOff]]
      /\ \A r \in LiveScenes, t \in Scenes!Tags :
            filters[r][t] = IF r = s THEN "absent" ELSE coll.filters[r][t]
  <2>1. PICK none \in [Scenes!Tags -> OnOff] : none = [t \in Scenes!Tags |-> "absent"]
    BY DEF OnOff
  <2>2. \A t \in Scenes!Tags : none[t] = "absent"
    BY <2>1
  <2>3. filters = [coll.filters EXCEPT ![s] = none]
    BY <2>1
  <2> HIDE DEF filters
  <2> QED
    BY <1>2, <2>2, <2>3
<1> HIDE DEF titles, filters, shows
<1>6. /\ c \in Collections /\ c.titles = titles /\ c.shows = shows /\ c.wrapper = coll.wrapper
      /\ c.badges = coll.badges /\ c.filters = filters /\ c.ears = coll.ears /\ c.loaded = coll.loaded
  BY <1>2, <1>3, <1>5 DEF Collections
<1> HIDE DEF c
<1>7. Sound(c)
  BY <1>2, <1>4, <1>6 DEF Sound
<1>8. ASSUME VideoOn(coll, held.video), Scenes!Alive(c, held.video)
      PROVE  c.filters[held.video[1]][held.video[2]] = "on"
  <2>1. PICK r \in LiveScenes, t \in Scenes!Tags : held.video = <<r, t>>
    BY <1>8, HoldFields DEF Joined, Scenes!Alive
  <2>2. filters[r][t] # "absent"
    BY <1>6, <1>8, <2>1 DEF Scenes!Alive
  <2>3. filters[r][t] = coll.filters[r][t]
    BY <1>5, <2>2
  <2>4. Scenes!Alive(coll, held.video)
    BY <2>1, <2>2, <2>3, NoRefIsNone DEF Scenes!Alive
  <2> QED
    BY <1>6, <1>8, <2>1, <2>3, <2>4 DEF VideoOn
<1>9. VideoOn(coll, held.video) => VideoOn(c, held.video)
  <2>1. \A r \in LiveScenes, t \in Scenes!Tags : c.filters[r][t] = "on" => coll.filters[r][t] = "on"
    BY <1>5, <1>6
  <2> QED
    BY <1>8, <2>1, Zenon DEF VideoOn
<1>10. Joined(c, held)
  <2>1. EarsAreOn(coll, held.ears) => EarsAreOn(c, held.ears)
    BY <1>6 DEF EarsAreOn
  <2>2. Showing(c, held)
    BY <1>6, ShowingKept
  <2>3. \A r \in LiveScenes : held.video = <<r, "renamed">> => c.filters[r]["current"] = "absent"
    BY <1>5, <1>6 DEF Joined, Scenes!Tags
  <2> QED
    BY <1>6, <1>7, <1>9, <2>1, <2>2, <2>3 DEF Joined
<1> QED
  BY <1>1, <1>10, EditStep

LEMMA RenameFilterStep ==
    ASSUME Joined(coll, held), NEW s \in LiveScenes, Scenes!RenameFilter(s)
    PROVE  Joined(coll', held')
<1>1. /\ Sound(coll) /\ coll \in Collections /\ coll.filters \in [LiveScenes -> [Scenes!Tags -> OnOff]]
      /\ held \in SceneHolds
  BY CollectionFields DEF Joined, Sound
<1>2. "current" \in Scenes!Tags /\ "renamed" \in Scenes!Tags
  BY DEF Scenes!Tags
<1>3. PICK f, old, g : f = coll.filters[s] /\ old = f["current"]
                       /\ g = [f EXCEPT !["renamed"] = old, !["current"] = "absent"]
  OBVIOUS
<1>4. f \in [Scenes!Tags -> OnOff] /\ old \in OnOff
  BY <1>1, <1>2, <1>3
<1>5. /\ g \in [Scenes!Tags -> OnOff] /\ g["renamed"] = old /\ g["current"] = "absent"
      /\ \A t \in Scenes!Tags : t \notin {"current", "renamed"} => g[t] = f[t]
  BY <1>2, <1>3, <1>4 DEF OnOff
<1> DEFINE filters == [coll.filters EXCEPT ![s] = g]
           c == [coll EXCEPT !.filters = filters]
           ref == IF held.video = <<s, "current">> THEN <<s, "renamed">> ELSE held.video
           h == [held EXCEPT !.video = ref]
<1>6. /\ old # "absent" /\ f["renamed"] = "absent" /\ held' = h
      /\ Scenes!Edit([coll EXCEPT !.filters[s]["renamed"] = coll.filters[s]["current"],
                                  !.filters[s]["current"] = "absent"])
  BY <1>3, Zenon DEF Scenes!RenameFilter
<1>7. c = [coll EXCEPT !.filters[s]["renamed"] = coll.filters[s]["current"],
                       !.filters[s]["current"] = "absent"]
  BY <1>1, <1>3, <1>4 DEF Collections
<1>8. Scenes!Edit(c)
  BY <1>6, <1>7, Zenon
<1>9. /\ filters \in [LiveScenes -> [Scenes!Tags -> OnOff]] /\ filters[s] = g
      /\ \A r \in LiveScenes : r # s => filters[r] = coll.filters[r]
  BY <1>1, <1>5
<1> HIDE DEF filters
<1>10. /\ c \in Collections /\ SamePlaces(coll, c) /\ c.filters = filters /\ c.ears = coll.ears
  BY <1>1, <1>9, FiltersSet
<1> HIDE DEF c
<1>11. Sound(c)
  BY <1>1, <1>10, SoundKept
<1>12. ref \in (LiveScenes \X Scenes!Tags) \cup {Scenes!NoRef}
  BY <1>1, <1>2, HoldFields
<1>13. \/ held.video = <<s, "current">> /\ ref = <<s, "renamed">>
       \/ held.video # <<s, "current">> /\ ref = held.video
  OBVIOUS
<1> HIDE DEF ref
<1>14. /\ h \in SceneHolds /\ h.state = held.state /\ h.ears = held.ears /\ h.overlay = held.overlay
       /\ h.video = ref /\ h.shown = held.shown
  BY <1>1, <1>12 DEF SceneHolds
<1> HIDE DEF h
<1>15. held.video # <<s, "renamed">>
  BY <1>3, <1>6 DEF Joined
<1>16. ASSUME VideoOn(coll, held.video), NEW r \in LiveScenes, NEW t \in Scenes!Tags, filters[r][t] = "on"
       PROVE  ref = <<r, t>>
  <2>1. CASE r # s
    <3>1. held.video = <<r, t>>
      BY <1>9, <1>16, <2>1 DEF VideoOn
    <3> QED
      BY <1>13, <2>1, <3>1
  <2>2. CASE r = s /\ t = "renamed"
    <3>1. coll.filters[s]["current"] = "on"
      BY <1>3, <1>5, <1>9, <1>16, <2>2
    <3>2. held.video = <<s, "current">>
      BY <1>2, <1>16, <3>1 DEF VideoOn
    <3> QED
      BY <1>13, <2>2, <3>2
  <2>3. CASE r = s /\ t # "renamed"
    <3>1. t # "current" /\ coll.filters[s][t] = "on"
      BY <1>3, <1>5, <1>9, <1>16, <2>3
    <3>2. held.video = <<s, t>>
      BY <1>16, <3>1 DEF VideoOn
    <3> QED
      BY <1>13, <2>3, <3>1, <3>2
  <2> QED
    BY <2>1, <2>2, <2>3
<1>17. ASSUME VideoOn(coll, held.video), Scenes!Alive(c, ref)
       PROVE  c.filters[ref[1]][ref[2]] = "on"
  <2>1. PICK r \in LiveScenes, t \in Scenes!Tags : ref = <<r, t>>
    BY <1>12, <1>17 DEF Scenes!Alive
  <2>2. filters[r][t] # "absent"
    BY <1>10, <1>17, <2>1 DEF Scenes!Alive
  <2>3. CASE held.video = <<s, "current">>
    <3>1. r = s /\ t = "renamed"
      BY <1>13, <2>1, <2>3
    <3>2. Scenes!Alive(coll, held.video)
      BY <1>3, <1>6, <2>3, NoRefIsNone DEF Scenes!Alive
    <3>3. coll.filters[s]["current"] = "on"
      BY <1>17, <2>3, <3>2 DEF VideoOn
    <3> QED
      BY <1>3, <1>5, <1>9, <1>10, <2>1, <3>1, <3>3
  <2>4. CASE held.video # <<s, "current">>
    <3>1. held.video = <<r, t>>
      BY <1>13, <2>1, <2>4
    <3>2. r # s \/ t \notin {"current", "renamed"}
      BY <1>15, <2>4, <3>1
    <3>3. filters[r][t] = coll.filters[r][t]
      BY <1>3, <1>5, <1>9, <3>2
    <3>4. Scenes!Alive(coll, held.video)
      BY <2>2, <3>1, <3>3, NoRefIsNone DEF Scenes!Alive
    <3>5. coll.filters[r][t] = "on"
      BY <1>17, <3>1, <3>4 DEF VideoOn
    <3> QED
      BY <1>10, <2>1, <3>3, <3>5
  <2> QED
    BY <2>3, <2>4
<1>18. VideoOn(coll, held.video) => VideoOn(c, ref)
  <2>1. VideoOn(coll, held.video) => \A r \in LiveScenes, t \in Scenes!Tags : c.filters[r][t] = "on" => ref = <<r, t>>
    BY <1>10, <1>16
  <2> QED
    BY <1>17, <2>1, Zenon DEF VideoOn
<1>19. \A r \in LiveScenes : ref = <<r, "renamed">> => filters[r]["current"] = "absent"
  <2>1. ASSUME NEW r \in LiveScenes, ref = <<r, "renamed">> PROVE filters[r]["current"] = "absent"
    <3>1. CASE r = s
      BY <1>5, <1>9, <3>1
    <3>2. CASE r # s
      BY <1>9, <1>13, <2>1, <3>2 DEF Joined
    <3> QED
      BY <3>1, <3>2
  <2> QED
    BY <2>1
<1>20. held.state = "Inactive" => ref = Scenes!NoRef
  BY <1>13, NoRefIsNone DEF Joined
<1>21. Joined(c, h)
  <2>1. EarsAreOn(coll, held.ears) => EarsAreOn(c, h.ears)
    BY <1>10, <1>14 DEF EarsAreOn
  <2>2. Showing(c, h)
    BY <1>10, <1>14, ShowingKept DEF SamePlaces, Showing
  <2>3. c.loaded = coll.loaded
    BY <1>10 DEF SamePlaces
  <2> QED
    BY <1>10, <1>11, <1>14, <1>18, <1>19, <1>20, <2>1, <2>2, <2>3 DEF Joined
<1> QED
  BY <1>6, <1>8, <1>21, EditStep

LEMMA RemoveFilterStep ==
    ASSUME Joined(coll, held), NEW s \in LiveScenes, NEW tag \in Scenes!Tags, Scenes!RemoveFilter(s, tag)
    PROVE  Joined(coll', held')
<1>1. /\ Sound(coll) /\ coll \in Collections /\ coll.filters \in [LiveScenes -> [Scenes!Tags -> OnOff]]
      /\ held \in SceneHolds
  BY CollectionFields DEF Joined, Sound
<1>2. PICK f, g : f = coll.filters[s] /\ g = [f EXCEPT ![tag] = "absent"]
  OBVIOUS
<1>3. g \in [Scenes!Tags -> OnOff] /\ \A t \in Scenes!Tags : g[t] = IF t = tag THEN "absent" ELSE f[t]
  BY <1>1, <1>2 DEF OnOff
<1> DEFINE filters == [coll.filters EXCEPT ![s] = g]
           c == [coll EXCEPT !.filters = filters]
<1>4. Scenes!Edit([coll EXCEPT !.filters[s][tag] = "absent"]) /\ held' = held
  BY Zenon DEF Scenes!RemoveFilter
<1>5. c = [coll EXCEPT !.filters[s][tag] = "absent"]
  BY <1>1, <1>2 DEF Collections
<1>6. Scenes!Edit(c)
  BY <1>4, <1>5, Zenon
<1>7. /\ filters \in [LiveScenes -> [Scenes!Tags -> OnOff]]
      /\ \A r \in LiveScenes, t \in Scenes!Tags :
            filters[r][t] = IF r = s /\ t = tag THEN "absent" ELSE coll.filters[r][t]
  BY <1>1, <1>2, <1>3
<1> HIDE DEF filters
<1>8. c \in Collections /\ SamePlaces(coll, c) /\ c.filters = filters /\ c.ears = coll.ears
  BY <1>1, <1>7, FiltersSet
<1> HIDE DEF c
<1>9. Sound(c)
  BY <1>1, <1>8, SoundKept
<1>10. ASSUME VideoOn(coll, held.video), Scenes!Alive(c, held.video)
       PROVE  c.filters[held.video[1]][held.video[2]] = "on"
  <2>1. PICK r \in LiveScenes, t \in Scenes!Tags : held.video = <<r, t>>
    BY <1>1, <1>10, HoldFields DEF Scenes!Alive
  <2>2. filters[r][t] # "absent"
    BY <1>8, <1>10, <2>1 DEF Scenes!Alive
  <2>3. filters[r][t] = coll.filters[r][t]
    BY <1>7, <2>2
  <2>4. Scenes!Alive(coll, held.video)
    BY <2>1, <2>2, <2>3, NoRefIsNone DEF Scenes!Alive
  <2> QED
    BY <1>8, <1>10, <2>1, <2>3, <2>4 DEF VideoOn
<1>11. VideoOn(coll, held.video) => VideoOn(c, held.video)
  <2>1. \A r \in LiveScenes, t \in Scenes!Tags : c.filters[r][t] = "on" => coll.filters[r][t] = "on"
    BY <1>7, <1>8
  <2> QED
    BY <1>10, <2>1, Zenon DEF VideoOn
<1>12. Joined(c, held)
  <2>1. EarsAreOn(coll, held.ears) => EarsAreOn(c, held.ears)
    BY <1>8 DEF EarsAreOn
  <2>2. Showing(c, held)
    BY <1>8, ShowingKept DEF SamePlaces
  <2>3. \A r \in LiveScenes : held.video = <<r, "renamed">> => c.filters[r]["current"] = "absent"
    BY <1>7, <1>8 DEF Joined, Scenes!Tags
  <2>4. c.loaded = coll.loaded
    BY <1>8 DEF SamePlaces
  <2> QED
    BY <1>9, <1>11, <2>1, <2>2, <2>3, <2>4 DEF Joined
<1> QED
  BY <1>4, <1>6, <1>12, EditStep

LEMMA BadgesStep ==
    ASSUME Joined(coll, held), NEW b \in [Scenes!BadgeTags -> SceneBadges], held' = held,
           Scenes!Edit([coll EXCEPT !.badges = b]),
           \A t, u \in Scenes!BadgeTags : b[t].there /\ b[u].there => t = u,
           \A t \in Scenes!BadgeTags : b[t].there =>
              /\ b[t].marked \/ t \in {"current", "legacy"}
              /\ \E u \in Scenes!BadgeTags :
                    /\ coll.badges[u].there /\ b[t].visible = coll.badges[u].visible
                    /\ b[t].top = coll.badges[u].top,
           \E t \in Scenes!BadgeTags : b[t].there
    PROVE  Joined(coll', held')
<1> DEFINE c == [coll EXCEPT !.badges = b]
<1>1. Sound(coll) /\ coll \in Collections
  BY DEF Joined, Sound
<1>2. \A t \in Scenes!BadgeTags : b[t].there => coll.wrapper # "none"
  BY <1>1 DEF Sound
<1>3. Sound(c)
  BY <1>1, <1>2, BadgesSound
<1>4. c.badges = b /\ c.loaded = coll.loaded /\ c.filters = coll.filters /\ c.ears = coll.ears
  BY <1>1, BadgesSet
<1>5. Scenes!Edit(c)
  OBVIOUS
<1> HIDE DEF c
<1>6. Showing(c, held)
  <2>1. held.state = "Active" => BadgesShow(c, held.shown)
    BY <1>4 DEF Joined, Showing, BadgesShow
  <2>2. HasBadge(c)
    BY <1>4 DEF HasBadge
  <2> QED
    BY <2>1, <2>2 DEF Joined, Showing
<1>7. Joined(c, held)
  BY <1>3, <1>4, <1>6, JoinedKept
<1> QED
  BY <1>5, <1>7, EditStep

LEMMA NoBadgeIs == Scenes!NoBadge \in SceneBadges /\ ~Scenes!NoBadge.there
BY DEF SceneBadges, Scenes!NoBadge

LEMMA EditBadgeStep ==
    ASSUME Joined(coll, held), NEW tag \in Scenes!BadgeTags, Scenes!EditBadge(tag)
    PROVE  Joined(coll', held')
<1>1. coll \in Collections /\ coll.badges \in [Scenes!BadgeTags -> SceneBadges]
  BY CollectionFields DEF Joined, Sound
<1>2. PICK old \in SceneBadges : old = coll.badges[tag]
  BY <1>1
<1>3. PICK none \in SceneBadges : none = Scenes!NoBadge /\ ~none.there
  BY NoBadgeIs
<1> DEFINE moved == [old EXCEPT !.at = "user"]
<1>4. moved \in SceneBadges /\ moved.there = old.there /\ moved.marked = old.marked
      /\ moved.visible = old.visible /\ moved.top = old.top
  BY DEF SceneBadges
<1>5. /\ \A t, u \in Scenes!BadgeTags : coll.badges[t].there /\ coll.badges[u].there => t = u
      /\ \A t \in Scenes!BadgeTags : coll.badges[t].there => coll.badges[t].marked \/ t \in {"current", "legacy"}
  BY DEF Joined, Sound
<1>6. /\ old.there
      /\ \/ Scenes!Edit([coll EXCEPT !.badges[tag].at = "user"]) /\ held' = held
         \/ Scenes!Edit([coll EXCEPT !.badges[tag] = none]) /\ held' = [held EXCEPT !.shown = FALSE]
         \/ /\ tag # "renamed" /\ old.marked /\ held' = held
            /\ Scenes!Edit([coll EXCEPT !.badges["renamed"] = old, !.badges[tag] = none])
  BY <1>2, <1>3, Zenon DEF Scenes!EditBadge
<1>7. \A t \in Scenes!BadgeTags : coll.badges[t].there => t = tag
  BY <1>2, <1>5, <1>6
<1>8. CASE Scenes!Edit([coll EXCEPT !.badges[tag].at = "user"]) /\ held' = held
  <2>1. PICK b : b = [coll.badges EXCEPT ![tag] = moved]
    OBVIOUS
  <2>2. [coll EXCEPT !.badges[tag].at = "user"] = [coll EXCEPT !.badges = b]
    BY <1>1, <1>2, <2>1 DEF Collections
  <2> HIDE DEF moved
  <2>3. /\ b \in [Scenes!BadgeTags -> SceneBadges] /\ b[tag] = moved
        /\ \A t \in Scenes!BadgeTags : t # tag => b[t] = coll.badges[t]
    BY <1>1, <1>4, <2>1
  <2>4. \A t \in Scenes!BadgeTags : b[t].there =>
              /\ t = tag /\ (b[t].marked \/ t \in {"current", "legacy"})
              /\ coll.badges[t].there /\ b[t].visible = coll.badges[t].visible
              /\ b[t].top = coll.badges[t].top
    BY <1>2, <1>4, <1>5, <1>7, <2>3
  <2>6. b[tag].there
    BY <1>4, <1>6, <2>3
  <2>5. Scenes!Edit([coll EXCEPT !.badges = b])
    BY <1>8, <2>2, Zenon
  <2> QED
    BY <1>8, <2>3, <2>4, <2>5, <2>6, BadgesStep
<1>9. CASE Scenes!Edit([coll EXCEPT !.badges[tag] = none]) /\ held' = [held EXCEPT !.shown = FALSE]
  <2>1. PICK b : b = [coll.badges EXCEPT ![tag] = none]
    OBVIOUS
  <2>2. [coll EXCEPT !.badges[tag] = none] = [coll EXCEPT !.badges = b]
    BY <2>1
  <2>3. /\ b \in [Scenes!BadgeTags -> SceneBadges] /\ b[tag] = none
        /\ \A t \in Scenes!BadgeTags : t # tag => b[t] = coll.badges[t]
    BY <1>1, <2>1
  <2>4. \A t \in Scenes!BadgeTags : ~b[t].there
    BY <1>3, <1>7, <2>3
  <2>5. Scenes!Edit([coll EXCEPT !.badges = b])
    BY <1>9, <2>2, Zenon
  <2>6. PICK c : c = [coll EXCEPT !.badges = b]
    OBVIOUS
  <2>7. Sound(c)
    <3>1. Sound(coll)
      BY DEF Joined
    <3> QED
      BY <2>3, <2>4, <2>6, <3>1, BadgesSound
  <2>8. c.badges = b /\ c.loaded = coll.loaded /\ c.filters = coll.filters /\ c.ears = coll.ears
    BY <1>1, <2>3, <2>6, BadgesSet
  <2>9. ~HasBadge(c)
    BY <2>4, <2>8 DEF HasBadge
  <2>10. Joined(c, held')
    BY <1>9, <2>7, <2>8, <2>9, JoinedWithout
  <2> QED
    BY <2>5, <2>6, <2>10, EditStep
<1>10. CASE tag # "renamed" /\ old.marked /\ held' = held
            /\ Scenes!Edit([coll EXCEPT !.badges["renamed"] = old, !.badges[tag] = none])
  <2>1. PICK b : b = [coll.badges EXCEPT !["renamed"] = old, ![tag] = none]
    OBVIOUS
  <2>2. [coll EXCEPT !.badges["renamed"] = old, !.badges[tag] = none] = [coll EXCEPT !.badges = b]
    BY <1>1, <2>1 DEF Collections
  <2>3. /\ b \in [Scenes!BadgeTags -> SceneBadges] /\ b[tag] = none /\ b["renamed"] = old
        /\ \A t \in Scenes!BadgeTags : t \notin {tag, "renamed"} => b[t] = coll.badges[t]
    BY <1>1, <1>10, <2>1 DEF Scenes!BadgeTags
  <2>4. \A t \in Scenes!BadgeTags : b[t].there => t = "renamed"
    <3>1. ASSUME NEW t \in Scenes!BadgeTags, b[t].there, t # "renamed" PROVE FALSE
      <4>1. t # tag
        BY <1>3, <2>3, <3>1
      <4> QED
        BY <1>7, <2>3, <3>1, <4>1
    <3> QED
      BY <3>1
  <2>5. Scenes!Edit([coll EXCEPT !.badges = b])
    BY <1>10, <2>2, Zenon
  <2>6. \A t, u \in Scenes!BadgeTags : b[t].there /\ b[u].there => t = u
    BY <2>4
  <2>7. \A t \in Scenes!BadgeTags : b[t].there =>
              /\ b[t].marked
              /\ \E u \in Scenes!BadgeTags :
                    /\ coll.badges[u].there /\ b[t].visible = coll.badges[u].visible
                    /\ b[t].top = coll.badges[u].top
    BY <1>2, <1>6, <1>10, <2>3, <2>4
  <2>8. "renamed" \in Scenes!BadgeTags /\ b["renamed"].there
    BY <1>6, <2>3 DEF Scenes!BadgeTags
  <2> QED
    BY <1>10, <2>3, <2>5, <2>6, <2>7, <2>8, BadgesStep
<1> QED
  BY <1>6, <1>8, <1>9, <1>10

\* What earlier sessions and older versions left.
LEMMA EmptyIsSound ==
    Sound(Scenes!Empty) /\ ~Scenes!Empty.loaded /\ Scenes!Empty \in Collections
<1> DEFINE c == Scenes!Empty
<1>1. PICK titles : titles = [s \in LiveScenes |-> s]
  OBVIOUS
<1>11. titles \in [LiveScenes -> SceneNames] /\ \A s \in LiveScenes : titles[s] = s
  BY <1>1 DEF SceneNames
<1>2. PICK none \in [Scenes!Tags -> OnOff] : none = [t \in Scenes!Tags |-> "absent"]
  BY DEF OnOff
<1>3. PICK filters \in [LiveScenes -> [Scenes!Tags -> OnOff]] : filters = [s \in LiveScenes |-> none]
  OBVIOUS
<1>4. PICK ears \in [Scenes!Ears -> OnOff] : ears = [e \in Scenes!Ears |-> "absent"]
  BY DEF OnOff
<1>5. PICK badges : badges = [t \in Scenes!BadgeTags |-> Scenes!NoBadge]
  OBVIOUS
<1>12. badges \in [Scenes!BadgeTags -> SceneBadges] /\ \A t \in Scenes!BadgeTags : ~badges[t].there
  BY <1>5, NoBadgeIs
<1>6. c = [loaded |-> FALSE, titles |-> titles, wrapper |-> "none", shows |-> {}, filters |-> filters,
           mic |-> "mic", ears |-> ears, badges |-> badges, retired |-> FALSE, squatter |-> FALSE,
           stray |-> "none", edits |-> 0]
  BY <1>1, <1>2, <1>3, <1>4, <1>5, Zenon DEF Scenes!Empty
<1> HIDE DEF c
<1>7. /\ c \in Collections /\ c.titles = titles /\ c.shows = {} /\ c.badges = badges /\ ~c.loaded
  BY <1>6, <1>11, <1>12 DEF Collections
<1>8. Sound(c)
  BY <1>7, <1>11, <1>12 DEF Sound
<1> QED
  BY <1>7, <1>8 DEF c

LEMMA OldIsSound ==
    Sound(Scenes!Old) /\ ~Scenes!Old.loaded /\ Scenes!Old \in Collections
<1>1. PICK e : e = Scenes!Empty
  OBVIOUS
<1>2. e \in Collections /\ Sound(e) /\ ~e.loaded
  BY <1>1, EmptyIsSound
<1>3. PICK f : f = e.filters["first"]
  OBVIOUS
<1>4. e.filters \in [LiveScenes -> [Scenes!Tags -> OnOff]] /\ f \in [Scenes!Tags -> OnOff]
  BY <1>2, <1>3, CollectionFields, ScenesAssumption
<1>5. PICK filters \in [LiveScenes -> [Scenes!Tags -> OnOff]] :
         filters = [e.filters EXCEPT !["first"] = [f EXCEPT !["legacy"] = "on"]]
  <2>1. [f EXCEPT !["legacy"] = "on"] \in [Scenes!Tags -> OnOff]
    BY <1>4 DEF OnOff
  <2> QED
    BY <1>4, <2>1
<1>6. PICK ears \in [Scenes!Ears -> OnOff] : ears = [e.ears EXCEPT ![<<"legacy", "mic">>] = "on"]
  BY <1>2, CollectionFields DEF OnOff
<1>7. PICK badge \in SceneBadges : badge = [Scenes!NoBadge EXCEPT !.there = TRUE, !.visible = TRUE]
  BY DEF SceneBadges, Scenes!NoBadge
<1>8. e.badges \in [Scenes!BadgeTags -> SceneBadges] /\ \A t \in Scenes!BadgeTags : ~e.badges[t].there
  <2>1. e.badges = [t \in Scenes!BadgeTags |-> Scenes!NoBadge]
    BY <1>1, Zenon DEF Scenes!Empty
  <2> QED
    BY <2>1, NoBadgeIs
<1>9. PICK badges : badges = [e.badges EXCEPT !["legacy"] = badge]
  OBVIOUS
<1>14. badges \in [Scenes!BadgeTags -> SceneBadges] /\ \A t \in Scenes!BadgeTags : badges[t].there => t = "legacy"
  BY <1>8, <1>9
<1>10. PICK c : c = [e EXCEPT !.wrapper = "legacy", !.shows = {"first"}, !.filters = filters, !.ears = ears,
                              !.badges = badges, !.retired = TRUE]
  OBVIOUS
<1>11. Scenes!Old = c
  BY <1>1, <1>2, <1>3, <1>5, <1>6, <1>7, <1>9, <1>10, <1>14 DEF Scenes!Old, Collections
<1>12. /\ c \in Collections /\ ~c.loaded /\ c.titles = e.titles /\ c.shows = {"first"} /\ c.wrapper = "legacy"
       /\ c.badges = badges
  <2>1. PICK shows \in SUBSET LiveScenes : shows = {"first"}
    BY ScenesAssumption
  <2> QED
    BY <1>2, <1>10, <1>14, <2>1 DEF Collections
<1>13. Sound(c)
  BY <1>2, <1>12, <1>14 DEF Sound
<1> QED
  BY <1>11, <1>12, <1>13

LEMMA ScenesInitOK == Scenes!AutoInit => ScenesInvariant
<1> SUFFICES ASSUME Scenes!AutoInit PROVE Joined(coll, held)
  BY DEF ScenesInvariant
<1>1. Sound(coll) /\ ~coll.loaded
  <2>1. PICK o : o = Scenes!Old
    OBVIOUS
  <2>2. coll = Scenes!Empty \/ coll = o \/ coll = [o EXCEPT !.squatter = TRUE]
    BY <2>1, Zenon DEF Scenes!AutoInit
  <2>3. Sound(o) /\ ~o.loaded /\ o \in Collections
    BY <2>1, OldIsSound
  <2>4. CASE coll = [o EXCEPT !.squatter = TRUE]
    <3>1. coll \in Collections /\ SamePlaces(o, coll)
      BY <2>3, <2>4 DEF Collections, SamePlaces
    <3> QED
      BY <2>3, <3>1, SoundKept DEF SamePlaces
  <2> QED
    BY <2>2, <2>3, <2>4, EmptyIsSound
<1>2. PICK live \in SceneNames \cup {NotLive} :
         held = [state |-> "Inactive", live |-> live, video |-> Scenes!NoRef, ears |-> {}, overlay |-> TRUE,
                 corner |-> 0, shown |-> FALSE]
  BY Zenon DEF Scenes!AutoInit, NotLive
<1>3. /\ held \in SceneHolds /\ held.state = "Inactive" /\ held.video = Scenes!NoRef /\ held.ears = {}
      /\ ~held.shown
  <2> HIDE DEF NotLive
  <2> QED
    BY <1>2 DEF SceneHolds
<1> QED
  BY <1>1, <1>3, ReleasedJoins

LEMMA ScenesStep ==
    ASSUME ScenesInvariant, [Scenes!AutoNext]_scenesVars
    PROVE  ScenesInvariant'
<1>1. Joined(coll, held)
  BY DEF ScenesInvariant
<1>2. CASE UNCHANGED scenesVars
  BY <1>1, <1>2, Zenon DEF scenesVars, ScenesInvariant
<1>3. CASE Scenes!AutoNext
  <2>1. Joined(coll', held')
    BY <1>1, <1>3, SwitchOnStep, RemoveSceneStep, RenameFilterStep, RenameSceneStep, RemoveFilterStep, AskStep,
       EditBadgeStep, NamesakeStep, FilledStep, SwitchOffStep, EndStep, CollectionLoadStep, DuplicateStep,
       RemoveWrapperStep, RenameMicStep, Zenon DEF Scenes!AutoNext
  <2> QED
    BY <2>1, Zenon DEF ScenesInvariant
<1> QED
  BY <1>2, <1>3

LEMMA OneAtMost ==
    ASSUME NEW S, \A x, y \in S : x = y
    PROVE  Scenes!Cardinality(S) <= 1
<1>0. Scenes!Cardinality(S) = Cardinality(S)
  BY Zenon DEF Scenes!Cardinality, Cardinality
<1>1. CASE S = {}
  BY <1>0, <1>1, FS_EmptySet
<1>2. CASE S # {}
  <2>1. PICK x \in S : S = {x}
    BY <1>2
  <2> QED
    BY <1>0, <2>1, FS_Singleton
<1> QED
  BY <1>1, <1>2

LEMMA ScenesIsEnough == ScenesInvariant => Scenes!OnlyOursIsOn
<1> SUFFICES ASSUME Joined(coll, held) PROVE Scenes!OnlyOursIsOn
  BY DEF ScenesInvariant
<1>1. Sound(coll) /\ coll \in Collections /\ held \in SceneHolds
  BY DEF Joined, Sound
<1>2. Scenes!AutoTypeOK
  BY <1>1, CollectionFields, HoldFields DEF Scenes!AutoTypeOK
<1>3. Scenes!Cardinality(coll.shows) <= 1
  BY <1>1, OneAtMost DEF Sound
<1>4. Scenes!Cardinality({t \in Scenes!BadgeTags : coll.badges[t].there}) <= 1
  <2>1. \A t, u \in {t \in Scenes!BadgeTags : coll.badges[t].there} : t = u
    BY <1>1 DEF Sound
  <2> QED
    BY <2>1, OneAtMost, Zenon
<1>5. ASSUME coll.loaded
      PROVE  /\ Scenes!On(coll) \subseteq (IF held.state = "Inactive" THEN {} ELSE {held.video})
             /\ Scenes!EarsOn(coll) \subseteq (IF held.state = "Inactive" THEN {} ELSE held.ears)
             /\ held.state # "Inactive" /\ Scenes!Alive(coll, held.video) => held.video \in Scenes!On(coll)
  <2>1. VideoOn(coll, held.video) /\ EarsAreOn(coll, held.ears)
    BY <1>5 DEF Joined
  <2>2. ASSUME NEW ref \in Scenes!On(coll) PROVE ref = held.video /\ ref # Scenes!NoRef
    <3>1. PICK s \in LiveScenes, t \in Scenes!Tags : ref = <<s, t>> /\ coll.filters[s][t] = "on"
      BY <2>2 DEF Scenes!On
    <3> QED
      BY <2>1, <3>1, NoRefIsNone DEF VideoOn
  <2>3. Scenes!EarsOn(coll) \subseteq held.ears
    BY <2>1 DEF Scenes!EarsOn, EarsAreOn
  <2>4. ASSUME Scenes!Alive(coll, held.video) PROVE held.video \in Scenes!On(coll)
    <3>1. held.video \in LiveScenes \X Scenes!Tags
      BY <1>1, <2>4, HoldFields DEF Scenes!Alive
    <3>2. coll.filters[held.video[1]][held.video[2]] = "on"
      BY <2>1, <2>4, Zenon DEF VideoOn
    <3> QED
      BY <3>1, <3>2 DEF Scenes!On
  <2>5. held.state = "Inactive" => held.video = Scenes!NoRef /\ held.ears = {}
    BY DEF Joined
  <2> QED
    BY <2>2, <2>3, <2>4, <2>5
<1>6. ASSUME held.state = "Active"
      PROVE  \A t \in Scenes!BadgeTags : coll.badges[t].there =>
                 (coll.badges[t].visible <=> held.shown) /\ (coll.badges[t].visible => coll.badges[t].top)
  BY <1>6 DEF Joined, Showing, BadgesShow
<1>7. held.shown => /\ held.overlay /\ held.state = "Active"
                    /\ \E t \in Scenes!BadgeTags : coll.badges[t].there
  BY DEF Joined, Showing, HasBadge
<1> QED
  BY <1>1, <1>2, <1>3, <1>4, <1>5, <1>6, <1>7 DEF Scenes!OnlyOursIsOn

-----------------------------------------------------------------------------
(* The theorems. *)

\* Unless others interfere while the delay is being switched on: a filter switched off by Disable stays off,
\* a filter switched on stays on or is being switched back on, for any audio filters, in any order, and any
\* number of threads that switch them off (obs-frontend-bridge.cpp, DelayFilterEnableSignal).
THEOREM GuardTheorem == ASSUME ~Early PROVE PartsSpec => []FiltersStay
<1>1. PartsInit => GuardInvariant
  BY GuardInit DEF PartsInit
<1>2. GuardInvariant /\ [PartsNext]_partsVars => GuardInvariant'
  <2>1. [PartsNext]_partsVars => [Next]_vars
    BY PartSteps, Zenon
  <2> QED
    BY <2>1, GuardStep, Zenon
<1>3. GuardInvariant => FiltersStay
  BY GuardIsEnough
<1> QED
  BY <1>1, <1>2, <1>3, PTL DEF PartsSpec, partsVars

\* An output error is told once or dropped, its signal is connected while it exists, and lag is
\* counted once, for any outputs, mixes and number of errors (obs-frontend-bridge.cpp, WatchOutputStops).
THEOREM HeardTheorem == PartsSpec => []HeardOnce
<1> DEFINE Inv == part = "outputs" => HeardInvariant
<1>1. PartsInit => Inv
  BY HeardInit, Zenon DEF PartsInit
<1>2. Inv /\ [PartsNext]_partsVars => Inv'
  BY PartSteps, HeardStep, Zenon
<1>3. Inv => HeardOnce
  BY HeardIsEnough DEF HeardOnce
<1> HIDE DEF Inv
<1> QED
  BY <1>1, <1>2, <1>3, PTL DEF PartsSpec, partsVars

\* A settings text that cannot be read is never destroyed; a hidden switch is off exactly when the last readable
\* file written by hand turned it off, unless a kill cut the file in the middle of a save since; and the file a
\* session saved gives the next one all the settings it ended with, until a hand edit or such a kill: for any
\* switches, delays and number of sessions and hand edits (plugin-main.cpp, LoadBufferSettings to
\* SaveBufferSettings).
THEOREM SettingsTheorem == PartsSpec => []SettingsSurvive
<1> DEFINE Inv == part = "session" => SessionInvariant
<1>1. PartsInit => Inv
  BY SessionInitOK, Zenon DEF PartsInit
<1>2. Inv /\ [PartsNext]_partsVars => Inv'
  BY PartSteps, SessionStep, Zenon
<1>3. Inv => SettingsSurvive
  BY SessionIsEnough DEF SettingsSurvive
<1> HIDE DEF Inv
<1> QED
  BY <1>1, <1>2, <1>3, PTL DEF PartsSpec, partsVars

\* A cancelled call wakes at once, its answer is true, and nobody is left to touch its memory, for any
\* replies, limit and versions (win-http.cpp, Send and ~RequestHandle).
THEOREM CallTheorem == PartsSpec => []CallEndsCleanly
<1> DEFINE Inv == part = "http" => CallInvariant
<1>1. PartsInit => Inv
  BY CallInit, Zenon DEF PartsInit
<1>2. Inv /\ [PartsNext]_partsVars => Inv'
  BY PartSteps, CallStep, Zenon
<1>3. Inv => CallEndsCleanly
  BY CallIsEnough DEF CallEndsCleanly
<1> HIDE DEF Inv
<1> QED
  BY <1>1, <1>2, <1>3, PTL DEF PartsSpec, partsVars

\* The dock shows and allows what the controller and the account really are, for any scenes, delays, qualities,
\* RAM budgets and number of fill windows (settings-ui.cpp, OnStatusChanged).
THEOREM DockTheorem == PartsSpec => []DockIsTrue
<1> DEFINE Inv == part = "dock" => DockInvariant
<1>1. PartsInit => Inv
  BY DockInitOK, Zenon DEF PartsInit
<1>2. Inv /\ [PartsNext]_partsVars => Inv'
  BY PartSteps, DockStep, Zenon
<1>3. Inv => DockIsTrue
  BY DockIsEnough DEF DockIsTrue
<1> HIDE DEF Inv
<1> QED
  BY <1>1, <1>2, <1>3, PTL DEF PartsSpec, partsVars

\* The only delay filters switched on are those of this cycle, one scene and one badge at most are in the
\* wrapper, and in Active mode the badge is visible, and above the scene, exactly when the dock asks for one and
\* the last call said that it shows it, whether or not it could be drawn and its source created: for any scenes,
\* names, corners and number of edits, whatever older versions left (obs-frontend-bridge.cpp,
\* EnsureBufferWrapperScene, SetDelayOverlay and DisableAllDelayFilters).
THEOREM ScenesTheorem == PartsSpec => []OnlyOursIsOn
<1> DEFINE Inv == part = "scenes" => ScenesInvariant
<1>1. PartsInit => Inv
  BY ScenesInitOK, Zenon DEF PartsInit
<1>2. Inv /\ [PartsNext]_partsVars => Inv'
  BY PartSteps, ScenesStep, Zenon
<1>3. Inv => OnlyOursIsOn
  BY ScenesIsEnough DEF OnlyOursIsOn
<1> HIDE DEF Inv
<1> QED
  BY <1>1, <1>2, <1>3, PTL DEF PartsSpec, partsVars
=============================================================================
