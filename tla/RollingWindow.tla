---------------------------- MODULE RollingWindow ----------------------------
(***************************************************************************)
(* perf-stats.cpp: what the policies know of the last seconds.              *)
(*                                                                         *)
(* RollingWindow keeps the last kCapacity samples in a ring and answers     *)
(* about a window of time, PerfSeries keeps the last ones of a telemetry    *)
(* window.  `seen` is every sample since the last Clear, which the code     *)
(* does not keep: the answers are compared with it.                         *)
(***************************************************************************)
EXTENDS Integers, Sequences, SequencesExt

CONSTANTS kCapacity, SampleValues, SampleTags, MaxSampleTime, MaxSamples

VARIABLES
    rw,      \* t_, v_, tag_ (as one array of samples), next_, size_
    seen,    \* every sample since Clear
    lately   \* the time

rollingVars == <<rw, seen, lately>>

kAnyTag == -1
NoSample == [t |-> 0, v |-> 0, tag |-> kAnyTag]

RollingInit == /\ rw = [samples |-> [i \in 0..kCapacity - 1 |-> NoSample], next |-> 0, size |-> 0]
               /\ seen = <<>> /\ lately = 1

\* Mutant: the ring is full one sample early.
Grown_Less(n) == IF n + 1 < kCapacity THEN n + 1 ELSE kCapacity - 1

Grown(n) == IF n + 1 < kCapacity THEN n + 1 ELSE kCapacity

Push(v, tag) ==
    /\ Len(seen) < MaxSamples
    /\ rw' = [samples |-> [rw.samples EXCEPT ![rw.next] = [t |-> lately, v |-> v, tag |-> tag]],
              next |-> (rw.next + 1) % kCapacity, size |-> Grown(rw.size)]
    /\ seen' = Append(seen, [t |-> lately, v |-> v, tag |-> tag])
    /\ UNCHANGED lately

Clear ==
    /\ seen # <<>>
    /\ rw' = [rw EXCEPT !.next = 0, !.size = 0]
    /\ seen' = <<>>
    /\ UNCHANGED lately

Later_ == /\ lately < MaxSampleTime /\ lately' = lately + 1
          /\ UNCHANGED <<rw, seen>>

RollingNext == (\E v \in SampleValues, tag \in SampleTags : Push(v, tag)) \/ Clear \/ Later_

-----------------------------------------------------------------------------
\* The k-th newest sample of the ring.
Back(k) == rw.samples[(rw.next + kCapacity - 1 - k) % kCapacity]

\* The walk stops at the first sample older than the window.
WalkEnds(from) == {k \in 0..rw.size : k = rw.size \/ Back(k).t < from}
Walked(from) == 0..(CHOOSE k \in WalkEnds(from) : \A m \in WalkEnds(from) : k <= m) - 1

Counted(now, window, tag) ==
    LET from == IF now > window THEN now - window ELSE 0
    IN  {k \in Walked(from) : Back(k).t <= now /\ (tag = kAnyTag \/ Back(k).tag = tag)}

\* The values that Summarize looks at, sorted as nth_element would find them.
Ranked(now, window, tag) ==
    LET ks == SetToSortSeq(Counted(now, window, tag), LAMBDA a, b : Back(a).v < Back(b).v \/ (Back(a).v = Back(b).v /\ a < b))
    IN  [i \in DOMAIN ks |-> Back(ks[i]).v]

\* Percentiles: the samples at n / 2 and at n * 95 / 100.
P50(ranked) == ranked[(Len(ranked) \div 2) + 1]
P95(ranked) == ranked[(IF (Len(ranked) * 95) \div 100 < Len(ranked) - 1 THEN (Len(ranked) * 95) \div 100 ELSE Len(ranked) - 1) + 1]

NewestTag(now) ==
    LET ks == {k \in 0..rw.size - 1 : Back(k).t <= now}
    IN  IF ks = {} THEN kAnyTag ELSE Back(CHOOSE k \in ks : \A m \in ks : k <= m).tag

OldestTime == IF rw.size = 0 THEN 0 ELSE rw.samples[(rw.next + kCapacity - rw.size) % kCapacity].t

-----------------------------------------------------------------------------
Kept == SubSeq(seen, IF Len(seen) > kCapacity THEN Len(seen) - kCapacity + 1 ELSE 1, Len(seen))

InWindow(now, window, tag) ==
    SelectSeq(Kept, LAMBDA s : s.t <= now /\ s.t + window >= now /\ (tag = kAnyTag \/ s.tag = tag))

\* What the policies ask is answered from every sample of the window that the ring still holds, whatever
\* time and tag they ask for: the walk over the ring that stops early, wraps and skips loses none, and the
\* percentiles are values that half and 95 % of those samples do not exceed.
WindowAnswersRight ==
    /\ \A now \in 0..MaxSampleTime, window \in 0..MaxSampleTime, tag \in SampleTags \union {kAnyTag} :
         LET expected == InWindow(now, window, tag)
             ranked == Ranked(now, window, tag)
             AtMost(x) == Len(SelectSeq(expected, LAMBDA s : s.v <= x))
         IN  /\ Len(ranked) = Len(expected)
             /\ expected # <<>> => /\ 2 * AtMost(P50(ranked)) >= Len(expected)
                                   /\ 100 * AtMost(P95(ranked)) >= 95 * Len(expected)
                                   /\ P50(ranked) <= P95(ranked)
    /\ \A now \in 0..MaxSampleTime :
         LET old == SelectSeq(Kept, LAMBDA s : s.t <= now)
         IN  NewestTag(now) = IF old = <<>> THEN kAnyTag ELSE old[Len(old)].tag
    /\ OldestTime = IF Kept = <<>> THEN 0 ELSE Kept[1].t
=============================================================================
