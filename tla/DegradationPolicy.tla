-------------------------- MODULE DegradationPolicy --------------------------
(***************************************************************************)
(* degradation-policy.cpp and the filter's evaluation of it: steps of      *)
(* encode parallelism and rungs of picture size, down when a thread is     *)
(* overloaded, up when one step more is predicted to fit for a while.      *)
(*                                                                         *)
(* The machine is the environment: what a full-size frame costs the        *)
(* graphics thread, one encode context and the decoder, in percent of the  *)
(* frame interval; cost follows pixels.  Whatever its loads, OBS may lag,  *)
(* captures be dropped and due frames missed, and a metric may have too    *)
(* few samples.  Time passes in evaluations.  The decoder works `delay`    *)
(* behind the captures, so it meets a rung's frames that much later.       *)
(***************************************************************************)
EXTENDS Integers, Sequences, SequencesExt

CONSTANTS
    Rungs_,        \* resolution rungs above the floor
    HalfRate,      \* allowHalfRate: the floor again at half the frame rate
    Machines,      \* [graphics, encode, decode: Nat]
    PlayDelay,     \* evaluations between capture and decode
    ChangeCooldown, ImmediateSettle, UpHold,   \* in evaluations
    MaxOdd,        \* bound: what goes wrong or is not measured at one evaluation
    MaxForced      \* bound: changes from outside (codec policy, ceiling)

VARIABLES
    machine,
    dp,        \* the policy: rung, step, initial and last step, evaluations since the last change, as the
               \* next one will see it, and since one step up looked fine (-1: not)
    top,       \* the size its ladder starts at: 0, or the encoders' ceiling
    line,      \* the frames between capture and decode, the oldest first: size, and the rung and codec as their tag
    forced,    \* changes from outside so far
    blamed     \* history: the rungs whose own frames were in trouble when they were left

degradationVars == <<machine, dp, top, line, forced, blamed>>

\* Pixels in percent: sizes in 0.83 steps down to the floor, then the floor at half rate.
BuildLadder(rungs, half) ==
    LET sizes == SubSeq(<<[pixels |-> 100, divisor |-> 1], [pixels |-> 69, divisor |-> 1],
                          [pixels |-> 47, divisor |-> 1], [pixels |-> 33, divisor |-> 1]>>, 1, rungs)
    IN  IF half THEN Append(sizes, [Last(sizes) EXCEPT !.divisor = 2]) ELSE sizes

RungTable == BuildLadder(Rungs_, HalfRate)
Size(r) == top + r
Lowest == Len(RungTable) - 1 - top

\* Threaded: 1x1, 2x1, 2x2; `speed` in percent of one context (a second slice: 1.6 times).
Steps == <<[speed |-> 100], [speed |-> 200], [speed |-> 320]>>

\* Loads in percent of the capture interval, at a size of the ladder.
CaptureLoad(cost, n) == (cost * RungTable[n + 1].pixels) \div (100 * RungTable[n + 1].divisor)
EncodeLoad(n, s) == (CaptureLoad(machine.encode, n) * 100) \div Steps[s + 1].speed
DecodeLoad(n) == CaptureLoad(machine.decode, n)
GraphicsLoad(n) == (machine.graphics * RungTable[n + 1].pixels) \div 100

\* Sample: what went wrong in the window, each over its rate and with enough samples (obsLaggedFrames,
\* encodeDrops, decodeMisses), and the metrics with fewer samples than minSamples.
Samples ==
    {s \in [wrong : SUBSET {"lagged", "drops", "misses"}, few : SUBSET {"graphics", "short", "encode", "decode"}] :
       Cardinality(s.wrong) + Cardinality(s.few) <= MaxOdd}

\* InitialParallelism: the first step with a predicted load of at most 70 %.
InitialParallelism ==
    LET fits == {s \in 0..2 : EncodeLoad(0, s) <= 70}
    IN  IF fits = {} THEN 2 ELSE CHOOSE s \in fits : \A t \in fits : s <= t

DegradationInit ==
    /\ machine \in Machines
    /\ dp = [rung |-> 0, step |-> InitialParallelism, initial |-> InitialParallelism, last |-> 2,
             since |-> 0, up |-> -1]
    /\ top = 0
    /\ line = [i \in 1..PlayDelay |-> [size |-> 0, tag |-> <<0, 2>>]]
    /\ forced = 0 /\ blamed = {}

Settled == dp.since >= ChangeCooldown

\* Every frame is tagged with the rung it was captured at and the codec it is for (with one step, or three).
CaptureTag == <<dp.rung, dp.last>>

\* Mutant: the decoder's load counts whatever rung its frames are of.
DecodeCurrent_Any == TRUE

\* The frames the decoder works on were captured at this rung, by their tag.
DecodeCurrent == line[1].tag = CaptureTag

EncodeDown(s) ==
    /\ Settled
    /\ \/ "encode" \notin s.few /\ EncodeLoad(Size(dp.rung), dp.step) > 80
       \/ "drops" \in s.wrong
DecodeDown(s) ==
    /\ Settled /\ DecodeCurrent
    /\ \/ "decode" \notin s.few /\ DecodeLoad(line[1].size) > 80
       \/ "misses" \in s.wrong
GraphicsDown(s) ==
    \/ Settled /\ "graphics" \notin s.few /\ GraphicsLoad(Size(dp.rung)) > IF "lagged" \in s.wrong THEN 25 ELSE 40
    \/ dp.since >= ImmediateSettle /\ "short" \notin s.few /\ GraphicsLoad(Size(dp.rung)) > 50

CanLower == dp.rung < Lowest
CanParallelize == dp.step < dp.last

\* One step up as predicted from what is measured now, by the ratio of pixels and with a margin of 10 %.
FitsHigher ==
    LET now == RungTable[Size(dp.rung) + 1]  next == RungTable[Size(dp.rung - 1) + 1]
        decode == machine.decode * RungTable[line[1].size + 1].pixels   \* decodeP95Ms
    IN  /\ GraphicsLoad(Size(dp.rung - 1)) * 11 <= 25 * 10
        /\ EncodeLoad(Size(dp.rung - 1), dp.step) * 11 <= 50 * 10
        /\ decode * next.pixels * 11 <= 50 * 10 * 100 * now.pixels * next.divisor
FitsFewer == EncodeLoad(Size(dp.rung), dp.step - 1) * 11 <= 50 * 10

\* Policy::Apply, then the windows start over.
Apply(changed) == dp' = [changed EXCEPT !.since = 1, !.up = -1]

Waits(up) == dp' = [dp EXCEPT !.since = IF @ < ChangeCooldown THEN @ + 1 ELSE @, !.up = up]

Lower == [dp EXCEPT !.rung = @ + 1]

\* Policy::Evaluate: at most one step.  `blocked`: the storage codec's veto.
EvaluateDown(s) ==
    \/ EncodeDown(s) /\ CanParallelize /\ Apply([dp EXCEPT !.step = @ + 1])
    \/ EncodeDown(s) /\ ~CanParallelize /\ CanLower /\ Apply(Lower)
    \/ ~EncodeDown(s) /\ (DecodeDown(s) \/ GraphicsDown(s)) /\ CanLower /\ Apply(Lower)
    \/ ~CanLower /\ (EncodeDown(s) => ~CanParallelize) /\ Waits(-1)

Higher == \/ dp.rung > 0 /\ FitsHigher
          \/ dp.rung = 0 /\ dp.step > dp.initial /\ FitsFewer

EvaluateUp(s, blocked) ==
    IF blocked \/ ~Settled \/ ~DecodeCurrent \/ s.few \cap {"graphics", "encode", "decode"} # {} \/ ~Higher
    THEN Waits(-1)
    ELSE IF dp.up + 1 < UpHold THEN Waits(dp.up + 1)
    ELSE IF dp.rung > 0 THEN Apply([dp EXCEPT !.rung = @ - 1])
    ELSE Apply([dp EXCEPT !.step = @ - 1])

\* Whose frames were in trouble: the lag and the drops are of the rung in use, the misses of the rung the
\* decoder's frames were captured at.
Troubled(s) ==
    (IF "drops" \in s.wrong \/ ("lagged" \in s.wrong /\ GraphicsLoad(Size(dp.rung)) > 25) THEN {dp.rung} ELSE {})
    \cup (IF "misses" \in s.wrong THEN {line[1].tag[1]} ELSE {})

\* One evaluation, and the frames that were captured and decoded until the next.
MaybeEvaluateDegradation ==
    /\ \E s \in Samples, blocked \in IF forced > 0 THEN BOOLEAN ELSE {FALSE} :
         /\ IF EncodeDown(s) \/ DecodeDown(s) \/ GraphicsDown(s) THEN EvaluateDown(s) ELSE EvaluateUp(s, blocked)
         /\ blamed' = {r \in blamed : r < dp.rung} \cup Troubled(s)
    /\ line' = Append(Tail(line), [size |-> Size(dp'.rung), tag |-> CaptureTag'])
    /\ UNCHANGED <<machine, top, forced>>

\* The storage codec's early warning.
ForceLower ==
    /\ forced < MaxForced /\ CanLower
    /\ RungTable[Size(dp.rung) + 2].divisor = RungTable[Size(dp.rung) + 1].divisor
    /\ Apply(Lower)
    /\ forced' = forced + 1
    /\ UNCHANGED <<machine, top, line, blamed>>

\* The storage codec changed: the hardware encoder has one step.
SetParallelism ==
    /\ forced < MaxForced
    /\ \/ dp.last = 2 /\ dp' = [dp EXCEPT !.step = 0, !.initial = 0, !.last = 0, !.since = 0, !.up = -1]
       \/ dp.last = 0 /\ dp' = [dp EXCEPT !.step = InitialParallelism, !.initial = InitialParallelism,
                                          !.last = 2, !.since = 0, !.up = -1]
    /\ forced' = forced + 1
    /\ UNCHANGED <<machine, top, line, blamed>>

\* Another ladder, under the ceiling OBS's encoders put on the picture or without it: the capture size
\* stays or gets smaller, unless it was at the top.
ApplyEncoderCeiling ==
    /\ forced < MaxForced
    /\ top' = IF top = 0 THEN 1 ELSE 0
    /\ LET size == Size(dp.rung)
           rung == IF dp.rung = 0 THEN 0 ELSE IF size < top' THEN 0 ELSE size - top'
       IN  dp' = [dp EXCEPT !.rung = rung, !.since = 0, !.up = -1]
    /\ forced' = forced + 1
    /\ UNCHANGED <<machine, line, blamed>>

DegradationNext == MaybeEvaluateDegradation \/ ForceLower \/ SetParallelism \/ ApplyEncoderCeiling

-----------------------------------------------------------------------------
Fits(n, s) == EncodeLoad(n, s) <= 80 /\ DecodeLoad(n) <= 80 /\ GraphicsLoad(n) <= 40

\* The picture is never made smaller than needed: every rung above the one in use does not fit the machine, or
\* was left when its own frames were in trouble (OBS lagged under its load, captures were dropped, due
\* frames missed), whatever the cooldowns, and although the decoder shows what a change did only after
\* the delay.  And the step up that looks fine is one the machine can do: the picture does not swing.
NeverLowerThanNeeded ==
    /\ dp.rung \in 0..Lowest /\ dp.step \in 0..2
    /\ forced = 0 => \A n \in 0..dp.rung - 1 : ~Fits(n, 2) \/ n \in blamed
    /\ forced = 0 /\ dp.up >= 0 => IF dp.rung > 0 THEN Fits(dp.rung - 1, dp.step) ELSE Fits(0, dp.step - 1)
=============================================================================
