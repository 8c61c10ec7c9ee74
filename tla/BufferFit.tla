------------------------------ MODULE BufferFit ------------------------------
(***************************************************************************)
(* buffer-fit.cpp and encoder-check.cpp: how large the delay ring is, from *)
(* the scene, OBS's video settings, the delay asked for and the RAM        *)
(* budget, and which ceiling OBS's encoders put on its picture.            *)
(*                                                                         *)
(* Sizes and rates are pairs; a scale, a double in the code, is the exact  *)
(* fraction <<numerator, denominator>> it stands for.                      *)
(***************************************************************************)
EXTENDS Integers, Sequences, FiniteSetsExt

UpDiv(a, b) == (a + b - 1) \div b

LeScale(a, b) == a[1] * b[2] <= b[1] * a[2]
MinScale(a, b) == IF LeScale(a, b) THEN a ELSE b
MaxScale(a, b) == IF LeScale(a, b) THEN b ELSE a

Nv12FrameBytes(w, h) == (w * h * 3) \div 2

\* A quarter second of slack, and at least a group of pictures.
SlackFrames(delay, fps, gop) ==
    IF delay = 0 THEN 0 ELSE Max({UpDiv(fps[1], 4 * fps[2]), gop})

DesiredFrames(delay, fps, gop) == UpDiv(delay * fps[1], fps[2]) + SlackFrames(delay, fps, gop) + 1

KeyframeIntervalFrames(fps) == UpDiv(fps[1], 2 * fps[2])

\* ApplyStorageClass: the ratio assumed, and the group of pictures the ring has slack for.
RingClasses == {"intra", "intra-gop", "inter"}
Ratio(class) == IF class = "inter" THEN 12 ELSE 5
Gop(class, fps) == IF class = "intra" THEN 0 ELSE KeyframeIntervalFrames(fps)

\* A scene the size of the canvas is never buffered larger than OBS's output.
OutputCapScale(in) ==
    IF ~in.cap \/ in.source # in.base THEN <<1, 1>>
    ELSE MinScale(<<1, 1>>, MaxScale(<<in.out[1], in.base[1]>>, <<in.out[2], in.base[2]>>))

Rounded(n, s) == Min({n, (2 * n * s[1] + s[2]) \div (2 * s[2])})

EvenDim(n, s) == (Max({2, Rounded(n, s)}) \div 2) * 2

\* The nearest multiple of 8 that is not above the source.
AlignedWidth(n, s) ==
    LET near == ((Rounded(n, s) + 4) \div 8) * 8
    IN  Max({8, IF near > n THEN (n \div 8) * 8 ELSE near})

FloorScale(in) == MinScale(OutputCapScale(in), MinScale(<<1, 1>>, <<in.minH, in.source[2]>>))

BytesAt(in, s) == Nv12FrameBytes(AlignedWidth(in.source[1], s), EvenDim(in.source[2], s))

\* Budgets are in raw bytes of one ratio: the ratio multiplies the budget instead of dividing the frames.
RawBudget(in) == in.budget * Ratio(in.class)
Desired(in) == DesiredFrames(in.delay, in.fps, Gop(in.class, in.fps))
Fits(in, s) == Desired(in) * BytesAt(in, s) <= RawBudget(in)

\* The largest height whose exact cost fits, then down in whole rows until the rounded picture does.
IdealRows(in) ==
    LET h == in.source[2]
        full == Nv12FrameBytes(in.source[1], h)
        cap == OutputCapScale(in)
        under == {r \in 0..h : Desired(in) * full * r * r <= RawBudget(in) * h * h}
    IN  Min({Max(under), (h * cap[1]) \div cap[2]})

ReducedScale(in) ==
    LET lowest == Rounded(in.source[2], FloorScale(in))
        rows == {r \in lowest + 1..Max({lowest, IdealRows(in)}) : Fits(in, <<r, in.source[2]>>)}
    IN  IF rows = {} THEN FloorScale(in) ELSE <<Max(rows), in.source[2]>>

FitScale(in) == IF Fits(in, OutputCapScale(in)) THEN OutputCapScale(in) ELSE ReducedScale(in)

\* A ring too short for the delay: whole seconds, with the slack in front when there is room for it.
ShortDelay(in, frames) ==
    LET span == frames - 1
        slack == SlackFrames(in.delay, in.fps, Gop(in.class, in.fps))
        withMargin == (Max({0, span - slack}) * in.fps[2]) \div in.fps[1]
    IN  Min({in.delay, IF withMargin = 0 THEN (span * in.fps[2]) \div in.fps[1] ELSE withMargin})

Compute(in) ==
    LET s == FitScale(in)
        room == RawBudget(in) \div BytesAt(in, s)
        frames == IF room >= Desired(in) THEN Desired(in) ELSE Max({1, room})
    IN  [width |-> AlignedWidth(in.source[1], s), height |-> EvenDim(in.source[2], s), frames |-> frames,
         effective |-> IF frames >= Desired(in) THEN in.delay ELSE ShortDelay(in, frames)]

-----------------------------------------------------------------------------
(* encoder-check.cpp *)

\* Within two percent.
SameAspectRatio(a, b) ==
    LET l == a[1] * b[2]  r == b[1] * a[2]  larger == Max({l, r})
    IN  larger - Min({l, r}) <= (larger \div 100) * 2

\* An encoder of a mix libobs does not list is placed by its aspect ratio.
Classify(enc, base, out) ==
    CASE enc.mix = "main" -> "main"
      [] enc.mix = "other" -> "other"
      [] OTHER -> IF SameAspectRatio(enc.size, base) \/ SameAspectRatio(enc.size, out) THEN "byAspect" ELSE "other"

\* The largest scale an encoder of the main canvas needs, when all of them are known and below the output.
NoCeiling == <<0, 0>>

EncoderCeiling(encoders, base, out, cap, raw) ==
    LET unknown == \E e \in encoders : e.mix = "unlisted" /\ Classify(e, base, out) = "other"
        ours == {e \in encoders : Classify(e, base, out) # "other"}
        needs == {MaxScale(<<e.size[1], base[1]>>, <<e.size[2], base[2]>>) : e \in ours}
        need == CHOOSE s \in needs : \A t \in needs : LeScale(t, s)
        most == MinScale(<<1, 1>>, MaxScale(<<out[1], base[1]>>, <<out[2], base[2]>>))
        At(s) == <<AlignedWidth(base[1], s), EvenDim(base[2], s)>>
    IN  IF ~cap \/ raw \/ unknown \/ ours = {} THEN NoCeiling
        ELSE IF LeScale(most, need) \/ (At(need)[1] >= At(most)[1] /\ At(need)[2] >= At(most)[2]) THEN NoCeiling
        ELSE At(need)

\* Lifting the cap would give an encoder of the main canvas pixels it now lacks.
CapLimitsBuffer(capped, uncapped) == uncapped.width > capped.width \/ uncapped.height > capped.height

ShouldWarn(enc, base, out, capped, uncapped, cap) ==
    /\ cap /\ CapLimitsBuffer(capped, uncapped)
    /\ Classify(enc, base, out) # "other"
    /\ enc.size[1] > capped.width \/ enc.size[2] > capped.height
=============================================================================
