------------------------------ MODULE RenderPath ------------------------------
(***************************************************************************)
(* VideoDelayFilter on the graphics thread (video-delay-filter.cpp):        *)
(* Render sizes the ring, captures once per cell of time, maps what was     *)
(* staged two captures ago and hands it to the encoders, draws the frame    *)
(* that is due, and keeps the telemetry window.                             *)
(*                                                                         *)
(* A capture goes through three staging slots, because the GPU needs two    *)
(* frames to read it back; every step of it can fail.  Time is in frame     *)
(* intervals.  A capture is its number in its ring's life.                  *)
(***************************************************************************)
EXTENDS Integers, Sequences

CONSTANTS
    Geometries,      \* [size, slots]: what bufferfit gives the ring, more slots than wait in staging
    RatedRungs,           \* [part, divisor]: size and rate of the degradation ladder
    DelayCells,      \* the effective delay, in frame intervals
    PrimeCells,      \* kDecodePrimeWindowNs
    GapCells, LogCells,   \* kPerfGapResetNs (and kPerfMinWindowNs), kPerfLogIntervalNs
    RawFrames_,      \* raw frames of the pipeline
    MaxClock, MaxCycles_, MaxTrouble   \* bounds: time, rings, failures and changes

VARIABLES
    vf,         \* the filter's fields
    raws,       \* free raw frames
    wants,      \* the geometry asked for, or none: a delay of 0
    clk, trouble

renderPathVars == <<vf, raws, wants, clk, trouble>>

kStagingSlotCount == 3

EmptySlot == [pending |-> FALSE, surfaces |-> <<>>, ring |-> 0, no |-> 0]
NoPicture == [have |-> FALSE, shown |-> 0, divisor |-> 1, due |-> 0]
NoGeometry == [size |-> 0, slots |-> 0]
NoWindow == [start |-> 0, last |-> 0, calls |-> 0, lost |-> FALSE, holds |-> FALSE]

\* The filter as it is created, without a ring.
NewFilter ==
    [ring |-> 0, cycles |-> 0, geometry |-> NoGeometry, rung |-> [part |-> 1, divisor |-> 1],
     cell |-> -1, next |-> 0, slots |-> [i \in 0..kStagingSlotCount - 1 |-> EmptySlot],
     tries |-> 0,       \* calls of CaptureFrame for this ring
     caps |-> <<>>,     \* captures of this ring: time, size, fate
     textures |-> <<>>, pic |-> NoPicture, primed |-> 0,
     win |-> NoWindow, health |-> FALSE]

RenderPathInit ==
    /\ vf = NewFilter /\ raws = RawFrames_
    /\ wants \in Geometries
    /\ clk = 1 /\ trouble = 0

CaptureSize(f) == <<f.geometry.size, f.rung.part>>

PublishHealth(f, running) == [f EXCEPT !.health = running /\ f.ring # 0]

\* Every window starts empty; the figures of the last one go to the dock.
LogPerfWindow(f) ==
    IF f.win.calls = 0 \/ f.win.last - f.win.start < GapCells THEN [f EXCEPT !.win = NoWindow]
    ELSE [PublishHealth(f, TRUE) EXCEPT !.win = NoWindow]

BeginRenderSample(f, now) ==
    IF f.win.calls > 0 /\ now - f.win.last > GapCells THEN LogPerfWindow(f) ELSE f

FinishRenderSample(f, now) ==
    LET start == IF f.win.calls = 0 THEN now ELSE f.win.start
        g == [f EXCEPT !.win.start = start, !.win.last = now, !.win.calls = 1]
    IN  IF now - start >= LogCells THEN LogPerfWindow(g) ELSE g

InvalidatePlaybackCache(f) == [f EXCEPT !.pic = NoPicture]

\* Mutant: what is staged stays for the next ring.
Unstaged_Not(slots) == slots

\* A cycle that ends forgets what is staged; the surfaces stay.
Unstaged(slots) == [i \in DOMAIN slots |-> [slots[i] EXCEPT !.pending = FALSE]]

StopCycle(f) ==
    [InvalidatePlaybackCache(f) EXCEPT
        !.ring = 0, !.tries = 0, !.caps = <<>>, !.slots = Unstaged(f.slots), !.next = 0, !.cell = -1, !.primed = 0,
        !.rung = [part |-> 1, divisor |-> 1]]

ReleaseSizedGpuObjects(f) ==
    [InvalidatePlaybackCache(f) EXCEPT
        !.textures = <<>>, !.slots = [i \in DOMAIN f.slots |-> [EmptySlot EXCEPT !.pending = FALSE]]]

\* Render: no delay, or the filter was switched off.
EndOfDelay(f) ==
    PublishHealth([ReleaseSizedGpuObjects(StopCycle(LogPerfWindow(f))) EXCEPT
                      !.geometry = NoGeometry], FALSE)

EnsureRingSized(f, geometry) ==
    IF f.ring # 0 /\ f.geometry = geometry THEN f
    ELSE LET ended == IF f.ring # 0 THEN StopCycle(f) ELSE f
             sized == IF f.geometry.size # geometry.size THEN ReleaseSizedGpuObjects(ended) ELSE ended
         IN  PublishHealth([InvalidatePlaybackCache(sized) EXCEPT
                               !.ring = f.cycles + 1, !.cycles = @ + 1, !.geometry = geometry,
                               !.next = 0, !.cell = -1], TRUE)

\* Cells are numbered per interval: a new interval counts from the start.
ApplyCurrentRung(f, rung) ==
    [f EXCEPT !.rung = rung, !.cell = IF rung.divisor = f.rung.divisor THEN @ ELSE -1]

Decide(f, no, fate) == [f EXCEPT !.caps[no].fate = fate]

\* Mutant: the slot's surfaces are reused whatever their size.
Surfaces_Reused(have, size) == IF have = <<>> THEN size ELSE have

\* Staging surfaces have a fixed size: another one is a new surface.
Surfaces(have, size) == size

\* `ok`: the surfaces could be mapped.
HarvestStagingSlot(f, i, free, ok) ==
    LET no == f.slots[i].no
        g == [f EXCEPT !.slots[i].pending = FALSE]
    IN  IF f.slots[i].ring # f.ring \/ no \notin DOMAIN f.caps THEN g    \* MarkDropped refuses
        ELSE IF ~free THEN [Decide(g, no, "dropped") EXCEPT !.win.lost = TRUE]
        ELSE IF ~ok THEN [Decide(g, no, "dropped") EXCEPT !.win.lost = TRUE]
        ELSE [Decide(g, no, "submitted") EXCEPT !.caps[no].raw = f.slots[i].surfaces, !.caps[no].sent = f.tries]

\* Mutant: the slot just staged is mapped at once.
HarvestFirst_Last(f) == (f.next + 2) % kStagingSlotCount

\* The capture staged two captures ago.
HarvestFirst(f) == (f.next + 1) % kStagingSlotCount

Harvested(f, free, ok) ==
    LET i == HarvestFirst(f)
        g == IF f.slots[i].pending THEN HarvestStagingSlot(f, i, free, ok) ELSE f
    IN  IF g.slots[f.next].pending THEN HarvestStagingSlot(g, f.next, free, ok) ELSE g

NewCapture(f) ==
    [at |-> clk, size |-> CaptureSize(f), fate |-> "reserved", raw |-> <<>>, taken |-> f.tries, sent |-> 0]

\* The slot the ring would reuse holds a capture nobody has decided yet, or one a reader has pinned.
MayBeBusy(f) == Len(f.caps) >= f.geometry.slots

\* CaptureFrame: `reserved` and `staged` say whether the ring took it and the GPU rendered it.
CaptureFrame(f, free, ok, reserved, staged) ==
    LET h == Harvested([f EXCEPT !.tries = @ + 1], free, ok)
        kick == f.next
        g == [h EXCEPT !.next = (f.next + 1) % kStagingSlotCount]
        no == Len(g.caps) + 1
        taken == [g EXCEPT !.caps = Append(@, NewCapture(g))]
    IN  IF ~reserved THEN [g EXCEPT !.win.lost = TRUE]
        ELSE IF ~staged THEN [Decide(taken, no, "dropped") EXCEPT !.win.lost = TRUE]
        ELSE [taken EXCEPT !.slots[kick] =
                 [pending |-> TRUE, surfaces |-> Surfaces(f.slots[kick].surfaces, CaptureSize(f)),
                  ring |-> f.ring, no |-> no]]

InRing(f) == {no \in DOMAIN f.caps : no > Len(f.caps) - f.geometry.slots}
OldestInRing(f) == IF Len(f.caps) > f.geometry.slots THEN Len(f.caps) - f.geometry.slots + 1 ELSE 1
DueAt(f, target) == {no \in InRing(f) : f.caps[no].at <= target}
Newest(S) == CHOOSE no \in S : \A m \in S : m <= no

\* What the playback pool may hand out: a frame that was submitted, due, and newer than the last one shown.
Decoded(f, target) == {no \in DueAt(f, target) : f.caps[no].fate = "submitted" /\ no > f.pic.shown}

Drawn(f, no) ==
    IF no = 0 THEN f
    ELSE [f EXCEPT !.textures = f.caps[no].size, !.pic.have = TRUE, !.pic.shown = no, !.pic.divisor = f.rung.divisor]

\* A frame that becomes due and is not the one shown is counted once, whatever holds it.
HoldCounted(f, target) ==
    IF DueAt(f, target) = {} \/ Newest(DueAt(f, target)) <= f.pic.due THEN f
    ELSE [f EXCEPT !.pic.due = Newest(DueAt(f, target)),
                   !.win.holds = @ \/ (f.pic.have /\ f.pic.shown < Newest(DueAt(f, target)))]

\* Mutant: the fill ends as soon as there is a frame.
FillTolerance_All(f) == MaxClock

\* As the fill ends the oldest frame may be a little younger than the delay.
FillTolerance(f) == 2 * f.rung.divisor

\* DrawDelayed: 0, or the frame the pool hands out.
Draws(f, now, no) ==
    LET age == now - DelayCells
        oldest == f.caps[OldestInRing(f)].at
        target == IF oldest > age THEN oldest ELSE age
    IN  IF now <= DelayCells \/ f.caps = <<>> THEN no = 0
        ELSE IF oldest - age > FillTolerance(f) THEN no = 0
        ELSE no = 0 \/ no \in Decoded(f, target)

DrawDelayed(f, now, no) ==
    LET age == now - DelayCells
        oldest == f.caps[OldestInRing(f)].at
        target == IF oldest > age THEN oldest ELSE age
    IN  IF now <= DelayCells \/ f.caps = <<>> THEN f
        ELSE IF oldest - age > FillTolerance(f)
        THEN IF oldest - age <= PrimeCells THEN [f EXCEPT !.primed = oldest] ELSE f
        ELSE HoldCounted(Drawn(f, no), target)

-----------------------------------------------------------------------------
MayFail == trouble < MaxTrouble

\* Render without a target, or with one that has no size yet.
RenderNothing ==
    /\ MayFail
    /\ vf' = BeginRenderSample(vf, clk)
    /\ trouble' = trouble + 1
    /\ UNCHANGED <<raws, wants, clk>>

\* A filter with a delay of 0 passes the video through.
RenderPassthrough ==
    /\ wants = NoGeometry
    /\ vf' = LET f == BeginRenderSample(vf, clk) IN IF f.ring # 0 THEN EndOfDelay(f) ELSE f
    /\ UNCHANGED <<raws, wants, clk, trouble>>

Submissions(f, g) == IF f.ring # g.ring THEN 0
                     ELSE Len(SelectSeq(g.caps, LAMBDA c : c.sent > 0)) - Len(SelectSeq(f.caps, LAMBDA c : c.sent > 0))

\* Render: MaybeEvaluateDegradation, a capture in a new cell, and the frame due.
Render ==
    /\ wants # NoGeometry
    /\ \/ vf.ring # 0 /\ vf.geometry = wants
       \/ vf.cycles < MaxCycles_
    /\ LET sized == EnsureRingSized(BeginRenderSample(vf, clk), wants)
       IN  \E rung \in IF MayFail THEN RatedRungs ELSE {sized.rung}, ok, reserved, staged \in BOOLEAN :
             LET f == ApplyCurrentRung(sized, rung)
                 cell == clk \div rung.divisor
                 captures == cell # f.cell
                 g == IF captures THEN CaptureFrame([f EXCEPT !.cell = cell], raws > 0, ok, reserved, staged) ELSE f
             IN  /\ ~reserved => captures /\ MayBeBusy(f) /\ staged
                 /\ ~(ok /\ staged) => captures /\ MayFail
                 /\ \E no \in 0..Len(g.caps) :
                      /\ Draws(g, clk, no)
                      /\ vf' = FinishRenderSample(DrawDelayed(g, clk, no), clk)
                 /\ raws' = raws - Submissions(sized, g)
                 /\ trouble' = IF rung # sized.rung \/ ~ok \/ ~staged THEN trouble + 1 ELSE trouble
    /\ UNCHANGED <<wants, clk>>

\* ReleaseBuffersTask: on the graphics thread, after the filter was switched off.
ReleaseBuffersTask ==
    /\ vf.ring # 0 /\ MayFail
    /\ vf' = EndOfDelay(vf)
    /\ trouble' = trouble + 1
    /\ UNCHANGED <<raws, wants, clk>>

\* The dock's settings, OBS's video settings: another size, number of slots, or no delay.
GeometryChanges ==
    /\ MayFail
    /\ wants' \in Geometries \union {NoGeometry} /\ wants' # wants
    /\ trouble' = trouble + 1
    /\ UNCHANGED <<vf, raws, clk>>

\* An encode worker gives a raw frame back.
RawFrameBack ==
    /\ raws < RawFrames_
    /\ raws' = raws + 1
    /\ UNCHANGED <<vf, wants, clk, trouble>>

TimePasses ==
    /\ clk < MaxClock
    /\ clk' = clk + 1
    /\ UNCHANGED <<vf, raws, wants, trouble>>

RenderPathNext == RenderNothing \/ RenderPassthrough \/ Render \/ ReleaseBuffersTask \/ GeometryChanges
                  \/ RawFrameBack \/ TimePasses

-----------------------------------------------------------------------------
\* A capture reaches the encoders as it was taken: in order, in the size it was rendered in, two captures
\* later (mapped sooner, the graphics thread waits for the GPU; later, it is lost when the ring wraps),
\* in its own ring; and every other one was dropped or is in exactly one staging slot, so that no ring is
\* blocked by a capture nobody will decide.
CapturesArriveWhole ==
    LET staged(no) == {i \in DOMAIN vf.slots : vf.slots[i].pending /\ vf.slots[i].no = no}
    IN  /\ \A no \in DOMAIN vf.caps :
             LET c == vf.caps[no]
             IN  CASE c.fate = "submitted" -> c.raw = c.size /\ c.sent = c.taken + 2 /\ staged(no) = {}
                   [] c.fate = "reserved" -> \E i \in DOMAIN vf.slots : staged(no) = {i}
                   [] c.fate = "dropped" -> staged(no) = {}
        /\ \A i \in DOMAIN vf.slots : vf.slots[i].pending => vf.slots[i].ring = vf.ring /\ i # vf.next
        /\ \A n, m \in DOMAIN vf.caps : n < m /\ vf.caps[m].sent > 0 => vf.caps[n].fate # "reserved"

\* The picture is of this ring and at least as old as the delay, but for two intervals as a fill ends; and
\* what the dock reads says that the buffer runs exactly while there is a ring.
PictureIsDelayed ==
    /\ vf.pic.have => /\ vf.pic.shown \in DOMAIN vf.caps
                      /\ vf.caps[vf.pic.shown].at + DelayCells <= clk + 2 * vf.pic.divisor
                      /\ vf.textures = vf.caps[vf.pic.shown].size
    /\ vf.health = (vf.ring # 0)

\* What goes in comes out whole and delayed.
PictureIsWholeAndDelayed == CapturesArriveWhole /\ PictureIsDelayed
=============================================================================
