---------------------------- MODULE BufferSizing ----------------------------
(***************************************************************************)
(* Who decides the ring's size and the audio's delay, and from what: the   *)
(* dock pushes values that apply at once, others write the filter's        *)
(* settings, which reach it at the next video tick, OBS's video settings   *)
(* change under it, and the first Render sizes a ring long after the       *)
(* controller has told the audio filters which delay it will have.         *)
(***************************************************************************)
EXTENDS BufferFit

CONSTANTS
    Scenes_,       \* sizes of the live scene
    VideoSettings, \* [base, out, fps]
    Delays_, MinHeights, Budgets,
    Outputs,       \* [active: sets of [mix, size] that encode, raw: an output takes the main mix as it is]
    MaxChanges     \* bound: changes of settings, by anyone

VARIABLES
    obsVideo,     \* OBS's video settings; the live scene and the RAM budget
    dock,         \* the controller: off, filling or active; delay, floor, cap; the cycle's ring class
    vfSettings,   \* the filter's settings: [delay, minH, cap, class]
    vfApplied,    \* what it has applied of them, whether the dock manages it, whether Update() is due
    vfRing,       \* the ring: its size and what it was computed from, and the mix it last saw
    audioSeconds, \* the audio filters' delay
    encodes,      \* active encoders, a raw output on the main mix; the ceiling pushed, and applied
    szChanges

sizingVars == <<obsVideo, dock, vfSettings, vfApplied, vfRing, audioSeconds, encodes, szChanges>>

NoRing == [width |-> 0, height |-> 0, frames |-> 0, effective |-> 0]
NotPushed == <<-1, -1>>

SizingInit ==
    /\ obsVideo \in [video : VideoSettings, scene : Scenes_, budget : Budgets]
    /\ dock = [state |-> "off", delay |-> Max(Delays_), minH |-> Min(MinHeights), cap |-> TRUE, class |-> "intra",
               worked |-> FALSE, warned |-> {}]
    /\ vfSettings = [delay |-> 0, minH |-> Min(MinHeights), cap |-> TRUE, class |-> "intra"]
    /\ vfApplied = [delay |-> 0, minH |-> Min(MinHeights), cap |-> TRUE, class |-> "intra",
                    managed |-> FALSE, due |-> FALSE]
    /\ vfRing = [fit |-> NoRing, in |-> <<>>, mix |-> obsVideo.video]
    /\ audioSeconds = 0
    /\ encodes = [active |-> {}, raw |-> FALSE, ceiling |-> NotPushed]
    /\ szChanges = 0

Changes == szChanges < MaxChanges /\ szChanges' = szChanges + 1

Input(s, video) ==
    [source |-> obsVideo.scene, base |-> video.base, out |-> video.out, fps |-> video.fps, budget |-> obsVideo.budget,
     delay |-> s.delay, minH |-> s.minH, cap |-> s.cap, class |-> s.class]

\* Mutant: the settings count, also those the dock overrules.
Planned_OfSettings(settings, applied) ==
    IF settings.delay = 0 THEN 0 ELSE Compute(Input(settings, obsVideo.video)).effective

\* PlannedEffectiveDelaySeconds: OBS's video as it is now; the dock's delay and floor once it manages them.
Planned(settings, applied) ==
    LET s == IF applied.managed THEN [settings EXCEPT !.delay = applied.delay, !.minH = applied.minH] ELSE settings
    IN  IF s.delay = 0 THEN 0 ELSE Compute(Input(s, obsVideo.video)).effective

\* SyncAudioDelayToVideoEffective, from what the filter reports.
SyncAudio(planned, delay) == audioSeconds' = IF planned > 0 /\ planned < delay THEN planned ELSE delay

\* SetManagedSetting, applied at once and in the settings, and the deferred update that follows it; then
\* the class, pushed likewise, and the cap, which waits for the update.
Push(settings) ==
    LET applied == [vfApplied EXCEPT !.delay = settings.delay, !.minH = settings.minH, !.class = settings.class,
                                     !.managed = TRUE, !.due = TRUE]
    IN  /\ vfSettings' = settings
        /\ vfApplied' = applied
        /\ SyncAudio(Planned(settings, applied), settings.delay)

NextCycleRingClass == IF dock.worked THEN "inter" ELSE "intra-gop"

\* WarnAboutEncodersAboveBuffer: against the capped and the uncapped buffer of this cycle.
WarnAboutEncodersAboveBuffer(class, active) ==
    LET in == Input([delay |-> dock.delay, minH |-> dock.minH, cap |-> TRUE, class |-> class], obsVideo.video)
        capped == Compute(in)
        uncapped == Compute([in EXCEPT !.cap = FALSE])
    IN  {e \in active : ShouldWarn(e, obsVideo.video.base, obsVideo.video.out, capped, uncapped, dock.cap)}

CeilingOf(active, raw) == EncoderCeiling(active, obsVideo.video.base, obsVideo.video.out, dock.cap, raw)

\* BufferModeController::Enable.  The class is the cycle's from here on.
Enable_ ==
    /\ dock.state = "off"
    /\ LET class == NextCycleRingClass
       IN  /\ dock' = [dock EXCEPT !.state = "filling", !.class = class,
                                   !.warned = WarnAboutEncodersAboveBuffer(class, encodes.active)]
           /\ Push([delay |-> dock.delay, minH |-> dock.minH, cap |-> dock.cap, class |-> class])
    /\ encodes' = [encodes EXCEPT !.ceiling = CeilingOf(encodes.active, encodes.raw)]
    /\ UNCHANGED <<obsVideo, vfRing, szChanges>>

\* Disable: the ring goes at the next Render or with the filter; it may come back at another size.
Disable_ ==
    /\ dock.state # "off"
    /\ dock' = [dock EXCEPT !.state = "off"]
    /\ vfRing' = [vfRing EXCEPT !.fit = NoRing, !.in = <<>>]
    /\ UNCHANGED <<obsVideo, vfSettings, vfApplied, audioSeconds, encodes, szChanges>>

\* OnFillTimerElapsed re-reads the delay, in case the fit changed meanwhile.  The fill lasts seconds: the
\* first frame has come by then.
FillEnds ==
    /\ dock.state = "filling" /\ vfRing.fit # NoRing
    /\ dock' = [dock EXCEPT !.state = "active"]
    /\ SyncAudio(Planned(vfSettings, vfApplied), dock.delay)
    /\ UNCHANGED <<obsVideo, vfSettings, vfApplied, vfRing, encodes, szChanges>>

\* SetDelaySeconds and SetMinResolutionHeight: pushed while the delay is active, else at the next Enable.
\* The dock's controls are off while it fills.
DockSets ==
    /\ Changes /\ dock.state # "filling"
    /\ \E delay \in Delays_, minH \in MinHeights :
         /\ <<delay, minH>> # <<dock.delay, dock.minH>>
         /\ dock' = [dock EXCEPT !.delay = delay, !.minH = minH]
         /\ IF dock.state = "active" THEN Push([vfSettings EXCEPT !.delay = delay, !.minH = minH])
            ELSE UNCHANGED <<vfSettings, vfApplied, audioSeconds>>
    /\ UNCHANGED <<obsVideo, vfRing, encodes>>

\* OBS's Defaults button, an older properties dialog, obs-websocket.
ForeignSettings ==
    /\ Changes
    /\ \E delay \in {0} \cup Delays_ : vfSettings' = [vfSettings EXCEPT !.delay = delay, !.minH = Max(MinHeights)]
    /\ vfApplied' = [vfApplied EXCEPT !.due = TRUE]
    /\ UNCHANGED <<obsVideo, dock, vfRing, audioSeconds, encodes>>

\* A hardware codec worked, or the plugin settings file has the cap switched off: at the next Enable.
NextCycleDiffers ==
    /\ Changes
    /\ dock' \in {[dock EXCEPT !.worked = TRUE], [dock EXCEPT !.cap = ~@]}
    /\ dock.state = "off"
    /\ UNCHANGED <<obsVideo, vfSettings, vfApplied, vfRing, audioSeconds, encodes>>

\* OBS Settings > Video; OBS allows it with no output running.  A dialog: frames are rendered before the
\* user is through with it again.
VideoReset ==
    /\ Changes /\ encodes.active = {} /\ ~encodes.raw
    /\ vfRing.mix = obsVideo.video
    /\ vfRing.fit # NoRing => vfRing.in = Input(vfApplied, vfRing.mix)
    /\ \E v \in VideoSettings : v # obsVideo.video /\ obsVideo' = [obsVideo EXCEPT !.video = v]
    /\ UNCHANGED <<dock, vfSettings, vfApplied, vfRing, audioSeconds, encodes>>

\* What libobs lists when asked again: active encoders with the mix each one renders.
ListActiveVideoEncoders == {o \in Outputs : <<o.active, o.raw>> # <<encodes.active, encodes.raw>>}

\* An output starts or stops: RefreshObsEncoders and, for a new one, the warning.
OutputsChange ==
    /\ Changes
    /\ \E o \in ListActiveVideoEncoders :
         /\ encodes' = [active |-> o.active, raw |-> o.raw,
                        ceiling |-> IF dock.state # "off" THEN CeilingOf(o.active, o.raw) ELSE encodes.ceiling]
         /\ dock' = IF dock.state # "off"
                    THEN [dock EXCEPT !.warned = @ \cup WarnAboutEncodersAboveBuffer(dock.class, o.active)]
                    ELSE dock
    /\ UNCHANGED <<obsVideo, vfSettings, vfApplied, vfRing, audioSeconds>>

\* The video tick: libobs calls a deferred Update(), and the filter reads OBS's video settings.
VideoTick ==
    /\ vfApplied' = [vfApplied EXCEPT
           !.due = FALSE,
           !.delay = IF vfApplied.due /\ ~vfApplied.managed THEN vfSettings.delay ELSE @,
           !.minH = IF vfApplied.due /\ ~vfApplied.managed THEN vfSettings.minH ELSE @,
           !.cap = IF vfApplied.due THEN vfSettings.cap ELSE @,
           !.class = IF vfApplied.due THEN vfSettings.class ELSE @]
    /\ vfRing' = [vfRing EXCEPT !.mix = obsVideo.video]
    /\ UNCHANGED <<obsVideo, dock, vfSettings, audioSeconds, encodes, szChanges>>

\* Render calls EnsureRingSized: a ring that fits what it reads, and when one was there,
\* BufferRestarted has the controller sync the audio again.
EnsureRingSized ==
    /\ dock.state # "off" /\ vfApplied.delay > 0
    /\ LET in == Input(vfApplied, vfRing.mix)
           fit == Compute(in)
       IN  /\ in # vfRing.in
           /\ vfRing' = [vfRing EXCEPT !.fit = fit, !.in = in]
           /\ IF vfRing.fit \notin {NoRing, fit} THEN SyncAudio(Planned(vfSettings, vfApplied), dock.delay)
              ELSE UNCHANGED audioSeconds
    /\ UNCHANGED <<obsVideo, dock, vfSettings, vfApplied, encodes, szChanges>>

SizingNext ==
    \/ Enable_ \/ FillEnds \/ Disable_ \/ DockSets \/ ForeignSettings \/ NextCycleDiffers \/ VideoReset
    \/ OutputsChange \/ VideoTick \/ EnsureRingSized

-----------------------------------------------------------------------------
Span(fit, fps) == (fit.frames - 1) * fps[2]

\* A ring holds what it promises: its effective delay is within its span, with the slack in front when the
\* delay was shortened or not; it stays in the RAM budget, at or above the floor, at or below the output.
RingKeepsPromise ==
    LET in == vfRing.in  fit == vfRing.fit
    IN  fit # NoRing =>
          /\ fit.effective * in.fps[1] <= Span(fit, in.fps)
          /\ fit.effective \in 1..in.delay
          /\ fit.frames = 1 \/ fit.frames * Nv12FrameBytes(fit.width, fit.height) <= RawBudget(in)
          /\ fit.height >= EvenDim(in.source[2], FloorScale(in))
          /\ fit.height <= EvenDim(in.source[2], OutputCapScale(in))
          /\ fit.effective < in.delay => fit.height = EvenDim(in.source[2], FloorScale(in))

\* The sound never runs ahead of or behind the picture.  Whatever others write into the settings and however
\* late the filter hears of it: while the delay is active, once the tick has come and the ring has its size, the audio filters' delay is
\* the ring's own.  The dock's delay is the one in use, and an encoder of the main canvas is never given a
\* picture smaller than it encodes.
AudioGetsTheRingsDelay ==
    /\ RingKeepsPromise
    /\ dock.state # "off" => vfApplied.delay = dock.delay /\ vfApplied.minH = dock.minH
    /\ dock.state = "active" /\ ~vfApplied.due /\ vfRing.mix = obsVideo.video /\ vfRing.in = Input(vfApplied, vfRing.mix)
         => audioSeconds = vfRing.fit.effective
    /\ dock.state # "off" /\ encodes.ceiling \notin {NoCeiling, NotPushed}
         => \A e \in encodes.active : e.mix # "other" =>
              /\ AlignedWidth(obsVideo.video.base[1], <<e.size[1], obsVideo.video.base[1]>>) <= encodes.ceiling[1]
              /\ (e.size[2] \div 2) * 2 <= encodes.ceiling[2]
=============================================================================
