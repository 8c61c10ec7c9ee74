---------------------------- MODULE MCFilterParts ----------------------------
(* The parts of the filters and of their pipeline that are checked alone: a    *)
(* behaviour is one of one part, the others stay as they are at first.         *)
EXTENDS FrameArena

CONSTANTS
    ProbeFrames, SecondKey, QuickFrames, QueueSize, PictureCache, NoSeq, MaxSent, MaxFaults,  \* HwCodec
    Geometries, RatedRungs, DelayCells, PrimeCells, GapCells, LogCells, RawFrames_, MaxClock, MaxCycles_,
    MaxTrouble,                                                                               \* RenderPath
    SampleRate, AudioDelays, MaxChunk, MaxTime, MaxPushes, Silence,                           \* AudioDelay
    Scenes_, VideoSettings, Delays_, MinHeights, Budgets, Outputs, MaxChanges,                \* BufferSizing
    Rungs_, HalfRate, Machines, PlayDelay, ChangeCooldown, ImmediateSettle, UpHold, MaxOdd, MaxForced,
                                                                                         \* DegradationPolicy
    kCapacity, SampleValues, SampleTags, MaxSampleTime, MaxSamples                            \* RollingWindow

ASSUME HardwareAssumption ==
    /\ ProbeFrames \in Nat /\ SecondKey \in Nat \ {0} /\ SecondKey < ProbeFrames
    /\ QuickFrames \in Nat \ {0} /\ PictureCache \in Nat /\ NoSeq \notin Nat

VARIABLES
    part,   \* which
    hwEncoder, ffmpeg, hwProbe, hwEntry, hwDecoder, handed,
    vf, raws, wants, clk, trouble,
    auFilter, auRing, auSource, auOut, delivered,
    obsVideo, dock, vfSettings, vfApplied, vfRing, audioSeconds, encodes, szChanges,
    machine, dp, top, line, forced, blamed,
    rw, seen, lately

Codecs == INSTANCE HwCodec
Staging == INSTANCE RenderPath
Sound == INSTANCE AudioDelay
Sizing == INSTANCE BufferSizing
Ladder == INSTANCE DegradationPolicy
Window == INSTANCE RollingWindow

\* A small ring and one of another size and length; a rung of half the size at half the rate.
MCGeometries == {[size |-> 1, slots |-> 3], [size |-> 1, slots |-> 4], [size |-> 2, slots |-> 3]}
MCRungs == {[part |-> 1, divisor |-> 1], [part |-> 2, divisor |-> 2]}

\* OBS's settings and one below its canvas at a broken rate; a portrait scene; encoders of a part of the
\* canvas, of a mix of an unlisted canvas, of another plugin's.
MCHd == [base |-> <<64, 36>>, out |-> <<64, 36>>, fps |-> <<4, 1>>]
MCVideoSettings == {MCHd, [base |-> <<64, 36>>, out |-> <<40, 22>>, fps |-> <<7, 2>>]}
MCScenes == {<<64, 36>>, <<36, 64>>}
MCOutputs ==
    {[active |-> {}, raw |-> FALSE],
     [active |-> {[mix |-> "main", size |-> <<64, 36>>]}, raw |-> TRUE],
     [active |-> {[mix |-> "main", size |-> <<32, 18>>], [mix |-> "unlisted", size |-> <<20, 36>>]},
      raw |-> FALSE],
     [active |-> {[mix |-> "unlisted", size |-> <<32, 18>>], [mix |-> "other", size |-> <<22, 40>>]},
      raw |-> FALSE]}

\* What each stage of a frame costs, in percent of a frame's time.
MCMachines == [graphics : {10, 30, 60}, encode : {40, 300}, decode : {20, 90, 130}]
-----------------------------------------------------------------------------
\* What the variables of the other parts are.
Idle == "idle"

hardwareVars == <<hwEncoder, ffmpeg, hwProbe, hwEntry, hwDecoder, handed>>
stagingVars == <<vf, raws, wants, clk, trouble>>
soundVars == <<auFilter, auRing, auSource, auOut, delivered>>
sizingVars == <<obsVideo, dock, vfSettings, vfApplied, vfRing, audioSeconds, encodes, szChanges>>
ladderVars == <<machine, dp, top, line, forced, blamed>>
windowVars == <<rw, seen, lately>>

PartsInit ==
    /\ part \in {"arena", "hardware", "staging", "sound", "sizing", "ladder", "window"}
    /\ Init
    /\ \/ part = "hardware" /\ Codecs!HwCodecInit
       \/ part # "hardware" /\ hwEncoder = Idle /\ ffmpeg = Idle /\ hwProbe = Idle
          /\ hwEntry = Idle /\ hwDecoder = Idle /\ handed = Idle
    /\ \/ part = "staging" /\ Staging!RenderPathInit
       \/ part # "staging" /\ vf = Idle /\ raws = Idle /\ wants = Idle /\ clk = Idle /\ trouble = Idle
    /\ \/ part = "sound" /\ Sound!AudioInit
       \/ part # "sound" /\ auFilter = Idle /\ auRing = Idle /\ auSource = Idle
          /\ auOut = Idle /\ delivered = Idle
    /\ \/ part = "sizing" /\ Sizing!SizingInit
       \/ part # "sizing" /\ obsVideo = Idle /\ dock = Idle /\ vfSettings = Idle /\ vfApplied = Idle
          /\ vfRing = Idle /\ audioSeconds = Idle /\ encodes = Idle /\ szChanges = Idle
    /\ \/ part = "ladder" /\ Ladder!DegradationInit
       \/ part # "ladder" /\ machine = Idle /\ dp = Idle /\ top = Idle /\ line = Idle /\ forced = Idle
          /\ blamed = Idle
    /\ \/ part = "window" /\ Window!RollingInit
       \/ part # "window" /\ rw = Idle /\ seen = Idle /\ lately = Idle

PartsNext ==
    \/ /\ part = "arena" /\ Next
       /\ UNCHANGED <<part, hardwareVars, stagingVars, soundVars, sizingVars, ladderVars, windowVars>>
    \/ /\ part = "hardware" /\ Codecs!HwCodecNext
       /\ UNCHANGED <<part, vars, stagingVars, soundVars, sizingVars, ladderVars, windowVars>>
    \/ /\ part = "staging" /\ Staging!RenderPathNext
       /\ UNCHANGED <<part, vars, hardwareVars, soundVars, sizingVars, ladderVars, windowVars>>
    \/ /\ part = "sound" /\ Sound!AudioNext
       /\ UNCHANGED <<part, vars, hardwareVars, stagingVars, sizingVars, ladderVars, windowVars>>
    \/ /\ part = "sizing" /\ Sizing!SizingNext
       /\ UNCHANGED <<part, vars, hardwareVars, stagingVars, soundVars, ladderVars, windowVars>>
    \/ /\ part = "ladder" /\ Ladder!DegradationNext
       /\ UNCHANGED <<part, vars, hardwareVars, stagingVars, soundVars, sizingVars, windowVars>>
    \/ /\ part = "window" /\ Window!RollingNext
       /\ UNCHANGED <<part, vars, hardwareVars, stagingVars, soundVars, sizingVars, ladderVars>>

PartsSpec ==
    /\ PartsInit
    /\ [][PartsNext]_<<part, vars, hardwareVars, stagingVars, soundVars, sizingVars,
                    ladderVars, windowVars>>
    \* Fairness of FrameArena.
    /\ WF_vars(part = "arena" /\ Trim)
-----------------------------------------------------------------------------
\* The properties of the parts, each where its part runs.

\* What the pipeline is handed as packet n is the packet of its frame n, never one of the probe (hw-storage-
\* codec.cpp, Send and Receive).
PacketsAreThePipelines == part = "hardware" => Codecs!PacketsAreThePipelines

\* A capture arrives whole, in its own size, and the picture is as old as the delay (video-delay-filter.cpp,
\* CaptureFrame and DrawDelayed).
PictureIsWholeAndDelayed == part = "staging" => Staging!PictureIsWholeAndDelayed

\* The mixer hears what the source delivered one delay ago, or silence (audio-delay-filter.cpp,
\* FilterAudio).
HeardIsDelayed == part = "sound" => Sound!HeardIsDelayed

\* The audio filters have the delay of the ring the picture is in (buffer-mode-controller.cpp,
\* SyncAudioDelayToVideoEffective).
AudioGetsTheRingsDelay == part = "sizing" => Sizing!AudioGetsTheRingsDelay

\* The capture is no smaller than the machine needs, and larger again only when that fits
\* (degradation-policy.cpp, Evaluate).
NeverLowerThanNeeded == part = "ladder" => Ladder!NeverLowerThanNeeded

\* A window of samples is answered from all of it that the ring still holds (perf-stats.cpp,
\* Summarize).
WindowAnswersRight == part = "window" => Window!WindowAnswersRight
=============================================================================
