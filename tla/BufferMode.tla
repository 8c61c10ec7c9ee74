----------------------------- MODULE BufferMode -----------------------------
(***************************************************************************)
(* Buffer mode: BufferModeController, the ObsFrontendBridge calls it       *)
(* drives OBS with, the delay filters as those calls see them, and the     *)
(* fill timer of its host (the dock, or core-host's own thread).           *)
(*                                                                         *)
(* One thread (OBS's UI thread, or core-host's controller thread) runs     *)
(* every handler.  A handler decides what to do from the controller's own  *)
(* status, which no other thread writes, and then makes a sequence of      *)
(* bridge calls: that sequence is `script`, one call per step, so that the *)
(* graphics thread (Render, Capture) may run between any two of them.      *)
(* Signals from the graphics thread come back through `inbox`, OBS's queue *)
(* of UI tasks.  Time is counted in whole seconds (Second).                *)
(***************************************************************************)
EXTENDS Naturals, Sequences, FiniteSetsExt

CONSTANTS
  Canvases,     \* OBS video settings (base, output and frame rate)
  Delays,       \* seconds the user may ask for
  Heights,      \* minimum qualities the user may ask for
  Fit,          \* bufferfit::Compute: [Canvases \X Delays \X Heights -> ring]
  Loading,      \* the loading scene, or "" when none is chosen
  UserScenes,   \* scenes the user may put on Program by hand
  ChangeIn,     \* modes in which the host changes delay or quality
  MaxUpsets,    \* bound: OBS video resets, collection switches and restarts
  MaxInbox,     \* bound: restart signals left waiting for a whole second
  Generations   \* fillGeneration counts modulo this (2^32 in the code)

Modes == {"Inactive", "Filling", "Active", "Error"}
Scenes == {"wrapper", "live", Loading, "other"} \ {""}
FitResult == [slots : Nat, effective : Nat \ {0}]
MaxDelay == Max(Delays)

ASSUME FitAssumption ==
  /\ Delays \subseteq Nat \ {0}
  /\ \E longest \in Delays : \A d \in Delays : d <= longest
  /\ Fit \in [Canvases \X Delays \X Heights -> FitResult]
  /\ \A c \in Canvases, d \in Delays, h \in Heights : Fit[<<c, d, h>>].effective <= d
ASSUME SceneAssumption ==
  /\ UserScenes \subseteq Scenes
  /\ Loading \notin {"wrapper", "live"}
ASSUME ChangeAssumption == ChangeIn \subseteq Modes
ASSUME BoundAssumption ==
  /\ {MaxUpsets, MaxInbox} \subseteq Nat
  /\ Generations \in Nat /\ Generations > 1

VARIABLES
  ctl,      \* the controller: status_ and its private fields
  timer,    \* the fill timer of the dock or of core-host
  program,  \* the scene on Program
  overlay,  \* the "Delay Ns" overlay
  video,    \* the video filter's managed settings and whether it is enabled
  audio,    \* the audio filters, which are always driven together
  ring,     \* the video ring: no ring, or a fit and how much it holds
  inbox,    \* BufferRestarted tasks queued to the controller's thread
  canvas,   \* OBS's video settings
  script,   \* the bridge calls the running handler has yet to make
  upsets    \* how many of them there were

filters == <<overlay, video, audio>>
graphics == <<ring, inbox, canvas>>
vars == <<ctl, timer, program, overlay, video, audio, ring, inbox, canvas, script, upsets>>

(***************************************************************************)
(* The ring.  held = 0: empty; held = n > 0: it holds the frames of the    *)
(* last n - 1 seconds and a bit, with no gap.                              *)
(***************************************************************************)
NoRing == [slots |-> 0, effective |-> 0, canvas |-> 0, held |-> 0]
FitFor(delay, height) == Fit[<<canvas, delay, height>>]
PlannedEffective == FitFor(video.delay, video.height).effective

\* EnsureRingSized keeps the ring only if every figure of the fit matches.
Sized ==
  /\ ring # NoRing
  /\ ring.slots = FitFor(video.delay, video.height).slots
  /\ ring.effective = PlannedEffective
  /\ ring.canvas = canvas
Full == ring # NoRing /\ ring.held > ring.effective

\* libobs renders the live scene, and with it the enabled filter, while some
\* view shows it: Program itself, the wrapper that nests it, or the keep-alive.
Rendered == video.on /\ (ctl.held \/ program \in {"wrapper", "live"})
GraphicsBehind == Rendered /\ (~Sized \/ ring.held = 0)

Busy == ctl.mode \in {"Filling", "Active"}
Idle == script = <<>>
Applied == IF ctl.effective > 0 THEN Min({ctl.effective, ctl.delay}) ELSE ctl.delay

Init ==
  /\ \E d \in Delays, h \in Heights :
       /\ ctl = [mode |-> "Inactive", delay |-> d, height |-> h, effective |-> 0,
                 before |-> "", held |-> FALSE, generation |-> 0]
       /\ video = [delay |-> d, height |-> h, on |-> FALSE]
       /\ audio = [delay |-> d, on |-> FALSE]
  /\ timer = [armed |-> FALSE, left |-> 0, generation |-> 0]
  /\ program \in Scenes \ {"wrapper"}
  /\ overlay = [visible |-> FALSE, seconds |-> 0]
  /\ ring = NoRing /\ inbox = 0 /\ canvas \in Canvases
  /\ script = <<>>
  /\ upsets = 0

-----------------------------------------------------------------------------
(* The bridge calls a handler is made of. *)

Call(name) == script # <<>> /\ Head(script)[1] = name /\ script' = Tail(script)
Arg == Head(script)[2]

SetBufferFilterDelaySeconds ==
  /\ Call("delay") /\ video' = [video EXCEPT !.delay = Arg]
  /\ UNCHANGED <<ctl, timer, program, overlay, audio, graphics, upsets>>

SetBufferFilterMinResolutionHeight ==
  /\ Call("height") /\ video' = [video EXCEPT !.height = Arg]
  /\ UNCHANGED <<ctl, timer, program, overlay, audio, graphics, upsets>>

\* Disabling also empties the ring, on the graphics thread, before it returns.
SetBufferFilterEnabled ==
  /\ Call("video") /\ video' = [video EXCEPT !.on = Arg]
  /\ ring' = IF Arg THEN ring ELSE NoRing
  /\ UNCHANGED <<ctl, timer, program, overlay, audio, inbox, canvas, upsets>>

SetAudioDelayFiltersEnabled ==
  /\ Call("audio") /\ audio' = [audio EXCEPT !.on = Arg]
  /\ UNCHANGED <<ctl, timer, program, overlay, video, graphics, upsets>>

\* Mutant: audio keeps the requested delay whatever the video ring holds.
SyncAudioDelayToVideoEffective_Requested ==
  /\ Call("sync")
  /\ ctl' = [ctl EXCEPT !.effective = PlannedEffective]
  /\ audio' = [audio EXCEPT !.delay = ctl.delay]
  /\ UNCHANGED <<timer, program, overlay, video, graphics, upsets>>

\* Audio never outlasts video: it takes the delay the video filter plans for
\* the settings it has, when that is below the requested one.
SyncAudioDelayToVideoEffective ==
  /\ Call("sync")
  /\ LET target == Min({PlannedEffective, ctl.delay}) IN
       /\ ctl' = [ctl EXCEPT !.effective = target]
       /\ audio' = [audio EXCEPT !.delay = target]
  /\ UNCHANGED <<timer, program, overlay, video, graphics, upsets>>

\* Keeps the live scene rendering while Program does not show it.
AcquireLiveSceneRendering ==
  /\ Call("acquire") /\ ctl' = [ctl EXCEPT !.held = TRUE]
  /\ UNCHANGED <<timer, program, filters, graphics, upsets>>

ReleaseLiveSceneRendering ==
  /\ Call("drop") /\ ctl' = [ctl EXCEPT !.held = FALSE]
  /\ UNCHANGED <<timer, program, filters, graphics, upsets>>

SetCurrentSceneByName ==
  /\ Call("show") /\ program' = Arg
  /\ UNCHANGED <<ctl, timer, filters, graphics, upsets>>

\* sceneBeforeEnable_ = GetCurrentSceneName().
RememberScene ==
  /\ Call("remember") /\ ctl' = [ctl EXCEPT !.before = program]
  /\ UNCHANGED <<timer, program, filters, graphics, upsets>>

UpdateOverlay ==
  /\ Call("overlay")
  /\ overlay' = [visible |-> ctl.mode = "Active", seconds |-> Applied]
  /\ UNCHANGED <<ctl, timer, program, video, audio, graphics, upsets>>

\* StopDelay's own reset: no overlay, no effective delay.
HideOverlay ==
  /\ Call("hide")
  /\ overlay' = [visible |-> FALSE, seconds |-> 0]
  /\ ctl' = [ctl EXCEPT !.effective = 0]
  /\ UNCHANGED <<timer, program, video, audio, graphics, upsets>>

\* Mutant: a countdown under way is never started over.
Countdown_Once(c) ==
  IF c.mode # "Filling" THEN [timer EXCEPT !.armed = FALSE]
  ELSE IF timer.armed THEN timer
  ELSE [armed |-> TRUE, generation |-> c.generation,
        left |-> IF c.effective > 0 THEN Min({c.effective, c.delay}) ELSE c.delay]

\* The host's status callback: one countdown per fill window, for the seconds
\* that really apply, whatever other updates arrive meanwhile.
Countdown(c) ==
  IF c.mode # "Filling" THEN [timer EXCEPT !.armed = FALSE]
  ELSE IF timer.armed /\ timer.generation = c.generation THEN timer
  ELSE [armed |-> TRUE, generation |-> c.generation,
        left |-> IF c.effective > 0 THEN Min({c.effective, c.delay}) ELSE c.delay]

SetState ==
  /\ Call("state") /\ ctl' = [ctl EXCEPT !.mode = Arg, !.before = IF Arg = "Inactive" THEN "" ELSE @]
  /\ timer' = Countdown(ctl')
  /\ UNCHANGED <<program, filters, graphics, upsets>>

\* Mutant: the status changes and nobody is told.
StartWindow_Silent ==
  /\ Call("window")
  /\ ctl' = [ctl EXCEPT !.mode = "Filling", !.generation = (@ + 1) % Generations]
  /\ UNCHANGED <<timer, program, filters, graphics, upsets>>

\* A new fill window: Enable and every refill.
StartWindow ==
  /\ Call("window")
  /\ ctl' = [ctl EXCEPT !.mode = "Filling", !.generation = (@ + 1) % Generations]
  /\ timer' = Countdown(ctl')
  /\ UNCHANGED <<program, filters, graphics, upsets>>

\* The scene collection OBS loads, with the filters and Program it was saved
\* with; the ones of the old collection are gone.
CollectionLoads ==
  /\ Call("load")
  /\ video' = [video EXCEPT !.on = Arg.on] /\ audio' = [audio EXCEPT !.on = Arg.on]
  /\ program' = Arg.program /\ ring' = NoRing
  /\ UNCHANGED <<ctl, timer, overlay, inbox, canvas, upsets>>

\* FinishedLoading and SceneCollectionChanged, right after the stop above.
DisableAllDelayFilters ==
  /\ Call("clean")
  /\ video' = [video EXCEPT !.on = FALSE] /\ audio' = [audio EXCEPT !.on = FALSE]
  /\ ring' = [ring EXCEPT !.held = Min({@, 1})]
  /\ UNCHANGED <<ctl, timer, program, overlay, inbox, canvas, upsets>>

Controller ==
  \/ SetBufferFilterDelaySeconds \/ SetBufferFilterMinResolutionHeight
  \/ SetBufferFilterEnabled \/ SetAudioDelayFiltersEnabled
  \/ SyncAudioDelayToVideoEffective \/ AcquireLiveSceneRendering \/ ReleaseLiveSceneRendering
  \/ SetCurrentSceneByName \/ RememberScene \/ UpdateOverlay \/ HideOverlay
  \/ SetState \/ StartWindow \/ CollectionLoads \/ DisableAllDelayFilters

-----------------------------------------------------------------------------
(* The handlers: the calls each makes, in the code's order. *)

When(condition, calls) == IF condition THEN calls ELSE <<>>
Running(calls) ==
  /\ Idle /\ script' = calls
  /\ UNCHANGED <<timer, program, filters, graphics, upsets>>

EnableCalls ==
  << <<"delay", ctl.delay>>, <<"height", ctl.height>>, <<"sync", 0>>, <<"audio", TRUE>>,
     <<"video", TRUE>>, <<"acquire", 0>>, <<"remember", 0>> >>
  \o When(Loading # "", << <<"show", Loading>> >>)
  \o << <<"window", 0>> >>

\* Mutant: no re-entry guard.
Enable_Again == Running(EnableCalls) /\ UNCHANGED ctl

\* Pressing Enable again while it fills or runs does nothing at all.
Enable ==
  /\ ~Busy /\ Running(EnableCalls) /\ UNCHANGED ctl

\* Logged out, no live scene chosen, or no wrapper scene: nothing touched.
EnableRefused ==
  /\ ~Busy /\ Idle
  /\ ctl' = [ctl EXCEPT !.mode = "Error"]
  /\ timer' = Countdown(ctl')
  /\ UNCHANGED <<program, filters, graphics, script, upsets>>

RestoreCalls ==
  << <<"show", IF ctl.before # "" THEN ctl.before ELSE "live">> >>

\* Mutant: the audio filters are left on.
StopCalls_VideoOnly(restore) ==
  When(ctl.held, << <<"drop", 0>> >>)
  \o << <<"hide", 0>>, <<"video", FALSE>> >>
  \o When(restore, RestoreCalls)
  \o << <<"state", "Inactive">> >>

StopCalls(restore) ==
  When(ctl.held, << <<"drop", 0>> >>)
  \o << <<"hide", 0>>, <<"video", FALSE>>, <<"audio", FALSE>> >>
  \o When(restore, RestoreCalls)
  \o << <<"state", "Inactive">> >>

\* Safe in any state.
Disable == Running(StopCalls(TRUE)) /\ UNCHANGED ctl

\* Mutant: no keep-alive.
LoadingSceneCalls_NotFed == When(Loading # "", << <<"show", Loading>> >>)

LoadingSceneCalls ==
  When(Loading # "", When(~ctl.held, << <<"acquire", 0>> >>) \o << <<"show", Loading>> >>)

\* Mutant: the loading scene only once the ring restarted.
ChangeCalls_CoverLate(refill, push) ==
  << push, <<"sync", 0>> >>
  \o When(refill, LoadingSceneCalls \o << <<"window", 0>> >>) \o << <<"overlay", 0>> >>

\* A change the controller makes itself: it foresees the restart by fitting
\* the buffer before and after, and hides it before the filter empties its
\* ring.  While Filling only the status is changed.
ChangeCalls(refill, push) ==
  When(refill, LoadingSceneCalls)
  \o << push, <<"sync", 0>> >>
  \o When(refill, << <<"window", 0>> >>)
  \o << <<"overlay", 0>> >>

ForeseesRestart(delay, height) == FitFor(ctl.delay, ctl.height) # FitFor(delay, height)

SetDelaySeconds(seconds) ==
  /\ ctl.mode \in ChangeIn /\ seconds # ctl.delay
  /\ LET refill == ForeseesRestart(seconds, ctl.height) IN
       Running(When(ctl.mode = "Active", ChangeCalls(refill, <<"delay", seconds>>)))
  /\ ctl' = [ctl EXCEPT !.delay = seconds]

SetMinResolutionHeight(height) ==
  /\ ctl.mode \in ChangeIn /\ height # ctl.height
  /\ LET refill == ForeseesRestart(ctl.delay, height) IN
       Running(When(ctl.mode = "Active", ChangeCalls(refill, <<"height", height>>)))
  /\ ctl' = [ctl EXCEPT !.height = height]

OnFillTimerElapsed ==
  /\ Idle /\ timer.armed /\ timer.left = 0
  /\ timer' = [timer EXCEPT !.armed = FALSE]
  /\ script' = When(ctl.mode = "Filling",
                    When(ctl.held, << <<"drop", 0>> >>)
                    \o << <<"show", "wrapper">>, <<"sync", 0>>, <<"state", "Active">>, <<"overlay", 0>> >>)
  /\ UNCHANGED <<ctl, program, filters, graphics, upsets>>

\* BufferRestartedTask: the signal of the graphics thread, one queue hop later.
OnBufferRestarted ==
  /\ Idle /\ inbox > 0
  /\ inbox' = inbox - 1
  /\ script' = When(Busy, When(ctl.mode = "Active", LoadingSceneCalls)
                          \o << <<"sync", 0>>, <<"window", 0>>, <<"overlay", 0>> >>)
  /\ UNCHANGED <<ctl, timer, program, filters, ring, canvas, upsets>>

\* Filters saved enabled are switched off once a collection is loaded, but not
\* when the controller is left in Error.
CleanCalls == When(ctl.mode # "Error", << <<"clean", 0>> >>)

\* OBS switches to another collection: the delay stops while the old one is
\* still loaded, then the new one comes with whatever it was saved with.
SwitchCollection(on, scene) ==
  /\ Idle /\ upsets < MaxUpsets
  /\ upsets' = upsets + 1
  /\ script' = When(Busy, StopCalls(TRUE))
               \o << <<"load", [on |-> on, program |-> scene]>> >> \o CleanCalls
  /\ UNCHANGED <<ctl, timer, program, filters, graphics>>

\* A duplicate or a rename: no warning, the copy is already loaded, on the
\* scene and with the filters the running collection had.
CopyCollection ==
  /\ Idle /\ upsets < MaxUpsets
  /\ upsets' = upsets + 1
  /\ script' = << <<"load", [on |-> video.on, program |-> program]>> >>
               \o When(Busy, StopCalls(program = "wrapper")) \o CleanCalls
  /\ UNCHANGED <<ctl, timer, program, filters, graphics>>

\* OBS ends, in the middle of a handler or not, and starts again: nothing of
\* the controller survives, the filters are as they were last saved.
RestartObs(on, scene) ==
  /\ upsets < MaxUpsets
  /\ upsets' = upsets + 1
  /\ ctl' = [ctl EXCEPT !.mode = "Inactive", !.effective = 0, !.before = "", !.held = FALSE,
                        !.generation = 0]
  /\ timer' = [armed |-> FALSE, left |-> 0, generation |-> 0]
  /\ overlay' = [visible |-> FALSE, seconds |-> 0]
  /\ video' = [video EXCEPT !.on = on] /\ audio' = [audio EXCEPT !.on = on]
  /\ program' = scene /\ ring' = NoRing /\ inbox' = 0
  /\ script' = << <<"clean", 0>> >>
  /\ UNCHANGED canvas

\* The user switches scenes by hand: the plugin does not watch Program.
UserShows(scene) ==
  /\ Idle /\ program # scene /\ program' = scene
  /\ UNCHANGED <<ctl, timer, filters, graphics, script, upsets>>

Handlers ==
  \/ Enable \/ EnableRefused \/ Disable
  \/ \E d \in Delays : SetDelaySeconds(d)
  \/ \E h \in Heights : SetMinResolutionHeight(h)
  \/ OnFillTimerElapsed \/ OnBufferRestarted
  \/ \E on \in BOOLEAN, s \in Scenes : SwitchCollection(on, s) \/ RestartObs(on, s)
  \/ CopyCollection
  \/ \E s \in UserScenes : UserShows(s)

-----------------------------------------------------------------------------
(* The graphics thread, OBS's video settings and time. *)

\* EnsureRingSized: a hard resize starts an empty ring, and tells the
\* controller when frames were lost with the old one.
EnsureRingSized ==
  /\ Rendered /\ ~Sized
  /\ ring' = LET fit == FitFor(video.delay, video.height) IN
               [slots |-> fit.slots, effective |-> fit.effective, canvas |-> canvas, held |-> 0]
  /\ inbox' = IF ring # NoRing /\ ring.held > 0 THEN inbox + 1 ELSE inbox
  /\ UNCHANGED <<ctl, timer, program, filters, canvas, script, upsets>>

\* The first frame of a ring reaches it.
CaptureFrame ==
  /\ Rendered /\ Sized /\ ring.held = 0
  /\ ring' = [ring EXCEPT !.held = 1]
  /\ UNCHANGED <<ctl, timer, program, filters, inbox, canvas, script, upsets>>

\* OBS Settings > Video, on the UI thread; a frame goes by between two uses
\* of a dialog.
ResetVideo(new) ==
  /\ Idle /\ ~GraphicsBehind /\ upsets < MaxUpsets /\ new # canvas
  /\ canvas' = new /\ upsets' = upsets + 1
  /\ UNCHANGED <<ctl, timer, program, filters, ring, inbox, script>>

\* What a second adds to the ring, or a second without frames leaves of it.
Aged ==
  [ring EXCEPT !.held = IF Rendered THEN Min({@ + 1, ring.effective + 1}) ELSE Min({@, 1})]

\* A second goes by: more than a handler takes, and the graphics thread, which
\* renders every frame, is never that far behind.
Second ==
  /\ Idle /\ ~GraphicsBehind
  /\ inbox <= MaxInbox
  /\ (timer.armed /\ timer.left > 0) \/ Aged # ring
  /\ timer' = IF timer.armed /\ timer.left > 0 THEN [timer EXCEPT !.left = @ - 1] ELSE timer
  /\ ring' = Aged
  /\ UNCHANGED <<ctl, program, filters, inbox, canvas, script, upsets>>

Next ==
  \/ Controller \/ Handlers
  \/ EnsureRingSized \/ CaptureFrame \/ Second
  \/ \E c \in Canvases : ResetVideo(c)

Spec == Init /\ [][Next]_vars

\* The graphics thread renders every frame and the controller's thread ends
\* its handlers.  Its queue is first in, first out, its timer fires when it has
\* nothing else to do, and a second goes by however busy the user is: these
\* three are enabled only between handlers, so their fairness is strong.
\* Nothing the user does is fair.
Fairness ==
  /\ WF_vars(Controller) /\ WF_vars(EnsureRingSized \/ CaptureFrame)
  /\ SF_vars(OnFillTimerElapsed) /\ SF_vars(OnBufferRestarted) /\ SF_vars(Second)
FairSpec == Spec /\ Fairness

-----------------------------------------------------------------------------
(* Properties. *)

\* The type invariant.
TypeOK ==
  /\ ctl \in [mode : Modes, delay : Delays, height : Heights, effective : 0..MaxDelay,
              before : Scenes \cup {""}, held : BOOLEAN, generation : 0..(Generations - 1)]
  /\ timer \in [armed : BOOLEAN, left : 0..MaxDelay, generation : 0..(Generations - 1)]
  /\ program \in Scenes
  /\ overlay \in [visible : BOOLEAN, seconds : 0..MaxDelay]
  /\ video \in [delay : Delays, height : Heights, on : BOOLEAN]
  /\ audio \in [delay : 1..MaxDelay, on : BOOLEAN]
  /\ ring \in [slots : Nat, effective : 0..MaxDelay, canvas : Canvases \cup {0}, held : 0..(MaxDelay + 1)]
  /\ inbox \in Nat /\ canvas \in Canvases
  /\ upsets \in 0..MaxUpsets

\* While the delay is on and no restart is on its way, audio, the overlay and
\* the seconds the dock shows are those of the ring that delays the video.
InSync ==
  Idle /\ ctl.mode = "Active" /\ inbox = 0 /\ Sized =>
    /\ audio.delay = ring.effective
    /\ ctl.effective = ring.effective
    /\ overlay = [visible |-> TRUE, seconds |-> ring.effective]

\* Between two handlers the filters are on exactly while the delay is filling
\* or active, whatever a collection or a crash left saved; off, nothing of the
\* delay is left on screen. The state is well typed.
FiltersFollowMode ==
  /\ TypeOK
  /\ Idle /\ ctl.mode # "Error" =>
       /\ video.on <=> Busy
       /\ audio.on <=> Busy
       /\ ~Busy => ~ctl.held /\ ~overlay.visible /\ ~timer.armed

\* The keep-alive is paired: held only while the ring fills behind another
\* scene, and a ring that is filling is always fed.
FillingIsFed ==
  Idle => /\ ctl.held => ctl.mode = "Filling"
          /\ ctl.mode = "Filling" => Rendered

\* The delayed view goes on Program only with the whole delay in the ring, or
\* with the restart that emptied it already on its way to the controller.
ShownWhenFull ==
  [][ctl.mode = "Filling" /\ ctl'.mode = "Active" => Full \/ inbox > 0 \/ ~Sized]_vars

\* A restart the controller causes itself is never seen: by the time the
\* filter empties its ring the loading scene covers it.
RestartIsCovered ==
  [][Busy /\ ring.held > 0 /\ ring'.slots > 0 /\ ring'.held = 0 /\ ring.canvas = canvas
     /\ Loading # "" => program # "wrapper"]_vars

\* Stopping gives back the scene that was on Program when the delay was
\* switched on, so what it remembers is never replaced while it runs.
RemembersOneScene ==
  [][Busy /\ ctl'.before # ctl.before => ctl'.mode = "Inactive"]_vars

\* With the delay off, the filter keeps no ring.
OffKeepsNoRing == Idle /\ ctl.mode = "Inactive" => ring = NoRing

\* Every fill window ends: with the whole delay on Program, or switched off.
FillingEnds == ctl.mode = "Filling" ~> (ctl.mode = "Active" /\ Full) \/ ctl.mode = "Inactive"

\* Between two handlers what is switched on, fed and covered is what the mode
\* says: filters, overlay, keep-alive.
ModeIsKept == FiltersFollowMode /\ FillingIsFed

\* What viewers see: the delayed view only when it is full, no restart the
\* controller causes, and in the end the scene they saw before.
ViewersSeeNoRefill == ShownWhenFull /\ RestartIsCovered /\ RemembersOneScene
=============================================================================
