---------------------------- MODULE OutputWatch -----------------------------
(***************************************************************************)
(* What the bridge hears of OBS's outputs (src/obs-frontend-bridge.cpp):   *)
(* the stop signals it connects to, the tasks those queue on the UI        *)
(* thread, the frontend events, and the frames the other canvases' mixes   *)
(* skipped, read once a second.                                            *)
(*                                                                         *)
(* `outs' is OBS's own: outputs start, stop, fail and go on threads of     *)
(* their own, other plugins' without a frontend event.  `watch' is the     *)
(* bridge on the UI thread; WatchOutputStops lists the outputs under OBS's *)
(* lock, then connects to each without it, holding a reference of its own. *)
(* The main mix's skipped frames are the filter's own business and so left *)
(* out of what this module reads.                                          *)
(***************************************************************************)
EXTENDS Integers, FiniteSets

CONSTANTS
    Outputs_,       \* outputs OBS can create in a run
    Mixes,          \* video mixes, "main" among them
    MaxSkipped,     \* frames a mix can skip
    MaxErrors       \* encoder errors of a run

VARIABLES outs, watch
watchVars == <<outs, watch>>

Active(o) == outs.phase[o] = "active"
Exists(o) == outs.phase[o] \in {"stopped", "active"}
None == [m \in {} |-> 0]
Quiet == ~watch.listing

-----------------------------------------------------------------------------
(* OBS's outputs, on their own threads                                     *)

Create(o, mix) ==
    /\ outs.phase[o] = "none"
    /\ outs' = [outs EXCEPT !.phase[o] = "stopped", !.mix[o] = mix]
    /\ UNCHANGED watch

\* "stop" is emitted only with the output's code; an encoder error queues a task.
OutputStopSignal(o, error) ==
    watch' = IF o \in watch.connected /\ error
             THEN [watch EXCEPT !.queued = @ + 1, !.sent = @ + 1] ELSE watch
StopOutput(o, error) ==
    /\ Active(o) /\ (error => outs.errors < MaxErrors)
    /\ outs' = [outs EXCEPT !.phase[o] = "stopped", !.errors = IF error THEN @ + 1 ELSE @]
    /\ OutputStopSignal(o, error)

\* Not while the bridge holds a reference; its signal handler goes with it.
Destroy(o) ==
    /\ outs.phase[o] = "stopped" /\ o \notin watch.refs
    /\ outs' = [outs EXCEPT !.phase[o] = "gone"]
    /\ watch' = [watch EXCEPT !.connected = @ \ {o}]

SkipFrame(m) ==
    /\ outs.skipped[m] < MaxSkipped
    /\ outs' = [outs EXCEPT !.skipped[m] = @ + 1] /\ UNCHANGED watch

-----------------------------------------------------------------------------
(* WatchOutputStops                                                        *)

\* Destroyed outputs are forgotten; the active ones are listed with references.
Listed(w) == [w EXCEPT !.listing = TRUE, !.watched = {o \in @ : Exists(o)},
                       !.refs = {o \in Outputs_ : Active(o)}]
Connect(o) ==
    /\ ~Quiet /\ o \in watch.refs
    /\ watch' = [watch EXCEPT !.refs = @ \ {o}, !.watched = @ \cup {o},
                              !.connected = IF o \in watch.watched THEN @ ELSE @ \cup {o}]
    /\ UNCHANGED outs
Watched ==
    /\ ~Quiet /\ watch.refs = {}
    /\ watch' = [watch EXCEPT !.listing = FALSE] /\ UNCHANGED outs

\* Their signals no longer reach the bridge.
UnwatchOutputStops(w) == [w EXCEPT !.connected = {}, !.watched = {}]

-----------------------------------------------------------------------------
(* Skipped frames                                                          *)

\* The mixes of the active outputs, the main one apart, each once.
MixesNow == {outs.mix[o] : o \in {p \in Outputs_ : Active(p)}} \ {"main"}
Baselines == [m \in MixesNow |-> outs.skipped[m]]
Since(base, m) ==
    IF m \in DOMAIN base /\ outs.skipped[m] > base[m] THEN outs.skipped[m] - base[m] ELSE 0
TakeMixSkippedFrames_Merged(w) ==
    [w EXCEPT !.base = [m \in MixesNow \cup DOMAIN @ |-> IF m \in DOMAIN @ THEN @[m] ELSE outs.skipped[m]],
              !.lag = [m \in Mixes |-> @[m] + IF m \in MixesNow THEN Since(w.base, m) ELSE 0]]
TakeMixSkippedFrames(w) ==
    [w EXCEPT !.base = Baselines,
              !.lag = [m \in Mixes |-> @[m] + IF m \in MixesNow THEN Since(w.base, m) ELSE 0]]

-----------------------------------------------------------------------------
(* The UI thread                                                           *)

\* A fresh baseline: what this first reading returns is not reported.
Enable ==
    /\ Quiet /\ watch.up /\ ~watch.on
    /\ watch' = Listed([TakeMixSkippedFrames(watch) EXCEPT
                            !.on = TRUE, !.lag = [m \in Mixes |-> 0], !.start = outs.skipped])
    /\ UNCHANGED outs
Disable == Quiet /\ watch.on /\ watch' = [watch EXCEPT !.on = FALSE] /\ UNCHANGED outs
Tick ==
    /\ Quiet /\ watch.on
    /\ watch' = Listed(TakeMixSkippedFrames(watch)) /\ UNCHANGED outs

\* Started through OBS's frontend: the STARTED event comes with it, and the
\* bridge watches before it hands it on.  Another plugin's start has none.
FrontendEventCallback(o) ==
    /\ Quiet /\ outs.phase[o] = "stopped"
    /\ outs' = [outs EXCEPT !.phase[o] = "active"]
    /\ watch' = IF watch.up THEN [watch EXCEPT !.listing = TRUE,
                                               !.watched = {p \in @ : Exists(p)},
                                               !.refs = {p \in Outputs_ : Active(p)} \cup {o}]
                ELSE watch
OtherStart(o) ==
    /\ outs.phase[o] = "stopped"
    /\ outs' = [outs EXCEPT !.phase[o] = "active"] /\ UNCHANGED watch

\* A task still queued when the bridge shut down finds it gone.
TaskRuns_Unguarded(w) == [w EXCEPT !.queued = @ - 1, !.told = @ + 1]
TaskRuns(w) == [w EXCEPT !.queued = @ - 1, !.told = IF w.up THEN @ + 1 ELSE @,
                         !.dropped = IF w.up THEN @ ELSE @ + 1]
OutputEncodeErrorTask ==
    Quiet /\ watch.queued > 0 /\ watch' = TaskRuns(watch) /\ UNCHANGED outs

Shutdown ==
    /\ Quiet /\ watch.up
    /\ watch' = [UnwatchOutputStops(watch) EXCEPT !.up = FALSE, !.on = FALSE, !.atShutdown = watch.told]
    /\ UNCHANGED outs

-----------------------------------------------------------------------------
WatchInit ==
    /\ outs = [phase |-> [o \in Outputs_ |-> "none"], mix |-> [o \in Outputs_ |-> "main"],
               skipped |-> [m \in Mixes |-> 0], errors |-> 0]
    /\ watch = [up |-> TRUE, on |-> FALSE, listing |-> FALSE, refs |-> {}, watched |-> {},
                connected |-> {}, queued |-> 0, sent |-> 0, told |-> 0, dropped |-> 0,
                atShutdown |-> 0, base |-> None, lag |-> [m \in Mixes |-> 0],
                start |-> [m \in Mixes |-> 0]]

WatchNext ==
    \/ \E o \in Outputs_, m \in Mixes : Create(o, m)
    \/ \E o \in Outputs_, error \in BOOLEAN : StopOutput(o, error)
    \/ \E o \in Outputs_ : Destroy(o) \/ Connect(o) \/ FrontendEventCallback(o) \/ OtherStart(o)
    \/ \E m \in Mixes : SkipFrame(m)
    \/ Watched \/ Enable \/ Disable \/ Tick \/ OutputEncodeErrorTask \/ Shutdown

WatchSpec == WatchInit /\ [][WatchNext]_watchVars

-----------------------------------------------------------------------------
(* Properties                                                              *)

WatchTypeOK ==
    /\ outs.phase \in [Outputs_ -> {"none", "stopped", "active", "gone"}]
    /\ watch.queued \in 0..MaxErrors /\ watch.told \in 0..MaxErrors

(* Whatever starts, stops, fails or goes while the outputs are being       *)
(* watched: an output's encoder error that the bridge heard is told to the *)
(* controller once, or dropped because the bridge had shut down, never     *)
(* both and never after it; only outputs that exist are connected, every   *)
(* watched one is, and none once the bridge is down; and the frames        *)
(* reported as lag are frames the other mixes really skipped since the     *)
(* delay was turned on, none of them twice (obs-frontend-bridge.cpp,       *)
(* TakeMixSkippedFrames and WatchOutputStops).                             *)
HeardOnce ==
    /\ WatchTypeOK
    /\ watch.sent = watch.queued + watch.told + watch.dropped
    /\ ~watch.up => watch.told = watch.atShutdown /\ watch.connected = {}
    /\ \A o \in watch.connected : Exists(o)
    /\ \A o \in watch.watched : Exists(o) => o \in watch.connected
    /\ watch.on => \A m \in Mixes : watch.lag[m] <= outs.skipped[m] - watch.start[m]
    /\ watch.lag["main"] = 0
=============================================================================
