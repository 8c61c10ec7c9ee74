-------------------------------- MODULE Dock --------------------------------
(***************************************************************************)
(* The dock (src/settings-ui.cpp, src/scene-combo-box.cpp): what it shows  *)
(* of the controller, of the account and of the buffer's health, the two   *)
(* timers it runs for the controller, and its handlers.                    *)
(*                                                                         *)
(* `mode' is BufferModeController as the dock sees it (its status, module  *)
(* BufferMode models the rest of it), `desk' what lies around: OBS's       *)
(* scenes, the account, the room the RAM budget gives and the load that    *)
(* made the buffer step down.  Scenes come and go in OBS and the load      *)
(* changes with no callback at all: the dock reads both when it refreshes. *)
(* A widget the user cannot use (disabled or hidden) takes no action.      *)
(*                                                                         *)
(* Texts, colours, icons and layout are left out; the delay and the        *)
(* quality are those the two fields offer.                                 *)
(***************************************************************************)
EXTENDS Integers

CONSTANTS
    DockScenes,     \* names of the scenes OBS can have
    DockDelays,     \* seconds the field offers
    DockQualities,  \* what a second costs at each minimum quality
    Rooms,          \* what the RAM budget holds, by OBS's video settings
    Loads,          \* causes of a lowered buffer
    MaxWindows      \* fill windows of a run

VARIABLES dock, mode, desk
dockVars == <<dock, mode, desk>>

\* The name of no scene, in the settings and in a picker.
NoScene == ""

Busy(m) == m.state \in {"Filling", "Active"}
Lesser(a, b) == IF a < b THEN a ELSE b

\* The seconds viewers really get.
AppliedDelaySeconds(m) == IF m.effective > 0 THEN Lesser(m.effective, m.delay) ELSE m.delay
RoomFor(m, k) == Lesser(m.delay, k.room \div m.quality)

LoggedIn(k) == k.account \in {"in", "inactive"}
CanEnable(k) == k.account = "in"

-----------------------------------------------------------------------------
(* What the dock shows                                                     *)

\* A picker shows its scene only while its list has it.
Shown(name, list) == IF name \in list THEN name ELSE NoScene

RefreshFitEstimate(d, m, k) ==
    [d EXCEPT !.fit = CASE m.live \notin k.scenes -> "choose a scene"
                        [] m.live \in k.scenes /\ RoomFor(m, k) = m.delay -> "fits"
                        [] OTHER -> IF Busy(m) THEN "trimmed, locked" ELSE "trimmed"]

\* The degradation notice replaces the estimate; screen readers hear it
\* appear, change its cause and, while the delay runs, go.
RefreshPipelineHealth(d, m, k) ==
    LET cause == IF Busy(m) THEN k.load ELSE "none"
    IN  [d EXCEPT !.notice = cause,
                  !.fitRow = cause = "none",
                  !.heard = CASE cause \notin {"none", d.notice} -> cause
                              [] cause = "none" /\ d.notice # "none" /\ Busy(m) -> "restored"
                              [] OTHER -> @]

\* Until OBS has loaded the collection the picker is empty and the saved name is
\* trusted.
HasScene(d, m) == m.live # NoScene /\ (m.live \in d.liveList \/ d.liveList = {})

RefreshFromStatus(d, m, k) ==
    LET busy == Busy(m)
        told == RefreshPipelineHealth([d EXCEPT !.healthTimer = busy], m, k)
    IN  RefreshFitEstimate(
            [told EXCEPT !.headline = m.state, !.announced = m.state,
                         !.locked = busy,
                         !.enableOn = ~busy /\ HasScene(d, m) /\ CanEnable(k),
                         !.disableOn = busy,
                         !.missing = IF busy THEN {}
                                     ELSE (IF CanEnable(k) THEN {} ELSE {"account"})
                                            \cup (IF HasScene(d, m) THEN {} ELSE {"scene"}),
                         !.seconds = m.delay, !.quality = m.quality,
                         !.live = Shown(m.live, d.liveList),
                         !.loading = Shown(m.loading, d.loadingList)], m, k)

AccountRow(k) ==
    [inline |-> CASE LoggedIn(k) -> "sign out"
                  [] k.account = "waiting" -> "cancel"
                  [] OTHER -> "none",
     primary |-> CASE k.account = "inactive" -> "open trigglow"
                   [] k.account = "out" -> IF k.retry THEN "retry" ELSE "sign in"
                   [] OTHER -> "none",
     copy |-> k.account = "waiting" /\ k.link]

RefreshAccountUi(d, m, k) ==
    RefreshFromStatus([d EXCEPT !.account = AccountRow(k),
                                !.linkCopied = @ /\ k.account = "waiting"], m, k)

ArmFillTimer(d, generation, seconds) ==
    [d EXCEPT !.armed = TRUE, !.window = generation, !.total = seconds, !.left = seconds]
DisarmFillTimer(d) == [d EXCEPT !.armed = FALSE]

\* Once per fill window: other updates while Filling leave the countdown alone.
OpensWindow_Unarmed(d, m) == ~d.armed
OpensWindow(d, m) == ~d.armed \/ m.generation # d.window
OnStatusChanged(d, m, k) ==
    LET seen == RefreshFromStatus(d, m, k)
    IN  IF m.state # "Filling" THEN DisarmFillTimer(seen)
        ELSE IF OpensWindow(seen, m)
             THEN ArmFillTimer(seen, m.generation, AppliedDelaySeconds(m))
             ELSE seen

\* Not before OBS has loaded its scenes.
Listed(k) == IF k.loaded THEN k.scenes ELSE {}
RefreshLiveCombo(d, m, k) ==
    [d EXCEPT !.liveList = Listed(k), !.live = Shown(m.live, Listed(k))]
RefreshLoadingCombo(d, m, k) ==
    [d EXCEPT !.loadingList = Listed(k), !.loading = Shown(m.loading, Listed(k))]
RefreshAvailableScenes(d, m, k) ==
    RefreshFromStatus(RefreshLoadingCombo(RefreshLiveCombo(d, m, k), m, k), m, k)

-----------------------------------------------------------------------------
(* What the controller does of it                                          *)

Refused(m) == [m EXCEPT !.state = "Error"]
Filling(m, k) ==
    [m EXCEPT !.state = "Filling", !.generation = @ + 1, !.effective = RoomFor(m, k)]
Enabled(m, k) == IF CanEnable(k) /\ m.live # NoScene /\ m.live \in k.scenes
                 THEN Filling(m, k) ELSE Refused(m)
Stopped(m) == [m EXCEPT !.state = "Inactive", !.effective = 0]

\* The controller's status becomes m, and it tells the dock.
Tells(m) == mode' = m /\ dock' = OnStatusChanged(dock, m, desk) /\ UNCHANGED desk

Enable == ~Busy(mode) /\ mode.generation < MaxWindows /\ Tells(Enabled(mode, desk))
PressEnable == dock.enableOn /\ Enable
HotkeyEnable == Enable
Disable == Tells(Stopped(mode))
PressDisable == dock.disableOn /\ Disable
HotkeyDisable == Disable

ChooseLive(s) == ~dock.locked /\ s \in dock.liveList /\ Tells([mode EXCEPT !.live = s])
ChooseLoading(s) ==
    ~dock.locked /\ s \in dock.loadingList \cup {NoScene} /\ Tells([mode EXCEPT !.loading = s])
ChooseSeconds(n) == ~dock.locked /\ Tells([mode EXCEPT !.delay = n])
ChooseQuality(q) == ~dock.locked /\ Tells([mode EXCEPT !.quality = q])

\* The popup rebuilds its own list only.
OpenLivePopup == ~dock.locked /\ dock' = RefreshLiveCombo(dock, mode, desk) /\ UNCHANGED <<mode, desk>>
OpenLoadingPopup ==
    ~dock.locked /\ dock' = RefreshLoadingCombo(dock, mode, desk) /\ UNCHANGED <<mode, desk>>

\* A second of the countdown, and its end.
SecondPasses ==
    /\ dock.armed /\ dock.left > 0
    /\ dock' = [dock EXCEPT !.left = @ - 1] /\ UNCHANGED <<mode, desk>>
OnFillTimerElapsed ==
    /\ dock.armed /\ dock.left = 0
    /\ Tells(IF mode.state = "Filling"
             THEN [mode EXCEPT !.state = "Active", !.effective = RoomFor(mode, desk)] ELSE mode)
HealthTick ==
    /\ dock.healthTimer
    /\ dock' = RefreshPipelineHealth(dock, mode, desk) /\ UNCHANGED <<mode, desk>>

-----------------------------------------------------------------------------
(* What happens around it                                                  *)

OnBufferRestarted == Busy(mode) /\ mode.generation < MaxWindows /\ Tells(Filling(mode, desk))
Retheme == dock' = RefreshAccountUi(dock, mode, desk) /\ UNCHANGED <<mode, desk>>

\* Unannounced: a scene added or removed, another load, other video settings.
ScenesChange(S) == desk.loaded /\ desk' = [desk EXCEPT !.scenes = S] /\ UNCHANGED <<dock, mode>>
LoadChanges(l) == Busy(mode) /\ desk' = [desk EXCEPT !.load = l] /\ UNCHANGED <<dock, mode>>
VideoReset(r) == desk' = [desk EXCEPT !.room = r] /\ UNCHANGED <<dock, mode>>

\* Loaded for the first time, or another collection: a running delay stops
\* first.
CollectionLoaded(S) ==
    LET k == [desk EXCEPT !.scenes = S, !.loaded = TRUE]
        m == IF Busy(mode) THEN Stopped(mode) ELSE mode
        d == IF Busy(mode) THEN OnStatusChanged(dock, m, k) ELSE dock
    IN  desk' = k /\ mode' = m /\ dock' = RefreshAvailableScenes(d, m, k)

\* Every change of the account calls RefreshAccountUi.
AccountBecomes(k) == desk' = k /\ dock' = RefreshAccountUi(dock, mode, k) /\ UNCHANGED mode
PressSignIn ==
    /\ desk.account = "out" /\ dock.account.primary \in {"sign in", "retry"}
    /\ LET k == [desk EXCEPT !.account = "waiting", !.link = FALSE, !.retry = FALSE]
       IN  desk' = k /\ UNCHANGED mode
           /\ dock' = RefreshAccountUi([dock EXCEPT !.linkCopied = FALSE], mode, k)
LinkArrives == desk.account = "waiting" /\ AccountBecomes([desk EXCEPT !.link = TRUE])
SignInEnds(outcome, retry) ==
    /\ desk.account = "waiting" /\ (outcome = "in" => desk.link)
    /\ AccountBecomes([desk EXCEPT !.account = outcome, !.link = FALSE,
                                   !.retry = retry /\ outcome = "out"])
PressAccount ==
    /\ dock.account.inline \in {"sign out", "cancel"}
    /\ AccountBecomes([desk EXCEPT !.account = "out", !.link = FALSE, !.retry = FALSE])
PressCopyLink ==
    /\ dock.account.copy /\ desk.link
    /\ dock' = RefreshAccountUi([dock EXCEPT !.linkCopied = TRUE], mode, desk)
    /\ UNCHANGED <<mode, desk>>
SessionChecked(outcome) ==
    LoggedIn(desk) /\ desk.account # outcome /\ AccountBecomes([desk EXCEPT !.account = outcome])

-----------------------------------------------------------------------------
Blank ==
    [headline |-> "Inactive", announced |-> "Inactive", locked |-> FALSE,
     enableOn |-> FALSE, disableOn |-> FALSE, missing |-> {}, seconds |-> 0, quality |-> 0,
     live |-> NoScene, loading |-> NoScene, liveList |-> {}, loadingList |-> {},
     fit |-> "choose a scene", fitRow |-> TRUE, notice |-> "none", heard |-> "none",
     healthTimer |-> FALSE, armed |-> FALSE, window |-> 0, total |-> 0, left |-> 0,
     account |-> [inline |-> "none", primary |-> "none", copy |-> FALSE],
     linkCopied |-> FALSE]

\* Saved settings, OBS still loading, signed in or not.
DockInit ==
    /\ mode \in [state: {"Inactive"}, generation: {0}, effective: {0},
                 live: DockScenes \cup {NoScene}, loading: {NoScene}, delay: DockDelays,
                 quality: DockQualities]
    /\ desk \in [scenes: {{}}, loaded: {FALSE}, account: {"in", "out"}, link: {FALSE},
                 retry: {FALSE}, room: Rooms, load: {"none"}]
    /\ dock = RefreshAccountUi(Blank, mode, desk)

DockNext ==
    \/ PressEnable \/ HotkeyEnable \/ PressDisable \/ HotkeyDisable
    \/ \E s \in DockScenes \cup {NoScene} : ChooseLive(s) \/ ChooseLoading(s)
    \/ \E n \in DockDelays : ChooseSeconds(n)
    \/ \E q \in DockQualities : ChooseQuality(q)
    \/ OpenLivePopup \/ OpenLoadingPopup
    \/ SecondPasses \/ OnFillTimerElapsed \/ HealthTick
    \/ OnBufferRestarted \/ Retheme
    \/ \E S \in SUBSET DockScenes : ScenesChange(S) \/ CollectionLoaded(S)
    \/ \E l \in Loads \cup {"none"} : LoadChanges(l)
    \/ \E r \in Rooms : VideoReset(r)
    \/ PressSignIn \/ LinkArrives \/ PressAccount \/ PressCopyLink
    \/ \E o \in {"in", "out"}, r \in BOOLEAN : SignInEnds(o, r)
    \/ \E o \in {"in", "inactive", "out"} : SessionChecked(o)

DockSpec == DockInit /\ [][DockNext]_dockVars

-----------------------------------------------------------------------------
(* Properties                                                              *)

DockTypeOK ==
    /\ mode.state \in {"Inactive", "Filling", "Active", "Error"}
    /\ mode.generation \in 0..MaxWindows
    /\ desk.account \in {"in", "inactive", "waiting", "out"}
    /\ dock.left \in 0..dock.total

(* Whatever the order of the user's clicks, the hotkeys, the controller's  *)
(* callbacks and the account's: the countdown that runs is that of the     *)
(* open fill window, with the seconds that window needs; the controls are  *)
(* locked, and the health poll runs, exactly while the delay does; the     *)
(* Enable button is lit only when Enable would not bounce for want of an   *)
(* account or a scene, and otherwise, with the delay off, the missing      *)
(* requirements are listed; the notice of a lowered buffer never outlives  *)
(* the delay, is never shown beside the estimate it contradicts and was    *)
(* spoken; and the account row offers what the account allows              *)
(* (settings-ui.cpp, OnStatusChanged to RefreshAccountUi).                 *)
DockIsTrue ==
    /\ DockTypeOK
    /\ dock.armed <=> mode.state = "Filling"
    /\ dock.armed => dock.window = mode.generation /\ dock.total = AppliedDelaySeconds(mode)
    /\ dock.headline = mode.state /\ dock.announced = mode.state
    /\ dock.locked = Busy(mode) /\ dock.disableOn = Busy(mode) /\ dock.healthTimer = Busy(mode)
    /\ dock.enableOn => ~Busy(mode) /\ CanEnable(desk) /\ mode.live # NoScene
    /\ ~Busy(mode) /\ ~dock.enableOn /\ ~(dock.live = NoScene /\ mode.live # NoScene) => dock.missing # {}
    /\ dock.notice # "none" => Busy(mode) /\ ~dock.fitRow /\ dock.heard = dock.notice
    /\ dock.fit = "trimmed" => ~Busy(mode)
    /\ dock.fit = "trimmed, locked" => Busy(mode)
    /\ dock.seconds = mode.delay /\ dock.live \in {NoScene, mode.live}
    /\ dock.account = AccountRow(desk)
    /\ dock.linkCopied => desk.account = "waiting"
=============================================================================
