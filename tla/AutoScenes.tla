----------------------------- MODULE AutoScenes -----------------------------
(***************************************************************************)
(* The objects the plugin keeps in OBS's scene collection, and how it finds*)
(* them again (src/obs-frontend-bridge.cpp, src/auto-names.cpp,            *)
(* src/overlay-layout.cpp): the wrapper scene, the video delay filter on   *)
(* the live scene, the audio delay filter on each of its audio sources and *)
(* the overlay's badge.  They are saved with the collection, so a session  *)
(* meets what an earlier one, an older version or the user left there, and *)
(* finds it by name: the current one first, then the one of v0.5.1.        *)
(*                                                                         *)
(* `coll' is the collection, `held' what the bridge and its controller     *)
(* hold in memory.  A filter is named by its parent and a tag (its current *)
(* name, the legacy one, or one the user gave it); an audio filter carries *)
(* its source's name of the time.  libobs keeps filters out of its global  *)
(* names (external), so only scenes and inputs compete for one.  The badge *)
(* is an image the plugin draws and OBS loads: either may fail.            *)
(***************************************************************************)
EXTENDS Integers, FiniteSets

CONSTANTS
    LiveScenes,     \* the user's scenes; the microphone is in the one called "first"
    SceneTitles,    \* names they can have
    Corners,        \* the dock's corners of the overlay
    MaxEdits        \* the user's own edits of the collection in a run

VARIABLES coll, held
autoVars == <<coll, held>>

Tags == {"current", "legacy", "renamed"}
BadgeTags == {"current", "legacy", "renamed", "suffixed"}
Ears == {"current", "legacy"} \X {"mic", "mic 2"}
NoRef == <<>>
NoBadge == [there |-> FALSE, marked |-> FALSE, visible |-> FALSE, top |-> FALSE,
            at |-> "nowhere", placed |-> {}]

Here(title) == {s \in LiveScenes : coll.titles[s] = title}

-----------------------------------------------------------------------------
(* Finding                                                                 *)

\* The first name in use, current before legacy: a singleton, or nothing.
LookupNames(used) == IF "current" \in used THEN {"current"} ELSE used \cap {"legacy"}

FindBufferFilterOn(c, s) == {<<s, t>> : t \in LookupNames({u \in Tags : c.filters[s][u] # "absent"})}
FindBufferFilter(c, title) ==
    IF c.wrapper = "none" THEN {}
    ELSE UNION {FindBufferFilterOn(c, s) : s \in {r \in c.shows : c.titles[r] = title}}

FindAudioFilterOn(c) ==
    {<<t, c.mic>> : t \in LookupNames({u \in {"current", "legacy"} : c.ears[<<u, c.mic>>] # "absent"})}

\* By name, else by the marker in the item's private settings.
FindOverlayBadgeItem(c) ==
    LET named == LookupNames({t \in BadgeTags : c.badges[t].there})
    IN  IF named # {} THEN named ELSE {t \in BadgeTags : c.badges[t].there /\ c.badges[t].marked}

\* The filter switched on, wherever it is now; by name otherwise.
Alive(c, ref) == ref # NoRef /\ c.filters[ref[1]][ref[2]] # "absent"
BufferFilterFor_ByName(c, h) == FindBufferFilter(c, h.live)
BufferFilterFor(c, h) == IF Alive(c, h.video) THEN {h.video} ELSE FindBufferFilter(c, h.live)
AudioFiltersFor(c, h) ==
    LET kept == {e \in h.ears : c.ears[e] # "absent"}
    IN  IF kept # {} THEN kept
        ELSE IF "first" \in LiveScenes /\ c.titles["first"] = h.live THEN FindAudioFilterOn(c) ELSE {}

Switched(c, refs, to) ==
    [c EXCEPT !.filters = [s \in LiveScenes |->
        [t \in Tags |-> IF <<s, t>> \in refs THEN to ELSE c.filters[s][t]]]]
SwitchedEars(c, refs, to) ==
    [c EXCEPT !.ears = [e \in Ears |-> IF e \in refs THEN to ELSE c.ears[e]]]

-----------------------------------------------------------------------------
(* Building                                                                *)

\* Scenes left from an earlier cycle leave the wrapper, their filters off; the
\* overlay stays.
StaleFilters(c, title) ==
    UNION {FindBufferFilterOn(c, s) : s \in {r \in c.shows : c.titles[r] # title}}
WithFilter(c, s) ==
    IF FindBufferFilterOn(c, s) # {} THEN c ELSE [c EXCEPT !.filters[s]["current"] = "off"]
\* An item that is added comes above the others.
Covered(badges) == [t \in BadgeTags |-> [badges[t] EXCEPT !.top = FALSE]]
EnsureBufferWrapperScene(c, s) ==
    LET title == c.titles[s]
        kept == {r \in c.shows : c.titles[r] = title}
        made == [Switched(c, StaleFilters(c, title), "off")
                    EXCEPT !.wrapper = IF @ = "none" THEN "current" ELSE @,
                           !.shows = kept \cup {s},
                           !.badges = IF kept = {} THEN Covered(c.badges) ELSE @]
    IN  IF FindBufferFilter(c, title) # {} THEN c ELSE WithFilter(made, s)

\* Only what is directly in the scene; a source renamed since gets another filter.
EnsureAudioDelayFilters(c, s) ==
    IF s # "first" \/ FindAudioFilterOn(c) # {} THEN c
    ELSE [c EXCEPT !.ears[<<"current", c.mic>>] = "off"]

RemoveRetiredOverlayItems(c) == [c EXCEPT !.retired = FALSE]

\* Placed at first and when the dock asks for another corner; otherwise it stays
\* where the user put it.
ShouldPlace(b, corner) == b.placed # {corner}
Placed(b, corner) ==
    [b EXCEPT !.marked = TRUE, !.visible = TRUE, !.top = TRUE, !.there = TRUE,
              !.at = IF ShouldPlace(b, corner) THEN "corner" ELSE @, !.placed = {corner}]

\* A source of that name outside the wrapper is reused if it is an image; if it
\* is something else OBS suffixes the new one's name.
NewBadge(c) == IF c.stray = "other" THEN "suffixed" ELSE "current"

\* How drawing went: a badge, no image of it, or no source to show it with.
Draws == {"drawn", "imageless", "sourceless"}

Hidden(badges, found) ==
    [t \in BadgeTags |-> IF t \in found THEN [badges[t] EXCEPT !.visible = FALSE] ELSE badges[t]]
SetDelayOverlay(c, visible, corner, draw) ==
    LET clean == RemoveRetiredOverlayItems(c)
        found == FindOverlayBadgeItem(clean)
        badge == IF found # {} THEN CHOOSE t \in found : TRUE ELSE NewBadge(clean)
    IN  IF c.wrapper = "none" THEN c
        ELSE IF ~visible \/ draw = "imageless" THEN [clean EXCEPT !.badges = Hidden(@, found)]
        ELSE IF found = {} /\ draw = "sourceless" THEN clean
        ELSE [clean EXCEPT !.badges[badge] = Placed(@, corner)]
\* Whether it says that a badge is shown.
Shows(c, visible, draw) ==
    /\ visible /\ c.wrapper # "none" /\ draw # "imageless"
    /\ draw = "sourceless" => FindOverlayBadgeItem(c) # {}

\* The controller does not look at the answer; `shown' remembers it.
UpdateOverlay(h) ==
    \E draw \in Draws :
       LET visible == h.overlay /\ h.state = "Active"
       IN  /\ coll' = SetDelayOverlay(coll, visible, h.corner, draw)
           /\ held' = [h EXCEPT !.shown = Shows(coll, visible, draw)]

-----------------------------------------------------------------------------
(* The controller's cycle                                                  *)

Enable(s) ==
    /\ coll.loaded /\ held.state = "Inactive" /\ coll.titles[s] # "gone"
    /\ LET c == EnsureAudioDelayFilters(EnsureBufferWrapperScene(coll, s), s)
           h == [held EXCEPT !.live = coll.titles[s], !.video = NoRef, !.ears = {}]
           video == FindBufferFilter(c, h.live)
           ears == AudioFiltersFor(c, h)
       IN  /\ coll' = SwitchedEars(Switched(c, video, "on"), ears, "on")
           /\ held' = [h EXCEPT !.state = "Filling", !.ears = ears,
                                !.video = IF video = {} THEN NoRef ELSE CHOOSE v \in video : TRUE]

OnFillTimerElapsed ==
    /\ coll.loaded /\ held.state = "Filling"
    /\ UpdateOverlay([held EXCEPT !.state = "Active"])

SetOverlay(show, corner) ==
    /\ coll.loaded /\ <<show, corner>> # <<held.overlay, held.corner>>
    /\ UpdateOverlay([held EXCEPT !.overlay = show, !.corner = corner])

Released(h) == [h EXCEPT !.state = "Inactive", !.video = NoRef, !.ears = {}, !.shown = FALSE]
Stopped(c, h) ==
    LET hidden == SetDelayOverlay(c, FALSE, 0, "drawn")
    IN  SwitchedEars(Switched(hidden, BufferFilterFor(hidden, h), "off"),
                     AudioFiltersFor(hidden, h), "off")
Disable ==
    /\ coll.loaded
    /\ coll' = Stopped(coll, held) /\ held' = Released(held)

-----------------------------------------------------------------------------
(* Sessions and collections                                                *)

\* Renamed only when the new name is free.
MigrateLegacyAutoNames(c) ==
    LET Moved(f, free) == IF f["legacy"] # "absent" /\ free
                          THEN [f EXCEPT !["current"] = f["legacy"], !["legacy"] = "absent"] ELSE f
        clean == IF c.wrapper = "none" THEN c ELSE RemoveRetiredOverlayItems(c)
        badge == "legacy" \in FindOverlayBadgeItem(clean) /\ c.stray = "none"
    IN  [clean EXCEPT
            !.wrapper = IF @ = "legacy" /\ ~c.squatter THEN "current" ELSE @,
            !.filters = [s \in LiveScenes |-> Moved(c.filters[s], c.filters[s]["current"] = "absent")],
            !.ears = [e \in Ears |->
                LET old == <<"legacy", e[2]>>  new == <<"current", e[2]>>
                    moves == c.ears[old] # "absent" /\ c.ears[new] = "absent"
                IN  CASE moves /\ e = new -> c.ears[old]
                      [] moves /\ e = old -> "absent"
                      [] OTHER -> c.ears[e]],
            !.badges = IF badge THEN [@ EXCEPT !["current"] = clean.badges["legacy"],
                                               !["legacy"] = NoBadge] ELSE @]

On(c) == {ref \in LiveScenes \X Tags : c.filters[ref[1]][ref[2]] = "on"}
EarsOn(c) == {e \in Ears : c.ears[e] = "on"}
DisableAllDelayFilters(c) == SwitchedEars(Switched(c, On(c), "off"), EarsOn(c), "off")

\* OBS closed or killed, with the collection as it was saved last: the filters may
\* be on in it.
ObsEnds == coll.loaded /\ coll' = [coll EXCEPT !.loaded = FALSE] /\ held' = Released(held)

\* FinishedLoading, or SceneCollectionChanged: a duplicate or a rename comes with
\* the delay still on and with new objects, so no reference holds.
CollectionLoaded ==
    /\ ~coll.loaded
    /\ coll' = [DisableAllDelayFilters(MigrateLegacyAutoNames(coll)) EXCEPT !.loaded = TRUE]
    /\ UNCHANGED held
Reloaded(h) == [h EXCEPT !.video = NoRef, !.ears = {}]
CollectionDuplicated ==
    /\ coll.loaded
    /\ LET c == IF held.state = "Inactive" THEN coll ELSE Stopped(coll, Reloaded(held))
       IN  coll' = DisableAllDelayFilters(MigrateLegacyAutoNames(c))
    /\ held' = Released(held)

-----------------------------------------------------------------------------
(* The user's own edits, in OBS's windows                                  *)

Edit(c) == coll.loaded /\ coll.edits < MaxEdits /\ coll' = [c EXCEPT !.edits = @ + 1]

RenameScene(s, title) ==
    /\ coll.titles[s] # "gone" /\ Here(title) = {}
    /\ Edit([coll EXCEPT !.titles[s] = title]) /\ UNCHANGED held
RemoveScene(s) ==
    /\ coll.titles[s] # "gone"
    /\ Edit([coll EXCEPT !.titles[s] = "gone", !.shows = @ \ {s},
                         !.filters[s] = [t \in Tags |-> "absent"]])
    /\ UNCHANGED held
RemoveWrapper ==
    /\ coll.wrapper # "none"
    /\ Edit([coll EXCEPT !.wrapper = "none", !.shows = {}, !.retired = FALSE,
                         !.badges = [t \in BadgeTags |-> NoBadge]])
    /\ held' = [held EXCEPT !.shown = FALSE]
\* The weak reference is to the object, whatever its name.
RenameFilter(s) ==
    /\ coll.filters[s]["current"] # "absent" /\ coll.filters[s]["renamed"] = "absent"
    /\ Edit([coll EXCEPT !.filters[s]["renamed"] = coll.filters[s]["current"],
                         !.filters[s]["current"] = "absent"])
    /\ held' = [held EXCEPT !.video = IF @ = <<s, "current">> THEN <<s, "renamed">> ELSE @]
RemoveFilter(s, t) ==
    /\ coll.filters[s][t] # "absent"
    /\ Edit([coll EXCEPT !.filters[s][t] = "absent"]) /\ UNCHANGED held
RenameMic == Edit([coll EXCEPT !.mic = IF @ = "mic" THEN "mic 2" ELSE "mic"]) /\ UNCHANGED held
\* A v0.5.1 badge has no marker until it is shown once: one the user renames
\* before that is lost to the plugin, so it is not renamed here.
EditBadge(t) ==
    /\ coll.badges[t].there
    /\ \/ Edit([coll EXCEPT !.badges[t].at = "user"]) /\ UNCHANGED held
       \/ Edit([coll EXCEPT !.badges[t] = NoBadge]) /\ held' = [held EXCEPT !.shown = FALSE]
       \/ t # "renamed" /\ coll.badges[t].marked /\ ~coll.badges["renamed"].there
          /\ Edit([coll EXCEPT !.badges["renamed"] = coll.badges[t], !.badges[t] = NoBadge])
          /\ UNCHANGED held
AddNamesake(kind) ==
    /\ coll.stray = "none" /\ (kind = "image" \/ ~coll.badges["current"].there)
    /\ Edit([coll EXCEPT !.stray = kind]) /\ UNCHANGED held

-----------------------------------------------------------------------------
Empty ==
    [loaded |-> FALSE, titles |-> [s \in LiveScenes |-> s], wrapper |-> "none", shows |-> {},
     filters |-> [s \in LiveScenes |-> [t \in Tags |-> "absent"]],
     mic |-> "mic", ears |-> [e \in Ears |-> "absent"],
     badges |-> [t \in BadgeTags |-> NoBadge], retired |-> FALSE, squatter |-> FALSE,
     stray |-> "none", edits |-> 0]
\* A collection of v0.5.1 closed while the delay was on.
Old == [Empty EXCEPT !.wrapper = "legacy", !.shows = {"first"}, !.filters["first"]["legacy"] = "on",
                     !.ears[<<"legacy", "mic">>] = "on",
                     !.badges["legacy"] = [NoBadge EXCEPT !.there = TRUE, !.visible = TRUE],
                     !.retired = TRUE]

AutoInit ==
    /\ coll \in {Empty, Old, [Old EXCEPT !.squatter = TRUE]}
    /\ held = [state |-> "Inactive", live |-> "", video |-> NoRef, ears |-> {},
               overlay |-> TRUE, corner |-> 0, shown |-> FALSE]

AutoNext ==
    \/ \E s \in LiveScenes : Enable(s) \/ RemoveScene(s) \/ RenameFilter(s)
    \/ \E s \in LiveScenes, title \in SceneTitles : RenameScene(s, title)
    \/ \E s \in LiveScenes, t \in Tags : RemoveFilter(s, t)
    \/ \E show \in BOOLEAN, corner \in Corners : SetOverlay(show, corner)
    \/ \E t \in BadgeTags : EditBadge(t)
    \/ \E kind \in {"image", "other"} : AddNamesake(kind)
    \/ OnFillTimerElapsed \/ Disable \/ ObsEnds \/ CollectionLoaded \/ CollectionDuplicated
    \/ RemoveWrapper \/ RenameMic

AutoSpec == AutoInit /\ [][AutoNext]_autoVars

-----------------------------------------------------------------------------
(* Properties                                                              *)

AutoTypeOK ==
    /\ coll.wrapper \in {"none", "current", "legacy"} /\ coll.shows \subseteq LiveScenes
    /\ held.state \in {"Inactive", "Filling", "Active"}
    /\ held.video \in (LiveScenes \X Tags) \cup {NoRef} /\ held.ears \subseteq Ears

(* Whatever earlier sessions, an older version and the user's renames and  *)
(* removals left in the collection: with the delay on, the only delay      *)
(* filters switched on are the ones this cycle switched on, and with it    *)
(* off, none is, so nothing stays delayed behind an Inactive dock; one     *)
(* scene at most is in the wrapper; and the overlay never piles up a second*)
(* badge.  While viewers see the delay, the badge is visible, and above the*)
(* scene, exactly when the dock asks for it and the last call said that it *)
(* shows one, unless the user removed it since                             *)
(* (obs-frontend-bridge.cpp, EnsureBufferWrapperScene to                   *)
(* SetAudioDelayFiltersEnabled and SetDelayOverlay).                       *)
OnlyOursIsOn ==
    /\ AutoTypeOK
    /\ coll.loaded =>
        /\ On(coll) \subseteq (IF held.state = "Inactive" THEN {} ELSE {held.video})
        /\ EarsOn(coll) \subseteq (IF held.state = "Inactive" THEN {} ELSE held.ears)
        /\ held.state # "Inactive" /\ Alive(coll, held.video) => held.video \in On(coll)
    /\ Cardinality(coll.shows) <= 1
    /\ Cardinality({t \in BadgeTags : coll.badges[t].there}) <= 1
    /\ held.state = "Active" =>
        \A t \in BadgeTags : coll.badges[t].there =>
            /\ coll.badges[t].visible <=> held.shown
            /\ coll.badges[t].visible => coll.badges[t].top
    /\ held.shown =>
        held.overlay /\ held.state = "Active" /\ \E t \in BadgeTags : coll.badges[t].there
=============================================================================
