--------------------------- MODULE PluginSession ----------------------------
(***************************************************************************)
(* The plugin from load to unload, and its settings file                   *)
(* (src/plugin-main.cpp, src/hotkeys.cpp, BufferModeController's           *)
(* LoadSettings and SaveSettings).                                         *)
(*                                                                         *)
(* `disk' is the plugin's config folder: the settings file, written in one *)
(* go by libobs (external, not atomic: killed meanwhile it is left cut),   *)
(* and the unreadable files set aside next to it.  Between sessions the    *)
(* user or support may write the file by hand, well or badly.  `plugin' is *)
(* the loaded plugin: the settings the controller runs with and the UI     *)
(* tasks its hotkeys queued, which OBS runs before it unloads the plugin.  *)
(*                                                                         *)
(* Of the settings the model keeps the delay, the overlay's corner and the *)
(* hidden settings; a hand-written value is a good one, nothing, or one of *)
(* another type.                                                           *)
(***************************************************************************)
EXTENDS Integers, FiniteSets

CONSTANTS
    Switches,       \* the hidden support settings; "buffer_codec" is no boolean
    SetDelays,      \* delays the user can choose
    MaxLoads,       \* sessions of a run
    MaxHandEdits    \* times the file is written by hand

VARIABLES disk, plugin
sessionVars == <<disk, plugin>>

NoFile == [kind |-> "none"]
Cut == [kind |-> "cut"]                              \* a save that was interrupted
Broken(n) == [kind |-> "broken", text |-> n]         \* written by hand, not JSON
\* delay 0 is a missing one.
File(delay, corner, switches) ==
    [kind |-> "settings", delay |-> delay, corner |-> corner, switches |-> switches]

-----------------------------------------------------------------------------
(* Loading                                                                 *)

\* Only a literal false, or "mjpeg", counts, so that a typo never changes how the
\* buffer works.
Values(s) == {"missing", "odd"} \cup
             (IF s = "buffer_codec" THEN {"auto", "mjpeg"} ELSE {"true", "false"})
Off(s) == IF s = "buffer_codec" THEN "mjpeg" ELSE "false"
ReadHiddenSwitch_AnyFalse(value) == value \notin {"false", "odd"}
ReadHiddenSwitch(value) == value # "false"
ReadBufferCodec(value) == value # "mjpeg"
ReadSetting(s, value) ==
    IF s = "buffer_codec" THEN ReadBufferCodec(value) ELSE ReadHiddenSwitch(value)

Defaults == [delay |-> 5, corner |-> 0, on |-> [s \in Switches |-> TRUE]]
Loaded(f) ==
    [delay |-> IF f.delay = 0 THEN 5 ELSE f.delay,
     corner |-> IF f.corner > 3 THEN 0 ELSE f.corner,
     on |-> [s \in Switches |-> ReadSetting(s, f.switches[s])]]

\* Renamed or copied to a name of the second it happens in, never over an
\* earlier one: the n-th bad start of that second.
FreeNames == {n \in 1..(Cardinality(DOMAIN disk.aside) + 1) : n \notin DOMAIN disk.aside}
SetAsideName == CHOOSE n \in FreeNames : \A m \in FreeNames : n <= m
SetAsideInvalidSettingsFile ==
    [n \in DOMAIN disk.aside \cup {SetAsideName} |->
        IF n = SetAsideName THEN disk.file ELSE disk.aside[n]]

Started(settings, save) ==
    [loaded |-> TRUE, settings |-> settings, state |-> "Inactive", saves |-> save, tasks |-> <<>>]
Opens == ~plugin.loaded /\ disk.sessions < MaxLoads

LoadBufferSettings ==
    /\ Opens
    /\ disk.file.kind \in {"none", "settings"}
    /\ plugin' = Started(IF disk.file = NoFile THEN Defaults ELSE Loaded(disk.file), TRUE)
    /\ disk' = [disk EXCEPT !.sessions = @ + 1]
\* Renamed away or only copied, an unreadable file is safe; if neither worked it
\* is left alone on exit.
SettingsSetAside(renamed) ==
    /\ Opens /\ disk.file.kind \in {"broken", "cut"}
    /\ disk' = [disk EXCEPT !.aside = SetAsideInvalidSettingsFile, !.sessions = @ + 1,
                            !.file = IF renamed THEN NoFile ELSE @, !.saved = {}]
    /\ plugin' = Started(Defaults, TRUE)
SettingsLeftAlone ==
    /\ Opens /\ disk.file.kind \in {"broken", "cut"}
    /\ disk' = [disk EXCEPT !.sessions = @ + 1]
    /\ plugin' = Started(Defaults, FALSE)

-----------------------------------------------------------------------------
(* The session                                                             *)

ChangeSettings(delay, corner) ==
    /\ plugin.loaded /\ plugin.state = "Inactive"
    /\ plugin' = [plugin EXCEPT !.settings.delay = delay, !.settings.corner = corner]
    /\ UNCHANGED disk

\* A key goes down and up; only going down queues a task.
HotkeyCallback(task, pressed) ==
    /\ plugin.loaded /\ plugin.tasks = <<>>
    /\ plugin' = IF pressed THEN [plugin EXCEPT !.tasks = <<task>>] ELSE plugin
    /\ UNCHANGED disk
Toggled(state) == IF state = "Inactive" THEN "Active" ELSE "Inactive"
TaskRuns ==
    /\ plugin.loaded /\ plugin.tasks # <<>>
    /\ LET task == plugin.tasks[1]
       IN  plugin' = [plugin EXCEPT !.tasks = <<>>,
                                    !.state = CASE task = "enable" -> "Active"
                                                [] task = "disable" -> "Inactive"
                                                [] OTHER -> Toggled(@)]
    /\ UNCHANGED disk

-----------------------------------------------------------------------------
(* Unloading                                                               *)

\* The file is written from scratch: a switch only when it is off.
SaveBufferSettings_Visible(s) == File(s.delay, s.corner, [w \in Switches |-> "missing"])
SaveBufferSettings(s) ==
    File(s.delay, s.corner, [w \in Switches |-> IF s.on[w] THEN "missing" ELSE Off(w)])

Unloaded == [plugin EXCEPT !.loaded = FALSE, !.tasks = <<>>, !.state = "Inactive"]
Unload ==
    /\ plugin.loaded /\ plugin.tasks = <<>>
    /\ disk' = IF plugin.saves
               THEN [disk EXCEPT !.file = SaveBufferSettings(plugin.settings),
                                 !.saved = {plugin.settings}] ELSE disk
    /\ plugin' = Unloaded
\* Killed: anywhere in the session, or in the middle of the save.
Killed ==
    /\ plugin.loaded
    /\ plugin' = Unloaded /\ UNCHANGED disk
KilledSaving ==
    /\ plugin.loaded /\ plugin.tasks = <<>> /\ plugin.saves
    /\ disk' = [disk EXCEPT !.file = Cut, !.asked = {}, !.saved = {}]
    /\ plugin' = Unloaded

-----------------------------------------------------------------------------
(* By hand, OBS closed: `asked' is what the last one who wrote turned off,  *)
(* `written' every unreadable text (its author does not overwrite it);     *)
(* `saved' are the settings of the session that wrote the file, if one did. *)

WriteByHand(f) ==
    /\ ~plugin.loaded /\ disk.edits < MaxHandEdits /\ disk.file.kind # "broken"
    /\ disk' = [disk EXCEPT !.file = f, !.edits = @ + 1,
                            !.saved = {},
                            !.written = IF f.kind = "broken" THEN @ \cup {f} ELSE @,
                            !.asked = IF f.kind = "settings"
                                      THEN {s \in Switches : f.switches[s] = Off(s)} ELSE {}]
    /\ UNCHANGED plugin

SessionInit ==
    /\ disk = [file |-> NoFile, aside |-> [n \in {} |-> NoFile], sessions |-> 0, edits |-> 0,
               written |-> {}, asked |-> {}, saved |-> {}]
    /\ plugin = [loaded |-> FALSE, settings |-> Defaults, state |-> "Inactive", saves |-> TRUE,
                 tasks |-> <<>>]

SessionNext ==
    \/ LoadBufferSettings \/ SettingsLeftAlone \/ \E renamed \in BOOLEAN : SettingsSetAside(renamed)
    \/ \E delay \in SetDelays, corner \in {0, 3} : ChangeSettings(delay, corner)
    \/ \E task \in {"toggle", "enable", "disable"}, pressed \in BOOLEAN : HotkeyCallback(task, pressed)
    \/ TaskRuns \/ Unload \/ Killed \/ KilledSaving
    \/ WriteByHand(Broken(disk.edits))
    \/ \E delay \in {0} \cup SetDelays, values \in {v \in [Switches -> UNION {Values(s) : s \in Switches}] :
                                                \A s \in Switches : v[s] \in Values(s)} :
           WriteByHand(File(delay, 7, values))

SessionSpec == SessionInit /\ [][SessionNext]_sessionVars

-----------------------------------------------------------------------------
(* Properties                                                              *)

SessionTypeOK ==
    /\ disk.file.kind \in {"none", "cut", "broken", "settings"}
    /\ plugin.settings.delay \in {5} \cup SetDelays /\ plugin.settings.corner \in 0..3
    /\ plugin.settings.on \in [Switches -> BOOLEAN]

(* Through any number of sessions, kills and hand edits: what someone      *)
(* wrote in an unreadable settings file is never destroyed, it is still    *)
(* there or set aside; a hidden switch support turned off in a readable    *)
(* file stays off, and one nobody turned off stays on, in every later      *)
(* session, until the file is written by hand again or a kill in the middle*)
(* of the save cuts it; and until then the file a session saved gives the  *)
(* next one all the settings it ended with, the defaults of missing ones   *)
(* notwithstanding                                                         *)
(* (plugin-main.cpp, SetAsideInvalidSettingsFile to SaveBufferSettings).   *)
SettingsSurvive ==
    /\ SessionTypeOK
    /\ \A f \in disk.written : disk.file = f \/ \E n \in DOMAIN disk.aside : disk.aside[n] = f
    /\ disk.file.kind = "settings" =>
        {s \in Switches : disk.file.switches[s] = Off(s)} = disk.asked
    /\ plugin.loaded /\ disk.file.kind = "settings" =>
        {s \in Switches : ~plugin.settings.on[s]} = disk.asked
    /\ \A ended \in disk.saved : disk.file.kind = "settings" /\ Loaded(disk.file) = ended
=============================================================================
