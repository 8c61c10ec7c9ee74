----------------------------- MODULE MCHostParts -----------------------------
(* The parts of the plugin around the filters that are checked alone: a        *)
(* behaviour is one of one part, the others stay as they are at first.         *)
EXTENDS FilterGuard

CONSTANTS
    MaxTokens, CallPlaces, MaxLogins, MaxLosses, CanRotate,            \* Account
    Groups, Jobs, NoGroup, WakerThrows,                                \* BackgroundTasks
    MaxQuestions, MaxDialogs, MaxSessions, MaxQueued, Outcomes,        \* Conversation
    Replies, MaxResponse, RunningVersion, MaxRequests,                 \* HttpCall
    Configs, Commands, MaxCalls, MaxRestarts, MaxSlow,                 \* CoreHost
    DockScenes, DockDelays, DockQualities, Rooms, Loads, MaxWindows,   \* Dock
    LiveScenes, SceneTitles, Corners, MaxEdits,                        \* AutoScenes
    Outputs_, Mixes, MaxSkipped, MaxErrors,                            \* OutputWatch
    Switches, SetDelays, MaxLoads, MaxHandEdits                        \* PluginSession

\* The program's own mix is one of the mixes.
ASSUME PartsAssumption == "main" \in Mixes /\ MaxErrors \in Nat
\* A size is a number of chunks.
ASSUME RepliesAssumption == MaxResponse \in Nat /\ \A r \in Replies : r.size \in Nat
\* There is a token to start with, and calls and sign-ins are numbered.
ASSUME AccountAssumption ==
    MaxTokens \in Nat \ {0} /\ MaxLogins \in Nat /\ CallPlaces \subseteq Nat \ {0}
\* Delays and budgets are whole numbers, and a second costs something.
ASSUME DockAssumption ==
    /\ DockDelays \subseteq Nat /\ DockQualities \subseteq Nat \ {0} /\ Rooms \subseteq Nat
    /\ MaxWindows \in Nat
\* The dock's delays are of a second at least.
ASSUME SettingsAssumption == SetDelays \subseteq Nat \ {0}
\* The microphone and the older version's wrapper are in a scene of that name.
ASSUME ScenesAssumption == "first" \in LiveScenes

VARIABLES
    part,   \* which
    tokens, auth, calls, posted, web,
    registry, groups, jobs, uiThread,
    account, service, page, dialog,
    job, asyncCall, winhttp, token,
    source, coreThread, delayMode, snapshot,
    dock, mode, desk,
    coll, held,
    outs, watch,
    disk, plugin

SignIn == INSTANCE Account
Tasks == INSTANCE BackgroundTasks
Support == INSTANCE Conversation
Http == INSTANCE HttpCall
Core == INSTANCE CoreHost
TheDock == INSTANCE Dock
Scenes == INSTANCE AutoScenes
Heard == INSTANCE OutputWatch
Session == INSTANCE PluginSession

\* What the server or the network answers to a message of the conversation.
MCOutcomes == {"answer", "no connection", "429", "401", "403 client_disabled", "403 suspended", "404",
               "426", "captcha", "unavailable"}

\* A release, a limit, a body over the cap, a redirect, and an older release.
MCReplies ==
    {[status |-> 200, size |-> 2, retryAfter |-> -1, tag |-> <<1, 2, 0>>],
     [status |-> 429, size |-> 1, retryAfter |-> 0, tag |-> <<>>],
     [status |-> 200, size |-> 3, retryAfter |-> 9, tag |-> <<>>],
     [status |-> 302, size |-> 0, retryAfter |-> -1, tag |-> <<>>],
     [status |-> 200, size |-> 1, retryAfter |-> -1, tag |-> <<1, 0, 12>>]}
MCRunningVersion == <<1, 1, 9>>

MCConfigs == {[scene |-> "a", delay |-> 1], [scene |-> "b", delay |-> 2]}
-----------------------------------------------------------------------------
\* What the variables of the other parts are.
Idle == "idle"

signInVars == <<tokens, auth, calls, posted, web>>
tasksVars == <<registry, groups, jobs, uiThread>>
supportVars == <<account, service, page, dialog>>
httpVars == <<job, asyncCall, winhttp, token>>
coreVars == <<source, coreThread, delayMode, snapshot>>
dockVars == <<dock, mode, desk>>
scenesVars == <<coll, held>>
outputsVars == <<outs, watch>>
sessionVars == <<disk, plugin>>

PartsInit ==
    /\ part \in {"guard", "signIn", "tasks", "support", "http", "core", "dock", "scenes", "outputs", "session"}
    /\ Init
    /\ \/ part = "signIn" /\ SignIn!AccountInit
       \/ part # "signIn" /\ tokens = Idle /\ auth = Idle /\ calls = Idle /\ posted = Idle /\ web = Idle
    /\ \/ part = "tasks" /\ Tasks!TasksInit
       \/ part # "tasks" /\ registry = Idle /\ groups = Idle /\ jobs = Idle /\ uiThread = Idle
    /\ \/ part = "support" /\ Support!ConversationInit
       \/ part # "support" /\ account = Idle /\ service = Idle /\ page = Idle /\ dialog = Idle
    /\ \/ part = "http" /\ Http!HttpInit
       \/ part # "http" /\ job = Idle /\ asyncCall = Idle /\ winhttp = Idle /\ token = Idle
    /\ \/ part = "core" /\ Core!CoreInit
       \/ part # "core" /\ source = Idle /\ coreThread = Idle /\ delayMode = Idle /\ snapshot = Idle
    /\ \/ part = "dock" /\ TheDock!DockInit
       \/ part # "dock" /\ dock = Idle /\ mode = Idle /\ desk = Idle
    /\ \/ part = "scenes" /\ Scenes!AutoInit
       \/ part # "scenes" /\ coll = Idle /\ held = Idle
    /\ \/ part = "outputs" /\ Heard!WatchInit
       \/ part # "outputs" /\ outs = Idle /\ watch = Idle
    /\ \/ part = "session" /\ Session!SessionInit
       \/ part # "session" /\ disk = Idle /\ plugin = Idle

PartsNext ==
    \/ /\ part = "guard" /\ Next
       /\ UNCHANGED <<part, signInVars, tasksVars, supportVars, httpVars, coreVars, dockVars, scenesVars,
                      outputsVars, sessionVars>>
    \/ /\ part = "signIn" /\ SignIn!AccountNext
       /\ UNCHANGED <<part, vars, tasksVars, supportVars, httpVars, coreVars, dockVars, scenesVars,
                      outputsVars, sessionVars>>
    \/ /\ part = "tasks" /\ Tasks!TasksNext
       /\ UNCHANGED <<part, vars, signInVars, supportVars, httpVars, coreVars, dockVars, scenesVars,
                      outputsVars, sessionVars>>
    \/ /\ part = "support" /\ Support!ConversationNext
       /\ UNCHANGED <<part, vars, signInVars, tasksVars, httpVars, coreVars, dockVars, scenesVars,
                      outputsVars, sessionVars>>
    \/ /\ part = "http" /\ Http!HttpNext
       /\ UNCHANGED <<part, vars, signInVars, tasksVars, supportVars, coreVars, dockVars, scenesVars,
                      outputsVars, sessionVars>>
    \/ /\ part = "core" /\ Core!CoreNext
       /\ UNCHANGED <<part, vars, signInVars, tasksVars, supportVars, httpVars, dockVars, scenesVars,
                      outputsVars, sessionVars>>
    \/ /\ part = "dock" /\ TheDock!DockNext
       /\ UNCHANGED <<part, vars, signInVars, tasksVars, supportVars, httpVars, coreVars, scenesVars,
                      outputsVars, sessionVars>>
    \/ /\ part = "scenes" /\ Scenes!AutoNext
       /\ UNCHANGED <<part, vars, signInVars, tasksVars, supportVars, httpVars, coreVars, dockVars,
                      outputsVars, sessionVars>>
    \/ /\ part = "outputs" /\ Heard!WatchNext
       /\ UNCHANGED <<part, vars, signInVars, tasksVars, supportVars, httpVars, coreVars, dockVars,
                      scenesVars, sessionVars>>
    \/ /\ part = "session" /\ Session!SessionNext
       /\ UNCHANGED <<part, vars, signInVars, tasksVars, supportVars, httpVars, coreVars, dockVars,
                      scenesVars, outputsVars>>

PartsSpec ==
    /\ PartsInit
    /\ [][PartsNext]_<<part, vars, signInVars, tasksVars, supportVars, httpVars, coreVars,
                    dockVars, scenesVars, outputsVars, sessionVars>>
-----------------------------------------------------------------------------
\* The properties of the parts, each where its part runs.

\* A sign-out never comes undone and leaves no valid token behind
\* (token-store.cpp, SaveIfEpoch and Clear).
SignOutIsFinal == part = "signIn" => SignIn!SignOutIsFinal

\* A result reaches its owner or nobody, never after a close or the shutdown
\* (background-tasks.cpp, ui-tasks.hpp).
OwnersGetTheirResults == part = "tasks" => Tasks!OwnersGetTheirResults

\* An answer of Trigi goes to the question that waits for it, in its own conversation (support-service.cpp,
\* trigi-page.cpp).
AnswersFindTheirQuestion == part = "support" => Support!AnswersFindTheirQuestion

\* A cancelled call wakes at once, tells the truth, and nobody is left to touch its memory (win-http.cpp,
\* Send).
CallEndsCleanly == part = "http" => Http!CallEndsCleanly

\* Commands of the host program run once and in order, and its status is true (core-host.cpp, Update and
\* Apply).
HostCommandsLand == part = "core" => Core!HostCommandsLand

\* The dock shows and allows what the controller and the account really are (settings-ui.cpp,
\* OnStatusChanged).
DockIsTrue == part = "dock" => TheDock!DockIsTrue

\* The only delay filters switched on are those of this cycle (obs-frontend-bridge.cpp,
\* EnsureBufferWrapperScene).
OnlyOursIsOn == part = "scenes" => Scenes!OnlyOursIsOn

\* An output error is told once or dropped, and lag is counted once (obs-frontend-bridge.cpp,
\* WatchOutputStops).
HeardOnce == part = "outputs" => Heard!HeardOnce

\* Settings outlive sessions, kills and hand edits (plugin-main.cpp, LoadBufferSettings to
\* SaveBufferSettings).
SettingsSurvive == part = "session" => Session!SettingsSurvive
=============================================================================
