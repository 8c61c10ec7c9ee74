\* The parts around the filters, one at a time.
SPECIFICATION PartsSpec
CONSTANTS
    \* FilterGuard: two sounds, two other threads.
    Audio = {mic, desktop}
    Video = video
    Outsiders = {socket, dialog}
    Early = FALSE
    \* Account: two tokens, two calls outstanding, one sign-in, one fault.
    MaxTokens = 2
    CallPlaces = {1, 2}
    MaxLogins = 1
    MaxLosses = 1
    CanRotate = TRUE
    \* BackgroundTasks
    Groups = {g1, g2}
    Jobs = {j1, j2}
    NoGroup = NoGroup
    WakerThrows = TRUE
    \* Conversation: two questions in up to two conversations of one dialog.
    MaxQuestions = 2
    MaxDialogs = 1
    MaxSessions = 2
    MaxQueued = 1
    Outcomes <- MCOutcomes
    \* HttpCall
    Replies <- MCReplies
    MaxResponse = 2
    RunningVersion <- MCRunningVersion
    MaxRequests = 2
    \* CoreHost
    Configs <- MCConfigs
    Commands = {"enable", "disable", "toggle", "collection_changing"}
    MaxCalls = 4
    MaxRestarts = 1
    MaxSlow = 1
    \* Dock: RAM that holds one or two seconds.
    DockScenes = {"live"}
    DockDelays = {2}
    DockQualities = {1}
    Rooms = {1, 2}
    Loads = {"graphics"}
    MaxWindows = 2
    \* AutoScenes: two scenes and a third name, two edits by hand.
    LiveScenes = {"first", "second"}
    SceneTitles = {"first", "second", "other"}
    Corners = {0, 1}
    MaxEdits = 2
    \* OutputWatch
    Outputs_ = {"stream", "plugin"}
    Mixes = {"main", "other"}
    MaxSkipped = 1
    MaxErrors = 1
    \* PluginSession: three sessions.
    Switches = {"codec_workers", "buffer_codec"}
    SetDelays = {2, 30}
    MaxLoads = 3
    MaxHandEdits = 2
INVARIANTS FiltersStay SignOutIsFinal OwnersGetTheirResults AnswersFindTheirQuestion CallEndsCleanly HostCommandsLand DockIsTrue OnlyOursIsOn HeardOnce SettingsSurvive
CHECK_DEADLOCK FALSE
