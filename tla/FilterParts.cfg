\* The parts of the filters and their pipeline, one at a time.
SPECIFICATION PartsSpec
CONSTANTS
    \* FrameArena: blocks of three units under a limit of ten; payloads that leave tails behind, and one
    \* larger than a block.
    BlockBytes = 3
    LimitBytes = 10
    MaxSpareBlocks = 1
    Sizes = {1, 2, 4}
    \* HwCodec
    ProbeFrames = 3
    SecondKey = 2
    QuickFrames = 1
    QueueSize = 3
    PictureCache = 2
    NoSeq = NoSeq
    MaxSent = 2
    MaxFaults = 1
    \* RenderPath
    Geometries <- MCGeometries
    RatedRungs <- MCRungs
    DelayCells = 5
    PrimeCells = 3
    GapCells = 1
    LogCells = 4
    RawFrames_ = 1
    MaxClock = 6
    MaxCycles_ = 2
    MaxTrouble = 1
    \* AudioDelay
    SampleRate = 2
    AudioDelays = {1, 2}
    MaxChunk = 2
    MaxTime = 7
    MaxPushes = 3
    Silence = Silence
    \* BufferSizing
    Scenes_ <- MCScenes
    VideoSettings <- MCVideoSettings
    Outputs <- MCOutputs
    Delays_ = {2, 4}
    MinHeights = {12, 36}
    Budgets = {4000, 9000}
    MaxChanges = 2
    \* DegradationPolicy
    Rungs_ = 3
    HalfRate = TRUE
    Machines <- MCMachines
    PlayDelay = 3
    ChangeCooldown = 2
    ImmediateSettle = 1
    UpHold = 2
    MaxOdd = 2
    MaxForced = 2
    \* RollingWindow: a ring of three samples.
    kCapacity = 3
    SampleValues = {1, 2}
    SampleTags = {0, 1}
    MaxSampleTime = 3
    MaxSamples = 4
INVARIANTS ArenaIsSound PacketsAreThePipelines PictureIsWholeAndDelayed HeardIsDelayed AudioGetsTheRingsDelay NeverLowerThanNeeded WindowAnswersRight
PROPERTIES MemoryComesBack
CHECK_DEADLOCK FALSE
