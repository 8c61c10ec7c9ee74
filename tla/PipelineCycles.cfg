SPECIFICATION FairSpec
CONSTANTS
    RawFrames = {f1, f2}
    Workers = {w0, w1}
    First = w0
    NoFrame = NoFrame
    MaxRings = 2
    Latency = 1
INVARIANTS OnlyReaperFreesRings RawFramesInOnePlace
PROPERTIES DisableFreesRings
CHECK_DEADLOCK FALSE
