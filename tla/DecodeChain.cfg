SPECIFICATION RingsSpec
CONSTANTS
    SlotCount = 3
    MaxCaptures = 4
    MaxEpochs = 2
    MaxFaults = 1
    Latency = 2
    JumpBack = 2
    DecodeTime = 1
INVARIANTS SeqTellsReference UndecidedIsHeldOnce DecodesWhatItCan
PROPERTIES NeverWithoutReference
CHECK_DEADLOCK FALSE
