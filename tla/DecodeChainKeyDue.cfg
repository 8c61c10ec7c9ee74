SPECIFICATION Spec
CONSTANTS
    SlotCount = 3
    MaxCaptures = 4
    MaxEpochs = 1
    MaxFaults = 0
    Latency = 1
    JumpBack = 2
    DecodeTime = 1
PROPERTIES KeyDueIsNotSkipped
CHECK_DEADLOCK FALSE
