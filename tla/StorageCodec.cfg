\* Two cycles, a yield or two, and faults at any moment of setup and encode.
SPECIFICATION StorageCodecFairSpec
CONSTANTS
    None = None
    Vendors <- MCVendors
    DecodeVendor = "nvidia"
    Working <- MCWorking
    RunningAlready <- MCRunningAlready
    Floor = 1
    Cooldown = 0
    WarnHold = 0
    Veto = 1
    ResumeAfterStart = 1
    ResumeAtMost = 1
    MaxEvents = 3
INVARIANTS SetupIsHeeded
PROPERTIES FailuresCount SessionsClose
CHECK_DEADLOCK FALSE
