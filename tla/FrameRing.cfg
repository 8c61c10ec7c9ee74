SPECIFICATION Spec
CONSTANTS
    SlotCount = 3
    Encoders = {e1, e2}
    Readers = {r1, r2}
    Allocations = {a1, a2, a3, a4}
    NoAllocation = NoAllocation
    NoView = NoView
    MaxCaptures = 4
    MaxTime = 3
    MaxBack = 1
    LateNs = 1
SYMMETRY Symmetry
INVARIANTS PinnedFramesStay AllocationOwnedOnce UndecidedIsHeld SelectionsRight
PROPERTIES ImplementsDelayWindow
CHECK_DEADLOCK FALSE
