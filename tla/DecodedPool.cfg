SPECIFICATION FairSpec
CONSTANTS
    Delay = 1
    SlotCount = 2
    Lookahead = 2
    Stale = 0
    Slack = 0
    Prime = 1
    MaxBack = 2
    Broken = {2}
    MaxNow = 4
    MaxCycles = 2
INVARIANTS ShownIsOfThisCycle
PROPERTIES ShownInOrder DueFrameIsShown
CHECK_DEADLOCK FALSE
