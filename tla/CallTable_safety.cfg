\* Two phones, two call ids, two automatic answers waiting per phone.
CONSTANTS
    p1 = p1
    p2 = p2
    None = None
    Phones <- TwoPhones
    Ids <- TwoIds
    MaxPending = 2
SPECIFICATION FairSpec
INVARIANTS TypeOK LiveCallsOwned QueuedBelong
PROPERTIES KeepsCallLife ToolsReachTheirCalls AutoAnswered
CHECK_DEADLOCK FALSE
