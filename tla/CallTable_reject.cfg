\* One phone is enough for a reject to take the wrong call.
CONSTANTS
    p1 = p1
    p2 = p2
    None = None
    Phones <- TwoPhones
    Ids <- TwoIds
    MaxPending = 1
SPECIFICATION Spec
PROPERTY RejectTakesRinging
CHECK_DEADLOCK FALSE
