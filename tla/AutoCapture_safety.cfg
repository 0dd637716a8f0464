\* Two phones that share two call ids, every failure, two requests a queue.
CONSTANTS
    a = a
    b = b
    c1 = c1
    c2 = c2
    NoPhone = NoPhone
    Phone <- Phones
    Call <- TwoCalls
    Failures = {"spawn", "death"}
    MaxQueue = 2
SPECIFICATION FairSpec
INVARIANTS
    TypeOK
    CountWithinActiveCalls
    CaptureReleased
PROPERTIES
    KeepsCaptureContract
    WantedStaysCovered
    StopServed
    StartServed
