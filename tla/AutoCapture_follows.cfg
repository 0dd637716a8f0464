\* One phone with two calls; no failure is needed.
CONSTANTS
    a = a
    b = b
    c1 = c1
    c2 = c2
    NoPhone = NoPhone
    Phone <- OnePhone
    Call <- TwoCalls
    Failures = {}
    MaxQueue = 2
SPECIFICATION Spec
INVARIANT CaptureFollowsCalls
