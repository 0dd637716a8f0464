\* Two chains of two or three actions, one thread in the pool, one thread that
\* emits two events.
CONSTANTS
    Chain = {1, 2}
    Action <- Actions
    Program <- Programs
    x = x
    y = y
    p = p
    q = q
    Type = {x, y}
    Phone = {p, q}
    NoPhone = NoPhone
    Worker = {w}
    Pool = 1
    MaxEvents = 2
SPECIFICATION FairSpec
CHECK_DEADLOCK FALSE
PROPERTIES
    StepsInOrder
    ChainsEnd
