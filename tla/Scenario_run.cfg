\* The two events of the run itself, and one event of somebody else.
CONSTANTS
    h1 = h1
    h2 = h2
    w1 = w1
    NoHook = NoHook
    Loop = Loop
    Recorder = Recorder
    Stop = Stop
    Hook <- Hooks
    Once <- OnceHooks
    Worker <- OneWorker
    MaxEvents = 1
SPECIFICATION FairSpec
INVARIANTS
    TypeOK
    SubscriptionsReleased
    FiredIsRecorded
    OnceWithoutWorkers
PROPERTIES
    KeepsContract
    RunEnds
    ChainsStart
CHECK_DEADLOCK FALSE
