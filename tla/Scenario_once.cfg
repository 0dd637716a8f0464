\* One once hook and one executor thread that emits.
CONSTANTS
    h1 = h1
    h2 = h2
    w1 = w1
    NoHook = NoHook
    Loop = Loop
    Recorder = Recorder
    Stop = Stop
    Hook <- OneHook
    Once <- OnceHooks
    Worker <- OneWorker
    MaxEvents = 2
SPECIFICATION Spec
INVARIANT OnceFiresOnce
CHECK_DEADLOCK FALSE
