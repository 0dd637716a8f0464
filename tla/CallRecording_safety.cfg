\* One thread; the sidecar is the one thing that never fails, see SidecarPerSegment.
CONSTANTS
    Workers = FALSE
    Failures <- AllButMeta
    MohExists = TRUE
    Ports <- TwoPorts
    MaxSegments = 3
SPECIFICATION Spec
INVARIANTS
    TypeOK
    SidecarPerSegment
    ReleasedAtDisconnect
    FlagFollowed
    RecordsWhenActive
    
PROPERTY KeepsRecordingContract
CHECK_DEADLOCK FALSE
