\* Two phones, one on a fixed port, three transport ids, two loads at a time.
CONSTANTS
    a = a
    b = b
    l1 = l1
    l2 = l2
    NoSlot = NoSlot
    Nobody = Nobody
    Phone <- TwoPhones
    BadId = {x}
    Fixed <- OnePort
    Slot = {s1, s2, s3}
    Loader <- TwoLoaders
SPECIFICATION Spec
SYMMETRY Symmetry
CHECK_DEADLOCK FALSE
INVARIANTS
    TypeOK
    
    PhonesHaveTools
    Renewable
    LoadSettles
    ErrorsReported
PROPERTIES
    KeepsLifecycle
