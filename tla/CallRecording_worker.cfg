\* Calls made by an executor thread, nothing fails.
CONSTANTS
    Workers = TRUE
    Failures <- NoFailures
    MohExists = TRUE
    Ports <- TwoPorts
    MaxSegments = 2
SPECIFICATION Spec
INVARIANT FlagFollowed
CHECK_DEADLOCK FALSE
