SPECIFICATION FairSpec
CONSTANTS
    c1 = c1
    c2 = c2
    a = a
    b = b
    m = m
    None = None
    Calls <- MCCalls
    Inputs <- MCInputs
    Assignments <- MCAssignments
    CliFields <- MCCliFields
    Digest <- MCDigest
    Configured = TRUE
    MaxSubmissions = 2
    MaxPollErrors = 2
INVARIANTS
    TypeOK
    OneChild
    OwnResult
PROPERTIES
    CallEnds
CHECK_DEADLOCK FALSE
