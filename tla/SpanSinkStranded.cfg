SPECIFICATION Spec
CONSTANTS
    s1 = s1
    s2 = s2
    s3 = s3
    Spans <- MCThree
    RunSpan <- MCRun
    Bytes <- MCBytes
    Poison <- MCPoison
    PoisonErrors <- MCErrors
    MaxRows = 2
    MaxBytes = 3
    BatchSize = 2
    MaxAttempts = 2
INVARIANT NothingStranded
