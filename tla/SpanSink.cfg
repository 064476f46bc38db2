SPECIFICATION FairSpec
CONSTANTS
    s1 = s1
    s2 = s2
    s3 = s3
    Spans <- MCThree
    RunSpan <- MCRun
    Bytes <- MCBytes
    Poison <- MCPoison
    PoisonErrors <- MCErrors
    MaxRows = 3
    MaxBytes = 4
    BatchSize = 3
    MaxAttempts = 2
INVARIANTS
    TypeOK
    BufferBounded
    OnePlace
    OneDrain
    AccountedFor
    DegradedTellsTheTruth
PROPERTIES
    FlushSettles
    RecordSpec
    FinishReturns
    FlushReturns
