SPECIFICATION FairSpec
CONSTANTS
    t1 = t1
    t2 = t2
    k = k
    d1 = d1
    d2 = d2
    None = None
    Tasks <- MCTasks
    Keys = {k}
    Key <- MCKey
    Docs <- MCDocs
    Declared <- MCDocs
    Results <- MCResults
    Attempts = 2
    Limit = 1
    Deadline = TRUE
    Cancels = 1
INVARIANTS
    TypeOK
    ReusedAsReturned
    EventsAgree
    ThrottledWhileAvailable
    BatchSplits
PROPERTIES
    FlowNotStuck
CHECK_DEADLOCK FALSE
