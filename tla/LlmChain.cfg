SPECIFICATION FairSpec
CONSTANTS
    c1 = c1
    c2 = c2
    d1 = d1
    d2 = d2
    None = None
    Calls <- ChainCalls
    Deployments <- ChainDeployments
    Failures <- ChainFailures
    Serving <- ChainServing
    Models = 3
    Retries = 2
    DemoteAfter = 2
INVARIANTS
    TypeOK
    WithinBudget
    EndsAtTheEnd
    FreshModel
PROPERTIES
    LatchHolds
    Returns
CHECK_DEADLOCK FALSE
