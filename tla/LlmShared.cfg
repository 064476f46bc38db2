SPECIFICATION Spec
CONSTANTS
    c1 = c1
    c2 = c2
    d1 = d1
    d2 = d2
    None = None
    Calls <- SharedCalls
    Deployments <- SharedDeployments
    Failures <- SharedFailures
    Serving <- SharedServing
    Models = 2
    Retries = 2
    DemoteAfter = 2
PROPERTIES
    DemotionServed
CHECK_DEADLOCK FALSE
