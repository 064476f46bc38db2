SPECIFICATION Spec
CONSTANTS
    root = root
    task = task
    p1 = p1
    p2 = p2
    Root = root
    Spans <- MCSpans
    Passes <- OnePass
    Manual = {}
    Backends <- MCBackends
    Stamps <- MCStamps
    Failing <- MCDatabase
INVARIANTS
    InputsKept
