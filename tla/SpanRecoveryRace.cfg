SPECIFICATION Spec
CONSTANTS
    root = root
    task = task
    p1 = p1
    p2 = p2
    Root = root
    Spans <- MCSpans
    Passes <- MCPasses
    Manual <- MCPasses
    Backends <- MCBackends
    Stamps <- MCStamps
    Failing = {}
SYMMETRY Interchangeable
INVARIANTS
    TypeOK
    LateTerminalWins
    RootMarkedFirst
