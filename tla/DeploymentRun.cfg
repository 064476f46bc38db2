SPECIFICATION FairSpec
CONSTANTS
    in = in
    x1 = x1
    x2 = x2
    w = w
    go = go
    halt = halt
    g = g
    h = h
    None = None
    Steps = 3
    Docs <- MCDocs
    Groups <- MCGroups
    Inputs <- MCInputs
    Type <- MCType
    Flag <- MCFlag
    GroupOf <- MCGroupOf
    RunIf <- MCRunIf
    StopIf <- MCStopIf
    Param <- MCParam
    Output <- MCOutput
    BySha <- MCBySha
    Uninterrupted <- MCUninterrupted
    Ranges <- MCRanges
    Attempts = 2
    Handles = {h}
    Cancels = 1
INVARIANTS
    TypeOK
    ResumedAsUninterrupted
PROPERTIES
    NoStragglers
    EveryRunEnds
