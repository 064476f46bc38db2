SPECIFICATION FairSpec
CONSTANTS
    search = search
    fetch = fetch
    ghost = ghost
    Names = {search, fetch, ghost}
    Tools = {search, fetch}
    Metered = {search}
    MaxCalls <- MCMaxCalls
    Replies <- MCReplies
    MaxRounds = 3
    MaxStrays = 2
    ToolRetries = 1
    MaxAttempts = 2
INVARIANTS
    TypeOK
    BudgetKept
    TranscriptsAgree
    CallsAnswered
PROPERTIES
    InteractionEnds
CHECK_DEADLOCK FALSE
