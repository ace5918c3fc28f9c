SPECIFICATION FairSpec
CONSTANTS
    ToolSets = {{"edit"}, {"delegate"}, {"task", "search"}}
    Pieces = {"text", "reasoning", "held"}
    UserModes = {"agent"}
    AutoVerify = {TRUE}
    MaxIterations = 4
    SubIterations = 1
    MaxRetries = 1
    MaxVerifyRounds = 1
    RedundantReadLimit = 1
    MaxChunks = 2
    MaxTurns = 1
    MaxPresses = 2
INVARIANTS
    VerifiedOrCapped
    CleanRetry
    NoStalePress
PROPERTIES
    PressKept
    TurnEnds
