SPECIFICATION Spec
CONSTANTS
    ToolSets = {{"edit", "delegate"}, {"edit", "explore"}, {"search", "read_lines"}}
    Pieces = {}
    UserModes = {"agent", "chat"}
    AutoVerify = {TRUE}
    MaxIterations = 2
    SubIterations = 2
    MaxRetries = 0
    MaxVerifyRounds = 1
    RedundantReadLimit = 1
    MaxChunks = 2
    MaxTurns = 1
    MaxPresses = 1
INVARIANTS
    TypeOK
    EveryCallAnswered
    EndingMatchesOutcome
    ModeReturns
    ReconNeverWrites
