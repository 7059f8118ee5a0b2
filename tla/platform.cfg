SPECIFICATION Spec
CONSTANTS
    Symbols = {1, 2}
    Ends = {1, 2}
    MinimumEnd = 2
    Contents = {1, 2}
    Guard = 1
    Repeat = 2
    Deadline = 4
    MaxReceipts = 4
    MaxCrashes = 1
    MaxAttempts = 2
    Rounds = 2
    Runners = {1, 2}
    Target = 1
    LastTick = 2
    Cap = 1
    MaxStarts = 3
    DepthLevels <- MCLevels
    Opening <- MCLevels
    DepthMoves <- MCMoves
    SnapshotLimit = 1
    RestLimit = 1
    MaxUpdate = 3
    Lag = 1
    MaxRestarts = 1
    Feeds = {1, 2}
    Assets = {1}
    CycleLimits = {0, 1}
    DataRunners = {1, 2}
    MaxFaulty = 1
    MaxDataCycles = 2
    MaxDeaths = 1
    SessionIds = {1, 2}
    CommandKeys = {1, 2}
    Settings = {1, 2}
    SessionTtl = 1
    StepUpTtl = 1
    LoginAttempts = 2
    LoginWindow = 1
    LoginBlock = 1
    MaxConsoleClock = 1
    MaxTokens = 2
    MaxCuts = 1
    Gates = {1, 2}
    MaxEdits = 1
    MaxKills = 1
INVARIANTS BarsAreFinal PromptsAreAccountedFor
           BookIsProviders DataRunEvidenceIsTrue ReceiptsTellTheTruth
           LaunchTellsTheTruth
PROPERTIES StabilityHolds
CHECK_DEADLOCK FALSE
