SPECIFICATION Spec
CONSTANTS
    CanarySymbols = {1, 2}
    ContextBars = 1
    ContextLag = 2
    Hour = 2
    CutoffsPerSymbol = 1
    CanaryEnds = {4, 5}
    MaxMishaps = 1
    MaxReruns = 1
    CardIds = {1, 2}
    References <- MCReferences
    Registries = {1, 2}
    MaxCardRows <- MCCardRows
    MaxRegistryDeaths = 1
    SoakConfigs = {1, 2}
    SoakTarget = 1
    MaxSoakTicks = 3
    MaxSoakFaults = 1
    MaxRetries = 2
    MaxFlowFaults = 2
    Interval = 2
    PastBars = 1
    ForwardOutcomeBars = 1
    ForwardEnd = 9
    TargetCases = 2
    MinimumCases = 1
    Baselines = {1, 2}
    WorkerStarts = {5}
    MaxLag = 1
    MaxSlips = 1
    LakeWriters = {1, 2}
    SchemaVersions = {1, 2}
    Providers = {1, 2}
    MaxArchiveRuns = 2
    MaxStorageFaults = 2
    EvidenceRuns = {1, 2}
    EvidenceKinds = {"recovery", "rebuild", "archive"}
    ReadOnlyOperations = 2
    MaxDrillFaults = 2
INVARIANTS ActiveIsEarned SoakEvidenceHolds FlowRowsAreTrue ForwardEvidenceHolds
           PublishedEvidenceHolds
PROPERTIES ArtifactsSurvive CanaryVerdictsAgree
CHECK_DEADLOCK FALSE
