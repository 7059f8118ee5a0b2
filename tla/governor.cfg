SPECIFICATION Spec
CONSTANTS
    l1 = l1
    l2 = l2
    l3 = l3
    Ids <- MCIds
    Modes <- MCModes
    Config <- MCConfig
    ModeOf <- MCModeOf
    Envelope <- MCEnvelope
    Requests <- MCRequests
    Measures <- MCMeasures
    MaxFailures = 1
SYMMETRY MCSymmetry
INVARIANTS
    ExclusiveWork
    GrantsAreBacked
