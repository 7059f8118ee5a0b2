SPECIFICATION Spec
CONSTANTS
    LastPhase = 1
    SoakPhase = 0
    ModelPhase = 0
    Auths <- MCAuths
    AuthExpiry <- MCAuthExpiry
    Expiries = {1, 2}
    MaxTime = 1
    MaxGates = 3
    MaxModels = 2
    MaxLive = 3
    MaxFailures = 1
INVARIANTS
    LedgersReplay
