SPECIFICATION Spec
CONSTANTS
    Lateness = 1
    Grace = 1
    Lag = 0
    Horizon = 1
    MaxRestarts = 1
    Scenarios <- MCScenarios
INVARIANTS CasesTellTheTruth InfeasibleIsFatal
PROPERTIES VerdictsAreFinal
CHECK_DEADLOCK FALSE
