SPECIFICATION Spec
CONSTANTS
    MaxRetries = 2
    FailureThreshold = 3
    Quantity = 2
    Writers = {w1, w2}
    StartingCash = 1000
    MaxRows = 3
    Inputs <- MCInputs
    Instruments = {btc, eth}
    Marks = {10, 20}
    Depth = 2
    Fees = {30}
    MaxFills = 2
    MaxWorking = 2
    MaxMoves = 1
    MaxEvents = 2
    MaxChanges = 1
    WallTime = 2
INVARIANTS WrittenOnce ReportIsTrue
           BooksHold
           FillsKeepLimits MeasuredIsEarned
PROPERTIES ReductionIsExact SupervisedRunEnds QualificationEnds HermesAnswersTruthfully
CHECK_DEADLOCK FALSE
