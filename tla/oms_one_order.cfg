SPECIFICATION Spec
CONSTANTS
    o1 = o1
    o2 = o2
    o3 = o3
    k1 = k1
    a1 = a1
    a2 = a2
    a3 = a3
    NoFill = NoFill
    Orders = {o1}
    Key <- OneKey
    Quantity <- OneQuantity
    Fills <- SomeFills
INVARIANTS
    TypeOK
    SubmittedAtMostOnce
    LedgerLegalExceptRecancel
    ProjectionMatchesLedger
    AmbiguityIsDurable
    FillsAccountedFor
PROPERTIES
    ImplementsLifecycle
