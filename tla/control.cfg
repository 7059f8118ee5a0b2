SPECIFICATION FairSpec
CONSTANTS
    Keys <- MCKeys
    Command <- MCCommand
    Deployments <- MCBoth
    OrdersPerCycle = 2
    MaxIncidents = 1
    MaxStates = 1
    MaxCrashes = 1
INVARIANTS
    SwitchMatchesLedger
    HaltStopsTrading
PROPERTIES
    CommandTakesEffect
