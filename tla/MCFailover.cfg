SPECIFICATION FairSpec
CONSTANTS
    Setups <- MCSetups
    NoConn = NoConn
INVARIANTS
    HealthEarned
    RequestTriesAll
PROPERTIES
    ActiveSettles
    ListensAgain
    StopReturns
CHECK_DEADLOCK FALSE
