SPECIFICATION FairSpec
CONSTANTS
    slot = slot
    marker = marker
    acct = acct
    none = none
    N = 3
    Programs <- MCPrograms
    Keys <- MCKeys
    Markers <- MCMarkers
    Addrs <- MCAddrs
    Values <- MCValues
    Zero = 0
    Nil = none
    Base <- MCBase
    Start <- MCStart
    Reading <- MCReading
    Ends <- MCEnds
    NextRead <- MCNextRead
    Step <- MCStep
    Output <- MCOutput
    NumWorkers = 2
    InFlightTaskMultiplier = 1
    Blocks <- MCChains
    MayCancel = TRUE
    MayPanic = TRUE
PROPERTIES
    Termination
    ImplementsSerial
\* Termination says that the call never gets stuck before it returns.
CHECK_DEADLOCK FALSE
