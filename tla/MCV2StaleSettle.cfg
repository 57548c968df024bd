SPECIFICATION Spec
CONSTANTS
    slot = slot
    marker = marker
    acct = acct
    none = none
    N = 3
    Programs <- MCPrograms
    Keys <- MCKeys
    Markers <- MCMarkers
    Addrs <- MCAddrs
    Values <- MCValues
    Zero = 0
    Nil = none
    Base <- MCBase
    Start <- MCStart
    Reading <- MCReading
    Ends <- MCEnds
    NextRead <- MCNextRead
    Step <- MCStep
    Output <- MCOutput
    NumWorkers = 2
    InFlightTaskMultiplier = 1
    Blocks <- MCChains
    MayCancel = TRUE
    MayPanic = FALSE
INVARIANT
    InvalidatedNeverSettled
