CONSTANTS
    h1 = h1
    NoHash = NoHash
    a = a
    b = b
    Hashes = {h1}
    IDs = {a, b}
    MaxCapacity = 2
    Numbers = {1, 2, 3}
    MaxFailures = 1
    MaxCrashes = 1
SPECIFICATION Spec
SYMMETRY Symmetry
INVARIANTS
    LockHasVoters
    FutureConsistent
    RestartExact
    PurgeIsFinal
    
