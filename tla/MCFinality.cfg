SPECIFICATION Spec
CONSTANTS
    Hashes <- MCBlocks
    NoHash = NoHash
    id = id
    IDs = {id}
    MaxCapacity = 2
    Genesis = "g"
    parent <- MCParent
    number <- MCNumber
    td <- MCTd
    rank <- MCRank
    Preserved = {}
    Milestones <- MCEarlyMilestones
    Checkpoints = {"a2"}
    Sources = {"b4"}
    MaxImport = 3
    MaxVotes = 0
    MaxRounds = 1
    TipOffset = 1
    MaxRewindLen = 2
    ForkLimit = 8
    Word = 16
    MayLag = TRUE
    RewindMayFail = TRUE
INVARIANTS
    StoredClosed
    RewindInWindow
PROPERTIES
    
    RewindKeepsMilestone
