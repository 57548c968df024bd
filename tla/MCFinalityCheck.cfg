SPECIFICATION Spec
CONSTANTS
    Hashes <- MCBlocks
    NoHash = NoHash
    id = id
    IDs = {id}
    MaxCapacity = 2
    Genesis = "g"
    parent <- MCParent
    number <- MCNumber
    td <- MCTd
    rank <- MCRank
    Preserved = {}
    Milestones <- MCMilestones
    Checkpoints = {}
    Sources = {"b2", "b3"}
    MaxImport = 2
    MaxVotes = 0
    MaxRounds = 1
    TipOffset = 1
    MaxRewindLen = 2
    ForkLimit = 8
    Word = 16
    MayLag = FALSE
    RewindMayFail = FALSE
PROPERTIES
    FreshCheckProtects
