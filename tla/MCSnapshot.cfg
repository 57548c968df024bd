SPECIFICATION Spec
CONSTANTS
    MaxInt64 = 127
    None = None
    Setups <- MCSetups
    Producers <- MCProducers
    Sprint = 2
    checkpointInterval = 2
    Slack = 2
INVARIANTS
    SnapshotCanonical
    NoClipping
    Proportional
    NewcomerWaits
    InTurnHeaviest
