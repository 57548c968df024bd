SPECIFICATION FairSpec
CONSTANTS
    v1 = v1
    v2 = v2
    w = w
    Setups <- MCSetups
    zerothSpanEnd = 1
    defaultSpanLength = 2
    Lengths = {1, 2}
    Producers = {p, q}
    Target = 3
    Author = p
    None = None
INVARIANTS
    AnswerNewest
    ErrorJustified
PROPERTIES
    LookupEnds
    NewProducerSeen
