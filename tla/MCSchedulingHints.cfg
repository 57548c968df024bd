SPECIFICATION Spec
CONSTANTS
    s1 = s1
    s2 = s2
    Addresses = {a, b}
    NoAddress = nil
    MinChainSize = 3
    Accounts <- MCAccounts
    BaseNonce <- MCBaseNonce
    MaxNonce = 11
    Inputs <- MCInputs
INVARIANTS
    ToPrevRight
    PrecomputedExact
