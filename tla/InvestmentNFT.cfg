SPECIFICATION Spec
CONSTANTS
    Addr = {ann, bob, vault}
    Contracts = {vault}
    Projects = {p1, p2}
    Investments = {i1, i2}
    MaxTokens = 2
    MaxValue = 1
    MaxMoves = 2
    MaxDepth = 2
INVARIANTS HolderIsListed IndexesExact InvestorIsOwner
CHECK_DEADLOCK FALSE
