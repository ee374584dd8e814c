SPECIFICATION Spec
CONSTANTS
    Creates = {c1, c2}
    Directs = {d1}
    StatusCalls = {s1, s2}
    Marks = {m1}
    Hashes = {h1}
    ZeroHash = ZeroHash
    NoHash = NoHash
    Together = 2
    Faults = TRUE
SYMMETRY Symmetry
INVARIANTS RecordsInOrder InvestedIsDeposited RefundedOnce
PROPERTY FinalStays
CHECK_DEADLOCK FALSE
