SPECIFICATION Spec
CONSTANTS
    c1 = c1
    c2 = c2
    i1 = i1
    w1 = w1
    w2 = w2
    v1 = v1
    ann = ann
    bob = bob
    keibo = keibo
    Treasury = keibo
    Owners = {ann, bob, keibo}
    Amount <- MCAmount
    Visits = {}
    Credits = {c1}
    Investments = {i1}
    Withdrawals = {w1}
    Owner <- MCOwner
    Parallel = 2
    Faults = FALSE
INVARIANT NeverOverdrawn
CHECK_DEADLOCK FALSE
