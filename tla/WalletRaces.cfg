SPECIFICATION Spec
CONSTANTS
    c1 = c1
    c2 = c2
    i1 = i1
    w1 = w1
    w2 = w2
    v1 = v1
    ann = ann
    bob = bob
    keibo = keibo
    Treasury = keibo
    Owners = {ann, bob, keibo}
    Amount <- MCAmount
    Visits = {v1}
    Credits = {c1, c2}
    Investments = {i1}
    Withdrawals = {w1, w2}
    Owner <- MCOwner
    Parallel = 3
    Faults = TRUE
INVARIANT HeldWasCredited
CHECK_DEADLOCK FALSE
