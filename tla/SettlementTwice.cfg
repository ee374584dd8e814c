SPECIFICATION Spec
CONSTANTS
    FlwTx = {f1}
    DpoTx = {}
    WalletTx = {}
    Donations = {}
    Workers = {w1, w2}
    NoTx = NoTx
    NoAddress = NoAddress
    Faults = FALSE
    IsCharity = FALSE
    CreatorIdReadable = FALSE
    TestMode = FALSE
INVARIANT InvestedOnce
