SPECIFICATION FairSpec
CONSTANTS
    FlwTx = {}
    DpoTx = {d1}
    WalletTx = {v1}
    Donations = {}
    Workers = {w1, w2}
    NoTx = NoTx
    NoAddress = NoAddress
    Faults = FALSE
    IsCharity = FALSE
    CreatorIdReadable = FALSE
    TestMode = FALSE
PROPERTY SuccessIsInvested
