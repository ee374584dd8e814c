SPECIFICATION MCSpec
CONSTANTS
    f1 = f1
    d1 = d1
    v1 = v1
    FlwTx = {f1}
    DpoTx = {d1}
    WalletTx = {v1}
    Donations = {d1}
    Workers = {w1, w2}
    NoTx = NoTx
    NoAddress = NoAddress
    Faults = TRUE
    IsCharity = TRUE
    CreatorIdReadable = TRUE
    TestMode = FALSE
SYMMETRY Symmetric
INVARIANTS MoneyBehindEverything BooksAgree CopiesBounded InvestedOnceApart KeyKeptApart
PROPERTY MeetsLedger
