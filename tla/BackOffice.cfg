SPECIFICATION MCSpec
CONSTANTS
    Approvals = {1, 2, 3, 4}
    Together = 3
    Bookings = {1, 2, 3}
    Amounts = {1, 2}
    TellersTogether = 2
    Visits = {1, 2, 3}
    People = {boss, guest}
    Investors = {guest}
    Admins = {boss}
    Levels = {1, 4}
    VisitsTogether = 2
    Members = {m1, m2, m3}
    Wallets = {w1, w2}
    NoWallet = NoWallet
    Forms = {1, 2, 3, 4}
    FormsTogether = 2
    Adders = {a1, a2, a3, a4}
    AsDefault = {a1, a2, a3}
    Payers = {p1, p2}
    CallsTogether = 3
    Mints = {1, 2, 3}
    Valuations = {u1}
    Worths = {1, 2}
    MintsTogether = 2
INVARIANTS ApprovalsKept LocksBounded ShownWasBooked BalancesMatchRows RevokedStayOut OwnersBounded ChosenIsPaid DocumentsOfMints
CHECK_DEADLOCK FALSE
