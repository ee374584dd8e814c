SPECIFICATION MCSpec
CONSTANTS
    Requests = {r1, r2, r3, r4}
    None = None
    Together = 2
    Clients = {c1, c2}
    MaxAttempts = 2
    MaxSends = 2
    BlockTime = 2
    CodeLife = 3
    Window = 3
SYMMETRY Symmetry
INVARIANTS SuccessorsBounded SessionsEnd OldPasswordsEnd BlockedIsEnd GuessesBounded MailsBounded MfaCanBePassed
CHECK_DEADLOCK FALSE
