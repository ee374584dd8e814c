SPECIFICATION MCSpec
CONSTANTS
    Users = {u1, u2}
    Jobs = {j1, j2}
    NoJob = NoJob
    Sessions = {s1, s2}
    Calls = {c1, c2}
    OverrideTo = {"APPROVED", "REJECTED", "NEEDS_MORE_INFO"}
    Answers = {"APPROVED", "REJECTED", "OTHER"}
    DecideTo = {"VERIFIED", "REJECTED"}
SYMMETRY Symmetric
INVARIANTS VerifiedWasCleared MirrorsProfile WaitsOnlyIfEarly
CHECK_DEADLOCK FALSE
