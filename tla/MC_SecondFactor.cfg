SPECIFICATION Spec
CONSTANTS
    Secrets = {k1, k2}
    Backups = {b1, b2}
    Phones = {p1, p2}
    Requests = {r1, r2}
    None = None
    MaxAttempts = 1
    MaxOtps = 2
    MaxOps = 4
SYMMETRY Symmetry
CHECK_DEADLOCK FALSE
INVARIANTS
    DeliveredCodeHolds
    BackupCodeOnceUnlessRaced
    FactorsProven
    TrustEndsWithEnrolment
