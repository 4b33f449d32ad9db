\* A lender, an ordinary and a background claim with timed work, incomplete
\* suspensions and dying launchers.
CONSTANTS
    CoreOrder <- FourCores
    KeepFree = 1
    CiFloor = 0
    Jobs = {"s", "o", "b"}
    Request <- MixedRequest
    TimedCores = {{4}, {1, 2}}
    MaxReservations = 2
    OsMayFail = TRUE
    MayDie = TRUE
    None = None
SPECIFICATION Spec
INVARIANTS
    TimedExclusive
    ClaimsExclusive
    BudgetKept
