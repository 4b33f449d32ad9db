\* Two trainers on one store of three generations: three launches, one death,
\* one foreign write.
CONSTANTS
    Trainers = {t1, t2}
    Target = 3
    FinalsPer = 2
    DirCount = 2
    Cadence = 1
    Outcomes = {a, b}
    MaxLaunches = 3
    MaxCrashes = 1
    MayDamage = TRUE
    Damaged = Damaged
    None = None
SPECIFICATION Spec
INVARIANTS
    ReceiptsHold
    CrashRecoverable
    DamageNoticed
\* The system stops when no more trainers are started.
CHECK_DEADLOCK FALSE
