\* Requests that queue, backfill, lend and borrow, without timed work.
CONSTANTS
    CoreOrder <- SixCores
    KeepFree = 1
    CiFloor = 1
    Jobs = {"s", "h", "f", "g", "b"}
    Request <- QueueRequest
    TimedCores = {}
    MaxReservations = 0
    OsMayFail = FALSE
    MayDie = FALSE
    None = None
SPECIFICATION FairSpec
INVARIANTS
    BackfillHarmless
PROPERTIES
    EveryJobEnds
