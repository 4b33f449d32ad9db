\* Two workers play three episodes; any session may fail or panic.
CONSTANTS
    WorkerCount = 2
    Seats <- MCSeats
    MayFail = TRUE
    None = None
SPECIFICATION Spec
INVARIANTS NoPayloadRace ProtocolHolds TrajectoriesScheduleFree OutcomeHonest
PROPERTY Returns
CHECK_DEADLOCK FALSE
