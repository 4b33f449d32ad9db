CONSTANTS
    MaxStaleness = 3
    TotalUpdates = 6
    BatchEpisodes = 2
    ProduceMayPanic = TRUE
    ProducerMayBeSlow = TRUE
SPECIFICATION FairSpec
INVARIANTS
    StalenessBounded
    OutstandingBounded
    LedgerExact
    OutcomeHonest
    NeverBothWaiting
PROPERTIES
    MatchesSynchronousArm
    Terminates
