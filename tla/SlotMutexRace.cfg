\* One launcher dies holding the mutex and two others find it stale.
CONSTANTS
    Procs = {p1, p2, p3}
    Nobody = Nobody
    MaxCrashes = 1
    MayStall = FALSE
SPECIFICATION Spec
INVARIANT LiveHolderExcludes
