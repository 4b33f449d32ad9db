\* One reservation, nobody killed.
CONSTANTS
    Tokens = {l1}
    Running = {l1}
    Nesting = {l1}
    Backends = {"windows", "linux"}
    MaxFaults = 0
    None = None
SPECIFICATION FairSpec
PROPERTIES
    ReleasedOnceIdle
CHECK_DEADLOCK FALSE
