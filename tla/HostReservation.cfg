\* Two launchers whose supervisors run, the first with nested work, and a third
\* that is refused after it acquires; one kill or restart.
CONSTANTS
    Tokens = {l1, l2, l3}
    Running = {l1, l2}
    Nesting = {l1}
    Backends = {"windows", "linux"}
    MaxFaults = 1
    None = None
SPECIFICATION FairSpec
INVARIANTS
    WorkExclusive
    EvidenceStands
PROPERTIES
    HostFreed
\* The system stops when every launcher has had its turn.
CHECK_DEADLOCK FALSE
