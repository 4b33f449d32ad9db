CONSTANTS
    Writers = {w1, w2}
    StageNames = {s1, s2}
    FinalNames = {f1}
    PointerNames = {p1}
    Values = {a, b}
    None = None
    Torn = Torn
    MaxInodes = 3
    MaxPowerLosses = 2
SPECIFICATION Spec
SYMMETRY Symmetry
INVARIANTS
    FinalNeverTorn
    ReceiptDurable
    PointerNeverRollsBack
    OwnStageOnly
PROPERTIES
    ImplementsWriteOnce
CHECK_DEADLOCK FALSE
