CONSTANTS
    c1 = c1
    c2 = c2
    Cards = {c1, c2}
    MainSize = 2
    SideSize = 1
    Registered <- MCRegistered
    Plans <- MCPlans
    MaxGameIndex = 4
SPECIFICATION Spec
INVARIANTS
    ScoreMatchesRecord
    LoserChooses
    PlayedDecksRegistered
CHECK_DEADLOCK FALSE
