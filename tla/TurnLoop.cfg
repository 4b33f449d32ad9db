SPECIFICATION FairSpec
CONSTANTS
  Starting = 0
  MaxHand = 0
  Lifters = {0}
  MaxTurns = 3
  MaxEvents = 3
INVARIANTS
  NeverRefused
PROPERTIES
  NoWindowSkipped
  TurnEndsClean
  ImplementsTurnOrder
  TurnsEnd
CHECK_DEADLOCK TRUE
