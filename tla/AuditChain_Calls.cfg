SPECIFICATION FairSpec
CONSTANTS
  Calls = {a, b, c, x}
  Chained = {a, b, c}
  MaxAttempts = 2
  MaxEdits = 1
INVARIANTS TypeOK BadgeIsHonest RefusedOnlyUnderContention
PROPERTIES EveryCallReturns ImplementsEventLog
CHECK_DEADLOCK FALSE
