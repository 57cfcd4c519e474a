SPECIFICATION FairSpec
CONSTANTS
  x = x
  y = y
  Calls = {1, 2, 3, 4, 5}
  Plans <- MCPlans
  Works = {1, 2}
  Poisons = {1}
  MaxOrdinal = 3
  Inputs = {x, y}
  MaxRounds = 2
  MaxFaults = 1
  MaxCrashes = 1
  NoKey = NoKey
  NoInput = NoInput
  NoOutcome = NoOutcome
INVARIANTS
  TypeOK
  MarkedWasTold
  TerminalAfterTurn
  InvocationIsOnes
PROPERTIES
  Promised
  SettledWithRole
  Resolved
CHECK_DEADLOCK FALSE
