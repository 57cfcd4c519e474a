SPECIFICATION Spec
CONSTANTS
  r1 = r1
  r2 = r2
  t1 = t1
  t2 = t2
  i1 = i1
  i2 = i2
  NoTurn = NoTurn
  NoInput = NoInput
  Runtimes = {r1, r2}
  Turns = {t1}
  RecoveryTurns = {}
  DeclinableTurns = {}
  Inputs = {i1, i2}
  Intents <- PlanOrdered
  KeyExistsCode = FALSE
  MaxCrashes = 1
  MaxFaults = 0
SYMMETRY RuntimeSymmetry
INVARIANTS
  IntentsInOrder
  SettledPermitDead
PROPERTIES
  SettledOutcomeStands
