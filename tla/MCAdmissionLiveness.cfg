SPECIFICATION FairSpec
CONSTANTS
  r1 = r1
  r2 = r2
  t1 = t1
  t2 = t2
  i1 = i1
  i2 = i2
  NoTurn = NoTurn
  NoInput = NoInput
  Runtimes = {r1, r2}
  Turns = {t1, t2}
  RecoveryTurns = {}
  DeclinableTurns = {}
  Inputs = {i1}
  Intents <- PlanEffectFree
  KeyExistsCode = TRUE
  MaxCrashes = 2
  MaxFaults = 0
PROPERTIES
  EffectFreeTurnsAdmitted
