SPECIFICATION Spec
CONSTANTS
  r1 = r1
  r2 = r2
  t1 = t1
  t2 = t2
  i1 = i1
  i2 = i2
  NoTurn = NoTurn
  NoInput = NoInput
  Runtimes = {r1, r2}
  Turns = {t1, t2}
  RecoveryTurns = {}
  DeclinableTurns = {t2}
  Inputs = {i1}
  Intents <- PlanExternal
  KeyExistsCode = TRUE
  MaxCrashes = 1
  MaxFaults = 1
SYMMETRY RuntimeSymmetry
INVARIANTS
  TypeOK
  OnceOnlyAdmission
  AdmittedEffectsSettled
  AnswersAreOriginal
  ZeroProofNonIdempotent
PROPERTIES
  ImplementsOnceOnly
