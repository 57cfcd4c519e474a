SPECIFICATION Spec
CONSTANTS
  Runtimes = {r1, r2}
  Turns = {t1, t2, t3, t4}
  Inputs = {i1, i2}
  RingBound = 2
  HistoryBound = 1
  KeyExistsCode = TRUE
  MaxFaults = 2
  MaxCrashes = 1
  NoTurn = NoTurn
  NoInput = NoInput
SYMMETRY RingSymmetry
INVARIANTS
  TypeOK
  NeverForgotten
  AdmittedOnce
  RingIsSuffix
  ArchivedWasAdmitted
  GrowsByFaultsOnly
