SPECIFICATION Spec
CONSTANTS
  a1 = a1
  a2 = a2
  a3 = a3
  r1 = r1
  b1 = b1
  b2 = b2
  m1 = m1
  m2 = m2
  Attempts = {a1, a2, a3}
  Recoveries = {r1}
  Builds = {b1, b2}
  BuildOf <- MCBuildOf
  PinnedOnly = {}
  Messages = {m1, m2}
  RoleDenied <- MCRoleDenied
  MaxInFlight = 2
  MaxRounds = 2
  Starts <- OnlyRestarting
  NoAttempt = NoAttempt
  NoBuild = NoBuild
  NoMessage = NoMessage
INVARIANT MayAdmitIsRegistered
SYMMETRY PinSymmetry
CHECK_DEADLOCK FALSE
