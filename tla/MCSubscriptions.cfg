SPECIFICATION FairSpec
CONSTANTS
  s1 = s1
  i1 = i1
  Subs = {s1}
  Instances = {i1}
  QueueBound = 2
  MaxEvents = 4
  MaxRev = 1
  MaxFlips = 2
  NoInstance = NoInstance
INVARIANTS
  TypeOK
  NothingLost
  PumpRunsWhileQueued
  StoppedIsQuiet
PROPERTIES
  EndedIsSilent
  FreshVerdict
  EveryReceiptAnswered
CHECK_DEADLOCK FALSE
