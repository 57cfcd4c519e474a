SPECIFICATION FairSpec
CONSTANTS
  h1 = h1
  h2 = h2
  i1 = i1
  i2 = i2
  c1 = c1
  c2 = c2
  c3 = c3
  c4 = c4
  c5 = c5
  r1 = r1
  Calls = {c1, c2, c3, c4}
  Hosts = {h1, h2}
  HostOf <- MCHostOf
  Instances = {i1}
  InstanceOf <- MCInstanceOf
  Readers = {r1}
  ReadOf <- MCReadOf
  Retention = 2
  PageSizes = {1, 2}
  MaxCrashes = 1
  MaxFaults = 1
  NoCall = NoCall
INVARIANTS
  TypeOK
  SeenOrMissed
  LaneOrder
PROPERTY ChainedIsRun
CHECK_DEADLOCK FALSE
