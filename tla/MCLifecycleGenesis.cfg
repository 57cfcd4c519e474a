SPECIFICATION Spec
CONSTANTS
  h1 = h1
  h2 = h2
  i1 = i1
  i2 = i2
  c1 = c1
  c2 = c2
  c3 = c3
  c4 = c4
  c5 = c5
  r1 = r1
  Calls = {c4, c5}
  Hosts = {h1, h2}
  HostOf <- MCHostOf
  Instances = {i1, i2}
  InstanceOf <- MCInstanceOf
  Readers = {r1}
  ReadOf <- MCReadOf
  Retention = 2
  PageSizes = {1, 2}
  MaxCrashes = 0
  MaxFaults = 0
  NoCall = NoCall
INVARIANT OpenedIsPinned
CHECK_DEADLOCK FALSE
