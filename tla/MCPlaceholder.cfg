SPECIFICATION FairSpec
CONSTANTS
  c1 = c1
  c2 = c2
  pod1 = pod1
  pod2 = pod2
  Container = {c1, c2}
  Pid = {p1}
  Recycled = {}
  Gpu = {0, 1}
  PodOf <- MCOnePod
  Devices <- MCShared
  Memory <- MCMemory
  Whole = 4
  IndexOf <- MCIndexOf
  Pathless = {c2}
  Host = {}
  NoGpu = NoGpu
  Nil = Nil
  MaxScrapes = 1
  MaxFaults = 0
PROPERTIES
  NoPlaceholderForEver
CHECK_DEADLOCK FALSE
