SPECIFICATION FairSpec
CONSTANTS
  c1 = c1
  c2 = c2
  pod1 = pod1
  pod2 = pod2
  Container = {c1, c2}
  Pid = {p1}
  Recycled = {p1}
  Gpu = {0, 1}
  PodOf <- MCTwoPods
  Devices <- MCFirst
  Memory <- MCMemory
  Whole = 4
  IndexOf <- MCIndexOf
  Pathless = {c2}
  Host = {}
  NoGpu = NoGpu
  Nil = Nil
  MaxScrapes = 2
  MaxFaults = 0
INVARIANTS
  AttributionSound
PROPERTIES
  MisattributionHeals
  GonePodPruned
  PlaceholderReplaced
CHECK_DEADLOCK FALSE
