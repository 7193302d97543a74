CONSTANTS
  c1 = c1
  c2 = c2
  NoHook = NoHook
  Absent = Absent
  Unparsable = Unparsable
  Container = {c1, c2}
  DiskFaults = FALSE
  QueueDepth = 1
  Configs <- OneConfig
  PodSpecs <- TwoFractional
  MaxSessions = 2
  MaxStarts = 1
  Faults = {"emptyReplay", "failedStop", "kill"}
SPECIFICATION Spec
SYMMETRY Symmetry
INVARIANT MappingTracksRuntime
PROPERTIES LiveNeverUnlinked ImplementsDirectory
CHECK_DEADLOCK FALSE
