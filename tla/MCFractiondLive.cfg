CONSTANTS
  c1 = c1
  c2 = c2
  NoHook = NoHook
  Absent = Absent
  Unparsable = Unparsable
  Container = {c1}
  DiskFaults = FALSE
  QueueDepth = 1
  Configs <- TwoConfigs
  PodSpecs <- SomeSpecs
  MaxSessions = 2
  MaxStarts = 1
  Faults = {"giveUp", "goodbye", "terminate"}
SPECIFICATION FairSpec
INVARIANTS StopsOnlyUnhooked HookedRecordedIffMutated
PROPERTIES AuditFindsUnhooked RemediationCompletes DrainTerminates FalseReadyHeals
CHECK_DEADLOCK FALSE
