SPECIFICATION FairSpec
CONSTANTS
  Missing = Missing
  Garbled = Garbled
  Node = {n1}
  Daemons <- MCMpsd
  Policy <- MCPolicy
  SkipVersionChecks = FALSE
  Signals = {"upgrade"}
  MaxFaults = 1
  MaxChurn = 2
INVARIANTS
  UpgradeReflected
  UpgradedNodeCleared
  ConditionsCleanedUp
PROPERTIES
  UnhealthyReported
  DeletionCompletes
CHECK_DEADLOCK FALSE
