SPECIFICATION Spec
CONSTANTS
  Missing = Missing
  Garbled = Garbled
  Node = {n1}
  Daemons <- MCMpsd
  Policy <- MCSupported
  SkipVersionChecks = FALSE
  Signals = {"upgrade"}
  MaxFaults = 1
  MaxChurn = 0
INVARIANTS
  PatchFailuresRetried
CHECK_DEADLOCK FALSE
