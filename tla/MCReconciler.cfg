SPECIFICATION Spec
CONSTANTS
  Missing = Missing
  Garbled = Garbled
  Node = {n1}
  Daemons <- MCDaemons
  Policy <- MCSupported
  SkipVersionChecks = FALSE
  Signals = {"upgrade", "client"}
  MaxFaults = 1
  MaxChurn = 1
INVARIANTS
  StatusConverges
  PassReportsUnhealthy
CHECK_DEADLOCK FALSE
