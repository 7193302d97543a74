SPECIFICATION FairSpec
CONSTANTS
  Interval = 5
  MaxBackoff = 8
  MaxRetries = 3
  StableThreshold = 1
  Uptimes <- MCUptimes
  Driver = {d1, d2}
  Unlabelled = none
  MaxFaults = 5
INVARIANTS
  TypeOK
  StartsOnFreeSocket
  LabelMatchesDriver
  BudgetExact
PROPERTIES
  SigtermEnds
  Recovers
CHECK_DEADLOCK FALSE
