CONSTANTS
  Container = {c1, c2}
  DiskFaults = TRUE
  QueueDepth = 1
  Flusher = {shutdown, main}
  NoFlusher = NoFlusher
SPECIFICATION FairSpec
INVARIANTS TypeOK LastCallWins
PROPERTIES ImplementsRegisters NoGap FlushDrains FlushReturns
