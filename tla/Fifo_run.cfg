\* A FIFO of two bursts with an overflow interrupt when it is full.  Pauses are served in
\* time, and a machine is paused before it is stopped.
CONSTANTS
  Cpu = Cpu
  Capacity = 2
  CPHiWatermark = 1
  CPLoWatermark = 0
  CtrlValues <- AllSettings
  MaxDistance = 2
  MinDistance <- Behind
  Costs = {2}
  Lateness = {0}
  MayTimeOut = FALSE
  ConfirmStop = TRUE
SPECIFICATION FairSpec
CHECK_DEADLOCK FALSE
INVARIANTS NoLostSync SyncGoesOn OneInterruptOnItsWay NoStrandedWork InterruptSettles LockMeansIdle
PROPERTIES UpdateReturns FifoDrains
