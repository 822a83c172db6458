\* Two commands out of six and a change of discs, or one and two; two sessions.
SPECIFICATION FairSpec
CONSTANTS
  Files = {f1, f2}
  Discs = {d1, d2}
  Launches = {l1}
  Missing = {m1}
  Delays = {1, 2}
  DriveTime = 1
  Latency = 1
  SwapTime = 1
  MaxSends = 2
  MaxSwaps = 2
  MaxBoots = 2
  MaxAsked = 3
  Nothing = Nothing
INVARIANTS TypeOK NoStall InOrder RightData
PROPERTIES DiscStaysForRead Served StopReturns
CHECK_DEADLOCK FALSE
