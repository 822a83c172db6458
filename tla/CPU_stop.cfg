\* The CPU thread and the host, with breakpoints, single steps and repeated boots.
\* The hang that StopReturns is about is a state without a successor.
CONSTANTS
  Cpu = Cpu
  Host = Host
  Nobody = Nobody
SPECIFICATION FairSpec
CHECK_DEADLOCK FALSE
PROPERTIES StopReturns
