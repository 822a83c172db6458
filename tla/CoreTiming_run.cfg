\* Events of the CPU thread and of another, within a slice and beyond it, while the user
\* changes the overclocking factor, states are saved and loaded and the debugger steps, on
\* a core that may run a block at zero.
CONSTANTS
  Types = {vi, ipc}
  Video = vi
  Threads = {gpu}
  Cpu = Cpu
  Free = Free
  MaxSlice = 2
  Factors <- SlowAndFast
  Blocks = {2}
  RunsAtZero = TRUE
  AdvanceOnEntry = TRUE
  Stepping = TRUE
  Delays = {1, 3}
  MaxTime = 1
  MaxPending = 2
  Savestates = TRUE
SPECIFICATION Spec
INVARIANTS DeadlineKept SameTimeInOrder NoEventOverdue
PROPERTY TimeNeverGoesBack
