\* Two games between two players, who change pads and buffer size.
CONSTANTS
  Players = {1, 2}
  NPads = 2
  Maps <- Swapped
  Targets = {0, 1}
  MaxGames = 2
  MaxPolls <- OnceThenTwice
  Leavers = {}
  Stoppers = {2}
SPECIFICATION Spec
CHECK_DEADLOCK FALSE
INVARIANTS Lockstep NoInputLost
