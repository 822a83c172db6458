\* A player leaves the host and a spectator during a game.
CONSTANTS
  Players = {1, 2, 3}
  NPads = 2
  Maps <- Unchanged
  Targets = {0}
  MaxGames = 1
  MaxPolls <- Once
  Leavers = {2}
  Stoppers = {}
SPECIFICATION FairSpec
CHECK_DEADLOCK FALSE
PROPERTIES PollReturns PlaysAlone
