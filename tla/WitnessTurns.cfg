CONSTANTS
  Witness = {1, 2, 3, 4}
  Genesis = 1
  MaxWitnesses = 2
  MaxVoted = 1
  Required = 2
  Lap = 41
  Day = 2
  MaxVotes = 6
  MaxTime = 9
  Cycle = 6
  Times <- MCTimes
  Plans <- Wavering
SPECIFICATION FairSpec
PROPERTIES
  TurnAlwaysComes
CHECK_DEADLOCK FALSE
