CONSTANTS
  Witness = {1, 2, 3, 4}
  Genesis = 1
  MaxWitnesses = 3
  MaxVoted = 1
  Required = 2
  Lap = 23
  Day = 2
  MaxVotes = 3
  MaxTime = 9
  Cycle = 6
  Times <- MCTimes
  Plans <- MCPlans
SPECIFICATION FairSpec
INVARIANTS
  VirtualTimesConsistent
  ScheduleIsFull
PROPERTIES
  TurnComes
  HardforkHappens
CHECK_DEADLOCK FALSE
