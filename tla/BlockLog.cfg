SPECIFICATION LogSpec
CONSTANTS
  Stored = 2
  MaxBlocks = 5
INVARIANTS
  ReadsBack
  IndexComplete
  FlushedStays
