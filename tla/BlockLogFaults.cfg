SPECIFICATION LogSpec
CONSTANTS
  Stored = 0
  MaxBlocks = 3
INVARIANTS
  IndexComplete
  HeadAtEnd
