SPECIFICATION OutboxFairSpec
CONSTANTS
  c1 = c1  c2 = c2
  Call = {c1, c2}
  Size = {1, 2}
  MaxFrames = 2
  MaxBytes = 3
  ReserveFrames = 1
  ReserveBytes = 1
  MaxBuffered = 2
  MaxMessage = 3
INVARIANTS
  QueueInv
PROPERTIES
  NothingLost
  QueueMoves
