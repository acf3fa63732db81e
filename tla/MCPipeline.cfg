SPECIFICATION FairPipeSpec
CONSTANTS
  Worker = {w1}
  ReadErrors = TRUE
  MaxSent = 6
INVARIANTS
  PipeTypeOK
  NothingLostOrReordered
  PoolNeverBlocks
PROPERTIES
  WorkSpec
  SentUnlessDead
