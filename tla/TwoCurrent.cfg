SPECIFICATION Spec
CONSTANTS
  File = {f1, f2, f3}
  ChunkCount = {1}
  ChunkId = {0}
  Worker = {w1}
  Nil = Nil
  CopyFails = FALSE
  MaxQueue = 2
  MaxHeld = 1
SYMMETRY Symmetry
INVARIANTS
  CurrentIsLatest
