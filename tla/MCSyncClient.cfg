SPECIFICATION SyncSpec
CONSTANTS
  File = {f1, f2, f3}
  ChunkCount = {0, 1, 2}
  ChunkId = {0, 1}
  Worker = {w1}
  Nil = Nil
  CopyFails = TRUE
  MaxQueue = 1
  MaxHeld = 1
SYMMETRY Symmetry
INVARIANTS
  OneCurrentPerFile
  CurrentIsWhole
  ChunkOwnOrInherited
PROPERTIES
  SettledIsFrozen
  HistorySpec
CHECK_DEADLOCK FALSE
