SPECIFICATION UploadsSpec
CONSTANTS
  File = {f1, f2}
  ChunkCount = {1}
  ChunkId = {0}
  Worker = {w1}
  Nil = Nil
  CopyFails = FALSE
  MaxQueue = 1
  MaxHeld = 1
  User = {"admin", "another"}
  AdminUser = "admin"
  Content = {1, 2}
  SizeOf <- MCSizeOf
  ChunkSize = 2
  LookupFails = TRUE
  AccessEnds = FALSE
SYMMETRY Symmetry
INVARIANTS
  UploadsTypeOK
  DuplicateOnlyByRace
PROPERTIES
  CutOffForGood
  ReconcilerSpec
CHECK_DEADLOCK FALSE
