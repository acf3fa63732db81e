SPECIFICATION DiligentSpec
CONSTANTS
  File = {f1, f2}
  ChunkCount = {0, 1, 2, 3}
  ChunkId = {0, 1}
  Worker = {w1}
  Nil = Nil
  CopyFails = FALSE
  MaxQueue = 2
  MaxHeld = 1
  User = {"admin"}
  AdminUser = "admin"
  Content = {0, 3, 4}
  SizeOf <- MCSizeOf
  ChunkSize = 2
  LookupFails = FALSE
  AccessEnds = TRUE
INVARIANTS
  ChunksHoldFile
PROPERTIES
  UploadSettles
CHECK_DEADLOCK FALSE
