SPECIFICATION Spec
CONSTANTS
  File = {f1, f2}
  ChunkCount = {2}
  ChunkId = {0, 1}
  Worker = {w1, w2}
  Nil = Nil
  CopyFails = FALSE
  MaxQueue = 1
  MaxHeld = 1
SYMMETRY Symmetry
INVARIANTS
  TypeOK
  RowsWellFormed
  RetiredHasSuccessor
  LineageVisible
  NotifiedIsSettled
  BlobWasUploaded
PROPERTIES
  AtomicHandover
