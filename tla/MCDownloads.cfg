SPECIFICATION DownloadsSpec
CONSTANTS
  Version = {"a", "b"}
  Upload = {"a0", "a1", "a1again", "b0"}
  Request = {"d1", "d2"}
  Cached = {"d1", "d2"}
  PrevOf <- MCPrevOf
  NChunks <- MCNChunks
  NameOf <- MCNameOf
  Target <- MCTarget
  Wanted <- MCWanted
  Torn = Torn
  Nil = Nil
INVARIANTS
  DownloadsTypeOK
  OnceUploadedIsServed
  ChunksInPlace
  AloneGetsItsFile
  OutdirIsEmptied
CHECK_DEADLOCK FALSE
