SPECIFICATION FairStreamSpec
CONSTANTS
  Single = {"m1", "m2"}
  Batch <- MCBatch
  Consumer = {c1, c2}
  Nil = Nil
  MaxFlush = 1
INVARIANTS
  StreamTypeOK
  ReturnedOnce
  NotSkipped
PROPERTIES
  LostForGood
  AddedIsDelivered
CHECK_DEADLOCK FALSE
