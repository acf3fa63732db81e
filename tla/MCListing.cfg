SPECIFICATION ListingSpec
CONSTANTS
  Version <- MCVersions
  Limits = {0, 1, 2, 3}
  MaxRows = 2
  MaxSlipped = 2
INVARIANTS
  SkippedOnlyIfShrunk
CHECK_DEADLOCK FALSE
