SPECIFICATION ListingSpec
CONSTANTS
  Version <- MCTwoVersions
  Limits = {0, 1}
  MaxRows = 1
  MaxSlipped = 1
INVARIANTS
  EmptyIsListed
CHECK_DEADLOCK FALSE
