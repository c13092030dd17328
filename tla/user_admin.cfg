SPECIFICATION Spec
CONSTANTS
  BT_PAGE_SIZE = 35
  BT_MAX_KEYS = 60
  BT_MAX_VALUES = 60
  Names <- ThreeNames
  Key <- CollidingKey
  MAX_CANDIDATES = 2
  MaxId = 4
  MaxCrashes = 2
INVARIANTS TypeOK SettledIndexed NamesUnique NoStaleEntries FoundByOwnName
CHECK_DEADLOCK FALSE
