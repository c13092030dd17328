SPECIFICATION Spec
CONSTANTS
  BT_PAGE_SIZE = 57
  BT_MAX_KEYS = 3
  BT_MAX_VALUES = 2
  TreeKeys = {1, 2, 3, 4}
  TreeValues = {1, 2, 3}
  FindLimits = {1, 16}
INVARIANTS TypeOK AlwaysReadable KeysInOrder
PROPERTY ImplementsMultiMap
