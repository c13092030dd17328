SPECIFICATION Spec
CONSTANTS
  PagesNeeded = 2
  MaxFreePages = 2
  LeafKeys = 2
  BT_PAGE_SIZE = 36
  BT_MAX_KEYS = 60
  BT_MAX_VALUES = 60
  Data = {a, b}
  NoData = NoData
  MaxRecordId = 3
  MaxPages = 8
  MaxJournal = 6
  MaxCrashes = 0
  Calls <- AllCalls
  ChangeOnlyInTxn = FALSE
  TornWrites = FALSE
PROPERTY ImplementsRecordStore
