SPECIFICATION Spec
CONSTANTS
  PagesNeeded = 1
  MaxFreePages = 2
  LeafKeys = 2
  BT_PAGE_SIZE = 36
  BT_MAX_KEYS = 60
  BT_MAX_VALUES = 60
  Data = {a, b}
  NoData = NoData
  MaxRecordId = 3
  MaxPages = 5
  MaxJournal = 3
  MaxCrashes = 0
  Calls <- AllCalls
  ChangeOnlyInTxn = FALSE
  TornWrites = FALSE
PROPERTIES ImplementsRecordStore ImplementsRecordMap
