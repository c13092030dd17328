SPECIFICATION Spec
CONSTANTS
  PagesNeeded = 1
  MaxFreePages = 3
  LeafKeys = 4
  BT_PAGE_SIZE = 63
  BT_MAX_KEYS = 60
  BT_MAX_VALUES = 60
  Data = {a, b}
  NoData = NoData
  MaxRecordId = 2
  MaxPages = 4
  MaxJournal = 2
  MaxCrashes = 2
  Calls <- RecordCalls
  ChangeOnlyInTxn = TRUE
  TornWrites = FALSE
INVARIANT CanReopen
CHECK_DEADLOCK FALSE
