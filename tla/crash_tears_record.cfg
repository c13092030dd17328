SPECIFICATION Spec
CONSTANTS
  PagesNeeded = 2
  MaxFreePages = 3
  LeafKeys = 4
  BT_PAGE_SIZE = 63
  BT_MAX_KEYS = 60
  BT_MAX_VALUES = 60
  Data = {a, b}
  NoData = NoData
  MaxRecordId = 2
  MaxPages = 6
  MaxJournal = 4
  MaxCrashes = 1
  Calls <- RecordCalls
  ChangeOnlyInTxn = TRUE
  TornWrites = FALSE
INVARIANT RecoveryCompletesRecords
CHECK_DEADLOCK FALSE
