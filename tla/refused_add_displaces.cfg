SPECIFICATION Spec
CONSTANTS
  PagesNeeded = 2
  MaxFreePages = 3
  LeafKeys = 2
  Data = {a, b}
  NoData = NoData
  MaxRecordId = 4
  MaxPages = 10
PROPERTY RebuildKeepsRecords
CHECK_DEADLOCK FALSE
