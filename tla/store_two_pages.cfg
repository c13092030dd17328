\* Two pages per record, and room in the index for two of the four that can be added.
SPECIFICATION Spec
CONSTANTS
  PagesNeeded = 2
  MaxFreePages = 2
  LeafKeys = 2
  Data = {a, b}
  NoData = NoData
  MaxRecordId = 4
  MaxPages = 10
INVARIANTS
  TypeOK RunsTile IdsUsedOnce IndexSound FreeListSound FreeCountExact ValidUntilRefused JournalAgrees
PROPERTY ImplementsRecordMap
