\* Two buckets, two initial tables and three more before the heap is full.
SPECIFICATION Spec
CONSTANTS
  HASH_MAP_BUCKETS = 2
  InitialTables = 2
  InitialLength = 2
  AreaPages = 6
  MaxTables = 5
INVARIANT HandedOutTablesArePopped
