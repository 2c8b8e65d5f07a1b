SPECIFICATION Spec
CONSTANTS
  page_size_ = 2
  chunk_size_ = 4
  cache_size_ = 2
  Reader = {r1}
  DataLens = {0, 3}
  Lengths = {1, 4}
  SyncIntervals = {3}
  Offsets = {0, 1}
  Lens = {2}
  MaxAppends = 3
  MaxFaults = 1
  MaxOpens = 1
INVARIANTS
  
  FlushDurable
  SyncOnOpenFile
PROPERTIES
  CallsReturn
CHECK_DEADLOCK FALSE
