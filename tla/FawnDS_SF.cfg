SPECIFICATION Spec
CONSTANTS
  k1 = k1
  k2 = k2
  k3 = k3
  k4 = k4
  k5 = k5
  Key = {k1, k2, k3, k4, k5}
  Value = {v1, v2}
  NotFound = NotFound
  Deleted = Deleted
  NoKey = NoKey
  max_index_ = 2
  ASSOCIATIVITY = 2
  MAX_CUCKOO_COUNT = 3
  keyfrag <- MCkeyfrag
  hash_table_size_ = 4
  PROBES_BEFORE_REHASH = 2
  HASH_COUNT = 2
  hashes <- MChashes
  keyfragment_from_key <- MCkeyfragment
  Config <- MCConfig
  MaxLog <- MCMaxLog
INVARIANTS
  LookupsExact
  RefusedPutUndone
  LogAgrees
  ReorganisedExact
SYMMETRY Symmetry
CHECK_DEADLOCK FALSE
