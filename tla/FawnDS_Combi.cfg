SPECIFICATION FairSpec
CONSTANTS
  Client = {c1, c2}
  Key = {k1, k2}
  Value = {v1}
  NotFound = NotFound
  Deleted = Deleted
  StoreCapacity = 1
  store0_high_watermark_ = 2
  store0_low_watermark_ = 1
  store1_high_watermark_ = 1
  store1_low_watermark_ = 0
  keep_datastore = FALSE
  MaxStores = 3
INVARIANTS
  NoLostWakeup
  AssertsHold
PROPERTIES
  IsDictionary
  FlushReturns
