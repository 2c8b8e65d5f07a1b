SPECIFICATION FairSpec
CONSTANTS
  KeyBits = 5
  HuffmanCodingLimit = 3
  dest_keys_per_block_ = 2
  bucket_size = 2
  skip_bits_ = 1
  ValueBits = 4
  WordBits = 8
  WideBits = 4
  NarrowBits = 3
  OverflowBits = 6
  FineGroup = 2
  group_size_ = 3
  known_index_sizes <- MCknown_index_sizes
  Key <- MCKey
  NotFound = NotFound
  NoStore = NoStore
  partition_bits_ = 1
  store1_high_watermark_ = 1
  store1_low_watermark_ = 0
  Start <- MCStart
  MaxFront = 2
  MaxPuts = 3
CHECK_DEADLOCK FALSE
INVARIANTS GetExact 
PROPERTY MergesFinish
