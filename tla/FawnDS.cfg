SPECIFICATION Spec
CONSTANTS
  k1 = k1
  k2 = k2
  f1 = f1
  NotFound = NotFound
  Mangled = Mangled
  Key <- MCKey
  v1 = v1
  v2 = v2
  Value <- MCValue
  Fragment = {f1}
  hashtable_size = 4
  PROBES_BEFORE_REHASH = 2
  HASH_COUNT = 2
  hashes <- MChashes
  keyfragment_from_key <- MCkeyfragment
  Extensions <- MCExtensions
  OFFSET_RANGE = 16
  MaxLog = 5
SYMMETRY ValueSymmetry
INVARIANTS
  SizeEstimateSafe
PROPERTIES
  IsDictionary
