\* A C++ and a Ruby client.  The second request number is past 2^32.
SPECIFICATION Spec
CONSTANTS
  Client = {c1, c2}
  Cpp = {c1}
  Ruby = {c2}
  k1 = k1
  k2 = k2
  Key = {k1, k2}
  BobHash <- Swap
  Value = {v1, v2}
  sizeMax = 2
  Wrap = 8
  FirstReq = 7
  Overlap = FALSE
  Nil = Nil
  MaxOp = 3
  MaxStale = 1
  MaxError = 1
CHECK_DEADLOCK FALSE
INVARIANTS  CacheCoherent
PROPERTY CallsReturn
