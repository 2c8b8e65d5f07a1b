SPECIFICATION FairSpec
CONSTANTS
  k1 = k1
  k2 = k2
  k3 = k3
  None = None
  Key = {k1, k2, k3}
  InRange = {k1, k2}
  Copies = {"Rewrite", "Split", "Merge"}
  Refusing = {"Rewrite"}
  MaxLog = 4
CHECK_DEADLOCK FALSE
INVARIANTS
  NothingLost
  SplitMergeExact
  OldDeleteLogsDisappear
PROPERTIES
  CopyReturns
