\* Words of 6 bits over an int of 3; the last word lies beyond the wrap, and the last
\* but one below it is not cleared: empty, full, or with some of its upper bits set.
SPECIFICATION Spec
CONSTANTS
  IntBits = 3
  NumWords = 5
  ClearedWords = 3
  Leftovers = {{}, {4}, {0, 1, 4}, {0, 1, 2, 3, 4, 5}}
  WrapWord = 4
  KernelFirst = 13
  KernelSizes = {1, 2}
  MaxGrants = 2
INVARIANTS
  UpperBitsAgree
  ScanFindsFree
  NoDoubleGrant
  GrantedFramesAreTaken
