\* The build's constants; the bitmap is cut to its first 14 words (of 143360),
\* and the 4 GiB wrap lies beyond them.
SPECIFICATION BootSpec
CONSTANTS
  IntBits = 32
  NumWords = 14
  ClearedWords = 14
  Leftovers = {{}}
  WrapWord = 14
  KernelFirst = 256
  KernelSizes = {14, 28, 29, 30, 31, 32, 33, 40, 48, 54, 55}
  MaxGrants = 1
  LengthenPages = 279
  Maps <- MCMaps
  MAX_MMAP_ENTRIES = 3
  FirstPageEnd = 32768
INVARIANT LateGrantsAvoidKernel
PROPERTY ReservedLoopEnds
