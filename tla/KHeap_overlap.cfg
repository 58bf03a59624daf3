\* A header of 2 bytes and a heap of 18: up to four of the smallest blocks.
SPECIFICATION Spec
CONSTANTS
  Hdr = 2
  HeapSize = 18
  Requests = {2, 3, 5}
INVARIANT GrantsNeverOverlap
