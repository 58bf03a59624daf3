\* Three slots for opened files, two handles per process.
SPECIFICATION Spec
CONSTANTS
  Procs = {p1, p2}
  Archives <- MCArchives
  Paths <- MCPaths
  BLOCK = 4
  SizeDigits = 2
  HEADER_LIST_SIZE = 2
  MAX_OPENED_FILES = 3
  MAX_RESOURCES = 2
  Lengths = {1}
  HeadersEnd = 1
  MaxPos = 2
SYMMETRY Symmetry
INVARIANTS
  HeadersAreFound
  HandlesAreExclusive
  ReadsContinue
  OpenFailsOnlyWhenFull
  OpensTheNamedFile
