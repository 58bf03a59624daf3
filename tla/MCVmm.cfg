SPECIFICATION Spec
CONSTANTS
  Procs = {p1, p2}
  Initial = initial
  Idle = idle
  NONE = NONE
  IDENTITY = IDENTITY
  KERNEL_TEXT_START = 11
  TextPages = 1
  VGA_TEXT_BUFFER_BASE = 13
  KERNEL_PMM_START = 22
  KERNEL_HEAP_START = 27
  KERNEL_STACK_START = 44
  KERNEL_PAGE_TBL_START = 46
  TablePages = 1
  USER_STACK_START = 8
  IdentityPages = 3
  BiosPages = 2
  PAGE_SIZE = 2
  Tables <- MCTables
  MaxTables = 2
  ModulePages = {1, 2, 22}
  Segments <- MCSegments
  MaxSegments = 2
SYMMETRY Symmetry
INVARIANTS
  ListsAreSorted
  StacksAreApart
  WindowsAreMapped
  TablesAreReadable
  ProcessesOwnTheirPages
PROPERTY MappingsAreStable
