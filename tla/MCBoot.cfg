\* The one process of this kernel, which makes two system calls.
SPECIFICATION BootSpec
CONSTANTS
  Procs = {hello}
  Threads = {main}
  Idle = idle
  IdleThread = idle_thread
  Initial = initial
  NULL = NULL
  MaxPid = 2
  MaxTid = 2
  MaxWork = 2
  KEYBOARD_BUFFER_SIZE = 3
  UnknownChars = 1
  MaxFiles = 2
  LastCalls <- MCLastCalls
  VGA_WIDTH = 3
  VGA_HEIGHT = 2
  PageCells = 8
  MaxChars = 2
  Ints = {0, 10}
  LongDigits = 2
INVARIANTS
  PanicOnlyBeforeSched
  StuckOnlyInPrintf
  CursorReturnsToScreen
  OutsideOnlyFromWrap
PROPERTIES
  ProcessFinishes
  PrintfReturns
