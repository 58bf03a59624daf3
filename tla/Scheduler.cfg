\* Three process blocks, three thread blocks and three creations of each, so that
\* a process is unlinked from the middle of the queue and a freed block is used
\* again.  No symmetry: it is unsound for liveness.
SPECIFICATION FairSpec
CONSTANTS
  Procs = {p1, p2, p3}
  Threads = {t1, t2, t3}
  Idle = idle
  IdleThread = idle_thread
  Initial = initial
  NULL = NULL
  MaxPid = 4
  MaxTid = 4
  MaxWork = 1
INVARIANTS
  CurrentIsLive
  QueueLinksLiveProcesses
  ListsLinkLiveThreads
  OthersAreReady
  ContextsAreKept
  NoReapFault
PROPERTIES
  ImplementsRunQueue
  EveryReadyThreadRuns
