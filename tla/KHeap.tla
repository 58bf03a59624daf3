------------------------------- MODULE KHeap -------------------------------
(***************************************************************************)
(* The kernel heap (kernel/mm/kernel_heap_manager.c): one page, tiled by   *)
(* memory_region_t headers that are each followed by their region, walked  *)
(* first fit from heap_start.                                              *)
(*                                                                         *)
(* hdr maps the addresses (offsets from heap_start) of the headers that    *)
(* walk meets to their contents.  Headers inside a region that was merged  *)
(* away stay in memory, but no walk meets them again, so hdr drops them.   *)
(*                                                                         *)
(* kmalloc is a machine of its loop iterations (pc).  No other heap call   *)
(* interleaves with it: its callers run in interrupt gates or at boot, and *)
(* a boot path that is interrupted by schedule is never resumed, because   *)
(* the context of the idle thread is not saved.                            *)
(*                                                                         *)
(* get_more_pages always fails: vmm_lengthen looks for a vm_object whose   *)
(* base is KERNEL_HEAP_START and there is none.  The header that kmalloc   *)
(* then writes or reads at heap_end is not mapped, and the page fault is a *)
(* panic.                                                                  *)
(***************************************************************************)
EXTENDS Integers

CONSTANTS
  Hdr,        \* sizeof(memory_region_t): 5
  HeapSize,   \* heap_end - heap_start: 0x1000
  Requests    \* the sizes kmalloc is called with, 24 bytes and more

\* A request below the size of a header would make size - sizeof(memory_region_t)
\* wrap around; no caller makes one.
ASSUME KHeapAssumption ==
  /\ Hdr \in Nat \ {0}
  /\ HeapSize \in Nat /\ HeapSize > Hdr
  /\ Requests \subseteq {n \in Nat : n >= Hdr}

VARIABLES
  hdr,                   \* address -> [used, size]
  pc,                    \* "idle", "scan", "merge" or "panic"
  size,                  \* kmalloc's parameter
  curr_mem_region, next_mem_region, mem_reg_size,   \* its locals, 0 out of their scope
  blocks,                \* history: header address -> size asked for, of each block in use
  short                  \* history: a block was granted in a region that is too small

walk == <<size, curr_mem_region, next_mem_region, mem_reg_size>>
vars == <<hdr, pc, walk, blocks, short>>

Heads == DOMAIN hdr

\* go_to_next_memory_region
NextRegion(a) == a + hdr[a].size + Hdr

\* kheap_init
Init ==
  /\ hdr = [a \in {0} |-> [used |-> FALSE, size |-> HeapSize - Hdr]]
  /\ pc = "idle"
  /\ size = 0 /\ curr_mem_region = 0 /\ next_mem_region = 0 /\ mem_reg_size = 0
  /\ blocks = [a \in {} |-> 0]
  /\ short = FALSE

-----------------------------------------------------------------------------
(* kmalloc *)

kmalloc(n) ==
  /\ pc = "idle"
  /\ pc' = "scan" /\ size' = n /\ curr_mem_region' = 0
  /\ UNCHANGED <<hdr, next_mem_region, mem_reg_size, blocks, short>>

\* Mutant of HasRemainder: any remainder gets a header.
AnyRemainder(m) == TRUE

\* A region of m bytes has room for size bytes, a header and at least one byte.
HasRemainder(m) == m - Hdr > size

\* Mutant of Split: the remainder keeps the room its header takes.
SplitForgetHeader(m) ==
  LET c == curr_mem_region
      n == c + Hdr + size
  IN hdr' = [a \in {h \in Heads : h <= c \/ h >= c + Hdr + m} \cup {n} |->
               IF a = c THEN [used |-> TRUE, size |-> size]
               ELSE IF a = n THEN [used |-> FALSE, size |-> m - size]
               ELSE hdr[a]]

\* The m bytes from curr_mem_region's region on become a used region of size
\* bytes and a free one behind it.
Split(m) ==
  LET c == curr_mem_region
      n == c + Hdr + size
  IN hdr' = [a \in {h \in Heads : h <= c \/ h >= c + Hdr + m} \cup {n} |->
               IF a = c THEN [used |-> TRUE, size |-> size]
               ELSE IF a = n THEN [used |-> FALSE, size |-> m - size - Hdr]
               ELSE hdr[a]]

\* kmalloc returns curr_mem_region's region, which has m bytes.  Without a
\* remainder the header's size is not written: it stays what it was.
Grant(m) ==
  /\ IF HasRemainder(m) THEN Split(m) ELSE hdr' = [hdr EXCEPT ![curr_mem_region].used = TRUE]
  /\ blocks' = [a \in DOMAIN blocks \cup {curr_mem_region} |->
                  IF a = curr_mem_region THEN size ELSE blocks[a]]
  /\ short' = (short \/ hdr'[curr_mem_region].size < size)
  /\ pc' = "idle"
  /\ size' = 0 /\ curr_mem_region' = 0 /\ next_mem_region' = 0 /\ mem_reg_size' = 0

Panic == pc' = "panic" /\ UNCHANGED <<hdr, walk, blocks, short>>

\* The loop runs off the end of the heap.
ScanEnd ==
  /\ pc = "scan" /\ curr_mem_region >= HeapSize
  /\ Panic

\* Case 1: a used region.
ScanUsed ==
  /\ pc = "scan" /\ curr_mem_region < HeapSize /\ hdr[curr_mem_region].used
  /\ curr_mem_region' = NextRegion(curr_mem_region)
  /\ UNCHANGED <<hdr, pc, size, next_mem_region, mem_reg_size, blocks, short>>

\* Mutant of BigEnough: a region of exactly the size asked for is too small.
BigEnoughStrict == hdr[curr_mem_region].size > size

BigEnough == hdr[curr_mem_region].size >= size

\* Case 2: a good sized block.
ScanFits ==
  /\ pc = "scan" /\ curr_mem_region < HeapSize /\ ~hdr[curr_mem_region].used
  /\ BigEnough
  /\ Grant(hdr[curr_mem_region].size)

\* Case 3: a free block that is too small.
ScanSmall ==
  /\ pc = "scan" /\ curr_mem_region < HeapSize /\ ~hdr[curr_mem_region].used
  /\ ~BigEnough
  /\ pc' = "merge"
  /\ mem_reg_size' = hdr[curr_mem_region].size
  /\ next_mem_region' = NextRegion(curr_mem_region)
  /\ UNCHANGED <<hdr, size, curr_mem_region, blocks, short>>

\* The run of free regions reaches the end of the heap.
MergeEnd ==
  /\ pc = "merge" /\ next_mem_region >= HeapSize
  /\ Panic

\* Mutant of MergeUsed: the scan goes back to the region it started from.
MergeUsedStay ==
  /\ pc = "merge" /\ next_mem_region < HeapSize /\ hdr[next_mem_region].used
  /\ pc' = "scan"
  /\ UNCHANGED <<hdr, size, curr_mem_region, next_mem_region, mem_reg_size, blocks, short>>

\* A used region ends the run; the scan goes on behind it.
MergeUsed ==
  /\ pc = "merge" /\ next_mem_region < HeapSize /\ hdr[next_mem_region].used
  /\ pc' = "scan"
  /\ curr_mem_region' = NextRegion(next_mem_region)
  /\ next_mem_region' = 0 /\ mem_reg_size' = 0
  /\ UNCHANGED <<hdr, size, blocks, short>>

\* Mutant of MergeFree: a used region is merged like a free one.
MergeAny ==
  /\ pc = "merge" /\ next_mem_region < HeapSize
  /\ LET m == mem_reg_size + hdr[next_mem_region].size + Hdr IN
       IF m >= size THEN Grant(m)
       ELSE /\ mem_reg_size' = m
            /\ next_mem_region' = NextRegion(next_mem_region)
            /\ UNCHANGED <<hdr, pc, size, curr_mem_region, blocks, short>>

\* Another free region joins the run, which may now be long enough.
MergeFree ==
  /\ pc = "merge" /\ next_mem_region < HeapSize /\ ~hdr[next_mem_region].used
  /\ LET m == mem_reg_size + hdr[next_mem_region].size + Hdr IN
       IF m >= size THEN Grant(m)
       ELSE /\ mem_reg_size' = m
            /\ next_mem_region' = NextRegion(next_mem_region)
            /\ UNCHANGED <<hdr, pc, size, curr_mem_region, blocks, short>>

kmallocStep ==
  ScanEnd \/ ScanUsed \/ ScanFits \/ ScanSmall \/ MergeEnd \/ MergeUsed \/ MergeFree

-----------------------------------------------------------------------------

\* The owner gives back the block whose header is at b.
kfree(b) ==
  /\ pc = "idle" /\ b \in DOMAIN blocks
  /\ hdr' = [hdr EXCEPT ![b].used = FALSE]
  /\ blocks' = [a \in DOMAIN blocks \ {b} |-> blocks[a]]
  /\ UNCHANGED <<pc, walk, short>>

\* interrupt_handler does not return from an exception.
Halted == pc = "panic" /\ UNCHANGED vars

Next ==
  \/ \E n \in Requests : kmalloc(n)
  \/ kmallocStep
  \/ \E b \in DOMAIN blocks : kfree(b)
  \/ Halted

Spec == Init /\ [][Next]_vars

\* kmalloc is sequential code: it does not stop in the middle.
FairSpec == Spec /\ WF_vars(kmallocStep)

-----------------------------------------------------------------------------
(* Properties *)

\* Headers, locals and blocks have their types; addresses stay in the heap.
TypeOK ==
  /\ Heads \subseteq 0 .. HeapSize - 1
  /\ hdr \in [Heads -> [used : BOOLEAN, size : Nat]]
  /\ pc \in {"idle", "scan", "merge", "panic"}
  /\ size \in Nat /\ mem_reg_size \in Nat
  /\ curr_mem_region \in Nat /\ next_mem_region \in Nat
  /\ blocks \in [DOMAIN blocks -> Requests] /\ DOMAIN blocks \subseteq Heads
  /\ short \in BOOLEAN

\* Following the sizes from heap_start meets every header, no two regions overlap
\* and the last one ends at heap_end.
Tiled ==
  /\ 0 \in Heads
  /\ \A a \in Heads : NextRegion(a) \in Heads \cup {HeapSize}
  /\ \A a, b \in Heads : a < b => NextRegion(a) <= b

\* The regions tile the heap after any sequence of kmalloc and kfree, as long as no
\* block was granted in a region smaller than what was asked for: what the owner of
\* such a block writes may fall on the next header.
RegionsTile == ~short => Tiled

\* The bytes a, ..., a + Hdr + n - 1 and b, ..., b + Hdr + m - 1 are disjoint.
Apart(a, n, b, m) == a + Hdr + n <= b \/ b + Hdr + m <= a

\* Two blocks in use never share a byte, a header included, as long as no block
\* was granted in a region smaller than what was asked for.
BlocksAreApart ==
  ~short => \A a, b \in DOMAIN blocks : a # b => Apart(a, blocks[a], b, blocks[b])

\* The free regions from a up to b, without a gap.
FreeRun(a, b) ==
  /\ a \in Heads /\ b \in Heads \cup {HeapSize} /\ a < b
  /\ \A h \in Heads : a <= h /\ h < b => ~hdr[h].used

\* At a panic no run of adjacent free regions is long enough.
NoneFits ==
  pc = "panic" => \A a \in Heads, b \in Heads \cup {HeapSize} :
                    FreeRun(a, b) => b - a - Hdr < size

\* kmalloc panics only when the heap has no run of adjacent free regions that is
\* long enough, first fit with merging missing none, again as long as no block was
\* granted in a region that is too small.
PanicOnlyWhenFull == ~short => NoneFits

\* Neither kmalloc nor the kfree of another block touches the header of a block
\* in use.
HeadersInUseAreStable ==
  [][\A b \in DOMAIN blocks : b \in DOMAIN blocks' => b \in DOMAIN hdr' /\ hdr'[b] = hdr[b]]_vars

\* kmalloc always comes to an end: it returns a block or panics.
KmallocEnds == (pc \in {"scan", "merge"}) ~> (pc \in {"idle", "panic"})

\* kernel_heap_manager.c:90: "We go until we get enough contiguous free blocks for
\* our space": the blocks kmalloc grants do not overlap.
GrantsNeverOverlap ==
  \A a, b \in DOMAIN blocks : a # b => Apart(a, blocks[a], b, blocks[b])

=============================================================================
