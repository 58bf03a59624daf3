# TitanOS in TLA+

TLA+ models of the TitanOS kernel (`src/src/kernel`), model-checked with TLC, with the
safety properties of all of them proved with TLAPS for every value of their constants.
Every definition is written from the code; `PROJECT.json` names the lines of each.

## The system

TitanOS is a single-processor x86-64 kernel. `kernel_start` initialises one subsystem after
the other, starts one program from a tar archive and hangs. The interrupts it can get are
the keyboard's, whose handler prints the key and on every second interrupt calls `schedule`,
and the local APIC's spurious one. Interrupt gates clear the interrupt flag, so handlers,
system calls and `schedule` are atomic; `kernel_start` is not. `schedule` does not save the
registers of the idle thread, as which `kernel_start` runs: the first key after `sched_init`
that schedules abandons it for good.

| part of the code | state | module |
|---|---|---|
| `mm/mb2_mmap.c`, the boot loader's map | two arrays of entries | `Mb2Mmap` |
| `mm/pmm.c`, frames | bitmap of 64-bit words | `Pmm`, `PmmBoot` (extends `Pmm` and `Mb2Mmap`), `MCPmmBoot`, `PmmProofs` |
| `mm/kernel_heap_manager.c` | headers in one page | `KHeap`, `KHeapProofs` |
| `mm/vmm_hashmap.c`, page tables | buckets, list of removed tables | `PtHashmap`, `PtHashmapProofs` |
| `mm/vmm.c`, address spaces; `drivers/acpi.c`, `drivers/apic.c`, `cpu/gdt64.c`, their users | region lists, tables, static pointers | `Vmm`, `MCVmm`, `VmmLists`, `VmmProofs` |
| `sched/scheduler.c` | process queue, thread lists, contexts | `Scheduler`, `RunQueue`, `SchedulerProofs` |
| `drivers/vga.c` | cursor, what printf has left to print | `Console` |
| `kernel.c`, `cpu/isr.c`, `cpu/isr_stubs.S`, `drivers/keyboard.c`, `sched/locks.c`, `syscalls/` | boot position, lock, key parity | `Boot` (extends `Scheduler` and `Console`), `MCBoot`, `BootProofs` |
| `fs/`, `libtitan/str.c` | archive, opened files, handle tables | `Vfs`, `MCVfs`, `VfsProofs` |

How they meet: `vmm_alloc` takes objects from the heap, frames from the bitmap and page
tables from the map; `create_thread` takes stacks from `vmm.c`; `reap_thread` gives them
back; `schedule` switches address spaces; `exec_elf` uses files, address spaces and the
scheduler. A module that uses another part keeps of it what its own properties can see:
`Vmm` knows a frame only as the region a page was mapped for, `Scheduler` knows a stack
only by the list it is in. Two modules compose others step by step: `PmmBoot` the memory
map and the bitmap, `Boot` the scheduler, the console, the lock and the interrupts.

## Modules

**Pmm**. A word of the bitmap is a set of bits. `Mask(j)` is `1 << j` as the build
computes it: a 32-bit shift with the count taken modulo 32, sign extended, so that bit 31
stands for the upper 33 bits. `Frame` and `Coords` are the two address conversions, which
disagree (32 frames a word against 64), and `Frame` wraps at 4 GiB. The width of `int` is
the constant `IntBits`. `pmm_init` clears the first page of the bitmap only; the words
behind it (`ClearedWords`) start with any of `Leftovers`. (Pages of the bitmap that ROM
backs would be behind the wrap, where the properties promise nothing.) The bitmap is taken
to be memory that only `pmm.c` writes. `vmm_lengthen` backs its later pages with frames of
low memory, and gets the frames of the heap page and of the bitmap's first page among them
(run `pmm_marked`): the words of those pages, reached after more than 1 GiB of grants, share
their memory with the heap or with earlier words, which `Pmm` does not model. `grants` counts
how often a frame is out.

**Mb2Mmap**, **PmmBoot**. `mb2_mmap_init` sorts the boot loader's entries, one step each,
into arrays whose length it does not look at; a list that is too long ends the model
(`overrun`). `ReservedStep` is an iteration of `pmm_init`'s loop, which passes the end of
the list if the entry there reaches beyond 128 MiB. Its inner loop compares
`p > addr + len` (`pmm.c:44`) and marks nothing. `PmmBoot` goes on with the marking of the
kernel's frames and the allocations of `vmm_lengthen`, with the real constants, from what
`kernel_init.S` leaves.

**KHeap**. `hdr` maps the address of a header to its fields; `kmalloc` is one action per
case of its loop. `short` remembers that a block was granted in a smaller region. From
then on its owner may write over the next header, so `RegionsTile`, `BlocksAreApart` and
`PanicOnlyWhenFull` all say what holds until then (`~short`). Calls do not interleave: the callers are
handlers, or boot code that no interrupt resumes, after which nobody uses the heap unless the process was queued, and then `kernel_start` allocates
no more. Request sizes are assumed to be at least the header's 5 bytes: the kernel's
structures, the unit tests' 8-byte blocks and `acpi.c`'s 8 bytes per table are (an RSDT
without tables, which would ask for 0 bytes, is left out).

**PtHashmap**. Nodes are numbered by creation; the bucket of a new frame is arbitrary.
A new table takes a node from the one-page heap, which has room for 91 (`MaxTables`), a frame,
and the next page of the table area. `stop` says how the map came to its end: `kmalloc`
panicked because the heap is full, there was no frame, the map refused the node, or a walk
does not end. The heap is shared with everybody, so it may be full at any call. Mapping the
new table would allocate a table recursively if the area ran out before the heap did; that it
does not is part of `TablesAreApart`.

**Vmm**. Addresses are pages. `kernel` is the tail that all lists share, `user[s]` what a
space has before it. `Refused` is the condition of `vmm_alloc` as it is written, with
`&&`, so regions may overlap; `overlapped` remembers that one did. `phase` is the step of
`kernel_start`: the bitmap's pages, the two stacks of the TSS, the BIOS area, the RSDT, each
ACPI table (`map_table`, `map_table_rest`, `validate_checksum`), the two APICs, the tar
file, the idle process. `map_table` maps two pages for a table and then, if the table is
longer, the rest, but from `table + PAGE_SIZE * 2` (`acpi.c:80`), where the pointer counts
headers of 36 bytes: the pages behind a long table are mapped, and do not show the table.
Then `Next` lets any kernel code with interrupts off call
`exec_elf` and create kernel threads, which is more than this kernel's one call; an
interrupted `exec_elf` is abandoned. A page fault or `PANIC` is the phase `panic`. When
`get_rsdp` has mapped the BIOS area it is at address 0, so that a NULL pointer reads it
instead of faulting (`tar_init`); it maps it over the identity mapping without invalidating
the TLB.

**Scheduler**. `process_t` and `thread_t` are heap blocks that are reused; a freed block
keeps its fields, because `schedule` reads `next` of blocks it has just freed. Until the
first switch the address space is the one of `vmm_init` (`Initial`), not the idle process's.
**RunQueue**
is what the scheduler promises: a pool of threads from which any is dispatched.

**Console**. `printc` exists as statements, for `kernel_start`, and whole, for handlers.
The build does not optimise (`makefile`), so statements are the grain at which a key can
abandon it. `printf` goes through a format of characters and specifiers; `Arguments` is what
a specifier prints: a string, the digits of an int without the first (as `printint` cuts
them), `0x` and 16 digits, or, for the ones `printf` does not know, nothing ever again.

**Boot**. `kernel_start` is one step per call, and one per statement inside `create_proc`
and `printf`, which it calls for every file of the archive (`tar.c:39`), for the ELF header
and at the end. `interrupt_handler` is applied to the number the stub of a gate pushes, which
from gate 32 on is 24 less than the gate. `Switch` is `schedule`, which faults before
`sched_init` and on a process without threads. System calls run with interrupts off; their
printf is a step per character because of the lock. A `fault` ends the model: `PANIC` halts
after a printf, or spins in that printf if `kernel_start` held the lock.

**Vfs**. `tar_init` walks the archive by the sizes its headers hold as octal digits, which
`get_file_size` adds up with the powers of eight of `count`; `HeaderBlock` is where tar puts the
headers. Paths are sequences of characters because
`strncmp` is part of the model: it skips the first character and stops with the shorter
string. An empty name marks a free slot. Reading an absent header, a NULL resource or
`vfs_opened_files[-1]` is a panic or, where memory is there, arbitrary (`BOOLEAN`). Programs
pass handles below `MAX_RESOURCES`.

## Runs

| run | bounds | states | what it shows |
|---|---|---|---|
| `pmm` | int of 3 bits, 5 words, 3 cleared, wrap after 4 | 817 212 | upper bits agree; a word that is not full is never scanned in vain; while nothing is freed, no frame is out twice before the wrap and granted frames are seen as taken |
| `pmm_boot` | the real constants, first 14 words; 5 memory maps, arrays of 3 | 18 886 | the loop over the reserved entries ends while the array is not full; frames granted after `pmm_init` avoid the kernel, for eleven image sizes between 14 and 55 pages |
| `pmm_marked` | the same | | **violation**: `pmm.c:50` says the heap and the bitmap are marked; they are granted |
| `kheap` | heap of 18 bytes, headers of 2 | 112 945 | until a block is granted short: tiling, disjoint blocks, panic only when full; `kmalloc` ends |
| `kheap_overlap` | the same | | **violation**: a merge without remainder is granted short and overlapped |
| `sched` | 3 processes, 3 threads, 3 creations of each | 290 288 | lists, contexts, current blocks, no fault in reaping; implements `RunQueue`; every ready thread runs |
| `boot` | screen of 3 by 2, strings of 2, 2 files, 2 system calls, both builds | 10 413 | where a key panics, blocks or corrupts; printf returns and the process finishes otherwise |
| `pthash` | 2 buckets, 5 tables | 8 852 | tables have pages of their own and are found until the second removal, walks end until the third |
| `pthash_pop` | the same | | **violation**: a reused table is not popped |
| `vmm` | 2 processes, 5 stacks, 8 device pages, 2 ACPI tables | 75 503 | sorted lists, stacks and their guard pages apart, windows mapped, ACPI tables in their own windows, user pages mapped, no live mapping replaced |
| `vmm_reap` | the same | | **violation**: a reaped process leaves its pages mapped |
| `vfs` | 4 archives, 2 headers, 3 slots, 2 handles | 487 746 | all headers are found; handles are exclusive until `/` is opened, reads continue, opens fail only when full, names are found |

Why the bounds are enough. `pmm`: all that matters of the widths is that a word is two ints
wide and that the wrap lies inside the bitmap; a word is filled and the next begun, and the
word that is not cleared starts empty, full, or with lower or upper bits set. `pmm_boot`:
maps with no, one and two reserved entries, entries above 128 MiB in the middle and at the
end, and one entry more than the array holds. `kheap`: four of the smallest blocks, so a
merge over two free regions, one that is stopped by a used region, remainders of zero, of
less than a header and of more all occur. `sched`: a process that is first, in the middle
and last in the queue can exit, and a block is reused. `boot`: the page ends inside the line
below the screen, as in the build; a string can wrap the last line. `vmm`: the kernel needs
three stacks itself, two more fit and the sixth is refused; tables end before, with and
behind their second page, and the tar file's window fits, uses up the device memory, or
reaches over the stacks, which shows that their premise on `mmio_region` is needed.
`vfs`: sizes of nothing, less than a block, one block and more; one archive that leaves a
header NULL, one whose names `strncmp` confuses, one with a file too many. Symmetry is used
for processes in `vmm` and `vfs`, which check no liveness.

Counters that grow without end in the code are bounded by a constant in a guard: `MaxPid`,
`MaxTid`, `MaxWork`, `MaxGrants`, `MaxSegments`, `MaxTables`, `MaxChars`, `MaxFiles`, `MaxPos`. In
`sched` the bounded creations matter: new processes are queued at the head, and only because
they stop can none of them delay the tail for ever.

Fairness. `sched` assumes `WF(schedule)`: interrupts that reach `schedule` keep coming.
`kheap` and `pmm_boot` assume that sequential code does not stop. `boot` assumes that the
code which has the processor runs; that keys keep being pressed, the keyboard being this
kernel's only source of context switches, is a premise of `ProcessFinishes`, not of the
specification. Nothing assumes strong fairness.

Properties with a premise (`~short`, `~freed`, `~overlapped`, `removed < 2`, `~wild`,
`mmio_region <= KERNEL_PMM_START`) say exactly how far the code's guarantee goes; the four
violation runs show what is behind it where a comment claims more.

## Proofs

All theorems are about the specifications TLC checks, for every value of the constants
that satisfies the modules' assumptions.

- **PmmProofs**. `WordsAgree` is inductive as it stands (`WordInv`), and `ScanNeverInVain`
  follows from it. `NoFrameGrantedTwice` and `GrantsAreVisible` need the order of the scan
  (`GrantInv`): while nothing is freed, the bit of a granted frame is set in the word that
  granted it, and no word before that one has room, whatever it held at first.
  About `PmmBoot`: `LateGrantsStayClear` rests on `FrontInv`, which says how far the
  allocations of `vmm_lengthen` have pushed the first free place, and that the marked bits of
  the kernel's word push it further once that word is passed. The frames are clear not
  because they are marked but because 279 allocations have gone past them, so the theorem is
  about the build's numbers (`IntBits` 32, `KernelFirst` 256, `LengthenPages` 279), an image
  of at most 55 pages and frames below 4 GiB; the number of words, the leftovers and the
  memory map stay arbitrary. `MapStaysReadExactly`: for every memory map, the pointer of
  `pmm_init`'s loop stops exactly at the end of the list, and passes the end of an array only
  when the array is full (`ReadInv`): the safety half of `ReservedLoopEnds`.
- **KHeapProofs**. The headers of the model keep tiling the heap even after a short grant
  (the owner's writes are not modelled), so the invariant `HeapInv` has the tiling without the
  premise `~short` of the properties. It adds that blocks in use are used
  regions, that they fit unless `short`, that every run of free regions which begins before
  the scan's position is too short (`ScanInv`), and that the regions from `curr_mem_region`
  to `next_mem_region` are free and hold `mem_reg_size` bytes, too few (`MergeInv`). From it
  follow `AddressesStayInHeap`, `RegionsAlwaysTile`, `BlocksStayApart`, `PanicsOnlyWhenFull`,
  `HeadersStayStable`, and `KmallocGoesForward`, the safety half of `KmallocEnds`: every
  iteration ends the call or goes on by at least a header.
- **SchedulerProofs**. The invariant `SchedInv` orders the queue by falling pid and the
  thread lists by rising tid; with the counters above all of them, linking at the head and
  at the end and unlinking anywhere preserve "exactly once" without induction along a list.
  From it follow the safety theorems (`QueueStaysLinked`, `ThreadsStayLinked`,
  `CurrentStaysLive`, `ContextsStayKept`, `OthersStayReady`, `ReapNeverFaults`), and
  `SchedulerImplementsRunQueue` by one step per action.
- **BootProofs**. `BootInv` has three parts. `StartInv` says how far
  `create_proc` has come, for each step `kernel_start` is at or was abandoned at: a process
  is in the queue only with its thread, so `Switch` does not fault after `sched_init`.
  `CursorInv` gives the cursor's range at each statement of `printc` (one column right of
  the screen, one line below it, or both), until `kernel_start` is abandoned or panics. `FlagsInv` ties the lock to the position of its
  holder. The proof of `WritesStayInPage` needs that the line printed for an unknown
  interrupt ends inside the page (2000 + 35 < 2048 in the build): it is in `BootAssumption`.
  `PrintfGoesForward` is the safety half of `PrintfReturns`: every step of `kernel_start` in
  `printf` leaves less of the format, of the argument or of the character's statements, and
  no interrupt or system call that prints in between sets it back.
- **PtHashmapProofs**. Walks are iterations of `next`, defined by a recursive function. That
  such a function exists and what it computes is derived from the well-foundedness of the
  order on the numbers: the set of counterexamples to a claim would have a least member
  (`LeastExists`, `Iterates` and the lemmas on it). `PtInv` has three stages. Before the
  second removal (`ListInv`) each bucket holds exactly its nodes, in the order of their
  creation, so that a walk climbs and ends, and each has a page of its own (`PageInv`). The
  length of the area is a function of the nodes made, so the heap is full before the area is.
  After it (`SecondInv`) the node removed first is the one that is handed out again; it is in
  no bucket or at the end of its own, and the others are still in the order of their
  creation, so that walks end. After the third removal nothing is claimed, as in the
  properties.
- **VfsProofs**. `VfsInv` says that processes which do not live hold nothing and that, while
  `~wild`, the slots behind handles have names, no two handles share one, and their positions
  are what was read (`SlotsInv`); a new handle gets a slot without a name, whose position is
  still 0. `HeadersAlwaysFound` is about any archive: `ParseInv` says that the loop of
  `parse_tar_file` stands at the header behind the ones it has entered. It needs what
  `get_file_size` makes of the octal digits of any size below 8 to the number of digits
  (`CountSteps`, `TotalSteps`, `SizeIsRead`), by the same induction. `NamesOpenTheirFiles`
  follows from `OpenInv`: an opened file is the first in the archive that `strncmp` takes for
  its name.
- **VmmLists**, **VmmProofs**. `VmmInv` is conditional on
  `mmio_region <= KERNEL_PMM_START`, because a window that does not fit any more can be
  granted among other objects; `mmio_region` only grows, so the condition can be assumed of
  the state before a step as well. Under it (`ListInv`) the bases of the shared tail
  increase strictly from the kernel's text, and each of its objects ends at or before
  `mmio_region`, or is the bitmap's, a stack or the page tables'; stacks are at their places,
  from the lowest one in use up; windows lie below `mmio_region` and are mapped; the user
  parts are sorted below the kernel. `VmmLists` proves what linking and unlinking do to
  such a list, where the searches of `vmm_alloc` stop, and that every action keeps
  `VmmInv`; `VmmProofs` has the page tables, the processes and the theorems. The stack
  that would begin one page below the heap page is refused because it begins in the bitmap's
  object and ends short of the lowest stack: this is what
  `StacksStayApart` rests on, and why `VmmAssumption` has the remainder of the stack area.
  `TablesStayReadable` adds that nothing is mapped yet from `mmio_region` up to the bitmap,
  and everything before it is (`FreshInv`), and where the tables end (`TableInv`):
  `validate_checksum` has read every byte of a table, so one that ends on a page that is not
  mapped has panicked, and all others end below `mmio_region`. The unit behind the end may be
  on the next page, which the window of the local APIC covers at the latest. That a table
  which is not long is read in its own window is `ShortInv`: when its checksum is read nothing
  behind its window is mapped, so it ends in the window or panics. Once
  `mmio_region` is beyond the bitmap nothing is known of these pages, hence its condition.
  `ProcessesKeepTheirPages` does not depend on `mmio_region`. `OwnInv` says that while no
  region has overlapped another, the pages of each region are mapped for it in its space's
  table and, until the space is reaped, no others are: a region that shares no page with
  another is thus mapped over nothing. That the windows and stacks go into the shared tail
  and not into a process's part needs the places of the kernel's objects again (`OwnKernel`),
  without the condition: a stack that would begin below the heap page shares a page with the
  bitmap's object, so it is refused or counts as an overlap. `ProcInv` says that a reaped
  space is not used again, which leaves its entries out of the matter.
  `MappingsStayStable`, about steps, follows from `FreshInv` for the kernel's part and from
  `OwnInv` for the processes'.

Assumptions: each is in the module that declares the constants, holds in the build and is
evaluated by TLC on the runs' values. Besides types they are `BootAssumption` of `PmmBoot`
(the kernel's first frame begins a word, and the boot allocations are enough to reach that
word), `BootAssumption` of `Boot` (above), `PtHashmapAssumption` (the heap
has room for fewer nodes than the area for tables: 6 + (91 - 8) < 256),
`KHeapAssumption` (requests are at least a header long),
`VmmAssumption` (the order of the areas in `vmm.h`), `VmmNames` (model values are no
addresses) and `VfsAssumption` (a size fits its field, names are not empty and differ).

Only model-checked are the liveness properties `EveryReadyThreadRuns`, `KmallocEnds`,
`ReservedLoopEnds`, `ProcessFinishes` and `PrintfReturns`: the prover has no rules for
fairness and `ENABLED`. Every safety property that a passing run checks has a theorem,
`LateGrantsAvoidKernel` only for the build's constants.

## Not modelled

- The boot loader and the mode switches of `kernel_init.S`: straight-line code that runs
  alone; the tables and frames it leaves are initial states.
- Register writes without a result: `disable_8259`, the hardware cursor (`move_cursor`), the
  end-of-interrupt. Descriptor tables, written once.
- Contents: which characters are on the screen, the fields of the ELF header, the bytes of
  files, the entries of the MADT (`get_ioapic` may find its entry or panic).
- Code without callers: `check_region_reserved`, `get_max_memory_addr`, `dump_regions`,
  `vfs_mount`, `vfs_umount`, `remove_mountpoint`, `remove_resource`, `get_resource`,
  `pmm_check_page_taken` except as what `GrantedFramesAreTaken` is about. `hpet.c` is a stub.
- A system call with an unknown number, which panics, and handles beyond `resource_table`.
- Growth of `kernel_page_tbls_obj` is in `PtHashmap` only, and the page tables `mmap` needs
  are not counted in `Vmm`.
- `Vmm`, `PtHashmap` and `Scheduler` are not composed: the scheduler's reaping is checked
  with the stacks as members of lists, the address spaces with processes that switch in any
  order, and the map of page tables with any order of insertions and removals, so each allows
  more than the others would ask of it.
