-------------------------------- MODULE Vmm --------------------------------
(***************************************************************************)
(* Address spaces and their regions (kernel/mm/vmm.c).  A vmm_t is a list  *)
(* of vm_objects that starts with its own empty head at address 0, goes on *)
(* with the regions of one process and ends in the objects of the kernel,  *)
(* which all lists share, as all top tables share entry 511.               *)
(*                                                                         *)
(* Addresses are page numbers.  A page table is the function from pages to *)
(* the base of the region mmap entered them for; the tables mmap walks and *)
(* allocates are PtHashmap's, the frames it is given are Pmm's.            *)
(* One call is one step: callers run with interrupts off, or are           *)
(* kernel_start, which an interrupt abandons (Boot).                       *)
(***************************************************************************)
EXTENDS Integers, Sequences

CONSTANTS
  Procs,              \* address spaces that exec_elf can make
  Initial, Idle,      \* the space of vmm_init, and the idle process's
  NONE, IDENTITY,
  KERNEL_TEXT_START, TextPages, VGA_TEXT_BUFFER_BASE, KERNEL_PMM_START,
  KERNEL_HEAP_START, KERNEL_STACK_START, KERNEL_PAGE_TBL_START, TablePages,
  USER_STACK_START,
  IdentityPages,      \* the pages from 1 on that kernel_init.S maps to themselves: 257
  BiosPages,          \* pages of the BIOS area that get_rsdp looks through: 32
  PAGE_SIZE,          \* in the unit of the lengths of ACPI tables
  Tables,             \* the ACPI tables a machine can have
  MaxTables,          \* bound on how many
  ModulePages,        \* the sizes the tar file can have
  Segments,           \* the PT_LOAD segments of programs, as regions
  MaxSegments         \* bound on the segments of one program

StackPages == 2       \* KERNEL_STACK_SIZE

Region(b, n) == [base |-> b, length |-> n]
Regions == [base : Nat, length : Nat]
Pages(r) == r.base .. r.base + r.length - 1
Overlap(r, q) == Pages(r) \cap Pages(q) # {}

\* The objects of a list; a list with r linked in as its i-th; one without its i-th.
Objects(q) == {q[i] : i \in DOMAIN q}
Linked(q, i, r) == SubSeq(q, 1, i - 1) \o <<r>> \o SubSeq(q, i, Len(q))
Unlinked(q, i) == SubSeq(q, 1, i - 1) \o SubSeq(q, i + 1, Len(q))

\* The layout of vmm.h.  From KERNEL_STACK_START to KERNEL_HEAP_START there are 254
\* pages: the stack that no longer fits behind the heap page begins below it.
ASSUME VmmAssumption ==
  /\ {KERNEL_TEXT_START, VGA_TEXT_BUFFER_BASE, KERNEL_PMM_START, KERNEL_HEAP_START,
      KERNEL_STACK_START, KERNEL_PAGE_TBL_START, USER_STACK_START,
      TextPages, TablePages, IdentityPages, BiosPages} \subseteq Nat
  /\ PAGE_SIZE \in Nat \ {0} /\ ModulePages \subseteq Nat \ {0}
  /\ Segments \subseteq Regions
  /\ 0 < USER_STACK_START /\ USER_STACK_START + StackPages <= KERNEL_TEXT_START
  /\ BiosPages < IdentityPages /\ IdentityPages < USER_STACK_START
  /\ KERNEL_TEXT_START + TextPages < VGA_TEXT_BUFFER_BASE
  /\ VGA_TEXT_BUFFER_BASE + 3 <= KERNEL_PMM_START /\ KERNEL_PMM_START + 1 < KERNEL_HEAP_START
  /\ (KERNEL_STACK_START - KERNEL_HEAP_START) % (StackPages + 1) = 2
  /\ KERNEL_HEAP_START < KERNEL_STACK_START /\ KERNEL_STACK_START < KERNEL_PAGE_TBL_START
  /\ \A r \in Segments : /\ 0 < r.base /\ 0 < r.length
                         /\ r.base + r.length <= KERNEL_TEXT_START
  /\ \A t \in Tables : t.offset \in 0 .. PAGE_SIZE - 1 /\ t.length \in Nat \ {0}

\* NULL is no process, exec_elf makes none of the first two spaces, and what marks the
\* pages without a region is no base of one.
ASSUME VmmNames ==
  /\ NONE \notin Procs /\ {Initial, Idle} \cap Procs = {}
  /\ {NONE, IDENTITY} \cap Nat = {}

Spaces      == Procs \cup {Initial, Idle}
UserPages   == 0 .. KERNEL_TEXT_START - 1
KernelPages == KERNEL_TEXT_START .. KERNEL_PAGE_TBL_START + TablePages - 1

VARIABLES
  phase,             \* the step of kernel_start, then "run"; "panic"
  acpi_tables,       \* the tables mapped so far
  kernel,            \* the vm_objects from kernel_text_obj on
  user,              \* space -> the vm_objects before them
  pt, kpt,           \* space -> user page -> base; kernel page -> base
  current_vmm,       \* with cr3 and current_pml4t_ptr
  current_process,
  loading,           \* the space exec_elf is filling, or NONE
  made, alive,       \* the spaces made so far; those of processes
  mmio_region, kernel_stack_ptr,   \* the static variables
  stacks,            \* the kernel stacks in use
  windows,           \* history: what alloc_mmio has handed out
  reaped,            \* history: the spaces reap_process is done with
  overlapped         \* history: vmm_alloc granted pages that were already allocated

procVars  == <<current_process, loading, made, alive, reaped>>
tableVars == <<kernel, user, pt, kpt, overlapped>>
mmioVars  == <<mmio_region, windows, acpi_tables>>
stackVars == <<kernel_stack_ptr, stacks>>
vars == <<phase, tableVars, procVars, current_vmm, mmioVars, stackVars>>

Unmapped == [p \in UserPages |-> NONE]

\* The list of a space, with its head.
List(s) == <<Region(0, 0)>> \o user[s] \o kernel

\* What vmm.c declares and vmm_init completes.
kernel_objects == << Region(KERNEL_TEXT_START, TextPages), Region(VGA_TEXT_BUFFER_BASE, 1),
                     Region(KERNEL_PMM_START, 1), Region(KERNEL_PAGE_TBL_START, TablePages) >>

\* What _setup_pt has mapped: one page more than the kernel for the boot
\* information, the console, the first page of the bitmap and the heap's.
_setup_pt ==
  LET mapped == { Region(KERNEL_TEXT_START, TextPages + 1), Region(VGA_TEXT_BUFFER_BASE, 1),
                  Region(KERNEL_PMM_START, 1), Region(KERNEL_HEAP_START, 1) }
  IN
  /\ kpt = [p \in KernelPages |->
              LET R == {r \in mapped : p \in Pages(r)}
              IN IF R = {} THEN NONE ELSE (CHOOSE r \in R : TRUE).base]
  /\ pt = [s \in Spaces |-> IF s = Initial
                             THEN [p \in UserPages |-> IF p \in 1 .. IdentityPages THEN IDENTITY ELSE NONE]
                             ELSE Unmapped]

vmm_init ==
  /\ phase = "pmm_init"
  /\ kernel = kernel_objects
  /\ user = [s \in Spaces |-> <<>>]
  /\ _setup_pt
  /\ current_vmm = Initial /\ current_process = NONE
  /\ loading = NONE /\ made = {Initial} /\ alive = {} /\ reaped = {}
  /\ mmio_region = VGA_TEXT_BUFFER_BASE + 1 /\ windows = {} /\ acpi_tables = <<>>
  /\ kernel_stack_ptr = KERNEL_STACK_START /\ stacks = {}
  /\ overlapped = FALSE

-----------------------------------------------------------------------------
(* vmm_alloc *)

\* Where the loop of vmm_alloc stops: between this object and the next.
Place(s, start) ==
  LET L == List(s)
      Between(i) == L[i].base <= start /\ start < L[i + 1].base
  IN CHOOSE i \in 1 .. Len(L) :
       /\ i = Len(L) \/ Between(i)
       /\ \A j \in 1 .. i - 1 : ~Between(j)

\* Mutant of Refused: nothing is compared.
NeverRefused(s, r) == FALSE

\* The region is refused only when it begins in the object before it and ends
\* short of the object behind.
Refused(s, r) ==
  LET L == List(s)
      i == Place(s, r.base)
  IN /\ i < Len(L)
     /\ r.base < L[i].base + L[i].length
     /\ r.base + r.length < L[i + 1].base

\* mmap, for every page of r: the entry is written, whatever it was.
mmap(s, r) ==
  /\ pt' = [pt EXCEPT ![s] = [p \in UserPages |-> IF p \in Pages(r) THEN r.base ELSE @[p]]]
  /\ kpt' = [p \in KernelPages |-> IF p \in Pages(r) THEN r.base ELSE kpt[p]]

\* Mutant of Insert: the new object goes before the one it was found behind.
InsertBefore(s, i, r) ==
  IF i <= Len(user[s]) + 1
  THEN user' = [user EXCEPT ![s] = Linked(@, IF i = 1 THEN 1 ELSE i - 1, r)] /\ UNCHANGED kernel
  ELSE kernel' = Linked(kernel, i - Len(user[s]) - 1, r) /\ UNCHANGED user

\* The new object, behind object i of the list.
Insert(s, i, r) ==
  IF i <= Len(user[s]) + 1
  THEN user' = [user EXCEPT ![s] = Linked(@, i, r)] /\ UNCHANGED kernel
  ELSE kernel' = Linked(kernel, i - Len(user[s]), r) /\ UNCHANGED user

\* Mutant of vmm_alloc: the pages go to the table of the initial space.
AllocInInitial(s, i, r) ==
  /\ Insert(s, i, r)
  /\ mmap(Initial, r)
  /\ overlapped' = (overlapped \/ \E q \in Objects(List(s)) : Overlap(q, r))

\* vmm_alloc from the insertion on.
vmm_alloc(s, i, r) ==
  /\ Insert(s, i, r)
  /\ mmap(s, r)
  /\ overlapped' = (overlapped \/ \E q \in Objects(List(s)) : Overlap(q, r))

\* vmm_alloc(NULL, ...): the first gap that is longer than the region.
FirstGap(s, n) ==
  LET L == List(s)
      Fits(i) == L[i].base + L[i].length + n < L[i + 1].base
  IN CHOOSE i \in 1 .. Len(L) - 1 : Fits(i) /\ \A j \in 1 .. i - 1 : ~Fits(j)

PANIC == phase' = "panic" /\ UNCHANGED tableVars

-----------------------------------------------------------------------------
(* kernel_start *)

\* vmm_lengthen(KERNEL_PMM_START, ...), the end of pmm_init.  The other caller,
\* get_more_pages, names an object that is not there.
vmm_lengthen ==
  LET i == CHOOSE i \in DOMAIN kernel : kernel[i].base = KERNEL_PMM_START
      r == Region(KERNEL_PMM_START, KERNEL_HEAP_START - KERNEL_PMM_START)
  IN
  /\ phase = "pmm_init" /\ phase' = "ist1"
  /\ kernel' = [kernel EXCEPT ![i] = r]
  /\ mmap(current_vmm, r)
  /\ UNCHANGED <<user, overlapped, procVars, current_vmm, mmioVars, stackVars>>

\* Mutant of StackStep: the stacks have no guard page.
NoGuardPage == StackPages

\* What alloc_kernel_stack goes down by.
StackStep == StackPages + 1

\* alloc_kernel_stack through create_sections, which panics on a refusal.
alloc_kernel_stack(from, to) ==
  LET r == Region(kernel_stack_ptr - StackStep, StackPages) IN
  /\ phase = from
  /\ kernel_stack_ptr' = r.base
  /\ IF Refused(current_vmm, r) THEN PANIC /\ UNCHANGED stacks
     ELSE /\ vmm_alloc(current_vmm, Place(current_vmm, r.base), r)
          /\ stacks' = stacks \cup {r}
          /\ phase' = to

\* The two stacks of the TSS.
remap_gdt ==
  /\ \/ alloc_kernel_stack("ist1", "rsp1")
     \/ alloc_kernel_stack("rsp1", "acpi_init")
  /\ UNCHANGED <<procVars, current_vmm, mmioVars>>

\* The BIOS area, when the boot loader has passed no copy of the RSDP.
get_rsdp ==
  LET i == FirstGap(current_vmm, BiosPages) IN
  /\ phase = "acpi_init" /\ user[Initial] = <<>>
  /\ vmm_alloc(current_vmm, i, Region(List(current_vmm)[i].base + List(current_vmm)[i].length,
                                      BiosPages))
  /\ UNCHANGED <<phase, procVars, current_vmm, mmioVars, stackVars>>

\* Mutant of MmioEnd: get_mmio_ptr counts the calls instead of the pages.
MmioEndByCall(n) == mmio_region + 1

\* mmio_region after get_mmio_ptr.
MmioEnd(n) == mmio_region + n

\* alloc_mmio, and its equivalent in acpi_init and tar_init: a refusal is not looked
\* at, the address is returned all the same.
alloc_mmio(n) ==
  LET r == Region(mmio_region, n) IN
  /\ mmio_region' = MmioEnd(n)
  /\ windows' = windows \cup {r}
  /\ IF Refused(current_vmm, r) THEN UNCHANGED tableVars
     ELSE vmm_alloc(current_vmm, Place(current_vmm, r.base), r)

\* A step of kernel_start with a device: neither stacks nor processes.
DeviceStep(from, to) ==
  phase = from /\ phase' = to /\ UNCHANGED <<procVars, current_vmm, stackVars>>

\* acpi_init: an RSDP that is not valid, or the RSDT.
acpi_init ==
  \/ /\ DeviceStep("acpi_init", "panic")
     /\ UNCHANGED <<tableVars, mmioVars>>
  \/ /\ DeviceStep("acpi_init", "parse_rsdt")
     /\ alloc_mmio(2) /\ UNCHANGED acpi_tables

\* map_table: two pages for the table, ...
map_table(t) ==
  /\ DeviceStep("parse_rsdt", "map_table") /\ Len(acpi_tables) < MaxTables
  /\ alloc_mmio(2)
  /\ acpi_tables' = Append(acpi_tables, [base |-> mmio_region, table |-> t])

\* The table map_table and parse_rsdt are at, and whether it is too long.
Table == acpi_tables[Len(acpi_tables)].table
Long  == Table.length > 2 * PAGE_SIZE

\* ... and as many more as a long one needs.  Its length is read at its physical
\* address, a page fault unless that is in the identity mapping.  The pages do not show
\* the rest of the table: table + PAGE_SIZE * 2 (acpi.c:80) counts headers, of 36
\* bytes, so that they show the memory 36 * 2 * PAGE_SIZE bytes behind its start.
map_table_rest ==
  \/ /\ DeviceStep("map_table", "panic") /\ Long /\ ~Table.low
     /\ UNCHANGED <<tableVars, mmioVars>>
  \/ /\ DeviceStep("map_table", "checksum") /\ Long /\ Table.low
     /\ alloc_mmio((Table.length - 2 * PAGE_SIZE + PAGE_SIZE - 1) \div PAGE_SIZE)
     /\ UNCHANGED acpi_tables
  \/ /\ DeviceStep("map_table", "checksum") /\ ~Long
     /\ UNCHANGED <<tableVars, mmioVars>>

\* The page the n-th unit of a table, from 0, is looked for in.
PageOf(m, n) == m.base + (m.table.offset + n) \div PAGE_SIZE

\* Reading the table, or what is taken for it, meets no page that is not mapped.
Readable(m) == \A n \in 0 .. m.table.length - 1 : kpt[PageOf(m, n)] # NONE

\* validate_checksum: a page fault where the table is not mapped; a wrong sum is
\* reported only.
validate_checksum ==
  /\ DeviceStep("checksum", IF Readable(acpi_tables[Len(acpi_tables)]) THEN "parse_rsdt" ELSE "panic")
  /\ UNCHANGED <<tableVars, mmioVars>>

\* Mutant of apic_init: the local APIC is mapped after get_ioapic.
ApicInitLate == DeviceStep("parse_rsdt", "get_ioapic") /\ UNCHANGED <<tableVars, mmioVars>>

\* The registers of the local APIC; then those of the IO APIC get_ioapic finds.
apic_init == DeviceStep("parse_rsdt", "get_ioapic") /\ alloc_mmio(1) /\ UNCHANGED acpi_tables

\* get_ioapic panics if there is no MADT, or at an entry of unknown type; behind the
\* last entry it takes what follows the table for one more.  Nobody asks for an
\* ACPI table again.
get_ioapic ==
  LET found == {i \in DOMAIN acpi_tables : acpi_tables[i].table.madt} IN
  /\ \/ DeviceStep("get_ioapic", "panic") /\ UNCHANGED <<tableVars, mmio_region, windows>>
     \/ DeviceStep("get_ioapic", "tar_init") /\ found # {} /\ alloc_mmio(1)
  /\ acpi_tables' = <<>>

\* tar_init: a panic without a module; the tar file; for a refusal vmm_alloc has
\* returned 0, where parse_tar_file faults unless get_rsdp has mapped it.
tar_init ==
  \/ /\ DeviceStep("tar_init", "panic") /\ UNCHANGED <<tableVars, mmioVars>>
  \/ \E n \in ModulePages :
       /\ DeviceStep("tar_init", IF Refused(Initial, Region(mmio_region, n)) /\ pt[Initial][0] = NONE
                                 THEN "panic" ELSE "sched_init")
       /\ alloc_mmio(n) /\ UNCHANGED acpi_tables

\* create_proc for the idle process; current_vmm stays the initial one.
sched_init ==
  /\ alloc_kernel_stack("sched_init", "run")
  /\ made' = made \cup {Idle} /\ alive' = {Idle} /\ current_process' = Idle
  /\ UNCHANGED <<loading, reaped, current_vmm, mmioVars>>

-----------------------------------------------------------------------------
(* Threads and processes *)

\* create_thread for a kernel thread.
create_kernel_thread ==
  /\ loading = NONE
  /\ alloc_kernel_stack("run", "run")
  /\ UNCHANGED <<procVars, current_vmm, mmioVars>>

\* create_vmm and switch_vm_space, the beginning of exec_elf: a cleared table.
create_vmm(s) ==
  /\ phase = "run" /\ loading = NONE /\ s \in Procs \ made
  /\ made' = made \cup {s} /\ loading' = s
  /\ current_vmm' = s
  /\ UNCHANGED <<phase, tableVars, current_process, alive, reaped, mmioVars, stackVars>>

\* load_elf, for one segment.
load_elf(r) ==
  /\ phase = "run" /\ loading # NONE /\ Len(user[loading]) < MaxSegments
  /\ IF Refused(current_vmm, r) THEN PANIC
     ELSE vmm_alloc(current_vmm, Place(current_vmm, r.base), r) /\ UNCHANGED phase
  /\ UNCHANGED <<procVars, current_vmm, mmioVars, stackVars>>

\* create_proc for the loaded program: alloc_user_stack, which switches to the new
\* space and back to that of current_process, as exec_elf does once more.
alloc_user_stack ==
  LET s == loading
      r == Region(USER_STACK_START, StackPages)
  IN
  /\ phase = "run" /\ loading # NONE
  /\ IF Refused(s, r) THEN PANIC /\ UNCHANGED <<alive, loading, current_vmm>>
     ELSE /\ vmm_alloc(s, Place(s, r.base), r)
          /\ current_vmm' = current_process
          /\ alive' = alive \cup {s} /\ loading' = NONE
          /\ UNCHANGED phase
  /\ UNCHANGED <<current_process, made, reaped, mmioVars, stackVars>>

\* switch_process; an exec_elf that is under way is abandoned.
switch_vm_space(s) ==
  /\ phase = "run" /\ s \in alive /\ (s = Idle => alive = {Idle})
  /\ current_process' = s /\ current_vmm' = s
  /\ loading' = NONE
  /\ UNCHANGED <<phase, tableVars, made, alive, reaped, mmioVars, stackVars>>

-----------------------------------------------------------------------------
(* Reaping *)

\* The loops of umap run from start_index to an end_index computed from the same
\* address: no entry is cleared and no frame is given back.
umap == UNCHANGED <<pt, kpt>>

\* vmm_free of a kernel stack: the first object with that base goes.
vmm_free(b) ==
  LET i == CHOOSE i \in DOMAIN kernel :
             kernel[i].base = b /\ \A j \in 1 .. i - 1 : kernel[j].base # b
  IN
  /\ kernel' = Unlinked(kernel, i)
  /\ umap /\ UNCHANGED <<user, overlapped>>

\* reap_thread for a kernel thread, whose stack is r; the TSS and the idle thread
\* keep theirs, the first three.
reap_thread(r) ==
  /\ phase = "run" /\ loading = NONE
  /\ r \in stacks /\ r.base < KERNEL_STACK_START - 3 * StackStep
  /\ vmm_free(r.base)
  /\ stacks' = stacks \ {r}
  /\ UNCHANGED <<phase, procVars, current_vmm, mmioVars, kernel_stack_ptr>>

\* reap_process for the current process: vmm_free of its stack, then of every
\* object up to kernel_text_obj, and schedule goes on to another process.
reap_process ==
  LET s == current_process IN
  /\ phase = "run" /\ loading = NONE /\ s \in Procs
  /\ user' = [user EXCEPT ![current_vmm] = <<>>] /\ umap /\ UNCHANGED <<kernel, overlapped>>
  /\ alive' = alive \ {s} /\ reaped' = reaped \cup {s}
  /\ \E q \in alive' : /\ q = Idle => alive' = {Idle}
                       /\ current_process' = q /\ current_vmm' = q
  /\ UNCHANGED <<phase, loading, made, mmioVars, stackVars>>

Halted == phase = "panic" /\ UNCHANGED vars

Next ==
  \/ vmm_lengthen
  \/ remap_gdt
  \/ get_rsdp
  \/ acpi_init
  \/ \E t \in Tables : map_table(t)
  \/ map_table_rest
  \/ validate_checksum
  \/ apic_init
  \/ get_ioapic
  \/ tar_init
  \/ sched_init
  \/ create_kernel_thread
  \/ \E s \in Procs : create_vmm(s)
  \/ \E r \in Segments : load_elf(r)
  \/ alloc_user_stack
  \/ \E s \in Spaces : switch_vm_space(s)
  \/ \E r \in stacks : reap_thread(r)
  \/ reap_process
  \/ Halted

Spec == vmm_init /\ [][Next]_vars

-----------------------------------------------------------------------------
(* Properties *)

\* Every list stays ordered by base, also across the seam between the regions of
\* a process and the kernel's, until alloc_mmio has handed out all pages up to the
\* bitmap: what the searches of vmm_alloc rely on.
ListsAreSorted ==
  mmio_region <= KERNEL_PMM_START =>
    \A s \in Spaces : \A i \in 1 .. Len(List(s)) - 1 : List(s)[i].base <= List(s)[i + 1].base

\* Until then a kernel stack and the page below it are apart from every other object
\* and from the heap page, which has no object: when the room is used up,
\* alloc_kernel_stack panics instead.
StacksAreApart ==
  mmio_region <= KERNEL_PMM_START =>
    \A r \in stacks :
      /\ r \in Objects(kernel)
      /\ LET guarded == Region(r.base - 1, r.length + 1) IN
           /\ KERNEL_HEAP_START \notin Pages(guarded)
           /\ \A q \in Objects(kernel) : q # r => ~Overlap(guarded, q)

\* What alloc_mmio hands out is mapped, and to nothing else, until it has handed out
\* all pages up to the bitmap.
WindowsAreMapped ==
  mmio_region <= KERNEL_PMM_START => \A w \in windows : \A p \in Pages(w) : kpt[p] = w.base

\* When get_ioapic runs, what it reads of an ACPI table in the two pages of map_table
\* is in the table's own window, and that is all of a table that is not long: one that
\* its offset pushes into a third page has panicked.  All of a long one is mapped, if
\* not to the table (map_table_rest), and so is the unit behind the end of any, which
\* get_ioapic's loop (apic.c:87) reads as well: it may be the first of a page that
\* map_table has not mapped, and is then in the next table's, or in the local APIC's.
TablesAreReadable ==
  phase = "get_ioapic" /\ mmio_region <= KERNEL_PMM_START =>
    \A m \in Objects(acpi_tables) :
      /\ \A n \in 0 .. m.table.length - 1 :
           m.table.length <= 2 * PAGE_SIZE \/ PageOf(m, n) < m.base + 2 => kpt[PageOf(m, n)] = m.base
      /\ Readable(m) /\ kpt[PageOf(m, m.table.length)] # NONE

\* Each page of each region of a process is mapped in that process's own table, and
\* for that region, wherever exec_elf of another one was abandoned, unless the
\* program's segments overlap.
ProcessesOwnTheirPages ==
  ~overlapped => \A s \in alive : \A r \in Objects(user[s]) : \A p \in Pages(r) : pt[s][p] = r.base

\* mmap never replaces a valid entry (it does not invalidate the TLB, vmm.c:134), in
\* the kernel's part until the room for alloc_mmio is used up, and in a process's
\* unless its segments overlap.  The identity mapping is the exception: get_rsdp
\* maps the BIOS area over it.
MappingsAreStable ==
  [][/\ mmio_region' <= KERNEL_PMM_START =>
          \A p \in KernelPages : kpt[p] # NONE => kpt'[p] = kpt[p]
     /\ ~overlapped' =>
          \A s \in Spaces : \A p \in UserPages :
            pt[s][p] \notin {NONE, IDENTITY} => pt'[s][p] = pt[s][p]]_vars

\* "We free everything not in kernel space" (scheduler.c:202): a process that was
\* reaped has nothing mapped.
ReapedSpacesAreEmpty == \A s \in reaped : pt[s] = Unmapped

=============================================================================
