----------------------------- MODULE VmmProofs ------------------------------
(***************************************************************************)
(* Proofs about Vmm, for every layout that satisfies VmmAssumption.  Until *)
(* the device windows have used up the room below the bitmap (mmio_region  *)
(* <= KERNEL_PMM_START) the lists of regions stay sorted, the kernel       *)
(* stacks apart, what alloc_mmio hands out and the ACPI tables mapped, and *)
(* no entry of the kernel's page tables is replaced.  Each region of a     *)
(* process stays mapped in its own table, unless segments of a program     *)
(* overlap.                                                                *)
(***************************************************************************)
EXTENDS VmmLists

-----------------------------------------------------------------------------
(* The page tables of the kernel *)

\* What a step does to them while the windows end below the bitmap: nothing; the rest
\* of the bitmap; a window; a stack.
SameTables ==
  /\ \A p \in KernelPages : kpt'[p] = kpt[p]
  /\ mmio_region' = mmio_region /\ kernel_stack_ptr' <= kernel_stack_ptr
  /\ phase' = "pmm_init" => phase = "pmm_init"
MapsBitmap ==
  /\ phase = "pmm_init" /\ phase' # "pmm_init"
  /\ \E s : mmap(s, Region(KERNEL_PMM_START, KERNEL_HEAP_START - KERNEL_PMM_START))
  /\ UNCHANGED <<mmio_region, kernel_stack_ptr>>
MapsWindow ==
  /\ phase' # "pmm_init"
  /\ \E s : \E n \in Nat \ {0} : mmap(s, Region(mmio_region, n)) /\ mmio_region' = mmio_region + n
  /\ kernel_stack_ptr' = kernel_stack_ptr
MapsStack ==
  /\ phase' # "pmm_init"
  /\ \E s : mmap(s, Region(kernel_stack_ptr - 3, 2))
  /\ KERNEL_HEAP_START + 2 <= kernel_stack_ptr - 3
  /\ kernel_stack_ptr' = kernel_stack_ptr - 3 /\ mmio_region' = mmio_region

\* mmap of a region of a process leaves the kernel's part alone.
LEMMA UserMmap ==
  ASSUME NEW s, NEW r \in Regions, r.base + r.length <= KERNEL_TEXT_START, mmap(s, r)
  PROVE  \A p \in KernelPages : kpt'[p] = kpt[p]
<1>1. r.base \in Nat /\ r.length \in Nat
  BY DEF Regions
<1>2. \A p \in KernelPages : p \notin Pages(r)
  BY <1>1, Layout DEF KernelPages, Pages
<1>. QED
  BY <1>2 DEF mmap

\* alloc_kernel_stack.
LEMMA StackTables ==
  ASSUME VmmInv, mmio_region <= KERNEL_PMM_START, NEW from, NEW to,
         from \notin {"pmm_init", "panic"}, to # "pmm_init",
         alloc_kernel_stack(from, to), UNCHANGED <<mmio_region, windows>>
  PROVE  SameTables \/ MapsStack
<1>1. /\ kernel_stack_ptr' = kernel_stack_ptr - StackStep
      /\ \/ UNCHANGED tableVars
         \/ /\ mmap(current_vmm, Region(kernel_stack_ptr - StackStep, StackPages))
            /\ KERNEL_HEAP_START + 2 <= kernel_stack_ptr - StackStep
  BY StackAlloc DEF VmmInv
<1>2. phase' # "pmm_init"
  BY DEF alloc_kernel_stack, PANIC
<1>3. kernel_stack_ptr \in Int
  BY DEF VmmInv, ListInv, StackInv
<1>4. kernel_stack_ptr' = kernel_stack_ptr - 3 /\ kernel_stack_ptr' <= kernel_stack_ptr
  BY <1>1, <1>3, Layout
<1>5. CASE UNCHANGED tableVars
  <2>1. kpt' = kpt
    BY <1>5 DEF tableVars
  <2>. QED
    BY <1>2, <1>4, <2>1 DEF SameTables
<1>6. CASE /\ mmap(current_vmm, Region(kernel_stack_ptr - StackStep, StackPages))
           /\ KERNEL_HEAP_START + 2 <= kernel_stack_ptr - StackStep
  BY <1>2, <1>4, <1>6, Layout DEF MapsStack
<1>. QED
  BY <1>1, <1>5, <1>6

\* A step of kernel_start that maps a device.
LEMMA WindowTables ==
  ASSUME VmmInv, NEW from, NEW to, from \notin {"pmm_init", "run", "panic"},
         to \notin {"pmm_init", "run"}, DeviceStep(from, to),
         NEW n \in Nat \ {0}, alloc_mmio(n), mmio_region' <= KERNEL_PMM_START
  PROVE  MapsWindow
<1>1. phase = from /\ phase' = to /\ UNCHANGED stackVars
  BY DEF DeviceStep
<1>2. mmio_region \in Nat /\ mmio_region' = mmio_region + n
  BY DEF VmmInv, Types, alloc_mmio, MmioEnd
<1>3. mmio_region <= KERNEL_PMM_START /\ mmio_region + n <= KERNEL_PMM_START
  BY <1>2, Layout
<1>4. mmap(current_vmm, Region(mmio_region, n))
  BY <1>1, <1>3, WindowAlloc DEF VmmInv
<1>. QED
  BY <1>1, <1>2, <1>4 DEF MapsWindow, stackVars

\* Every step is one of them.
LEMMA KernelStep ==
  ASSUME VmmInv, [Next]_vars, mmio_region' <= KERNEL_PMM_START
  PROVE  SameTables \/ MapsBitmap \/ MapsWindow \/ MapsStack
<1>0. Types /\ mmio_region \in Nat
  BY DEF VmmInv, Types
<1>1. ASSUME UNCHANGED <<kpt, mmio_region, kernel_stack_ptr>>, phase' = phase \/ phase' # "pmm_init"
      PROVE  SameTables
  <2>1. mmio_region <= KERNEL_PMM_START
    BY <1>1
  <2>2. kernel_stack_ptr \in Int
    BY <2>1 DEF VmmInv, ListInv, StackInv
  <2>. QED
    BY <1>1, <2>2 DEF SameTables
<1>2. ASSUME NEW s, NEW r \in Regions, r.base + r.length <= KERNEL_TEXT_START, mmap(s, r),
             UNCHANGED <<phase, mmio_region, kernel_stack_ptr>>
      PROVE  SameTables
  <2>1. \A p \in KernelPages : kpt'[p] = kpt[p]
    BY <1>2, UserMmap
  <2>2. kernel_stack_ptr \in Int
    BY <1>2 DEF VmmInv, ListInv, StackInv
  <2>. QED
    BY <1>2, <2>1, <2>2 DEF SameTables
<1>3. CASE vmm_lengthen
  BY <1>3 DEF vmm_lengthen, MapsBitmap, mmioVars, stackVars
<1>4. CASE remap_gdt
  <2>1. PICK f \in {"ist1", "rsp1"}, t \in {"rsp1", "acpi_init"} : alloc_kernel_stack(f, t)
    BY <1>4 DEF remap_gdt
  <2>2. UNCHANGED <<mmio_region, windows>> /\ f \notin {"pmm_init", "panic"} /\ t # "pmm_init"
    BY <1>4, <2>1 DEF remap_gdt, mmioVars
  <2>. QED
    BY <2>1, <2>2, StackTables
<1>5. CASE get_rsdp
  <2>1. phase = "acpi_init" /\ UNCHANGED <<phase, mmio_region, kernel_stack_ptr>>
    BY <1>5 DEF get_rsdp, mmioVars, stackVars
  <2>2. current_vmm = Initial /\ ListInv
    BY <2>1 DEF VmmInv, Types
  <2>3. mmap(Initial, Region(0, BiosPages))
    BY <1>5, <2>2, RsdpPlace DEF ListInv, KernelInv, vmm_alloc
  <2>4. Region(0, BiosPages) \in Regions
        /\ Region(0, BiosPages).base + Region(0, BiosPages).length <= KERNEL_TEXT_START
    BY Layout DEF Region, Regions
  <2>. QED
    BY <1>2, <2>1, <2>3, <2>4
<1>6. ASSUME NEW f \in {"acpi_init", "parse_rsdt", "map_table", "checksum", "get_ioapic", "tar_init"},
             NEW t \in {"panic", "parse_rsdt", "map_table", "checksum", "get_ioapic", "tar_init", "sched_init"},
             DeviceStep(f, t),
             (UNCHANGED <<kpt, mmio_region>>) \/ (\E n \in Nat \ {0} : alloc_mmio(n))
      PROVE  SameTables \/ MapsWindow
  <2>1. f \notin {"pmm_init", "run", "panic"} /\ t \notin {"pmm_init", "run"}
    BY <1>6
  <2>2. phase' # "pmm_init" /\ UNCHANGED kernel_stack_ptr
    BY <1>6, <2>1 DEF DeviceStep, stackVars
  <2>3. CASE UNCHANGED <<kpt, mmio_region>>
    BY <1>1, <2>2, <2>3
  <2>4. CASE \E n \in Nat \ {0} : alloc_mmio(n)
    BY <1>6, <2>1, <2>4, WindowTables
  <2>. QED
    BY <1>6, <2>3, <2>4
<1>7. CASE acpi_init
  <2>1. 2 \in Nat \ {0}
    OBVIOUS
  <2>. QED
    BY <1>6, <1>7, <2>1 DEF acpi_init, tableVars, mmioVars
<1>8. CASE \E t \in Tables : map_table(t)
  <2>1. 2 \in Nat \ {0}
    OBVIOUS
  <2>. QED
    BY <1>6, <1>8, <2>1 DEF map_table
<1>9. CASE map_table_rest
  <2>1. phase = "map_table"
    BY <1>9 DEF map_table_rest, DeviceStep
  <2>2. Long => (Table.length - 2 * PAGE_SIZE + PAGE_SIZE - 1) \div PAGE_SIZE \in Nat \ {0}
    BY <2>1, RestIsPages
  <2>3. PICK t \in {"panic", "checksum"} :
          /\ DeviceStep("map_table", t)
          /\ \/ UNCHANGED <<tableVars, mmioVars>>
             \/ Long /\ alloc_mmio((Table.length - 2 * PAGE_SIZE + PAGE_SIZE - 1) \div PAGE_SIZE)
    BY <1>9 DEF map_table_rest
  <2>. QED
    BY <1>6, <2>2, <2>3 DEF tableVars, mmioVars
<1>10. CASE validate_checksum
  <2>1. PICK t \in {"parse_rsdt", "panic"} : DeviceStep("checksum", t) /\ UNCHANGED <<tableVars, mmioVars>>
    BY <1>10 DEF validate_checksum
  <2>. QED
    BY <1>6, <2>1 DEF tableVars, mmioVars
<1>11. CASE apic_init
  <2>1. 1 \in Nat \ {0}
    OBVIOUS
  <2>. QED
    BY <1>6, <1>11, <2>1 DEF apic_init
<1>12. CASE get_ioapic
  <2>1. 1 \in Nat \ {0}
    OBVIOUS
  <2>. QED
    BY <1>6, <1>12, <2>1 DEF get_ioapic, tableVars
<1>13. CASE tar_init
  <2>1. ModulePages \subseteq Nat \ {0}
    BY VmmAssumption
  <2>2. PICK t \in {"panic", "sched_init"} :
          /\ DeviceStep("tar_init", t)
          /\ (UNCHANGED <<tableVars, mmioVars>>) \/ (\E n \in ModulePages : alloc_mmio(n))
    BY <1>13 DEF tar_init
  <2>. QED
    BY <1>6, <2>1, <2>2 DEF tableVars, mmioVars
<1>14. CASE sched_init
  BY <1>14, StackTables DEF sched_init, mmioVars
<1>15. CASE create_kernel_thread
  BY <1>15, StackTables DEF create_kernel_thread, mmioVars
<1>16. ASSUME NEW r \in Segments, load_elf(r) PROVE SameTables
  <2>1. r \in Regions /\ r.base + r.length <= KERNEL_TEXT_START
    BY VmmAssumption
  <2>2. \/ UNCHANGED kpt /\ phase' = "panic"
        \/ mmap(current_vmm, r) /\ UNCHANGED phase
    BY <1>16 DEF load_elf, PANIC, vmm_alloc, tableVars
  <2>3. UNCHANGED <<mmio_region, kernel_stack_ptr>>
    BY <1>16 DEF load_elf, mmioVars, stackVars
  <2>. QED
    BY <1>1, <1>2, <2>1, <2>2, <2>3, Zenon
<1>17. CASE alloc_user_stack
  <2>. DEFINE r == Region(USER_STACK_START, StackPages)
  <2>1. r \in Regions /\ r.base + r.length <= KERNEL_TEXT_START
    BY Layout DEF Region, Regions
  <2>2. \/ UNCHANGED kpt /\ phase' = "panic"
        \/ mmap(loading, r) /\ UNCHANGED phase
    BY <1>17 DEF alloc_user_stack, PANIC, vmm_alloc, tableVars
  <2>3. UNCHANGED <<mmio_region, kernel_stack_ptr>>
    BY <1>17 DEF alloc_user_stack, mmioVars, stackVars
  <2>. HIDE DEF r
  <2>. QED
    BY <1>1, <1>2, <2>1, <2>2, <2>3
<1>18. CASE (\E s \in Procs : create_vmm(s)) \/ (\E s \in Spaces : switch_vm_space(s))
  BY <1>1, <1>18 DEF create_vmm, switch_vm_space, tableVars, mmioVars, stackVars
<1>19. CASE \E r \in stacks : reap_thread(r)
  BY <1>1, <1>19 DEF reap_thread, vmm_free, umap, mmioVars
<1>20. CASE reap_process
  BY <1>1, <1>20 DEF reap_process, umap, mmioVars, stackVars
<1>21. CASE Halted \/ UNCHANGED vars
  BY <1>1, <1>21 DEF Halted, vars, tableVars, mmioVars, stackVars
<1>. QED
  BY <1>3, <1>4, <1>5, <1>7, <1>8, <1>9, <1>10, <1>11, <1>12, <1>13, <1>14, <1>15, <1>16, <1>17,
     <1>18, <1>19, <1>20, <1>21 DEF Next

\* mmio_region only grows.
LEMMA WindowsGrow ==
  ASSUME VmmInv, [Next]_vars, mmio_region' <= KERNEL_PMM_START
  PROVE  mmio_region <= mmio_region' /\ mmio_region <= KERNEL_PMM_START
<1>1. mmio_region \in Nat /\ KERNEL_PMM_START \in Nat
  BY Layout DEF VmmInv, Types
<1>2. CASE MapsWindow
  <2>1. PICK n \in Nat : mmio_region' = mmio_region + n
    BY <1>2 DEF MapsWindow
  <2>. QED
    BY <1>1, <2>1
<1>3. CASE SameTables \/ MapsBitmap \/ MapsStack
  BY <1>1, <1>3 DEF SameTables, MapsBitmap, MapsStack
<1>. QED
  BY <1>2, <1>3, KernelStep

\* The pages that alloc_mmio and alloc_kernel_stack will hand out are free, so is the
\* rest of the bitmap before pmm_init has mapped it, and all that alloc_mmio has handed
\* out is mapped.
FreshInv ==
  /\ \A p \in KernelPages :
       /\ mmio_region <= p /\ p < KERNEL_PMM_START => kpt[p] = NONE
       /\ KERNEL_HEAP_START < p /\ p < kernel_stack_ptr => kpt[p] = NONE
       /\ VGA_TEXT_BUFFER_BASE < p /\ p < mmio_region => kpt[p] # NONE
  /\ phase = "pmm_init" =>
       /\ kpt[KERNEL_PMM_START] = KERNEL_PMM_START
       /\ \A p \in KernelPages : KERNEL_PMM_START < p /\ p < KERNEL_HEAP_START => kpt[p] = NONE

\* mmap enters the base for the pages of the region, and for no other.
LEMMA MmapPages ==
  ASSUME NEW s, NEW b \in Nat, NEW n \in Nat, mmap(s, Region(b, n)), NEW p \in KernelPages
  PROVE  /\ b <= p /\ p < b + n => kpt'[p] = b
         /\ p < b \/ b + n <= p => kpt'[p] = kpt[p]
<1>1. p \in Int
  BY Layout DEF KernelPages
<1>2. p \in Pages(Region(b, n)) <=> b <= p /\ p < b + n
  BY <1>1 DEF Pages, Region
<1>3. Region(b, n).base = b
  BY DEF Region
<1>4. kpt'[p] = IF p \in Pages(Region(b, n)) THEN b ELSE kpt[p]
  BY <1>3 DEF mmap
<1>. QED
  BY <1>1, <1>2, <1>4

\* _setup_pt has mapped the first page of the bitmap, the heap page and what is not
\* above the console.
LEMMA InitFresh == vmm_init => FreshInv
<1>. SUFFICES ASSUME vmm_init PROVE FreshInv
  OBVIOUS
<1>. DEFINE mapped == { Region(KERNEL_TEXT_START, TextPages + 1), Region(VGA_TEXT_BUFFER_BASE, 1),
                        Region(KERNEL_PMM_START, 1), Region(KERNEL_HEAP_START, 1) }
            R(p) == {r \in mapped : p \in Pages(r)}
<1>1. /\ mmio_region = VGA_TEXT_BUFFER_BASE + 1 /\ kernel_stack_ptr = KERNEL_STACK_START
      /\ kpt = [p \in KernelPages |-> IF R(p) = {} THEN NONE ELSE (CHOOSE r \in R(p) : TRUE).base]
  BY DEF vmm_init, _setup_pt
<1>2. ASSUME NEW p \in KernelPages
      PROVE  /\ p \in Int
             /\ p \in Pages(Region(KERNEL_TEXT_START, TextPages + 1)) <=> p <= KERNEL_TEXT_START + TextPages
             /\ p \in Pages(Region(VGA_TEXT_BUFFER_BASE, 1)) <=> p = VGA_TEXT_BUFFER_BASE
             /\ p \in Pages(Region(KERNEL_PMM_START, 1)) <=> p = KERNEL_PMM_START
             /\ p \in Pages(Region(KERNEL_HEAP_START, 1)) <=> p = KERNEL_HEAP_START
  BY Layout DEF KernelPages, Pages, Region
<1>3. ASSUME NEW p \in KernelPages, VGA_TEXT_BUFFER_BASE < p, p # KERNEL_PMM_START, p # KERNEL_HEAP_START
      PROVE  kpt[p] = NONE
  <2>1. ~(p <= KERNEL_TEXT_START + TextPages) /\ p # VGA_TEXT_BUFFER_BASE
    BY <1>2, <1>3, Layout
  <2>2. R(p) = {}
    BY <1>2, <1>3, <2>1
  <2>. QED
    BY <1>1, <2>2
<1>4. KERNEL_PMM_START \in KernelPages
  BY Layout DEF KernelPages
<1>5. kpt[KERNEL_PMM_START] = KERNEL_PMM_START
  <2>1. ~(KERNEL_PMM_START <= KERNEL_TEXT_START + TextPages) /\ KERNEL_PMM_START # VGA_TEXT_BUFFER_BASE
        /\ KERNEL_PMM_START # KERNEL_HEAP_START
    BY Layout
  <2>2. R(KERNEL_PMM_START) = {Region(KERNEL_PMM_START, 1)}
    BY <1>2, <1>4, <2>1
  <2>3. (CHOOSE r \in R(KERNEL_PMM_START) : TRUE) = Region(KERNEL_PMM_START, 1)
    BY <2>2
  <2>. QED
    BY <1>1, <1>4, <2>2, <2>3 DEF Region
<1>. HIDE DEF mapped, R
<1>6. ASSUME NEW p \in KernelPages
      PROVE  /\ mmio_region <= p /\ p < KERNEL_PMM_START => kpt[p] = NONE
             /\ KERNEL_HEAP_START < p /\ p < kernel_stack_ptr => kpt[p] = NONE
             /\ VGA_TEXT_BUFFER_BASE < p /\ p < mmio_region => kpt[p] # NONE
             /\ KERNEL_PMM_START < p /\ p < KERNEL_HEAP_START => kpt[p] = NONE
  BY <1>1, <1>2, <1>3, Layout
<1>. QED
  BY <1>5, <1>6 DEF FreshInv

\* No step maps a page of the kernel's part that is mapped already, and FreshInv is kept.
LEMMA FreshKeeps ==
  ASSUME VmmInv, FreshInv, [Next]_vars, mmio_region' <= KERNEL_PMM_START
  PROVE  /\ mmio_region <= mmio_region' /\ FreshInv'
         /\ \A p \in KernelPages : kpt[p] # NONE => kpt'[p] = kpt[p]
<1>0. /\ mmio_region \in Nat /\ VGA_TEXT_BUFFER_BASE < mmio_region
      /\ \A p \in KernelPages : p \in Int
      /\ NONE \notin Nat
  BY Layout, VmmNames DEF VmmInv, Types, KernelPages
<1>1. CASE SameTables
  <2>1. mmio_region' = mmio_region /\ mmio_region <= KERNEL_PMM_START /\ mmio_region <= mmio_region'
    BY <1>0, <1>1 DEF SameTables
  <2>2. kernel_stack_ptr \in Int /\ kernel_stack_ptr' <= kernel_stack_ptr
        /\ \A p \in KernelPages : kpt'[p] = kpt[p]
    BY <1>1, <2>1 DEF VmmInv, ListInv, StackInv, SameTables
  <2>3. KERNEL_PMM_START \in KernelPages
    BY Layout DEF KernelPages
  <2>4. kernel_stack_ptr' \in Int
    BY <1>0, <2>1, StepVmmInv DEF VmmInv, ListInv, StackInv
  <2>5. ASSUME NEW p \in KernelPages, p < kernel_stack_ptr' PROVE p < kernel_stack_ptr
    BY <1>0, <2>2, <2>4, <2>5
  <2>6. FreshInv'
    BY <1>1, <2>1, <2>2, <2>3, <2>5 DEF FreshInv, SameTables, KernelPages
  <2>. QED
    BY <2>1, <2>2, <2>6
<1>2. CASE MapsBitmap
  <2>. DEFINE n == KERNEL_HEAP_START - KERNEL_PMM_START
  <2>1. PICK s : mmap(s, Region(KERNEL_PMM_START, n))
    BY <1>2 DEF MapsBitmap
  <2>2. n \in Nat /\ KERNEL_PMM_START + n = KERNEL_HEAP_START
    BY Layout
  <2>. HIDE DEF n
  <2>3. ASSUME NEW p \in KernelPages
        PROVE  /\ KERNEL_PMM_START <= p /\ p < KERNEL_HEAP_START => kpt'[p] = KERNEL_PMM_START
               /\ p < KERNEL_PMM_START \/ KERNEL_HEAP_START <= p => kpt'[p] = kpt[p]
    BY <2>1, <2>2, MmapPages, Layout
  <2>4. /\ mmio_region' = mmio_region /\ kernel_stack_ptr' = kernel_stack_ptr
        /\ phase = "pmm_init" /\ phase' # "pmm_init" /\ mmio_region <= KERNEL_PMM_START
    BY <1>2 DEF MapsBitmap
  <2>5. ASSUME NEW p \in KernelPages
        PROVE  /\ kpt[p] # NONE => kpt'[p] = kpt[p]
               /\ mmio_region <= p /\ p < KERNEL_PMM_START => kpt'[p] = NONE
               /\ KERNEL_HEAP_START < p /\ p < kernel_stack_ptr => kpt'[p] = NONE
               /\ VGA_TEXT_BUFFER_BASE < p /\ p < mmio_region => kpt'[p] # NONE
    <3>1. p \in Int
      BY <1>0
    <3>2. /\ mmio_region <= p /\ p < KERNEL_PMM_START => kpt[p] = NONE
          /\ KERNEL_HEAP_START < p /\ p < kernel_stack_ptr => kpt[p] = NONE
          /\ VGA_TEXT_BUFFER_BASE < p /\ p < mmio_region => kpt[p] # NONE
          /\ p = KERNEL_PMM_START => kpt[p] = KERNEL_PMM_START
          /\ KERNEL_PMM_START < p /\ p < KERNEL_HEAP_START => kpt[p] = NONE
      BY <2>4 DEF FreshInv
    <3>. QED
      BY <1>0, <2>3, <2>4, <3>1, <3>2, Layout
  <2>6. FreshInv'
    BY <2>4, <2>5 DEF FreshInv, KernelPages
  <2>. QED
    BY <1>0, <2>4, <2>5, <2>6
<1>3. CASE MapsWindow
  <2>0. PICK s : \E n \in Nat \ {0} : mmap(s, Region(mmio_region, n)) /\ mmio_region' = mmio_region + n
    BY <1>3 DEF MapsWindow
  <2>1. PICK n \in Nat \ {0} : mmap(s, Region(mmio_region, n)) /\ mmio_region' = mmio_region + n
    BY <2>0
  <2>2. mmio_region <= mmio_region' /\ mmio_region + n <= KERNEL_PMM_START /\ mmio_region <= KERNEL_PMM_START
    BY <1>0, <2>1, Layout
  <2>3. ASSUME NEW p \in KernelPages
        PROVE  /\ mmio_region <= p /\ p < mmio_region + n => kpt'[p] = mmio_region
               /\ p < mmio_region \/ mmio_region + n <= p => kpt'[p] = kpt[p]
    <3>1. mmio_region \in Nat /\ n \in Nat
      BY <1>0
    <3>2. mmap(s, Region(mmio_region, n))
      BY <2>1, Zenon
    <3>. QED
      BY <3>1, <3>2, MmapPages
  <2>4. kernel_stack_ptr' = kernel_stack_ptr /\ phase' # "pmm_init"
    BY <1>3 DEF MapsWindow
  <2>5. ASSUME NEW p \in KernelPages
        PROVE  /\ kpt[p] # NONE => kpt'[p] = kpt[p]
               /\ mmio_region + n <= p /\ p < KERNEL_PMM_START => kpt'[p] = NONE
               /\ KERNEL_HEAP_START < p /\ p < kernel_stack_ptr => kpt'[p] = NONE
               /\ VGA_TEXT_BUFFER_BASE < p /\ p < mmio_region + n => kpt'[p] # NONE
    <3>1. p \in Int
      BY <1>0
    <3>2. /\ mmio_region <= p /\ p < KERNEL_PMM_START => kpt[p] = NONE
          /\ KERNEL_HEAP_START < p /\ p < kernel_stack_ptr => kpt[p] = NONE
          /\ VGA_TEXT_BUFFER_BASE < p /\ p < mmio_region => kpt[p] # NONE
      BY DEF FreshInv
    <3>3. mmio_region # NONE
      BY <1>0
    <3>. QED
      BY <1>0, <2>2, <2>3, <3>1, <3>2, <3>3, Layout
  <2>6. FreshInv'
    BY <2>1, <2>4, <2>5 DEF FreshInv, KernelPages
  <2>. QED
    BY <2>2, <2>5, <2>6
<1>4. CASE MapsStack
  <2>0. mmio_region' = mmio_region /\ mmio_region <= KERNEL_PMM_START
    BY <1>4 DEF MapsStack
  <2>1. kernel_stack_ptr \in Int
    BY <2>0 DEF VmmInv, ListInv, StackInv
  <2>2. PICK s : mmap(s, Region(kernel_stack_ptr - 3, 2))
    BY <1>4 DEF MapsStack
  <2>3. PICK b \in Nat : b = kernel_stack_ptr - 3 /\ KERNEL_HEAP_START + 2 <= b /\ b + 3 = kernel_stack_ptr
    BY <1>4, <2>1, Layout DEF MapsStack
  <2>4. ASSUME NEW p \in KernelPages, p < b \/ b + 2 <= p PROVE kpt'[p] = kpt[p]
    <3>1. mmap(s, Region(b, 2)) /\ 2 \in Nat
      BY <2>2, <2>3
    <3>. QED
      BY <2>4, <3>1, MmapPages
  <2>5. kernel_stack_ptr' = b /\ phase' # "pmm_init"
    BY <1>4, <2>3 DEF MapsStack
  <2>6. ASSUME NEW p \in KernelPages
        PROVE  /\ kpt[p] # NONE => kpt'[p] = kpt[p]
               /\ mmio_region <= p /\ p < KERNEL_PMM_START => kpt'[p] = NONE
               /\ KERNEL_HEAP_START < p /\ p < b => kpt'[p] = NONE
               /\ VGA_TEXT_BUFFER_BASE < p /\ p < mmio_region => kpt'[p] # NONE
    <3>1. p \in Int
      BY <1>0
    <3>2. /\ mmio_region <= p /\ p < KERNEL_PMM_START => kpt[p] = NONE
          /\ KERNEL_HEAP_START < p /\ p < b + 3 => kpt[p] = NONE
          /\ VGA_TEXT_BUFFER_BASE < p /\ p < mmio_region => kpt[p] # NONE
      BY <2>3 DEF FreshInv
    <3>. QED
      BY <1>0, <2>0, <2>3, <2>4, <3>1, <3>2, Layout
  <2>7. FreshInv'
    BY <2>0, <2>5, <2>6 DEF FreshInv, KernelPages
  <2>. QED
    BY <1>0, <2>0, <2>6, <2>7
<1>. QED
  BY <1>1, <1>2, <1>3, <1>4, KernelStep

-----------------------------------------------------------------------------
(* The ACPI tables *)

LastPage(m) == PageOf(m, m.table.length - 1)

\* Every table but the one map_table and validate_checksum are at ends below
\* mmio_region, and so does that one once its checksum could be read.
TableInv ==
  /\ \A j \in 1 .. Len(acpi_tables) : VGA_TEXT_BUFFER_BASE < acpi_tables[j].base
  /\ \A j \in 1 .. Len(acpi_tables) :
       /\ (j < Len(acpi_tables) \/ phase = "parse_rsdt") /\ mmio_region < KERNEL_PMM_START =>
            LastPage(acpi_tables[j]) < mmio_region
       /\ phase = "get_ioapic" => LastPage(acpi_tables[j]) + 1 < mmio_region
  /\ phase = "map_table" => acpi_tables[Len(acpi_tables)].base + 2 = mmio_region
  /\ phase = "checksum" => LastPage(acpi_tables[Len(acpi_tables)]) <= mmio_region
  /\ phase \in {"pmm_init", "ist1", "rsp1", "acpi_init"} => acpi_tables = <<>>

\* What is less than k + 1 times the divisor has a quotient of at most k.
LEMMA DivBound ==
  ASSUME NEW a \in Nat, NEW d \in Nat \ {0}, NEW k \in Nat, a < d * k + d
  PROVE  a \div d \in Nat /\ a \div d <= k
<1>. DEFINE q == a \div d
            r == a % d
<1>1. q \in Nat /\ r \in 0 .. d - 1 /\ a = d * q + r
  OBVIOUS
<1>. HIDE DEF q, r
<1>2. q <= k
  <2>. SUFFICES ASSUME q > k PROVE FALSE
    BY <1>1
  <2>1. PICK e \in Nat : q = k + 1 + e
    <3>1. q - k - 1 \in Nat /\ q = k + 1 + (q - k - 1)
      BY <1>1
    <3>. QED
      BY <3>1, Zenon
  <2>2. d * q = d * k + d + d * e
    BY <2>1
  <2>3. d * e \in Nat /\ d * k \in Nat /\ d * q \in Nat
    BY <1>1, <2>1
  <2>. QED
    BY <1>1, <2>2, <2>3
<1>. QED
  BY <1>1, <1>2 DEF q

\* The pages of a table: from its first to its last, the unit behind it at most one
\* further; two are enough for a short one but for its offset, and map_table_rest
\* counts what a long one has left over.
LEMMA TablePagesBound ==
  ASSUME NEW m \in [base : Nat, table : Tables]
  PROVE  /\ LastPage(m) \in Nat
         /\ \A n \in 0 .. m.table.length - 1 : PageOf(m, n) \in m.base .. LastPage(m)
         /\ PageOf(m, m.table.length) \in m.base .. LastPage(m) + 1
         /\ m.table.length \in Nat \ {0}
         /\ m.table.length <= 2 * PAGE_SIZE => LastPage(m) <= m.base + 2
         /\ LET rest == (m.table.length - 2 * PAGE_SIZE + PAGE_SIZE - 1) \div PAGE_SIZE
            IN  m.table.length > 2 * PAGE_SIZE => LastPage(m) <= m.base + 2 + rest
<1>1. PICK b \in Nat, o \in Nat, l \in Nat \ {0}, d \in Nat \ {0} :
        /\ b = m.base /\ o = m.table.offset /\ l = m.table.length /\ d = PAGE_SIZE /\ o < d
  BY VmmAssumption
<1>2. PICK z \in Nat : z = o + (l - 1)
  BY <1>1
<1>3. PICK q \in Nat : q = z \div d /\ z < d * q + d /\ d * q \in Nat
  <2>1. z \div d \in Nat /\ z % d \in 0 .. d - 1 /\ z = d * (z \div d) + (z % d)
    OBVIOUS
  <2>2. d * (z \div d) \in Nat
    BY <2>1
  <2>. QED
    BY <2>1, <2>2
<1>4. LastPage(m) = b + q
  BY <1>1, <1>2, <1>3 DEF LastPage, PageOf
<1>5. ASSUME NEW n \in 0 .. l - 1 PROVE PageOf(m, n) \in b .. b + q
  <2>1. PICK y \in Nat : y = o + n /\ y <= z
    BY <1>1, <1>2
  <2>2. y < d * q + d
    BY <1>3, <2>1
  <2>3. y \div d \in Nat /\ y \div d <= q
    BY <2>2, DivBound
  <2>4. PageOf(m, n) = b + y \div d
    BY <1>1, <2>1 DEF PageOf
  <2>. QED
    BY <2>3, <2>4
<1>6. PageOf(m, l) \in b .. b + q + 1
  <2>1. PICK y \in Nat : y = o + l /\ y = z + 1
    BY <1>1, <1>2
  <2>2. d * (q + 1) = d * q + d
    BY <1>3
  <2>3. y < d * (q + 1) + d
    BY <1>3, <2>1, <2>2
  <2>4. y \div d \in Nat /\ y \div d <= q + 1
    BY <2>3, DivBound
  <2>5. PageOf(m, l) = b + y \div d
    BY <1>1, <2>1 DEF PageOf
  <2>. QED
    BY <2>4, <2>5
<1>7. ASSUME l <= 2 * d PROVE q <= 2
  <2>1. z < d * 2 + d
    BY <1>1, <1>2, <1>7
  <2>. QED
    BY <1>3, <2>1, DivBound
<1>8. ASSUME l > 2 * d PROVE q <= 2 + (l - 2 * d + d - 1) \div d
  <2>1. PICK e \in Nat : e = l - 2 * d + d - 1 /\ z + 1 = o + e + d + 1
    <3>1. l - 2 * d + d - 1 \in Nat
      BY <1>8
    <3>. QED
      BY <1>2, <3>1
  <2>2. PICK c \in Nat : c = e \div d /\ e < d * c + d /\ d * c \in Nat
    <3>1. e \div d \in Nat /\ e % d \in 0 .. d - 1 /\ e = d * (e \div d) + (e % d)
      OBVIOUS
    <3>2. d * (e \div d) \in Nat
      BY <3>1
    <3>. QED
      BY <3>1, <3>2
  <2>3. d * (c + 2) = d * c + 2 * d
    BY <2>2
  <2>4. z < d * (c + 2) + d
    BY <1>1, <2>1, <2>2, <2>3
  <2>5. q <= c + 2
    BY <1>3, <2>4, DivBound
  <2>. QED
    BY <2>1, <2>2, <2>5
<1>. QED
  BY <1>1, <1>4, <1>5, <1>6, <1>7, <1>8

\* The elements of a sequence are of its type.
LEMMA ElementType ==
  ASSUME NEW S, NEW q \in Seq(S), NEW j \in 1 .. Len(q)
  PROVE  q[j] \in S
  OBVIOUS

\* A step that leaves the tables alone, and is not one of those that look at them.
LEMMA TableFrame ==
  ASSUME VmmInv, TableInv, UNCHANGED acpi_tables,
         mmio_region' \in Nat, mmio_region <= mmio_region',
         phase' \notin {"parse_rsdt", "map_table", "checksum", "get_ioapic"},
         phase' \in {"pmm_init", "ist1", "rsp1", "acpi_init"} =>
           phase \in {"pmm_init", "ist1", "rsp1", "acpi_init"}
  PROVE  TableInv'
<1>1. mmio_region \in Nat /\ acpi_tables \in Seq([base : Nat, table : Tables]) /\ KERNEL_PMM_START \in Nat
  BY Layout, Zenon DEF VmmInv, Types
<1>2. ASSUME NEW j \in 1 .. Len(acpi_tables)
      PROVE  /\ LastPage(acpi_tables[j])' = LastPage(acpi_tables[j])
             /\ LastPage(acpi_tables[j]) \in Nat
  <2>1. acpi_tables[j] \in [base : Nat, table : Tables]
    BY <1>1, ElementType, Zenon
  <2>. QED
    BY <2>1, TablePagesBound DEF LastPage, PageOf
<1>3. ASSUME NEW j \in 1 .. Len(acpi_tables), j < Len(acpi_tables), mmio_region' < KERNEL_PMM_START
      PROVE  LastPage(acpi_tables[j])' < mmio_region'
  <2>1. mmio_region < KERNEL_PMM_START
    BY <1>1, <1>3
  <2>2. LastPage(acpi_tables[j]) < mmio_region
    BY <1>3, <2>1 DEF TableInv
  <2>. QED
    BY <1>1, <1>2, <2>2
<1>. QED
  BY <1>3 DEF TableInv

\* map_table, for both pages and for the rest.
LEMMA MapTableKeeps ==
  ASSUME VmmInv, TableInv, mmio_region' <= KERNEL_PMM_START,
         (\E t \in Tables : map_table(t)) \/ map_table_rest
  PROVE  TableInv'
<1>. DEFINE R == [base : Nat, table : Tables]
            q == acpi_tables
<1>1. mmio_region \in Nat /\ VGA_TEXT_BUFFER_BASE < mmio_region /\ q \in Seq(R) /\ KERNEL_PMM_START \in Nat
      /\ VGA_TEXT_BUFFER_BASE \in Nat
  BY Layout DEF VmmInv, Types
<1>2. ASSUME NEW j \in 1 .. Len(q) PROVE LastPage(q[j]) \in Nat
  <2>1. q[j] \in R
    BY <1>1, ElementType, Zenon
  <2>. QED
    BY <2>1, TablePagesBound
<1>3. CASE \E t \in Tables : map_table(t)
  <2>1. PICK t \in Tables : map_table(t)
    BY <1>3
  <2>2. PICK m \in R : m = [base |-> mmio_region, table |-> t]
    BY <1>1, Zenon
  <2>3. /\ phase = "parse_rsdt" /\ phase' = "map_table" /\ mmio_region' = mmio_region + 2
        /\ acpi_tables' = Append(q, m)
    BY <2>1, <2>2 DEF map_table, DeviceStep, alloc_mmio, MmioEnd
  <2>4. m.base = mmio_region
    BY <2>2
  <2>. HIDE DEF R, q
  <2>5. /\ Len(q) \in Nat /\ Len(Append(q, m)) = Len(q) + 1 /\ Append(q, m)[Len(q) + 1] = m
        /\ \A j \in 1 .. Len(q) : Append(q, m)[j] = q[j]
    BY <1>1
  <2>6. mmio_region < KERNEL_PMM_START /\ mmio_region < mmio_region'
    BY <1>1, <2>3
  <2>7. ASSUME NEW j \in 1 .. Len(q)
        PROVE  /\ acpi_tables'[j] = q[j] /\ VGA_TEXT_BUFFER_BASE < q[j].base
               /\ LastPage(acpi_tables[j])' < mmio_region'
    <3>1. VGA_TEXT_BUFFER_BASE < q[j].base /\ LastPage(q[j]) < mmio_region
      BY <2>3, <2>6 DEF TableInv, q
    <3>2. acpi_tables'[j] = q[j]
      BY <2>3, <2>5
    <3>3. LastPage(acpi_tables[j])' = LastPage(q[j])
      BY <3>2 DEF LastPage, PageOf
    <3>. QED
      BY <1>1, <1>2, <2>3, <3>1, <3>2, <3>3
  <2>8. \A j \in 1 .. Len(acpi_tables') : j \in 1 .. Len(q) \/ (j = Len(q) + 1 /\ j = Len(acpi_tables'))
    BY <2>3, <2>5
  <2>9. acpi_tables'[Len(q) + 1] = m /\ Len(acpi_tables') = Len(q) + 1
    BY <2>3, <2>5
  <2>10. \A j \in 1 .. Len(acpi_tables') : VGA_TEXT_BUFFER_BASE < acpi_tables'[j].base
    BY <1>1, <2>4, <2>7, <2>8, <2>9, Zenon
  <2>11. \A j \in 1 .. Len(acpi_tables') : j < Len(acpi_tables') => LastPage(acpi_tables[j])' < mmio_region'
    BY <2>7, <2>8
  <2>12. acpi_tables'[Len(acpi_tables')].base + 2 = mmio_region'
    BY <2>3, <2>4, <2>9
  <2>. QED
    BY <2>3, <2>10, <2>11, <2>12 DEF TableInv
<1>4. CASE map_table_rest
  <2>1. phase = "map_table" /\ UNCHANGED acpi_tables
    BY <1>4 DEF map_table_rest, DeviceStep, mmioVars
  <2>2. q # <<>>
    BY <2>1 DEF VmmInv, Types
  <2>3. Len(q) \in 1 .. Len(q)
    BY <1>1, <2>2
  <2>4. PICK m \in R : m = q[Len(q)]
    BY <1>1, <2>3, ElementType, Zenon
  <2>5. m.base + 2 = mmio_region /\ Table = m.table
    BY <2>1, <2>4 DEF TableInv, Table
  <2>6. LastPage(m) \in Nat /\ m.table.length \in Nat \ {0} /\ m.base \in Nat
    BY <2>4, TablePagesBound
  <2>7. CASE phase' = "panic"
    <3>1. mmio_region' = mmio_region
      BY <1>4, <2>7 DEF map_table_rest, DeviceStep, mmioVars
    <3>. QED
      BY <1>1, <2>1, <2>7, <3>1, TableFrame
  <2>8. phase' = "panic" \/ phase' = "checksum"
    BY <1>4, Zenon DEF map_table_rest, DeviceStep
  <2>9. ASSUME phase' = "checksum" PROVE TableInv'
    <3>1. LastPage(m) <= mmio_region' /\ mmio_region <= mmio_region' /\ mmio_region' \in Nat
      <4>1. CASE Long
        <5>. DEFINE c == (Table.length - 2 * PAGE_SIZE + PAGE_SIZE - 1) \div PAGE_SIZE
        <5>1. c \in Nat
          BY <2>1, <4>1, RestIsPages, Zenon
        <5>2. mmio_region' = mmio_region + c
          BY <1>4, <2>9, <4>1, Zenon DEF map_table_rest, DeviceStep, alloc_mmio, MmioEnd
        <5>3. LastPage(m) <= m.base + 2 + c
          BY <2>4, <2>5, <4>1, TablePagesBound, Zenon DEF Long
        <5>. HIDE DEF c
        <5>. QED
          BY <1>1, <2>5, <2>6, <5>1, <5>2, <5>3
      <4>2. CASE ~Long
        <5>1. mmio_region' = mmio_region
          BY <1>4, <2>9, <4>2, Zenon DEF map_table_rest, DeviceStep, mmioVars
        <5>2. PAGE_SIZE \in Nat
          BY VmmAssumption
        <5>3. m.table.length <= 2 * PAGE_SIZE
          BY <2>5, <2>6, <4>2, <5>2 DEF Long
        <5>4. LastPage(m) <= m.base + 2
          BY <2>4, <5>3, TablePagesBound, Zenon
        <5>. QED
          BY <1>1, <2>5, <2>6, <5>1, <5>4
      <4>. QED
        BY <4>1, <4>2
    <3>2. LastPage(acpi_tables[Len(acpi_tables)])' = LastPage(m)
      BY <2>1, <2>4, Zenon DEF LastPage, PageOf
    <3>3. ASSUME NEW j \in 1 .. Len(q), j < Len(q), mmio_region' < KERNEL_PMM_START
          PROVE  LastPage(acpi_tables[j])' < mmio_region'
      <4>1. mmio_region < KERNEL_PMM_START
        BY <1>1, <3>1, <3>3
      <4>2. LastPage(acpi_tables[j]) < mmio_region
        BY <3>3, <4>1, Zenon DEF TableInv
      <4>3. LastPage(acpi_tables[j])' = LastPage(acpi_tables[j])
        BY <2>1 DEF LastPage, PageOf
      <4>. QED
        BY <1>1, <1>2, <3>1, <4>2, <4>3
    <3>. QED
      BY <2>1, <2>9, <3>1, <3>2, <3>3 DEF TableInv
  <2>. QED
    BY <2>7, <2>8, <2>9
<1>. QED
  BY <1>3, <1>4

\* validate_checksum gets to its end only if the last page is mapped, so it is not the
\* one alloc_mmio hands out next; apic_init takes that one.
LEMMA ChecksumKeeps ==
  ASSUME VmmInv, FreshInv, TableInv, mmio_region' <= KERNEL_PMM_START,
         validate_checksum \/ apic_init, phase = "checksum" => acpi_tables # <<>>
  PROVE  TableInv'
<1>. DEFINE R == [base : Nat, table : Tables]
            q == acpi_tables
<1>1. mmio_region \in Nat /\ VGA_TEXT_BUFFER_BASE < mmio_region /\ q \in Seq(R) /\ KERNEL_PMM_START \in Nat
  BY Layout DEF VmmInv, Types
<1>2. ASSUME NEW j \in 1 .. Len(q) PROVE q[j] \in R /\ LastPage(q[j]) \in Nat
  <2>1. q[j] \in R
    BY <1>1, ElementType, Zenon
  <2>. QED
    BY <2>1, TablePagesBound
<1>3. /\ UNCHANGED acpi_tables
      /\ \A j \in 1 .. Len(q) : LastPage(acpi_tables[j])' = LastPage(acpi_tables[j])
  BY DEF validate_checksum, apic_init, mmioVars, LastPage, PageOf
<1>4. CASE validate_checksum
  <2>. DEFINE m == q[Len(q)]
  <2>1. phase = "checksum" /\ UNCHANGED <<mmio_region>>
        /\ phase' = IF Readable(m) THEN "parse_rsdt" ELSE "panic"
    BY <1>4 DEF validate_checksum, DeviceStep, mmioVars
  <2>2. CASE ~Readable(m)
    <3>1. phase' = "panic"
      BY <2>1, <2>2
    <3>. HIDE DEF m, q
    <3>. QED
      BY <1>1, <1>3, <2>1, <3>1, TableFrame
  <2>3. CASE Readable(m)
    <3>1. Len(q) \in 1 .. Len(q)
      BY <1>1, <2>1
    <3>2. m \in R /\ LastPage(m) \in Nat /\ m.table.length \in Nat \ {0}
      BY <1>2, <3>1, TablePagesBound
    <3>3. kpt[LastPage(m)] # NONE
      <4>1. m.table.length - 1 \in 0 .. m.table.length - 1
        BY <3>2
      <4>. QED
        BY <2>3, <4>1 DEF Readable, LastPage
    <3>4. LastPage(m) <= mmio_region
      BY <2>1 DEF TableInv
    <3>5. ASSUME mmio_region < KERNEL_PMM_START PROVE LastPage(m) < mmio_region
      <4>1. mmio_region \in KernelPages
        BY <1>1, <3>5, Layout DEF KernelPages
      <4>2. kpt[mmio_region] = NONE
        BY <1>1, <3>5, <4>1 DEF FreshInv
      <4>. QED
        BY <1>1, <3>2, <3>3, <3>4, <4>2
    <3>6. ASSUME NEW j \in 1 .. Len(q), mmio_region < KERNEL_PMM_START
          PROVE  LastPage(q[j]) < mmio_region
      <4>1. CASE j < Len(q)
        BY <3>6, <4>1 DEF TableInv
      <4>2. CASE j = Len(q)
        BY <3>5, <3>6, <4>2
      <4>. QED
        BY <1>1, <4>1, <4>2
    <3>7. phase' = "parse_rsdt"
      BY <2>1, <2>3
    <3>. HIDE DEF m
    <3>. QED
      BY <1>3, <2>1, <3>6, <3>7 DEF TableInv
  <2>. QED
    BY <2>2, <2>3
<1>5. CASE apic_init
  <2>1. phase = "parse_rsdt" /\ phase' = "get_ioapic" /\ mmio_region' = mmio_region + 1
    BY <1>5 DEF apic_init, DeviceStep, alloc_mmio, MmioEnd
  <2>2. mmio_region < KERNEL_PMM_START
    BY <1>1, <2>1
  <2>3. ASSUME NEW j \in 1 .. Len(q) PROVE LastPage(q[j]) < mmio_region'
                                           /\ LastPage(q[j]) + 1 < mmio_region'
    <3>1. LastPage(q[j]) < mmio_region
      BY <2>1, <2>2 DEF TableInv
    <3>. QED
      BY <1>1, <1>2, <2>1, <3>1
  <2>. QED
    BY <1>3, <2>1, <2>3 DEF TableInv
<1>. QED
  BY <1>4, <1>5

\* The table validate_checksum is at.
ChecksumInv == phase = "checksum" => acpi_tables # <<>>

\* What is known of the kernel's page tables while the windows end below the bitmap.
BoundInv == /\ ChecksumInv
            /\ mmio_region <= KERNEL_PMM_START => FreshInv /\ TableInv

\* Every step keeps what is known of the kernel's page tables and of the ACPI tables.
LEMMA StepBoundInv == VmmInv /\ BoundInv /\ [Next]_vars => BoundInv'
<1>. SUFFICES ASSUME VmmInv, BoundInv, [Next]_vars PROVE BoundInv'
  OBVIOUS
<1>0. VmmInv'
  BY StepVmmInv
<1>1. ChecksumInv'
  <2>1. CASE map_table_rest
    <3>1. phase = "map_table" /\ UNCHANGED acpi_tables
      BY <2>1 DEF map_table_rest, DeviceStep, mmioVars
    <3>. QED
      BY <3>1 DEF VmmInv, Types, ChecksumInv
  <2>2. CASE UNCHANGED <<phase, acpi_tables>>
    BY <2>2 DEF BoundInv, ChecksumInv
  <2>3. CASE ~map_table_rest /\ ~UNCHANGED <<phase, acpi_tables>>
    <3>1. phase' # "checksum"
      BY <2>3, Zenon DEF Next, vmm_lengthen, remap_gdt, alloc_kernel_stack, PANIC, get_rsdp, acpi_init, map_table,
         validate_checksum, apic_init, get_ioapic, tar_init, sched_init, create_kernel_thread, create_vmm,
         load_elf, alloc_user_stack, switch_vm_space, reap_thread, reap_process, Halted, DeviceStep, vars,
         mmioVars
    <3>. QED
      BY <3>1, Zenon DEF ChecksumInv
  <2>. QED
    BY <2>1, <2>2, <2>3
<1>2. ASSUME mmio_region' <= KERNEL_PMM_START PROVE FreshInv' /\ TableInv'
  <2>1. mmio_region \in Nat /\ mmio_region' \in Nat /\ KERNEL_PMM_START \in Nat
    BY <1>0, Layout DEF VmmInv, Types
  <2>2. mmio_region <= mmio_region' /\ mmio_region <= KERNEL_PMM_START
    BY <1>2, WindowsGrow
  <2>3. FreshInv /\ TableInv
    BY <2>2 DEF BoundInv
  <2>4. FreshInv'
    BY <1>2, <2>3, FreshKeeps
  <2>. SUFFICES TableInv'
    BY <2>4
  <2>5. ASSUME acpi_tables' = <<>>, phase' \notin {"map_table", "checksum"} PROVE TableInv'
    <3>1. Len(acpi_tables') = 0
      BY <2>5
    <3>. QED
      BY <2>5, <3>1 DEF TableInv
  <2>6. CASE (\E t \in Tables : map_table(t)) \/ map_table_rest
    BY <1>2, <2>3, <2>6, MapTableKeeps
  <2>7. CASE validate_checksum \/ apic_init
    BY <1>2, <2>3, <2>7, ChecksumKeeps, Zenon DEF BoundInv, ChecksumInv
  <2>8. CASE acpi_init
    <3>1. phase = "acpi_init" /\ UNCHANGED acpi_tables /\ phase' \in {"panic", "parse_rsdt"}
      BY <2>8 DEF acpi_init, DeviceStep, mmioVars
    <3>. QED
      BY <2>3, <2>5, <3>1 DEF TableInv
  <2>9. CASE get_ioapic
    <3>1. acpi_tables' = <<>> /\ phase' \in {"panic", "tar_init"}
      BY <2>9 DEF get_ioapic, DeviceStep
    <3>. QED
      BY <2>5, <3>1
  <2>10. CASE tar_init
    <3>1. phase' \in {"panic", "sched_init"} /\ UNCHANGED acpi_tables
      BY <2>10 DEF tar_init, DeviceStep, mmioVars
    <3>. QED
      BY <2>1, <2>2, <2>3, <3>1, TableFrame, Zenon
  <2>11. CASE vmm_lengthen \/ remap_gdt
    <3>1. /\ phase \in {"pmm_init", "ist1", "rsp1"} /\ UNCHANGED acpi_tables
          /\ phase' \in {"ist1", "rsp1", "acpi_init", "panic"}
      BY <2>11 DEF vmm_lengthen, remap_gdt, alloc_kernel_stack, PANIC, mmioVars
    <3>. QED
      BY <2>1, <2>2, <2>3, <3>1, TableFrame
  <2>12. CASE sched_init \/ create_kernel_thread \/ (\E s \in Procs : create_vmm(s))
              \/ (\E r \in Segments : load_elf(r)) \/ alloc_user_stack
              \/ (\E s \in Spaces : switch_vm_space(s)) \/ (\E r \in stacks : reap_thread(r)) \/ reap_process
    <3>1. phase' \in {"run", "panic"} /\ UNCHANGED acpi_tables
      BY <2>12, Zenon DEF sched_init, create_kernel_thread, alloc_kernel_stack, PANIC, create_vmm, load_elf,
         alloc_user_stack, switch_vm_space, reap_thread, reap_process, mmioVars
    <3>. QED
      BY <2>1, <2>2, <2>3, <3>1, TableFrame
  <2>13. CASE get_rsdp \/ Halted \/ UNCHANGED vars
    <3>1. UNCHANGED <<phase, mmio_region, acpi_tables>>
      BY <2>13 DEF get_rsdp, Halted, vars, mmioVars
    <3>. QED
      BY <2>3, <3>1, Zenon DEF TableInv, LastPage, PageOf
  <2>. QED
    BY <2>6, <2>7, <2>8, <2>9, <2>10, <2>11, <2>12, <2>13 DEF Next
<1>. QED
  BY <1>1, <1>2 DEF BoundInv

\* It holds when vmm_init is done.
LEMMA InitBoundInv == vmm_init => BoundInv
<1>. SUFFICES ASSUME vmm_init PROVE BoundInv
  OBVIOUS
<1>1. phase = "pmm_init" /\ acpi_tables = <<>> /\ Len(acpi_tables) = 0
  BY DEF vmm_init
<1>2. TableInv
  BY <1>1 DEF TableInv
<1>. QED
  BY <1>1, <1>2, InitFresh DEF BoundInv, ChecksumInv

\* A table that is not long ends in its window.
EndsInWindow(m) == m.table.length <= 2 * PAGE_SIZE => LastPage(m) < m.base + 2

\* There was room below the bitmap when the last checksum was looked at.
Room == mmio_region < KERNEL_PMM_START \/ (phase = "get_ioapic" /\ mmio_region <= KERNEL_PMM_START)

\* The window of every table, and where the next one goes: a table that is not long has
\* nothing mapped behind its window when its checksum is looked at, which is a panic
\* unless it ends there.
ShortInv ==
  /\ \A j \in 1 .. Len(acpi_tables) : Region(acpi_tables[j].base, 2) \in windows
  /\ phase = "map_table" => acpi_tables[Len(acpi_tables)].base + 2 = mmio_region
  /\ phase = "checksum" /\ ~Long => acpi_tables[Len(acpi_tables)].base + 2 = mmio_region
  /\ \A j \in 1 .. Len(acpi_tables) :
       (j < Len(acpi_tables) \/ phase \in {"parse_rsdt", "get_ioapic"}) /\ Room =>
         EndsInWindow(acpi_tables[j])

\* Windows are never given back.
LEMMA WindowsStay ==
  ASSUME [Next]_vars
  PROVE  windows \subseteq windows'
<1>1. ASSUME NEW n, alloc_mmio(n) PROVE windows \subseteq windows'
  BY <1>1, Zenon DEF alloc_mmio
<1>2. ASSUME UNCHANGED windows PROVE windows \subseteq windows'
  BY <1>2, Zenon
<1>3. CASE acpi_init \/ (\E t \in Tables : map_table(t)) \/ map_table_rest \/ validate_checksum
           \/ apic_init \/ get_ioapic \/ tar_init
  BY <1>1, <1>2, <1>3, Zenon DEF acpi_init, map_table, map_table_rest, validate_checksum, apic_init,
     get_ioapic, tar_init, mmioVars
<1>4. CASE vmm_lengthen \/ remap_gdt \/ get_rsdp \/ sched_init \/ create_kernel_thread
           \/ (\E s \in Procs : create_vmm(s)) \/ (\E r \in Segments : load_elf(r))
           \/ alloc_user_stack \/ (\E s \in Spaces : switch_vm_space(s))
           \/ (\E r \in stacks : reap_thread(r)) \/ reap_process \/ Halted \/ UNCHANGED vars
  BY <1>2, <1>4, Zenon DEF vmm_lengthen, remap_gdt, get_rsdp, sched_init, create_kernel_thread, create_vmm,
     load_elf, alloc_user_stack, switch_vm_space, reap_thread, reap_process, Halted, vars, mmioVars
<1>. QED
  BY <1>3, <1>4, Zenon DEF Next

\* A step that leaves the tables alone, and is not one of those that look at them.
LEMMA ShortFrame ==
  ASSUME ShortInv, windows \subseteq windows', UNCHANGED acpi_tables,
         phase' \notin {"parse_rsdt", "map_table", "checksum", "get_ioapic"}, Room' => Room
  PROVE  ShortInv'
<1>1. \A j \in 1 .. Len(acpi_tables) : EndsInWindow(acpi_tables[j])' <=> EndsInWindow(acpi_tables[j])
  BY DEF EndsInWindow, LastPage, PageOf
<1>. QED
  BY <1>1, Zenon DEF ShortInv

\* The first table is still to come.
LEMMA InitShortInv == vmm_init => ShortInv
<1>. SUFFICES ASSUME vmm_init PROVE ShortInv
  OBVIOUS
<1>1. phase = "pmm_init" /\ Len(acpi_tables) = 0
  BY DEF vmm_init
<1>. QED
  BY <1>1 DEF ShortInv

\* Every step keeps what is known of the tables' windows.
LEMMA StepShortInv == VmmInv /\ BoundInv /\ ShortInv /\ [Next]_vars => ShortInv'
<1>. SUFFICES ASSUME VmmInv, BoundInv, ShortInv, [Next]_vars PROVE ShortInv'
  OBVIOUS
<1>. DEFINE q == acpi_tables
<1>0. /\ mmio_region \in Nat /\ mmio_region' \in Nat /\ KERNEL_PMM_START \in Nat
      /\ q \in Seq([base : Nat, table : Tables]) /\ Len(q) \in Nat
  <2>1. VmmInv'
    BY StepVmmInv
  <2>. QED
    BY <2>1, Layout DEF VmmInv, Types
<1>1. windows \subseteq windows'
  BY WindowsStay
<1>2. ASSUME Room' PROVE mmio_region <= mmio_region' /\ mmio_region' <= KERNEL_PMM_START /\ TableInv
  <2>1. mmio_region' <= KERNEL_PMM_START
    BY <1>0, <1>2 DEF Room
  <2>2. mmio_region <= mmio_region' /\ mmio_region <= KERNEL_PMM_START
    BY <2>1, WindowsGrow, Zenon
  <2>. QED
    BY <2>1, <2>2, Zenon DEF BoundInv
<1>3. ASSUME phase' # "get_ioapic" PROVE Room' => Room
  BY <1>0, <1>2, <1>3 DEF Room
<1>4. ASSUME UNCHANGED acpi_tables
      PROVE  /\ \A j \in 1 .. Len(q) : EndsInWindow(acpi_tables[j])' <=> EndsInWindow(acpi_tables[j])
             /\ \A j \in 1 .. Len(q) : Region(acpi_tables[j].base, 2) \in windows'
             /\ Long' <=> Long
  BY <1>1, <1>4 DEF ShortInv, EndsInWindow, LastPage, PageOf, Long, Table
<1>5. ASSUME UNCHANGED acpi_tables, phase' \notin {"parse_rsdt", "map_table", "checksum", "get_ioapic"}
      PROVE  ShortInv'
  BY <1>1, <1>3, <1>5, ShortFrame
<1>6. ASSUME Len(acpi_tables') = 0, phase' \notin {"map_table", "checksum"} PROVE ShortInv'
  BY <1>6 DEF ShortInv
<1>7. ASSUME NEW t \in Tables, map_table(t) PROVE ShortInv'
  <2>1. PICK m \in [base : Nat, table : Tables] : m = [base |-> mmio_region, table |-> t]
    BY <1>0, Zenon
  <2>2. /\ phase = "parse_rsdt" /\ phase' = "map_table" /\ mmio_region' = mmio_region + 2
        /\ acpi_tables' = Append(q, m) /\ Region(mmio_region, 2) \in windows'
    BY <1>7, <2>1 DEF map_table, DeviceStep, alloc_mmio, MmioEnd
  <2>3. m.base = mmio_region
    BY <2>1
  <2>4. /\ Len(acpi_tables') = Len(q) + 1 /\ acpi_tables'[Len(q) + 1] = m
        /\ \A j \in 1 .. Len(q) : acpi_tables'[j] = q[j]
    BY <1>0, <2>2
  <2>5. \A j \in 1 .. Len(acpi_tables') : j \in 1 .. Len(q) \/ (j = Len(q) + 1 /\ j = Len(acpi_tables'))
    BY <1>0, <2>4
  <2>6. \A j \in 1 .. Len(acpi_tables') : Region(acpi_tables'[j].base, 2) \in windows'
    <3>1. \A j \in 1 .. Len(q) : Region(q[j].base, 2) \in windows'
      BY <1>1, Zenon DEF ShortInv
    <3>. QED
      BY <2>2, <2>3, <2>4, <2>5, <3>1, Zenon
  <2>7. ASSUME NEW j \in 1 .. Len(acpi_tables'), j < Len(acpi_tables'), Room'
        PROVE  EndsInWindow(acpi_tables[j])'
    <3>1. j \in 1 .. Len(q)
      BY <1>0, <2>4, <2>7
    <3>2. EndsInWindow(q[j])
      BY <1>3, <2>2, <2>7, <3>1 DEF ShortInv
    <3>. QED
      BY <2>4, <3>1, <3>2 DEF EndsInWindow, LastPage, PageOf
  <2>8. acpi_tables'[Len(acpi_tables')].base + 2 = mmio_region'
    BY <2>2, <2>3, <2>4
  <2>. QED
    BY <2>2, <2>6, <2>7, <2>8 DEF ShortInv
<1>8. CASE map_table_rest
  <2>1. phase = "map_table" /\ UNCHANGED acpi_tables /\ phase' \in {"panic", "checksum"}
    BY <1>8, Zenon DEF map_table_rest, DeviceStep, mmioVars
  <2>2. CASE phase' = "checksum"
    <3>1. ~Long => UNCHANGED mmio_region
      BY <1>8, <2>2, Zenon DEF map_table_rest, DeviceStep, mmioVars
    <3>2. ~Long' => acpi_tables'[Len(acpi_tables')].base + 2 = mmio_region'
      BY <1>4, <2>1, <3>1 DEF ShortInv
    <3>3. Room' => Room
      BY <1>3, <2>2
    <3>4. \A j \in 1 .. Len(q) : j < Len(q) /\ Room' => EndsInWindow(acpi_tables[j])'
      BY <1>4, <2>1, <3>3, Zenon DEF ShortInv
    <3>. QED
      BY <1>4, <2>1, <2>2, <3>2, <3>4 DEF ShortInv
  <2>. QED
    BY <1>5, <2>1, <2>2
<1>9. CASE validate_checksum
  <2>1. phase = "checksum" /\ UNCHANGED <<acpi_tables, mmio_region>> /\ phase' \in {"panic", "parse_rsdt"}
    BY <1>9, Zenon DEF validate_checksum, DeviceStep, mmioVars
  <2>2. CASE phase' = "parse_rsdt"
    <3>1. ASSUME NEW j \in 1 .. Len(q), Room' PROVE EndsInWindow(acpi_tables[j])'
      <4>1. CASE j < Len(q)
        BY <1>3, <1>4, <2>1, <2>2, <3>1, <4>1 DEF ShortInv
      <4>2. CASE j = Len(q)
        <5>1. mmio_region' < KERNEL_PMM_START
          BY <2>2, <3>1 DEF Room
        <5>2. TableInv'
          BY <1>2, <3>1, StepBoundInv DEF BoundInv
        <5>3. LastPage(acpi_tables[j])' < mmio_region'
          BY <2>1, <2>2, <5>1, <5>2 DEF TableInv
        <5>4. LastPage(acpi_tables[j]) < mmio_region
          BY <2>1, <5>3 DEF LastPage, PageOf
        <5>5. ~Long => q[j].base + 2 = mmio_region
          BY <2>1, <4>2 DEF ShortInv
        <5>6. q[j].table.length <= 2 * PAGE_SIZE => ~Long
          <6>1. q[j].table.length \in Nat /\ PAGE_SIZE \in Nat
            <7>1. q[j] \in [base : Nat, table : Tables]
              BY <1>0, ElementType, Zenon
            <7>2. q[j].table.length \in Nat \ {0}
              BY <7>1, TablePagesBound, Zenon
            <7>. QED
              BY <7>2, VmmAssumption
          <6>. QED
            BY <4>2, <6>1 DEF Long, Table
        <5>7. EndsInWindow(acpi_tables[j])
          BY <5>4, <5>5, <5>6, Zenon DEF EndsInWindow
        <5>. QED
          BY <1>4, <2>1, <5>7
      <4>. QED
        BY <1>0, <4>1, <4>2
    <3>. QED
      BY <1>4, <2>1, <2>2, <3>1 DEF ShortInv
  <2>. QED
    BY <1>5, <2>1, <2>2
<1>10. CASE apic_init
  <2>1. /\ phase = "parse_rsdt" /\ phase' = "get_ioapic" /\ UNCHANGED acpi_tables
        /\ mmio_region' = mmio_region + 1
    BY <1>10 DEF apic_init, DeviceStep, alloc_mmio, MmioEnd
  <2>2. Room' => Room
    BY <1>0, <1>2, <2>1 DEF Room
  <2>3. \A j \in 1 .. Len(q) : Room' => EndsInWindow(acpi_tables[j])'
    BY <1>4, <2>1, <2>2, Zenon DEF ShortInv
  <2>. QED
    BY <1>4, <2>1, <2>3 DEF ShortInv
<1>11. CASE acpi_init
  <2>1. phase = "acpi_init" /\ UNCHANGED acpi_tables /\ phase' \in {"panic", "parse_rsdt"}
    BY <1>11 DEF acpi_init, DeviceStep, mmioVars
  <2>2. Room' => Len(acpi_tables') = 0
    BY <1>2, <2>1 DEF TableInv
  <2>. QED
    BY <1>4, <2>1, <2>2 DEF ShortInv
<1>12. CASE get_ioapic
  <2>1. Len(acpi_tables') = 0 /\ phase' \in {"panic", "tar_init"}
    BY <1>12 DEF get_ioapic, DeviceStep
  <2>. QED
    BY <1>6, <2>1
<1>13. CASE tar_init \/ vmm_lengthen \/ remap_gdt \/ get_rsdp
  <2>1. /\ phase' \in {"panic", "sched_init", "ist1", "rsp1", "acpi_init"} /\ UNCHANGED acpi_tables
    BY <1>13, Zenon DEF tar_init, DeviceStep, vmm_lengthen, remap_gdt, alloc_kernel_stack, PANIC, get_rsdp, mmioVars
  <2>. QED
    BY <1>5, <2>1
<1>14. CASE sched_init \/ create_kernel_thread \/ (\E s \in Procs : create_vmm(s))
            \/ (\E r \in Segments : load_elf(r)) \/ alloc_user_stack
            \/ (\E s \in Spaces : switch_vm_space(s)) \/ (\E r \in stacks : reap_thread(r))
            \/ reap_process \/ Halted
  <2>1. phase' \in {"run", "panic"} /\ UNCHANGED acpi_tables
    BY <1>14, Zenon DEF sched_init, create_kernel_thread, alloc_kernel_stack, PANIC, create_vmm, load_elf,
       alloc_user_stack, switch_vm_space, reap_thread, reap_process, Halted, vars, mmioVars
  <2>. QED
    BY <1>5, <2>1
<1>15. CASE UNCHANGED vars
  <2>1. UNCHANGED <<phase, mmio_region, windows, acpi_tables>>
    BY <1>15 DEF vars, mmioVars
  <2>. QED
    BY <1>4, <2>1 DEF ShortInv, Room
<1>. QED
  BY <1>7, <1>8, <1>9, <1>10, <1>11, <1>12, <1>13, <1>14, <1>15, Zenon DEF Next

\* The tables are mapped when get_ioapic reads them.
LEMMA TablesReadable == VmmInv /\ BoundInv /\ ShortInv => TablesAreReadable
<1>. SUFFICES ASSUME VmmInv, FreshInv, TableInv, ShortInv, mmio_region <= KERNEL_PMM_START,
                     phase = "get_ioapic", NEW m \in Objects(acpi_tables)
              PROVE  /\ \A n \in 0 .. m.table.length - 1 :
                          m.table.length <= 2 * PAGE_SIZE \/ PageOf(m, n) < m.base + 2 =>
                            kpt[PageOf(m, n)] = m.base
                     /\ Readable(m) /\ kpt[PageOf(m, m.table.length)] # NONE
  BY DEF TablesAreReadable, BoundInv
<1>1. /\ mmio_region \in Nat /\ VGA_TEXT_BUFFER_BASE \in Nat
      /\ acpi_tables \in Seq([base : Nat, table : Tables])
  BY Layout DEF VmmInv, Types
<1>2. PICK j \in 1 .. Len(acpi_tables) : acpi_tables[j] = m
  BY <1>1, ObjectsShape, Zenon
<1>3. m \in [base : Nat, table : Tables]
  BY <1>1, <1>2, ElementType, Zenon
<1>4. VGA_TEXT_BUFFER_BASE < m.base /\ LastPage(m) + 1 < mmio_region /\ m.base \in Nat
  BY <1>2, <1>3 DEF TableInv
<1>5. ASSUME NEW p \in m.base .. LastPage(m) + 1 PROVE kpt[p] # NONE
  <2>1. LastPage(m) \in Nat
    BY <1>3, TablePagesBound
  <2>2. p \in Int /\ VGA_TEXT_BUFFER_BASE < p /\ p < mmio_region
    BY <1>1, <1>4, <2>1
  <2>3. p \in KernelPages
    BY <1>1, <2>2, Layout DEF KernelPages
  <2>. QED
    BY <2>2, <2>3 DEF FreshInv
<1>6. PageOf(m, m.table.length) \in m.base .. LastPage(m) + 1
  BY <1>3, TablePagesBound
<1>7. \A n \in 0 .. m.table.length - 1 : PageOf(m, n) \in m.base .. LastPage(m) + 1
  <2>1. LastPage(m) \in Nat /\ \A n \in 0 .. m.table.length - 1 : PageOf(m, n) \in m.base .. LastPage(m)
    BY <1>3, TablePagesBound
  <2>. QED
    BY <1>4, <2>1
<1>8. Region(m.base, 2) \in windows /\ EndsInWindow(m)
  <2>1. Room
    BY DEF Room
  <2>. QED
    BY <1>2, <2>1 DEF ShortInv
<1>9. \A p \in m.base .. m.base + 1 : kpt[p] = m.base
  <2>1. \A p \in Pages(Region(m.base, 2)) : kpt[p] = Region(m.base, 2).base
    BY <1>8, Zenon DEF VmmInv, ListInv, WindowInv
  <2>2. Region(m.base, 2).base = m.base /\ Pages(Region(m.base, 2)) = m.base .. m.base + 1
    BY <1>4 DEF Region, Pages
  <2>. QED
    BY <2>1, <2>2, Zenon
<1>10. ASSUME NEW n \in 0 .. m.table.length - 1,
              m.table.length <= 2 * PAGE_SIZE \/ PageOf(m, n) < m.base + 2
       PROVE  kpt[PageOf(m, n)] = m.base
  <2>1. LastPage(m) \in Nat /\ PageOf(m, n) \in m.base .. LastPage(m)
    BY <1>3, TablePagesBound, Zenon
  <2>2. m.table.length <= 2 * PAGE_SIZE => LastPage(m) < m.base + 2
    BY <1>8, Zenon DEF EndsInWindow
  <2>3. PageOf(m, n) \in m.base .. m.base + 1
    <3>1. CASE PageOf(m, n) < m.base + 2
      BY <1>4, <2>1, <3>1
    <3>2. CASE LastPage(m) < m.base + 2
      BY <1>4, <2>1, <3>2
    <3>. QED
      BY <1>10, <2>2, <3>1, <3>2, Zenon
  <2>. QED
    BY <1>9, <2>3, Zenon
<1>. QED
  BY <1>5, <1>6, <1>7, <1>10, Zenon DEF Readable

-----------------------------------------------------------------------------
(* The regions of the processes *)

\* A space that was reaped is in no use again, and the space exec_elf fills is the
\* current one.
ProcInv ==
  /\ reaped \subseteq Procs \cap made /\ alive \cap reaped = {} /\ current_vmm \notin reaped
  /\ alive \subseteq made /\ (loading # NONE => loading = current_vmm /\ loading \in made)
  /\ phase = "run" => current_process \in alive
  /\ loading = NONE /\ current_process \in Procs => current_vmm = current_process

\* Each region of a space is mapped in its table and, until it is reaped, nothing else is.
OwnUser ==
  /\ user \in [Spaces -> Seq(Regions)]
  /\ pt \in [Spaces -> [UserPages -> Nat \cup {NONE, IDENTITY}]]
  /\ \A s \in Spaces : \A r \in Objects(user[s]) :
       /\ r.base < KERNEL_TEXT_START /\ r.base + r.length <= KERNEL_TEXT_START
       /\ \A p \in Pages(r) : pt[s][p] = r.base
  /\ \A s \in Spaces \ reaped : \A p \in UserPages :
       pt[s][p] \notin {NONE, IDENTITY} => \E r \in Objects(user[s]) : p \in Pages(r)

\* The objects of the kernel begin with its text, and no stack is below the heap page.
OwnKernel ==
  /\ kernel \in Seq(Regions) /\ kernel # <<>> /\ kernel[1].base = KERNEL_TEXT_START
  /\ PmmObject \in Objects(kernel)
  /\ kernel_stack_ptr \in Int /\ (phase # "panic" => KERNEL_HEAP_START <= kernel_stack_ptr)
  /\ \A r \in stacks : r \in Objects(kernel) /\ KERNEL_HEAP_START <= r.base /\ r.length = StackPages

OwnInv == ~overlapped => OwnUser /\ OwnKernel

\* No page of a process that is mapped for a region gets another entry.
PagesKept ==
  \A s \in Spaces : \A p \in UserPages : pt[s][p] \notin {NONE, IDENTITY} => pt'[s][p] = pt[s][p]

\* Every step keeps ProcInv.
LEMMA ProcKeeps == VmmInv /\ ProcInv /\ [Next]_vars => ProcInv'
<1>. SUFFICES ASSUME Types, ProcInv, [Next]_vars PROVE ProcInv'
  BY DEF VmmInv
<1>1. CASE UNCHANGED <<procVars, current_vmm>> /\ (phase' = "run" => phase = "run")
  BY <1>1 DEF ProcInv, procVars
<1>2. CASE vmm_lengthen \/ remap_gdt \/ get_rsdp \/ acpi_init \/ (\E t \in Tables : map_table(t))
           \/ map_table_rest \/ validate_checksum \/ apic_init \/ get_ioapic \/ tar_init
  <2>1. UNCHANGED <<procVars, current_vmm>> /\ phase' # "run"
    BY <1>2, Zenon DEF vmm_lengthen, remap_gdt, alloc_kernel_stack, PANIC, get_rsdp, acpi_init, map_table,
       map_table_rest, validate_checksum, apic_init, get_ioapic, tar_init, DeviceStep
  <2>. QED
    BY <1>1, <2>1, Zenon
<1>3. CASE sched_init
  <2>1. /\ made' = made \cup {Idle} /\ alive' = {Idle} /\ current_process' = Idle
        /\ UNCHANGED <<loading, reaped, current_vmm>> /\ phase' \in {"run", "panic"}
    BY <1>3 DEF sched_init, alloc_kernel_stack, PANIC
  <2>. QED
    BY <2>1, VmmNames DEF ProcInv
<1>4. CASE create_kernel_thread \/ (\E r \in Segments : load_elf(r)) \/ (\E r \in stacks : reap_thread(r))
  <2>1. UNCHANGED <<procVars, current_vmm>> /\ phase = "run"
    BY <1>4 DEF create_kernel_thread, alloc_kernel_stack, load_elf, reap_thread
  <2>. QED
    BY <1>1, <2>1
<1>5. CASE \E s \in Procs : create_vmm(s)
  <2>1. PICK s \in Procs : create_vmm(s)
    BY <1>5
  <2>2. /\ phase = "run" /\ loading = NONE /\ s \notin made /\ made' = made \cup {s} /\ loading' = s
        /\ current_vmm' = s /\ UNCHANGED <<phase, current_process, alive, reaped>>
    BY <2>1 DEF create_vmm
  <2>. QED
    BY <2>2, VmmNames DEF ProcInv
<1>6. CASE alloc_user_stack
  <2>1. /\ phase = "run" /\ loading # NONE /\ UNCHANGED <<current_process, made, reaped>>
        /\ \/ UNCHANGED <<alive, loading, current_vmm>>
           \/ current_vmm' = current_process /\ alive' = alive \cup {loading} /\ loading' = NONE
        /\ phase' \in {"run", "panic"}
    BY <1>6 DEF alloc_user_stack, PANIC
  <2>2. CASE UNCHANGED <<alive, loading, current_vmm>>
    BY <2>1, <2>2 DEF ProcInv
  <2>3. CASE current_vmm' = current_process /\ alive' = alive \cup {loading} /\ loading' = NONE
    BY <2>1, <2>3 DEF ProcInv
  <2>. QED
    BY <2>1, <2>2, <2>3
<1>7. CASE \E s \in Spaces : switch_vm_space(s)
  <2>1. PICK s \in Spaces : switch_vm_space(s)
    BY <1>7
  <2>. QED
    BY <2>1 DEF switch_vm_space, ProcInv
<1>8. CASE reap_process
  <2>1. /\ phase = "run" /\ loading = NONE /\ current_process \in Procs
        /\ alive' = alive \ {current_process} /\ reaped' = reaped \cup {current_process}
        /\ \E q \in alive' : current_process' = q /\ current_vmm' = q
        /\ UNCHANGED <<phase, loading, made>>
    BY <1>8 DEF reap_process
  <2>2. current_process \in made
    BY <2>1 DEF ProcInv
  <2>3. reaped' \subseteq Procs \cap made' /\ alive' \cap reaped' = {} /\ alive' \subseteq made'
    BY <2>1, <2>2 DEF ProcInv
  <2>4. current_vmm' \notin reaped' /\ current_process' \in alive' /\ current_vmm' = current_process'
    BY <2>1, <2>3
  <2>. QED
    BY <2>1, <2>3, <2>4, Zenon DEF ProcInv
<1>9. CASE Halted \/ UNCHANGED vars
  BY <1>1, <1>9 DEF Halted, vars
<1>. QED
  BY <1>2, <1>3, <1>4, <1>5, <1>6, <1>7, <1>8, <1>9 DEF Next

\* vmm_alloc of a region of a process.
LEMMA UserOwn ==
  ASSUME OwnUser, OwnKernel, NEW s \in Spaces \ reaped, NEW r \in Regions, r.base < KERNEL_TEXT_START,
         r.base + r.length <= KERNEL_TEXT_START, NEW i \in 1 .. Len(user[s]) + 1, vmm_alloc(s, i, r),
         ~overlapped', reaped' = reaped
  PROVE  OwnUser' /\ PagesKept /\ UNCHANGED kernel
<1>1. /\ user[s] \in Seq(Regions) /\ kernel \in Seq(Regions) /\ kernel # <<>> /\ s \in Spaces
      /\ r.base \in Nat /\ r.length \in Nat
  BY DEF OwnUser, OwnKernel, Regions
<1>2. ASSUME NEW q \in Objects(user[s]) PROVE ~Overlap(q, r)
  <2>1. PICK j \in 1 .. Len(user[s]) : user[s][j] = q
    BY <1>1, ObjectsShape, Zenon
  <2>2. /\ List(s) \in Seq(Regions) /\ List(s)[1 + j] = q
        /\ Len(user[s]) \in Nat /\ Len(kernel) \in Nat /\ Len(List(s)) = 1 + Len(user[s]) + Len(kernel)
    BY <1>1, <2>1, ListParts, Zenon
  <2>3. 1 + j \in 1 .. Len(List(s))
    BY <2>2
  <2>4. q \in Objects(List(s))
    BY <2>2, <2>3, ObjectsShape, Zenon
  <2>. QED
    BY <2>4, Zenon DEF vmm_alloc
<1>3. user' = [user EXCEPT ![s] = Linked(user[s], i, r)] /\ UNCHANGED kernel
  <2>1. i <= Len(user[s]) + 1
    BY <1>1
  <2>. QED
    BY <2>1 DEF vmm_alloc, Insert
<1>4. Linked(user[s], i, r) \in Seq(Regions) /\ Objects(Linked(user[s], i, r)) = Objects(user[s]) \cup {r}
  <2>1. PICK u \in Seq(Regions) : u = user[s]
    BY <1>1
  <2>2. i \in 1 .. Len(u) + 1
    BY <2>1
  <2>3. Linked(u, i, r) \in Seq(Regions)
    BY <2>2, LinkedShape, Zenon DEF IsLinked
  <2>4. Objects(Linked(u, i, r)) = Objects(u) \cup {r}
    BY <2>2, LinkedObjects, Zenon
  <2>. QED
    BY <2>1, <2>3, <2>4
<1>5. /\ user' \in [Spaces -> Seq(Regions)]
      /\ Objects(user'[s]) = Objects(user[s]) \cup {r}
      /\ \A t \in Spaces : t # s => user'[t] = user[t]
  BY <1>1, <1>3, <1>4, Zenon DEF OwnUser
<1>6. pt' = [pt EXCEPT ![s] = [p \in UserPages |-> IF p \in Pages(r) THEN r.base ELSE pt[s][p]]]
  BY DEF vmm_alloc, mmap
<1>7. /\ \A t \in Spaces : t # s => pt'[t] = pt[t]
      /\ \A p \in UserPages : pt'[s][p] = IF p \in Pages(r) THEN r.base ELSE pt[s][p]
  BY <1>1, <1>6 DEF OwnUser
<1>8. pt' \in [Spaces -> [UserPages -> Nat \cup {NONE, IDENTITY}]]
  BY <1>1, <1>6 DEF OwnUser
<1>9. ASSUME NEW q \in Regions, q.base + q.length <= KERNEL_TEXT_START, NEW p \in Pages(q)
      PROVE  p \in UserPages
  <2>1. q.base \in Nat /\ q.length \in Nat
    BY DEF Regions
  <2>. QED
    BY <1>9, <2>1, Layout DEF Pages, UserPages
<1>10. ASSUME NEW t \in Spaces, NEW q \in Objects(user'[t])
       PROVE  /\ q.base < KERNEL_TEXT_START /\ q.base + q.length <= KERNEL_TEXT_START
              /\ \A p \in Pages(q) : pt'[t][p] = q.base
  <2>1. CASE t # s
    <3>1. q \in Objects(user[t]) /\ pt'[t] = pt[t]
      BY <1>5, <1>7, <1>10, <2>1
    <3>. QED
      BY <3>1 DEF OwnUser
  <2>2. CASE t = s /\ q = r
    <3>1. \A p \in Pages(r) : p \in UserPages
      BY <1>9
    <3>. QED
      BY <1>7, <2>2, <3>1
  <2>3. CASE t = s /\ q \in Objects(user[s])
    <3>0. q \in Regions
      <4>1. PICK j \in 1 .. Len(user[s]) : user[s][j] = q
        BY <1>1, <2>3, ObjectsShape, Zenon
      <4>. QED
        BY <1>1, <4>1
    <3>1. /\ q.base < KERNEL_TEXT_START /\ q.base + q.length <= KERNEL_TEXT_START
          /\ \A p \in Pages(q) : pt[s][p] = q.base
      BY <2>3 DEF OwnUser
    <3>2. \A p \in Pages(q) : p \in UserPages /\ p \notin Pages(r)
      BY <1>2, <1>9, <2>3, <3>0, <3>1 DEF Overlap
    <3>. QED
      BY <1>7, <2>3, <3>1, <3>2, Zenon
  <2>. QED
    BY <1>5, <1>10, <2>1, <2>2, <2>3
<1>11. ASSUME NEW t \in Spaces \ reaped, NEW p \in UserPages, pt'[t][p] \notin {NONE, IDENTITY}
       PROVE  \E q \in Objects(user'[t]) : p \in Pages(q)
  <2>1. CASE t # s
    <3>1. user'[t] = user[t] /\ pt'[t] = pt[t]
      BY <1>5, <1>7, <2>1, Zenon
    <3>. QED
      BY <1>11, <3>1, Zenon DEF OwnUser
  <2>2. CASE t = s /\ p \in Pages(r)
    BY <1>5, <2>2, Zenon
  <2>3. CASE t = s /\ p \notin Pages(r)
    <3>1. pt[s][p] \notin {NONE, IDENTITY}
      BY <1>7, <1>11, <2>3
    <3>2. \E q \in Objects(user[s]) : p \in Pages(q)
      BY <3>1, Zenon DEF OwnUser
    <3>. QED
      BY <1>5, <2>3, <3>2, Zenon
  <2>. QED
    BY <2>1, <2>2, <2>3
<1>12. OwnUser'
  BY <1>5, <1>8, <1>10, <1>11, Zenon DEF OwnUser, Objects, Pages, Spaces, UserPages, Regions
<1>13. PagesKept
  <2>. SUFFICES ASSUME NEW t \in Spaces, NEW p \in UserPages, pt[t][p] \notin {NONE, IDENTITY}
                PROVE  pt'[t][p] = pt[t][p]
    BY DEF PagesKept
  <2>1. CASE t # s
    BY <1>7, <2>1
  <2>2. CASE t = s
    <3>1. PICK q \in Objects(user[s]) : p \in Pages(q)
      BY <2>2, Zenon DEF OwnUser
    <3>2. p \notin Pages(r)
      BY <1>2, <3>1 DEF Overlap
    <3>. QED
      BY <1>7, <2>2, <3>2, Zenon
  <2>. QED
    BY <2>1, <2>2
<1>. QED
  BY <1>3, <1>12, <1>13

\* mmap of a region of the kernel leaves the tables of the processes alone.
LEMMA KernelMmap ==
  ASSUME NEW s \in Spaces, pt \in [Spaces -> [UserPages -> Nat \cup {NONE, IDENTITY}]],
         NEW r \in Regions, r.base >= KERNEL_TEXT_START, mmap(s, r)
  PROVE  pt' = pt
<1>1. r.base \in Nat /\ r.length \in Nat
  BY DEF Regions
<1>2. \A p \in UserPages : p \notin Pages(r)
  BY <1>1, Layout DEF UserPages, Pages
<1>3. pt' = [pt EXCEPT ![s] = [p \in UserPages |-> IF p \in Pages(r) THEN r.base ELSE pt[s][p]]]
  BY DEF mmap
<1>4. [p \in UserPages |-> IF p \in Pages(r) THEN r.base ELSE pt[s][p]] = pt[s]
  <2>1. [p \in UserPages |-> IF p \in Pages(r) THEN r.base ELSE pt[s][p]] = [p \in UserPages |-> pt[s][p]]
    BY <1>2
  <2>2. pt[s] = [p \in UserPages |-> pt[s][p]]
    OBVIOUS
  <2>. QED
    BY <2>1, <2>2
<1>. QED
  BY <1>3, <1>4

\* Whether the lists are sorted or not, the seam between the regions of a process and
\* the objects of the kernel decides where a region goes.
LEMMA PlaceSide ==
  ASSUME NEW s \in Spaces, user[s] \in Seq(Regions), kernel \in Seq(Regions), kernel # <<>>,
         \A r \in Objects(user[s]) : r.base < KERNEL_TEXT_START,
         kernel[1].base = KERNEL_TEXT_START, NEW start \in Nat
  PROVE  /\ start < KERNEL_TEXT_START => Place(s, start) \in 1 .. Len(user[s]) + 1
         /\ start >= KERNEL_TEXT_START => \E k \in 1 .. Len(kernel) : Place(s, start) = 1 + Len(user[s]) + k
<1>. DEFINE L == List(s)
            m == Len(user[s])
            n == Len(L)
            Between(i) == L[i].base <= start /\ start < L[i + 1].base
            P(i) == (i = n \/ Between(i)) /\ \A j \in 1 .. i - 1 : ~Between(j)
<1>0. KERNEL_TEXT_START \in Nat
  BY VmmAssumption
<1>1. /\ L \in Seq(Regions) /\ m \in Nat /\ Len(kernel) \in Nat /\ Len(kernel) >= 1
      /\ n = 1 + m + Len(kernel) /\ L[1] = Region(0, 0)
      /\ \A j \in 1 .. m : L[1 + j] = user[s][j]
      /\ \A j \in 1 .. Len(kernel) : L[1 + m + j] = kernel[j]
  BY ListParts
<1>5. L # <<>>
  BY <1>1
<1>2. Place(s, start) \in 1 .. n /\ P(Place(s, start))
  BY <1>1, <1>5, PlaceFirst, Zenon
<1>3. \A j \in 1 .. m : user[s][j] \in Objects(user[s])
  BY ObjectsShape
<1>. HIDE DEF L, m, n
<1>4. ASSUME NEW j \in 1 .. n PROVE L[j].base \in Nat
  <2>1. L[j] \in Regions
    BY <1>1, <1>4 DEF n
  <2>. QED
    BY <2>1 DEF Regions
<1>6. PICK i \in 1 .. n : i = Place(s, start) /\ P(i)
  BY <1>2
<1>7. L[1].base = 0 /\ L[1 + m + 1].base = KERNEL_TEXT_START /\ 1 + m + 1 \in 1 .. n
  <2>1. m \in Nat /\ Len(kernel) \in Nat /\ Len(kernel) >= 1 /\ n = 1 + m + Len(kernel)
    BY <1>1, Zenon
  <2>2. 1 \in 1 .. Len(kernel) /\ 1 + m + 1 \in 1 .. n
    BY <2>1
  <2>3. Region(0, 0).base = 0
    BY DEF Region
  <2>. QED
    BY <1>1, <2>2, <2>3, Zenon
<1>8. ASSUME start < KERNEL_TEXT_START PROVE i \in 1 .. m + 1
  <2>0. m \in Nat /\ Len(kernel) \in Nat
    BY <1>1, Zenon
  <2>. SUFFICES ASSUME i > m + 1 PROVE FALSE
    BY <2>0
  <2>1. L[1].base <= start /\ start < L[1 + m + 1].base
    BY <1>0, <1>7, <1>8
  <2>2. PICK j \in 1 .. (1 + m + 1) - 1 : Between(j)
    BY <1>1, <1>7, <2>1, Crossing, Zenon DEF n
  <2>3. j \in 1 .. i - 1
    BY <2>0
  <2>. QED
    BY <1>6, <2>2, <2>3, Zenon
<1>9. ASSUME start >= KERNEL_TEXT_START PROVE i > m + 1
  <2>0. m \in Nat /\ Len(kernel) \in Nat /\ Len(kernel) >= 1 /\ n = 1 + m + Len(kernel)
    BY <1>1, Zenon
  <2>. SUFFICES ASSUME i <= m + 1 PROVE FALSE
    BY <2>0
  <2>1. Between(i) /\ i \in 1 .. m + 1
    <3>1. i # n /\ i \in 1 .. m + 1
      BY <2>0
    <3>. QED
      BY <1>6, <3>1, Zenon
  <2>2. CASE i = m + 1
    <3>1. 1 + m + 1 = i + 1
      BY <2>0, <2>2
    <3>2. start < KERNEL_TEXT_START
      BY <1>7, <2>1, <3>1, Zenon
    <3>. QED
      BY <1>0, <1>9, <3>2
  <2>3. CASE i # m + 1
    <3>1. i \in 1 .. m /\ i + 1 \in 1 .. n /\ 1 + i = i + 1
      BY <2>0, <2>3
    <3>2. /\ start < L[i + 1].base /\ L[i + 1].base < KERNEL_TEXT_START
          /\ L[i + 1].base \in Nat
      BY <1>1, <1>3, <1>4, <2>1, <3>1, Zenon
    <3>. QED
      BY <1>0, <1>9, <3>2
  <2>. QED
    BY <2>2, <2>3
<1>10. ASSUME i > m + 1 PROVE \E k \in 1 .. Len(kernel) : i = 1 + m + k
  <2>0. m \in Nat /\ Len(kernel) \in Nat /\ n = 1 + m + Len(kernel)
    BY <1>1, Zenon
  <2>1. i - (1 + m) \in 1 .. Len(kernel) /\ i = 1 + m + (i - (1 + m))
    BY <1>10, <2>0
  <2>. QED
    BY <2>1, Zenon
<1>. QED
  BY <1>6, <1>8, <1>9, <1>10, Zenon DEF m

\* vmm_alloc of a region of the kernel: it goes behind the first object of the kernel.
LEMMA KernelOwn ==
  ASSUME OwnUser, OwnKernel, NEW s \in Spaces, NEW r \in Regions, r.base >= KERNEL_TEXT_START,
         vmm_alloc(s, Place(s, r.base), r)
  PROVE  /\ UNCHANGED <<user, pt>>
         /\ kernel' \in Seq(Regions) /\ kernel' # <<>> /\ kernel'[1].base = KERNEL_TEXT_START
         /\ Objects(kernel') = Objects(kernel) \cup {r}
<1>1. /\ user[s] \in Seq(Regions) /\ kernel \in Seq(Regions) /\ kernel # <<>>
      /\ kernel[1].base = KERNEL_TEXT_START /\ r.base \in Nat
      /\ \A q \in Objects(user[s]) : q.base < KERNEL_TEXT_START
  BY DEF OwnUser, OwnKernel, Regions
<1>2. PICK k \in 1 .. Len(kernel) : Place(s, r.base) = 1 + Len(user[s]) + k
  BY <1>1, PlaceSide
<1>3. Len(user[s]) \in Nat /\ Len(kernel) \in Nat
  BY <1>1
<1>4. kernel' = Linked(kernel, k + 1, r) /\ UNCHANGED user
  <2>1. Insert(s, 1 + Len(user[s]) + k, r)
    BY <1>2 DEF vmm_alloc
  <2>2. PICK m \in Nat : m = Len(user[s])
    BY <1>3
  <2>3. ~(1 + m + k <= m + 1) /\ (1 + m + k) - m = k + 1
    BY <1>3
  <2>. QED
    BY <2>1, <2>2, <2>3, Zenon DEF Insert
<1>5. k + 1 \in 1 .. Len(kernel) + 1 /\ 1 \in 1 .. (k + 1) - 1
  BY <1>3
<1>6. /\ kernel' \in Seq(Regions) /\ Len(kernel') = Len(kernel) + 1
      /\ \A j \in 1 .. (k + 1) - 1 : kernel'[j] = kernel[j]
  <2>1. /\ Linked(kernel, k + 1, r) \in Seq(Regions) /\ Len(Linked(kernel, k + 1, r)) = Len(kernel) + 1
        /\ \A j \in 1 .. (k + 1) - 1 : Linked(kernel, k + 1, r)[j] = kernel[j]
    <3>1. IsLinked(kernel, k + 1, r, Linked(kernel, k + 1, r))
      BY <1>1, <1>5, LinkedShape, Zenon
    <3>. QED
      BY <3>1, Zenon DEF IsLinked
  <2>. QED
    BY <1>4, <2>1, Zenon
<1>7. Objects(kernel') = Objects(kernel) \cup {r}
  BY <1>1, <1>4, <1>5, LinkedObjects, Zenon
<1>8. kernel'[1].base = KERNEL_TEXT_START /\ kernel' # <<>>
  BY <1>1, <1>3, <1>5, <1>6
<1>9. UNCHANGED pt
  BY KernelMmap DEF vmm_alloc, OwnUser
<1>. QED
  BY <1>4, <1>6, <1>7, <1>8, <1>9, Zenon

\* alloc_mmio.
LEMMA WindowOwn ==
  ASSUME VmmInv, OwnInv, NEW n \in Nat, alloc_mmio(n), ~overlapped',
         UNCHANGED <<stackVars, reaped>>, phase # "panic", phase # "pmm_init", phase' # "pmm_init"
  PROVE  OwnUser' /\ OwnKernel' /\ PagesKept
<1>. DEFINE r == Region(mmio_region, n)
<1>0. ~overlapped
  BY Zenon DEF alloc_mmio, vmm_alloc, tableVars
<1>1. OwnUser /\ OwnKernel /\ current_vmm \in Spaces
  BY <1>0 DEF OwnInv, VmmInv, Types
<1>2. r \in Regions /\ r.base >= KERNEL_TEXT_START
  <2>1. mmio_region \in Nat /\ VGA_TEXT_BUFFER_BASE < mmio_region
    BY DEF VmmInv, Types
  <2>. QED
    BY <2>1, Layout DEF Region, Regions
<1>3. UNCHANGED tableVars \/ vmm_alloc(current_vmm, Place(current_vmm, r.base), r)
  BY DEF alloc_mmio
<1>. HIDE DEF r
<1>4. /\ UNCHANGED <<user, pt>>
      /\ kernel' \in Seq(Regions) /\ kernel' # <<>> /\ kernel'[1].base = KERNEL_TEXT_START
      /\ Objects(kernel) \subseteq Objects(kernel')
  <2>1. CASE UNCHANGED tableVars
    BY <1>1, <2>1 DEF tableVars, OwnKernel
  <2>2. CASE vmm_alloc(current_vmm, Place(current_vmm, r.base), r)
    BY <1>1, <1>2, <2>2, KernelOwn
  <2>. QED
    BY <1>3, <2>1, <2>2
<1>5. OwnUser' /\ PagesKept
  BY <1>1, <1>4 DEF OwnUser, PagesKept
<1>6. PmmObject' = PmmObject
  BY DEF PmmObject
<1>7. OwnKernel'
  BY <1>1, <1>4, <1>6, Zenon DEF OwnKernel, stackVars, Objects
<1>. QED
  BY <1>5, <1>7

\* alloc_kernel_stack: a stack that reached below the heap page would share a page with
\* the bitmap, so it is refused or recorded as an overlap.
LEMMA StackOwn ==
  ASSUME VmmInv, OwnInv, NEW from, NEW to, from \notin {"pmm_init", "panic"}, to # "pmm_init",
         alloc_kernel_stack(from, to), ~overlapped', UNCHANGED reaped
  PROVE  OwnUser' /\ OwnKernel' /\ PagesKept
<1>. DEFINE r == Region(kernel_stack_ptr - StackStep, StackPages)
<1>0. ~overlapped /\ phase \notin {"pmm_init", "panic"} /\ phase' # "pmm_init"
  BY Zenon DEF alloc_kernel_stack, vmm_alloc, PANIC, tableVars
<1>1. OwnUser /\ OwnKernel /\ current_vmm \in Spaces
  BY <1>0 DEF OwnInv, VmmInv, Types
<1>2. kernel_stack_ptr \in Int /\ KERNEL_HEAP_START <= kernel_stack_ptr
  BY <1>0, <1>1 DEF OwnKernel
<1>3. r \in Regions /\ r.base >= KERNEL_TEXT_START /\ r.base = kernel_stack_ptr - 3 /\ r.length = 2
  BY <1>2, Layout DEF Region, Regions
<1>4. kernel_stack_ptr' = r.base
  BY DEF alloc_kernel_stack
<1>5. PmmObject' = PmmObject
  BY <1>0 DEF PmmObject
<1>6. CASE Refused(current_vmm, r)
  <2>1. UNCHANGED <<user, pt, kernel, stacks>> /\ phase' = "panic"
    BY <1>6 DEF alloc_kernel_stack, PANIC, tableVars
  <2>2. OwnUser' /\ PagesKept
    BY <1>1, <2>1 DEF OwnUser, PagesKept
  <2>3. r.base \in Int
    BY <1>2, <1>3
  <2>. HIDE DEF r
  <2>4. OwnKernel'
    BY <1>1, <1>4, <1>5, <2>1, <2>3 DEF OwnKernel, Objects
  <2>. QED
    BY <2>2, <2>4
<1>7. CASE ~Refused(current_vmm, r)
  <2>1. vmm_alloc(current_vmm, Place(current_vmm, r.base), r) /\ stacks' = stacks \cup {r} /\ phase' = to
    BY <1>7 DEF alloc_kernel_stack
  <2>. HIDE DEF r
  <2>2. /\ UNCHANGED <<user, pt>>
        /\ kernel' \in Seq(Regions) /\ kernel' # <<>> /\ kernel'[1].base = KERNEL_TEXT_START
        /\ Objects(kernel') = Objects(kernel) \cup {r}
    BY <1>1, <1>3, <2>1, KernelOwn, Zenon
  <2>3. ~Overlap(PmmObject, r)
    <3>1. PICK j \in 1 .. Len(kernel) : kernel[j] = PmmObject
      BY <1>1, ObjectsShape DEF OwnKernel
    <3>2. user[current_vmm] \in Seq(Regions) /\ kernel \in Seq(Regions) /\ kernel # <<>>
      BY <1>1 DEF OwnUser, OwnKernel
    <3>3. /\ List(current_vmm) \in Seq(Regions) /\ Len(user[current_vmm]) \in Nat /\ Len(kernel) \in Nat
          /\ Len(List(current_vmm)) = 1 + Len(user[current_vmm]) + Len(kernel)
          /\ List(current_vmm)[1 + Len(user[current_vmm]) + j] = PmmObject
      BY <1>1, <3>1, <3>2, ListParts
    <3>4. 1 + Len(user[current_vmm]) + j \in 1 .. Len(List(current_vmm))
      BY <3>3
    <3>5. PmmObject \in Objects(List(current_vmm))
      BY <3>3, <3>4, ObjectsShape, Zenon
    <3>. QED
      BY <2>1, <3>5, Zenon DEF vmm_alloc
  <2>4. KERNEL_HEAP_START <= r.base
    <3>. SUFFICES ASSUME r.base < KERNEL_HEAP_START PROVE Overlap(PmmObject, r)
      BY <1>2, <1>3, <2>3, Layout
    <3>1. Pages(PmmObject) = KERNEL_PMM_START .. KERNEL_HEAP_START - 1
      BY <1>0, Layout DEF Pages, PmmObject, Region
    <3>2. Pages(r) = r.base .. r.base + 1
      BY <1>2, <1>3 DEF Pages
    <3>3. PICK p \in Int : p = IF r.base < KERNEL_PMM_START THEN r.base + 1 ELSE r.base
      BY <1>2, <1>3
    <3>4. p \in Pages(PmmObject) /\ p \in Pages(r)
      BY <1>2, <1>3, <3>1, <3>2, <3>3, Layout
    <3>. QED
      BY <3>4 DEF Overlap
  <2>5. OwnUser' /\ PagesKept
    BY <1>1, <2>2 DEF OwnUser, PagesKept
  <2>6. \A q \in stacks' : q \in Objects(kernel') /\ KERNEL_HEAP_START <= q.base /\ q.length = StackPages
    <3>1. r.length = StackPages
      BY <1>3, Layout
    <3>. QED
      BY <1>1, <2>1, <2>2, <2>4, <3>1, Zenon DEF OwnKernel
  <2>7. r.base \in Int
    BY <1>2, <1>3
  <2>8. OwnKernel'
    BY <1>1, <1>4, <1>5, <2>2, <2>4, <2>6, <2>7, Zenon DEF OwnKernel, Objects
  <2>. QED
    BY <2>5, <2>8
<1>. QED
  BY <1>6, <1>7

\* vmm_lengthen replaces an object that is neither the first one nor a stack's.
LEMMA LengthenOwn ==
  ASSUME VmmInv, OwnUser, OwnKernel, vmm_lengthen
  PROVE  OwnUser' /\ OwnKernel' /\ PagesKept
<1>. DEFINE r == Region(KERNEL_PMM_START, KERNEL_HEAP_START - KERNEL_PMM_START)
            i == CHOOSE i \in DOMAIN kernel : kernel[i].base = KERNEL_PMM_START
<1>0. /\ phase = "pmm_init" /\ phase' = "ist1" /\ kernel' = [kernel EXCEPT ![i] = r]
      /\ mmap(current_vmm, r) /\ UNCHANGED <<user, kernel_stack_ptr, stacks, reaped>>
  BY DEF vmm_lengthen, procVars, stackVars
<1>1. r \in Regions /\ r.base = KERNEL_PMM_START /\ r.base >= KERNEL_TEXT_START
  BY Layout DEF Region, Regions
<1>2. /\ kernel \in Seq(Regions) /\ Len(kernel) \in Nat /\ Len(kernel) >= 1
      /\ kernel[1].base = KERNEL_TEXT_START /\ current_vmm \in Spaces
  BY DEF OwnKernel, VmmInv, Types
<1>3. PmmObject.base = KERNEL_PMM_START /\ PmmObject' = r
  BY <1>0 DEF PmmObject, Region
<1>4. PICK b \in 1 .. Len(kernel) : kernel[b] = PmmObject
  BY <1>2, ObjectsShape DEF OwnKernel
<1>5. i \in 1 .. Len(kernel) /\ kernel[i].base = KERNEL_PMM_START
  BY <1>2, <1>3, <1>4
<1>. HIDE DEF i, r
<1>6. i # 1
  BY <1>2, <1>5, Layout
<1>7. /\ kernel' \in Seq(Regions) /\ Len(kernel') = Len(kernel)
      /\ \A j \in 1 .. Len(kernel) : kernel'[j] = IF j = i THEN r ELSE kernel[j]
  BY <1>0, <1>1, <1>2, <1>5
<1>8. kernel' # <<>> /\ kernel'[1].base = KERNEL_TEXT_START
  <2>1. 1 \in 1 .. Len(kernel)
    BY <1>2
  <2>. QED
    BY <1>2, <1>6, <1>7, <2>1
<1>9. \A q : q \in Objects(kernel') <=> \E j \in 1 .. Len(kernel) : kernel'[j] = q
  BY <1>7, ObjectsShape
<1>10. r \in Objects(kernel')
  BY <1>5, <1>7, <1>9, Zenon
<1>11. ASSUME NEW q \in stacks
       PROVE  q \in Objects(kernel') /\ KERNEL_HEAP_START <= q.base /\ q.length = StackPages
  <2>1. q \in Objects(kernel) /\ KERNEL_HEAP_START <= q.base /\ q.length = StackPages
    BY DEF OwnKernel
  <2>2. PICK j \in 1 .. Len(kernel) : kernel[j] = q
    BY <1>2, <2>1, ObjectsShape
  <2>3. kernel[j] \in Regions
    BY <1>2
  <2>4. j # i
    BY <1>5, <2>1, <2>2, Layout
  <2>. QED
    BY <1>7, <1>9, <2>1, <2>2, <2>4, Zenon
<1>12. OwnKernel'
  BY <1>0, <1>3, <1>7, <1>8, <1>10, <1>11 DEF OwnKernel, Objects
<1>13. pt' = pt
  BY <1>0, <1>1, <1>2, KernelMmap, Zenon DEF OwnUser
<1>14. OwnUser' /\ PagesKept
  BY <1>0, <1>13 DEF OwnUser, PagesKept
<1>. QED
  BY <1>12, <1>14

\* vmm_free of a stack takes an object that is neither the first one nor the bitmap's,
\* and no other stack's.
LEMMA ReapThreadOwn ==
  ASSUME OwnUser, OwnKernel, NEW r \in stacks, reap_thread(r)
  PROVE  OwnUser' /\ OwnKernel' /\ PagesKept
<1>. DEFINE i == CHOOSE i \in DOMAIN kernel :
                   kernel[i].base = r.base /\ \A j \in 1 .. i - 1 : kernel[j].base # r.base
<1>0. /\ phase = "run" /\ phase' = phase /\ kernel' = Unlinked(kernel, i) /\ stacks' = stacks \ {r}
      /\ UNCHANGED <<user, pt, kernel_stack_ptr, reaped>>
  BY DEF reap_thread, vmm_free, umap, procVars
<1>1. /\ kernel \in Seq(Regions) /\ Len(kernel) \in Nat /\ Len(kernel) >= 1
      /\ kernel[1].base = KERNEL_TEXT_START
  BY DEF OwnKernel
<1>2. PICK b \in 1 .. Len(kernel) : kernel[b] = r
  BY <1>1, ObjectsShape DEF OwnKernel
<1>3. i \in 1 .. Len(kernel) /\ kernel[i].base = r.base
  <2>. DEFINE B == {j \in 1 .. Len(kernel) : kernel[j].base = r.base}
  <2>1. B \in SUBSET Nat /\ B # {}
    BY <1>1, <1>2
  <2>2. PICK x \in B : \A y \in B : x <= y
    <3>. HIDE DEF B
    <3>. QED
      BY <2>1, LeastExists
  <2>3. x \in DOMAIN kernel /\ kernel[x].base = r.base /\ \A j \in 1 .. x - 1 : kernel[j].base # r.base
    <3>1. ASSUME NEW j \in 1 .. x - 1, kernel[j].base = r.base PROVE FALSE
      <4>1. j \in B /\ j < x
        BY <1>1, <3>1
      <4>. QED
        BY <1>1, <2>2, <4>1
    <3>. QED
      BY <1>1, <3>1
  <2>4. i \in DOMAIN kernel /\ kernel[i].base = r.base
    BY <2>3, Zenon
  <2>. QED
    BY <1>1, <2>4
<1>. HIDE DEF i
<1>4. KERNEL_HEAP_START <= r.base /\ r.length = StackPages /\ r \in Regions
  BY <1>1, <1>2 DEF OwnKernel
<1>5. i # 1 /\ r.base \in Nat
  <2>1. r.base \in Nat
    BY <1>4, Zenon DEF Regions
  <2>2. r.base # KERNEL_TEXT_START
    BY <1>4, <2>1, Layout
  <2>. QED
    BY <1>1, <1>3, <2>1, <2>2, Zenon
<1>6. /\ kernel' \in Seq(Regions) /\ Len(kernel') = Len(kernel) - 1
      /\ \A j \in 1 .. i - 1 : kernel'[j] = kernel[j]
      /\ \A j \in i .. Len(kernel) - 1 : kernel'[j] = kernel[j + 1]
  <2>1. /\ Unlinked(kernel, i) \in Seq(Regions) /\ Len(Unlinked(kernel, i)) = Len(kernel) - 1
        /\ \A j \in 1 .. i - 1 : Unlinked(kernel, i)[j] = kernel[j]
        /\ \A j \in i .. Len(kernel) - 1 : Unlinked(kernel, i)[j] = kernel[j + 1]
    <3>1. IsUnlinked(kernel, i, Unlinked(kernel, i))
      BY <1>1, <1>3, UnlinkedShape, Zenon
    <3>. QED
      BY <3>1, Zenon DEF IsUnlinked
  <2>. QED
    BY <1>0, <2>1
<1>7. kernel' # <<>> /\ kernel'[1].base = KERNEL_TEXT_START
  <2>1. 1 \in 1 .. i - 1 /\ Len(kernel) - 1 >= 1
    BY <1>1, <1>3, <1>5
  <2>. QED
    BY <1>1, <1>6, <2>1
<1>8. ASSUME NEW q \in Objects(kernel), q.base # r.base PROVE q \in Objects(kernel')
  <2>1. PICK j \in 1 .. Len(kernel) : kernel[j] = q
    BY <1>1, ObjectsShape, Zenon
  <2>2. j # i
    BY <1>3, <1>8, <2>1
  <2>3. CASE j < i
    <3>1. j \in 1 .. i - 1 /\ j \in 1 .. Len(kernel')
      BY <1>1, <1>3, <1>6, <2>3
    <3>. QED
      BY <1>6, <2>1, <3>1, ObjectsShape, Zenon
  <2>4. CASE j > i
    <3>1. j - 1 \in i .. Len(kernel) - 1 /\ (j - 1) + 1 = j /\ j - 1 \in 1 .. Len(kernel')
      BY <1>1, <1>3, <1>6, <2>4
    <3>2. kernel'[j - 1] = q
      BY <1>6, <2>1, <3>1, Zenon
    <3>. QED
      BY <1>6, <3>1, <3>2, ObjectsShape, Zenon
  <2>. QED
    BY <1>1, <1>3, <2>2, <2>3, <2>4
<1>9. PmmObject' = PmmObject /\ PmmObject.base # r.base
  <2>1. PmmObject' = PmmObject /\ PmmObject.base = KERNEL_PMM_START
    BY <1>0 DEF PmmObject, Region
  <2>2. r.base # KERNEL_PMM_START
    BY <1>4, <1>5, Layout
  <2>. QED
    BY <2>1, <2>2, Zenon
<1>10. ASSUME NEW q \in stacks \ {r}
       PROVE  q \in Objects(kernel') /\ KERNEL_HEAP_START <= q.base /\ q.length = StackPages
  <2>1. q \in Objects(kernel) /\ KERNEL_HEAP_START <= q.base /\ q.length = StackPages
    BY DEF OwnKernel
  <2>2. q \in Regions
    <3>1. PICK j \in 1 .. Len(kernel) : kernel[j] = q
      BY <1>1, <2>1, ObjectsShape, Zenon
    <3>. QED
      BY <1>1, <3>1
  <2>3. q = [base |-> q.base, length |-> q.length] /\ r = [base |-> r.base, length |-> r.length]
    BY <1>4, <2>2, Zenon DEF Regions
  <2>4. q.base # r.base
    BY <1>4, <2>1, <2>3, Zenon
  <2>. QED
    BY <1>8, <2>1, <2>4, Zenon
<1>11. OwnKernel'
  BY <1>0, <1>6, <1>7, <1>8, <1>9, <1>10, Zenon DEF OwnKernel, Objects
<1>12. OwnUser' /\ PagesKept
  BY <1>0 DEF OwnUser, PagesKept
<1>. QED
  BY <1>11, <1>12

\* reap_process: the entries stay, the regions go, and the space is not used again.
LEMMA ReapProcessOwn ==
  ASSUME VmmInv, ProcInv, OwnUser, OwnKernel, reap_process
  PROVE  OwnUser' /\ OwnKernel' /\ PagesKept
<1>0. /\ phase = "run" /\ phase' = phase /\ user' = [user EXCEPT ![current_vmm] = <<>>]
      /\ loading = NONE /\ current_process \in Procs /\ reaped' = reaped \cup {current_process}
      /\ UNCHANGED <<kernel, pt, kernel_stack_ptr, stacks>>
  BY DEF reap_process, umap, stackVars
<1>1. current_vmm = current_process /\ current_vmm \in Spaces
  BY <1>0 DEF ProcInv, VmmInv, Types
<1>2. user \in [Spaces -> Seq(Regions)]
  BY DEF OwnUser
<1>3. <<>> \in Seq(Regions) /\ Objects(<<>>) = {}
  BY DEF Objects
<1>4. /\ user' \in [Spaces -> Seq(Regions)] /\ user'[current_vmm] = <<>>
      /\ \A s \in Spaces : s # current_vmm => user'[s] = user[s]
  BY <1>0, <1>1, <1>2, <1>3
<1>5. ASSUME NEW s \in Spaces, NEW r \in Objects(user'[s])
      PROVE  /\ r.base < KERNEL_TEXT_START /\ r.base + r.length <= KERNEL_TEXT_START
             /\ \A p \in Pages(r) : pt'[s][p] = r.base
  <2>1. s # current_vmm
    BY <1>3, <1>4, <1>5, Zenon
  <2>2. r \in Objects(user[s])
    BY <1>4, <1>5, <2>1, Zenon
  <2>. QED
    BY <1>0, <2>2, Zenon DEF OwnUser
<1>6. ASSUME NEW s \in Spaces \ reaped', NEW p \in UserPages, pt'[s][p] \notin {NONE, IDENTITY}
      PROVE  \E r \in Objects(user'[s]) : p \in Pages(r)
  <2>1. s # current_vmm /\ s \in Spaces \ reaped
    BY <1>0, <1>1, Zenon
  <2>. QED
    BY <1>0, <1>4, <1>6, <2>1, Zenon DEF OwnUser
<1>7. OwnUser'
  <2>1. pt' \in [Spaces -> [UserPages -> Nat \cup {NONE, IDENTITY}]]
    BY <1>0 DEF OwnUser
  <2>. QED
    BY <1>4, <1>5, <1>6, <2>1, Zenon DEF OwnUser, Objects, Pages, Spaces, UserPages, Regions
<1>8. OwnKernel'
  BY <1>0 DEF OwnKernel, PmmObject, Objects
<1>9. PagesKept
  BY <1>0 DEF PagesKept
<1>. QED
  BY <1>7, <1>8, <1>9

\* Every step that grants no page twice keeps the regions and their entries.
LEMMA OwnKeeps ==
  ASSUME VmmInv, ProcInv, OwnInv, [Next]_vars, ~overlapped'
  PROVE  OwnUser' /\ OwnKernel' /\ PagesKept
<1>1. ASSUME ~overlapped, UNCHANGED <<user, pt, kernel, kernel_stack_ptr, stacks, reaped>>,
             phase' = phase \/ (phase # "pmm_init" /\ phase' # "pmm_init" /\ phase # "panic")
      PROVE  OwnUser' /\ OwnKernel' /\ PagesKept
  <2>1. OwnUser /\ OwnKernel
    BY <1>1 DEF OwnInv
  <2>2. PmmObject' = PmmObject
    BY <1>1 DEF PmmObject
  <2>3. OwnUser' /\ PagesKept
    BY <1>1, <2>1 DEF OwnUser, PagesKept
  <2>4. OwnKernel'
    BY <1>1, <2>1, <2>2 DEF OwnKernel, Objects
  <2>. QED
    BY <2>3, <2>4
<1>2. ASSUME NEW s \in Spaces \ reaped, NEW r \in Regions, r.base < KERNEL_TEXT_START,
             r.base + r.length <= KERNEL_TEXT_START, ~overlapped, OwnUser, OwnKernel,
             NEW i \in 1 .. Len(user[s]) + 1, vmm_alloc(s, i, r),
             UNCHANGED <<kernel_stack_ptr, stacks, reaped, phase>>
      PROVE  OwnUser' /\ OwnKernel' /\ PagesKept
  <2>1. OwnUser' /\ PagesKept /\ UNCHANGED kernel
    BY <1>2, UserOwn
  <2>2. PmmObject' = PmmObject
    BY <1>2 DEF PmmObject
  <2>3. OwnKernel'
    BY <1>2, <2>1, <2>2 DEF OwnKernel, Objects
  <2>. QED
    BY <2>1, <2>3
<1>3. ASSUME NEW s \in Spaces \ reaped, NEW r \in Regions, r.base < KERNEL_TEXT_START,
             r.base + r.length <= KERNEL_TEXT_START, ~overlapped,
             vmm_alloc(s, Place(s, r.base), r), UNCHANGED <<kernel_stack_ptr, stacks, reaped, phase>>
      PROVE  OwnUser' /\ OwnKernel' /\ PagesKept
  <2>1. OwnUser /\ OwnKernel /\ r.base \in Nat
    BY <1>3 DEF OwnInv, Regions
  <2>2. /\ user[s] \in Seq(Regions) /\ kernel \in Seq(Regions) /\ kernel # <<>>
        /\ kernel[1].base = KERNEL_TEXT_START /\ \A q \in Objects(user[s]) : q.base < KERNEL_TEXT_START
    BY <2>1 DEF OwnUser, OwnKernel
  <2>3. Place(s, r.base) \in 1 .. Len(user[s]) + 1
    BY <1>3, <2>1, <2>2, PlaceSide
  <2>. QED
    BY <1>2, <1>3, <2>1, <2>3, Zenon
<1>4. CASE vmm_lengthen
  <2>1. ~overlapped
    BY <1>4 DEF vmm_lengthen
  <2>. QED
    BY <1>4, <2>1, LengthenOwn DEF OwnInv
<1>5. CASE remap_gdt
  <2>1. PICK f \in {"ist1", "rsp1"}, t \in {"rsp1", "acpi_init"} : alloc_kernel_stack(f, t)
    BY <1>5 DEF remap_gdt
  <2>2. UNCHANGED reaped /\ f \notin {"pmm_init", "panic"} /\ t # "pmm_init"
    BY <1>5 DEF remap_gdt, procVars
  <2>. QED
    BY <2>1, <2>2, StackOwn
<1>6. CASE get_rsdp
  <2>1. /\ phase = "acpi_init" /\ UNCHANGED <<kernel_stack_ptr, stacks, reaped, phase>> /\ ~overlapped
    BY <1>6, Zenon DEF get_rsdp, procVars, stackVars, vmm_alloc
  <2>2. current_vmm = Initial /\ OwnUser /\ OwnKernel
    BY <2>1 DEF VmmInv, Types, OwnInv
  <2>3. user[Initial] = <<>> /\ vmm_alloc(Initial, 1, Region(0, BiosPages))
    BY <1>6, <2>2, RsdpPlace DEF OwnKernel
  <2>4. /\ Region(0, BiosPages) \in Regions /\ Region(0, BiosPages).base < KERNEL_TEXT_START
        /\ Region(0, BiosPages).base + Region(0, BiosPages).length <= KERNEL_TEXT_START
    BY Layout DEF Region, Regions
  <2>5. Initial \in Spaces \ reaped
    BY VmmNames DEF Spaces, ProcInv
  <2>6. 1 \in 1 .. Len(user[Initial]) + 1
    <3>1. Len(<<>>) = 0 /\ 1 \in 1 .. 0 + 1
      OBVIOUS
    <3>. QED
      BY <2>3, <3>1, Zenon
  <2>. QED
    BY <1>2, <2>1, <2>2, <2>3, <2>4, <2>5, <2>6
<1>7. ASSUME NEW f \in {"acpi_init", "parse_rsdt", "map_table", "checksum", "get_ioapic", "tar_init"},
             NEW t \in {"panic", "parse_rsdt", "map_table", "checksum", "get_ioapic", "tar_init", "sched_init"},
             DeviceStep(f, t), (UNCHANGED tableVars) \/ (\E n \in Nat : alloc_mmio(n))
      PROVE  OwnUser' /\ OwnKernel' /\ PagesKept
  <2>1. /\ phase \notin {"pmm_init", "panic"} /\ phase' # "pmm_init"
        /\ UNCHANGED <<stackVars, kernel_stack_ptr, stacks, reaped>>
    BY <1>7 DEF DeviceStep, stackVars, procVars
  <2>2. CASE UNCHANGED tableVars
    BY <1>1, <2>1, <2>2, Zenon DEF tableVars
  <2>3. CASE \E n \in Nat : alloc_mmio(n)
    BY <2>1, <2>3, WindowOwn, Zenon
  <2>. QED
    BY <1>7, <2>2, <2>3, Zenon
<1>8. CASE acpi_init \/ (\E t \in Tables : map_table(t)) \/ apic_init \/ get_ioapic \/ validate_checksum
  <2>1. 1 \in Nat /\ 2 \in Nat
    OBVIOUS
  <2>2. CASE acpi_init
    BY <1>7, <2>1, <2>2, Zenon DEF acpi_init
  <2>3. CASE \E t \in Tables : map_table(t)
    BY <1>7, <2>1, <2>3, Zenon DEF map_table
  <2>4. CASE apic_init
    BY <1>7, <2>1, <2>4, Zenon DEF apic_init
  <2>5. CASE get_ioapic
    BY <1>7, <2>1, <2>5, Zenon DEF get_ioapic
  <2>6. CASE validate_checksum
    <3>1. PICK t \in {"parse_rsdt", "panic"} : DeviceStep("checksum", t) /\ UNCHANGED tableVars
      BY <2>6, Zenon DEF validate_checksum
    <3>. QED
      BY <1>7, <3>1, Zenon
  <2>. QED
    BY <1>8, <2>2, <2>3, <2>4, <2>5, <2>6
<1>9. CASE map_table_rest
  <2>1. phase = "map_table"
    BY <1>9 DEF map_table_rest, DeviceStep
  <2>2. Long => (Table.length - 2 * PAGE_SIZE + PAGE_SIZE - 1) \div PAGE_SIZE \in Nat
    BY <2>1, RestIsPages
  <2>3. PICK t \in {"panic", "checksum"} :
          /\ DeviceStep("map_table", t)
          /\ \/ UNCHANGED tableVars
             \/ Long /\ alloc_mmio((Table.length - 2 * PAGE_SIZE + PAGE_SIZE - 1) \div PAGE_SIZE)
    BY <1>9 DEF map_table_rest
  <2>. QED
    BY <1>7, <2>2, <2>3
<1>10. CASE tar_init
  <2>1. ModulePages \subseteq Nat
    BY VmmAssumption
  <2>2. PICK t \in {"panic", "sched_init"} :
          DeviceStep("tar_init", t) /\ ((UNCHANGED tableVars) \/ (\E n \in ModulePages : alloc_mmio(n)))
    BY <1>10 DEF tar_init
  <2>. QED
    BY <1>7, <2>1, <2>2, Zenon
<1>11. CASE sched_init
  BY <1>11, StackOwn DEF sched_init
<1>12. CASE create_kernel_thread
  BY <1>12, StackOwn, Zenon DEF create_kernel_thread, procVars
<1>13. ASSUME NEW r \in Segments, load_elf(r) PROVE OwnUser' /\ OwnKernel' /\ PagesKept
  <2>1. r \in Regions /\ r.base + r.length <= KERNEL_TEXT_START /\ r.base < KERNEL_TEXT_START
    <3>1. r \in Regions /\ 0 < r.length /\ r.base + r.length <= KERNEL_TEXT_START
      BY VmmAssumption
    <3>2. r.base \in Nat /\ r.length \in Nat
      BY <3>1 DEF Regions
    <3>. QED
      BY <3>1, <3>2, Layout
  <2>2. current_vmm \in Spaces \ reaped
    BY DEF VmmInv, Types, ProcInv
  <2>3. /\ phase = "run" /\ UNCHANGED <<kernel_stack_ptr, stacks, reaped>> /\ ~overlapped
        /\ \/ UNCHANGED tableVars /\ phase' = "panic"
           \/ vmm_alloc(current_vmm, Place(current_vmm, r.base), r) /\ UNCHANGED phase
    BY <1>13, Zenon DEF load_elf, PANIC, vmm_alloc, tableVars, procVars, stackVars
  <2>4. CASE UNCHANGED tableVars /\ phase' = "panic"
    BY <1>1, <2>3, <2>4 DEF tableVars
  <2>5. CASE vmm_alloc(current_vmm, Place(current_vmm, r.base), r) /\ UNCHANGED phase
    BY <1>3, <2>1, <2>2, <2>3, <2>5
  <2>. QED
    BY <2>3, <2>4, <2>5, Zenon
<1>14. CASE alloc_user_stack
  <2>. DEFINE r == Region(USER_STACK_START, StackPages)
  <2>1. r \in Regions /\ r.base + r.length <= KERNEL_TEXT_START /\ r.base < KERNEL_TEXT_START
    BY Layout DEF Region, Regions
  <2>2. /\ phase = "run" /\ UNCHANGED <<kernel_stack_ptr, stacks, reaped>> /\ ~overlapped /\ loading # NONE
        /\ \/ UNCHANGED tableVars /\ phase' = "panic"
           \/ vmm_alloc(loading, Place(loading, r.base), r) /\ UNCHANGED phase
    BY <1>14, Zenon DEF alloc_user_stack, PANIC, vmm_alloc, tableVars, stackVars
  <2>. HIDE DEF r
  <2>3. loading \in Spaces \ reaped
    BY <2>2 DEF VmmInv, Types, ProcInv
  <2>4. CASE UNCHANGED tableVars /\ phase' = "panic"
    BY <1>1, <2>2, <2>4 DEF tableVars
  <2>5. CASE vmm_alloc(loading, Place(loading, r.base), r) /\ UNCHANGED phase
    BY <1>3, <2>1, <2>2, <2>3, <2>5
  <2>. QED
    BY <2>2, <2>4, <2>5
<1>15. CASE (\E s \in Procs : create_vmm(s)) \/ (\E s \in Spaces : switch_vm_space(s))
  BY <1>1, <1>15 DEF create_vmm, switch_vm_space, tableVars, stackVars
<1>16. ASSUME NEW r \in stacks, reap_thread(r) PROVE OwnUser' /\ OwnKernel' /\ PagesKept
  <2>1. ~overlapped
    BY <1>16 DEF reap_thread, vmm_free
  <2>. QED
    BY <1>16, <2>1, ReapThreadOwn DEF OwnInv
<1>17. CASE reap_process
  <2>1. ~overlapped
    BY <1>17, Zenon DEF reap_process
  <2>. QED
    BY <1>17, <2>1, ReapProcessOwn DEF OwnInv
<1>18. CASE Halted \/ UNCHANGED vars
  BY <1>1, <1>18 DEF Halted, vars, tableVars, stackVars, procVars
<1>. QED
  BY <1>4, <1>5, <1>6, <1>8, <1>9, <1>10, <1>11, <1>12, <1>13, <1>14, <1>15, <1>16, <1>17, <1>18, Zenon DEF Next

\* Both hold when vmm_init is done.
LEMMA InitOwnInv == vmm_init => ProcInv /\ OwnInv
<1>. SUFFICES ASSUME vmm_init PROVE ProcInv /\ OwnInv
  OBVIOUS
<1>1. ProcInv
  BY VmmNames DEF vmm_init, ProcInv
<1>2. Objects(<<>>) = {} /\ <<>> \in Seq(Regions)
  BY DEF Objects
<1>3. /\ user = [s \in Spaces |-> <<>>] /\ kernel = kernel_objects /\ phase = "pmm_init"
      /\ kernel_stack_ptr = KERNEL_STACK_START /\ stacks = {}
  BY DEF vmm_init
<1>4. pt = [s \in Spaces |-> IF s = Initial
                             THEN [p \in UserPages |-> IF p \in 1 .. IdentityPages THEN IDENTITY ELSE NONE]
                             ELSE [p \in UserPages |-> NONE]]
  BY DEF vmm_init, _setup_pt, Unmapped
<1>5. \A s \in Spaces : \A p \in UserPages : pt[s][p] \in {NONE, IDENTITY}
  BY <1>4
<1>6. pt \in [Spaces -> [UserPages -> Nat \cup {NONE, IDENTITY}]]
  BY <1>4
<1>7. OwnUser
  BY <1>2, <1>3, <1>5, <1>6, Zenon DEF OwnUser
<1>8. /\ kernel \in Seq(Regions) /\ Len(kernel) = 4
      /\ kernel[1] = Region(KERNEL_TEXT_START, TextPages) /\ kernel[3] = Region(KERNEL_PMM_START, 1)
  <2>1. Region(KERNEL_TEXT_START, TextPages) \in Regions /\ Region(VGA_TEXT_BUFFER_BASE, 1) \in Regions
        /\ Region(KERNEL_PMM_START, 1) \in Regions /\ Region(KERNEL_PAGE_TBL_START, TablePages) \in Regions
    BY Layout DEF Region, Regions
  <2>. QED
    BY <1>3, <2>1 DEF kernel_objects
<1>9. PmmObject \in Objects(kernel)
  <2>1. PmmObject = kernel[3] /\ 3 \in 1 .. Len(kernel)
    BY <1>3, <1>8 DEF PmmObject
  <2>. QED
    BY <1>8, <2>1, ObjectsShape
<1>10. OwnKernel
  <2>1. kernel # <<>> /\ kernel[1].base = KERNEL_TEXT_START
    <3>1. Region(KERNEL_TEXT_START, TextPages).base = KERNEL_TEXT_START /\ Len(<<>>) = 0 /\ 4 # 0
      BY DEF Region
    <3>. QED
      BY <1>8, <3>1, Zenon
  <2>2. kernel_stack_ptr \in Int /\ KERNEL_HEAP_START <= kernel_stack_ptr
    BY <1>3, Layout
  <2>. QED
    BY <1>3, <1>8, <1>9, <2>1, <2>2, Zenon DEF OwnKernel
<1>. QED
  BY <1>1, <1>7, <1>10 DEF OwnInv

\* Every step keeps both.
LEMMA StepOwnInv == VmmInv /\ ProcInv /\ OwnInv /\ [Next]_vars => ProcInv' /\ OwnInv'
<1>. SUFFICES ASSUME VmmInv, ProcInv, OwnInv, [Next]_vars PROVE ProcInv' /\ OwnInv'
  OBVIOUS
<1>1. ProcInv'
  BY ProcKeeps
<1>2. ~overlapped' => OwnUser' /\ OwnKernel'
  BY OwnKeeps
<1>. QED
  BY <1>1, <1>2 DEF OwnInv

-----------------------------------------------------------------------------
(* Theorems *)


\* The invariants hold in every state.
LEMMA VmmInvHolds == Spec => []VmmInv
  BY InitVmmInv, StepVmmInv, PTL DEF Spec

\* The same of the page tables of the kernel and the ACPI tables.
LEMMA BoundInvHolds == Spec => []BoundInv
  BY InitBoundInv, StepBoundInv, VmmInvHolds, PTL DEF Spec

\* Of the windows of the ACPI tables.
LEMMA ShortInvHolds == Spec => []ShortInv
  BY InitShortInv, StepShortInv, VmmInvHolds, BoundInvHolds, PTL DEF Spec

\* And of the regions of the processes.
LEMMA OwnInvHolds == Spec => [](ProcInv /\ OwnInv)
  BY InitOwnInv, StepOwnInv, VmmInvHolds, PTL DEF Spec

\* vmm.c's lists stay ordered by base, across the seam to the kernel's objects, as
\* long as the device windows end below the bitmap.
THEOREM ListsStaySorted == Spec => []ListsAreSorted
  BY ListsSorted, VmmInvHolds, PTL

\* alloc_kernel_stack's stacks and their guard pages stay apart from every other
\* object of the kernel and from the heap page, however many are made and reaped, as
\* long as the device windows end below the bitmap.
THEOREM StacksStayApart == Spec => []StacksAreApart
  BY StacksApart, VmmInvHolds, PTL

\* What alloc_mmio has handed out is never refused behind its back nor mapped over,
\* until all pages up to the bitmap are handed out.
THEOREM WindowsStayMapped == Spec => []WindowsAreMapped
<1>1. VmmInv => WindowsAreMapped
  BY DEF VmmInv, ListInv, WindowInv, WindowsAreMapped
<1>. QED
  BY <1>1, VmmInvHolds, PTL, Zenon

\* When get_ioapic looks at the ACPI tables, all of each that is not long is in its own
\* window, all of each long one is mapped, its first two pages to its own window, and so
\* is the unit behind each, whatever their number, lengths and offsets, if the windows
\* end below the bitmap.
THEOREM TablesStayReadable == Spec => []TablesAreReadable
  BY TablesReadable, VmmInvHolds, BoundInvHolds, ShortInvHolds, PTL

\* Wherever exec_elf is abandoned and however processes are switched and reaped, each
\* page of a process's regions stays mapped in its own table and for that region, as
\* long as no program's segments overlap, and whatever alloc_mmio hands out.
THEOREM ProcessesKeepTheirPages == Spec => []ProcessesOwnTheirPages
<1>1. VmmInv /\ OwnInv => ProcessesOwnTheirPages
  <2>1. VmmInv => alive \subseteq Spaces
    BY DEF VmmInv, Types
  <2>. QED
    BY <2>1 DEF OwnInv, OwnUser, ProcessesOwnTheirPages
<1>. QED
  BY <1>1, VmmInvHolds, OwnInvHolds, PTL

\* mmap never replaces a valid entry, the identity mapping's excepted: so it may do
\* without invalidating the TLB (vmm.c:134).
THEOREM MappingsStayStable == Spec => MappingsAreStable
<1>. DEFINE Kept == /\ mmio_region' <= KERNEL_PMM_START =>
                         \A p \in KernelPages : kpt[p] # NONE => kpt'[p] = kpt[p]
                    /\ ~overlapped' =>
                         \A s \in Spaces : \A p \in UserPages :
                           pt[s][p] \notin {NONE, IDENTITY} => pt'[s][p] = pt[s][p]
<1>1. VmmInv /\ BoundInv /\ ProcInv /\ OwnInv /\ [Next]_vars => [Kept]_vars
  <2>. SUFFICES ASSUME VmmInv, BoundInv, ProcInv, OwnInv, [Next]_vars PROVE Kept
    OBVIOUS
  <2>1. ASSUME mmio_region' <= KERNEL_PMM_START
        PROVE  \A p \in KernelPages : kpt[p] # NONE => kpt'[p] = kpt[p]
    <3>1. mmio_region <= KERNEL_PMM_START
      BY <2>1, WindowsGrow
    <3>2. FreshInv
      BY <3>1 DEF BoundInv
    <3>. QED
      BY <2>1, <3>2, FreshKeeps
  <2>2. ASSUME ~overlapped'
        PROVE  \A s \in Spaces : \A p \in UserPages :
                 pt[s][p] \notin {NONE, IDENTITY} => pt'[s][p] = pt[s][p]
    <3>1. PagesKept
      BY <2>2, OwnKeeps
    <3>. QED
      BY <3>1 DEF PagesKept
  <2>. QED
    BY <2>1, <2>2
<1>2. [][Kept]_vars => MappingsAreStable
  BY DEF MappingsAreStable
<1>. HIDE DEF Kept
<1>. QED
  BY <1>1, <1>2, VmmInvHolds, BoundInvHolds, OwnInvHolds, PTL DEF Spec

=============================================================================
