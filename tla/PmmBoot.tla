------------------------------ MODULE PmmBoot ------------------------------
(***************************************************************************)
(* mb2_mmap_init, pmm_init to its end, and the allocations that follow it, *)
(* with the build's own constants.  The bitmap is that of Pmm's Init, as   *)
(* pmm_init's loop over the reserved entries marks nothing.  The last call *)
(* of pmm_init, vmm_lengthen, backs the rest of the bitmap with            *)
(* (0x200000 - 0xe8000 - 0x1000) / 0x1000 = 279 frames of pmm_alloc_page;  *)
(* the page table they need is already there, so mmap allocates no other.  *)
(***************************************************************************)
EXTENDS Pmm, Mb2Mmap

CONSTANT LengthenPages   \* frames vmm_lengthen allocates for the bitmap: 279

\* The image begins with a word of paddr_to_bitmap, and vmm_lengthen takes more frames
\* than there are in the words of bitmap_to_paddr before that one: 256 and 279.
ASSUME BootAssumption ==
  /\ LengthenPages \in Nat
  /\ KernelFirst > 0 /\ KernelFirst % WordBits = 0
  /\ KernelFirst <= 2 * LengthenPages

VARIABLES
  left,    \* iterations vmm_lengthen still has to make
  late     \* history: the frames granted once pmm_init has returned

bootVars == <<vars, mmapVars, left, late>>

\* What the machine is running in when pmm_init is called.  kernel_init.S maps
\* the heap page to the physical address kernel_byte_size + PAGE_SIZE and the
\* first page of the bitmap to the frame after it; the image itself was
\* loaded at KERNEL_PHYS.
ImageFrames == KernelFirst .. KernelFirst + kernel_pages - 1
HeapFrame   == kernel_pages + 1
BitmapFrame == kernel_pages + 2
KernelFrames == ImageFrames \cup {HeapFrame, BitmapFrame}

\* Mutant of BootInit: pmm_init returns without lengthening the bitmap.
BootInitNoLengthen == Init /\ MmapInit /\ left = 0 /\ late = {}

BootInit == Init /\ MmapInit /\ left = LengthenPages /\ late = {}

\* Up to the end of pmm_init's first loop.
ReadMap == MmapStep /\ UNCHANGED <<vars, left, late>>

\* One iteration of vmm_lengthen's loop.
LengthenStep ==
  /\ mmap_pc = "done" /\ left > 0
  /\ pmm_alloc_page
  /\ left' = left - 1
  /\ UNCHANGED <<mmapVars, late>>

\* Any later pmm_alloc_page.
LaterAlloc ==
  /\ mmap_pc = "done" /\ left = 0
  /\ pmm_alloc_page
  /\ late' = late \cup {f \in Frames : grants'[f] # grants[f]}
  /\ UNCHANGED <<mmapVars, left>>

Halted == mmap_pc \in {"panic", "overrun"} /\ UNCHANGED bootVars

BootNext == ReadMap \/ LengthenStep \/ LaterAlloc \/ Halted

BootSpec == BootInit /\ [][BootNext]_bootVars /\ WF_bootVars(ReadMap)

-----------------------------------------------------------------------------
(* Properties *)

\* No frame granted after pmm_init holds the kernel image, the heap page or the
\* first page of the bitmap, and none is frame 0, whose address the callers
\* would read as failure.  pmm_init marks the wrong words for them; they are
\* safe because vmm_lengthen has taken them, as long as the image has at most
\* 55 pages.
LateGrantsAvoidKernel == late \cap (KernelFrames \cup {0}) = {}

\* pmm.c:50: "We then mark the kernel, the kernel heap, and the first page of
\* this pmm": pmm_alloc_page grants none of these frames.
KernelFramesAreMarked == \A f \in KernelFrames : grants[f] = 0

=============================================================================
