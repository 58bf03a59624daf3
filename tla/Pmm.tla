-------------------------------- MODULE Pmm --------------------------------
(***************************************************************************)
(* The physical memory manager (kernel/mm/pmm.c): one bitmap, an array of  *)
(* 64-bit words, scanned first fit.  A word is modelled as the set of its  *)
(* bits that are 1; a physical page frame as its number, paddr / 0x1000.   *)
(*                                                                         *)
(* Two widths meet in this file and are kept:                              *)
(*   - the masks are written (1 << x) with the int literal 1.  The build   *)
(*     is clang without optimisation for x86-64, where the shift count is  *)
(*     taken modulo 32 and the int is sign extended when it meets the      *)
(*     uint64_t word (Mask);                                               *)
(*   - bitmap_to_paddr computes in uint32_t, so it wraps at 4 GiB (Frame), *)
(*     and gives a word 0x20000 / 0x1000 = 32 frames, while                *)
(*     paddr_to_bitmap gives it 64 (Coords).                               *)
(* In the build IntBits = 32 and WrapWord = 2^15.                          *)
(***************************************************************************)
EXTENDS Integers

CONSTANTS
  IntBits,      \* width of int, and frames per word in bitmap_to_paddr: 32
  NumWords,     \* map.num_pages / 64
  ClearedWords, \* the words of the bitmap's first page: 512
  Leftovers,    \* what the words behind them can hold before they are used
  WrapWord,     \* the word whose first frame is 4 GiB: 2^32 / 0x20000
  KernelFirst,  \* KERNEL_PHYS / PAGE_SIZE
  KernelSizes,  \* the values kernel_byte_size / PAGE_SIZE may have
  MaxGrants     \* bound on outstanding grants of one frame (history only)

ASSUME PmmAssumption ==
  /\ IntBits \in Nat /\ IntBits >= 2
  /\ NumWords \in Nat \ {0}
  /\ ClearedWords \in Nat /\ Leftovers \subseteq SUBSET (0 .. 2 * IntBits - 1)
  /\ WrapWord \in Nat \ {0}
  /\ KernelFirst \in Nat
  /\ KernelSizes \subseteq Nat
  /\ \A k \in KernelSizes : /\ KernelFirst + k + 2 <= NumWords * (2 * IntBits)
                            /\ KernelFirst + k + 2 <= ClearedWords * (2 * IntBits)
  /\ MaxGrants \in Nat \ {0}

VARIABLES
  kernel_pages, \* kernel_byte_size / PAGE_SIZE, fixed by the linker
  bitmap,   \* map.bitmap
  grants,   \* history: outstanding grants of a frame by pmm_alloc_page
  freed     \* history: pmm_free_page has been called

vars == <<kernel_pages, bitmap, grants, freed>>

WordBits == 2 * IntBits
Words    == 0 .. NumWords - 1
Bits     == 0 .. WordBits - 1
Cols     == 0 .. IntBits - 1
Frames   == 0 .. IntBits * WrapWord - 1

\* 0xffffffffffffffff
FullWord == Bits

-----------------------------------------------------------------------------
(* Address arithmetic *)

\* Mutant of Mask: (1u << j), which is not sign extended.
MaskUnsigned(j) == {j % IntBits}

\* (uint64_t) (1 << j): the count modulo 32, then sign extension of bit 31.
Mask(j) == IF j % IntBits = IntBits - 1 THEN IntBits - 1 .. WordBits - 1
                                        ELSE {j % IntBits}

\* Mutant of Frame: a word is one frame short of 0x20000.
FrameShortStride(x, y) == (x + (IntBits - 1) * y) % (IntBits * WrapWord)

\* bitmap_to_paddr(x, y), as a frame number, in 32-bit arithmetic.
Frame(x, y) == (x + IntBits * y) % (IntBits * WrapWord)

\* paddr_to_bitmap(paddr)
Coords(f) == [y |-> f \div WordBits, x |-> f % WordBits]

\* The frames whose word lies inside the bitmap.
Addressable == {f \in Frames : Coords(f).y \in Words}

\* The test shared by pmm_check_page_taken and pmm_alloc_specific_page.
Taken(f) == bitmap[Coords(f).y] \cap Mask(Coords(f).x) # {}

-----------------------------------------------------------------------------
(* The scan of pmm_alloc_page: words in order, a word is entered when it is *)
(* below 0xffff..., and in it bits in order.                                *)

BitFree(i, j) == bitmap[i] \cap Mask(j) = {}

HasRoom(i) == bitmap[i] # FullWord /\ {j \in Bits : BitFree(i, j)} # {}

\* Mutant of FirstWord: the words are scanned downwards.
LastWord(i) == HasRoom(i) /\ \A i2 \in i + 1 .. NumWords - 1 : ~HasRoom(i2)

FirstWord(i) == HasRoom(i) /\ \A i2 \in 0 .. i - 1 : ~HasRoom(i2)

FirstBit(i, j) == BitFree(i, j) /\ \A j2 \in 0 .. j - 1 : ~BitFree(i, j2)

-----------------------------------------------------------------------------

\* The frames pmm_init marks with pmm_alloc_specific_page.  The loop over the
\* reserved entries of the multiboot map compares p > addr + len and marks
\* none; the second loop runs over the kernel image and two more frames.
InitMarked == KernelFirst .. KernelFirst + kernel_pages + 1

\* The memset of pmm_init covers the first page of the bitmap; the others are frames
\* that vmm_lengthen puts behind it as they are.
Init ==
  /\ kernel_pages \in KernelSizes
  /\ \E leftover \in [Words -> Leftovers] :
       bitmap = [w \in Words |->
                   IF w >= ClearedWords THEN leftover[w]
                   ELSE UNION {Mask(Coords(f).x) : f \in {g \in InitMarked : Coords(g).y = w}}]
  /\ grants = [f \in Frames |-> 0]
  /\ freed = FALSE

pmm_alloc_page ==
  \/ \E i \in Words : FirstWord(i) /\ \E j \in Bits :
       /\ FirstBit(i, j)
       /\ grants[Frame(j, i)] < MaxGrants
       /\ bitmap' = [bitmap EXCEPT ![i] = @ \cup Mask(j)]
       /\ grants' = [grants EXCEPT ![Frame(j, i)] = @ + 1]
       /\ UNCHANGED <<kernel_pages, freed>>
  \/ /\ \A i \in Words : ~HasRoom(i)
     /\ UNCHANGED vars

pmm_alloc_specific_page(f) ==
  /\ bitmap' = IF Taken(f) THEN bitmap
               ELSE [bitmap EXCEPT ![Coords(f).y] = @ \cup Mask(Coords(f).x)]
  /\ UNCHANGED <<kernel_pages, grants, freed>>

\* A client gives back a frame it was granted.
pmm_free_page(f) ==
  /\ grants[f] > 0
  /\ bitmap' = [bitmap EXCEPT ![Coords(f).y] = @ \ Mask(Coords(f).x)]
  /\ grants' = [grants EXCEPT ![f] = @ - 1]
  /\ freed' = TRUE
  /\ UNCHANGED kernel_pages

Next ==
  \/ pmm_alloc_page
  \/ \E f \in Addressable : pmm_alloc_specific_page(f)
  \/ \E f \in Addressable : pmm_free_page(f)

Spec == Init /\ [][Next]_vars

-----------------------------------------------------------------------------
(* Properties *)

\* Every word is a set of bits, every count a number within its bound.
TypeOK ==
  /\ bitmap \in [Words -> SUBSET Bits]
  /\ grants \in [Frames -> 0 .. MaxGrants]
  /\ freed \in BOOLEAN
  /\ kernel_pages \in KernelSizes

\* Whatever sequence of allocations, markings and frees has run, the upper 33
\* bits of a word of the first page are all 0 or all 1: they are only ever written
\* through the sign extended (1 << 31).
UpperBitsAgree ==
  \A w \in Words : w < ClearedWords =>
    \A b \in IntBits - 1 .. WordBits - 1 : b \in bitmap[w] <=> IntBits - 1 \in bitmap[w]

\* A word of the first page that passes the test map.bitmap[i] < 0xffffffffffffffff has
\* a bit the inner loop finds, so pmm_alloc_page never scans such a word in vain.
ScanFindsFree ==
  \A w \in Words : w < ClearedWords /\ bitmap[w] # FullWord => \E j \in Bits : BitFree(w, j)

\* As long as nothing was freed and some word below 4 GiB has room, no frame is
\* granted twice, although the masks of pmm_alloc_page repeat every 32 bits and most
\* of the bitmap starts with contents that nobody has written.
NoDoubleGrant ==
  (~freed /\ \E w \in Words : w < WrapWord /\ HasRoom(w))
     => \A f \in Frames : grants[f] <= 1

\* pmm_check_page_taken answers yes for every frame pmm_alloc_page has granted,
\* although it looks the frame up with 64 frames a word and the allocator
\* grants 32 a word: first fit has filled all words below the granting one.
GrantedFramesAreTaken ==
  ~freed => \A f \in Addressable : grants[f] > 0 => Taken(f)

=============================================================================
