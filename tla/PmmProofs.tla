----------------------------- MODULE PmmProofs -----------------------------
(***************************************************************************)
(* Proofs about Pmm, for every width of int, every number of words and     *)
(* every kernel size; and about PmmBoot: where the frames granted after    *)
(* pmm_init lie, and how the boot loader's map is read.                    *)
(***************************************************************************)
EXTENDS PmmBoot, TLAPS

\* A quotient is a number; a remainder is below the divisor.
LEMMA ModRange ==
  ASSUME NEW a \in Nat, NEW d \in Nat \ {0}
  PROVE  a \div d \in Nat /\ a % d \in 0 .. d - 1
  OBVIOUS

\* A number is its quotient times the divisor plus its remainder.
LEMMA DivMod ==
  ASSUME NEW a \in Nat, NEW d \in Nat \ {0}
  PROVE  a = d * (a \div d) + (a % d)
  OBVIOUS

\* The quotient and the remainder are the only decomposition of a number.
LEMMA DivModUnique ==
  ASSUME NEW d \in Nat \ {0}, NEW q \in Nat, NEW r \in 0 .. d - 1
  PROVE  (d * q + r) \div d = q /\ (d * q + r) % d = r
  OBVIOUS

\* A mask lies in the word, is not empty, and holds either all of the upper
\* bits or none of them.
LEMMA MaskShape ==
  ASSUME NEW j \in Nat
  PROVE  /\ Mask(j) \subseteq Bits
         /\ Mask(j) # {}
         /\ \A b \in IntBits - 1 .. WordBits - 1 : b \in Mask(j) <=> IntBits - 1 \in Mask(j)
         /\ j % IntBits \in Mask(j)
<1>1. j % IntBits \in 0 .. IntBits - 1
  BY ModRange, PmmAssumption
<1>2. ASSUME NEW m \in 0 .. IntBits - 1, NEW S,
             S = IF m = IntBits - 1 THEN IntBits - 1 .. 2 * IntBits - 1 ELSE {m}
      PROVE  /\ S \subseteq 0 .. 2 * IntBits - 1
             /\ m \in S
             /\ \A b \in IntBits - 1 .. 2 * IntBits - 1 : b \in S <=> IntBits - 1 \in S
  BY <1>2, PmmAssumption
<1>3. Mask(j) = IF j % IntBits = IntBits - 1 THEN IntBits - 1 .. 2 * IntBits - 1
                                             ELSE {j % IntBits}
  BY DEF Mask, WordBits
<1>. QED
  BY <1>1, <1>2, <1>3 DEF Bits, WordBits

\* The coordinates of an addressable frame and the frame of a cell are in range.
LEMMA Ranges ==
  /\ WordBits \in Nat \ {0} /\ IntBits * WrapWord \in Nat \ {0}
  /\ Frames \subseteq Nat /\ Bits \subseteq Nat
  /\ \A f \in Nat : Coords(f).y \in Nat /\ Coords(f).x \in Bits
  /\ \A f \in Addressable : f \in Frames /\ Coords(f).y \in Words
  /\ \A x \in Nat, y \in Nat : Frame(x, y) \in Frames
<1>1. WordBits \in Nat \ {0} /\ IntBits * WrapWord \in Nat \ {0}
  BY PmmAssumption DEF WordBits
<1>4. Frames \subseteq Nat /\ Bits \subseteq Nat
  BY <1>1 DEF Frames, Bits
<1>2. ASSUME NEW f \in Nat
      PROVE  Coords(f).y \in Nat /\ Coords(f).x \in Bits
  <2>1. f \div WordBits \in Nat /\ f % WordBits \in 0 .. WordBits - 1
    BY <1>1, ModRange
  <2>. QED
    BY <2>1 DEF Coords, Bits
<1>3. ASSUME NEW x \in Nat, NEW y \in Nat
      PROVE  Frame(x, y) \in Frames
  <2>1. x + IntBits * y \in Nat
    BY PmmAssumption
  <2>. QED
    BY <1>1, <2>1, ModRange DEF Frame, Frames
<1>. QED
  BY <1>1, <1>2, <1>3, <1>4 DEF Addressable

-----------------------------------------------------------------------------
(* Types, and the two halves of a word *)

WordInv == TypeOK /\ UpperBitsAgree

\* pmm_init leaves well-formed words.
LEMMA InitWordInv == Init => WordInv
<1>. SUFFICES ASSUME Init PROVE WordInv
  OBVIOUS
<1>1. kernel_pages \in Nat /\ kernel_pages \in KernelSizes
  BY PmmAssumption DEF Init
<1>2. \A f \in InitMarked : f \in Nat
  BY <1>1, PmmAssumption DEF InitMarked
<1>3. \A f \in InitMarked : Coords(f).x \in Nat
  BY <1>2, Ranges DEF Bits
<1>. DEFINE marked(w) == UNION {Mask(Coords(f).x) : f \in {g \in InitMarked : Coords(g).y = w}}
<1>8. PICK leftover \in [Words -> Leftovers] :
        bitmap = [w \in Words |-> IF w >= ClearedWords THEN leftover[w] ELSE marked(w)]
  BY DEF Init
<1>9. \A w \in Words : marked(w) \in SUBSET Bits
  BY <1>3, MaskShape
<1>10. \A w \in Words : leftover[w] \in SUBSET Bits
  BY <1>8, PmmAssumption DEF Bits, WordBits
<1>4. bitmap \in [Words -> SUBSET Bits]
  <2>. HIDE DEF marked
  <2>. QED
    BY <1>8, <1>9, <1>10
<1>5. ASSUME NEW w \in Words, w < ClearedWords, NEW b \in IntBits - 1 .. WordBits - 1
      PROVE  b \in bitmap[w] <=> IntBits - 1 \in bitmap[w]
  <2>1. bitmap[w] = marked(w)
    BY <1>5, <1>8, PmmAssumption DEF Words
  <2>2. \A f \in InitMarked : b \in Mask(Coords(f).x) <=> IntBits - 1 \in Mask(Coords(f).x)
    BY <1>3, MaskShape
  <2>. QED
    BY <2>1, <2>2
<1>6. grants \in [Frames -> 0 .. MaxGrants]
  BY PmmAssumption DEF Init
<1>7. freed \in BOOLEAN
  BY DEF Init
<1>. QED
  BY <1>1, <1>4, <1>5, <1>6, <1>7 DEF WordInv, TypeOK, UpperBitsAgree

\* Setting or clearing one mask in one word keeps every word well formed.
LEMMA WordUpdate ==
  ASSUME WordInv, NEW i \in Words, NEW j \in Nat, NEW bm,
         \/ bm = [bitmap EXCEPT ![i] = @ \cup Mask(j)]
         \/ bm = [bitmap EXCEPT ![i] = @ \ Mask(j)]
  PROVE  /\ bm \in [Words -> SUBSET Bits]
         /\ \A w \in Words : w < ClearedWords =>
               \A b \in IntBits - 1 .. WordBits - 1 : b \in bm[w] <=> IntBits - 1 \in bm[w]
<1>1. /\ Mask(j) \subseteq Bits
      /\ \A b \in IntBits - 1 .. WordBits - 1 : b \in Mask(j) <=> IntBits - 1 \in Mask(j)
  BY MaskShape
<1>2. bitmap \in [Words -> SUBSET Bits]
  BY DEF WordInv, TypeOK
<1>3. bm \in [Words -> SUBSET Bits]
  BY <1>1, <1>2
<1>4. ASSUME NEW w \in Words, w < ClearedWords, NEW b \in IntBits - 1 .. WordBits - 1
      PROVE  b \in bm[w] <=> IntBits - 1 \in bm[w]
  <2>1. b \in bitmap[w] <=> IntBits - 1 \in bitmap[w]
    BY <1>4 DEF WordInv, UpperBitsAgree
  <2>2. b \in Mask(j) <=> IntBits - 1 \in Mask(j)
    BY <1>1
  <2>3. \/ bm[w] = bitmap[w]
        \/ bm[w] = bitmap[w] \cup Mask(j)
        \/ bm[w] = bitmap[w] \ Mask(j)
    BY <1>2
  <2>. QED
    BY <2>1, <2>2, <2>3
<1>. QED
  BY <1>3, <1>4

\* Every call keeps the words well formed and the counts in range.
LEMMA NextWordInv == WordInv /\ [Next]_vars => WordInv'
<1>. SUFFICES ASSUME WordInv, [Next]_vars PROVE WordInv'
  OBVIOUS
<1>. USE DEF WordInv
<1>1. CASE pmm_alloc_page
  <2>1. CASE UNCHANGED vars
    BY <2>1 DEF vars, TypeOK, UpperBitsAgree
  <2>2. ASSUME NEW i \in Words, NEW j \in Bits,
               grants[Frame(j, i)] < MaxGrants,
               bitmap' = [bitmap EXCEPT ![i] = @ \cup Mask(j)],
               grants' = [grants EXCEPT ![Frame(j, i)] = @ + 1],
               UNCHANGED <<kernel_pages, freed>>
        PROVE  WordInv'
    <3>1. j \in Nat /\ i \in Nat
      BY DEF Bits, Words
    <3>2. Frame(j, i) \in Frames
      BY <3>1, Ranges
    <3>3. grants' \in [Frames -> 0 .. MaxGrants]
      BY <2>2, <3>2, PmmAssumption DEF TypeOK
    <3>. QED
      BY <2>2, <3>1, <3>3, WordUpdate DEF TypeOK, UpperBitsAgree
  <2>. QED
    BY <1>1, <2>1, <2>2 DEF pmm_alloc_page
<1>2. ASSUME NEW f \in Addressable, pmm_alloc_specific_page(f)
      PROVE  WordInv'
  <2>1. Coords(f).y \in Words /\ Coords(f).x \in Nat
    BY Ranges
  <2>2. CASE Taken(f)
    BY <1>2, <2>2 DEF pmm_alloc_specific_page, TypeOK, UpperBitsAgree
  <2>3. CASE ~Taken(f)
    BY <1>2, <2>1, <2>3, WordUpdate DEF pmm_alloc_specific_page, TypeOK, UpperBitsAgree
  <2>. QED
    BY <2>2, <2>3
<1>3. ASSUME NEW f \in Addressable, pmm_free_page(f)
      PROVE  WordInv'
  <2>1. f \in Frames /\ Coords(f).y \in Words /\ Coords(f).x \in Nat
    BY Ranges
  <2>2. grants' \in [Frames -> 0 .. MaxGrants]
    BY <1>3, <2>1, PmmAssumption DEF pmm_free_page, TypeOK
  <2>. QED
    BY <1>3, <2>1, <2>2, WordUpdate DEF pmm_free_page, TypeOK, UpperBitsAgree
<1>4. CASE UNCHANGED vars
  BY <1>4 DEF vars, TypeOK, UpperBitsAgree
<1>. QED
  BY <1>1, <1>2, <1>3, <1>4 DEF Next

\* The bitmap keeps its type, and the sign extended masks keep the upper bits
\* of every word in agreement, under any sequence of calls.
THEOREM WordsAgree == Spec => [](TypeOK /\ UpperBitsAgree)
<1>. QED
  BY InitWordInv, NextWordInv, PTL DEF Spec, WordInv
-----------------------------------------------------------------------------
(* The scan *)

\* The mask of a count is the mask of its remainder modulo the width of int,
\* and the masks of the counts below that width are single bits but the last.
LEMMA MaskOfCol ==
  /\ \A j \in Nat : j % IntBits \in Cols /\ Mask(j % IntBits) = Mask(j)
  /\ \A x \in Cols : x % IntBits = x
<1>1. \A x \in Cols : x % IntBits = x
  BY PmmAssumption DEF Cols
<1>2. \A j \in Nat : j % IntBits \in Cols
  BY ModRange, PmmAssumption DEF Cols
<1>. QED
  BY <1>1, <1>2 DEF Mask

\* A word of the first page that is not all ones has a free bit below the width of int.
LEMMA RoomInWord ==
  ASSUME WordInv, NEW w \in Words, w < ClearedWords, bitmap[w] # FullWord
  PROVE  \E j \in Cols : BitFree(w, j)
<1>. bitmap[w] \subseteq Bits
  BY DEF WordInv, TypeOK
<1>1. PICK b \in Bits : b \notin bitmap[w]
  BY DEF FullWord
<1>2. CASE b < IntBits - 1
  <2>1. b \in Cols /\ b % IntBits = b
    BY <1>2, MaskOfCol, PmmAssumption DEF Bits, Cols
  <2>2. Mask(b) = {b}
    BY <1>2, <2>1, PmmAssumption DEF Mask, Cols
  <2>. QED
    BY <1>1, <2>1, <2>2 DEF BitFree
<1>3. CASE ~(b < IntBits - 1)
  <2>1. IntBits - 1 \in Cols
    BY PmmAssumption DEF Cols
  <2>2. Mask(IntBits - 1) = IntBits - 1 .. WordBits - 1
    BY <2>1, MaskOfCol DEF Mask
  <2>3. b \in IntBits - 1 .. WordBits - 1
    BY <1>3, PmmAssumption DEF Bits, WordBits
  <2>4. \A c \in IntBits - 1 .. WordBits - 1 : c \notin bitmap[w]
    BY <1>1, <2>3 DEF WordInv, UpperBitsAgree
  <2>. QED
    BY <2>1, <2>2, <2>4 DEF BitFree
<1>. QED
  BY <1>2, <1>3

\* The columns are bits of a word.
LEMMA ColsAreBits == Cols \subseteq Bits
  BY PmmAssumption DEF Cols, Bits, WordBits

\* A word has room as soon as the inner loop finds a bit free in it; the columns are
\* where it finds one.
LEMMA RoomIsFreeBit ==
  ASSUME NEW w \in Words
  PROVE  /\ HasRoom(w) <=> \E j \in Bits : BitFree(w, j)
         /\ ~HasRoom(w) => \A x \in Cols : bitmap[w] \cap Mask(x) # {}
<1>1. \A j \in Bits : BitFree(w, j) => bitmap[w] # FullWord
  BY Ranges, MaskShape DEF BitFree, FullWord
<1>. QED
  BY <1>1, ColsAreBits DEF HasRoom, BitFree

\* pmm_alloc_page never enters a word of the first page in vain: one below
\* 0xffffffffffffffff has a bit that its inner loop finds free.
THEOREM ScanNeverInVain == Spec => []ScanFindsFree
<1>1. WordInv => ScanFindsFree
  BY RoomInWord, ColsAreBits DEF ScanFindsFree
<1>. QED
  BY <1>1, InitWordInv, NextWordInv, PTL DEF Spec

-----------------------------------------------------------------------------
(* Cells and frames *)

Row(f) == f \div IntBits
Col(f) == f % IntBits

\* A frame number splits into a word below the wrap and a column.
LEMMA FrameCell ==
  ASSUME NEW f \in Frames
  PROVE  /\ Row(f) \in Nat /\ Row(f) < WrapWord /\ Col(f) \in Cols
         /\ f = Col(f) + IntBits * Row(f)
<1>1. f \in Nat /\ f < IntBits * WrapWord
  BY Ranges DEF Frames
<1>2. ASSUME NEW d \in Nat \ {0}, NEW v \in Nat, NEW a \in Nat, a < d * v
      PROVE  a = d * (a \div d) + (a % d) /\ a \div d < v
  <2>1. a = d * (a \div d) + (a % d) /\ a \div d \in Nat /\ a % d \in 0 .. d - 1
    BY ModRange, DivMod
  <2>2. ASSUME NEW q \in Nat, q >= v PROVE d * q >= d * v
    BY <2>2
  <2>. QED
    BY <1>2, <2>1, <2>2
<1>3. f = IntBits * (f \div IntBits) + (f % IntBits) /\ f \div IntBits < WrapWord
  BY <1>1, <1>2, PmmAssumption
<1>4. f \div IntBits \in Nat /\ f % IntBits \in 0 .. IntBits - 1
  <2>1. f \in Nat /\ IntBits \in Nat \ {0}
    BY <1>1, PmmAssumption
  <2>. QED
    BY <2>1, ModRange
<1>. QED
  BY <1>3, <1>4, PmmAssumption DEF Row, Col, Cols

\* The frame pmm_alloc_page returns for a cell wraps at 4 GiB and keeps the
\* column.
LEMMA CellFrame ==
  ASSUME NEW x \in Cols, NEW y \in Nat
  PROVE  Row(Frame(x, y)) = y % WrapWord /\ Col(Frame(x, y)) = x
<1>. DEFINE q == y \div WrapWord
            r == y % WrapWord
<1>0. WrapWord \in Nat \ {0} /\ IntBits \in Nat \ {0} /\ x \in Nat /\ x < IntBits
  BY PmmAssumption DEF Cols
<1>1. q \in Nat /\ r \in Nat /\ r < WrapWord
  <2>1. y \div WrapWord \in Nat /\ y % WrapWord \in 0 .. WrapWord - 1
    BY <1>0, ModRange
  <2>. QED
    BY <1>0, <2>1
<1>2. y = WrapWord * q + r
  BY <1>0
<1>. HIDE DEF q, r
<1>3. x + IntBits * y = (IntBits * WrapWord) * q + (IntBits * r + x)
  BY <1>0, <1>1, <1>2
<1>4. IntBits * r + x \in 0 .. (IntBits * WrapWord) - 1
  <2>1. IntBits * (r + 1) <= IntBits * WrapWord
    BY <1>0, <1>1
  <2>. QED
    BY <1>0, <1>1, <2>1
<1>5. (x + IntBits * y) % (IntBits * WrapWord) = IntBits * r + x
  BY <1>1, <1>3, <1>4, Ranges, DivModUnique
<1>6. (IntBits * r + x) \div IntBits = r /\ (IntBits * r + x) % IntBits = x
  BY <1>0, <1>1, DivModUnique
<1>. QED
  BY <1>5, <1>6 DEF Frame, Row, Col, r

\* paddr_to_bitmap looks a frame up in half the word the allocator used, and in
\* the same column.
LEMMA CoordsCell ==
  ASSUME NEW f \in Frames
  PROVE  /\ Coords(f).y \in Nat
         /\ 2 * Coords(f).y <= Row(f) /\ Row(f) <= 2 * Coords(f).y + 1
         /\ Mask(Coords(f).x) = Mask(Col(f))
<1>. DEFINE x == Col(f)
            q == Row(f) \div 2
            r == Row(f) % 2
<1>0. IntBits \in Nat \ {0} /\ x \in Nat /\ x < IntBits /\ x \in Cols
  BY FrameCell, PmmAssumption DEF Cols
<1>1. q \in Nat /\ r \in 0 .. 1 /\ Row(f) = 2 * q + r
  BY FrameCell
<1>2. f = x + IntBits * Row(f)
  BY FrameCell
<1>. HIDE DEF q, r, x
<1>3. f = (2 * IntBits) * q + (IntBits * r + x)
  BY <1>0, <1>1, <1>2
<1>4. IntBits * r + x \in 0 .. (2 * IntBits) - 1
  BY <1>0, <1>1
<1>5. f \div (2 * IntBits) = q /\ f % (2 * IntBits) = IntBits * r + x
  <2>1. 2 * IntBits \in Nat \ {0}
    BY <1>0
  <2>. QED
    BY <1>1, <1>3, <1>4, <2>1, DivModUnique
<1>6. (IntBits * r + x) % IntBits = x
  BY <1>0, <1>1, DivModUnique
<1>7. Mask(IntBits * r + x) = Mask(x)
  <2>1. x % IntBits = x
    BY <1>0, MaskOfCol
  <2>. QED
    BY <1>6, <2>1 DEF Mask
<1>. QED
  BY <1>1, <1>5, <1>7 DEF Coords, WordBits, x
-----------------------------------------------------------------------------
(* Grants *)

\* Some word below 4 GiB has room.
Unwrapped == \E w \in Words : w < WrapWord /\ HasRoom(w)

\* While nothing has been freed, the cell of a granted frame is taken and no word
\* before it has room; until the wrap a frame has one grant at most.
GrantInv ==
  ~freed =>
    /\ \A f \in Frames : grants[f] > 0 =>
         /\ Row(f) \in Words
         /\ bitmap[Row(f)] \cap Mask(Col(f)) # {}
         /\ \A w \in Words : w < Row(f) => ~HasRoom(w)
    /\ Unwrapped => \A f \in Frames : grants[f] <= 1

\* Setting bits makes no room.
LEMMA NoNewRoom ==
  ASSUME \A w \in Words : bitmap[w] \subseteq bitmap'[w]
  PROVE  /\ \A w \in Words : ~HasRoom(w) => ~HasRoom(w)'
         /\ Unwrapped' => Unwrapped
<1>1. ASSUME NEW w \in Words, HasRoom(w)' PROVE HasRoom(w)
  <2>1. PICK j \in Bits : BitFree(w, j)'
    BY <1>1 DEF HasRoom
  <2>2. BitFree(w, j)
    BY <2>1 DEF BitFree
  <2>. QED
    BY <2>2, RoomIsFreeBit
<1>. QED
  BY <1>1 DEF Unwrapped

\* A call that only adds bits and leaves the grants alone keeps GrantInv.
LEMMA GrantInvMonotone ==
  ASSUME GrantInv,
         \A w \in Words : bitmap[w] \subseteq bitmap'[w],
         UNCHANGED <<grants, freed>>
  PROVE  GrantInv'
<1>1. \A w \in Words : ~HasRoom(w) => ~HasRoom(w)'
  BY NoNewRoom
<1>2. Unwrapped' => Unwrapped
  BY NoNewRoom
<1>. QED
  BY <1>1, <1>2 DEF GrantInv

\* The first free bit of a word is below the width of int.
LEMMA FirstBitIsCol ==
  ASSUME NEW i \in Words, NEW j \in Bits, FirstBit(i, j)
  PROVE  j \in Cols
<1>1. j \in Nat
  BY Ranges
<1>2. j % IntBits \in Cols /\ BitFree(i, j % IntBits)
  BY <1>1, MaskOfCol DEF FirstBit, BitFree
<1>3. ~(j % IntBits \in 0 .. j - 1)
  BY <1>2 DEF FirstBit
<1>. QED
  BY <1>1, <1>2, <1>3, PmmAssumption DEF Cols

\* pmm_alloc_page takes the cell of the frame it returns, with no room in the words
\* before it, and before the wrap that frame had no grant.
LEMMA AllocGrantInv ==
  ASSUME WordInv, GrantInv,
         NEW i \in Words, NEW j \in Bits, FirstWord(i), FirstBit(i, j),
         bitmap' = [bitmap EXCEPT ![i] = @ \cup Mask(j)],
         grants' = [grants EXCEPT ![Frame(j, i)] = @ + 1],
         UNCHANGED freed
  PROVE  GrantInv'
<1>. SUFFICES ASSUME ~freed PROVE GrantInv'
  BY DEF GrantInv
<1>. DEFINE g == Frame(j, i)
<1>1. i \in Nat /\ j \in Nat
  BY Ranges DEF Words
<1>2. j \in Cols
  BY FirstBitIsCol
<1>3. g \in Frames /\ Row(g) = i % WrapWord /\ Col(g) = j
  BY <1>1, <1>2, Ranges, CellFrame
<1>4. \A w \in Words : w < i => ~HasRoom(w)
  BY <1>1 DEF FirstWord, Words
<1>5. bitmap \in [Words -> SUBSET Bits]
  BY DEF WordInv, TypeOK
<1>6. \A w \in Words : bitmap[w] \subseteq bitmap'[w]
  BY <1>5
<1>7. \A w \in Words : ~HasRoom(w) => ~HasRoom(w)'
  BY <1>6, NoNewRoom
<1>8. i % WrapWord \in Nat /\ i % WrapWord <= i /\ (i < WrapWord => i % WrapWord = i)
  BY <1>1, PmmAssumption
<1>9. i % WrapWord \in Words
  BY <1>1, <1>8, PmmAssumption DEF Words
<1>10. bitmap'[i % WrapWord] \cap Mask(j) # {}
  <2>1. CASE i % WrapWord = i
    BY <1>1, <1>5, <2>1, MaskShape
  <2>2. CASE i % WrapWord < i
    <3>1. bitmap[i % WrapWord] \cap Mask(j) # {}
      BY <1>2, <1>4, <1>9, <2>2, RoomIsFreeBit
    <3>. QED
      BY <1>6, <1>9, <3>1
  <2>. QED
    BY <1>1, <1>8, <2>1, <2>2
<1>11. \A w \in Words : w < i % WrapWord => ~HasRoom(w)'
  BY <1>1, <1>4, <1>7, <1>8 DEF Words
<1>12. grants \in [Frames -> 0 .. MaxGrants] /\ \A f \in Frames : f # g => grants'[f] = grants[f]
  BY <1>3 DEF WordInv, TypeOK
<1>13. ASSUME NEW f \in Frames, grants'[f] > 0
       PROVE  /\ Row(f) \in Words
              /\ bitmap'[Row(f)] \cap Mask(Col(f)) # {}
              /\ \A w \in Words : w < Row(f) => ~HasRoom(w)'
  <2>1. CASE f = g
    BY <1>3, <1>9, <1>10, <1>11, <2>1
  <2>2. CASE f # g
    BY <1>6, <1>7, <1>12, <1>13, <2>2 DEF GrantInv
  <2>. QED
    BY <2>1, <2>2
<1>14. ASSUME Unwrapped', NEW f \in Frames
       PROVE  grants'[f] <= 1
  <2>1. Unwrapped
    BY <1>6, <1>14, NoNewRoom
  <2>2. CASE f # g
    BY <1>12, <2>1, <2>2 DEF GrantInv
  <2>3. CASE f = g
    <3>1. i < WrapWord
      <4>1. PICK w \in Words : w < WrapWord /\ HasRoom(w)
        BY <2>1 DEF Unwrapped
      <4>. QED
        BY <1>1, <1>4, <4>1, PmmAssumption DEF Words
    <3>2. bitmap[i] \cap Mask(j) = {}
      BY DEF FirstBit, BitFree
    <3>3. grants[g] = 0
      BY <1>3, <1>8, <1>12, <3>1, <3>2, PmmAssumption DEF GrantInv
    <3>. QED
      BY <1>3, <1>12, <2>3, <3>3
  <2>. QED
    BY <2>2, <2>3
<1>. QED
  BY <1>13, <1>14 DEF GrantInv

PmmInv == WordInv /\ GrantInv

\* PmmInv is inductive.
LEMMA PmmInvariant == Spec => []PmmInv
<1>1. Init => PmmInv
  <2>1. Init => GrantInv
    BY PmmAssumption DEF Init, GrantInv
  <2>. QED
    BY <2>1, InitWordInv DEF PmmInv
<1>2. PmmInv /\ [Next]_vars => PmmInv'
  <2>. SUFFICES ASSUME WordInv, GrantInv, [Next]_vars, WordInv' PROVE GrantInv'
    BY NextWordInv DEF PmmInv
  <2>0. bitmap \in [Words -> SUBSET Bits]
    BY DEF WordInv, TypeOK
  <2>1. CASE pmm_alloc_page
    <3>1. CASE UNCHANGED vars
      BY <3>1, GrantInvMonotone DEF vars
    <3>. QED
      BY <2>1, <3>1, AllocGrantInv DEF pmm_alloc_page
  <2>2. ASSUME NEW f \in Addressable, pmm_alloc_specific_page(f)
        PROVE  GrantInv'
    BY <2>0, <2>2, Ranges, GrantInvMonotone DEF pmm_alloc_specific_page
  <2>3. ASSUME NEW f \in Addressable, pmm_free_page(f)
        PROVE  GrantInv'
    BY <2>3 DEF pmm_free_page, GrantInv
  <2>4. CASE UNCHANGED vars
    BY <2>4, GrantInvMonotone DEF vars
  <2>. QED
    BY <2>1, <2>2, <2>3, <2>4 DEF Next
<1>. QED
  BY <1>1, <1>2, PTL DEF Spec

\* Until a frame is freed or the words below 4 GiB are full, pmm_alloc_page
\* grants no frame twice.
THEOREM NoFrameGrantedTwice == Spec => []NoDoubleGrant
<1>1. PmmInv => NoDoubleGrant
  BY DEF PmmInv, GrantInv, NoDoubleGrant, Unwrapped
<1>. QED
  BY <1>1, PmmInvariant, PTL

\* Until a frame is freed, pmm_check_page_taken answers yes for every frame
\* pmm_alloc_page has granted.
THEOREM GrantsAreVisible == Spec => []GrantedFramesAreTaken
<1>1. ASSUME PmmInv, ~freed, NEW f \in Addressable, grants[f] > 0
      PROVE  Taken(f)
  <2>1. f \in Frames /\ Coords(f).y \in Words
    BY Ranges
  <2>2. /\ Row(f) \in Words
        /\ bitmap[Row(f)] \cap Mask(Col(f)) # {}
        /\ \A w \in Words : w < Row(f) => ~HasRoom(w)
    BY <1>1, <2>1 DEF PmmInv, GrantInv
  <2>3. /\ Coords(f).y = Row(f) \/ Coords(f).y < Row(f)
        /\ Mask(Coords(f).x) = Mask(Col(f))
    BY <2>1, CoordsCell, FrameCell
  <2>4. Coords(f).y < Row(f) => bitmap[Coords(f).y] \cap Mask(Col(f)) # {}
    BY <2>1, <2>2, FrameCell, RoomIsFreeBit
  <2>. QED
    BY <2>1, <2>2, <2>3, <2>4 DEF Taken
<1>2. PmmInv => GrantedFramesAreTaken
  BY <1>1 DEF GrantedFramesAreTaken
<1>. QED
  BY <1>2, PmmInvariant, PTL

-----------------------------------------------------------------------------
(* Booting *)

\* The columns pmm_init sets in the word it takes for the kernel's: 32 at most, because
\* the masks repeat.
Marks == IF kernel_pages + 2 < IntBits THEN kernel_pages + 2 ELSE IntBits

\* All of its marks are in one word.
OneWord == kernel_pages + 2 <= WordBits

\* The iterations vmm_lengthen has made.
Lengthened == LengthenPages - left

\* Every frame was granted by a word below 4 GiB.
BelowWrap == NumWords <= WrapWord \/ Unwrapped

FrontInv ==
  /\ left \in 0 .. LengthenPages
  /\ OneWord => \A j \in Cols : j < Marks => ~BitFree(KernelFirst \div WordBits, j)
  /\ \A i \in Words, j \in Cols : BitFree(i, j) =>
       /\ IntBits * i + j >= Lengthened
       /\ OneWord /\ 2 * Lengthened >= KernelFirst => IntBits * i + j >= Lengthened + Marks
  /\ OneWord /\ BelowWrap => \A f \in late : f >= LengthenPages + Marks

\* A place in a later word has a greater number.
LEMMA LaterPlace ==
  ASSUME NEW i1 \in Nat, NEW i2 \in Nat, i1 < i2, NEW j1 \in Cols, NEW j2 \in Cols
  PROVE  IntBits * i1 + j1 < IntBits * i2 + j2
<1>1. IntBits \in Nat /\ j1 \in Nat /\ j1 < IntBits /\ j2 \in Nat
  BY PmmAssumption DEF Cols
<1>2. IntBits * i2 = IntBits * i1 + IntBits * (i2 - i1) /\ IntBits * (i2 - i1) >= IntBits
  BY <1>1
<1>. QED
  BY <1>1, <1>2

\* pmm_alloc_page takes the first free place; what is free afterwards is behind it.
LEMMA AllocPlace ==
  ASSUME WordInv, NEW i \in Words, NEW j \in Bits, FirstWord(i), FirstBit(i, j),
         bitmap' = [bitmap EXCEPT ![i] = @ \cup Mask(j)]
  PROVE  /\ j \in Cols /\ BitFree(i, j)
         /\ \A i2 \in Words, j2 \in Cols : BitFree(i2, j2)' =>
              BitFree(i2, j2) /\ IntBits * i2 + j2 > IntBits * i + j
<1>1. j \in Cols /\ BitFree(i, j)
  BY FirstBitIsCol DEF FirstBit
<1>2. bitmap \in [Words -> SUBSET Bits]
  BY DEF WordInv, TypeOK
<1>3. ASSUME NEW i2 \in Words, NEW j2 \in Cols, BitFree(i2, j2)'
      PROVE  BitFree(i2, j2) /\ IntBits * i2 + j2 > IntBits * i + j
  <2>0. i \in Nat /\ i2 \in Nat /\ j \in Nat /\ j2 \in Nat /\ j2 \in Bits
    BY ColsAreBits, Ranges DEF Words
  <2>1. BitFree(i2, j2)
    BY <1>2, <1>3 DEF BitFree
  <2>2. HasRoom(i2)
    BY <2>0, <2>1, RoomIsFreeBit
  <2>3. ~(i2 < i)
    BY <2>0, <2>2 DEF FirstWord
  <2>4. CASE i < i2
    BY <1>1, <2>0, <2>1, <2>4, LaterPlace
  <2>5. CASE i2 = i
    <3>1. j2 # j
      <4>1. bitmap'[i] = bitmap[i] \cup Mask(j) /\ Mask(j) # {}
        BY <1>2, <2>0, MaskShape
      <4>. QED
        BY <1>3, <2>5, <4>1 DEF BitFree
    <3>2. ~(j2 < j)
      BY <2>0, <2>1, <2>5 DEF FirstBit
    <3>3. IntBits * i \in Int
      BY <2>0, PmmAssumption
    <3>. QED
      BY <2>0, <2>1, <2>5, <3>1, <3>2, <3>3
  <2>. QED
    BY <2>0, <2>3, <2>4, <2>5
<1>. QED
  BY <1>1, <1>3

BootInv == WordInv /\ FrontInv

\* The steps of booting are calls of the frame allocator.
LEMMA BootCalls == BootNext => [Next]_vars
  BY DEF BootNext, ReadMap, LengthenStep, LaterAlloc, Halted, bootVars, Next

\* The kernel's word begins half way up the frames before the kernel.
LEMMA KernelWord ==
  /\ KernelFirst \div WordBits \in Nat
  /\ KernelFirst = 2 * (IntBits * (KernelFirst \div WordBits))
<1>. DEFINE W == KernelFirst \div WordBits
<1>1. KernelFirst \in Nat /\ KernelFirst % WordBits = 0 /\ WordBits \in Nat \ {0} /\ IntBits \in Nat
  BY PmmAssumption, BootAssumption, Ranges
<1>2. W \in Nat /\ KernelFirst = WordBits * W + (KernelFirst % WordBits)
  BY <1>1, ModRange, DivMod
<1>. HIDE DEF W
<1>3. WordBits * W = 2 * (IntBits * W) /\ WordBits * W \in Int
  BY <1>1, <1>2 DEF WordBits
<1>. QED
  BY <1>1, <1>2, <1>3 DEF W

\* The marks of pmm_init.
LEMMA InitFront == BootInit => BootInv
<1>. SUFFICES ASSUME BootInit PROVE BootInv
  OBVIOUS
<1>0. Init /\ left = LengthenPages /\ late = {} /\ LengthenPages \in Nat
  BY BootAssumption DEF BootInit
<1>1. WordInv
  BY <1>0, InitWordInv
<1>2. kernel_pages \in Nat /\ kernel_pages \in KernelSizes /\ IntBits \in Nat \ {0} /\ WordBits \in Nat \ {0}
  BY <1>0, Ranges, PmmAssumption DEF Init
<1>. DEFINE W == KernelFirst \div WordBits
<1>3. KernelFirst \in Nat /\ W \in Nat /\ KernelFirst = WordBits * W
  <2>1. KernelFirst \in Nat /\ W \in Nat /\ KernelFirst = 2 * (IntBits * W)
    BY KernelWord, PmmAssumption
  <2>. HIDE DEF W
  <2>. QED
    BY <1>2, <2>1 DEF WordBits
<1>4. Lengthened = 0
  BY <1>0 DEF Lengthened
<1>5. ASSUME OneWord, NEW j \in Cols, j < Marks PROVE ~BitFree(W, j)
  <2>. HIDE DEF W
  <2>1. j \in Nat /\ j <= kernel_pages + 1 /\ j \in 0 .. WordBits - 1
    BY <1>2, <1>5 DEF Cols, Marks, WordBits
  <2>f. PICK f : f = KernelFirst + j
    OBVIOUS
  <2>2. f \in InitMarked /\ f = WordBits * W + j
    BY <1>2, <1>3, <2>1, <2>f DEF InitMarked
  <2>3. f \div WordBits = W /\ f % WordBits = j
    BY <1>2, <1>3, <2>1, <2>2, DivModUnique
  <2>4. Coords(f).y = W /\ Coords(f).x = j
    BY <2>3 DEF Coords
  <2>5. W \in Words /\ W < ClearedWords
    <3>1. KernelFirst + kernel_pages + 2 <= NumWords * WordBits /\ KernelFirst + kernel_pages + 2 <= ClearedWords * WordBits
      BY <1>2, PmmAssumption DEF WordBits
    <3>2. ASSUME NEW n \in Nat, KernelFirst + kernel_pages + 2 <= n * WordBits PROVE W < n
      <4>1. WordBits * W < n * WordBits
        BY <1>2, <1>3, <3>2
      <4>2. W >= n => WordBits * W >= WordBits * n
        BY <1>2, <1>3
      <4>. QED
        BY <1>2, <1>3, <4>1, <4>2
    <3>. QED
      BY <1>3, <3>1, <3>2, PmmAssumption DEF Words
  <2>6. bitmap[W] = UNION {Mask(Coords(g).x) : g \in {h \in InitMarked : Coords(h).y = W}}
    BY <1>0, <1>3, <2>5, PmmAssumption DEF Init
  <2>7. Mask(j) \subseteq bitmap[W]
    BY <2>2, <2>4, <2>6
  <2>8. Mask(j) # {}
    BY <2>1, MaskShape
  <2>. QED
    BY <2>7, <2>8 DEF BitFree
<1>6. ~(2 * Lengthened >= KernelFirst)
  BY <1>3, <1>4, BootAssumption
<1>7. ASSUME NEW i \in Words, NEW j \in Cols PROVE IntBits * i + j >= 0
  BY <1>2 DEF Words, Cols
<1>. HIDE DEF W
<1>. QED
  BY <1>0, <1>1, <1>4, <1>5, <1>6, <1>7 DEF BootInv, FrontInv, W

\* A free place that is not before the kernel's word is behind the marks in it.
LEMMA BehindMarks ==
  ASSUME WordInv, FrontInv, OneWord, NEW i \in Words, NEW j \in Cols, BitFree(i, j),
         2 * (IntBits * i + j) >= KernelFirst
  PROVE  2 * (IntBits * i + j) >= KernelFirst + 2 * Marks
<1>w. PICK W : W = KernelFirst \div WordBits
  OBVIOUS
<1>0. /\ IntBits \in Nat /\ i \in Nat /\ j \in Nat /\ j < IntBits /\ 0 \in Cols
      /\ kernel_pages \in Nat /\ Marks \in Nat /\ Marks <= IntBits
  BY PmmAssumption DEF Words, Cols, WordInv, TypeOK, Marks
<1>1. W \in Nat /\ KernelFirst = 2 * (IntBits * W)
  BY <1>w, KernelWord
<1>2. IntBits * i \in Int /\ IntBits * W \in Int
  BY <1>0, <1>1
<1>3. ~(i < W)
  <2>1. i < W => IntBits * i + j < IntBits * W + 0
    BY <1>0, <1>1, LaterPlace
  <2>. QED
    BY <1>0, <1>1, <1>2, <2>1
<1>4. CASE i = W
  <2>1. ~(j < Marks)
    BY <1>w, <1>4 DEF FrontInv
  <2>. QED
    BY <1>0, <1>1, <1>2, <1>4, <2>1
<1>5. CASE i > W
  <2>1. IntBits * i >= IntBits * W + IntBits
    <3>1. IntBits * i = IntBits * W + IntBits * (i - W) /\ IntBits * (i - W) >= IntBits
      BY <1>0, <1>1, <1>5
    <3>2. IntBits * (i - W) \in Int
      BY <1>0, <1>1
    <3>. QED
      BY <1>0, <1>2, <3>1, <3>2
  <2>. QED
    BY <1>0, <1>1, <1>2, <2>1
<1>. QED
  BY <1>0, <1>1, <1>3, <1>4, <1>5

\* Below the wrap the frame of a place has the place's number.
LEMMA FrameBelowWrap ==
  ASSUME NEW i \in Words, NEW j \in Cols, FirstWord(i), BelowWrap
  PROVE  Frame(j, i) = IntBits * i + j
<1>0. i \in Nat /\ j \in Nat /\ IntBits \in Nat \ {0} /\ WrapWord \in Nat /\ j < IntBits /\ i < NumWords /\ NumWords \in Nat
  BY PmmAssumption DEF Words, Cols
<1>1. i < WrapWord
  <2>1. CASE NumWords <= WrapWord
    BY <1>0, <2>1
  <2>2. CASE Unwrapped
    <3>1. PICK w \in Words : w < WrapWord /\ HasRoom(w)
      BY <2>2 DEF Unwrapped
    <3>. QED
      BY <1>0, <3>1 DEF FirstWord, Words
  <2>. QED
    BY <2>1, <2>2 DEF BelowWrap
<1>2. IntBits * (i + 1) <= IntBits * WrapWord
  BY <1>0, <1>1
<1>3. IntBits * i + j \in 0 .. IntBits * WrapWord - 1 /\ IntBits * i + j = j + IntBits * i
  BY <1>0, <1>2
<1>4. IntBits * WrapWord \in Nat \ {0}
  BY Ranges
<1>5. ((IntBits * WrapWord) * 0 + (IntBits * i + j)) % (IntBits * WrapWord) = IntBits * i + j
  BY <1>3, <1>4, DivModUnique
<1>6. (IntBits * WrapWord) * 0 + (IntBits * i + j) = j + IntBits * i
  BY <1>3, <1>4
<1>. QED
  BY <1>5, <1>6 DEF Frame

\* Setting bits does not bring a state back below the wrap.
LEMMA WrapStays ==
  ASSUME \A w \in Words : bitmap[w] \subseteq bitmap'[w]
  PROVE  BelowWrap' => BelowWrap
  BY NoNewRoom DEF BelowWrap

\* A call of pmm_alloc_page that finds nothing leaves no free place.
LEMMA NothingFree ==
  ASSUME \A i \in Words : ~HasRoom(i)
  PROVE  \A i \in Words, j \in Cols : ~BitFree(i, j)
  BY RoomIsFreeBit, ColsAreBits

\* An iteration of vmm_lengthen moves the first free place on.
LEMMA LengthenFront ==
  ASSUME WordInv, FrontInv, LengthenStep
  PROVE  FrontInv'
<1>0. /\ left \in Nat /\ left > 0 /\ left <= LengthenPages /\ LengthenPages \in Nat
      /\ left' = left - 1 /\ late' = late /\ kernel_pages' = kernel_pages /\ kernel_pages \in Nat
      /\ bitmap \in [Words -> SUBSET Bits] /\ KernelFirst \in Nat
  BY BootAssumption, PmmAssumption DEF LengthenStep, pmm_alloc_page, vars, FrontInv, WordInv, TypeOK
<1>1. left' \in 0 .. LengthenPages /\ Lengthened' = Lengthened + 1 /\ Lengthened \in Nat
  BY <1>0 DEF Lengthened
<1>2. Marks' = Marks /\ (OneWord' <=> OneWord) /\ Marks \in Nat
  BY <1>0, PmmAssumption DEF Marks, OneWord
<1>3. CASE UNCHANGED vars /\ \A i \in Words : ~HasRoom(i)
  <2>1. \A i \in Words, j \in Cols : ~BitFree(i, j)
    BY <1>3, NothingFree
  <2>2. \A i, j : BitFree(i, j)' <=> BitFree(i, j)
    BY <1>3 DEF vars, BitFree
  <2>3. BelowWrap' => BelowWrap
    BY <1>3, WrapStays DEF vars
  <2>. QED
    BY <1>0, <1>1, <1>2, <2>1, <2>2, <2>3 DEF FrontInv
<1>4. ASSUME NEW i \in Words, NEW j \in Bits, FirstWord(i), FirstBit(i, j),
             bitmap' = [bitmap EXCEPT ![i] = @ \cup Mask(j)]
      PROVE  FrontInv'
  <2>1. /\ j \in Cols /\ BitFree(i, j)
        /\ \A i2 \in Words, j2 \in Cols : BitFree(i2, j2)' =>
             BitFree(i2, j2) /\ IntBits * i2 + j2 > IntBits * i + j
    BY <1>4, AllocPlace
  <2>2. \A w \in Words : bitmap[w] \subseteq bitmap'[w]
    BY <1>0, <1>4
  <2>3. BelowWrap' => BelowWrap
    BY <2>2, WrapStays
  <2>4. IntBits * i + j \in Int /\ \A i2 \in Words, j2 \in Cols : IntBits * i2 + j2 \in Int
    BY <2>1, PmmAssumption DEF Words, Cols
  <2>5. /\ IntBits * i + j >= Lengthened
        /\ OneWord /\ 2 * Lengthened >= KernelFirst => IntBits * i + j >= Lengthened + Marks
    BY <2>1 DEF FrontInv
  <2>6. OneWord => \A c \in Cols : c < Marks => ~BitFree(KernelFirst \div WordBits, c)'
    <3>1. ASSUME NEW w, NEW c, BitFree(w, c)' PROVE BitFree(w, c) \/ w \notin Words
      BY <2>2, <3>1 DEF BitFree
    <3>2. OneWord => KernelFirst \div WordBits \in Words
      <4>w. PICK W : W = KernelFirst \div WordBits
        OBVIOUS
      <4>1. W \in Nat /\ KernelFirst = 2 * (IntBits * W) /\ IntBits \in Nat \ {0} /\ NumWords \in Nat
        BY <4>w, KernelWord, PmmAssumption
      <4>2. KernelFirst < NumWords * (2 * IntBits)
        BY <1>0, <4>1, PmmAssumption DEF WordInv, TypeOK
      <4>3. IntBits * W < IntBits * NumWords
        BY <4>1, <4>2
      <4>4. W >= NumWords => IntBits * W >= IntBits * NumWords
        BY <4>1
      <4>. QED
        BY <4>w, <4>1, <4>3, <4>4 DEF Words
    <3>. QED
      BY <3>1, <3>2 DEF FrontInv
  <2>7. ASSUME NEW i2 \in Words, NEW j2 \in Cols, BitFree(i2, j2)'
        PROVE  /\ IntBits * i2 + j2 >= Lengthened + 1
               /\ OneWord /\ 2 * (Lengthened + 1) >= KernelFirst => IntBits * i2 + j2 >= (Lengthened + 1) + Marks
    <3>q. PICK q \in Int : q = IntBits * i2 + j2
      BY <2>4
    <3>1. BitFree(i2, j2) /\ q > IntBits * i + j
      BY <2>1, <2>7, <3>q
    <3>2. q >= Lengthened + 1
      BY <1>1, <2>4, <2>5, <3>1
    <3>3. CASE OneWord /\ 2 * Lengthened >= KernelFirst
      BY <1>1, <1>2, <2>4, <2>5, <3>q, <3>1, <3>2, <3>3
    <3>4. CASE OneWord /\ ~(2 * Lengthened >= KernelFirst) /\ 2 * (Lengthened + 1) >= KernelFirst
      <4>1. KernelFirst = 2 * (Lengthened + 1)
        <5>1. KernelFirst \div WordBits \in Nat /\ IntBits * (KernelFirst \div WordBits) \in Int
          BY KernelWord, PmmAssumption
        <5>. QED
          BY <1>0, <1>1, <3>4, <5>1, KernelWord
      <4>2. 2 * q >= KernelFirst
        BY <1>1, <3>2, <4>1
      <4>3. 2 * q >= KernelFirst + 2 * Marks
        BY <3>q, <3>1, <3>4, <4>2, BehindMarks
      <4>. QED
        BY <1>1, <1>2, <3>q, <3>2, <4>1, <4>3
    <3>. QED
      BY <3>q, <3>2, <3>3, <3>4
  <2>. QED
    BY <1>0, <1>1, <1>2, <2>3, <2>6, <2>7 DEF FrontInv
<1>. QED
  BY <1>3, <1>4 DEF LengthenStep, pmm_alloc_page

\* A frame that is granted once vmm_lengthen is done is behind all it has taken and
\* behind the marks.
LEMMA LaterFront ==
  ASSUME WordInv, FrontInv, LaterAlloc
  PROVE  FrontInv'
<1>0. /\ left = 0 /\ left' = left /\ LengthenPages \in Nat /\ Lengthened' = Lengthened
      /\ kernel_pages' = kernel_pages /\ kernel_pages \in Nat
      /\ bitmap \in [Words -> SUBSET Bits] /\ KernelFirst \in Nat
      /\ late' = late \cup {f \in Frames : grants'[f] # grants[f]}
      /\ grants \in [Frames -> 0 .. MaxGrants]
  BY BootAssumption, PmmAssumption DEF LaterAlloc, pmm_alloc_page, vars, WordInv, TypeOK, Lengthened
<1>1. Lengthened = LengthenPages /\ 2 * LengthenPages >= KernelFirst
  BY <1>0, BootAssumption DEF Lengthened
<1>2. Marks' = Marks /\ (OneWord' <=> OneWord) /\ Marks \in Nat
  BY <1>0, PmmAssumption DEF Marks, OneWord
<1>3. CASE UNCHANGED vars
  <2>1. late' = late
    BY <1>0, <1>3 DEF vars
  <2>2. \A i, j : BitFree(i, j)' <=> BitFree(i, j)
    BY <1>3 DEF vars, BitFree
  <2>3. BelowWrap' => BelowWrap
    BY <1>3, WrapStays DEF vars
  <2>. QED
    BY <1>0, <1>2, <2>1, <2>2, <2>3 DEF FrontInv
<1>4. ASSUME NEW i \in Words, NEW j \in Bits, FirstWord(i), FirstBit(i, j),
             bitmap' = [bitmap EXCEPT ![i] = @ \cup Mask(j)],
             grants' = [grants EXCEPT ![Frame(j, i)] = @ + 1]
      PROVE  FrontInv'
  <2>1. /\ j \in Cols /\ BitFree(i, j)
        /\ \A i2 \in Words, j2 \in Cols : BitFree(i2, j2)' => BitFree(i2, j2)
    BY <1>4, AllocPlace
  <2>2. \A w \in Words : bitmap[w] \subseteq bitmap'[w]
    BY <1>0, <1>4
  <2>3. BelowWrap' => BelowWrap
    BY <2>2, WrapStays
  <2>4. OneWord => \A c \in Cols : c < Marks => ~BitFree(KernelFirst \div WordBits, c)'
    <3>1. ASSUME NEW w, NEW c, BitFree(w, c)' PROVE BitFree(w, c)
      <4>1. bitmap[w] \subseteq bitmap'[w]
        BY <1>0, <1>4
      <4>. QED
        BY <3>1, <4>1 DEF BitFree
    <3>. QED
      BY <3>1 DEF FrontInv
  <2>5. \A f \in late' : f \in late \/ f = Frame(j, i)
    BY <1>0, <1>4
  <2>6. ASSUME OneWord, BelowWrap PROVE Frame(j, i) >= LengthenPages + Marks
    <3>1. Frame(j, i) = IntBits * i + j
      BY <1>4, <2>1, <2>6, FrameBelowWrap
    <3>. QED
      BY <1>1, <2>1, <2>6, <3>1 DEF FrontInv
  <2>. QED
    BY <1>0, <1>2, <2>1, <2>3, <2>4, <2>5, <2>6 DEF FrontInv
<1>. QED
  BY <1>3, <1>4 DEF LaterAlloc, pmm_alloc_page

\* BootInv is inductive.
LEMMA BootInvariant == BootSpec => []BootInv
<1>1. BootInv /\ [BootNext]_bootVars => BootInv'
  <2>. SUFFICES ASSUME BootInv, [BootNext]_bootVars PROVE BootInv'
    OBVIOUS
  <2>1. WordInv /\ FrontInv
    BY DEF BootInv
  <2>2. WordInv'
    BY <2>1, BootCalls, NextWordInv DEF bootVars
  <2>3. CASE UNCHANGED <<vars, left, late>>
    <3>1. BelowWrap' => BelowWrap
      BY <2>3, WrapStays DEF vars
    <3>2. \A i, j : BitFree(i, j)' <=> BitFree(i, j)
      BY <2>3 DEF vars, BitFree
    <3>3. Marks' = Marks /\ (OneWord' <=> OneWord) /\ Lengthened' = Lengthened
      BY <2>3 DEF vars, Marks, OneWord, Lengthened
    <3>4. FrontInv'
      BY <2>1, <2>3, <3>1, <3>2, <3>3 DEF FrontInv
    <3>. QED
      BY <2>2, <3>4 DEF BootInv
  <2>. QED
    BY <2>1, <2>2, <2>3, LengthenFront, LaterFront DEF BootInv, BootNext, ReadMap, Halted, bootVars
<1>. QED
  BY <1>1, InitFront, PTL DEF BootSpec

\* With the build's constants, an image of at most 55 pages and any number of words,
\* whatever the words behind the bitmap's first page hold: until the frames below 4 GiB
\* are used up, no frame granted after pmm_init is the kernel's or frame 0.
THEOREM LateGrantsStayClear ==
  ASSUME IntBits = 32, KernelFirst = 256, LengthenPages = 279
  PROVE  BootSpec => [](kernel_pages <= 55 /\ BelowWrap => LateGrantsAvoidKernel)
<1>1. BootInv => (kernel_pages <= 55 /\ BelowWrap => LateGrantsAvoidKernel)
  <2>. SUFFICES ASSUME BootInv, kernel_pages <= 55, BelowWrap, NEW f \in late
               PROVE  f # 0 /\ f \notin KernelFrames
    BY DEF LateGrantsAvoidKernel
  <2>1. kernel_pages \in Nat /\ OneWord
    BY PmmAssumption DEF BootInv, WordInv, TypeOK, OneWord, WordBits
  <2>2. f >= 279 + Marks
    BY <2>1 DEF BootInv, FrontInv
  <2>. QED
    BY <2>1, <2>2 DEF Marks, KernelFrames, ImageFrames, HeapFrame, BitmapFrame
<1>. QED
  BY <1>1, BootInvariant, PTL

-----------------------------------------------------------------------------
(* The memory map *)

TooMany == \/ Len(available_entries) > MAX_MMAP_ENTRIES
           \/ Len(reserved_entries) >= MAX_MMAP_ENTRIES

\* The loop of pmm_init ends at the end of its list, and a pointer passes the end of an
\* array only with too many entries.
MapReadExactly ==
  /\ mmap_pc = "done" => map = <<>> /\ e = Len(reserved_entries)
  /\ mmap_pc = "overrun" => TooMany

ReadInv ==
  /\ reserved_entries \in Seq([addr : Nat, len : Nat, available : BOOLEAN])
  /\ available_entries \in Seq([addr : Nat, len : Nat, available : BOOLEAN])
  /\ map \in Seq([addr : Nat, len : Nat, available : BOOLEAN])
  /\ mmap_pc \in {"tag", "entries"} => e = 0
  /\ mmap_pc = "reserved" => map = <<>> /\ e \in 0 .. Len(reserved_entries)
  /\ MapReadExactly

\* A step over the memory map keeps ReadInv.
LEMMA ReadStep ==
  ASSUME ReadInv, MmapStep
  PROVE  ReadInv'
<1>. DEFINE Entries == [addr : Nat, len : Nat, available : BOOLEAN]
<1>0. /\ reserved_entries \in Seq(Entries) /\ available_entries \in Seq(Entries) /\ map \in Seq(Entries)
      /\ MAX_MMAP_ENTRIES \in Nat \ {0} /\ FirstPageEnd \in Nat \ {0}
  BY MmapAssumption DEF ReadInv
<1>1. CASE FindTag
  BY <1>0, <1>1 DEF FindTag, ReadInv, MapReadExactly
<1>2. CASE SortEntry
  <2>. HIDE DEF Entries
  <2>a. map # <<>> /\ map' = Tail(map) /\ Tail(map) \in Seq(Entries) /\ Head(map) \in Entries
    BY <1>0, <1>2 DEF SortEntry
  <2>1. e' = e /\ e = 0 /\ mmap_pc' \in {"entries", "overrun"}
    BY <1>2 DEF SortEntry, ReadInv
  <2>b. /\ Append(available_entries, Head(map)) \in Seq(Entries)
        /\ Append(reserved_entries, Head(map)) \in Seq(Entries)
    BY <1>0, <2>a
  <2>2. reserved_entries' \in Seq(Entries) /\ available_entries' \in Seq(Entries)
    BY <1>0, <1>2, <2>b DEF SortEntry
  <2>3. Len(reserved_entries') \in Nat
    BY <2>2
  <2>4. mmap_pc' = "overrun" => TooMany'
    BY <1>0, <1>2, <2>3 DEF SortEntry, TooMany
  <2>. QED
    BY <2>a, <2>1, <2>2, <2>4 DEF ReadInv, MapReadExactly, Entries
<1>3. CASE EntriesSorted
  <2>1. mmap_pc' = "reserved" /\ map = <<>> /\ e = 0 /\ UNCHANGED <<map, available_entries, reserved_entries, e>>
    BY <1>3 DEF EntriesSorted, ReadInv
  <2>2. 0 \in 0 .. Len(reserved_entries)
    BY <1>0
  <2>. QED
    BY <1>0, <2>1, <2>2 DEF ReadInv, MapReadExactly
<1>4. CASE ReservedStep
  <2>0. /\ map = <<>> /\ e \in 0 .. Len(reserved_entries) /\ Len(reserved_entries) \in Nat
        /\ UNCHANGED <<map, available_entries, reserved_entries>>
    BY <1>0, <1>4 DEF ReservedStep, ReadInv
  <2>1. PICK x \in EntryAt(e) :
          IF Ahead(x) THEN /\ e' = e + 1
                           /\ mmap_pc' = IF e' > Len(reserved_entries) THEN "overrun" ELSE "reserved"
          ELSE mmap_pc' = "done" /\ UNCHANGED e
    BY <1>4 DEF ReservedStep
  <2>2. CASE ~Ahead(x)
    <3>1. e = Len(reserved_entries) /\ e' = e /\ mmap_pc' = "done"
      BY <2>1, <2>2 DEF Ahead
    <3>. QED
      BY <1>0, <2>0, <3>1 DEF ReadInv, MapReadExactly
  <2>3. CASE Ahead(x) /\ e < Len(reserved_entries)
    <3>1. mmap_pc' = "reserved" /\ e' \in 0 .. Len(reserved_entries)
      BY <2>0, <2>1, <2>3
    <3>. QED
      BY <1>0, <2>0, <3>1 DEF ReadInv, MapReadExactly
  <2>4. CASE Ahead(x) /\ e = Len(reserved_entries)
    <3>1. mmap_pc' = "overrun"
      BY <2>0, <2>1, <2>4
    <3>2. Len(reserved_entries) >= MAX_MMAP_ENTRIES
      <4>1. x.addr + x.len >= FirstPageEnd
        BY <2>4 DEF Ahead
      <4>2. x # Zeros
        BY <1>0, <4>1 DEF Zeros
      <4>. QED
        BY <1>0, <2>0, <2>4, <4>2 DEF EntryAt
    <3>3. TooMany'
      BY <2>0, <3>2 DEF TooMany
    <3>. QED
      BY <1>0, <2>0, <3>1, <3>3 DEF ReadInv, MapReadExactly
  <2>. QED
    BY <2>0, <2>2, <2>3, <2>4
<1>. QED
  BY <1>1, <1>2, <1>3, <1>4 DEF MmapStep

\* The safety half of ReservedLoopEnds, for arrays and maps of any length: although its
\* condition has || where && should be, pmm_init's loop stops exactly at the end of its
\* list unless there are too many entries, because the entry behind the list is zero.
THEOREM MapStaysReadExactly == BootSpec => []MapReadExactly
<1>1. BootInit => ReadInv
  BY MmapAssumption DEF BootInit, MmapInit, ReadInv, MapReadExactly
<1>2. ReadInv /\ [BootNext]_bootVars => ReadInv'
  <2>. SUFFICES ASSUME ReadInv, [BootNext]_bootVars PROVE ReadInv'
    OBVIOUS
  <2>1. CASE UNCHANGED mmapVars
    BY <2>1 DEF mmapVars, ReadInv, MapReadExactly, TooMany
  <2>. QED
    BY <2>1, ReadStep DEF BootNext, ReadMap, LengthenStep, LaterAlloc, Halted, bootVars
<1>3. ReadInv => MapReadExactly
  BY DEF ReadInv
<1>. QED
  BY <1>1, <1>2, <1>3, PTL DEF BootSpec
=============================================================================
