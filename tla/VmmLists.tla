------------------------------ MODULE VmmLists ------------------------------
(***************************************************************************)
(* Lemmas about the lists of Vmm: what linking and unlinking an object     *)
(* does to a list, the inductive invariant VmmInv of VmmProofs, where the  *)
(* searches of vmm_alloc stop in a list that satisfies it, and that every  *)
(* step keeps it.                                                          *)
(***************************************************************************)
EXTENDS Vmm, WellFoundedInduction, TLAPS

\* What the concatenation of two sequences is.
LEMMA ConcatShape ==
  ASSUME NEW S, NEW a \in Seq(S), NEW b \in Seq(S)
  PROVE  /\ a \o b \in Seq(S) /\ Len(a) \in Nat /\ Len(b) \in Nat
         /\ Len(a \o b) = Len(a) + Len(b)
         /\ \A j \in 1 .. Len(a) : (a \o b)[j] = a[j]
         /\ \A j \in Len(a) + 1 .. Len(a) + Len(b) : (a \o b)[j] = b[j - Len(a)]
  OBVIOUS

\* The list l is q with e as its i-th object, or q without its i-th object.
IsLinked(q, i, e, l) ==
  /\ l \in Seq(Regions) /\ Len(q) \in Nat /\ Len(l) = Len(q) + 1 /\ l[i] = e
  /\ \A j \in 1 .. i - 1 : l[j] = q[j]
  /\ \A j \in i + 1 .. Len(q) + 1 : l[j] = q[j - 1]

IsUnlinked(q, i, l) ==
  /\ l \in Seq(Regions) /\ Len(q) \in Nat /\ Len(l) = Len(q) - 1
  /\ \A j \in 1 .. i - 1 : l[j] = q[j]
  /\ \A j \in i .. Len(q) - 1 : l[j] = q[j + 1]

\* What a list is with one more object.
LEMMA LinkedShape ==
  ASSUME NEW q \in Seq(Regions), NEW e \in Regions, NEW i \in 1 .. Len(q) + 1
  PROVE  IsLinked(q, i, e, Linked(q, i, e))
<1>. DEFINE a == SubSeq(q, 1, i - 1)
            b == SubSeq(q, i, Len(q))
<1>1. a \in Seq(Regions) /\ Len(a) = i - 1 /\ \A j \in 1 .. i - 1 : a[j] = q[j]
  OBVIOUS
<1>2. b \in Seq(Regions) /\ Len(b) = Len(q) - i + 1 /\ \A j \in 1 .. Len(q) - i + 1 : b[j] = q[i + j - 1]
  OBVIOUS
<1>3. Linked(q, i, e) = (a \o <<e>>) \o b
  BY DEF Linked
<1>. HIDE DEF a, b
<1>4. a \o <<e>> \in Seq(Regions) /\ Len(a \o <<e>>) = i /\ (a \o <<e>>)[i] = e
      /\ \A j \in 1 .. i - 1 : (a \o <<e>>)[j] = q[j]
  BY <1>1
<1>. DEFINE c == a \o <<e>>
<1>. HIDE DEF c
<1>5. c \in Seq(Regions) /\ Len(c) = i /\ c[i] = e /\ \A j \in 1 .. i - 1 : c[j] = q[j]
  BY <1>4 DEF c
<1>6. /\ c \o b \in Seq(Regions) /\ Len(c \o b) = Len(q) + 1
      /\ \A j \in 1 .. i : (c \o b)[j] = c[j]
      /\ \A j \in i + 1 .. Len(q) + 1 : (c \o b)[j] = b[j - i]
  <2>1. /\ c \o b \in Seq(Regions) /\ Len(c \o b) = Len(c) + Len(b)
        /\ \A j \in 1 .. Len(c) : (c \o b)[j] = c[j]
        /\ \A j \in Len(c) + 1 .. Len(c) + Len(b) : (c \o b)[j] = b[j - Len(c)]
    <3>1. c \in Seq(Regions) /\ b \in Seq(Regions)
      BY <1>2, <1>5
    <3>. QED
      BY <3>1, ConcatShape, Zenon
  <2>2. Len(c) = i /\ Len(c) + Len(b) = Len(q) + 1
    BY <1>2, <1>5
  <2>. QED
    BY <2>1, <2>2
<1>7. ASSUME NEW j \in i + 1 .. Len(q) + 1 PROVE (c \o b)[j] = q[j - 1]
  <2>1. PICK n \in Nat : n = Len(q)
    OBVIOUS
  <2>2. j - i \in 1 .. n - i + 1 /\ i + (j - i) - 1 = j - 1
    BY <2>1
  <2>. QED
    BY <1>2, <1>6, <2>1, <2>2, Zenon
<1>8. Linked(q, i, e) = c \o b
  BY <1>3 DEF c
<1>9. (c \o b)[i] = e /\ Len(q) \in Nat /\ \A j \in 1 .. i - 1 : (c \o b)[j] = q[j]
  BY <1>5, <1>6
<1>. QED
  BY <1>6, <1>7, <1>8, <1>9, Zenon DEF IsLinked

\* What a list is without one of its objects.
LEMMA UnlinkedShape ==
  ASSUME NEW q \in Seq(Regions), NEW i \in 1 .. Len(q)
  PROVE  IsUnlinked(q, i, Unlinked(q, i))
<1>. DEFINE a == SubSeq(q, 1, i - 1)
            b == SubSeq(q, i + 1, Len(q))
<1>1. a \in Seq(Regions) /\ Len(a) = i - 1 /\ \A j \in 1 .. i - 1 : a[j] = q[j]
  OBVIOUS
<1>2. b \in Seq(Regions) /\ Len(b) = Len(q) - i /\ \A j \in 1 .. Len(q) - i : b[j] = q[i + j]
  OBVIOUS
<1>3. Unlinked(q, i) = a \o b
  BY DEF Unlinked
<1>. HIDE DEF a, b
<1>4. /\ a \o b \in Seq(Regions) /\ Len(a \o b) = Len(q) - 1
      /\ \A j \in 1 .. i - 1 : (a \o b)[j] = a[j]
      /\ \A j \in i .. Len(q) - 1 : (a \o b)[j] = b[j - (i - 1)]
  <2>1. /\ a \o b \in Seq(Regions) /\ Len(a \o b) = Len(a) + Len(b)
        /\ \A j \in 1 .. Len(a) : (a \o b)[j] = a[j]
        /\ \A j \in Len(a) + 1 .. Len(a) + Len(b) : (a \o b)[j] = b[j - Len(a)]
    <3>1. a \in Seq(Regions) /\ b \in Seq(Regions)
      BY <1>1, <1>2
    <3>. QED
      BY <3>1, ConcatShape, Zenon
  <2>2. Len(a) = i - 1 /\ Len(a) + 1 = i /\ Len(a) + Len(b) = Len(q) - 1
    BY <1>1, <1>2
  <2>. QED
    BY <2>1, <2>2, Zenon
<1>5. ASSUME NEW j \in i .. Len(q) - 1 PROVE (a \o b)[j] = q[j + 1]
  <2>1. PICK n \in Nat : n = Len(q)
    OBVIOUS
  <2>2. j - (i - 1) \in 1 .. n - i /\ i + (j - (i - 1)) = j + 1
    BY <2>1
  <2>. QED
    BY <1>2, <1>4, <2>1, <2>2, Zenon
<1>6. Len(q) \in Nat /\ \A j \in 1 .. i - 1 : (a \o b)[j] = q[j]
  BY <1>1, <1>4
<1>. QED
  BY <1>3, <1>4, <1>5, <1>6, Zenon DEF IsUnlinked

\* The members of a sequence are what it has at its indices.
LEMMA ObjectsShape ==
  ASSUME NEW S, NEW q \in Seq(S)
  PROVE  \A x : x \in Objects(q) <=> \E j \in 1 .. Len(q) : q[j] = x
  BY DEF Objects

\* Insertion adds one member.
LEMMA LinkedObjects ==
  ASSUME NEW q \in Seq(Regions), NEW e \in Regions, NEW i \in 1 .. Len(q) + 1
  PROVE  Objects(Linked(q, i, e)) = Objects(q) \cup {e}
<1>. DEFINE r == Linked(q, i, e)
<1>1. /\ r \in Seq(Regions) /\ Len(r) = Len(q) + 1 /\ r[i] = e
      /\ \A j \in 1 .. i - 1 : r[j] = q[j]
      /\ \A j \in i + 1 .. Len(q) + 1 : r[j] = q[j - 1]
  <2>1. IsLinked(q, i, e, r)
    BY LinkedShape, Zenon
  <2>. HIDE DEF r
  <2>. QED
    BY <2>1, Zenon DEF IsLinked
<1>. HIDE DEF r
<1>2. ASSUME NEW j \in 1 .. Len(r) PROVE r[j] = e \/ \E l \in 1 .. Len(q) : q[l] = r[j]
  <2>1. CASE j < i
    <3>1. j \in 1 .. i - 1 /\ j \in 1 .. Len(q)
      BY <1>1, <2>1
    <3>. QED BY <1>1, <3>1, Zenon
  <2>2. CASE j > i
    <3>1. j \in i + 1 .. Len(q) + 1 /\ j - 1 \in 1 .. Len(q)
      BY <1>1, <2>2
    <3>. QED BY <1>1, <3>1, Zenon
  <2>3. CASE j = i
    BY <1>1, <2>3
  <2>. QED BY <1>1, <2>1, <2>2, <2>3
<1>3. ASSUME NEW l \in 1 .. Len(q) PROVE \E j \in 1 .. Len(r) : r[j] = q[l]
  <2>1. CASE l < i
    <3>1. l \in 1 .. i - 1 /\ l \in 1 .. Len(r)
      BY <1>1, <2>1
    <3>. QED BY <1>1, <3>1
  <2>2. CASE l >= i
    <3>1. l + 1 \in i + 1 .. Len(q) + 1 /\ l + 1 \in 1 .. Len(r) /\ (l + 1) - 1 = l
      BY <1>1, <2>2
    <3>2. r[l + 1] = q[l]
      BY <1>1, <3>1
    <3>. QED BY <3>1, <3>2
  <2>. QED BY <2>1, <2>2
<1>4. i \in 1 .. Len(r)
  BY <1>1
<1>5. \A x : x \in Objects(r) <=> \E j \in 1 .. Len(r) : r[j] = x
  BY <1>1, ObjectsShape
<1>6. \A x : x \in Objects(q) <=> \E j \in 1 .. Len(q) : q[j] = x
  BY ObjectsShape
<1>7. ASSUME NEW x \in Objects(r) PROVE x = e \/ x \in Objects(q)
  BY <1>2, <1>5, <1>6
<1>8. ASSUME NEW x \in Objects(q) PROVE x \in Objects(r)
  BY <1>3, <1>5, <1>6
<1>9. e \in Objects(r)
  BY <1>1, <1>4, <1>5
<1>10. Objects(r) = Objects(q) \cup {e}
  BY <1>7, <1>8, <1>9
<1>. QED
  BY <1>10 DEF r

-----------------------------------------------------------------------------
(* The inductive invariant *)

Sorted(q) == \A a, b \in 1 .. Len(q) : a < b => q[a].base <= q[b].base
Increasing(q) == \A a, b \in 1 .. Len(q) : a < b => q[a].base < q[b].base

\* The object of the bitmap, before and after pmm_init, and that of the page tables.
PmmObject == Region(KERNEL_PMM_START,
                    IF phase = "pmm_init" THEN 1 ELSE KERNEL_HEAP_START - KERNEL_PMM_START)
TableObject == Region(KERNEL_PAGE_TBL_START, TablePages)

\* Where a stack may begin: two pages above the heap page, or a multiple of a stack
\* and its guard page further up.
StackPlaces == {b \in Nat : \E k \in Nat : b = KERNEL_HEAP_START + 2 + 3 * k}

\* What holds however much alloc_mmio has handed out.
Types ==
  /\ mmio_region \in Nat /\ VGA_TEXT_BUFFER_BASE < mmio_region
  /\ current_vmm \in Spaces /\ loading \in Procs \cup {NONE} /\ alive \subseteq Spaces
  /\ phase = "run" => current_process \in Spaces
  /\ phase \notin {"run", "panic"} => current_vmm = Initial
  /\ acpi_tables \in Seq([base : Nat, table : Tables])
  /\ phase = "map_table" => acpi_tables # <<>>

\* The regions of the processes are below the kernel.
UserInv ==
  /\ user \in [Spaces -> Seq(Regions)]
  /\ \A s \in Spaces : Sorted(user[s]) /\ \A j \in 1 .. Len(user[s]) : user[s][j].base < KERNEL_TEXT_START

\* Every object of the kernel ends where the windows do, or is the bitmap's, a stack
\* or the page tables'.
KernelInv ==
  /\ kernel \in Seq(Regions) /\ Increasing(kernel)
  /\ kernel # <<>> /\ kernel[1].base = KERNEL_TEXT_START
  /\ {PmmObject, TableObject} \subseteq Objects(kernel)
  /\ \A q \in Objects(kernel) :
       \/ q.base < mmio_region /\ q.base + q.length <= mmio_region
       \/ q \in stacks \cup {PmmObject, TableObject}

\* Stacks are at their places, from the lowest one in use up.
StackInv ==
  /\ stacks \subseteq Objects(kernel)
  /\ kernel_stack_ptr \in Int /\ kernel_stack_ptr <= KERNEL_STACK_START
  /\ phase # "panic" => kernel_stack_ptr \in StackPlaces
  /\ \A r \in stacks : /\ r.base \in StackPlaces /\ r.length = StackPages
                       /\ kernel_stack_ptr <= r.base /\ r.base + StackStep <= KERNEL_STACK_START

\* Windows lie between the console and mmio_region, and are mapped.
WindowInv ==
  \A w \in windows :
    /\ w \in Regions /\ VGA_TEXT_BUFFER_BASE < w.base /\ w.base + w.length <= mmio_region
    /\ \A p \in Pages(w) : kpt[p] = w.base

ListInv == UserInv /\ KernelInv /\ StackInv /\ WindowInv

VmmInv == Types /\ (mmio_region <= KERNEL_PMM_START => ListInv)

-----------------------------------------------------------------------------
(* The searches of vmm_alloc *)

\* A set of numbers that is not empty has a least one.
LEMMA LeastExists ==
  \A S \in SUBSET Nat : S # {} => \E x \in S : \A y \in S : x <= y
<1>. SUFFICES ASSUME NEW S \in SUBSET Nat, S # {} PROVE \E x \in S : \A y \in S : x <= y
  OBVIOUS
<1>. DEFINE R == OpToRel(<, Nat)
<1>1. \E x \in S : \A y \in S : ~(<<y, x>> \in R)
  <2>1. IsWellFoundedOn(R, Nat)
    BY NatLessThanWellFounded
  <2>. HIDE DEF R
  <2>. QED
    BY <2>1, WFMin, Zenon
<1>2. PICK x \in S : \A y \in S : ~(<<y, x>> \in R)
  BY <1>1
<1>3. ASSUME NEW y \in S PROVE x <= y
  <2>1. ~(y < x)
    BY <1>2, Zenon DEF OpToRel
  <2>. QED
    BY <2>1
<1>. QED
  BY <1>3

\* The list of a space: its head, the regions of the process, the kernel's.
LEMMA ListParts ==
  ASSUME NEW s \in Spaces, user[s] \in Seq(Regions), kernel \in Seq(Regions), kernel # <<>>
  PROVE  /\ List(s) \in Seq(Regions)
         /\ Len(user[s]) \in Nat /\ Len(kernel) \in Nat /\ Len(kernel) >= 1
         /\ Len(List(s)) = 1 + Len(user[s]) + Len(kernel)
         /\ List(s)[1] = Region(0, 0)
         /\ \A j \in 1 .. Len(user[s]) : List(s)[1 + j] = user[s][j]
         /\ \A j \in 1 .. Len(kernel) : List(s)[1 + Len(user[s]) + j] = kernel[j]
<1>. DEFINE h == <<Region(0, 0)>>
            u == user[s]
            hu == h \o u
<1>1. h \in Seq(Regions) /\ Len(h) = 1 /\ h[1] = Region(0, 0)
  BY DEF Region, Regions
<1>2. u \in Seq(Regions) /\ Len(u) \in Nat /\ kernel \in Seq(Regions) /\ Len(kernel) \in Nat /\ Len(kernel) >= 1
  OBVIOUS
<1>. HIDE DEF h, u
<1>3. /\ hu \in Seq(Regions) /\ Len(hu) = Len(h) + Len(u)
      /\ \A j \in 1 .. Len(h) : hu[j] = h[j]
      /\ \A j \in Len(h) + 1 .. Len(h) + Len(u) : hu[j] = u[j - Len(h)]
  <2>1. h \in Seq(Regions) /\ u \in Seq(Regions)
    BY <1>1, <1>2
  <2>. QED
    BY <2>1, ConcatShape, Zenon
<1>. HIDE DEF hu
<1>0. hu \in Seq(Regions) /\ kernel \in Seq(Regions)
  BY <1>2, <1>3
<1>4. /\ hu \o kernel \in Seq(Regions) /\ Len(hu \o kernel) = Len(hu) + Len(kernel)
      /\ \A j \in 1 .. Len(hu) : (hu \o kernel)[j] = hu[j]
      /\ \A j \in Len(hu) + 1 .. Len(hu) + Len(kernel) : (hu \o kernel)[j] = kernel[j - Len(hu)]
  BY <1>0, ConcatShape, Zenon
<1>5. Len(hu) = 1 + Len(u)
  BY <1>1, <1>3
<1>6. (hu \o kernel)[1] = Region(0, 0)
  <2>1. 1 \in 1 .. Len(hu) /\ 1 \in 1 .. Len(h)
    BY <1>1, <1>2, <1>5
  <2>. QED
    BY <2>1, <1>1, <1>3, <1>4
<1>7. ASSUME NEW j \in 1 .. Len(u) PROVE (hu \o kernel)[1 + j] = u[j]
  <2>1. 1 + j \in 1 .. Len(hu) /\ 1 + j \in Len(h) + 1 .. Len(h) + Len(u) /\ (1 + j) - Len(h) = j
    BY <1>1, <1>2, <1>5
  <2>. QED
    BY <2>1, <1>3, <1>4
<1>8. ASSUME NEW j \in 1 .. Len(kernel) PROVE (hu \o kernel)[1 + Len(u) + j] = kernel[j]
  <2>1. /\ 1 + Len(u) + j \in Len(hu) + 1 .. Len(hu) + Len(kernel)
        /\ (1 + Len(u) + j) - Len(hu) = j
    BY <1>2, <1>5
  <2>. QED
    BY <2>1, <1>4
<1>9. List(s) = hu \o kernel
  BY DEF List, hu, h, u
<1>. QED
  BY <1>2, <1>4, <1>5, <1>6, <1>7, <1>8, <1>9, Zenon DEF u

\* The same under the invariant.
LEMMA ListShape ==
  ASSUME UserInv, KernelInv, NEW s \in Spaces
  PROVE  /\ List(s) \in Seq(Regions)
         /\ Len(user[s]) \in Nat /\ Len(kernel) \in Nat /\ Len(kernel) >= 1
         /\ Len(List(s)) = 1 + Len(user[s]) + Len(kernel)
         /\ List(s)[1] = Region(0, 0)
         /\ \A j \in 1 .. Len(user[s]) : List(s)[1 + j] = user[s][j]
         /\ \A j \in 1 .. Len(kernel) : List(s)[1 + Len(user[s]) + j] = kernel[j]
<1>1. user[s] \in Seq(Regions) /\ kernel \in Seq(Regions) /\ kernel # <<>>
  BY DEF UserInv, KernelInv
<1>. QED
  BY <1>1, ListParts

\* The members of a list before any other have bases that are not higher.
LEMMA ListSorted ==
  ASSUME UserInv, KernelInv, NEW s \in Spaces
  PROVE  Sorted(List(s))
<1>. DEFINE L == List(s)
            m == Len(user[s])
<1>1. /\ m \in Nat /\ Len(kernel) \in Nat /\ Len(kernel) >= 1
      /\ Len(L) = 1 + m + Len(kernel) /\ L[1] = Region(0, 0)
      /\ \A j \in 1 .. m : L[1 + j] = user[s][j]
      /\ \A j \in 1 .. Len(kernel) : L[1 + m + j] = kernel[j]
      /\ user[s] \in Seq(Regions) /\ kernel \in Seq(Regions)
  BY ListShape DEF UserInv, KernelInv
<1>0. KERNEL_TEXT_START \in Nat
  BY VmmAssumption
<1>. HIDE DEF L, m
<1>2. ASSUME NEW j \in 1 .. Len(L)
      PROVE  \/ j = 1 /\ L[j].base = 0
             \/ /\ j - 1 \in 1 .. m /\ L[j] = user[s][j - 1]
                /\ L[j].base \in Nat /\ L[j].base < KERNEL_TEXT_START
             \/ /\ j - (1 + m) \in 1 .. Len(kernel) /\ L[j] = kernel[j - (1 + m)]
                /\ L[j].base \in Nat /\ KERNEL_TEXT_START <= L[j].base
  <2>1. CASE j = 1
    BY <1>1, <2>1 DEF Region
  <2>2. CASE j > 1 /\ j <= 1 + m
    <3>1. j - 1 \in 1 .. m /\ 1 + (j - 1) = j
      BY <1>1, <2>2
    <3>2. user[s][j - 1] \in Regions
      BY <1>1, <3>1 DEF m
    <3>3. user[s][j - 1].base < KERNEL_TEXT_START
      BY <3>1 DEF UserInv, m
    <3>4. user[s][j - 1].base \in Nat
      BY <3>2, Zenon DEF Regions
    <3>. QED
      BY <1>1, <3>1, <3>3, <3>4, Zenon
  <2>3. CASE j > 1 + m
    <3>1. j - (1 + m) \in 1 .. Len(kernel) /\ 1 + m + (j - (1 + m)) = j
      BY <1>1, <2>3
    <3>2. L[j] = kernel[j - (1 + m)]
      BY <1>1, <3>1
    <3>. DEFINE l == j - (1 + m)
    <3>0. l \in 1 .. Len(kernel) /\ 1 \in 1 .. Len(kernel)
      BY <1>1, <3>1
    <3>. HIDE DEF l
    <3>3. kernel[l] \in Regions /\ kernel[1] \in Regions
      BY <1>1, <3>0
    <3>4. kernel[1].base <= kernel[l].base
      <4>1. CASE l = 1
        BY <3>3, <4>1 DEF Regions
      <4>2. CASE l > 1
        <5>1. l \in 1 .. Len(kernel) /\ 1 \in 1 .. Len(kernel) /\ 1 < l
          BY <3>0, <4>2
        <5>2. kernel[1].base < kernel[l].base
          BY <5>1 DEF KernelInv, Increasing
        <5>. QED
          BY <5>2, <3>3 DEF Regions
      <4>. QED
        BY <3>0, <4>1, <4>2
    <3>5. kernel[l].base \in Nat /\ KERNEL_TEXT_START <= kernel[l].base
      BY <3>3, <3>4 DEF KernelInv, Regions
    <3>. QED
      BY <3>1, <3>2, <3>5 DEF l
  <2>. QED
    BY <1>1, <2>1, <2>2, <2>3
<1>3. ASSUME NEW a \in 1 .. Len(L), NEW b \in 1 .. Len(L), a < b
      PROVE  L[a].base <= L[b].base
  <2>1. CASE a = 1
    <3>1. L[1].base = 0
      BY <1>1 DEF Region
    <3>2. b # 1
      BY <1>3, <2>1
    <3>3. L[b].base \in Nat
      BY <1>2, <3>2
    <3>. QED
      BY <2>1, <3>1, <3>3
  <2>2. CASE a # 1 /\ b <= 1 + m
    <3>1. a - 1 \in 1 .. m /\ b - 1 \in 1 .. m /\ a - 1 < b - 1
      BY <1>1, <1>3, <2>2
    <3>2. user[s][a - 1].base <= user[s][b - 1].base
      BY <3>1 DEF UserInv, Sorted, m
    <3>3. 1 + (a - 1) = a /\ 1 + (b - 1) = b
      OBVIOUS
    <3>4. L[a] = user[s][a - 1] /\ L[b] = user[s][b - 1]
      BY <1>1, <3>1, <3>3, Zenon
    <3>. QED
      BY <3>2, <3>4
  <2>3. CASE a > 1 + m
    <3>1. a - (1 + m) \in 1 .. Len(kernel) /\ b - (1 + m) \in 1 .. Len(kernel) /\ a - (1 + m) < b - (1 + m)
      BY <1>1, <1>3, <2>3
    <3>2. kernel[a - (1 + m)].base < kernel[b - (1 + m)].base
      BY <3>1 DEF KernelInv, Increasing
    <3>3. 1 + m + (a - (1 + m)) = a /\ 1 + m + (b - (1 + m)) = b
      BY <1>1
    <3>4. L[a] = kernel[a - (1 + m)] /\ L[b] = kernel[b - (1 + m)]
      BY <1>1, <3>1, <3>3, Zenon
    <3>5. kernel[a - (1 + m)] \in Regions /\ kernel[b - (1 + m)] \in Regions
      BY <1>1, <3>1
    <3>6. kernel[a - (1 + m)].base \in Nat /\ kernel[b - (1 + m)].base \in Nat
      BY <3>5 DEF Regions
    <3>. QED
      BY <3>2, <3>4, <3>6
  <2>4. CASE a # 1 /\ a <= 1 + m /\ b > 1 + m
    <3>1. L[a].base \in Nat /\ L[a].base < KERNEL_TEXT_START
      BY <1>1, <1>2, <2>4
    <3>2. L[b].base \in Nat /\ KERNEL_TEXT_START <= L[b].base
      BY <1>1, <1>2, <2>4
    <3>. QED
      BY <1>0, <3>1, <3>2
  <2>. QED
    BY <1>1, <2>1, <2>2, <2>3, <2>4
<1>. QED
  BY <1>3 DEF Sorted, L

\* The search stops at the first pair of objects that are not both below or above the
\* new region, or at the end.
LEMMA PlaceFirst ==
  ASSUME NEW s \in Spaces, NEW start \in Nat, List(s) \in Seq(Regions), List(s) # <<>>
  PROVE  /\ Place(s, start) \in 1 .. Len(List(s))
         /\ \/ Place(s, start) = Len(List(s))
            \/ List(s)[Place(s, start)].base <= start /\ start < List(s)[Place(s, start) + 1].base
         /\ \A j \in 1 .. Place(s, start) - 1 : ~(List(s)[j].base <= start /\ start < List(s)[j + 1].base)
<1>. DEFINE L == List(s)
            n == Len(L)
            Between(i) == L[i].base <= start /\ start < L[i + 1].base
            Stop == {i \in 1 .. n : i = n \/ Between(i)}
            P(i) == (i = n \/ Between(i)) /\ \A j \in 1 .. i - 1 : ~Between(j)
<1>1. n \in Nat /\ n >= 1
  OBVIOUS
<1>2. Place(s, start) = CHOOSE i \in 1 .. n : P(i)
  BY DEF Place
<1>. HIDE DEF L, n, Between
<1>3. n \in Stop /\ Stop \in SUBSET Nat
  BY <1>1
<1>. HIDE DEF Stop
<1>4. PICK x \in Stop : \A y \in Stop : x <= y
  BY <1>3, LeastExists
<1>5. x \in 1 .. n /\ P(x)
  <2>1. x \in 1 .. n /\ (x = n \/ Between(x))
    BY <1>4 DEF Stop
  <2>2. ASSUME NEW j \in 1 .. x - 1 PROVE ~Between(j)
    <3>1. j \in 1 .. n /\ ~(x <= j)
      BY <1>1, <2>1
    <3>. QED
      BY <1>4, <3>1 DEF Stop
  <2>. QED
    BY <2>1, <2>2
<1>. HIDE DEF P
<1>6. Place(s, start) \in 1 .. n /\ P(Place(s, start))
  BY <1>2, <1>5
<1>. QED
  BY <1>6 DEF P, Between, n, L

\* From an object that is not above the new region to one that is, there are two
\* neighbours between which it belongs.
LEMMA Crossing ==
  ASSUME NEW L \in Seq(Regions), NEW start \in Nat, NEW k \in 1 .. Len(L),
         L[1].base <= start, start < L[k].base
  PROVE  \E j \in 1 .. k - 1 : L[j].base <= start /\ start < L[j + 1].base
<1>. DEFINE Above == {j \in 1 .. Len(L) : start < L[j].base}
<1>1. k \in Above /\ Above \in SUBSET Nat
  OBVIOUS
<1>. HIDE DEF Above
<1>2. PICK m \in Above : \A y \in Above : m <= y
  BY <1>1, LeastExists, Zenon
<1>3. m \in 1 .. Len(L) /\ start < L[m].base /\ m <= k /\ k \in Nat
  BY <1>1, <1>2 DEF Above
<1>4. 1 \in 1 .. Len(L) /\ L[1] \in Regions
  BY <1>3
<1>5. m # 1
  BY <1>3, <1>4 DEF Regions
<1>6. m - 1 \in 1 .. k - 1 /\ m - 1 \in 1 .. Len(L) /\ (m - 1) + 1 = m /\ ~(m <= m - 1)
  BY <1>3, <1>5
<1>7. m - 1 \notin Above
  BY <1>2, <1>6
<1>8. L[m - 1] \in Regions
  BY <1>6
<1>9. L[m - 1].base <= start
  <2>1. L[m - 1].base \in Nat
    BY <1>8, Zenon DEF Regions
  <2>2. ~(start < L[m - 1].base)
    BY <1>6, <1>7, Zenon DEF Above
  <2>. QED
    BY <2>1, <2>2
<1>. QED
  BY <1>3, <1>6, <1>9

\* The search stops where the new region belongs.
LEMMA PlaceShape ==
  ASSUME UserInv, KernelInv, NEW s \in Spaces, NEW start \in Nat
  PROVE  /\ Place(s, start) \in 1 .. Len(List(s))
         /\ \A j \in 1 .. Len(List(s)) :
              /\ j <= Place(s, start) => List(s)[j].base <= start
              /\ j > Place(s, start) => start < List(s)[j].base
<1>. DEFINE L == List(s)
            n == Len(L)
            i == Place(s, start)
            Between(j) == L[j].base <= start /\ start < L[j + 1].base
<1>1. L \in Seq(Regions) /\ L # <<>> /\ n \in Nat /\ L[1].base = 0 /\ Sorted(L)
  BY ListShape, ListSorted DEF Region
<1>2. i \in 1 .. n /\ (i = n \/ Between(i)) /\ \A j \in 1 .. i - 1 : ~Between(j)
  BY <1>1, PlaceFirst, Zenon
<1>. HIDE DEF L, n, i
<1>3. ASSUME NEW j \in 1 .. n PROVE L[j].base \in Nat
  <2>1. L[j] \in Regions
    BY <1>1 DEF n
  <2>. QED
    BY <2>1 DEF Regions
<1>4. CASE Between(i)
  <2>1. ASSUME NEW j \in 1 .. n, j <= i PROVE L[j].base <= start
    <3>1. j = i \/ L[j].base <= L[i].base
      BY <1>1, <1>2, <2>1 DEF Sorted, n
    <3>. QED
      BY <1>2, <1>3, <1>4, <3>1
  <2>2. ASSUME NEW j \in 1 .. n, j > i PROVE start < L[j].base
    <3>1. i + 1 \in 1 .. n /\ (j = i + 1 \/ i + 1 < j)
      BY <1>1, <1>2, <2>2
    <3>2. j = i + 1 \/ L[i + 1].base <= L[j].base
      BY <1>1, <3>1 DEF Sorted, n
    <3>. QED
      BY <1>3, <1>4, <3>1, <3>2
  <2>. QED
    BY <1>2, <2>1, <2>2 DEF i, n, L
<1>5. CASE i = n
  <2>1. ASSUME NEW j \in 1 .. n PROVE L[j].base <= start /\ ~(j > i)
    <3>1. ASSUME start < L[j].base PROVE FALSE
      <4>1. \E l \in 1 .. j - 1 : Between(l)
        <5>1. L[1].base <= start /\ j \in 1 .. Len(L)
          BY <1>1 DEF n
        <5>. QED
          BY <1>1, <3>1, <5>1, Crossing, Zenon
      <4>. QED
        BY <1>2, <1>5, <4>1
    <3>. QED
      BY <1>1, <1>3, <1>5, <3>1
  <2>. QED
    BY <1>2, <2>1 DEF i, n, L
<1>. QED
  BY <1>2, <1>4, <1>5

\* A region below the kernel is placed among those of the process.
LEMMA UserPlace ==
  ASSUME UserInv, KernelInv, NEW s \in Spaces, NEW start \in Nat, start < KERNEL_TEXT_START
  PROVE  /\ Place(s, start) \in 1 .. Len(user[s]) + 1
         /\ \A j \in 1 .. Len(user[s]) :
              /\ j < Place(s, start) => user[s][j].base <= start
              /\ j >= Place(s, start) => start < user[s][j].base
<1>. DEFINE L == List(s)
            m == Len(user[s])
            i == Place(s, start)
<1>1. /\ m \in Nat /\ Len(kernel) \in Nat /\ Len(kernel) >= 1 /\ Len(L) = 1 + m + Len(kernel)
      /\ \A j \in 1 .. m : L[1 + j] = user[s][j]
      /\ \A j \in 1 .. Len(kernel) : L[1 + m + j] = kernel[j]
  BY ListShape, Zenon
<1>2. i \in 1 .. Len(L) /\ \A j \in 1 .. Len(L) : /\ j <= i => L[j].base <= start
                                                  /\ j > i => start < L[j].base
  BY PlaceShape
<1>3. kernel[1].base = KERNEL_TEXT_START /\ KERNEL_TEXT_START \in Nat
  BY VmmAssumption DEF KernelInv
<1>. HIDE DEF L, m, i
<1>4. 1 + m + 1 \in 1 .. Len(L) /\ L[1 + m + 1] = kernel[1]
  BY <1>1
<1>5. ~(1 + m + 1 <= i)
  BY <1>2, <1>3, <1>4
<1>6. i \in 1 .. m + 1
  BY <1>1, <1>2, <1>5
<1>7. ASSUME NEW j \in 1 .. m PROVE (j < i => user[s][j].base <= start) /\ (j >= i => start < user[s][j].base)
  <2>1. 1 + j \in 1 .. Len(L) /\ L[1 + j] = user[s][j] /\ (j < i => 1 + j <= i) /\ (j >= i => 1 + j > i)
    BY <1>1, <1>6
  <2>. QED
    BY <1>2, <2>1
<1>. QED
  BY <1>6, <1>7 DEF m, i

\* A region of the kernel is placed behind the k-th object of the kernel, whatever
\* the current space.
LEMMA KernelPlace ==
  ASSUME UserInv, KernelInv, NEW s \in Spaces, NEW start \in Nat, start >= KERNEL_TEXT_START
  PROVE  \E k \in 1 .. Len(kernel) :
           /\ Place(s, start) = 1 + Len(user[s]) + k
           /\ List(s)[Place(s, start)] = kernel[k]
           /\ Place(s, start) < Len(List(s)) <=> k < Len(kernel)
           /\ k < Len(kernel) => List(s)[Place(s, start) + 1] = kernel[k + 1]
           /\ \A j \in 1 .. Len(kernel) : /\ j <= k => kernel[j].base <= start
                                          /\ j > k => start < kernel[j].base
<1>. DEFINE L == List(s)
            m == Len(user[s])
            i == Place(s, start)
<1>1. /\ m \in Nat /\ Len(kernel) \in Nat /\ Len(kernel) >= 1 /\ Len(L) = 1 + m + Len(kernel)
      /\ \A j \in 1 .. Len(kernel) : L[1 + m + j] = kernel[j]
  BY ListShape, Zenon
<1>2. i \in 1 .. Len(L) /\ \A j \in 1 .. Len(L) : /\ j <= i => L[j].base <= start
                                                  /\ j > i => start < L[j].base
  BY PlaceShape, Zenon
<1>3. kernel[1].base = KERNEL_TEXT_START /\ KERNEL_TEXT_START \in Nat
  BY VmmAssumption DEF KernelInv
<1>. HIDE DEF L, m, i
<1>4. 1 + m + 1 \in 1 .. Len(L) /\ L[1 + m + 1] = kernel[1]
  BY <1>1
<1>5. ~(1 + m + 1 > i)
  BY <1>2, <1>3, <1>4
<1>. DEFINE k == i - (1 + m)
<1>6. k \in 1 .. Len(kernel) /\ i = 1 + m + k
  BY <1>1, <1>2, <1>5
<1>. HIDE DEF k
<1>7. L[i] = kernel[k] /\ (i < Len(L) <=> k < Len(kernel))
  BY <1>1, <1>6
<1>8. ASSUME k < Len(kernel) PROVE L[i + 1] = kernel[k + 1]
  <2>1. m \in Nat /\ Len(kernel) \in Nat
    BY <1>1, Zenon
  <2>2. k + 1 \in 1 .. Len(kernel) /\ 1 + m + (k + 1) = i + 1
    BY <1>6, <1>8, <2>1
  <2>3. L[1 + m + (k + 1)] = kernel[k + 1]
    BY <1>1, <2>2, Zenon
  <2>. QED
    BY <2>2, <2>3
<1>9. ASSUME NEW j \in 1 .. Len(kernel)
      PROVE (j <= k => kernel[j].base <= start) /\ (j > k => start < kernel[j].base)
  <2>1. /\ 1 + m + j \in 1 .. Len(L) /\ L[1 + m + j] = kernel[j]
        /\ (j <= k => 1 + m + j <= i) /\ (j > k => 1 + m + j > i)
    BY <1>1, <1>6
  <2>. QED
    BY <1>2, <2>1
<1>. QED
  BY <1>6, <1>7, <1>8, <1>9 DEF m, i, L

-----------------------------------------------------------------------------
(* Insertion and removal in sorted lists *)

\* The order of two bases through a third.
LEMMA Through == \A x, y, z \in Nat : (x <= y \/ x < y) /\ y < z => x <= z /\ x < z
  OBVIOUS

\* A region that is inserted where it belongs leaves the list sorted.
LEMMA LinkedSorted ==
  ASSUME NEW q \in Seq(Regions), NEW e \in Regions, NEW i \in 1 .. Len(q) + 1, Sorted(q),
         \A j \in 1 .. Len(q) : /\ j < i => q[j].base <= e.base
                                /\ j >= i => e.base < q[j].base
  PROVE  Sorted(Linked(q, i, e))
<1>. DEFINE r == Linked(q, i, e)
<1>1. /\ Len(q) \in Nat /\ Len(r) = Len(q) + 1 /\ r[i] = e
      /\ \A j \in 1 .. i - 1 : r[j] = q[j]
      /\ \A j \in i + 1 .. Len(q) + 1 : r[j] = q[j - 1]
  <2>1. IsLinked(q, i, e, r)
    BY LinkedShape, Zenon
  <2>. HIDE DEF r
  <2>. QED
    BY <2>1, Zenon DEF IsLinked
<1>. HIDE DEF r
<1>2. ASSUME NEW j \in 1 .. Len(q) PROVE q[j].base \in Nat
  <2>1. q[j] \in Regions
    OBVIOUS
  <2>. QED
    BY <2>1 DEF Regions
<1>3. e.base \in Nat
  BY DEF Regions
<1>4. ASSUME NEW a \in 1 .. Len(r), NEW b \in 1 .. Len(r), a < b
      PROVE  r[a].base <= r[b].base
  <2>1. CASE b < i
    <3>1. a \in 1 .. i - 1 /\ b \in 1 .. i - 1 /\ a \in 1 .. Len(q) /\ b \in 1 .. Len(q)
      BY <1>1, <1>4, <2>1
    <3>. QED
      BY <1>1, <1>4, <3>1 DEF Sorted
  <2>2. CASE b = i
    <3>1. a \in 1 .. i - 1 /\ a \in 1 .. Len(q) /\ a < i
      BY <1>1, <1>4, <2>2
    <3>. QED
      BY <1>1, <2>2, <3>1
  <2>3. CASE b > i /\ a < i
    <3>1. a \in 1 .. i - 1 /\ a \in 1 .. Len(q) /\ a < i
      BY <1>1, <2>3
    <3>2. b \in i + 1 .. Len(q) + 1 /\ b - 1 \in 1 .. Len(q) /\ b - 1 >= i
      BY <1>1, <2>3
    <3>3. r[a] = q[a] /\ r[b] = q[b - 1] /\ q[a].base <= e.base /\ e.base < q[b - 1].base
      BY <1>1, <3>1, <3>2
    <3>4. q[a].base \in Nat /\ q[b - 1].base \in Nat
      BY <1>2, <3>1, <3>2
    <3>5. q[a].base <= q[b - 1].base
      BY <1>3, <3>3, <3>4, Through, Zenon
    <3>. QED
      BY <3>3, <3>5, Zenon
  <2>4. CASE b > i /\ a = i
    <3>2. b \in i + 1 .. Len(q) + 1 /\ b - 1 \in 1 .. Len(q) /\ b - 1 >= i
      BY <1>1, <2>4
    <3>3. r[a] = e /\ r[b] = q[b - 1] /\ e.base < q[b - 1].base
      BY <1>1, <2>4, <3>2
    <3>4. q[b - 1].base \in Nat
      BY <1>2, <3>2, Zenon
    <3>5. \A x, y \in Nat : x < y => x <= y
      OBVIOUS
    <3>. QED
      BY <1>3, <3>3, <3>4, <3>5, Zenon
  <2>5. CASE a > i
    <3>1. a \in i + 1 .. Len(q) + 1 /\ a - 1 \in 1 .. Len(q)
      BY <1>1, <2>5
    <3>2. b \in i + 1 .. Len(q) + 1 /\ b - 1 \in 1 .. Len(q) /\ a - 1 < b - 1
      BY <1>1, <1>4, <2>5
    <3>3. r[a] = q[a - 1] /\ r[b] = q[b - 1]
      BY <1>1, <3>1, <3>2
    <3>. QED
      BY <3>1, <3>2, <3>3, Zenon DEF Sorted
  <2>. QED
    BY <1>1, <2>1, <2>2, <2>3, <2>4, <2>5
<1>. QED
  BY <1>4 DEF Sorted, r

\* The same where no two regions have the same base.
LEMMA LinkedIncreasing ==
  ASSUME NEW q \in Seq(Regions), NEW e \in Regions, NEW i \in 1 .. Len(q) + 1, Increasing(q),
         \A j \in 1 .. Len(q) : /\ j < i => q[j].base < e.base
                                /\ j >= i => e.base < q[j].base
  PROVE  Increasing(Linked(q, i, e))
<1>. DEFINE r == Linked(q, i, e)
<1>1. /\ Len(q) \in Nat /\ Len(r) = Len(q) + 1 /\ r[i] = e
      /\ \A j \in 1 .. i - 1 : r[j] = q[j]
      /\ \A j \in i + 1 .. Len(q) + 1 : r[j] = q[j - 1]
  <2>1. IsLinked(q, i, e, r)
    BY LinkedShape, Zenon
  <2>. HIDE DEF r
  <2>. QED
    BY <2>1, Zenon DEF IsLinked
<1>. HIDE DEF r
<1>2. ASSUME NEW j \in 1 .. Len(q) PROVE q[j].base \in Nat
  <2>1. q[j] \in Regions
    OBVIOUS
  <2>. QED
    BY <2>1, Zenon DEF Regions
<1>3. e.base \in Nat
  BY DEF Regions
<1>4. ASSUME NEW a \in 1 .. Len(r), NEW b \in 1 .. Len(r), a < b
      PROVE  r[a].base < r[b].base
  <2>1. CASE b < i
    <3>1. a \in 1 .. i - 1 /\ b \in 1 .. i - 1 /\ a \in 1 .. Len(q) /\ b \in 1 .. Len(q)
      BY <1>1, <1>4, <2>1
    <3>. QED
      BY <1>1, <1>4, <3>1 DEF Increasing
  <2>2. CASE b = i
    <3>1. a \in 1 .. i - 1 /\ a \in 1 .. Len(q) /\ a < i
      BY <1>1, <1>4, <2>2
    <3>. QED
      BY <1>1, <2>2, <3>1
  <2>3. CASE b > i /\ a < i
    <3>1. a \in 1 .. i - 1 /\ a \in 1 .. Len(q) /\ a < i
      BY <1>1, <2>3
    <3>2. b \in i + 1 .. Len(q) + 1 /\ b - 1 \in 1 .. Len(q) /\ b - 1 >= i
      BY <1>1, <2>3
    <3>3. r[a] = q[a] /\ r[b] = q[b - 1] /\ q[a].base < e.base /\ e.base < q[b - 1].base
      BY <1>1, <3>1, <3>2
    <3>4. q[a].base \in Nat /\ q[b - 1].base \in Nat
      BY <1>2, <3>1, <3>2, Zenon
    <3>5. q[a].base < q[b - 1].base
      BY <1>3, <3>3, <3>4, Through, Zenon
    <3>. QED
      BY <3>3, <3>5, Zenon
  <2>4. CASE b > i /\ a = i
    <3>2. b \in i + 1 .. Len(q) + 1 /\ b - 1 \in 1 .. Len(q) /\ b - 1 >= i
      BY <1>1, <2>4
    <3>. QED
      BY <1>1, <2>4, <3>2
  <2>5. CASE a > i
    <3>1. a \in i + 1 .. Len(q) + 1 /\ a - 1 \in 1 .. Len(q)
      BY <1>1, <2>5
    <3>2. b \in i + 1 .. Len(q) + 1 /\ b - 1 \in 1 .. Len(q) /\ a - 1 < b - 1
      BY <1>1, <1>4, <2>5
    <3>3. r[a] = q[a - 1] /\ r[b] = q[b - 1]
      BY <1>1, <3>1, <3>2
    <3>. QED
      BY <3>1, <3>2, <3>3, Zenon DEF Increasing
  <2>. QED
    BY <1>1, <2>1, <2>2, <2>3, <2>4, <2>5
<1>. QED
  BY <1>4 DEF Increasing, r

\* Removal takes one member out of a list without equal bases, and leaves it so.
LEMMA UnlinkedIncreasing ==
  ASSUME NEW q \in Seq(Regions), NEW i \in 1 .. Len(q), Increasing(q)
  PROVE  Increasing(Unlinked(q, i)) /\ Objects(Unlinked(q, i)) = Objects(q) \ {q[i]}
<1>. DEFINE r == Unlinked(q, i)
<1>0. Len(q) \in Nat
  OBVIOUS
<1>1. /\ r \in Seq(Regions) /\ Len(r) = Len(q) - 1
      /\ \A j \in 1 .. i - 1 : r[j] = q[j]
      /\ \A j \in i .. Len(q) - 1 : r[j] = q[j + 1]
  BY UnlinkedShape, Zenon DEF IsUnlinked
<1>. HIDE DEF r
<1>. DEFINE g(j) == IF j < i THEN j ELSE j + 1
<1>2. ASSUME NEW j \in 1 .. Len(r) PROVE g(j) \in 1 .. Len(q) /\ g(j) # i /\ r[j] = q[g(j)]
  <2>1. CASE j < i
    <3>1. j \in 1 .. i - 1
      BY <2>1
    <3>. QED
      BY <1>0, <1>1, <2>1, <3>1
  <2>2. CASE j >= i
    <3>1. j \in i .. Len(q) - 1
      BY <1>0, <1>1, <2>2
    <3>. QED
      BY <1>0, <1>1, <2>2, <3>1
  <2>. QED
    BY <2>1, <2>2
<1>3. ASSUME NEW a \in 1 .. Len(r), NEW b \in 1 .. Len(r), a < b PROVE r[a].base < r[b].base
  <2>1. g(a) < g(b)
    BY <1>0, <1>1, <1>3
  <2>. QED
    BY <1>2, <2>1, Zenon DEF Increasing
<1>4. ASSUME NEW l \in 1 .. Len(q), l # i PROVE \E j \in 1 .. Len(r) : r[j] = q[l]
  <2>1. CASE l < i
    <3>1. l \in 1 .. Len(r) /\ g(l) = l
      BY <1>0, <1>1, <2>1
    <3>. QED
      BY <1>2, <3>1
  <2>2. CASE l > i
    <3>1. l - 1 \in 1 .. Len(r) /\ g(l - 1) = l
      BY <1>0, <1>1, <2>2
    <3>. QED
      BY <1>2, <3>1, Zenon
  <2>. QED
    BY <1>4, <2>1, <2>2
<1>5. ASSUME NEW l \in 1 .. Len(q), l # i PROVE q[l] # q[i]
  <2>1. q[l].base < q[i].base \/ q[i].base < q[l].base
    BY <1>5 DEF Increasing
  <2>2. q[l] \in Regions /\ q[i] \in Regions
    OBVIOUS
  <2>3. q[l].base \in Nat /\ q[i].base \in Nat
    BY <2>2, Zenon DEF Regions
  <2>. QED
    BY <2>1, <2>3
<1>6. \A x : x \in Objects(r) <=> \E j \in 1 .. Len(r) : r[j] = x
  BY <1>0, <1>1, ObjectsShape
<1>7. \A x : x \in Objects(q) <=> \E j \in 1 .. Len(q) : q[j] = x
  BY ObjectsShape
<1>. HIDE DEF g
<1>8. ASSUME NEW x \in Objects(r) PROVE x \in Objects(q) /\ x # q[i]
  <2>1. PICK j \in 1 .. Len(r) : r[j] = x
    BY <1>6
  <2>. QED
    BY <1>2, <1>5, <1>7, <2>1
<1>9. ASSUME NEW x \in Objects(q), x # q[i] PROVE x \in Objects(r)
  <2>1. PICK l \in 1 .. Len(q) : q[l] = x
    BY <1>7
  <2>. QED
    BY <1>4, <1>6, <1>9, <2>1
<1>10. Objects(r) = Objects(q) \ {q[i]}
  BY <1>8, <1>9
<1>. QED
  BY <1>3, <1>10 DEF Increasing, r

-----------------------------------------------------------------------------
(* What the operations keep *)

\* The layout, as numbers.
LEMMA Layout ==
  /\ KERNEL_TEXT_START \in Nat /\ VGA_TEXT_BUFFER_BASE \in Nat /\ KERNEL_PMM_START \in Nat
  /\ KERNEL_HEAP_START \in Nat /\ KERNEL_STACK_START \in Nat /\ KERNEL_PAGE_TBL_START \in Nat
  /\ USER_STACK_START \in Nat /\ TextPages \in Nat /\ TablePages \in Nat /\ BiosPages \in Nat
  /\ StackPages = 2 /\ StackStep = 3
  /\ USER_STACK_START + 2 <= KERNEL_TEXT_START /\ BiosPages < KERNEL_TEXT_START
  /\ KERNEL_TEXT_START + TextPages < VGA_TEXT_BUFFER_BASE
  /\ VGA_TEXT_BUFFER_BASE + 3 <= KERNEL_PMM_START /\ KERNEL_PMM_START + 1 < KERNEL_HEAP_START
  /\ KERNEL_HEAP_START < KERNEL_STACK_START /\ KERNEL_STACK_START < KERNEL_PAGE_TBL_START
<1>1. IdentityPages \in Nat
  BY VmmAssumption
<1>. QED
  BY VmmAssumption, <1>1 DEF StackPages, StackStep

\* The first stack ends at a place for stacks.
LEMMA StackStart == KERNEL_STACK_START \in StackPlaces
<1>. DEFINE d == KERNEL_STACK_START - KERNEL_HEAP_START
<1>1. d \in Nat /\ d % 3 = 2
  BY Layout, VmmAssumption DEF StackPages
<1>. HIDE DEF d
<1>2. d = 3 * (d \div 3) + 2 /\ d \div 3 \in Nat
  BY <1>1
<1>3. KERNEL_STACK_START = KERNEL_HEAP_START + 2 + 3 * (d \div 3)
  BY <1>2, Layout DEF d
<1>. QED
  BY <1>2, <1>3, Layout DEF StackPlaces

\* Every region that is mapped leaves the windows alone, or lies behind them.
LEMMA MmapKeepsWindows ==
  ASSUME Types, WindowInv, mmio_region <= KERNEL_PMM_START, NEW s, NEW r \in Regions, mmap(s, r),
         r.base + r.length <= KERNEL_TEXT_START \/ mmio_region <= r.base
  PROVE  \A w \in windows : \A p \in Pages(w) : kpt'[p] = w.base
<1>. SUFFICES ASSUME NEW w \in windows, NEW p \in Pages(w) PROVE kpt'[p] = w.base
  OBVIOUS
<1>1. /\ w.base \in Nat /\ w.length \in Nat /\ r.base \in Nat /\ r.length \in Nat
      /\ VGA_TEXT_BUFFER_BASE < w.base /\ w.base + w.length <= mmio_region /\ mmio_region \in Nat
  BY DEF WindowInv, Regions, Types
<1>2. p \in Int /\ w.base <= p /\ p < w.base + w.length
  BY <1>1 DEF Pages
<1>3. p \notin Pages(r)
  BY <1>1, <1>2, Layout DEF Pages
<1>4. p \in KernelPages
  BY <1>1, <1>2, Layout DEF KernelPages
<1>5. kpt[p] = w.base
  BY DEF WindowInv
<1>. QED
  BY <1>3, <1>4, <1>5 DEF mmap

\* A step that touches neither lists, stacks nor windows.
LEMMA ListsUntouched ==
  ASSUME ListInv, UNCHANGED <<tableVars, mmio_region, windows, stackVars>>,
         \/ phase' = phase
         \/ phase # "pmm_init" /\ phase' # "pmm_init" /\ (phase = "panic" => phase' = "panic")
  PROVE  ListInv'
<1>1. PmmObject' = PmmObject /\ TableObject' = TableObject
  BY DEF PmmObject, TableObject, Region
<1>2. UserInv'
  BY DEF ListInv, UserInv, tableVars, Sorted
<1>3. KernelInv'
  BY <1>1 DEF ListInv, KernelInv, tableVars, stackVars, Increasing, Objects
<1>4. StackInv'
  BY DEF ListInv, StackInv, tableVars, stackVars, Objects
<1>5. WindowInv'
  BY DEF ListInv, WindowInv, tableVars
<1>. QED
  BY <1>2, <1>3, <1>4, <1>5 DEF ListInv

\* vmm_alloc in the part of a process, where the region belongs.
LEMMA UserAlloc ==
  ASSUME Types, ListInv, mmio_region <= KERNEL_PMM_START,
         NEW s \in Spaces, NEW r \in Regions, r.base < KERNEL_TEXT_START,
         r.base + r.length <= KERNEL_TEXT_START,
         NEW i \in 1 .. Len(user[s]) + 1,
         \A j \in 1 .. Len(user[s]) : /\ j < i => user[s][j].base <= r.base
                                      /\ j >= i => r.base < user[s][j].base,
         vmm_alloc(s, i, r),
         UNCHANGED <<phase, mmio_region, windows, stackVars>>
  PROVE  ListInv'
<1>. DEFINE u == Linked(user[s], i, r)
<1>0. user[s] \in Seq(Regions) /\ Sorted(user[s]) /\ user \in [Spaces -> Seq(Regions)]
  BY DEF ListInv, UserInv
<1>1. /\ Len(user[s]) \in Nat /\ u \in Seq(Regions) /\ Len(u) = Len(user[s]) + 1 /\ u[i] = r
      /\ \A j \in 1 .. i - 1 : u[j] = user[s][j]
      /\ \A j \in i + 1 .. Len(user[s]) + 1 : u[j] = user[s][j - 1]
  <2>1. IsLinked(user[s], i, r, u)
    BY <1>0, LinkedShape, Zenon
  <2>. QED
    BY <2>1, Zenon DEF IsLinked
<1>2. Sorted(u)
  BY <1>0, LinkedSorted
<1>3. user' = [user EXCEPT ![s] = u] /\ kernel' = kernel /\ mmap(s, r)
  BY DEF vmm_alloc, Insert
<1>. HIDE DEF u
<1>4. \A j \in 1 .. Len(u) : u[j].base < KERNEL_TEXT_START
  <2>. SUFFICES ASSUME NEW j \in 1 .. Len(u) PROVE u[j].base < KERNEL_TEXT_START
    OBVIOUS
  <2>1. \A l \in 1 .. Len(user[s]) : user[s][l].base < KERNEL_TEXT_START
    BY DEF ListInv, UserInv
  <2>2. CASE j < i
    <3>1. j \in 1 .. i - 1 /\ j \in 1 .. Len(user[s])
      BY <1>1, <2>2
    <3>. QED
      BY <1>1, <2>1, <3>1, Zenon
  <2>3. CASE j > i
    <3>1. j \in i + 1 .. Len(user[s]) + 1 /\ j - 1 \in 1 .. Len(user[s])
      BY <1>1, <2>3
    <3>. QED
      BY <1>1, <2>1, <3>1, Zenon
  <2>4. CASE j = i
    BY <1>1, <2>4, Zenon
  <2>5. j < i \/ j > i \/ j = i
    BY <1>1
  <2>. QED
    BY <2>2, <2>3, <2>4, <2>5, Zenon
<1>5. UserInv'
  <2>1. user' \in [Spaces -> Seq(Regions)]
    BY <1>0, <1>1, <1>3
  <2>2. ASSUME NEW t \in Spaces
        PROVE  Sorted(user'[t]) /\ \A j \in 1 .. Len(user'[t]) : user'[t][j].base < KERNEL_TEXT_START
    <3>1. CASE t = s
      <4>1. user'[t] = u
        BY <1>0, <1>3, <3>1
      <4>. QED
        BY <1>2, <1>4, <4>1
    <3>2. CASE t # s
      <4>1. user'[t] = user[t]
        BY <1>0, <1>3, <3>2
      <4>2. Sorted(user[t]) /\ \A j \in 1 .. Len(user[t]) : user[t][j].base < KERNEL_TEXT_START
        BY DEF ListInv, UserInv
      <4>. QED
        BY <4>1, <4>2
    <3>. QED
      BY <3>1, <3>2
  <2>. QED
    BY <2>1, <2>2, Zenon DEF UserInv, Sorted
<1>6. PmmObject' = PmmObject /\ TableObject' = TableObject
  BY DEF PmmObject, TableObject, Region
<1>7. KernelInv'
  BY <1>3, <1>6 DEF ListInv, KernelInv, stackVars, Increasing, Objects
<1>8. StackInv'
  BY <1>3 DEF ListInv, StackInv, stackVars, Objects
<1>9. WindowInv'
  <2>1. \A w \in windows : \A p \in Pages(w) : kpt'[p] = w.base
    BY <1>3, MmapKeepsWindows DEF ListInv
  <2>. QED
    BY <2>1 DEF ListInv, WindowInv
<1>. QED
  BY <1>5, <1>7, <1>8, <1>9 DEF ListInv

\* vmm_alloc in the part of the kernel, with a base of its own.
LEMMA KernelAlloc ==
  ASSUME UserInv, KernelInv, NEW s \in Spaces, NEW r \in Regions, KERNEL_TEXT_START <= r.base,
         \A q \in Objects(kernel) : q.base # r.base,
         vmm_alloc(s, Place(s, r.base), r)
  PROVE  /\ user' = user /\ mmap(s, r)
         /\ kernel' \in Seq(Regions) /\ Increasing(kernel')
         /\ kernel' # <<>> /\ kernel'[1].base = KERNEL_TEXT_START
         /\ Objects(kernel') = Objects(kernel) \cup {r}
<1>. DEFINE n == Len(kernel)
            m == Len(user[s])
<1>0. kernel \in Seq(Regions) /\ Increasing(kernel) /\ n \in Nat /\ n >= 1 /\ m \in Nat
  BY ListShape DEF KernelInv
<1>1. r.base \in Nat
  BY DEF Regions
<1>2. PICK k \in 1 .. n : /\ Place(s, r.base) = 1 + m + k
                          /\ \A j \in 1 .. n : /\ j <= k => kernel[j].base <= r.base
                                               /\ j > k => r.base < kernel[j].base
  BY <1>1, Layout, KernelPlace, Zenon
<1>3. ASSUME NEW j \in 1 .. n PROVE kernel[j].base \in Nat /\ kernel[j].base # r.base
  <2>1. kernel[j] \in Regions /\ kernel[j] \in Objects(kernel)
    BY <1>0, ObjectsShape
  <2>. QED
    BY <2>1 DEF Regions
<1>. HIDE DEF n, m
<1>4. ~(1 + m + k <= m + 1) /\ (1 + m + k) - m = k + 1 /\ k + 1 \in 1 .. n + 1 /\ 1 \in 1 .. k
  BY <1>0, <1>2
<1>5. kernel' = Linked(kernel, k + 1, r) /\ user' = user /\ mmap(s, r)
  BY <1>2, <1>4 DEF vmm_alloc, Insert, m
<1>6. \A j \in 1 .. n : /\ j < k + 1 => kernel[j].base < r.base
                        /\ j >= k + 1 => r.base < kernel[j].base
  <2>. SUFFICES ASSUME NEW j \in 1 .. n
                PROVE  /\ j < k + 1 => kernel[j].base < r.base
                       /\ j >= k + 1 => r.base < kernel[j].base
    OBVIOUS
  <2>1. (j < k + 1 => j <= k) /\ (j >= k + 1 => j > k)
    BY <1>2
  <2>. QED
    BY <1>1, <1>2, <1>3, <2>1
<1>7. Increasing(Linked(kernel, k + 1, r))
  BY <1>0, <1>4, <1>6, LinkedIncreasing, Zenon DEF n
<1>8. Objects(Linked(kernel, k + 1, r)) = Objects(kernel) \cup {r}
  BY <1>0, <1>4, LinkedObjects, Zenon DEF n
<1>9. /\ Linked(kernel, k + 1, r) \in Seq(Regions)
      /\ Len(Linked(kernel, k + 1, r)) = n + 1
      /\ \A j \in 1 .. (k + 1) - 1 : Linked(kernel, k + 1, r)[j] = kernel[j]
  <2>1. IsLinked(kernel, k + 1, r, Linked(kernel, k + 1, r))
    BY <1>0, <1>4, LinkedShape, Zenon DEF n
  <2>. QED
    BY <2>1, Zenon DEF IsLinked, n
<1>10. 1 \in 1 .. (k + 1) - 1
  BY <1>2
<1>11. kernel'[1] = kernel[1] /\ kernel' # <<>>
  BY <1>0, <1>5, <1>9, <1>10
<1>. QED
  BY <1>5, <1>7, <1>8, <1>9, <1>11 DEF KernelInv

\* alloc_mmio below the bitmap is never refused, and keeps the order.
LEMMA WindowAlloc ==
  ASSUME Types, ListInv, NEW n \in Nat \ {0}, mmio_region + n <= KERNEL_PMM_START,
         alloc_mmio(n), UNCHANGED stackVars,
         phase # "pmm_init", phase' # "pmm_init", phase = "panic" => phase' = "panic"
  PROVE  ListInv' /\ mmap(current_vmm, Region(mmio_region, n))
<1>. DEFINE r == Region(mmio_region, n)
            s == current_vmm
<1>1. mmio_region \in Nat /\ s \in Spaces /\ VGA_TEXT_BUFFER_BASE < mmio_region
  BY DEF Types
<1>2. r \in Regions /\ r.base = mmio_region /\ r.length = n
  BY <1>1 DEF Region, Regions
<1>3. KERNEL_TEXT_START <= r.base /\ mmio_region < KERNEL_PMM_START
  BY <1>1, <1>2, Layout
<1>. HIDE DEF s
<1>4. mmio_region' = mmio_region + n /\ windows' = windows \cup {r}
  BY DEF alloc_mmio, MmioEnd
<1>5. IF Refused(s, r) THEN UNCHANGED tableVars ELSE vmm_alloc(s, Place(s, r.base), r)
  BY DEF alloc_mmio, s
<1>. HIDE DEF r
<1>6. ASSUME NEW q \in Objects(kernel)
      PROVE  /\ q.base \in Nat /\ q.length \in Nat
             /\ \/ q.base < mmio_region /\ q.base + q.length <= mmio_region
                \/ KERNEL_PMM_START <= q.base
  <2>1. q \in Regions
    BY ObjectsShape DEF ListInv, KernelInv
  <2>2. \/ q.base < mmio_region /\ q.base + q.length <= mmio_region
        \/ q \in stacks \cup {PmmObject, TableObject}
    BY DEF ListInv, KernelInv
  <2>3. q \in stacks => KERNEL_PMM_START <= q.base
    BY Layout DEF ListInv, StackInv, StackPlaces
  <2>4. q \in {PmmObject, TableObject} => KERNEL_PMM_START <= q.base
    BY Layout DEF PmmObject, TableObject, Region
  <2>. QED
    BY <2>1, <2>2, <2>3, <2>4 DEF Regions
<1>7. ~Refused(s, r)
  <2>1. PICK k \in 1 .. Len(kernel) : /\ List(s)[Place(s, r.base)] = kernel[k]
                                      /\ \A j \in 1 .. Len(kernel) : j <= k => kernel[j].base <= r.base
    BY <1>1, <1>2, <1>3, KernelPlace, Layout DEF ListInv
  <2>2. kernel[k] \in Objects(kernel) /\ kernel[k].base <= r.base
    BY <2>1, ObjectsShape DEF ListInv, KernelInv
  <2>3. ~(r.base < kernel[k].base + kernel[k].length)
    BY <1>1, <1>2, <1>3, <1>6, <2>2, Layout
  <2>. QED
    BY <2>1, <2>3 DEF Refused
<1>8. \A q \in Objects(kernel) : q.base # r.base
  BY <1>1, <1>2, <1>3, <1>6, Layout
<1>9. /\ user' = user /\ mmap(s, r)
      /\ kernel' \in Seq(Regions) /\ Increasing(kernel')
      /\ kernel' # <<>> /\ kernel'[1].base = KERNEL_TEXT_START
      /\ Objects(kernel') = Objects(kernel) \cup {r}
  BY <1>1, <1>2, <1>3, <1>5, <1>7, <1>8, KernelAlloc DEF ListInv
<1>10. PmmObject' = PmmObject /\ TableObject' = TableObject
  BY DEF PmmObject, TableObject, Region
<1>11. UserInv'
  BY <1>9 DEF ListInv, UserInv, Sorted
<1>12. KernelInv'
  <2>1. {PmmObject, TableObject} \subseteq Objects(kernel')
    BY <1>9 DEF ListInv, KernelInv
  <2>2. ASSUME NEW q \in Objects(kernel')
        PROVE  \/ q.base < mmio_region' /\ q.base + q.length <= mmio_region'
               \/ q \in stacks \cup {PmmObject, TableObject}
    <3>1. CASE q = r
      BY <1>1, <1>2, <1>4, <3>1
    <3>2. CASE q \in Objects(kernel)
      <4>1. \/ q.base < mmio_region /\ q.base + q.length <= mmio_region
            \/ q \in stacks \cup {PmmObject, TableObject}
        BY <3>2 DEF ListInv, KernelInv
      <4>2. q.base \in Nat /\ q.length \in Nat
        BY <1>6, <3>2
      <4>. QED
        BY <1>1, <1>4, <4>1, <4>2
    <3>. QED
      BY <1>9, <3>1, <3>2
  <2>. QED
    BY <1>9, <1>10, <2>1, <2>2, Zenon DEF KernelInv, Increasing, Objects, stackVars
<1>13. StackInv'
  <2>1. stacks' \subseteq Objects(kernel') /\ stacks' = stacks /\ kernel_stack_ptr' = kernel_stack_ptr
    BY <1>9 DEF ListInv, StackInv, stackVars
  <2>. QED
    BY <2>1 DEF ListInv, StackInv, Objects
<1>14. WindowInv'
  <2>1. \A w \in windows : \A p \in Pages(w) : kpt'[p] = w.base
    BY <1>1, <1>2, <1>3, <1>9, Layout, MmapKeepsWindows DEF ListInv
  <2>2. \A p \in Pages(r) : kpt'[p] = r.base
    <3>. SUFFICES ASSUME NEW p \in Pages(r) PROVE kpt'[p] = r.base
      OBVIOUS
    <3>1. p \in KernelPages
      BY <1>1, <1>2, <1>3, Layout DEF Pages, KernelPages
    <3>. QED
      BY <1>9, <3>1 DEF mmap
  <2>3. ASSUME NEW w \in windows' PROVE w \in Regions /\ VGA_TEXT_BUFFER_BASE < w.base
                                        /\ w.base + w.length <= mmio_region'
    <3>1. CASE w = r
      BY <1>1, <1>2, <1>4, <3>1
    <3>2. CASE w \in windows
      <4>1. w \in Regions /\ VGA_TEXT_BUFFER_BASE < w.base /\ w.base + w.length <= mmio_region
        BY <3>2 DEF ListInv, WindowInv
      <4>2. w.base \in Nat /\ w.length \in Nat
        BY <4>1 DEF Regions
      <4>. QED
        BY <1>1, <1>4, <4>1, <4>2
    <3>. QED
      BY <1>4, <3>1, <3>2
  <2>. QED
    BY <1>4, <2>1, <2>2, <2>3 DEF WindowInv
<1>. QED
  BY <1>9, <1>11, <1>12, <1>13, <1>14 DEF ListInv, r, s

\* alloc_kernel_stack keeps to the places for stacks: the one that would begin below
\* the heap page begins in the bitmap's object and ends short of the lowest stack,
\* and is refused.
LEMMA StackAlloc ==
  ASSUME Types, ListInv, mmio_region <= KERNEL_PMM_START, NEW from, NEW to,
         from \notin {"pmm_init", "panic"}, to # "pmm_init",
         alloc_kernel_stack(from, to), UNCHANGED <<mmio_region, windows>>
  PROVE  /\ ListInv' /\ kernel_stack_ptr' = kernel_stack_ptr - StackStep
         /\ \/ UNCHANGED tableVars
            \/ /\ mmap(current_vmm, Region(kernel_stack_ptr - StackStep, StackPages))
               /\ KERNEL_HEAP_START + 2 <= kernel_stack_ptr - StackStep
<1>. DEFINE r == Region(kernel_stack_ptr - StackStep, StackPages)
            s == current_vmm
<1>0. mmio_region \in Nat /\ s \in Spaces /\ phase = from /\ phase' \in {to, "panic"}
  BY DEF Types, alloc_kernel_stack, PANIC
<1>1. PICK k \in Nat : kernel_stack_ptr = KERNEL_HEAP_START + 2 + 3 * k
  BY <1>0 DEF ListInv, StackInv, StackPlaces
<1>2. /\ r.base = kernel_stack_ptr - 3 /\ r.length = 2 /\ r \in Regions
      /\ r.base \in Nat /\ KERNEL_PMM_START < r.base
  BY <1>1, Layout DEF Region, Regions
<1>3. kernel_stack_ptr' = r.base /\ kernel_stack_ptr <= KERNEL_STACK_START
  BY DEF alloc_kernel_stack, ListInv, StackInv
<1>4. IF Refused(s, r) THEN phase' = "panic" /\ UNCHANGED <<tableVars, stacks>>
      ELSE vmm_alloc(s, Place(s, r.base), r) /\ stacks' = stacks \cup {r} /\ phase' = to
  BY DEF alloc_kernel_stack, PANIC, s
<1>. HIDE DEF r, s
<1>5. PmmObject' = PmmObject /\ TableObject' = TableObject
  BY <1>0 DEF PmmObject, TableObject, Region
<1>6. PmmObject = Region(KERNEL_PMM_START, KERNEL_HEAP_START - KERNEL_PMM_START)
  BY <1>0 DEF PmmObject
<1>7. ASSUME NEW q \in stacks
      PROVE  /\ q.base \in Nat /\ q.length = 2 /\ q.base \in StackPlaces
             /\ kernel_stack_ptr <= q.base /\ q.base + 3 <= KERNEL_STACK_START
  BY Layout DEF ListInv, StackInv, StackPlaces
<1>8. ASSUME NEW q \in Objects(kernel)
      PROVE  /\ q.base \in Nat /\ q.length \in Nat
             /\ \/ q.base + q.length <= KERNEL_PMM_START /\ q.base < KERNEL_PMM_START
                \/ q = PmmObject
                \/ kernel_stack_ptr <= q.base
  <2>1. q \in Regions
    BY ObjectsShape DEF ListInv, KernelInv
  <2>2. \/ q.base < mmio_region /\ q.base + q.length <= mmio_region
        \/ q \in stacks \cup {PmmObject, TableObject}
    BY DEF ListInv, KernelInv
  <2>3. q = TableObject => kernel_stack_ptr <= q.base
    BY <1>1, <1>3, Layout DEF TableObject, Region
  <2>4. q.base \in Nat /\ q.length \in Nat
    BY <2>1 DEF Regions
  <2>. QED
    BY <1>0, <1>7, <2>2, <2>3, <2>4, Layout
<1>9. CASE Refused(s, r)
  <2>1. UserInv' /\ WindowInv'
    BY <1>4, <1>9 DEF ListInv, UserInv, WindowInv, Sorted, tableVars
  <2>2. KernelInv'
    BY <1>4, <1>5, <1>9 DEF ListInv, KernelInv, Increasing, Objects, tableVars
  <2>3. StackInv'
    <3>1. stacks' = stacks /\ phase' = "panic" /\ kernel' = kernel
      BY <1>4, <1>9 DEF tableVars
    <3>2. r.base \in Int /\ r.base <= KERNEL_STACK_START /\ \A q \in stacks : r.base <= q.base
      BY <1>1, <1>2, <1>3, <1>7, Layout
    <3>. QED
      BY <1>3, <3>1, <3>2 DEF ListInv, StackInv, Objects
  <2>. QED
    BY <1>2, <1>3, <1>4, <1>9, <2>1, <2>2, <2>3, Layout, Zenon DEF ListInv
<1>10. CASE ~Refused(s, r)
  <2>0. r.base >= KERNEL_TEXT_START /\ UserInv /\ KernelInv
    BY <1>2, Layout DEF ListInv
  <2>1. PICK l \in 1 .. Len(kernel) :
           /\ List(s)[Place(s, r.base)] = kernel[l]
           /\ Place(s, r.base) < Len(List(s)) <=> l < Len(kernel)
           /\ l < Len(kernel) => List(s)[Place(s, r.base) + 1] = kernel[l + 1]
           /\ \A j \in 1 .. Len(kernel) : /\ j <= l => kernel[j].base <= r.base
                                          /\ j > l => r.base < kernel[j].base
    BY <1>0, <1>2, <2>0, KernelPlace, Zenon
  <2>2. kernel \in Seq(Regions) /\ Len(kernel) \in Nat
    BY DEF ListInv, KernelInv
  <2>3. PICK a \in 1 .. Len(kernel) : kernel[a] = TableObject
    BY <2>2, ObjectsShape, Zenon DEF ListInv, KernelInv
  <2>4. PICK b \in 1 .. Len(kernel) : kernel[b] = PmmObject
    BY <2>2, ObjectsShape, Zenon DEF ListInv, KernelInv
  <2>5. l < Len(kernel)
    <3>1. kernel[a].base = KERNEL_PAGE_TBL_START
      <4>1. TableObject.base = KERNEL_PAGE_TBL_START
        BY DEF TableObject, Region
      <4>. QED
        BY <2>3, <4>1, Zenon
    <3>2. ~(KERNEL_PAGE_TBL_START <= r.base)
      <4>1. r.base \in Nat /\ r.base + 3 <= KERNEL_STACK_START
        BY <1>1, <1>2, <1>3, Layout
      <4>. QED
        BY <4>1, Layout
    <3>3. ~(a <= l)
      BY <2>1, <3>1, <3>2, Zenon
    <3>. QED
      BY <2>2, <3>3
  <2>6. ~(r.base < kernel[l].base + kernel[l].length /\ r.base + 2 < kernel[l + 1].base)
    BY <1>2, <1>10, <2>1, <2>5, Zenon DEF Refused
  <2>7. kernel[l] \in Objects(kernel) /\ kernel[l + 1] \in Objects(kernel)
    <3>1. l + 1 \in 1 .. Len(kernel)
      BY <2>2, <2>5
    <3>. QED
      BY <2>2, <3>1, ObjectsShape
  <2>8. k # 0
    <3>. SUFFICES ASSUME k = 0 PROVE FALSE
      OBVIOUS
    <3>1. kernel_stack_ptr = KERNEL_HEAP_START + 2 /\ r.base = KERNEL_HEAP_START - 1
      BY <1>1, <1>2, Layout
    <3>2. b <= l
      <4>1. kernel[b].base = KERNEL_PMM_START
        BY <1>6, <2>4 DEF Region
      <4>2. ~(r.base < kernel[b].base)
        BY <3>1, <4>1, Layout
      <4>3. ~(b > l)
        BY <2>1, <4>2, Zenon
      <4>. QED
        BY <2>2, <4>3
    <3>3. kernel[l] = PmmObject
      <4>1. b = l \/ kernel[b].base < kernel[l].base
        BY <3>2, <2>2 DEF ListInv, KernelInv, Increasing
      <4>2. kernel[l].base <= r.base
        BY <2>1, <2>2
      <4>3. kernel[b].base = KERNEL_PMM_START
        BY <1>6, <2>4 DEF Region
      <4>. QED
        BY <1>8, <2>4, <2>7, <3>1, <4>1, <4>2, <4>3, Layout
    <3>4. kernel[l].base + kernel[l].length = KERNEL_HEAP_START
      BY <1>6, <3>3, Layout DEF Region
    <3>5. r.base < kernel[l + 1].base
      <4>1. l + 1 \in 1 .. Len(kernel) /\ l + 1 > l
        BY <2>2, <2>5
      <4>. QED
        BY <2>1, <4>1
    <3>6. kernel_stack_ptr <= kernel[l + 1].base
      <4>1. kernel[l + 1] = PmmObject => kernel[l + 1].base = KERNEL_PMM_START
        BY <1>6 DEF Region
      <4>. QED
        BY <1>2, <1>8, <2>7, <3>5, <4>1, Layout
    <3>7. r.base < kernel[l].base + kernel[l].length
      BY <3>1, <3>4, Layout
    <3>8. kernel[l + 1].base \in Nat
      BY <1>8, <2>7, Zenon
    <3>9. r.base + 2 < kernel[l + 1].base
      BY <3>1, <3>6, <3>8, Layout
    <3>. QED
      BY <2>6, <3>7, <3>9, Zenon
  <2>9. r.base \in StackPlaces /\ KERNEL_HEAP_START + 2 <= r.base
    <3>1. k - 1 \in Nat /\ r.base = KERNEL_HEAP_START + 2 + 3 * (k - 1)
      BY <1>1, <1>2, <2>8, Layout
    <3>2. KERNEL_HEAP_START + 2 <= r.base
      BY <3>1, Layout
    <3>3. r.base \in StackPlaces
      BY <1>2, <3>1, Zenon DEF StackPlaces
    <3>. QED
      BY <3>2, <3>3
  <2>10. \A q \in Objects(kernel) : q.base # r.base
    <3>1. PmmObject.base = KERNEL_PMM_START
      BY <1>6 DEF Region
    <3>. QED
      BY <1>1, <1>2, <1>8, <3>1, Layout
  <2>11. /\ user' = user /\ mmap(s, r)
         /\ kernel' \in Seq(Regions) /\ Increasing(kernel')
         /\ kernel' # <<>> /\ kernel'[1].base = KERNEL_TEXT_START
         /\ Objects(kernel') = Objects(kernel) \cup {r}
    <3>1. KERNEL_TEXT_START <= r.base
      BY <1>2, <2>0, Layout
    <3>2. r \in Regions /\ vmm_alloc(s, Place(s, r.base), r)
      BY <1>2, <1>4, <1>10
    <3>. QED
      BY <1>0, <2>0, <2>10, <3>1, <3>2, KernelAlloc, Zenon
  <2>12. UserInv'
    BY <2>11 DEF ListInv, UserInv, Sorted
  <2>13. stacks' = stacks \cup {r}
    BY <1>4, <1>10, Zenon
  <2>14. KernelInv'
    <3>1. {PmmObject, TableObject} \subseteq Objects(kernel')
      BY <2>11 DEF ListInv, KernelInv
    <3>2. ASSUME NEW q \in Objects(kernel')
          PROVE  \/ q.base < mmio_region /\ q.base + q.length <= mmio_region
                 \/ q \in stacks' \cup {PmmObject, TableObject}
      BY <2>11, <2>13 DEF ListInv, KernelInv
    <3>. QED
      BY <1>5, <2>11, <3>1, <3>2, Zenon DEF KernelInv, Increasing, Objects
  <2>15. StackInv'
    <3>1. stacks' \subseteq Objects(kernel')
      BY <2>11, <2>13 DEF ListInv, StackInv
    <3>2. r.base \in Int /\ r.base <= KERNEL_STACK_START /\ r.base \in StackPlaces
      BY <1>1, <1>2, <1>3, <2>9, Layout
    <3>3. ASSUME NEW q \in stacks'
          PROVE  /\ q.base \in StackPlaces /\ q.length = StackPages
                 /\ r.base <= q.base /\ q.base + StackStep <= KERNEL_STACK_START
      <4>1. CASE q = r
        BY <1>1, <1>2, <1>3, <2>9, <4>1, Layout
      <4>2. CASE q \in stacks
        BY <1>1, <1>2, <1>7, <4>2, Layout
      <4>. QED
        BY <2>13, <4>1, <4>2, Zenon
    <3>. QED
      BY <1>3, <3>1, <3>2, <3>3, Zenon DEF StackInv, Objects, StackPlaces, StackPages, StackStep
  <2>16. WindowInv'
    <3>1. \A w \in windows : \A p \in Pages(w) : kpt'[p] = w.base
      <4>1. mmap(s, r) /\ r \in Regions /\ mmio_region <= r.base /\ WindowInv
        BY <1>0, <1>2, <2>11, Layout DEF ListInv
      <4>. QED
        BY <4>1, MmapKeepsWindows
    <3>. QED
      BY <3>1, Zenon DEF ListInv, WindowInv
  <2>. QED
    BY <1>2, <1>3, <2>9, <2>11, <2>12, <2>14, <2>15, <2>16, Layout DEF ListInv, r, s
<1>. QED
  BY <1>9, <1>10

\* vmm_lengthen replaces the bitmap's object by a longer one at the same place.
LEMMA LengthenKeeps ==
  ASSUME Types, ListInv, mmio_region <= KERNEL_PMM_START, vmm_lengthen
  PROVE  ListInv'
<1>. DEFINE r == Region(KERNEL_PMM_START, KERNEL_HEAP_START - KERNEL_PMM_START)
            i == CHOOSE i \in DOMAIN kernel : kernel[i].base = KERNEL_PMM_START
<1>0. /\ phase = "pmm_init" /\ phase' = "ist1" /\ kernel' = [kernel EXCEPT ![i] = r]
      /\ mmap(current_vmm, r)
      /\ UNCHANGED <<user, mmio_region, windows, kernel_stack_ptr, stacks>>
  BY DEF vmm_lengthen, mmioVars, stackVars
<1>1. r \in Regions /\ r.base = KERNEL_PMM_START
  BY Layout DEF Region, Regions
<1>2. kernel \in Seq(Regions) /\ Len(kernel) \in Nat /\ Increasing(kernel)
      /\ kernel # <<>> /\ kernel[1].base = KERNEL_TEXT_START
  BY DEF ListInv, KernelInv
<1>3. PmmObject.base = KERNEL_PMM_START /\ PmmObject' = r /\ TableObject' = TableObject
      /\ TableObject.base # KERNEL_PMM_START
  BY <1>0, Layout DEF PmmObject, TableObject, Region
<1>4. PICK b \in 1 .. Len(kernel) : kernel[b] = PmmObject
  BY <1>2, ObjectsShape DEF ListInv, KernelInv
<1>5. i \in 1 .. Len(kernel) /\ kernel[i].base = KERNEL_PMM_START
  BY <1>2, <1>3, <1>4
<1>. HIDE DEF i, r
<1>6. ASSUME NEW j \in 1 .. Len(kernel) PROVE kernel[j].base \in Nat
  <2>1. kernel[j] \in Regions
    BY <1>2
  <2>. QED
    BY <2>1 DEF Regions
<1>7. b = i
  <2>1. b < i \/ i < b => kernel[b].base # kernel[i].base
    BY <1>2, <1>4, <1>5, <1>6 DEF Increasing
  <2>. QED
    BY <1>3, <1>4, <1>5, <2>1
<1>8. /\ kernel' \in Seq(Regions) /\ Len(kernel') = Len(kernel)
      /\ \A j \in 1 .. Len(kernel) : kernel'[j] = IF j = i THEN r ELSE kernel[j]
  BY <1>0, <1>1, <1>2, <1>5
<1>9. \A j \in 1 .. Len(kernel) : kernel'[j].base = kernel[j].base
  BY <1>1, <1>5, <1>8
<1>10. Increasing(kernel')
  BY <1>2, <1>8, <1>9 DEF Increasing
<1>11. kernel' # <<>> /\ kernel'[1].base = KERNEL_TEXT_START
  <2>1. 1 \in 1 .. Len(kernel)
    BY <1>2
  <2>. QED
    BY <1>2, <1>8, <1>9, <2>1
<1>12. \A q : q \in Objects(kernel') <=> \E j \in 1 .. Len(kernel) : kernel'[j] = q
  BY <1>8, ObjectsShape
<1>13. \A q : q \in Objects(kernel) <=> \E j \in 1 .. Len(kernel) : kernel[j] = q
  BY <1>2, ObjectsShape
<1>14. ASSUME NEW q \in Objects(kernel), q # PmmObject PROVE q \in Objects(kernel')
  <2>1. PICK j \in 1 .. Len(kernel) : kernel[j] = q
    BY <1>13
  <2>2. j # i
    BY <1>4, <1>7, <1>14, <2>1
  <2>. QED
    BY <1>8, <1>12, <2>1, <2>2
<1>15. ASSUME NEW q \in Objects(kernel') PROVE q = r \/ (q \in Objects(kernel) /\ q # PmmObject)
  <2>1. PICK j \in 1 .. Len(kernel) : kernel'[j] = q
    BY <1>12
  <2>2. CASE j = i
    BY <1>8, <2>1, <2>2
  <2>3. CASE j # i
    <3>1. kernel[j] = q
      BY <1>8, <2>1, <2>3
    <3>2. kernel[j].base # kernel[i].base
      BY <1>2, <1>5, <1>6, <2>3 DEF Increasing
    <3>. QED
      BY <1>3, <1>5, <1>13, <3>1, <3>2
  <2>. QED
    BY <2>2, <2>3
<1>16. r \in Objects(kernel')
  BY <1>5, <1>8, <1>12
<1>17. UserInv'
  BY <1>0 DEF ListInv, UserInv, Sorted
<1>18. KernelInv'
  <2>1. {r, TableObject} \subseteq Objects(kernel')
    BY <1>3, <1>14, <1>16 DEF ListInv, KernelInv
  <2>2. ASSUME NEW q \in Objects(kernel')
        PROVE  \/ q.base < mmio_region /\ q.base + q.length <= mmio_region
               \/ q \in stacks \cup {r, TableObject}
    BY <1>15 DEF ListInv, KernelInv
  <2>. QED
    BY <1>0, <1>3, <1>8, <1>10, <1>11, <2>1, <2>2 DEF KernelInv, Increasing, Objects
<1>19. StackInv'
  <2>1. ASSUME NEW q \in stacks PROVE q # PmmObject
    <3>1. q.base \in StackPlaces
      BY DEF ListInv, StackInv
    <3>. QED
      BY <1>3, <3>1, Layout DEF StackPlaces
  <2>2. stacks' \subseteq Objects(kernel')
    BY <1>0, <1>14, <2>1, Zenon DEF ListInv, StackInv
  <2>. QED
    BY <1>0, <2>2 DEF ListInv, StackInv, Objects
<1>20. WindowInv'
  <2>1. \A w \in windows : \A p \in Pages(w) : kpt'[p] = w.base
    BY <1>0, <1>1, MmapKeepsWindows DEF ListInv
  <2>. QED
    BY <1>0, <2>1 DEF ListInv, WindowInv
<1>. QED
  BY <1>17, <1>18, <1>19, <1>20 DEF ListInv

\* reap_thread removes the object of that stack and no other.
LEMMA ReapThreadKeeps ==
  ASSUME ListInv, NEW r \in stacks, reap_thread(r)
  PROVE  ListInv'
<1>. DEFINE i == CHOOSE i \in DOMAIN kernel :
                   kernel[i].base = r.base /\ \A j \in 1 .. i - 1 : kernel[j].base # r.base
<1>0. /\ phase = "run" /\ phase' = phase /\ kernel' = Unlinked(kernel, i) /\ stacks' = stacks \ {r}
      /\ UNCHANGED <<user, kpt, mmio_region, windows, kernel_stack_ptr>>
  BY DEF reap_thread, vmm_free, umap, mmioVars
<1>1. /\ kernel \in Seq(Regions) /\ Len(kernel) \in Nat /\ Increasing(kernel)
      /\ kernel # <<>> /\ kernel[1].base = KERNEL_TEXT_START
  BY DEF ListInv, KernelInv
<1>2. PICK b \in 1 .. Len(kernel) : kernel[b] = r
  BY <1>1, ObjectsShape DEF ListInv, StackInv
<1>3. ASSUME NEW j \in 1 .. Len(kernel) PROVE kernel[j].base \in Nat
  <2>1. kernel[j] \in Regions
    BY <1>1
  <2>. QED
    BY <2>1 DEF Regions
<1>4. ASSUME NEW j \in 1 .. Len(kernel), j # b PROVE kernel[j].base # r.base
  <2>1. kernel[j].base < kernel[b].base \/ kernel[b].base < kernel[j].base
    BY <1>1, <1>4 DEF Increasing
  <2>. QED
    BY <1>2, <1>3, <2>1
<1>5. i = b
  <2>1. b \in DOMAIN kernel /\ kernel[b].base = r.base /\ \A j \in 1 .. b - 1 : kernel[j].base # r.base
    <3>1. ASSUME NEW j \in 1 .. b - 1 PROVE j \in 1 .. Len(kernel) /\ j # b
      BY <1>1
    <3>. QED
      BY <1>1, <1>2, <1>4, <3>1
  <2>2. i \in DOMAIN kernel /\ kernel[i].base = r.base
    BY <2>1, Zenon
  <2>. HIDE DEF i
  <2>. QED
    BY <1>1, <1>4, <2>2
<1>. HIDE DEF i
<1>6. Increasing(kernel') /\ Objects(kernel') = Objects(kernel) \ {r}
  BY <1>0, <1>1, <1>2, <1>5, UnlinkedIncreasing
<1>7. r.base \in StackPlaces
  BY DEF ListInv, StackInv
<1>8. KERNEL_HEAP_START + 2 <= r.base /\ r.base + 3 <= KERNEL_STACK_START /\ r.base \in Nat
  BY <1>7, Layout DEF StackPlaces, ListInv, StackInv
<1>9. r # PmmObject /\ r # TableObject /\ b # 1
  <2>1. r.base # KERNEL_PMM_START /\ r.base # KERNEL_PAGE_TBL_START /\ r.base # KERNEL_TEXT_START
    BY <1>8, Layout
  <2>2. PmmObject.base = KERNEL_PMM_START /\ TableObject.base = KERNEL_PAGE_TBL_START
    BY DEF PmmObject, TableObject, Region
  <2>. QED
    BY <1>1, <1>2, <2>1, <2>2, Zenon
<1>10. kernel' \in Seq(Regions) /\ kernel' # <<>> /\ kernel'[1].base = KERNEL_TEXT_START
  <2>1. /\ kernel' \in Seq(Regions) /\ Len(kernel') = Len(kernel) - 1
        /\ \A j \in 1 .. b - 1 : kernel'[j] = kernel[j]
    <3>1. IsUnlinked(kernel, b, kernel')
      BY <1>0, <1>1, <1>5, UnlinkedShape, Zenon
    <3>. QED
      BY <3>1, Zenon DEF IsUnlinked
  <2>2. 1 \in 1 .. b - 1 /\ Len(kernel) - 1 >= 1
    BY <1>1, <1>2, <1>9
  <2>3. kernel'[1] = kernel[1] /\ kernel' # <<>>
    BY <2>1, <2>2
  <2>. QED
    BY <1>1, <2>1, <2>3
<1>11. PmmObject' = PmmObject /\ TableObject' = TableObject
  BY <1>0 DEF PmmObject, TableObject, Region
<1>12. UserInv' /\ WindowInv'
  BY <1>0 DEF ListInv, UserInv, Sorted, WindowInv
<1>13. KernelInv'
  <2>1. {PmmObject, TableObject} \subseteq Objects(kernel')
    BY <1>6, <1>9 DEF ListInv, KernelInv
  <2>2. ASSUME NEW q \in Objects(kernel')
        PROVE  \/ q.base < mmio_region /\ q.base + q.length <= mmio_region
               \/ q \in stacks' \cup {PmmObject, TableObject}
    BY <1>0, <1>6 DEF ListInv, KernelInv
  <2>. QED
    BY <1>0, <1>6, <1>10, <1>11, <2>1, <2>2, Zenon DEF KernelInv, Increasing, Objects
<1>14. StackInv'
  <2>1. stacks' \subseteq Objects(kernel')
    BY <1>0, <1>6 DEF ListInv, StackInv
  <2>. QED
    BY <1>0, <2>1 DEF ListInv, StackInv, Objects
<1>. QED
  BY <1>12, <1>13, <1>14 DEF ListInv

\* reap_process empties the list of one space.
LEMMA ReapProcessKeeps ==
  ASSUME ListInv, reap_process
  PROVE  ListInv'
<1>0. /\ phase = "run" /\ phase' = phase /\ user' = [user EXCEPT ![current_vmm] = <<>>]
      /\ UNCHANGED <<kernel, kpt, mmio_region, windows, kernel_stack_ptr, stacks>>
  BY DEF reap_process, umap, mmioVars, stackVars
<1>1. PmmObject' = PmmObject /\ TableObject' = TableObject
  BY <1>0 DEF PmmObject, TableObject, Region
<1>2. UserInv'
  <2>0. user \in [Spaces -> Seq(Regions)] /\ <<>> \in Seq(Regions)
    <3>1. <<>> \in Seq(Regions)
      OBVIOUS
    <3>2. user \in [Spaces -> Seq(Regions)]
      BY DEF ListInv, UserInv
    <3>. QED
      BY <3>1, <3>2
  <2>1. user' \in [Spaces -> Seq(Regions)]
    BY <1>0, <2>0, Zenon
  <2>2. ASSUME NEW s \in Spaces
        PROVE  Sorted(user'[s]) /\ \A j \in 1 .. Len(user'[s]) : user'[s][j].base < KERNEL_TEXT_START
    <3>1. user'[s] = <<>> \/ user'[s] = user[s]
      BY <1>0, <2>0
    <3>2. CASE user'[s] = <<>>
      BY <3>2 DEF Sorted
    <3>3. CASE user'[s] = user[s]
      BY <3>3 DEF ListInv, UserInv, Sorted
    <3>. QED
      BY <3>1, <3>2, <3>3
  <2>. QED
    BY <2>1, <2>2, Zenon DEF UserInv, Sorted
<1>3. KernelInv'
  BY <1>0, <1>1 DEF ListInv, KernelInv, Increasing, Objects
<1>4. StackInv' /\ WindowInv'
  BY <1>0 DEF ListInv, StackInv, WindowInv, Objects
<1>. QED
  BY <1>2, <1>3, <1>4 DEF ListInv

\* get_rsdp finds its room behind the head of the list.
LEMMA RsdpPlace ==
  ASSUME get_rsdp, current_vmm = Initial, kernel \in Seq(Regions), kernel # <<>>,
         kernel[1].base = KERNEL_TEXT_START
  PROVE  user[Initial] = <<>> /\ vmm_alloc(Initial, 1, Region(0, BiosPages))
<1>. DEFINE L == List(Initial)
            Fits(i) == L[i].base + L[i].length + BiosPages < L[i + 1].base
            r == Region(0, BiosPages)
<1>0. /\ user[Initial] = <<>>
      /\ vmm_alloc(current_vmm, FirstGap(current_vmm, BiosPages),
                   Region(List(current_vmm)[FirstGap(current_vmm, BiosPages)].base
                            + List(current_vmm)[FirstGap(current_vmm, BiosPages)].length, BiosPages))
  BY DEF get_rsdp
<1>1. Initial \in Spaces
  BY DEF Spaces
<1>2. /\ Len(L) >= 2 /\ Len(L) \in Nat /\ L[1] = Region(0, 0) /\ L[2] = kernel[1]
  <2>0. user[Initial] \in Seq(Regions) /\ Len(user[Initial]) = 0
    BY <1>0
  <2>1. /\ Len(user[Initial]) = 0 /\ Len(kernel) \in Nat /\ Len(kernel) >= 1
        /\ Len(L) = 1 + Len(user[Initial]) + Len(kernel) /\ L[1] = Region(0, 0)
        /\ \A j \in 1 .. Len(kernel) : L[1 + Len(user[Initial]) + j] = kernel[j]
    BY <1>1, <2>0, ListParts, Zenon
  <2>. HIDE DEF L
  <2>2. 1 \in 1 .. Len(kernel) /\ 1 + Len(user[Initial]) + 1 = 2
    BY <2>1
  <2>3. L[2] = kernel[1]
    BY <2>1, <2>2
  <2>. QED
    BY <2>1, <2>3
<1>. HIDE DEF L
<1>3. Fits(1)
  <2>1. L[1].base = 0 /\ L[1].length = 0
    BY <1>2 DEF Region
  <2>2. L[1 + 1].base = KERNEL_TEXT_START
    BY <1>2
  <2>. QED
    BY <2>1, <2>2, Layout
<1>4. FirstGap(Initial, BiosPages)
        = CHOOSE i \in 1 .. Len(L) - 1 : Fits(i) /\ \A j \in 1 .. i - 1 : ~Fits(j)
  BY DEF FirstGap, L
<1>. HIDE DEF Fits
<1>5. ASSUME NEW i \in 1 .. Len(L) - 1
      PROVE  (Fits(i) /\ \A j \in 1 .. i - 1 : ~Fits(j)) <=> i = 1
  <2>1. CASE i = 1
    BY <1>3, <2>1
  <2>2. CASE i # 1
    <3>1. 1 \in 1 .. i - 1
      BY <1>2, <2>2
    <3>. QED
      BY <1>3, <2>2, <3>1
  <2>. QED
    BY <2>1, <2>2
<1>6. FirstGap(Initial, BiosPages) = 1
  <2>1. 1 \in 1 .. Len(L) - 1
    BY <1>2
  <2>. QED
    BY <1>4, <1>5, <2>1
<1>7. vmm_alloc(Initial, 1, r)
  <2>1. L[1].base + L[1].length = 0
    BY <1>2 DEF Region
  <2>. QED
    BY <1>0, <1>1, <1>6, <2>1 DEF L
<1>. QED
  BY <1>0, <1>7

\* It lies below the kernel.
LEMMA RsdpKeeps ==
  ASSUME Types, ListInv, mmio_region <= KERNEL_PMM_START, get_rsdp
  PROVE  ListInv'
<1>. DEFINE r == Region(0, BiosPages)
<1>0. phase = "acpi_init" /\ UNCHANGED <<phase, mmio_region, windows, stackVars>>
  BY DEF get_rsdp, mmioVars
<1>1. current_vmm = Initial /\ Initial \in Spaces
  BY <1>0 DEF Types, Spaces
<1>2. user[Initial] = <<>> /\ vmm_alloc(Initial, 1, r)
  BY <1>1, RsdpPlace DEF ListInv, KernelInv
<1>3. r \in Regions /\ r.base = 0 /\ r.length = BiosPages
  BY Layout DEF Region, Regions
<1>. HIDE DEF r
<1>4. /\ 1 \in 1 .. Len(user[Initial]) + 1 /\ \A j \in 1 .. Len(user[Initial]) : FALSE
      /\ r.base < KERNEL_TEXT_START /\ r.base + r.length <= KERNEL_TEXT_START
  <2>1. Len(user[Initial]) = 0
    BY <1>2
  <2>. QED
    BY <1>3, <2>1, Layout
<1>. QED
  BY <1>0, <1>1, <1>2, <1>3, <1>4, UserAlloc

\* vmm_alloc of a region below the kernel.
LEMMA UserPlaced ==
  ASSUME Types, ListInv, mmio_region <= KERNEL_PMM_START,
         NEW s \in Spaces, NEW r \in Regions, r.base < KERNEL_TEXT_START,
         r.base + r.length <= KERNEL_TEXT_START,
         vmm_alloc(s, Place(s, r.base), r),
         UNCHANGED <<phase, mmio_region, windows, stackVars>>
  PROVE  ListInv'
<1>1. r.base \in Nat
  BY DEF Regions
<1>2. /\ Place(s, r.base) \in 1 .. Len(user[s]) + 1
      /\ \A j \in 1 .. Len(user[s]) : /\ j < Place(s, r.base) => user[s][j].base <= r.base
                                      /\ j >= Place(s, r.base) => r.base < user[s][j].base
  BY <1>1, UserPlace DEF ListInv
<1>. QED
  BY <1>2, UserAlloc

-----------------------------------------------------------------------------
(* The steps *)

\* vmm_init leaves a sorted list and no windows.
LEMMA InitVmmInv == vmm_init => VmmInv
<1>. SUFFICES ASSUME vmm_init PROVE VmmInv
  OBVIOUS
<1>0. /\ phase = "pmm_init" /\ kernel = kernel_objects /\ user = [s \in Spaces |-> <<>>]
      /\ current_vmm = Initial /\ loading = NONE /\ alive = {} /\ acpi_tables = <<>>
      /\ mmio_region = VGA_TEXT_BUFFER_BASE + 1 /\ windows = {}
      /\ kernel_stack_ptr = KERNEL_STACK_START /\ stacks = {}
  BY DEF vmm_init
<1>1. Types
  <2>1. <<>> \in Seq([base : Nat, table : Tables])
    OBVIOUS
  <2>. QED
    BY <1>0, <2>1, Layout DEF Types, Spaces
<1>2. UserInv
  <2>1. <<>> \in Seq(Regions) /\ Len(<<>>) = 0
    OBVIOUS
  <2>2. user \in [Spaces -> Seq(Regions)] /\ \A s \in Spaces : user[s] = <<>>
    BY <1>0, <2>1
  <2>3. ASSUME NEW s \in Spaces
        PROVE  Sorted(user[s]) /\ \A j \in 1 .. Len(user[s]) : user[s][j].base < KERNEL_TEXT_START
    <3>1. 1 .. Len(user[s]) = {}
      BY <2>1, <2>2
    <3>. QED
      BY <3>1 DEF Sorted
  <2>. QED
    BY <2>2, <2>3 DEF UserInv
<1>3. KernelInv
  <2>. DEFINE a == Region(KERNEL_TEXT_START, TextPages)
              b == Region(VGA_TEXT_BUFFER_BASE, 1)
              c == Region(KERNEL_PMM_START, 1)
              d == Region(KERNEL_PAGE_TBL_START, TablePages)
  <2>1. kernel = <<a, b, c, d>>
    BY <1>0 DEF kernel_objects
  <2>2. /\ a \in Regions /\ b \in Regions /\ c \in Regions /\ d \in Regions
        /\ a.base = KERNEL_TEXT_START /\ a.length = TextPages
        /\ b.base = VGA_TEXT_BUFFER_BASE /\ b.length = 1
        /\ c.base = KERNEL_PMM_START /\ d.base = KERNEL_PAGE_TBL_START
        /\ PmmObject = c /\ TableObject = d
    BY <1>0, Layout DEF Region, Regions, PmmObject, TableObject
  <2>. HIDE DEF a, b, c, d
  <2>3. /\ kernel \in Seq(Regions) /\ Len(kernel) = 4 /\ kernel # <<>>
        /\ kernel[1] = a /\ kernel[2] = b /\ kernel[3] = c /\ kernel[4] = d
    BY <2>1, <2>2
  <2>4. Increasing(kernel)
    <3>. SUFFICES ASSUME NEW x \in 1 .. 4, NEW y \in 1 .. 4, x < y PROVE kernel[x].base < kernel[y].base
      BY <2>3 DEF Increasing
    <3>1. /\ a.base < b.base /\ b.base < c.base /\ c.base < d.base
          /\ a.base < c.base /\ b.base < d.base /\ a.base < d.base
      BY <2>2, Layout
    <3>2. <<x, y>> \in {<<1, 2>>, <<1, 3>>, <<1, 4>>, <<2, 3>>, <<2, 4>>, <<3, 4>>}
      OBVIOUS
    <3>. QED
      BY <2>3, <3>1, <3>2
  <2>5. Objects(kernel) = {a, b, c, d}
    <3>1. \A x : x \in Objects(kernel) <=> \E j \in 1 .. 4 : kernel[j] = x
      BY <2>3, ObjectsShape
    <3>2. 1 .. 4 = {1, 2, 3, 4}
      OBVIOUS
    <3>3. \A x : x \in Objects(kernel) <=> x = kernel[1] \/ x = kernel[2] \/ x = kernel[3] \/ x = kernel[4]
      BY <3>1, <3>2
    <3>. QED
      BY <2>3, <3>3
  <2>6. /\ a.base < mmio_region /\ a.base + a.length <= mmio_region
        /\ b.base < mmio_region /\ b.base + b.length <= mmio_region
    BY <1>0, <2>2, Layout
  <2>. QED
    BY <2>2, <2>3, <2>4, <2>5, <2>6 DEF KernelInv
<1>4. StackInv
  BY <1>0, Layout, StackStart DEF StackInv
<1>5. WindowInv
  BY <1>0 DEF WindowInv
<1>. QED
  BY <1>1, <1>2, <1>3, <1>4, <1>5 DEF VmmInv, ListInv

\* A step of kernel_start that maps no device.
LEMMA QuietDevice ==
  ASSUME VmmInv, NEW from, NEW to, from \notin {"pmm_init", "run", "panic"},
         to \notin {"pmm_init", "run", "map_table"}, DeviceStep(from, to),
         UNCHANGED <<tableVars, mmio_region, windows>>,
         acpi_tables' = acpi_tables \/ acpi_tables' = <<>>
  PROVE  VmmInv'
<1>1. phase = from /\ phase' = to /\ UNCHANGED <<current_process, loading, alive, current_vmm, stackVars>>
  BY DEF DeviceStep, procVars
<1>2. Types'
  <2>1. <<>> \in Seq([base : Nat, table : Tables]) /\ acpi_tables \in Seq([base : Nat, table : Tables])
    BY DEF VmmInv, Types
  <2>2. acpi_tables' \in Seq([base : Nat, table : Tables])
    BY <2>1, Zenon
  <2>. QED
    BY <1>1, <2>2 DEF VmmInv, Types
<1>3. ASSUME mmio_region' <= KERNEL_PMM_START PROVE ListInv'
  BY <1>1, <1>3, ListsUntouched DEF VmmInv
<1>. QED
  BY <1>2, <1>3 DEF VmmInv

\* A step of kernel_start that maps one.
LEMMA MappedDevice ==
  ASSUME VmmInv, NEW from, NEW to, from \notin {"pmm_init", "run", "panic"},
         to \notin {"pmm_init", "run"}, DeviceStep(from, to),
         NEW n \in Nat \ {0}, alloc_mmio(n),
         acpi_tables' \in Seq([base : Nat, table : Tables]),
         to = "map_table" => acpi_tables' # <<>>
  PROVE  VmmInv'
<1>1. phase = from /\ phase' = to /\ UNCHANGED <<current_process, loading, alive, current_vmm, stackVars>>
  BY DEF DeviceStep, procVars
<1>2. mmio_region \in Nat /\ mmio_region' = mmio_region + n /\ VGA_TEXT_BUFFER_BASE < mmio_region
  BY DEF VmmInv, Types, alloc_mmio, MmioEnd
<1>3. Types'
  <2>1. mmio_region' \in Nat /\ VGA_TEXT_BUFFER_BASE < mmio_region'
    BY <1>2, Layout
  <2>. QED
    BY <1>1, <2>1 DEF VmmInv, Types
<1>4. ASSUME mmio_region' <= KERNEL_PMM_START PROVE ListInv'
  <2>1. mmio_region <= KERNEL_PMM_START /\ mmio_region + n <= KERNEL_PMM_START
    BY <1>2, <1>4, Layout
  <2>. QED
    BY <1>1, <2>1, WindowAlloc DEF VmmInv
<1>. QED
  BY <1>3, <1>4 DEF VmmInv

\* What map_table adds for a long table is at least a page.
LEMMA RestIsPages ==
  ASSUME VmmInv, phase = "map_table", Long
  PROVE  (Table.length - 2 * PAGE_SIZE + PAGE_SIZE - 1) \div PAGE_SIZE \in Nat \ {0}
<1>. DEFINE d == Table.length - 2 * PAGE_SIZE
<1>1. acpi_tables \in Seq([base : Nat, table : Tables]) /\ acpi_tables # <<>>
  BY DEF VmmInv, Types
<1>2. acpi_tables[Len(acpi_tables)] \in [base : Nat, table : Tables]
  <2>. DEFINE S == [base : Nat, table : Tables]
  <2>1. acpi_tables \in Seq(S) /\ acpi_tables # <<>>
    BY <1>1
  <2>. HIDE DEF S
  <2>2. acpi_tables[Len(acpi_tables)] \in S
    BY <2>1
  <2>. QED
    BY <2>2 DEF S
<1>3. Table \in Tables
  BY <1>2 DEF Table
<1>4. Table.length \in Nat /\ PAGE_SIZE \in Nat \ {0}
  BY <1>3, VmmAssumption
<1>5. d \in Nat \ {0}
  BY <1>4 DEF Long
<1>6. Table.length - 2 * PAGE_SIZE + PAGE_SIZE - 1 = d + PAGE_SIZE - 1
  BY <1>4
<1>. HIDE DEF d
<1>7. (d + PAGE_SIZE - 1) \div PAGE_SIZE \in Nat \ {0}
  BY <1>4, <1>5
<1>. QED
  BY <1>6, <1>7

\* Every step of kernel_start keeps the invariant.
LEMMA BootKeeps ==
  ASSUME VmmInv,
         \/ vmm_lengthen \/ remap_gdt \/ get_rsdp \/ acpi_init
         \/ (\E t \in Tables : map_table(t)) \/ map_table_rest \/ validate_checksum
         \/ apic_init \/ get_ioapic \/ tar_init \/ sched_init
  PROVE  VmmInv'
<1>0. Types /\ acpi_tables \in Seq([base : Nat, table : Tables]) /\ mmio_region \in Nat
  BY DEF VmmInv, Types
<1>1. CASE vmm_lengthen
  <2>1. /\ phase' = "ist1" /\ phase = "pmm_init"
        /\ UNCHANGED <<current_process, loading, alive, current_vmm, mmio_region, acpi_tables>>
    BY <1>1 DEF vmm_lengthen, procVars, mmioVars
  <2>2. Types'
    BY <1>0, <2>1 DEF Types
  <2>3. mmio_region' <= KERNEL_PMM_START => ListInv'
    BY <1>1, <2>1, LengthenKeeps DEF VmmInv
  <2>. QED
    BY <2>2, <2>3 DEF VmmInv
<1>2. CASE remap_gdt
  <2>1. UNCHANGED <<current_process, loading, alive, current_vmm, mmio_region, windows, acpi_tables>>
    BY <1>2 DEF remap_gdt, procVars, mmioVars
  <2>2. PICK f \in {"ist1", "rsp1"}, t \in {"rsp1", "acpi_init"} : alloc_kernel_stack(f, t)
    BY <1>2 DEF remap_gdt
  <2>3. phase = f /\ phase' \in {t, "panic"}
    BY <2>2 DEF alloc_kernel_stack, PANIC
  <2>4. Types'
    BY <1>0, <2>1, <2>2, <2>3 DEF Types
  <2>5. f \notin {"pmm_init", "panic"} /\ t # "pmm_init"
    BY <2>2
  <2>6. mmio_region' <= KERNEL_PMM_START => ListInv'
    BY <2>1, <2>2, <2>5, StackAlloc DEF VmmInv
  <2>. QED
    BY <2>4, <2>6 DEF VmmInv
<1>3. CASE get_rsdp
  <2>1. UNCHANGED <<phase, current_process, loading, alive, current_vmm, mmio_region, acpi_tables>>
    BY <1>3 DEF get_rsdp, procVars, mmioVars
  <2>2. Types'
    BY <1>0, <2>1 DEF Types
  <2>3. mmio_region' <= KERNEL_PMM_START => ListInv'
    BY <1>3, <2>1, RsdpKeeps DEF VmmInv
  <2>. QED
    BY <2>2, <2>3 DEF VmmInv
<1>4. CASE acpi_init
  <2>1. CASE DeviceStep("acpi_init", "panic") /\ UNCHANGED <<tableVars, mmioVars>>
    BY <2>1, QuietDevice DEF mmioVars
  <2>2. CASE DeviceStep("acpi_init", "parse_rsdt") /\ alloc_mmio(2) /\ UNCHANGED acpi_tables
    <3>1. 2 \in Nat \ {0} /\ acpi_tables' \in Seq([base : Nat, table : Tables])
      BY <1>0, <2>2
    <3>2. DeviceStep("acpi_init", "parse_rsdt") /\ alloc_mmio(2)
      BY <2>2
    <3>3. "acpi_init" \notin {"pmm_init", "run", "panic"} /\ "parse_rsdt" \notin {"pmm_init", "run"}
          /\ "parse_rsdt" # "map_table"
      OBVIOUS
    <3>. QED
      BY <3>1, <3>2, <3>3, MappedDevice, Zenon
  <2>. QED
    BY <1>4, <2>1, <2>2 DEF acpi_init
<1>5. ASSUME NEW t \in Tables, map_table(t) PROVE VmmInv'
  <2>1. /\ DeviceStep("parse_rsdt", "map_table") /\ alloc_mmio(2)
        /\ acpi_tables' = Append(acpi_tables, [base |-> mmio_region, table |-> t])
    BY <1>5 DEF map_table
  <2>2. [base |-> mmio_region, table |-> t] \in [base : Nat, table : Tables]
    BY <1>0
  <2>3. acpi_tables' \in Seq([base : Nat, table : Tables]) /\ acpi_tables' # <<>>
    BY <1>0, <2>1, <2>2
  <2>4. 2 \in Nat \ {0}
    OBVIOUS
  <2>. QED
    BY <2>1, <2>3, <2>4, MappedDevice, Zenon
<1>6. CASE map_table_rest
  <2>1. CASE DeviceStep("map_table", "panic") /\ UNCHANGED <<tableVars, mmioVars>>
    BY <2>1, QuietDevice DEF mmioVars
  <2>2. CASE /\ DeviceStep("map_table", "checksum") /\ Long /\ UNCHANGED acpi_tables
             /\ alloc_mmio((Table.length - 2 * PAGE_SIZE + PAGE_SIZE - 1) \div PAGE_SIZE)
    <3>1. (Table.length - 2 * PAGE_SIZE + PAGE_SIZE - 1) \div PAGE_SIZE \in Nat \ {0}
      BY <2>2, RestIsPages DEF DeviceStep
    <3>2. acpi_tables' \in Seq([base : Nat, table : Tables])
      BY <1>0, <2>2
    <3>3. /\ DeviceStep("map_table", "checksum")
          /\ alloc_mmio((Table.length - 2 * PAGE_SIZE + PAGE_SIZE - 1) \div PAGE_SIZE)
      BY <2>2
    <3>4. "map_table" \notin {"pmm_init", "run", "panic"} /\ "checksum" \notin {"pmm_init", "run"}
          /\ "checksum" # "map_table"
      OBVIOUS
    <3>. QED
      BY <3>1, <3>2, <3>3, <3>4, MappedDevice, Zenon
  <2>3. CASE DeviceStep("map_table", "checksum") /\ UNCHANGED <<tableVars, mmioVars>>
    BY <2>3, QuietDevice DEF mmioVars
  <2>. QED
    BY <1>6, <2>1, <2>2, <2>3 DEF map_table_rest
<1>7. CASE validate_checksum
  <2>1. PICK t \in {"parse_rsdt", "panic"} : DeviceStep("checksum", t) /\ UNCHANGED <<tableVars, mmioVars>>
    BY <1>7 DEF validate_checksum
  <2>2. t \notin {"pmm_init", "run", "map_table"}
    BY <2>1
  <2>. QED
    BY <2>1, <2>2, QuietDevice DEF mmioVars
<1>8. CASE apic_init
  <2>1. DeviceStep("parse_rsdt", "get_ioapic") /\ alloc_mmio(1) /\ UNCHANGED acpi_tables
    BY <1>8 DEF apic_init
  <2>2. 1 \in Nat \ {0} /\ acpi_tables' \in Seq([base : Nat, table : Tables])
    BY <1>0, <2>1
  <2>3. DeviceStep("parse_rsdt", "get_ioapic") /\ alloc_mmio(1)
    BY <2>1
  <2>4. "parse_rsdt" \notin {"pmm_init", "run", "panic"} /\ "get_ioapic" \notin {"pmm_init", "run"}
          /\ "get_ioapic" # "map_table"
      OBVIOUS
  <2>. QED
    BY <2>2, <2>3, <2>4, MappedDevice, Zenon
<1>9. CASE get_ioapic
  <2>1. acpi_tables' = <<>> /\ acpi_tables' \in Seq([base : Nat, table : Tables])
    BY <1>9 DEF get_ioapic
  <2>2. CASE DeviceStep("get_ioapic", "panic") /\ UNCHANGED <<tableVars, mmio_region, windows>>
    BY <2>1, <2>2, QuietDevice
  <2>3. CASE DeviceStep("get_ioapic", "tar_init") /\ alloc_mmio(1)
    <3>1. 1 \in Nat \ {0}
      OBVIOUS
    <3>. QED
      BY <2>1, <2>3, <3>1, MappedDevice
  <2>. QED
    BY <1>9, <2>2, <2>3 DEF get_ioapic
<1>10. CASE tar_init
  <2>1. CASE DeviceStep("tar_init", "panic") /\ UNCHANGED <<tableVars, mmioVars>>
    BY <2>1, QuietDevice DEF mmioVars
  <2>2. ASSUME NEW n \in ModulePages, NEW t \in {"panic", "sched_init"},
               DeviceStep("tar_init", t), alloc_mmio(n), UNCHANGED acpi_tables
        PROVE  VmmInv'
    <3>1. n \in Nat \ {0}
      BY VmmAssumption
    <3>2. t \notin {"pmm_init", "run"} /\ t # "map_table"
      BY <2>2
    <3>. QED
      BY <1>0, <2>2, <3>1, <3>2, MappedDevice, Zenon
  <2>. QED
    BY <1>10, <2>1, <2>2 DEF tar_init
<1>11. CASE sched_init
  <2>1. /\ alloc_kernel_stack("sched_init", "run") /\ alive' = {Idle} /\ current_process' = Idle
        /\ UNCHANGED <<loading, current_vmm, mmio_region, windows, acpi_tables>>
    BY <1>11 DEF sched_init, mmioVars
  <2>2. phase' \in {"run", "panic"}
    BY <2>1 DEF alloc_kernel_stack, PANIC
  <2>3. Types'
    BY <1>0, <2>1, <2>2 DEF Types, Spaces
  <2>4. mmio_region' <= KERNEL_PMM_START => ListInv'
    BY <2>1, StackAlloc DEF VmmInv
  <2>. QED
    BY <2>3, <2>4 DEF VmmInv
<1>. QED
  BY <1>1, <1>2, <1>3, <1>4, <1>5, <1>6, <1>7, <1>8, <1>9, <1>10, <1>11

\* So does every step of the running system.
LEMMA RunKeeps ==
  ASSUME VmmInv,
         \/ create_kernel_thread \/ (\E s \in Procs : create_vmm(s))
         \/ (\E r \in Segments : load_elf(r)) \/ alloc_user_stack
         \/ (\E s \in Spaces : switch_vm_space(s)) \/ (\E r \in stacks : reap_thread(r))
         \/ reap_process
  PROVE  VmmInv'
<1>0. Types /\ mmio_region \in Nat /\ Procs \subseteq Spaces
  BY DEF VmmInv, Types, Spaces
<1>1. CASE create_kernel_thread
  <2>1. /\ alloc_kernel_stack("run", "run")
        /\ UNCHANGED <<current_process, loading, alive, current_vmm, mmio_region, windows, acpi_tables>>
    BY <1>1 DEF create_kernel_thread, procVars, mmioVars
  <2>2. phase = "run" /\ phase' \in {"run", "panic"}
    BY <2>1 DEF alloc_kernel_stack, PANIC
  <2>3. Types'
    BY <1>0, <2>1, <2>2 DEF Types
  <2>4. mmio_region' <= KERNEL_PMM_START => ListInv'
    BY <2>1, StackAlloc DEF VmmInv
  <2>. QED
    BY <2>3, <2>4 DEF VmmInv
<1>2. ASSUME NEW s \in Procs, create_vmm(s) PROVE VmmInv'
  <2>1. /\ phase = "run" /\ loading' = s /\ current_vmm' = s
        /\ UNCHANGED <<phase, tableVars, current_process, alive, mmio_region, windows, acpi_tables, stackVars>>
    BY <1>2 DEF create_vmm, mmioVars
  <2>2. Types'
    BY <1>0, <2>1 DEF Types
  <2>3. mmio_region' <= KERNEL_PMM_START => ListInv'
    BY <2>1, ListsUntouched DEF VmmInv
  <2>. QED
    BY <2>2, <2>3 DEF VmmInv
<1>3. ASSUME NEW r \in Segments, load_elf(r) PROVE VmmInv'
  <2>1. /\ phase = "run" /\ phase' \in {"run", "panic"}
        /\ UNCHANGED <<current_process, loading, alive, current_vmm, mmio_region, windows, acpi_tables, stackVars>>
        /\ \/ UNCHANGED tableVars
           \/ vmm_alloc(current_vmm, Place(current_vmm, r.base), r) /\ UNCHANGED phase
    BY <1>3 DEF load_elf, procVars, mmioVars, PANIC
  <2>2. Types'
    BY <1>0, <2>1 DEF Types
  <2>3. r \in Regions /\ r.base < KERNEL_TEXT_START /\ r.base + r.length <= KERNEL_TEXT_START
    <3>1. r \in Regions /\ 0 < r.length /\ r.base + r.length <= KERNEL_TEXT_START
      BY VmmAssumption
    <3>2. r.base \in Nat /\ r.length \in Nat
      BY <3>1 DEF Regions
    <3>. QED
      BY <3>1, <3>2, Layout
  <2>4. ASSUME mmio_region <= KERNEL_PMM_START PROVE ListInv'
    <3>1. ListInv /\ current_vmm \in Spaces
      BY <2>4 DEF VmmInv, Types
    <3>2. CASE UNCHANGED tableVars
      BY <2>1, <3>1, <3>2, ListsUntouched
    <3>3. CASE vmm_alloc(current_vmm, Place(current_vmm, r.base), r) /\ UNCHANGED phase
      BY <1>0, <2>1, <2>3, <2>4, <3>1, <3>3, UserPlaced, Zenon
    <3>. QED
      BY <2>1, <3>2, <3>3
  <2>. QED
    BY <2>1, <2>2, <2>4 DEF VmmInv
<1>4. CASE alloc_user_stack
  <2>. DEFINE r == Region(USER_STACK_START, StackPages)
  <2>1. /\ phase = "run" /\ phase' \in {"run", "panic"} /\ loading \in Spaces /\ loading' \in {loading, NONE}
        /\ UNCHANGED <<current_process, mmio_region, windows, acpi_tables, stackVars>>
        /\ current_vmm' \in {current_vmm, current_process} /\ alive' \in {alive, alive \cup {loading}}
        /\ \/ UNCHANGED tableVars
           \/ vmm_alloc(loading, Place(loading, r.base), r) /\ UNCHANGED phase
    BY <1>0, <1>4 DEF alloc_user_stack, mmioVars, PANIC, Types
  <2>2. Types'
    <3>1. /\ current_vmm' \in Spaces /\ current_process' \in Spaces
          /\ loading' \in Procs \cup {NONE} /\ alive' \subseteq Spaces
      BY <1>0, <2>1 DEF Types
    <3>. QED
      BY <1>0, <2>1, <3>1 DEF Types
  <2>3. r \in Regions /\ r.base < KERNEL_TEXT_START /\ r.base + r.length <= KERNEL_TEXT_START
    BY Layout DEF Region, Regions
  <2>. HIDE DEF r
  <2>4. ASSUME mmio_region <= KERNEL_PMM_START PROVE ListInv'
    <3>1. ListInv
      BY <2>4 DEF VmmInv
    <3>2. CASE UNCHANGED tableVars
      BY <2>1, <3>1, <3>2, ListsUntouched, Zenon
    <3>3. CASE vmm_alloc(loading, Place(loading, r.base), r) /\ UNCHANGED phase
      BY <1>0, <2>1, <2>3, <2>4, <3>1, <3>3, UserPlaced
    <3>. QED
      BY <2>1, <3>2, <3>3
  <2>. QED
    BY <2>1, <2>2, <2>4, Zenon DEF VmmInv
<1>5. ASSUME NEW s \in Spaces, switch_vm_space(s) PROVE VmmInv'
  <2>1. /\ phase = "run" /\ loading' = NONE /\ current_vmm' = s /\ current_process' = s
        /\ UNCHANGED <<phase, tableVars, alive, mmio_region, windows, acpi_tables, stackVars>>
    BY <1>5 DEF switch_vm_space, mmioVars
  <2>2. Types'
    BY <1>0, <2>1 DEF Types
  <2>3. mmio_region' <= KERNEL_PMM_START => ListInv'
    BY <2>1, ListsUntouched DEF VmmInv
  <2>. QED
    BY <2>2, <2>3 DEF VmmInv
<1>6. ASSUME NEW r \in stacks, reap_thread(r) PROVE VmmInv'
  <2>1. UNCHANGED <<phase, current_process, loading, alive, current_vmm, mmio_region, acpi_tables>>
    BY <1>6 DEF reap_thread, procVars, mmioVars
  <2>2. Types'
    BY <1>0, <2>1 DEF Types
  <2>3. mmio_region' <= KERNEL_PMM_START => ListInv'
    BY <1>6, <2>1, ReapThreadKeeps, Zenon DEF VmmInv
  <2>. QED
    BY <2>2, <2>3 DEF VmmInv
<1>7. CASE reap_process
  <2>1. /\ phase = "run" /\ alive' \subseteq alive /\ current_vmm' \in alive /\ current_process' \in alive
        /\ UNCHANGED <<phase, loading, mmio_region, acpi_tables>>
    BY <1>7 DEF reap_process, mmioVars
  <2>2. Types'
    BY <1>0, <2>1 DEF Types
  <2>3. mmio_region' <= KERNEL_PMM_START => ListInv'
    BY <1>7, <2>1, ReapProcessKeeps DEF VmmInv
  <2>. QED
    BY <2>2, <2>3 DEF VmmInv
<1>. QED
  BY <1>1, <1>2, <1>3, <1>4, <1>5, <1>6, <1>7

\* The invariant is inductive.
LEMMA StepVmmInv == VmmInv /\ [Next]_vars => VmmInv'
<1>. SUFFICES ASSUME VmmInv, [Next]_vars PROVE VmmInv'
  OBVIOUS
<1>1. CASE \/ vmm_lengthen \/ remap_gdt \/ get_rsdp \/ acpi_init
           \/ (\E t \in Tables : map_table(t)) \/ map_table_rest \/ validate_checksum
           \/ apic_init \/ get_ioapic \/ tar_init \/ sched_init
  BY <1>1, BootKeeps
<1>2. CASE \/ create_kernel_thread \/ (\E s \in Procs : create_vmm(s))
           \/ (\E r \in Segments : load_elf(r)) \/ alloc_user_stack
           \/ (\E s \in Spaces : switch_vm_space(s)) \/ (\E r \in stacks : reap_thread(r))
           \/ reap_process
  BY <1>2, RunKeeps
<1>3. CASE UNCHANGED vars
  <2>1. UNCHANGED <<phase, tableVars, mmio_region, windows, stackVars>>
        /\ UNCHANGED <<current_process, loading, alive, current_vmm, acpi_tables>>
    BY <1>3 DEF vars, mmioVars, procVars
  <2>2. Types'
    BY <2>1 DEF VmmInv, Types
  <2>3. mmio_region' <= KERNEL_PMM_START => ListInv'
    BY <2>1, ListsUntouched DEF VmmInv
  <2>. QED
    BY <2>2, <2>3 DEF VmmInv
<1>. QED
  BY <1>1, <1>2, <1>3 DEF Next, Halted

-----------------------------------------------------------------------------
(* What the invariant says *)

\* The lists are sorted.
LEMMA ListsSorted == VmmInv => ListsAreSorted
<1>. SUFFICES ASSUME UserInv, KernelInv, NEW s \in Spaces, NEW i \in 1 .. Len(List(s)) - 1
              PROVE  List(s)[i].base <= List(s)[i + 1].base
  BY DEF ListsAreSorted, VmmInv, ListInv
<1>0. Len(user[s]) \in Nat /\ Len(kernel) \in Nat /\ Len(List(s)) = 1 + Len(user[s]) + Len(kernel)
  BY ListShape
<1>1. Len(List(s)) \in Nat /\ Sorted(List(s))
  BY <1>0, ListSorted
<1>2. i \in 1 .. Len(List(s)) /\ i + 1 \in 1 .. Len(List(s)) /\ i < i + 1
  BY <1>1
<1>. QED
  BY <1>1, <1>2 DEF Sorted

\* The stacks with their guard pages are apart from the other objects.
LEMMA StacksApart == VmmInv => StacksAreApart
<1>. SUFFICES ASSUME Types, ListInv, mmio_region <= KERNEL_PMM_START, NEW r \in stacks
              PROVE  /\ r \in Objects(kernel)
                     /\ KERNEL_HEAP_START \notin Pages(Region(r.base - 1, r.length + 1))
                     /\ \A q \in Objects(kernel) : q # r => ~Overlap(Region(r.base - 1, r.length + 1), q)
  BY DEF StacksAreApart, VmmInv
<1>1. ASSUME NEW q \in stacks
      PROVE  /\ q \in Objects(kernel) /\ q \in Regions /\ q.base \in Nat /\ q.length = 2
             /\ q.base \in StackPlaces /\ KERNEL_HEAP_START + 2 <= q.base
             /\ q.base + 3 <= KERNEL_STACK_START
  <2>1. q \in Objects(kernel) /\ kernel \in Seq(Regions)
    BY DEF ListInv, StackInv, KernelInv
  <2>2. q \in Regions
    BY <2>1, ObjectsShape
  <2>3. q.base \in StackPlaces /\ q.length = 2 /\ q.base + 3 <= KERNEL_STACK_START
    BY Layout DEF ListInv, StackInv
  <2>4. q.base \in Nat /\ KERNEL_HEAP_START + 2 <= q.base
    <3>1. q.base \in Nat /\ \E k \in Nat : q.base = KERNEL_HEAP_START + 2 + 3 * k
      BY <2>3 DEF StackPlaces
    <3>2. PICK k \in Nat : q.base = KERNEL_HEAP_START + 2 + 3 * k
      BY <3>1
    <3>. QED
      BY <3>1, <3>2, Layout
  <2>. QED
    BY <2>1, <2>2, <2>3, <2>4
<1>2. Pages(Region(r.base - 1, r.length + 1)) = r.base - 1 .. r.base + 1
  BY <1>1 DEF Pages, Region
<1>3. ASSUME NEW q \in Objects(kernel), q # r
      PROVE  q.base \in Nat /\ q.length \in Nat
             /\ (q.base + q.length <= r.base - 1 \/ r.base + 1 < q.base)
  <2>0. kernel \in Seq(Regions)
    BY DEF ListInv, KernelInv
  <2>1. q \in Regions
    BY <2>0, ObjectsShape
  <2>2. q.base \in Nat /\ q.length \in Nat
    BY <2>1 DEF Regions
  <2>3. CASE q.base + q.length <= mmio_region
    <3>1. mmio_region \in Nat
      BY DEF Types
    <3>2. r.base \in Nat /\ KERNEL_HEAP_START + 2 <= r.base
      BY <1>1
    <3>. QED
      BY <2>2, <2>3, <3>1, <3>2, Layout
  <2>4. CASE q = PmmObject
    <3>1. q.base + q.length <= KERNEL_HEAP_START
      BY <2>4, Layout DEF PmmObject, Region
    <3>2. r.base \in Nat /\ KERNEL_HEAP_START + 2 <= r.base
      BY <1>1, Zenon
    <3>. QED
      BY <2>2, <3>1, <3>2, Layout
  <2>5. CASE q = TableObject
    <3>1. q.base = KERNEL_PAGE_TBL_START
      BY <2>5 DEF TableObject, Region
    <3>. QED
      BY <1>1, <2>2, <3>1, Layout
  <2>6. CASE q \in stacks
    <3>1. PICK k \in Nat : q.base = KERNEL_HEAP_START + 2 + 3 * k
      BY <1>1, <2>6 DEF StackPlaces
    <3>2. PICK l \in Nat : r.base = KERNEL_HEAP_START + 2 + 3 * l
      BY <1>1 DEF StackPlaces
    <3>3. q.base # r.base
      <4>1. q = [base |-> q.base, length |-> q.length] /\ r = [base |-> r.base, length |-> r.length]
        BY <1>1, <2>6 DEF Regions
      <4>2. q.length = r.length
        BY <1>1, <2>6
      <4>. QED
        BY <1>3, <4>1, <4>2
    <3>4. k < l \/ l < k
      BY <3>1, <3>2, <3>3
    <3>5. q.length = 2
      BY <1>1, <2>6
    <3>. QED
      BY <3>1, <3>2, <3>4, <3>5, <2>2, Layout
  <2>. QED
    BY <2>2, <2>3, <2>4, <2>5, <2>6 DEF ListInv, KernelInv
<1>4. KERNEL_HEAP_START \notin Pages(Region(r.base - 1, r.length + 1))
  BY <1>1, <1>2, Layout
<1>5. ASSUME NEW q \in Objects(kernel), q # r PROVE ~Overlap(Region(r.base - 1, r.length + 1), q)
  <2>1. Pages(q) = q.base .. q.base + q.length - 1
    BY DEF Pages
  <2>2. \A p \in r.base - 1 .. r.base + 1 : p \notin q.base .. q.base + q.length - 1
    BY <1>1, <1>3, <1>5
  <2>. QED
    BY <1>2, <2>1, <2>2, Zenon DEF Overlap
<1>. QED
  BY <1>1, <1>4, <1>5

=============================================================================
