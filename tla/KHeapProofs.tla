---------------------------- MODULE KHeapProofs ----------------------------
(***************************************************************************)
(* For every header size, heap size and set of request sizes: the regions  *)
(* tile the heap, blocks stay apart until a block is granted in a region   *)
(* that is too small, kmalloc panics only when no run of free regions is   *)
(* long enough, and no iteration of its loops goes back or stays in place. *)
(***************************************************************************)
EXTENDS KHeap, TLAPS

\* A block in use has a used header, and its region is large enough unless short.
BlocksAreUsed == \A b \in DOMAIN blocks : hdr[b].used
BlocksFit     == ~short => \A b \in DOMAIN blocks : blocks[b] <= hdr[b].size

\* kmalloc's scan comes from heap_start or from a used region, and every run of
\* free regions that begins before it is too short.
ScanInv ==
  pc \in {"scan", "merge"} =>
    /\ size \in Requests
    /\ curr_mem_region \in Heads \cup {HeapSize}
    /\ curr_mem_region # 0 =>
         \E u \in Heads : hdr[u].used /\ NextRegion(u) = curr_mem_region
    /\ \A a \in Heads, b \in Heads \cup {HeapSize} :
         FreeRun(a, b) /\ a < curr_mem_region => b - a - Hdr < size

\* While merging, the regions from curr_mem_region to next_mem_region are free and
\* hold mem_reg_size bytes, too few.
MergeInv ==
  pc = "merge" =>
    /\ curr_mem_region \in Heads
    /\ next_mem_region \in Heads \cup {HeapSize}
    /\ next_mem_region = curr_mem_region + Hdr + mem_reg_size
    /\ \A h \in Heads : curr_mem_region <= h /\ h < next_mem_region => ~hdr[h].used
    /\ mem_reg_size < size

HeapInv ==
  /\ TypeOK /\ Tiled /\ BlocksAreUsed /\ BlocksFit
  /\ ScanInv /\ MergeInv /\ NoneFits

-----------------------------------------------------------------------------

\* kheap_init makes one free region of the whole heap.
LEMMA InitHeap == Init => HeapInv
<1> SUFFICES ASSUME Init PROVE HeapInv
  OBVIOUS
<1> USE KHeapAssumption
<1>1. Heads = {0} /\ hdr[0] = [used |-> FALSE, size |-> HeapSize - Hdr]
  BY DEF Init, Heads
<1>2. HeapSize - Hdr \in Nat /\ NextRegion(0) = HeapSize
  BY <1>1 DEF NextRegion
<1>3. TypeOK
  <2>1. hdr \in [Heads -> [used : BOOLEAN, size : Nat]] /\ Heads \subseteq 0 .. HeapSize - 1
    BY <1>1, <1>2 DEF Init, Heads
  <2>2. blocks \in [DOMAIN blocks -> Requests] /\ DOMAIN blocks \subseteq Heads
    BY DEF Init
  <2> QED
    BY <2>1, <2>2 DEF Init, TypeOK
<1>4. Tiled
  BY <1>1, <1>2 DEF Tiled
<1> QED
  BY <1>3, <1>4 DEF Init, HeapInv, BlocksAreUsed, BlocksFit, ScanInv, MergeInv, NoneFits

\* What kmalloc may grant: the m bytes behind the header at curr_mem_region, all in
\* free regions, that end where a region ends.
Grantable(m) ==
  /\ curr_mem_region \in Heads
  /\ m \in Nat /\ m >= size
  /\ curr_mem_region + Hdr + m \in Heads \cup {HeapSize}
  /\ \A h \in Heads : curr_mem_region <= h /\ h < curr_mem_region + Hdr + m => ~hdr[h].used

\* Splitting a grantable run leaves regions that tile the heap, and leaves every
\* used region alone.
LEMMA SplitTiles ==
  ASSUME NEW m, TypeOK, Tiled, Grantable(m), size \in Requests, HasRemainder(m), Split(m)
  PROVE  /\ DOMAIN hdr' \subseteq 0 .. HeapSize - 1
         /\ hdr' \in [DOMAIN hdr' -> [used : BOOLEAN, size : Nat]]
         /\ Tiled'
         /\ \A h \in Heads : hdr[h].used => h \in DOMAIN hdr' /\ hdr'[h] = hdr[h]
         /\ curr_mem_region \in DOMAIN hdr'
         /\ hdr'[curr_mem_region] = [used |-> TRUE, size |-> size]
<1> USE KHeapAssumption
<1> DEFINE c == curr_mem_region
           n == c + Hdr + size
           e == c + Hdr + m
           H == {h \in Heads : h <= c \/ h >= e} \cup {n}
<1>1. /\ c \in Nat /\ size \in Nat /\ m \in Nat /\ c \in Heads
      /\ \A h \in Heads : h \in Nat /\ h < HeapSize
      /\ \A h \in Heads : hdr[h].size \in Nat /\ hdr[h].used \in BOOLEAN
  BY DEF TypeOK, Grantable
<1>2. c < n /\ n + Hdr < e /\ e \in Nat /\ n \in Nat /\ e <= HeapSize
  BY <1>1 DEF HasRemainder, Grantable
<1>3. /\ DOMAIN hdr' = H
      /\ \A a \in H : hdr'[a] = IF a = c THEN [used |-> TRUE, size |-> size]
                                ELSE IF a = n THEN [used |-> FALSE, size |-> m - size - Hdr]
                                ELSE hdr[a]
  BY DEF Split
<1>4. m - size - Hdr \in Nat
  BY <1>1 DEF HasRemainder
<1>5. H \subseteq 0 .. HeapSize - 1
  <2> SUFFICES ASSUME NEW a \in H PROVE a \in 0 .. HeapSize - 1
    OBVIOUS
  <2>1. CASE a = n
    BY <2>1, <1>1, <1>2
  <2>2. CASE a \in Heads
    BY <2>2 DEF TypeOK
  <2> QED
    BY <2>1, <2>2
<1>6. hdr' \in [H -> [used : BOOLEAN, size : Nat]]
  <2>1. \A a \in H : hdr'[a] \in [used : BOOLEAN, size : Nat]
    <3> SUFFICES ASSUME NEW a \in H PROVE hdr'[a] \in [used : BOOLEAN, size : Nat]
      OBVIOUS
    <3>1. a # c /\ a # n => hdr[a] \in [used : BOOLEAN, size : Nat]
      BY DEF TypeOK
    <3>2. CASE a = c
      <4>1. hdr'[a] = [used |-> TRUE, size |-> size]
        BY <3>2, <1>3
      <4> QED
        BY <4>1, <1>1
    <3>3. CASE a = n /\ a # c
      <4>1. hdr'[a] = [used |-> FALSE, size |-> m - size - Hdr]
        BY <3>3, <1>3
      <4> QED
        BY <4>1, <1>4
    <3>4. CASE a # c /\ a # n
      BY <3>1, <3>4, <1>3
    <3> QED
      BY <3>2, <3>3, <3>4
  <2>2. hdr' = [a \in H |-> hdr'[a]]
    BY <1>3 DEF Split
  <2> QED
    BY <2>1, <2>2
<1>7. c \in H /\ hdr'[c] = [used |-> TRUE, size |-> size]
  <2>1. c \in H
    BY <1>1
  <2> HIDE DEF H, n
  <2> QED
    BY <2>1, <1>3
<1>8. \A h \in Heads : hdr[h].used => h \in H /\ hdr'[h] = hdr[h]
  <2> SUFFICES ASSUME NEW h \in Heads, hdr[h].used PROVE h \in H /\ hdr'[h] = hdr[h]
    OBVIOUS
  <2>1. h < c \/ h >= e
    BY <1>1, <1>2 DEF Grantable
  <2> QED
    BY <1>1, <1>2, <1>3, <2>1
<1>9. Tiled'
  <2> DEFINE N(a) == a + hdr'[a].size + Hdr
  <2>1. /\ N(c) = n /\ N(n) = e
        /\ \A a \in H : a # c /\ a # n => N(a) = NextRegion(a) /\ a \in Heads
    <3>1. N(c) = n
      BY <1>1, <1>7
    <3>2. hdr'[n].size = m - size - Hdr
      BY <1>1, <1>2, <1>3
    <3>3. N(n) = e
      BY <3>2, <1>1, <1>4
    <3>4. \A a \in H : a # c /\ a # n => hdr'[a] = hdr[a] /\ a \in Heads
      BY <1>3
    <3> QED
      BY <3>1, <3>3, <3>4 DEF NextRegion
  <2>2. 0 \in H
    BY <1>1 DEF Tiled
  <2>3. \A a \in Heads : a < c => NextRegion(a) <= c /\ NextRegion(a) \in Heads
    <3> SUFFICES ASSUME NEW a \in Heads, a < c
                 PROVE  NextRegion(a) <= c /\ NextRegion(a) \in Heads
      OBVIOUS
    <3>1. NextRegion(a) <= c /\ NextRegion(a) \in Heads \cup {HeapSize}
      BY <1>1 DEF Tiled
    <3>2. c < HeapSize /\ HeapSize \in Nat
      BY <1>1
    <3> QED
      BY <3>1, <3>2, <1>1
  <2>4. \A a \in H : N(a) \in H \cup {HeapSize}
    <3> SUFFICES ASSUME NEW a \in H PROVE N(a) \in H \cup {HeapSize}
      OBVIOUS
    <3>1. CASE a = c
      BY <3>1, <2>1
    <3>2. CASE a = n
      BY <3>2, <2>1, <1>2 DEF Grantable
    <3>3. CASE a # c /\ a # n /\ a < c
      BY <3>3, <2>1, <2>3, <1>1
    <3>4. CASE a # c /\ a # n /\ a >= e
      <4>1. NextRegion(a) \in Heads \cup {HeapSize} /\ NextRegion(a) >= e
        BY <3>4, <2>1, <1>1, <1>2 DEF Tiled, NextRegion
      <4> QED
        BY <4>1, <2>1, <3>4
    <3> QED
      BY <3>1, <3>2, <3>3, <3>4, <1>1, <1>2
  <2>5. \A a, b \in H : a < b => N(a) <= b
    <3> SUFFICES ASSUME NEW a \in H, NEW b \in H, a < b PROVE N(a) <= b
      OBVIOUS
    <3>1. /\ b \in Nat /\ a \in Nat
          /\ b = n \/ (b \in Heads /\ (b <= c \/ b >= e))
          /\ a = n \/ a = c \/ (a \in Heads /\ a # n /\ (a < c \/ a >= e))
      BY <1>1, <1>2
    <3>2. a \in Heads /\ b \in Heads => NextRegion(a) <= b
      BY DEF Tiled
    <3> HIDE DEF N, H
    <3>3. CASE a = c
      BY <3>1, <3>3, <2>1, <1>1, <1>2
    <3>4. CASE a = n
      BY <3>1, <3>4, <2>1, <1>1, <1>2
    <3>5. CASE a # n /\ a \in Heads /\ a < c
      <4>1. N(a) <= c /\ N(a) = NextRegion(a) /\ N(a) \in Nat
        <5>1. a # c /\ a # n /\ a \in Nat
          BY <3>1, <3>5, <1>1
        <5>2. N(a) = NextRegion(a)
          BY <5>1, <2>1
        <5>3. NextRegion(a) <= c /\ NextRegion(a) \in Heads
          BY <3>5, <2>3
        <5> QED
          BY <5>2, <5>3, <1>1
      <4> QED
        BY <4>1, <3>1, <3>2, <3>5, <1>1, <1>2
    <3>6. CASE a # n /\ a \in Heads /\ a >= e
      <4>1. N(a) = NextRegion(a) /\ b \in Heads
        BY <3>1, <3>6, <2>1, <1>1, <1>2
      <4> QED
        BY <4>1, <3>2, <3>6
    <3> QED
      BY <3>1, <3>3, <3>4, <3>5, <3>6
  <2> QED
    BY <2>2, <2>4, <2>5, <1>3 DEF Tiled, NextRegion, Heads
<1> QED
  BY <1>3, <1>5, <1>6, <1>7, <1>8, <1>9

\* Regions whose sizes do not change go on tiling the heap.
LEMMA SameSizesTile ==
  ASSUME TypeOK, Tiled, DOMAIN hdr' = DOMAIN hdr,
         \A a \in Heads : hdr'[a].size = hdr[a].size
  PROVE  Tiled'
BY DEF Tiled, NextRegion, Heads

\* With or without a remainder, kmalloc's return leaves regions that tile the heap,
\* marks its own used and touches no region that is in use.
LEMMA GrantTiles ==
  ASSUME NEW m, HeapInv, pc \in {"scan", "merge"}, Grantable(m), Grant(m)
  PROVE  /\ DOMAIN hdr' \subseteq 0 .. HeapSize - 1
         /\ hdr' \in [DOMAIN hdr' -> [used : BOOLEAN, size : Nat]]
         /\ Tiled'
         /\ \A h \in Heads : hdr[h].used => h \in DOMAIN hdr' /\ hdr'[h] = hdr[h]
         /\ curr_mem_region \in DOMAIN hdr'
         /\ hdr'[curr_mem_region].used
<1> USE KHeapAssumption
<1> DEFINE c == curr_mem_region
<1>1. TypeOK /\ Tiled /\ size \in Requests
  BY DEF HeapInv, ScanInv
<1>2. c \in Heads /\ ~hdr[c].used
  <2>1. c \in Nat /\ m \in Nat
    BY <1>1, Zenon DEF TypeOK, Grantable
  <2>2. c < c + Hdr + m
    BY <2>1
  <2> QED
    BY <2>1, <2>2 DEF Grantable
<1>3. CASE HasRemainder(m)
  <2>1. Split(m)
    BY <1>3 DEF Grant
  <2> QED
    BY <2>1, <1>3, <1>1, SplitTiles
<1>4. CASE ~HasRemainder(m)
  <2>1. hdr' = [hdr EXCEPT ![c].used = TRUE]
    BY <1>4 DEF Grant
  <2>2. hdr \in [Heads -> [used : BOOLEAN, size : Nat]] /\ Heads \subseteq 0 .. HeapSize - 1
    BY <1>1 DEF TypeOK
  <2>3. DOMAIN hdr' = Heads /\ hdr' \in [Heads -> [used : BOOLEAN, size : Nat]]
    BY <2>1, <2>2, <1>2 DEF Heads
  <2>4. \A h \in Heads : h # c => hdr'[h] = hdr[h]
    BY <2>1, <2>2
  <2>5. hdr'[c].used /\ hdr'[c].size = hdr[c].size
    BY <2>1, <2>2, <1>2
  <2>6. Tiled'
    BY <2>3, <2>4, <2>5, <1>1, SameSizesTile DEF Heads
  <2> QED
    BY <2>2, <2>3, <2>4, <2>5, <2>6, <1>2
<1> QED
  BY <1>3, <1>4

\* kmalloc's return keeps the invariant.
LEMMA GrantKeeps ==
  ASSUME NEW m, HeapInv, pc \in {"scan", "merge"}, Grantable(m), Grant(m)
  PROVE  HeapInv'
<1> USE KHeapAssumption
<1> DEFINE c == curr_mem_region
<1>1. TypeOK /\ Tiled /\ BlocksAreUsed /\ BlocksFit /\ size \in Requests
  BY DEF HeapInv, ScanInv
<1>2. c \in Heads /\ ~hdr[c].used
  <2>1. c \in Nat /\ m \in Nat
    BY <1>1, Zenon DEF TypeOK, Grantable
  <2>2. c < c + Hdr + m
    BY <2>1
  <2> QED
    BY <2>1, <2>2 DEF Grantable
<1>3. /\ DOMAIN hdr' \subseteq 0 .. HeapSize - 1
      /\ hdr' \in [DOMAIN hdr' -> [used : BOOLEAN, size : Nat]]
      /\ Tiled'
      /\ \A h \in Heads : hdr[h].used => h \in DOMAIN hdr' /\ hdr'[h] = hdr[h]
      /\ c \in DOMAIN hdr'
      /\ hdr'[c].used
  BY GrantTiles
<1>4. /\ pc' = "idle" /\ size' = 0 /\ curr_mem_region' = 0
      /\ next_mem_region' = 0 /\ mem_reg_size' = 0
      /\ short' = (short \/ hdr'[c].size < size)
      /\ DOMAIN blocks' = DOMAIN blocks \cup {c}
      /\ blocks' = [a \in DOMAIN blocks' |-> IF a = c THEN size ELSE blocks[a]]
  BY DEF Grant
<1>5. \A b \in DOMAIN blocks : b # c /\ b \in DOMAIN hdr' /\ hdr'[b] = hdr[b] /\ hdr'[b].used
  BY <1>1, <1>2, <1>3 DEF BlocksAreUsed, TypeOK
<1>6. TypeOK'
  <2>1. short' \in BOOLEAN
    BY <1>4
  <2>2. blocks' \in [DOMAIN blocks' -> Requests]
    BY <1>1, <1>4 DEF TypeOK
  <2>3. DOMAIN blocks' \subseteq DOMAIN hdr'
    BY <1>3, <1>4, <1>5
  <2> QED
    BY <2>1, <2>2, <2>3, <1>3, <1>4 DEF TypeOK, Heads
<1>7. BlocksAreUsed'
  BY <1>3, <1>4, <1>5 DEF BlocksAreUsed
<1>8. BlocksFit'
  <2> SUFFICES ASSUME ~short', NEW b \in DOMAIN blocks' PROVE blocks'[b] <= hdr'[b].size
    BY DEF BlocksFit
  <2>1. CASE b = c
    <3>1. blocks'[b] = size /\ ~(hdr'[c].size < size)
      BY <2>1, <1>4
    <3>2. hdr'[c].size \in Nat /\ size \in Nat
      BY <1>1, <1>3 DEF TypeOK
    <3> QED
      BY <2>1, <3>1, <3>2
  <2>2. CASE b # c
    BY <2>2, <1>1, <1>4, <1>5 DEF BlocksFit
  <2> QED
    BY <2>1, <2>2
<1> QED
  BY <1>3, <1>4, <1>6, <1>7, <1>8 DEF HeapInv, ScanInv, MergeInv, NoneFits

\* kfree keeps the invariant.
LEMMA FreeKeeps ==
  ASSUME HeapInv, NEW b \in DOMAIN blocks, kfree(b)
  PROVE  HeapInv'
<1> USE KHeapAssumption
<1>1. TypeOK /\ Tiled /\ BlocksAreUsed /\ BlocksFit
  BY DEF HeapInv
<1>2. hdr \in [Heads -> [used : BOOLEAN, size : Nat]] /\ b \in Heads
  BY <1>1 DEF TypeOK
<1>3. DOMAIN hdr' = Heads /\ hdr' \in [Heads -> [used : BOOLEAN, size : Nat]]
  BY <1>2 DEF kfree, Heads
<1>4. (\A h \in Heads : h # b => hdr'[h] = hdr[h]) /\ hdr'[b].size = hdr[b].size
  BY <1>2 DEF kfree
<1>5. Tiled'
  BY <1>1, <1>3, <1>4, SameSizesTile DEF Heads
<1>6. DOMAIN blocks' = DOMAIN blocks \ {b} /\ \A a \in DOMAIN blocks' : blocks'[a] = blocks[a]
  BY DEF kfree
<1>7. blocks' \in [DOMAIN blocks' -> Requests]
  BY <1>1, <1>6 DEF TypeOK, kfree
<1>8. TypeOK'
  BY <1>1, <1>3, <1>6, <1>7 DEF TypeOK, Heads, kfree, walk
<1>9. BlocksAreUsed' /\ BlocksFit'
  BY <1>1, <1>4, <1>6 DEF BlocksAreUsed, BlocksFit, kfree, TypeOK
<1> QED
  BY <1>5, <1>8, <1>9 DEF HeapInv, ScanInv, MergeInv, NoneFits, kfree

-----------------------------------------------------------------------------
(* The steps that leave the headers alone *)

\* What the walk's facts say does not depend on anything but hdr.
LEMMA SameHeaders ==
  ASSUME HeapInv, hdr' = hdr, blocks' = blocks, short' = short
  PROVE  /\ Tiled' /\ BlocksAreUsed' /\ BlocksFit' /\ Heads' = Heads
         /\ \A a : NextRegion(a)' = NextRegion(a)
         /\ \A a, b : FreeRun(a, b)' <=> FreeRun(a, b)
BY DEF HeapInv, Tiled, BlocksAreUsed, BlocksFit, Heads, NextRegion, FreeRun

\* Order and neighbours of the headers.
LEMMA HeadFacts ==
  ASSUME TypeOK, Tiled
  PROVE  /\ \A h \in Heads : h \in Nat /\ h < HeapSize /\ hdr[h].size \in Nat
         /\ \A h \in Heads : /\ NextRegion(h) \in Heads \cup {HeapSize}
                             /\ NextRegion(h) \in Nat /\ NextRegion(h) > h
         /\ \A h, k \in Heads : k < NextRegion(h) => k <= h
<1> USE KHeapAssumption
<1>1. \A h \in Heads : h \in Nat /\ h < HeapSize /\ hdr[h].size \in Nat
  BY DEF TypeOK
<1>2. \A h \in Heads : /\ NextRegion(h) \in Heads \cup {HeapSize}
                       /\ NextRegion(h) \in Nat /\ NextRegion(h) > h
  BY <1>1 DEF Tiled, NextRegion
<1>3. \A h, k \in Heads : k < NextRegion(h) => k <= h
  <2> SUFFICES ASSUME NEW h \in Heads, NEW k \in Heads, k < NextRegion(h), ~(k <= h) PROVE FALSE
    OBVIOUS
  <2>1. NextRegion(h) <= k
    BY <1>1 DEF Tiled
  <2> QED
    BY <2>1, <1>1, <1>2
<1> QED
  BY <1>1, <1>2, <1>3

\* A scan that has come to curr_mem_region, and nothing longer before it.
LEMMA ScanUsedKeeps == HeapInv /\ ScanUsed => HeapInv'
<1> SUFFICES ASSUME HeapInv, ScanUsed PROVE HeapInv'
  OBVIOUS
<1> USE KHeapAssumption
<1> DEFINE c == curr_mem_region
<1>1. TypeOK /\ Tiled /\ ScanInv /\ pc = "scan"
  BY DEF HeapInv, ScanUsed
<1>2. hdr' = hdr /\ blocks' = blocks /\ short' = short /\ pc' = "scan" /\ size' = size
  BY <1>1 DEF ScanUsed
<1>3. c \in Heads /\ hdr[c].used /\ c < HeapSize
  BY <1>1 DEF ScanUsed, ScanInv
<1>4. curr_mem_region' = NextRegion(c) /\ NextRegion(c) \in Heads \cup {HeapSize}
  BY <1>1, <1>3, HeadFacts DEF ScanUsed
<1>5. \A a \in Heads, b \in Heads \cup {HeapSize} :
        FreeRun(a, b) /\ a < NextRegion(c) => b - a - Hdr < size
  <2> SUFFICES ASSUME NEW a \in Heads, NEW b \in Heads \cup {HeapSize},
                      FreeRun(a, b), a < NextRegion(c)
               PROVE  b - a - Hdr < size
    OBVIOUS
  <2>1. a <= c /\ a \in Nat /\ c \in Nat /\ b \in Nat
    BY <1>1, <1>3, HeadFacts
  <2>2. a # c
    BY <1>3, <2>1 DEF FreeRun
  <2> QED
    BY <1>1, <2>1, <2>2 DEF ScanInv
<1>6. TypeOK'
  BY <1>1, <1>2, <1>3, <1>4, HeadFacts DEF TypeOK, ScanUsed, Heads
<1>7. ScanInv'
  BY <1>1, <1>2, <1>3, <1>4, <1>5, SameHeaders DEF ScanInv
<1> QED
  BY <1>2, <1>6, <1>7, SameHeaders DEF HeapInv, MergeInv, NoneFits

\* Case 3 starts a run of one region.
LEMMA ScanSmallKeeps == HeapInv /\ ScanSmall => HeapInv'
<1> SUFFICES ASSUME HeapInv, ScanSmall PROVE HeapInv'
  OBVIOUS
<1> USE KHeapAssumption
<1> DEFINE c == curr_mem_region
<1>1. TypeOK /\ Tiled /\ ScanInv /\ pc = "scan"
  BY DEF HeapInv, ScanSmall
<1>2. /\ hdr' = hdr /\ blocks' = blocks /\ short' = short /\ pc' = "merge" /\ size' = size
      /\ curr_mem_region' = c /\ mem_reg_size' = hdr[c].size /\ next_mem_region' = NextRegion(c)
  BY DEF ScanSmall
<1>3. c \in Heads /\ ~hdr[c].used /\ hdr[c].size < size
  <2>1. c \in Heads /\ ~hdr[c].used /\ ~(hdr[c].size >= size)
    BY <1>1 DEF ScanSmall, ScanInv, BigEnough
  <2>2. hdr[c].size \in Nat /\ size \in Nat
    BY <2>1, <1>1, HeadFacts DEF TypeOK
  <2> QED
    BY <2>1, <2>2
<1>4. TypeOK'
  BY <1>1, <1>2, <1>3, HeadFacts DEF TypeOK, Heads
<1>5. ScanInv'
  BY <1>1, <1>2, SameHeaders DEF ScanInv
<1>6. MergeInv'
  <2>1. \A h \in Heads : c <= h /\ h < NextRegion(c) => ~hdr[h].used
    <3> SUFFICES ASSUME NEW h \in Heads, c <= h, h < NextRegion(c) PROVE h = c
      BY <1>3
    <3> QED
      BY <1>1, <1>3, HeadFacts
  <2>2. NextRegion(c) = c + Hdr + hdr[c].size /\ NextRegion(c) \in Heads \cup {HeapSize}
    BY <1>1, <1>3, HeadFacts DEF NextRegion
  <2> QED
    BY <1>2, <1>3, <2>1, <2>2, SameHeaders DEF MergeInv
<1> QED
  BY <1>2, <1>4, <1>5, <1>6, SameHeaders DEF HeapInv, NoneFits

\* The run that a used region or the end of the heap cuts off is too short from
\* whichever of its regions one starts.
LEMMA CutRunIsShort ==
  ASSUME HeapInv, pc = "merge", NEW a \in Heads, NEW b \in Heads \cup {HeapSize}, FreeRun(a, b),
         a < next_mem_region, b <= next_mem_region
  PROVE  b - a - Hdr < size
<1> USE KHeapAssumption
<1>1. TypeOK /\ Tiled /\ ScanInv /\ MergeInv
  BY DEF HeapInv
<1>2. /\ a \in Nat /\ b \in Nat /\ curr_mem_region \in Nat /\ mem_reg_size \in Nat /\ size \in Nat
      /\ next_mem_region = curr_mem_region + Hdr + mem_reg_size /\ mem_reg_size < size
  BY <1>1, HeadFacts DEF TypeOK, MergeInv
<1>3. CASE a < curr_mem_region
  BY <1>1, <1>3 DEF ScanInv
<1>4. CASE a >= curr_mem_region
  BY <1>2, <1>4
<1> QED
  BY <1>2, <1>3, <1>4

\* A used region ends the run.
LEMMA MergeUsedKeeps == HeapInv /\ MergeUsed => HeapInv'
<1> SUFFICES ASSUME HeapInv, MergeUsed PROVE HeapInv'
  OBVIOUS
<1> USE KHeapAssumption
<1> DEFINE n == next_mem_region
<1>1. TypeOK /\ Tiled /\ ScanInv /\ MergeInv /\ pc = "merge"
  BY DEF HeapInv, MergeUsed
<1>2. /\ hdr' = hdr /\ blocks' = blocks /\ short' = short /\ pc' = "scan" /\ size' = size
      /\ curr_mem_region' = NextRegion(n) /\ next_mem_region' = 0 /\ mem_reg_size' = 0
  BY DEF MergeUsed
<1>3. n \in Heads /\ hdr[n].used
  BY <1>1 DEF MergeUsed, MergeInv
<1>4. \A a \in Heads, b \in Heads \cup {HeapSize} :
        FreeRun(a, b) /\ a < NextRegion(n) => b - a - Hdr < size
  <2> SUFFICES ASSUME NEW a \in Heads, NEW b \in Heads \cup {HeapSize},
                      FreeRun(a, b), a < NextRegion(n)
               PROVE  b - a - Hdr < size
    OBVIOUS
  <2>1. a <= n /\ a \in Nat /\ n \in Nat /\ b \in Nat /\ a < b
    BY <1>1, <1>3, HeadFacts DEF FreeRun
  <2>2. ~(n < b)
    BY <1>3, <2>1 DEF FreeRun
  <2> QED
    BY <1>1, <2>1, <2>2, CutRunIsShort
<1>5. TypeOK'
  BY <1>1, <1>2, <1>3, HeadFacts DEF TypeOK, Heads
<1>6. NextRegion(n) \in Heads \cup {HeapSize}
  BY <1>1, <1>3, HeadFacts
<1>7. ScanInv'
  BY <1>1, <1>2, <1>3, <1>4, <1>6, SameHeaders DEF ScanInv
<1> QED
  BY <1>2, <1>5, <1>7, SameHeaders DEF HeapInv, MergeInv, NoneFits

\* The run with one more free region.
LEMMA LongerRun ==
  ASSUME HeapInv, pc = "merge", next_mem_region < HeapSize, ~hdr[next_mem_region].used,
         NEW m, m = mem_reg_size + hdr[next_mem_region].size + Hdr
  PROVE  /\ next_mem_region \in Heads /\ curr_mem_region \in Heads /\ m \in Nat
         /\ NextRegion(next_mem_region) = curr_mem_region + Hdr + m
         /\ NextRegion(next_mem_region) \in Heads \cup {HeapSize}
         /\ \A h \in Heads : curr_mem_region <= h /\ h < NextRegion(next_mem_region)
                               => ~hdr[h].used
         /\ m >= size => Grantable(m)
<1> USE KHeapAssumption
<1> DEFINE c == curr_mem_region
           n == next_mem_region
<1>1. TypeOK /\ Tiled /\ MergeInv
  BY DEF HeapInv
<1>2. c \in Heads /\ n \in Heads /\ n = c + Hdr + mem_reg_size
  BY <1>1 DEF MergeInv
<1>3. m \in Nat /\ NextRegion(n) = c + Hdr + m /\ NextRegion(n) \in Heads \cup {HeapSize}
  <2>1. hdr[n].size \in Nat /\ mem_reg_size \in Nat /\ c \in Nat
    BY <1>1, <1>2, HeadFacts DEF TypeOK
  <2>2. m \in Nat /\ NextRegion(n) = c + Hdr + m
    BY <2>1, <1>2 DEF NextRegion
  <2> QED
    BY <2>2, <1>1, <1>2, HeadFacts
<1>4. \A h \in Heads : c <= h /\ h < NextRegion(n) => ~hdr[h].used
  <2> SUFFICES ASSUME NEW h \in Heads, c <= h, h < NextRegion(n) PROVE ~hdr[h].used
    OBVIOUS
  <2>1. h <= n /\ h \in Nat /\ n \in Nat
    BY <1>1, <1>2, HeadFacts
  <2> QED
    BY <2>1, <1>1, <1>2 DEF MergeInv
<1> QED
  BY <1>2, <1>3, <1>4 DEF Grantable

\* A free region joins a run that stays too short.
LEMMA MergeFreeKeeps ==
  ASSUME HeapInv, MergeFree,
         NEW m, m = mem_reg_size + hdr[next_mem_region].size + Hdr, ~(m >= size)
  PROVE  HeapInv'
<1> USE KHeapAssumption
<1> DEFINE c == curr_mem_region
           n == next_mem_region
<1>1. TypeOK /\ Tiled /\ ScanInv /\ MergeInv /\ pc = "merge"
  BY DEF HeapInv, MergeFree
<1>2. /\ n \in Heads /\ c \in Heads /\ m \in Nat
      /\ NextRegion(n) = c + Hdr + m /\ NextRegion(n) \in Heads \cup {HeapSize}
      /\ \A h \in Heads : c <= h /\ h < NextRegion(n) => ~hdr[h].used
  BY LongerRun DEF MergeFree
<1>3. /\ hdr' = hdr /\ blocks' = blocks /\ short' = short /\ pc' = pc /\ size' = size
      /\ curr_mem_region' = c /\ mem_reg_size' = m /\ next_mem_region' = NextRegion(n)
  BY DEF MergeFree
<1>4. TypeOK'
  BY <1>1, <1>2, <1>3, HeadFacts DEF TypeOK, Heads
<1>5. ScanInv'
  BY <1>1, <1>3, SameHeaders DEF ScanInv
<1>6. m < size
  BY <1>1, <1>2 DEF TypeOK
<1>7. MergeInv'
  BY <1>2, <1>3, <1>6, SameHeaders DEF MergeInv
<1> QED
  BY <1>1, <1>3, <1>4, <1>5, <1>7, SameHeaders DEF HeapInv, NoneFits

\* A good sized block is grantable.
LEMMA FitsIsGrantable ==
  ASSUME HeapInv, ScanFits
  PROVE  Grantable(hdr[curr_mem_region].size)
<1> USE KHeapAssumption
<1> DEFINE c == curr_mem_region
<1>1. TypeOK /\ Tiled /\ ScanInv /\ pc = "scan"
  BY DEF HeapInv, ScanFits
<1>2. c \in Heads /\ ~hdr[c].used /\ hdr[c].size >= size
  BY <1>1 DEF ScanFits, ScanInv, BigEnough
<1>3. NextRegion(c) = c + Hdr + hdr[c].size /\ hdr[c].size \in Nat
  BY <1>1, <1>2, HeadFacts DEF NextRegion
<1>4. \A h \in Heads : c <= h /\ h < NextRegion(c) => h = c
  BY <1>1, <1>2, HeadFacts
<1> QED
  BY <1>1, <1>2, <1>3, <1>4, HeadFacts DEF Grantable

\* At the end of the heap no run is long enough.
LEMMA EndKeeps == HeapInv /\ (ScanEnd \/ MergeEnd) => HeapInv'
<1> SUFFICES ASSUME HeapInv, ScanEnd \/ MergeEnd PROVE HeapInv'
  OBVIOUS
<1> USE KHeapAssumption
<1>1. TypeOK /\ Tiled /\ ScanInv /\ MergeInv
  BY DEF HeapInv
<1>2. /\ hdr' = hdr /\ blocks' = blocks /\ short' = short /\ pc' = "panic" /\ size' = size
      /\ mem_reg_size' = mem_reg_size
      /\ curr_mem_region' = curr_mem_region /\ next_mem_region' = next_mem_region
  BY DEF ScanEnd, MergeEnd, Panic, walk
<1>3. \A a \in Heads, b \in Heads \cup {HeapSize} : FreeRun(a, b) => b - a - Hdr < size
  <2> SUFFICES ASSUME NEW a \in Heads, NEW b \in Heads \cup {HeapSize}, FreeRun(a, b)
               PROVE  b - a - Hdr < size
    OBVIOUS
  <2>1. a \in Nat /\ a < HeapSize /\ b \in Nat /\ b <= HeapSize
    BY <1>1, HeadFacts
  <2>2. CASE ScanEnd
    <3>1. a < curr_mem_region
      BY <1>1, <2>1, <2>2 DEF ScanEnd, TypeOK
    <3> QED
      BY <1>1, <2>2, <3>1 DEF ScanEnd, ScanInv
  <2>3. CASE MergeEnd
    <3>1. a < next_mem_region /\ b <= next_mem_region /\ pc = "merge"
      BY <1>1, <2>1, <2>3 DEF MergeEnd, TypeOK
    <3> QED
      BY <3>1, CutRunIsShort
  <2> QED
    BY <2>2, <2>3
<1>4. TypeOK'
  BY <1>1, <1>2 DEF TypeOK, Heads
<1>5. NoneFits'
  BY <1>2, <1>3, SameHeaders DEF NoneFits
<1> QED
  BY <1>2, <1>4, <1>5, SameHeaders DEF HeapInv, ScanInv, MergeInv

\* A call starts at heap_start, with nothing before it.
LEMMA CallKeeps ==
  ASSUME HeapInv, NEW n \in Requests, kmalloc(n)
  PROVE  HeapInv'
<1> USE KHeapAssumption
<1>1. TypeOK /\ Tiled
  BY DEF HeapInv
<1>2. /\ hdr' = hdr /\ blocks' = blocks /\ short' = short /\ pc' = "scan" /\ size' = n
      /\ curr_mem_region' = 0 /\ next_mem_region' = next_mem_region
      /\ mem_reg_size' = mem_reg_size
  BY DEF kmalloc
<1>3. TypeOK'
  BY <1>1, <1>2 DEF TypeOK, Heads
<1>4. 0 \in Heads /\ \A a \in Heads : ~(a < 0)
  BY <1>1, HeadFacts DEF Tiled
<1>5. ScanInv'
  BY <1>2, <1>4, SameHeaders DEF ScanInv
<1> QED
  BY <1>2, <1>3, <1>5, SameHeaders DEF HeapInv, MergeInv, NoneFits

\* A step of kmalloc returns a grantable run or leaves the headers alone.
LEMMA KmallocStep ==
  ASSUME HeapInv, kmallocStep
  PROVE  \/ \E m : pc \in {"scan", "merge"} /\ Grantable(m) /\ Grant(m)
         \/ HeapInv' /\ hdr' = hdr
<1>1. CASE ScanEnd \/ MergeEnd
  BY <1>1, EndKeeps DEF ScanEnd, MergeEnd, Panic
<1>2. CASE ScanUsed
  BY <1>2, ScanUsedKeeps DEF ScanUsed
<1>3. CASE ScanFits
  BY <1>3, FitsIsGrantable DEF ScanFits
<1>4. CASE ScanSmall
  BY <1>4, ScanSmallKeeps DEF ScanSmall
<1>5. CASE MergeUsed
  BY <1>5, MergeUsedKeeps DEF MergeUsed
<1>6. CASE MergeFree
  <2> DEFINE m == mem_reg_size + hdr[next_mem_region].size + Hdr
  <2>1. pc = "merge" /\ next_mem_region < HeapSize /\ ~hdr[next_mem_region].used
    BY <1>6 DEF MergeFree
  <2>2. m >= size => Grant(m)
    BY <1>6 DEF MergeFree
  <2>3. ~(m >= size) => hdr' = hdr
    BY <1>6 DEF MergeFree
  <2> HIDE DEF m
  <2>4. CASE m >= size
    BY <2>1, <2>2, <2>4, LongerRun DEF m
  <2>5. CASE ~(m >= size)
    BY <1>6, <2>3, <2>5, MergeFreeKeeps DEF m
  <2> QED
    BY <2>4, <2>5
<1> QED
  BY <1>1, <1>2, <1>3, <1>4, <1>5, <1>6 DEF kmallocStep

\* HeapInv is inductive.
LEMMA HeapStep == HeapInv /\ [Next]_vars => HeapInv'
<1> SUFFICES ASSUME HeapInv, [Next]_vars PROVE HeapInv'
  OBVIOUS
<1>1. CASE \E n \in Requests : kmalloc(n)
  BY <1>1, CallKeeps
<1>2. CASE kmallocStep
  BY <1>2, KmallocStep, GrantKeeps
<1>3. CASE \E b \in DOMAIN blocks : kfree(b)
  BY <1>3, FreeKeeps
<1>4. CASE UNCHANGED vars
  BY <1>4 DEF vars, walk, HeapInv, TypeOK, Tiled, BlocksAreUsed, BlocksFit, ScanInv,
              MergeInv, NoneFits, Heads, NextRegion, FreeRun
<1> QED
  BY <1>1, <1>2, <1>3, <1>4 DEF Next, Halted

\* In every state the kernel reaches.
LEMMA HeapInvariant == Spec => []HeapInv
BY InitHeap, HeapStep, PTL DEF Spec

-----------------------------------------------------------------------------

\* Headers stay inside the heap and every local of kmalloc in its range, at every
\* iteration of the scan and of the merge.
THEOREM AddressesStayInHeap == Spec => []TypeOK
<1>1. HeapInv => TypeOK
  BY DEF HeapInv
<1> QED
  BY <1>1, HeapInvariant, PTL

\* After any sequence of kmalloc and kfree, following the sizes from heap_start
\* meets every header and ends at heap_end, as long as no block was granted in a
\* region that is too small.
THEOREM RegionsAlwaysTile == Spec => []RegionsTile
<1>1. HeapInv => RegionsTile
  BY DEF HeapInv, RegionsTile
<1> QED
  BY <1>1, HeapInvariant, PTL

\* Blocks that kmalloc has granted share no byte, as long as none was granted in
\* a region that is too small.
THEOREM BlocksStayApart == Spec => []BlocksAreApart
<1>1. HeapInv => BlocksAreApart
  <2> SUFFICES ASSUME HeapInv, ~short, NEW a \in DOMAIN blocks, NEW b \in DOMAIN blocks, a # b
               PROVE  Apart(a, blocks[a], b, blocks[b])
    BY DEF BlocksAreApart
  <2> USE KHeapAssumption
  <2>1. TypeOK /\ Tiled /\ BlocksFit
    BY DEF HeapInv
  <2>2. a \in Heads /\ b \in Heads /\ blocks[a] \in Nat /\ blocks[b] \in Nat
    BY <2>1 DEF TypeOK
  <2>3. blocks[a] <= hdr[a].size /\ blocks[b] <= hdr[b].size
    BY <2>1 DEF BlocksFit
  <2>4. /\ a \in Nat /\ b \in Nat /\ hdr[a].size \in Nat /\ hdr[b].size \in Nat
        /\ a < b => a + hdr[a].size + Hdr <= b
        /\ b < a => b + hdr[b].size + Hdr <= a
    BY <2>1, <2>2, HeadFacts DEF Tiled, NextRegion
  <2> QED
    BY <2>2, <2>3, <2>4 DEF Apart
<1> QED
  BY <1>1, HeapInvariant, PTL

\* First fit with merging misses no run of adjacent free regions: kmalloc panics
\* only when none is long enough, under the same condition.
THEOREM PanicsOnlyWhenFull == Spec => []PanicOnlyWhenFull
<1>1. HeapInv => PanicOnlyWhenFull
  BY DEF HeapInv, PanicOnlyWhenFull
<1> QED
  BY <1>1, HeapInvariant, PTL

\* The header of a block in use changes only when that block is given back.
THEOREM HeadersStayStable == Spec => HeadersInUseAreStable
<1> DEFINE Stable == \A b \in DOMAIN blocks :
                       b \in DOMAIN blocks' => b \in DOMAIN hdr' /\ hdr'[b] = hdr[b]
<1>1. HeapInv /\ [Next]_vars => [Stable]_vars
  <2> SUFFICES ASSUME HeapInv, Next, NEW b \in DOMAIN blocks, b \in DOMAIN blocks'
               PROVE  b \in DOMAIN hdr' /\ hdr'[b] = hdr[b]
    OBVIOUS
  <2>1. b \in Heads /\ hdr[b].used /\ hdr \in [Heads -> [used : BOOLEAN, size : Nat]]
    BY DEF HeapInv, BlocksAreUsed, TypeOK
  <2>2. CASE kmallocStep
    BY <2>1, <2>2, KmallocStep, GrantTiles DEF Heads
  <2>3. CASE \E a \in DOMAIN blocks : kfree(a)
    BY <2>1, <2>3 DEF kfree, Heads
  <2>4. CASE (\E n \in Requests : kmalloc(n)) \/ Halted
    BY <2>1, <2>4 DEF kmalloc, Halted, vars, Heads
  <2> QED
    BY <2>2, <2>3, <2>4 DEF Next
<1> QED
  BY <1>1, HeapInvariant, PTL DEF Spec, HeadersInUseAreStable

\* Where kmalloc's loops are.
Position == IF pc = "merge" THEN next_mem_region ELSE curr_mem_region

\* An iteration of kmalloc ends the call, or goes on by at least a header.
GoesForward ==
  pc \in {"scan", "merge"} =>
    \/ pc' \in {"idle", "panic"}
    \/ pc' \in {"scan", "merge"} /\ Position + Hdr <= Position' /\ Position' <= HeapSize

\* The safety half of KmallocEnds: no iteration of the scan and the merge stays where
\* it is or goes back, or leaves the heap, so that a call has at most as many as there
\* are headers' lengths in the heap.
THEOREM KmallocGoesForward == Spec => [][GoesForward]_vars
<1>1. HeapInv /\ [Next]_vars => [GoesForward]_vars
  <2> SUFFICES ASSUME HeapInv, Next, pc \in {"scan", "merge"}, pc' \notin {"idle", "panic"}
               PROVE  /\ pc' \in {"scan", "merge"} /\ Position + Hdr <= Position'
                      /\ Position' <= HeapSize
    BY DEF GoesForward
  <2> USE KHeapAssumption
  <2>1. TypeOK /\ Tiled
    BY DEF HeapInv
  <2>2. ASSUME NEW a \in Heads
        PROVE  a + Hdr <= NextRegion(a) /\ NextRegion(a) <= HeapSize
    <3>1. a \in Nat /\ hdr[a].size \in Nat /\ Heads \subseteq 0 .. HeapSize - 1
      BY <2>1, HeadFacts DEF TypeOK
    <3>2. NextRegion(a) \in Heads \cup {HeapSize}
      BY <2>1 DEF Tiled
    <3> QED
      BY <3>1, <3>2 DEF NextRegion
  <2>3. curr_mem_region \in Heads \cup {HeapSize} /\ HeapSize \in Nat
    BY DEF HeapInv, ScanInv
  <2>4. pc = "merge" => next_mem_region \in Heads \cup {HeapSize}
    BY DEF HeapInv, MergeInv
  <2>5. ScanUsed \/ ScanSmall \/ MergeUsed \/ MergeFree
    BY DEF Next, kmalloc, kmallocStep, kfree, Halted, ScanEnd, MergeEnd, Panic, ScanFits, Grant
  <2>6. CASE ScanUsed
    BY <2>2, <2>3, <2>6 DEF ScanUsed, Position
  <2>7. CASE ScanSmall
    BY <2>2, <2>3, <2>7 DEF ScanSmall, Position
  <2>8. CASE MergeUsed
    BY <2>2, <2>3, <2>4, <2>8 DEF MergeUsed, Position
  <2>9. CASE MergeFree
    <3>1. /\ pc = "merge" /\ pc' = pc /\ next_mem_region < HeapSize
          /\ next_mem_region' = NextRegion(next_mem_region)
      BY <2>9 DEF MergeFree, Grant
    <3> QED
      BY <2>2, <2>3, <2>4, <3>1 DEF Position
  <2> QED
    BY <2>5, <2>6, <2>7, <2>8, <2>9
<1> QED
  BY <1>1, HeapInvariant, PTL DEF Spec

=============================================================================
