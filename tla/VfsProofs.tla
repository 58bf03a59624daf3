------------------------------ MODULE VfsProofs ------------------------------
(***************************************************************************)
(* Proofs about Vfs, for any archive, any number of processes, of slots    *)
(* and of handles, and reads of any length.                                *)
(***************************************************************************)
EXTENDS Vfs, WellFoundedInduction, TLAPS

\* A set of numbers that is not empty has a least one, which Min returns.
LEMMA MinExists ==
  ASSUME NEW S, S \subseteq Nat, S # {}
  PROVE  Min(S) \in S /\ \A y \in S : Min(S) <= y
<1>. DEFINE R == OpToRel(<, Nat)
<1>1. \E x \in S : \A y \in S : ~(<<y, x>> \in R)
  <2>1. IsWellFoundedOn(R, Nat)
    BY NatLessThanWellFounded
  <2>. HIDE DEF R
  <2>. QED
    BY <2>1, WFMin
<1>2. PICK x \in S : \A y \in S : ~(<<y, x>> \in R)
  BY <1>1
<1>3. \A y \in S : x <= y
  <2>. SUFFICES ASSUME NEW y \in S PROVE x <= y
    OBVIOUS
  <2>1. ~(y < x)
    BY <1>2 DEF OpToRel
  <2>. QED
    BY <2>1
<1>. QED
  BY <1>3 DEF Min

-----------------------------------------------------------------------------
(* The inductive invariant *)

\* The file behind a handle and the slot of the table of opened files.
Used(p, h) == resource_table[p][h]

Types ==
  /\ vfs_opened_files = [i \in Slots |-> [name |-> vfs_opened_files[i].name,
                                          file |-> vfs_opened_files[i].file,
                                          pos  |-> vfs_opened_files[i].pos]]
  /\ live \subseteq Procs
  /\ resource_table \in [Procs -> [Handles -> Slots \cup {Empty, NoFile}]]
  /\ got \in [Procs -> [Handles -> Nat]]

\* A process that is not alive has no handles, so a new one starts with none.
DeadHoldNothing == \A p \in Procs \ live : \A h \in Handles : Used(p, h) = Empty

\* Until "/" is opened: a slot without a name is as vfs_init left it, and unless the
\* last open has panicked no handle leads to it; no slot is behind two handles; and
\* the position of a slot is what was read through its handle.
SlotsInv ==
  ~wild =>
    /\ \A i \in Slots : Unused(i) => vfs_opened_files[i].pos = 0
    /\ ~fault => \A p \in Procs, h \in Handles : Used(p, h) \in Slots => ~Unused(Used(p, h))
    /\ \A p, q \in Procs, h, k \in Handles :
         Used(p, h) \in Slots /\ Used(p, h) = Used(q, k) => p = q /\ h = k
    /\ \A p \in Procs, h \in Handles :
         Used(p, h) \in Slots => vfs_opened_files[Used(p, h)].pos = got[p][h]

VfsInv == Types /\ DeadHoldNothing /\ SlotsInv /\ OpenFailsOnlyWhenFull

\* Failures are no slots.
LEMMA NoSlots ==
  /\ Empty \notin Slots /\ NoFile \notin Slots /\ Empty # NoFile
  /\ Slots \subseteq Nat /\ Handles \subseteq Nat
  BY VfsAssumption DEF Empty, NoFile, Slots, Handles

\* The loop of vfs_open finds an unused slot, if there is one.
LEMMA FirstUnusedIsUnused ==
  /\ FirstUnused = NoFile => \A i \in Slots : ~Unused(i)
  /\ FirstUnused # NoFile => FirstUnused \in Slots /\ Unused(FirstUnused)
<1>. DEFINE free == {i \in Slots : Unused(i)}
<1>1. FirstUnused = IF free = {} THEN NoFile ELSE Min(free)
  BY DEF FirstUnused
<1>2. free # {} => Min(free) \in free
  BY NoSlots, MinExists
<1>. QED
  BY <1>1, <1>2, NoSlots

\* The tables start empty.
LEMMA InitVfsInv == Init => VfsInv
<1>. SUFFICES ASSUME Init PROVE VfsInv
  OBVIOUS
<1>1. Types
  BY DEF Init, Types, Closed
<1>2. DeadHoldNothing
  BY DEF Init, DeadHoldNothing, Used
<1>3. SlotsInv
  BY NoSlots DEF Init, SlotsInv, Used, Closed
<1>4. OpenFailsOnlyWhenFull
  BY DEF Init, OpenFailsOnlyWhenFull
<1>. QED
  BY <1>1, <1>2, <1>3, <1>4 DEF VfsInv

\* What vfs_open does to the table: nothing, or an unused slot is taken.
LEMMA OpenTakesUnused ==
  ASSUME VfsInv, NEW name, NEW f, NEW pos \in Nat, vfs_open(name, f, pos)
  PROVE  /\ wild' <=> wild \/ name = <<>>
         /\ \/ vfs_opened_files' = vfs_opened_files /\ (fault' \/ FirstUnused = NoFile)
            \/ /\ FirstUnused \in Slots /\ Unused(FirstUnused)
               /\ vfs_opened_files'[FirstUnused].name = name
               /\ vfs_opened_files'[FirstUnused].pos = pos
               /\ \A i \in Slots \ {FirstUnused} : vfs_opened_files'[i] = vfs_opened_files[i]
         /\ vfs_opened_files' = [i \in Slots |-> [name |-> vfs_opened_files'[i].name,
                                                  file |-> vfs_opened_files'[i].file,
                                                  pos  |-> vfs_opened_files'[i].pos]]
<1>. DEFINE r == [name |-> name, file |-> IF f = NoFile THEN Elsewhere ELSE f, pos |-> pos]
<1>1. wild' <=> wild \/ name = <<>>
  BY DEF vfs_open
<1>2. CASE fault' \/ FirstUnused = NoFile
  <2>1. vfs_opened_files' = vfs_opened_files
    BY <1>2 DEF vfs_open
  <2>. QED
    BY <1>1, <1>2, <2>1 DEF VfsInv, Types
<1>3. CASE ~(fault' \/ FirstUnused = NoFile)
  <2>1. vfs_opened_files' = [vfs_opened_files EXCEPT ![FirstUnused] = r]
    BY <1>3 DEF vfs_open
  <2>2. FirstUnused \in Slots /\ Unused(FirstUnused)
    BY <1>3, FirstUnusedIsUnused
  <2>3. r = [name |-> r.name, file |-> r.file, pos |-> r.pos] /\ r.name = name /\ r.pos = pos
    OBVIOUS
  <2>. HIDE DEF r
  <2>4. DOMAIN vfs_opened_files = Slots
    BY DEF VfsInv, Types
  <2>5. /\ vfs_opened_files'[FirstUnused] = r
        /\ \A i \in Slots \ {FirstUnused} : vfs_opened_files'[i] = vfs_opened_files[i]
    BY <2>1, <2>2, <2>4
  <2>6. \A i \in Slots : vfs_opened_files'[i] = [name |-> vfs_opened_files'[i].name,
                                                 file |-> vfs_opened_files'[i].file,
                                                 pos  |-> vfs_opened_files'[i].pos]
    BY <2>3, <2>5 DEF VfsInv, Types
  <2>7. vfs_opened_files' = [i \in Slots |-> vfs_opened_files'[i]]
    BY <2>1, <2>4
  <2>8. vfs_opened_files' = [i \in Slots |-> [name |-> vfs_opened_files'[i].name,
                                              file |-> vfs_opened_files'[i].file,
                                              pos  |-> vfs_opened_files'[i].pos]]
    BY <2>6, <2>7
  <2>. QED
    BY <1>1, <2>2, <2>3, <2>5, <2>8
<1>. QED
  BY <1>2, <1>3

-----------------------------------------------------------------------------
(* Steps *)

\* exec_elf takes a slot without a handle.
LEMMA ExecKeeps ==
  ASSUME VfsInv, NEW p \in Procs, NEW name, exec_elf(p, name)
  PROVE  VfsInv'
<1>0. /\ ~fault /\ live' = live \cup {p} /\ UNCHANGED <<resource_table, got>>
      /\ HeadersEnd \in Nat
  BY VfsAssumption DEF exec_elf
<1>1. DeadHoldNothing'
  BY <1>0 DEF VfsInv, DeadHoldNothing, Used
<1>2. \A q \in Procs, h \in Handles : q \in live' /\ Used(q, h) # Empty => q \in live
  BY <1>0 DEF VfsInv, DeadHoldNothing
<1>3. CASE UNCHANGED <<vfs_opened_files, wild>>
  <2>1. Types'
    BY <1>0, <1>3 DEF VfsInv, Types
  <2>2. SlotsInv'
    BY <1>0, <1>3 DEF VfsInv, SlotsInv, Used, Unused
  <2>3. OpenFailsOnlyWhenFull'
    BY <1>0, <1>2, <1>3, NoSlots DEF VfsInv, Types, OpenFailsOnlyWhenFull, Used
  <2>. QED
    BY <1>1, <2>1, <2>2, <2>3 DEF VfsInv
<1>4. ASSUME NEW f, FirstUnused # NoFile, vfs_open(name, f, HeadersEnd)
      PROVE  VfsInv'
  <2>1. Types'
    BY <1>0, <1>4, OpenTakesUnused DEF VfsInv, Types
  <2>2. CASE vfs_opened_files' = vfs_opened_files /\ fault'
    <3>1. SlotsInv'
      BY <1>0, <1>4, <2>2, OpenTakesUnused DEF VfsInv, SlotsInv, Used, Unused
    <3>2. OpenFailsOnlyWhenFull'
      BY <1>0, <1>2, <2>2, NoSlots DEF VfsInv, Types, OpenFailsOnlyWhenFull, Used
    <3>. QED
      BY <1>1, <2>1, <3>1, <3>2 DEF VfsInv
  <2>3. CASE /\ FirstUnused \in Slots /\ Unused(FirstUnused)
             /\ vfs_opened_files'[FirstUnused].name = name
             /\ \A i \in Slots \ {FirstUnused} : vfs_opened_files'[i] = vfs_opened_files[i]
    <3>1. ~wild' => ~wild /\ name # <<>>
      BY <1>0, <1>4, OpenTakesUnused
    <3>2. ~wild => \A q \in Procs, h \in Handles : Used(q, h) # FirstUnused
      BY <1>0, <2>3 DEF VfsInv, SlotsInv
    <3>3. SlotsInv'
      <4>. SUFFICES ASSUME ~wild'
                    PROVE  /\ \A i \in Slots : Unused(i)' => vfs_opened_files'[i].pos = 0
                           /\ \A q \in Procs, h \in Handles :
                                Used(q, h) \in Slots => vfs_opened_files'[Used(q, h)].name # <<>>
                           /\ \A q \in Procs, h \in Handles :
                                Used(q, h) \in Slots => vfs_opened_files'[Used(q, h)].pos = got[q][h]
        BY <1>0, <3>1 DEF VfsInv, SlotsInv, Used, Unused
      <4>. QED
        BY <1>0, <2>3, <3>1, <3>2 DEF VfsInv, SlotsInv, Unused
    <3>4. OpenFailsOnlyWhenFull'
      BY <1>0, <1>2, <2>3, NoSlots DEF VfsInv, Types, OpenFailsOnlyWhenFull, Used, Unused
    <3>. QED
      BY <1>1, <2>1, <3>3, <3>4 DEF VfsInv
  <2>. QED
    BY <1>0, <1>4, <2>2, <2>3, OpenTakesUnused
<1>. QED
  BY <1>3, <1>4 DEF exec_elf

\* System call 2 puts the slot vfs_open takes behind a fresh handle.
LEMMA OpenKeeps ==
  ASSUME VfsInv, NEW p \in Procs, NEW name, sys_open(p, name)
  PROVE  VfsInv'
<1>0. ~fault /\ p \in live /\ live' = live /\ 0 \in Nat
  BY DEF sys_open
<1>1. PICK f : vfs_open(name, f, 0)
  BY DEF sys_open
<1>2. ~wild' => ~wild /\ name # <<>>
  BY <1>0, <1>1, OpenTakesUnused
<1>3. \A i \in Slots : ~Unused(i) => vfs_opened_files'[i] = vfs_opened_files[i]
  BY <1>0, <1>1, OpenTakesUnused
<1>4. FirstUnused \in Slots /\ ~wild' =>
        /\ vfs_opened_files'[FirstUnused].pos = 0
        /\ ~fault' => vfs_opened_files'[FirstUnused].name = name
        /\ \A i \in Slots \ {FirstUnused} : vfs_opened_files'[i] = vfs_opened_files[i]
  BY <1>0, <1>1, <1>2, OpenTakesUnused, FirstUnusedIsUnused, NoSlots DEF VfsInv, SlotsInv
<1>5. FirstUnused = NoFile => vfs_opened_files' = vfs_opened_files /\ \A i \in Slots : ~Unused(i)
  BY <1>0, <1>1, OpenTakesUnused, FirstUnusedIsUnused, NoSlots
<1>6. FirstUnused \in Slots \cup {NoFile}
  BY FirstUnusedIsUnused
<1>7. ~wild => \A q \in Procs, h \in Handles : Used(q, h) \in Slots => ~Unused(Used(q, h))
  BY <1>0 DEF VfsInv, SlotsInv
<1>8. \A i \in Slots : Unused(i)' => Unused(i)
  BY <1>3 DEF Unused
<1>9. \A i \in Slots : ~wild' /\ Unused(i)' => vfs_opened_files'[i].pos = 0
  BY <1>2, <1>4, <1>5, <1>6, <1>8, NoSlots DEF VfsInv, SlotsInv
<1>10. CASE UNCHANGED <<resource_table, got>>
  <2>1. Types'
    BY <1>0, <1>1, <1>10, OpenTakesUnused DEF VfsInv, Types
  <2>2. DeadHoldNothing'
    BY <1>0, <1>10 DEF VfsInv, DeadHoldNothing, Used
  <2>3. SlotsInv'
    BY <1>2, <1>3, <1>7, <1>9, <1>10 DEF VfsInv, SlotsInv, Used, Unused
  <2>4. OpenFailsOnlyWhenFull'
    BY <1>0, <1>8, <1>10 DEF VfsInv, OpenFailsOnlyWhenFull, Unused
  <2>. QED
    BY <2>1, <2>2, <2>3, <2>4 DEF VfsInv
<1>11. ASSUME NEW k \in Handles, Used(p, k) = Empty,
              resource_table' = [resource_table EXCEPT ![p][k] = FirstUnused],
              got' = [got EXCEPT ![p][k] = 0]
       PROVE  VfsInv'
  <2>1. /\ Used(p, k)' = FirstUnused /\ got'[p][k] = 0
        /\ \A q \in Procs, h \in Handles : q # p \/ h # k =>
             Used(q, h)' = Used(q, h) /\ got'[q][h] = got[q][h]
    BY <1>11 DEF VfsInv, Types, Used
  <2>2. Types'
    BY <1>0, <1>1, <1>6, <1>11, OpenTakesUnused DEF VfsInv, Types
  <2>3. DeadHoldNothing'
    BY <1>0, <2>1 DEF VfsInv, DeadHoldNothing
  <2>4. SlotsInv'
    <3>. SUFFICES ASSUME ~wild' PROVE SlotsInv'
      BY DEF SlotsInv
    <3>0. \A q \in Procs, h \in Handles : Used(q, h) # FirstUnused \/ FirstUnused = NoFile
      BY <1>2, <1>7, FirstUnusedIsUnused
    <3>1. ~fault' => \A q \in Procs, h \in Handles : Used(q, h)' \in Slots => ~Unused(Used(q, h))'
      <4>. SUFFICES ASSUME ~fault', NEW q \in Procs, NEW h \in Handles, Used(q, h)' \in Slots
                    PROVE  vfs_opened_files'[Used(q, h)'].name # <<>>
        BY DEF Unused
      <4>1. CASE q = p /\ h = k
        BY <1>2, <1>4, <2>1, <4>1
      <4>2. CASE q # p \/ h # k
        BY <1>2, <1>3, <1>7, <2>1, <4>2 DEF Unused
      <4>. QED
        BY <4>1, <4>2
    <3>2. ASSUME NEW q \in Procs, NEW r \in Procs, NEW h \in Handles, NEW l \in Handles,
                 Used(q, h)' \in Slots, Used(q, h)' = Used(r, l)'
          PROVE  q = r /\ h = l
      BY <1>2, <2>1, <3>0, <3>2, NoSlots DEF VfsInv, SlotsInv
    <3>3. ASSUME NEW q \in Procs, NEW h \in Handles, Used(q, h)' \in Slots
          PROVE  vfs_opened_files'[Used(q, h)'].pos = got'[q][h]
      <4>1. CASE q = p /\ h = k
        BY <1>4, <2>1, <3>3, <4>1
      <4>2. CASE q # p \/ h # k
        BY <1>2, <1>3, <1>7, <2>1, <3>3, <4>2 DEF VfsInv, SlotsInv
      <4>. QED
        BY <4>1, <4>2
    <3>. QED
      BY <1>9, <3>1, <3>2, <3>3 DEF SlotsInv
  <2>5. OpenFailsOnlyWhenFull'
    <3>. SUFFICES ASSUME NEW q \in live, NEW h \in Handles, Used(q, h)' = NoFile, NEW i \in Slots
                  PROVE  vfs_opened_files'[i].name # <<>>
      BY <1>0 DEF OpenFailsOnlyWhenFull, Used
    <3>1. CASE q = p /\ h = k
      BY <1>5, <2>1, <3>1 DEF Unused
    <3>2. CASE q # p \/ h # k
      BY <1>8, <2>1, <3>2 DEF VfsInv, Types, OpenFailsOnlyWhenFull, Used, Unused
    <3>. QED
      BY <3>1, <3>2
  <2>. QED
    BY <2>2, <2>3, <2>4, <2>5 DEF VfsInv
<1>. QED
  <2>. DEFINE free == {h \in Handles : resource_table[p][h] = Empty}
  <2>1. CASE free = {}
    BY <1>10, <2>1 DEF sys_open, register_resource
  <2>2. CASE free # {}
    <3>1. Min(free) \in free
      BY <2>2, NoSlots, MinExists
    <3>. QED
      BY <1>11, <2>2, <3>1 DEF sys_open, register_resource, Used
  <2>. QED
    BY <2>1, <2>2

\* System call 0 moves the position of one slot, behind one handle.
LEMMA ReadKeeps ==
  ASSUME VfsInv, NEW p \in Procs, NEW h \in Handles, NEW n \in Lengths, sys_read(p, h, n)
  PROVE  VfsInv'
<1>. DEFINE i == Used(p, h)
<1>0. ~fault /\ UNCHANGED <<live, resource_table, wild>> /\ n \in Nat
  BY VfsAssumption DEF sys_read
<1>1. DeadHoldNothing'
  BY <1>0 DEF VfsInv, DeadHoldNothing, Used
<1>2. CASE i \notin Slots
  <2>1. UNCHANGED <<vfs_opened_files, got>>
    BY <1>2 DEF sys_read, Used
  <2>2. Types' /\ OpenFailsOnlyWhenFull'
    BY <1>0, <2>1 DEF VfsInv, Types, OpenFailsOnlyWhenFull
  <2>3. SlotsInv'
    BY <1>0, <2>1 DEF VfsInv, SlotsInv, Used, Unused
  <2>. QED
    BY <1>1, <2>2, <2>3 DEF VfsInv
<1>3. CASE i \in Slots
  <2>1. /\ vfs_opened_files' = [vfs_opened_files EXCEPT ![i].pos = @ + n]
        /\ got' = IF wild THEN got ELSE [got EXCEPT ![p][h] = @ + n]
    BY <1>3 DEF sys_read, Used, NextPos
  <2>2. \A j \in Slots : vfs_opened_files[j] = [name |-> vfs_opened_files[j].name,
                                                file |-> vfs_opened_files[j].file,
                                                pos  |-> vfs_opened_files[j].pos]
    BY DEF VfsInv, Types
  <2>3. DOMAIN vfs_opened_files = Slots
    BY DEF VfsInv, Types
  <2>4. vfs_opened_files'[i] = [name |-> vfs_opened_files[i].name,
                                file |-> vfs_opened_files[i].file,
                                pos  |-> vfs_opened_files[i].pos + n]
    BY <1>3, <2>1, <2>2, <2>3
  <2>5. \A j \in Slots \ {i} : vfs_opened_files'[j] = vfs_opened_files[j]
    BY <2>1, <2>3
  <2>6. \A j \in Slots : vfs_opened_files'[j].name = vfs_opened_files[j].name
    BY <2>4, <2>5
  <2>7. Types'
    <3>1. vfs_opened_files' = [j \in Slots |-> vfs_opened_files'[j]]
      BY <2>1, <2>3
    <3>2. \A j \in Slots : vfs_opened_files'[j] = [name |-> vfs_opened_files'[j].name,
                                                   file |-> vfs_opened_files'[j].file,
                                                   pos  |-> vfs_opened_files'[j].pos]
      BY <2>2, <2>4, <2>5
    <3>3. vfs_opened_files' = [j \in Slots |-> [name |-> vfs_opened_files'[j].name,
                                                file |-> vfs_opened_files'[j].file,
                                                pos  |-> vfs_opened_files'[j].pos]]
      BY <3>1, <3>2
    <3>4. got' \in [Procs -> [Handles -> Nat]]
      BY <1>0, <2>1 DEF VfsInv, Types
    <3>. QED
      BY <1>0, <3>3, <3>4 DEF VfsInv, Types
  <2>8. SlotsInv'
    <3>. SUFFICES ASSUME ~wild PROVE SlotsInv'
      BY <1>0 DEF SlotsInv
    <3>1. \A j \in Slots : vfs_opened_files'[j].name = <<>> => vfs_opened_files'[j].pos = 0
      BY <1>0, <1>3, <2>5, <2>6 DEF VfsInv, SlotsInv, Unused
    <3>2. ASSUME NEW q \in Procs, NEW k \in Handles, Used(q, k) \in Slots
          PROVE  vfs_opened_files'[Used(q, k)].pos = got'[q][k]
      <4>1. CASE q = p /\ k = h
        BY <1>3, <2>1, <2>4, <4>1 DEF VfsInv, SlotsInv, Types
      <4>2. CASE q # p \/ k # h
        <5>1. Used(q, k) # i
          BY <1>3, <4>2 DEF VfsInv, SlotsInv
        <5>2. got'[q][k] = got[q][k]
          BY <2>1, <4>2 DEF VfsInv, Types
        <5>. QED
          BY <2>5, <3>2, <5>1, <5>2 DEF VfsInv, SlotsInv
      <4>. QED
        BY <4>1, <4>2
    <3>3. \A q \in Procs, k \in Handles : Used(q, k)' = Used(q, k)
      BY <1>0 DEF Used
    <3>. QED
      BY <1>0, <2>6, <3>1, <3>2, <3>3 DEF VfsInv, SlotsInv, Unused
  <2>9. OpenFailsOnlyWhenFull'
    BY <1>0, <2>6 DEF VfsInv, OpenFailsOnlyWhenFull
  <2>. QED
    BY <1>1, <2>7, <2>8, <2>9 DEF VfsInv
<1>. QED
  BY <1>2, <1>3

\* The handles of a process that exits are gone, its slots stay taken.
LEMMA ExitKeeps ==
  ASSUME VfsInv, NEW p \in Procs, exit(p)
  PROVE  VfsInv'
<1>1. /\ live' = live \ {p}
      /\ resource_table' = [resource_table EXCEPT ![p] = [h \in Handles |-> Empty]]
      /\ got' = [got EXCEPT ![p] = [h \in Handles |-> 0]]
      /\ UNCHANGED <<vfs_opened_files, fault, wild>>
  BY DEF exit
<1>2. /\ \A h \in Handles : Used(p, h)' = Empty
      /\ \A q \in Procs \ {p}, h \in Handles : Used(q, h)' = Used(q, h) /\ got'[q][h] = got[q][h]
  BY <1>1 DEF VfsInv, Types, Used
<1>3. Types'
  BY <1>1 DEF VfsInv, Types
<1>4. DeadHoldNothing'
  BY <1>1, <1>2 DEF VfsInv, DeadHoldNothing
<1>5. SlotsInv'
  BY <1>1, <1>2, NoSlots DEF VfsInv, SlotsInv, Unused
<1>6. OpenFailsOnlyWhenFull'
  BY <1>1, <1>2, NoSlots DEF VfsInv, Types, OpenFailsOnlyWhenFull, Used
<1>. QED
  BY <1>3, <1>4, <1>5, <1>6 DEF VfsInv

\* The invariant holds in every state.
LEMMA VfsInvariant == Spec => []VfsInv
<1>1. Init => VfsInv
  BY InitVfsInv
<1>2. VfsInv /\ [Next]_vars => VfsInv'
  <2>. SUFFICES ASSUME VfsInv, [Next]_vars PROVE VfsInv'
    OBVIOUS
  <2>1. CASE UNCHANGED fileVars
    <3>1. UNCHANGED <<vfs_opened_files, live, resource_table, fault, got, wild>>
      BY <2>1 DEF fileVars
    <3>2. Types' /\ OpenFailsOnlyWhenFull'
      BY <3>1 DEF VfsInv, Types, OpenFailsOnlyWhenFull
    <3>3. DeadHoldNothing' /\ SlotsInv'
      BY <3>1 DEF VfsInv, DeadHoldNothing, SlotsInv, Used, Unused
    <3>. QED
      BY <3>2, <3>3 DEF VfsInv
  <2>2. CASE parse_tar_file \/ vfs_init \/ Halted \/ UNCHANGED vars
    BY <2>1, <2>2 DEF parse_tar_file, vfs_init, Halted, vars
  <2>3. ASSUME NEW p \in Procs, NEW name \in Paths, exec_elf(p, name) \/ sys_open(p, name)
        PROVE  VfsInv'
    BY <2>3, ExecKeeps, OpenKeeps
  <2>4. ASSUME NEW p \in Procs, NEW h \in Handles, NEW n \in Lengths, sys_read(p, h, n)
        PROVE  VfsInv'
    BY <2>4, ReadKeeps
  <2>5. ASSUME NEW p \in Procs, exit(p)
        PROVE  VfsInv'
    BY <2>5, ExitKeeps
  <2>. QED
    BY <2>2, <2>3, <2>4, <2>5 DEF Next
<1>. QED
  BY <1>1, <1>2, PTL DEF Spec

-----------------------------------------------------------------------------
(* The archive *)

\* A set of numbers that holds 0 and is closed under successor holds all of them.
LEMMA Induction ==
  ASSUME NEW S, 0 \in S, \A k \in Nat : k \in S => k + 1 \in S
  PROVE  \A k \in Nat : k \in S
<1>. SUFFICES ASSUME Nat \ S # {} PROVE FALSE
  OBVIOUS
<1>1. PICK x \in Nat \ S : \A y \in Nat \ S : x <= y
  <2>1. Nat \ S \subseteq Nat
    OBVIOUS
  <2>. QED
    BY <2>1, MinExists
<1>2. x # 0 /\ x - 1 \in Nat /\ ~(x <= x - 1) /\ (x - 1) + 1 = x
  BY <1>1
<1>3. x - 1 \in S
  BY <1>1, <1>2
<1>. QED
  BY <1>1, <1>2, <1>3

\* f starts with a and goes on with step.
Follows(f, V, step, a) ==
  f \in [Nat -> V] /\ f[0] = a /\ \A i \in Nat : f[i + 1] = step[i][f[i]]

\* A first number and a rule for the next one define a function.
LEMMA Recursion ==
  ASSUME NEW V, NEW step \in [Nat -> [V -> V]], NEW a \in V
  PROVE  \E f : Follows(f, V, step, a)
<1>. DEFINE Part(K, f) == /\ f \in [0 .. K -> V] /\ f[0] = a
                          /\ \A i \in 0 .. K : i # 0 => f[i] = step[i - 1][f[i - 1]]
            E == {K \in Nat : \E f \in [0 .. K -> V] : Part(K, f)}
<1>1. 0 \in E
  <2>1. Part(0, [i \in 0 .. 0 |-> a])
    OBVIOUS
  <2>. QED
    BY <2>1
<1>2. ASSUME NEW K \in Nat, K \in E PROVE K + 1 \in E
  <2>1. PICK f \in [0 .. K -> V] : Part(K, f)
    BY <1>2
  <2>. DEFINE g == [i \in 0 .. K + 1 |-> IF i = K + 1 THEN step[K][f[K]] ELSE f[i]]
  <2>2. g \in [0 .. K + 1 -> V] /\ g[0] = a
    <3>1. f[K] \in V /\ step[K][f[K]] \in V
      BY <2>1
    <3>. QED
      BY <2>1, <3>1
  <2>3. ASSUME NEW i \in 0 .. K + 1, i # 0 PROVE g[i] = step[i - 1][g[i - 1]]
    <3>1. CASE i = K + 1
      <4>1. i - 1 = K /\ g[i] = step[K][f[K]] /\ g[K] = f[K]
        BY <3>1
      <4>. QED
        BY <4>1
    <3>2. CASE i # K + 1
      <4>1. i \in 0 .. K /\ i - 1 \in 0 .. K
        BY <2>3, <3>2
      <4>2. g[i] = f[i] /\ g[i - 1] = f[i - 1]
        BY <4>1
      <4>. QED
        BY <2>1, <2>3, <4>1, <4>2
    <3>. QED
      BY <3>1, <3>2
  <2>4. g \in [0 .. K + 1 -> V] /\ Part(K + 1, g)
    <3>. HIDE DEF g
    <3>. QED
      BY <2>2, <2>3
  <2>. QED
    <3>. HIDE DEF g, Part
    <3>. QED
      BY <2>4
<1>3. \A K \in Nat : \E f \in [0 .. K -> V] : Part(K, f)
  <2>. HIDE DEF Part
  <2>1. \A K \in Nat : K \in E
    <3>. HIDE DEF E
    <3>. QED
      BY <1>1, <1>2, Induction
  <2>. QED
    BY <2>1
\* Two of them agree where both are defined.
<1>4. ASSUME NEW K \in Nat, NEW L \in Nat, NEW f, NEW g, Part(K, f), Part(L, g)
      PROVE  \A i \in Nat : i <= K /\ i <= L => f[i] = g[i]
  <2>. DEFINE A == {i \in Nat : i <= K /\ i <= L => f[i] = g[i]}
  <2>1. 0 \in A
    BY <1>4
  <2>2. ASSUME NEW i \in Nat, i \in A PROVE i + 1 \in A
    <3>1. (i + 1) - 1 = i
      OBVIOUS
    <3>. QED
      BY <1>4, <2>2, <3>1
  <2>3. \A i \in Nat : i \in A
    <3>. HIDE DEF A
    <3>. QED
      BY <2>1, <2>2, Induction
  <2>. QED
    BY <2>3
<1>. DEFINE part(K) == CHOOSE f \in [0 .. K -> V] : Part(K, f)
            w == [k \in Nat |-> part(k)[k]]
<1>5. \A K \in Nat : Part(K, part(K))
  <2>. HIDE DEF Part
  <2>. QED
    BY <1>3
<1>6. ASSUME NEW i \in Nat
      PROVE  w[i] \in V /\ w[i] = IF i = 0 THEN a ELSE step[i - 1][w[i - 1]]
  <2>. HIDE DEF part
  <2>1. Part(i, part(i)) /\ w[i] = part(i)[i]
    BY <1>5
  <2>2. CASE i = 0
    BY <2>1, <2>2
  <2>3. CASE i # 0
    <3>1. i - 1 \in Nat /\ Part(i - 1, part(i - 1)) /\ w[i - 1] = part(i - 1)[i - 1]
      BY <1>5, <2>3
    <3>2. part(i - 1)[i - 1] = part(i)[i - 1]
      <4>. HIDE DEF Part
      <4>1. i - 1 <= i - 1 /\ i - 1 <= i
        BY <2>3
      <4>. QED
        BY <1>4, <2>1, <3>1, <4>1
    <3>. QED
      BY <2>1, <2>3, <3>1, <3>2
  <2>. QED
    BY <2>2, <2>3
<1>7. w \in [Nat -> V] /\ w[0] = a
  BY <1>6
<1>8. \A i \in Nat : w[i + 1] = step[i][w[i]]
  <2>. HIDE DEF w
  <2>1. \A i \in Nat : i + 1 \in Nat /\ i + 1 # 0 /\ (i + 1) - 1 = i
    OBVIOUS
  <2>. QED
    BY <1>6, <2>1
<1>9. Follows(w, V, step, a)
  BY <1>7, <1>8 DEF Follows
<1>. QED
  BY <1>9

\* count is the power of 8 that its recursion says.
LEMMA CountSteps ==
  /\ count[0] = 1
  /\ \A k \in Nat : count[k] \in Nat \ {0} /\ count[k + 1] = count[k] * 8
<1>. DEFINE step == [i \in Nat |-> [x \in Nat |-> x * 8]]
            Is(f) == f = [k \in Nat |-> IF k = 0 THEN 1 ELSE f[k - 1] * 8]
            c == CHOOSE f : Is(f)
<1>1. step \in [Nat -> [Nat -> Nat]]
  OBVIOUS
<1>2. PICK f : f \in [Nat -> Nat] /\ f[0] = 1 /\ \A i \in Nat : f[i + 1] = step[i][f[i]]
  <2>. HIDE DEF step
  <2>1. \E f : Follows(f, Nat, step, 1)
    BY <1>1, Recursion
  <2>. QED
    BY <2>1 DEF Follows
<1>3. ASSUME NEW i \in Nat, i # 0 PROVE f[i] = f[i - 1] * 8
  <2>1. i - 1 \in Nat /\ (i - 1) + 1 = i
    BY <1>3
  <2>2. f[i] = step[i - 1][f[i - 1]] /\ f[i - 1] \in Nat
    BY <1>2, <2>1
  <2>. QED
    BY <2>1, <2>2
<1>4. Is(f)
  <2>1. f = [i \in Nat |-> f[i]]
    BY <1>2
  <2>. QED
    BY <1>2, <1>3, <2>1
<1>5. Is(c)
  BY <1>4
<1>6. count = c
  BY DEF count
<1>7. count[0] = 1 /\ \A k \in Nat : count[k + 1] = count[k] * 8
  <2>. HIDE DEF c
  <2>1. \A k \in Nat : k + 1 \in Nat /\ k + 1 # 0 /\ (k + 1) - 1 = k
    OBVIOUS
  <2>. QED
    BY <1>5, <1>6, <2>1
<1>8. \A k \in Nat : count[k] \in Nat \ {0}
  <2>. DEFINE S == {k \in Nat : count[k] \in Nat \ {0}}
  <2>1. 0 \in S
    BY <1>7
  <2>2. ASSUME NEW k \in Nat, k \in S PROVE k + 1 \in S
    BY <1>7, <2>2
  <2>3. \A k \in Nat : k \in S
    <3>. HIDE DEF S
    <3>. QED
      BY <2>1, <2>2, Induction
  <2>. QED
    BY <2>3
<1>. QED
  BY <1>7, <1>8

\* Total is the sum that its recursion says.
LEMMA TotalSteps ==
  ASSUME NEW c \in Seq(Nat)
  PROVE  /\ Total(c, 0) = 0
         /\ \A k \in 0 .. Len(c) : Total(c, k) \in Nat
         /\ \A k \in Nat : k < Len(c) => Total(c, k + 1) = Total(c, k) + c[k + 1]
<1>. DEFINE step == [i \in Nat |-> [x \in Nat |-> IF i < Len(c) THEN x + c[i + 1] ELSE x]]
            Is(f) == f = [k \in 0 .. Len(c) |-> IF k = 0 THEN 0 ELSE f[k - 1] + c[k]]
            t == CHOOSE f : Is(f)
<1>0. Len(c) \in Nat /\ \A i \in Nat : i < Len(c) => c[i + 1] \in Nat
  OBVIOUS
<1>1. step \in [Nat -> [Nat -> Nat]]
  BY <1>0
<1>2. PICK f : f \in [Nat -> Nat] /\ f[0] = 0 /\ \A i \in Nat : f[i + 1] = step[i][f[i]]
  <2>. HIDE DEF step
  <2>1. \E f : Follows(f, Nat, step, 0)
    BY <1>1, Recursion
  <2>. QED
    BY <2>1 DEF Follows
<1>. DEFINE g == [k \in 0 .. Len(c) |-> f[k]]
<1>3. ASSUME NEW i \in 0 .. Len(c), i # 0 PROVE f[i] = f[i - 1] + c[i]
  <2>1. i - 1 \in Nat /\ (i - 1) + 1 = i /\ i - 1 < Len(c)
    BY <1>0, <1>3
  <2>2. f[i] = step[i - 1][f[i - 1]] /\ f[i - 1] \in Nat
    BY <1>2, <2>1
  <2>. QED
    BY <2>1, <2>2
<1>4. Is(g)
  <2>1. ASSUME NEW i \in 0 .. Len(c) PROVE g[i] = IF i = 0 THEN 0 ELSE g[i - 1] + c[i]
    <3>1. i # 0 => i - 1 \in 0 .. Len(c)
      BY <1>0
    <3>. QED
      BY <1>2, <1>3, <3>1
  <2>2. g = [i \in 0 .. Len(c) |-> g[i]]
    OBVIOUS
  <2>. HIDE DEF g
  <2>. QED
    BY <2>1, <2>2
<1>5. Is(t)
  <2>. HIDE DEF g
  <2>. QED
    BY <1>4
<1>6. \A k : Total(c, k) = t[k]
  BY DEF Total
<1>7. t[0] = 0 /\ \A k \in Nat : k < Len(c) => t[k + 1] = t[k] + c[k + 1]
  <2>. HIDE DEF t
  <2>1. \A k \in Nat : k < Len(c) => k + 1 \in 0 .. Len(c) /\ k + 1 # 0 /\ (k + 1) - 1 = k
    BY <1>0
  <2>2. 0 \in 0 .. Len(c)
    BY <1>0
  <2>. QED
    BY <1>5, <2>1, <2>2
<1>8. \A k \in Nat : k <= Len(c) => t[k] \in Nat
  <2>. HIDE DEF t
  <2>. DEFINE S == {k \in Nat : k <= Len(c) => t[k] \in Nat}
  <2>1. 0 \in S
    BY <1>7
  <2>2. ASSUME NEW k \in Nat, k \in S PROVE k + 1 \in S
    <3>. SUFFICES ASSUME k + 1 <= Len(c) PROVE t[k + 1] \in Nat
      OBVIOUS
    <3>1. k < Len(c) /\ k <= Len(c)
      BY <1>0
    <3>2. t[k] \in Nat /\ c[k + 1] \in Nat /\ t[k + 1] = t[k] + c[k + 1]
      BY <1>0, <1>7, <2>2, <3>1
    <3>. QED
      BY <3>2
  <2>3. \A k \in Nat : k \in S
    <3>. HIDE DEF S
    <3>. QED
      BY <2>1, <2>2, Induction
  <2>. QED
    BY <2>3
<1>. HIDE DEF t
<1>9. \A k \in 0 .. Len(c) : k \in Nat /\ k <= Len(c)
  BY <1>0
<1>10. \A k \in 0 .. Len(c) : Total(c, k) \in Nat
  BY <1>6, <1>8, <1>9
<1>. QED
  BY <1>6, <1>7, <1>10

\* Quotient and remainder.
LEMMA DivMod ==
  ASSUME NEW a \in Nat, NEW d \in Nat \ {0}
  PROVE  a \div d \in Nat /\ a % d \in 0 .. d - 1 /\ a = d * (a \div d) + (a % d)
  OBVIOUS

\* They are the only decomposition of a number.
LEMMA DivModUnique ==
  ASSUME NEW d \in Nat \ {0}, NEW q \in Nat, NEW r \in 0 .. d - 1
  PROVE  (d * q + r) \div d = q /\ (d * q + r) % d = r
  OBVIOUS

\* One digit more of a number.
LEMMA NextDigit ==
  ASSUME NEW n \in Nat, NEW m \in Nat \ {0}
  PROVE  n % (m * 8) = (n % m) + ((n \div m) % 8) * m
<1>. DEFINE q == n \div m
            r == n % m
            a == q \div 8
            b == q % 8
<1>1. q \in Nat /\ r \in 0 .. m - 1 /\ n = m * q + r
  BY DivMod
<1>2. a \in Nat /\ b \in 0 .. 7 /\ q = 8 * a + b
  BY <1>1
<1>. HIDE DEF q, r, a, b
<1>3. m * 8 \in Nat \ {0}
  OBVIOUS
<1>4. m * b \in Nat /\ m * b <= m * 7
  <2>1. b \in {0, 1, 2, 3, 4, 5, 6, 7}
    BY <1>2
  <2>. QED
    BY <2>1
<1>5. m * b + r \in 0 .. m * 8 - 1
  BY <1>1, <1>4
<1>6. m * q = (m * 8) * a + m * b
  BY <1>1, <1>2
<1>7. n = (m * 8) * a + (m * b + r)
  <2>1. (m * 8) * a \in Nat /\ m * q \in Nat
    BY <1>1, <1>2, <1>3
  <2>. QED
    BY <1>1, <1>4, <1>6, <2>1
<1>8. n % (m * 8) = m * b + r
  <2>. DEFINE d == m * 8
              e == m * b + r
  <2>1. d \in Nat \ {0} /\ e \in 0 .. d - 1 /\ n = d * a + e
    BY <1>3, <1>5, <1>7
  <2>. HIDE DEF d, e
  <2>2. n % d = e
    BY <1>2, <2>1, DivModUnique
  <2>. QED
    BY <2>2 DEF d, e
<1>9. m * b = b * m
  BY <1>2
<1>. QED
  BY <1>1, <1>4, <1>8, <1>9 DEF q, r, b

\* get_file_size reads a size as tar has written it.
LEMMA SizeIsRead ==
  ASSUME NEW n \in 0 .. count[SizeDigits] - 1
  PROVE  get_file_size(OctalDigits(n)) = n
<1>. DEFINE c == [j \in 1 .. SizeDigits |-> OctalDigits(n)[SizeDigits + 1 - j] * count[j - 1]]
<1>0. SizeDigits \in Nat /\ count[SizeDigits] \in Nat /\ n \in Nat
  <2>1. SizeDigits \in Nat
    BY VfsAssumption
  <2>2. count[SizeDigits] \in Nat
    BY <2>1, CountSteps
  <2>. QED
    BY <2>1, <2>2
<1>1. ASSUME NEW k \in Nat, k < SizeDigits
      PROVE  c[k + 1] = ((n \div count[k]) % 8) * count[k] /\ c[k + 1] \in Nat
  <2>1. /\ k + 1 \in 1 .. SizeDigits /\ (k + 1) - 1 = k
        /\ SizeDigits + 1 - (k + 1) \in 1 .. SizeDigits
        /\ SizeDigits - (SizeDigits + 1 - (k + 1)) = k
    BY <1>0, <1>1
  <2>2. OctalDigits(n)[SizeDigits + 1 - (k + 1)] = (n \div count[k]) % 8
    BY <2>1 DEF OctalDigits
  <2>3. c[k + 1] = ((n \div count[k]) % 8) * count[k]
    BY <2>1, <2>2
  <2>4. count[k] \in Nat \ {0} /\ n \div count[k] \in Nat /\ (n \div count[k]) % 8 \in Nat
    <3>1. count[k] \in Nat \ {0}
      BY CountSteps
    <3>2. n \div count[k] \in Nat
      BY <1>0, <3>1, DivMod
    <3>. QED
      BY <3>1, <3>2
  <2>. QED
    BY <2>3, <2>4
<1>2. c \in Seq(Nat) /\ Len(c) = SizeDigits
  <2>1. \A j \in 1 .. SizeDigits : c[j] \in Nat
    <3>. SUFFICES ASSUME NEW j \in 1 .. SizeDigits PROVE c[j] \in Nat
      OBVIOUS
    <3>1. j - 1 \in Nat /\ j - 1 < SizeDigits /\ (j - 1) + 1 = j
      BY <1>0
    <3>. HIDE DEF c
    <3>. QED
      BY <1>1, <3>1
  <2>2. c = [j \in 1 .. SizeDigits |-> c[j]]
    OBVIOUS
  <2>. HIDE DEF c
  <2>. QED
    BY <1>0, <2>1, <2>2
<1>. HIDE DEF c
<1>. DEFINE S == {k \in Nat : k <= SizeDigits => Total(c, k) = n % count[k]}
<1>3. 0 \in S
  <2>1. n % 1 = 0
    BY <1>0
  <2>2. Total(c, 0) = 0 /\ count[0] = 1
    BY <1>2, TotalSteps, CountSteps
  <2>. QED
    BY <2>1, <2>2
<1>4. ASSUME NEW k \in Nat, k \in S PROVE k + 1 \in S
  <2>. SUFFICES ASSUME k + 1 <= SizeDigits PROVE Total(c, k + 1) = n % count[k + 1]
    OBVIOUS
  <2>1. k < SizeDigits /\ k <= SizeDigits
    BY <1>0
  <2>2. Total(c, k + 1) = (n % count[k]) + ((n \div count[k]) % 8) * count[k]
    BY <1>1, <1>2, <1>4, <2>1, TotalSteps
  <2>3. n % (count[k] * 8) = (n % count[k]) + ((n \div count[k]) % 8) * count[k]
    BY <1>0, CountSteps, NextDigit
  <2>. QED
    BY <2>2, <2>3, CountSteps
<1>5. \A k \in Nat : k \in S
  <2>. HIDE DEF S
  <2>. QED
    BY <1>3, <1>4, Induction
<1>6. Total(c, SizeDigits) = n % count[SizeDigits]
  BY <1>0, <1>5
<1>7. n % count[SizeDigits] = n
  <2>1. count[SizeDigits] \in Nat \ {0} /\ n < count[SizeDigits]
    BY <1>0, CountSteps
  <2>. QED
    BY <1>0, <2>1
<1>. QED
  BY <1>6, <1>7 DEF get_file_size, c

\* parse_tar_file goes on by as many blocks as the header and the file fill.
LEMMA AdvanceFits ==
  ASSUME NEW size \in Nat
  PROVE  /\ Advance(size) = 1 + (size + BLOCK - 1) \div BLOCK
         /\ Advance(size) \in Nat \ {0}
<1>. DEFINE q == size \div BLOCK
            r == size % BLOCK
<1>0. BLOCK \in Nat \ {0}
  BY VfsAssumption
<1>1. q \in Nat /\ r \in 0 .. BLOCK - 1 /\ size = BLOCK * q + r
  BY <1>0, DivMod
<1>2. Advance(size) = q + 1 + (IF r # 0 THEN 1 ELSE 0)
  BY DEF Advance
<1>. HIDE DEF q, r
<1>3. BLOCK * q \in Nat /\ BLOCK * (q + 1) = BLOCK * q + BLOCK
  BY <1>0, <1>1
<1>4. CASE r = 0
  <2>1. size + BLOCK - 1 = BLOCK * q + (BLOCK - 1) /\ BLOCK - 1 \in 0 .. BLOCK - 1
    BY <1>0, <1>1, <1>3, <1>4
  <2>2. (BLOCK * q + (BLOCK - 1)) \div BLOCK = q
    <3>. DEFINE e == BLOCK - 1
    <3>1. e \in 0 .. BLOCK - 1
      BY <2>1
    <3>. HIDE DEF e
    <3>2. (BLOCK * q + e) \div BLOCK = q
      BY <1>0, <1>1, <3>1, DivModUnique
    <3>. QED
      BY <3>2 DEF e
  <2>. QED
    BY <1>1, <1>2, <1>4, <2>1, <2>2
<1>5. CASE r # 0
  <2>. DEFINE e == r - 1
              d == q + 1
  <2>1. e \in 0 .. BLOCK - 1 /\ d \in Nat
    BY <1>0, <1>1, <1>5
  <2>2. size + BLOCK - 1 = BLOCK * d + e
    BY <1>0, <1>1, <1>3
  <2>3. Advance(size) = 1 + d
    BY <1>1, <1>2, <1>5
  <2>. HIDE DEF d, e
  <2>4. (BLOCK * d + e) \div BLOCK = d
    BY <1>0, <2>1, DivModUnique
  <2>. QED
    BY <2>1, <2>2, <2>3, <2>4
<1>. QED
  BY <1>4, <1>5

\* The members of an archive.
LEMMA MembersType ==
  ASSUME members \in Archives
  PROVE  /\ Len(members) \in Nat /\ DOMAIN members = 1 .. Len(members)
         /\ \A k \in 1 .. Len(members) :
              /\ members[k].size \in 0 .. count[SizeDigits] - 1 /\ members[k].size \in Nat
              /\ members[k].name \in Seq(STRING) /\ members[k].name # <<>>
<1>. DEFINE R == [name : Seq(STRING), size : 0 .. count[SizeDigits] - 1]
<1>1. members \in Seq(R)
  BY VfsAssumption
<1>2. count[SizeDigits] \in Nat
  <2>1. SizeDigits \in Nat
    BY VfsAssumption
  <2>. QED
    BY <2>1, CountSteps
<1>3. /\ Len(members) \in Nat /\ DOMAIN members = 1 .. Len(members)
      /\ \A k \in 1 .. Len(members) : members[k] \in R
  <2>. HIDE DEF R
  <2>. QED
    BY <1>1
<1>4. \A k \in 1 .. Len(members) : members[k].name # <<>>
  BY <1>3, VfsAssumption
<1>. QED
  BY <1>2, <1>3, <1>4

\* The next header lies where parse_tar_file goes on to.
LEMMA HeaderSteps ==
  ASSUME members \in Archives
  PROVE  /\ HeaderBlock(1) = 0
         /\ \A k \in 1 .. Len(members) + 1 : HeaderBlock(k) \in Nat
         /\ \A k \in 1 .. Len(members) : HeaderBlock(k + 1) = HeaderBlock(k) + Advance(members[k].size)
<1>. DEFINE n == Len(members)
            c == [j \in 1 .. n |-> 1 + (members[j].size + BLOCK - 1) \div BLOCK]
<1>1. n \in Nat /\ \A k \in 1 .. n : members[k].size \in Nat
  BY MembersType
<1>2. \A j \in 1 .. n : c[j] = Advance(members[j].size) /\ c[j] \in Nat
  BY <1>1, AdvanceFits
<1>3. c = [j \in 1 .. n |-> c[j]]
  OBVIOUS
<1>4. \A k : HeaderBlock(k) = Total(c, k - 1)
  BY DEF HeaderBlock
<1>. HIDE DEF c
<1>5. c \in Seq(Nat) /\ Len(c) = n
  BY <1>1, <1>2, <1>3
<1>6. HeaderBlock(1) = 0
  BY <1>4, <1>5, TotalSteps
<1>7. ASSUME NEW k \in 1 .. n + 1 PROVE HeaderBlock(k) \in Nat
  <2>1. k - 1 \in 0 .. n
    BY <1>1
  <2>. QED
    BY <1>4, <1>5, <2>1, TotalSteps
<1>8. ASSUME NEW k \in 1 .. n PROVE HeaderBlock(k + 1) = HeaderBlock(k) + c[k]
  <2>1. k - 1 \in Nat /\ k - 1 < n /\ (k - 1) + 1 = k /\ (k + 1) - 1 = k
    BY <1>1
  <2>2. Total(c, (k - 1) + 1) = Total(c, k - 1) + c[(k - 1) + 1]
    BY <1>5, <2>1, TotalSteps
  <2>. QED
    BY <1>4, <2>1, <2>2
<1>. QED
  BY <1>2, <1>6, <1>7, <1>8

\* No two headers lie in the same block.
LEMMA HeadersApart ==
  ASSUME members \in Archives
  PROVE  \A j, k \in 1 .. Len(members) + 1 : HeaderBlock(j) = HeaderBlock(k) => j = k
<1>. DEFINE n == Len(members)
            S == {k \in Nat : k <= n => \A j \in 1 .. k : HeaderBlock(j) < HeaderBlock(k + 1)}
<1>1. n \in Nat
  BY MembersType
<1>2. 0 \in S
  OBVIOUS
<1>3. ASSUME NEW k \in Nat, k \in S PROVE k + 1 \in S
  <2>. SUFFICES ASSUME k + 1 <= n, NEW j \in 1 .. k + 1
                PROVE  HeaderBlock(j) < HeaderBlock((k + 1) + 1)
    OBVIOUS
  <2>1. k <= n /\ k + 1 \in 1 .. n /\ k + 1 \in 1 .. n + 1 /\ (k + 1) + 1 \in 1 .. n + 1 /\ j \in 1 .. n + 1
    BY <1>1
  <2>2. /\ HeaderBlock(j) \in Nat /\ HeaderBlock(k + 1) \in Nat
        /\ HeaderBlock((k + 1) + 1) = HeaderBlock(k + 1) + Advance(members[k + 1].size)
    BY <2>1, HeaderSteps
  <2>3. Advance(members[k + 1].size) \in Nat \ {0}
    BY <2>1, MembersType, AdvanceFits
  <2>4. j = k + 1 \/ HeaderBlock(j) < HeaderBlock(k + 1)
    <3>1. j = k + 1 \/ j \in 1 .. k
      OBVIOUS
    <3>. QED
      BY <1>3, <2>1, <3>1
  <2>. QED
    BY <2>2, <2>3, <2>4
<1>4. \A k \in Nat : k \in S
  <2>. HIDE DEF S
  <2>. QED
    BY <1>2, <1>3, Induction
<1>5. ASSUME NEW j \in 1 .. n + 1, NEW k \in 1 .. n + 1, j < k
      PROVE  HeaderBlock(j) # HeaderBlock(k)
  <2>1. k - 1 \in Nat /\ k - 1 <= n /\ j \in 1 .. k - 1 /\ (k - 1) + 1 = k
    BY <1>1, <1>5
  <2>2. HeaderBlock(j) < HeaderBlock(k)
    BY <1>4, <2>1
  <2>3. HeaderBlock(j) \in Nat /\ HeaderBlock(k) \in Nat
    BY HeaderSteps
  <2>. QED
    BY <2>2, <2>3
<1>. QED
  BY <1>1, <1>5

\* The loop of parse_tar_file has entered the headers of the first members, and stands
\* at the next one; it ends behind the last.
ParseInv ==
  /\ members \in Archives
  /\ phase \in {"tar_init", "vfs_init", "run", "overrun"}
  /\ Len(file_headers) \in 0 .. Len(members)
  /\ file_headers = [i \in 1 .. Len(file_headers) |-> i]
  /\ phase = "tar_init" => header_addr = HeaderBlock(Len(file_headers) + 1)
  /\ phase \in {"vfs_init", "run"} => Len(file_headers) = Len(members)
  /\ phase = "overrun" => Len(members) > HEADER_LIST_SIZE

\* The headers that strncmp takes for a name.
Takes(name) == {i \in DOMAIN archive : strncmp(archive[i], name)}

\* An opened file is the first one in the archive that strncmp takes for its name, and
\* there is none before the archive has been read.
OpenInv ==
  /\ phase # "run" => live = {} /\ \A i \in Slots : Unused(i)
  /\ \A i \in Slots : ~Unused(i) /\ Takes(vfs_opened_files[i].name) # {} =>
       vfs_opened_files[i].file = Min(Takes(vfs_opened_files[i].name))

\* parse_tar_file has found nothing when it starts.
LEMMA InitArchive == Init => ParseInv /\ OpenInv
<1>. SUFFICES ASSUME Init PROVE ParseInv /\ OpenInv
  OBVIOUS
<1>1. members \in Archives /\ Len(file_headers) = 0 /\ file_headers = [i \in 1 .. 0 |-> i]
  BY DEF Init
<1>2. ParseInv
  BY <1>1, MembersType, HeaderSteps DEF Init, ParseInv
<1>3. OpenInv
  BY DEF Init, OpenInv, Unused, Closed
<1>. QED
  BY <1>2, <1>3

\* The loop enters the header it stands at, and stops behind the last one.
LEMMA ParseKeeps ==
  ASSUME ParseInv, parse_tar_file
  PROVE  ParseInv'
<1>1. PICK k \in 0 .. Len(members) : k = Len(file_headers)
  BY DEF ParseInv
<1>2. PICK n \in Nat : n = Len(members)
  BY MembersType DEF ParseInv
<1>3. /\ members \in Archives /\ file_headers = [i \in 1 .. k |-> i]
      /\ phase = "tar_init" /\ header_addr = HeaderBlock(k + 1)
  BY <1>1 DEF ParseInv, parse_tar_file
<1>4. members' = members /\ \A i : HeaderBlock(i)' = HeaderBlock(i)
  BY DEF parse_tar_file, HeaderBlock
<1>5. \A i \in Found : i = k + 1 /\ k < n
  <2>. SUFFICES ASSUME NEW i \in Found PROVE i = k + 1 /\ k < n
    OBVIOUS
  <2>1. i \in 1 .. n /\ HeaderBlock(i) = HeaderBlock(k + 1)
    BY <1>2, <1>3, MembersType DEF Found
  <2>2. i \in 1 .. n + 1 /\ k + 1 \in 1 .. n + 1
    BY <1>1, <1>2, <2>1
  <2>3. i = k + 1
    BY <1>2, <1>3, <2>1, <2>2, HeadersApart
  <2>. QED
    BY <1>1, <1>2, <2>1, <2>3
<1>6. k < n => k + 1 \in Found
  BY <1>1, <1>2, <1>3, MembersType DEF Found
<1>7. CASE Found = {}
  <2>1. phase' = "vfs_init" /\ file_headers' = file_headers
    BY <1>7 DEF parse_tar_file
  <2>2. k = n
    BY <1>1, <1>2, <1>6, <1>7
  <2>. QED
    BY <1>1, <1>2, <1>3, <1>4, <2>1, <2>2 DEF ParseInv
<1>8. CASE Found # {}
  <2>1. k < n
    BY <1>5, <1>8
  <2>2. /\ header_addr' = header_addr + Advance(get_file_size(OctalDigits(members[k + 1].size)))
        /\ IF k < HEADER_LIST_SIZE THEN file_headers' = Append(file_headers, k + 1) /\ UNCHANGED phase
           ELSE phase' = "overrun" /\ UNCHANGED file_headers
    BY <1>1, <1>5, <1>8 DEF parse_tar_file
  <2>3. CASE k >= HEADER_LIST_SIZE
    <3>1. HEADER_LIST_SIZE \in Nat
      BY VfsAssumption
    <3>2. phase' = "overrun" /\ file_headers' = file_headers
      BY <1>1, <2>2, <2>3, <3>1
    <3>. QED
      BY <1>1, <1>2, <1>3, <1>4, <2>1, <2>3, <3>1, <3>2 DEF ParseInv
  <2>4. CASE k < HEADER_LIST_SIZE
    <3>1. file_headers' = Append(file_headers, k + 1) /\ phase' = "tar_init"
      BY <1>3, <2>2, <2>4
    <3>2. file_headers' = [i \in 1 .. k + 1 |-> i] /\ Len(file_headers') = k + 1
      BY <1>1, <1>3, <3>1
    <3>3. k + 1 \in 1 .. n
      BY <1>1, <1>2, <2>1
    <3>4. get_file_size(OctalDigits(members[k + 1].size)) = members[k + 1].size
      BY <1>2, <1>3, <3>3, MembersType, SizeIsRead
    <3>5. header_addr' = HeaderBlock((k + 1) + 1)
      BY <1>2, <1>3, <2>2, <3>3, <3>4, HeaderSteps
    <3>6. header_addr' = HeaderBlock(Len(file_headers) + 1)'
      BY <1>4, <3>2, <3>5 DEF HeaderBlock
    <3>7. Len(members') = n /\ k + 1 \in 0 .. n
      BY <1>2, <1>4, <3>3
    <3>. QED
      BY <1>3, <1>4, <3>1, <3>2, <3>6, <3>7 DEF ParseInv
  <2>. QED
    BY <1>1, <2>3, <2>4, VfsAssumption
<1>. QED
  BY <1>7, <1>8

\* The archive does not change once it has been read, nor what has been opened before.
LEMMA OpenInvFrame ==
  ASSUME OpenInv, UNCHANGED <<members, file_headers, phase, live>>,
         \A i \in Slots : /\ vfs_opened_files'[i].name = vfs_opened_files[i].name
                          /\ vfs_opened_files'[i].file = vfs_opened_files[i].file
  PROVE  OpenInv'
<1>1. archive' = archive
  BY DEF archive
<1>2. \A name : Takes(name)' = Takes(name)
  BY <1>1 DEF Takes
<1>3. \A i \in Slots : Takes(vfs_opened_files[i].name)' = Takes(vfs_opened_files[i].name)
  BY <1>1 DEF Takes
<1>. QED
  BY <1>3 DEF OpenInv, Unused

\* vfs_open puts the first file that strncmp takes for the name into the slot.
LEMMA OpenKeepsNames ==
  ASSUME VfsInv, ParseInv, OpenInv, NEW name, NEW f, NEW pos, vfs_open(name, f, pos),
         phase = "run", UNCHANGED tarVars
  PROVE  OpenInv'
<1>. DEFINE r == [name |-> name, file |-> IF f = NoFile THEN Elsewhere ELSE f, pos |-> pos]
<1>0. UNCHANGED <<phase, members, file_headers>>
  BY DEF tarVars
<1>1. archive' = archive
  BY <1>0 DEF archive
<1>2. \A x : Takes(x)' = Takes(x)
  BY <1>1 DEF Takes
<1>3. ASSUME NEW i \in Slots, vfs_opened_files'[i] = vfs_opened_files[i],
             ~Unused(i)', Takes(vfs_opened_files[i].name)' # {}
      PROVE  vfs_opened_files'[i].file = Min(Takes(vfs_opened_files[i].name))'
  <2>1. Takes(vfs_opened_files[i].name)' = Takes(vfs_opened_files[i].name)
    BY <1>1, <1>3 DEF Takes
  <2>. QED
    BY <1>3, <2>1 DEF OpenInv, Unused
<1>4. ASSUME NEW i \in Slots, vfs_opened_files'[i] = r,
             ~Unused(i)', Takes(vfs_opened_files[i].name)' # {}
      PROVE  vfs_opened_files'[i].file = Min(Takes(vfs_opened_files[i].name))'
  <2>1. vfs_opened_files'[i].name = name /\ name # <<>>
    BY <1>4 DEF Unused
  <2>2. Takes(vfs_opened_files[i].name)' = Takes(name)
    BY <1>1, <2>1 DEF Takes
  <2>3. Takes(name) # {}
    BY <1>4, <2>2
  <2>4. f = Min(Takes(name))
    BY <2>1, <2>3 DEF vfs_open, get_file_header, Takes
  <2>5. Takes(name) \subseteq Nat
    <3>1. DOMAIN file_headers \subseteq Nat
      BY DEF ParseInv
    <3>. QED
      BY <3>1 DEF Takes, archive
  <2>6. f \in Nat
    BY <2>3, <2>4, <2>5, MinExists
  <2>7. vfs_opened_files'[i].file = f
    BY <1>4, <2>6 DEF NoFile
  <2>8. Min(Takes(vfs_opened_files[i].name))' = Min(Takes(name))
    BY <2>2 DEF Min
  <2>. QED
    BY <2>4, <2>7, <2>8
<1>. QED
  BY <1>0, <1>3, <1>4 DEF OpenInv, vfs_open

\* Both hold in every state.
LEMMA ArchiveInvariant == Spec => [](ParseInv /\ OpenInv)
<1>1. Init => ParseInv /\ OpenInv
  BY InitArchive
<1>2. VfsInv /\ (ParseInv /\ OpenInv) /\ [Next]_vars => (ParseInv /\ OpenInv)'
  <2>. SUFFICES ASSUME VfsInv, ParseInv, OpenInv, [Next]_vars PROVE ParseInv' /\ OpenInv'
    OBVIOUS
  <2>0. UNCHANGED tarVars => ParseInv'
    BY DEF tarVars, ParseInv, HeaderBlock
  <2>1. CASE parse_tar_file
    <3>1. phase = "tar_init" /\ phase' \in {"tar_init", "vfs_init", "overrun"} /\ UNCHANGED <<vfs_opened_files, live>>
      BY <2>1 DEF parse_tar_file, fileVars
    <3>2. OpenInv'
      BY <3>1 DEF OpenInv, Unused
    <3>. QED
      BY <2>1, <3>2, ParseKeeps
  <2>2. CASE vfs_init
    <3>1. /\ phase = "vfs_init" /\ phase' = "run"
          /\ UNCHANGED <<members, file_headers, vfs_opened_files, live>>
      BY <2>2 DEF vfs_init, fileVars
    <3>2. ParseInv'
      BY <3>1 DEF ParseInv
    <3>3. OpenInv'
      BY <3>1 DEF OpenInv, Unused
    <3>. QED
      BY <3>2, <3>3
  <2>3. ASSUME NEW p \in Procs, NEW name \in Paths, exec_elf(p, name)
        PROVE  ParseInv' /\ OpenInv'
    <3>1. UNCHANGED tarVars /\ phase = "run"
      BY <2>3 DEF exec_elf
    <3>2. CASE FirstUnused = NoFile
      <4>1. UNCHANGED <<members, file_headers, phase, vfs_opened_files>>
        BY <2>3, <3>1, <3>2 DEF exec_elf, tarVars
      <4>2. archive' = archive
        BY <4>1 DEF archive
      <4>3. \A i : Takes(vfs_opened_files[i].name)' = Takes(vfs_opened_files[i].name)
        BY <4>1, <4>2 DEF Takes
      <4>4. OpenInv'
        BY <3>1, <4>1, <4>3 DEF OpenInv, Unused
      <4>. QED
        BY <2>0, <3>1, <4>4
    <3>3. CASE FirstUnused # NoFile
      BY <2>0, <2>3, <3>1, <3>3, OpenKeepsNames DEF exec_elf
    <3>. QED
      BY <3>2, <3>3
  <2>4. ASSUME NEW p \in Procs, NEW name \in Paths, sys_open(p, name)
        PROVE  ParseInv' /\ OpenInv'
    <3>1. UNCHANGED tarVars /\ phase = "run"
      BY <2>4 DEF sys_open, OpenInv
    <3>. QED
      BY <2>0, <2>4, <3>1, OpenKeepsNames DEF sys_open
  <2>5. ASSUME NEW p \in Procs, NEW h \in Handles, NEW n \in Lengths, sys_read(p, h, n)
        PROVE  ParseInv' /\ OpenInv'
    <3>1. UNCHANGED tarVars /\ UNCHANGED <<members, file_headers, phase, live>>
      BY <2>5 DEF sys_read, tarVars
    <3>2. \A i \in Slots : /\ vfs_opened_files'[i].name = vfs_opened_files[i].name
                           /\ vfs_opened_files'[i].file = vfs_opened_files[i].file
      <4>1. /\ DOMAIN vfs_opened_files = Slots
            /\ \A i \in Slots : vfs_opened_files[i] = [name |-> vfs_opened_files[i].name,
                                                      file |-> vfs_opened_files[i].file,
                                                      pos  |-> vfs_opened_files[i].pos]
        BY DEF VfsInv, Types
      <4>2. \/ vfs_opened_files' = vfs_opened_files
            \/ \E j \in Slots : vfs_opened_files' = [vfs_opened_files EXCEPT ![j].pos = NextPos(@, n)]
        BY <2>5 DEF sys_read
      <4>3. ASSUME NEW j \in Slots, NEW i \in Slots,
                   vfs_opened_files' = [vfs_opened_files EXCEPT ![j].pos = NextPos(@, n)]
            PROVE  /\ vfs_opened_files'[i].name = vfs_opened_files[i].name
                   /\ vfs_opened_files'[i].file = vfs_opened_files[i].file
        BY <4>1, <4>3
      <4>. QED
        BY <4>2, <4>3
    <3>. QED
      BY <2>0, <3>1, <3>2, OpenInvFrame
  <2>6. ASSUME NEW p \in Procs, exit(p)
        PROVE  ParseInv' /\ OpenInv'
    <3>1. UNCHANGED tarVars /\ UNCHANGED <<members, file_headers, phase, vfs_opened_files>>
      BY <2>6 DEF exit, tarVars
    <3>2. phase = "run"
      BY <2>6 DEF exit, OpenInv
    <3>3. archive' = archive
      BY <3>1 DEF archive
    <3>4. \A i : Takes(vfs_opened_files[i].name)' = Takes(vfs_opened_files[i].name)
      BY <3>1, <3>3 DEF Takes
    <3>. QED
      BY <2>0, <3>1, <3>2, <3>4 DEF OpenInv, Unused
  <2>7. CASE Halted \/ UNCHANGED vars
    <3>1. /\ UNCHANGED tarVars /\ UNCHANGED <<members, file_headers, phase, live>>
          /\ vfs_opened_files' = vfs_opened_files
      BY <2>7 DEF Halted, vars, tarVars, fileVars
    <3>. QED
      BY <2>0, <3>1, OpenInvFrame
  <2>. QED
    BY <2>1, <2>2, <2>3, <2>4, <2>5, <2>6, <2>7 DEF Next
<1>. QED
  BY <1>1, <1>2, VfsInvariant, PTL DEF Spec

-----------------------------------------------------------------------------
(* Theorems *)

\* Until "/" is opened no two handles share an opened file, although nothing is ever
\* closed and processes come and go.
THEOREM HandlesStayExclusive == Spec => []HandlesAreExclusive
<1>1. VfsInv => HandlesAreExclusive
  BY DEF VfsInv, Types, SlotsInv, HandlesAreExclusive, Used
<1>. QED
  BY <1>1, VfsInvariant, PTL

\* Until "/" is opened a handle reads on where it stopped.
THEOREM ReadsAlwaysContinue == Spec => []ReadsContinue
<1>1. VfsInv => ReadsContinue
  BY DEF VfsInv, Types, SlotsInv, ReadsContinue, Used
<1>. QED
  BY <1>1, VfsInvariant, PTL

\* A handle without a file means that the table of opened files is full.
THEOREM OpensFailOnlyWhenFull == Spec => []OpenFailsOnlyWhenFull
<1>1. VfsInv => OpenFailsOnlyWhenFull
  BY DEF VfsInv
<1>. QED
  BY <1>1, VfsInvariant, PTL

\* parse_tar_file finds every header of every archive: get_file_size reads the digits
\* that tar writes for a size, and the blocks it goes on by are those the file fills.
THEOREM HeadersAlwaysFound == Spec => []HeadersAreFound
<1>1. ParseInv => HeadersAreFound
  <2>. SUFFICES ASSUME ParseInv PROVE HeadersAreFound
    OBVIOUS
  <2>1. DOMAIN members = 1 .. Len(members)
    BY MembersType DEF ParseInv
  <2>. QED
    BY <2>1 DEF ParseInv, HeadersAreFound
<1>. QED
  BY <1>1, ArchiveInvariant, PTL

\* In an archive whose names strncmp tells apart, the name of a file opens that file.
THEOREM NamesOpenTheirFiles == Spec => []OpensTheNamedFile
<1>1. ParseInv /\ OpenInv => OpensTheNamedFile
  <2>. SUFFICES ASSUME ParseInv, OpenInv,
                       \A i, j \in DOMAIN archive : i # j =>
                         \E k \in (DOMAIN archive[i] \cap DOMAIN archive[j]) \ {1} :
                           archive[i][k] # archive[j][k],
                       NEW s \in Slots, NEW j \in DOMAIN archive,
                       vfs_opened_files[s].name = archive[j]
                PROVE  vfs_opened_files[s].file = j
    BY DEF OpensTheNamedFile
  <2>1. /\ DOMAIN archive = 1 .. Len(file_headers) /\ Len(file_headers) \in Nat
        /\ \A i \in DOMAIN archive : archive[i] \in Seq(STRING) /\ archive[i] # <<>>
    <3>1. /\ Len(file_headers) \in 0 .. Len(members) /\ Len(members) \in Nat
          /\ file_headers = [i \in 1 .. Len(file_headers) |-> i]
      BY MembersType DEF ParseInv
    <3>2. /\ DOMAIN file_headers = 1 .. Len(file_headers)
          /\ \A i \in DOMAIN file_headers : file_headers[i] = i /\ i \in 1 .. Len(members)
      BY <3>1
    <3>3. \A i \in 1 .. Len(members) : members[i].name \in Seq(STRING) /\ members[i].name # <<>>
      BY MembersType DEF ParseInv
    <3>. QED
      BY <3>1, <3>2, <3>3 DEF archive
  <2>. DEFINE T == Takes(archive[j])
  <2>2. j \in T
    BY DEF Takes, strncmp
  <2>3. T \subseteq Nat /\ Min(T) \in T
    <3>1. T \subseteq Nat
      BY <2>1 DEF Takes
    <3>. HIDE DEF T
    <3>. QED
      BY <2>2, <3>1, MinExists
  <2>4. vfs_opened_files[s].file = Min(T)
    BY <2>1, <2>2 DEF OpenInv, Unused
  <2>5. PICK m \in DOMAIN archive : m = Min(T) /\ strncmp(archive[m], archive[j])
    BY <2>3 DEF Takes
  <2>6. ASSUME m # j PROVE FALSE
    <3>1. PICK k \in (DOMAIN archive[m] \cap DOMAIN archive[j]) \ {1} : archive[m][k] # archive[j][k]
      BY <2>6
    <3>2. PICK x \in Nat, y \in Nat : x = Len(archive[m]) /\ y = Len(archive[j])
      BY <2>1
    <3>3. k \in 2 .. x /\ k \in 2 .. y
      BY <2>1, <3>1, <3>2
    <3>4. {x, y} \subseteq Nat /\ {x, y} # {}
      OBVIOUS
    <3>5. Min({x, y}) \in {x, y}
      BY <3>4, MinExists
    <3>6. k \in 2 .. Min({x, y})
      BY <3>3, <3>5
    <3>. QED
      BY <2>5, <3>1, <3>2, <3>6 DEF strncmp
  <2>. QED
    BY <2>4, <2>5, <2>6
<1>. QED
  BY <1>1, ArchiveInvariant, PTL

=============================================================================
