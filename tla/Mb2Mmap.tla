------------------------------ MODULE Mb2Mmap ------------------------------
(***************************************************************************)
(* The memory map of the boot loader: mb2_mmap_init, which sorts its       *)
(* entries into two arrays of MAX_MMAP_ENTRIES (mb2_mmap.c), and the loop  *)
(* of pmm_init over the reserved ones (pmm.c).  The arrays start empty,    *)
(* all zeros.  Addresses are frames.                                       *)
(***************************************************************************)
EXTENDS Integers, Sequences

CONSTANTS
  Maps,               \* the memory maps a loader can pass: sequences of [addr, len, available]
  MAX_MMAP_ENTRIES,   \* 20
  FirstPageEnd        \* the frames pmm_init's comparison allows for: PAGE_SIZE * 8

ASSUME MmapAssumption ==
  /\ MAX_MMAP_ENTRIES \in Nat \ {0} /\ FirstPageEnd \in Nat \ {0}
  /\ Maps \subseteq Seq([addr : Nat, len : Nat, available : BOOLEAN])

VARIABLES
  mmap_pc,            \* "tag", "entries", "reserved", "done"; "panic", "overrun"
  map,                \* the entries of the tag mb2_mmap_init has not sorted yet
  available_entries, reserved_entries,
  e                   \* pmm_init's pointer, from 0

mmapVars == <<mmap_pc, map, available_entries, reserved_entries, e>>

MmapInit ==
  /\ mmap_pc = "tag" /\ map \in Maps
  /\ available_entries = <<>> /\ reserved_entries = <<>>
  /\ e = 0

\* mb2_mmap_init looks for the tag, and panics without one.
FindTag ==
  /\ mmap_pc = "tag" /\ mmap_pc' \in {"entries", "panic"}
  /\ UNCHANGED <<map, available_entries, reserved_entries, e>>

\* An entry goes to the end of its list.  The length is not looked at (the ASSERT is
\* a comment): one too many goes over what lies behind, and this model ends.
SortEntry ==
  /\ mmap_pc = "entries" /\ map # <<>>
  /\ map' = Tail(map)
  /\ IF Head(map).available
     THEN available_entries' = Append(available_entries, Head(map)) /\ UNCHANGED reserved_entries
     ELSE reserved_entries' = Append(reserved_entries, Head(map)) /\ UNCHANGED available_entries
  /\ mmap_pc' = IF \/ Len(available_entries') > MAX_MMAP_ENTRIES
                   \/ Len(reserved_entries') > MAX_MMAP_ENTRIES
                THEN "overrun" ELSE "entries"
  /\ UNCHANGED e

\* pmm_init is called.
EntriesSorted ==
  /\ mmap_pc = "entries" /\ map = <<>>
  /\ mmap_pc' = "reserved"
  /\ UNCHANGED <<map, available_entries, reserved_entries, e>>

Zeros == [addr |-> 0, len |-> 0, available |-> FALSE]

\* What pmm_init can read at its pointer; behind the array, anything.
EntryAt(i) ==
  IF i < Len(reserved_entries) THEN {reserved_entries[i + 1]}
  ELSE IF i < MAX_MMAP_ENTRIES THEN {Zeros}
  ELSE {Zeros, [Zeros EXCEPT !.len = FirstPageEnd]}

\* Mutant of Ahead: the comparison of the addresses is the wrong way round.
AheadOfBig(x) == e # Len(reserved_entries) \/ x.addr + x.len < FirstPageEnd

\* The condition of pmm_init's loop, in which && should be: the end of the list is
\* passed if the entry there reaches far enough.
Ahead(x) == e # Len(reserved_entries) \/ x.addr + x.len >= FirstPageEnd

\* An iteration; its inner loop compares p > addr + len, and marks nothing.  A pointer
\* that has passed the end of the list goes on until it faults.
ReservedStep ==
  /\ mmap_pc = "reserved"
  /\ \E x \in EntryAt(e) :
       IF Ahead(x) THEN /\ e' = e + 1
                        /\ mmap_pc' = IF e' > Len(reserved_entries) THEN "overrun" ELSE "reserved"
       ELSE mmap_pc' = "done" /\ UNCHANGED e
  /\ UNCHANGED <<map, available_entries, reserved_entries>>

MmapStep == FindTag \/ SortEntry \/ EntriesSorted \/ ReservedStep

-----------------------------------------------------------------------------
(* Properties *)

\* With a tag, and fewer than MAX_MMAP_ENTRIES entries of each kind, mb2_mmap_init and
\* the loop of pmm_init end, the loop at the end of its list: it is the entry behind
\* the last one, never written, that ends it.
ReservedLoopEnds ==
  (mmap_pc = "entries") ~>
    \/ mmap_pc = "done" /\ map = <<>> /\ e = Len(reserved_entries)
    \/ Len(available_entries) > MAX_MMAP_ENTRIES
    \/ Len(reserved_entries) >= MAX_MMAP_ENTRIES

=============================================================================
