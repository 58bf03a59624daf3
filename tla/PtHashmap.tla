----------------------------- MODULE PtHashmap -----------------------------
(***************************************************************************)
(* The map from a page table's physical address to its virtual one         *)
(* (kernel/mm/vmm_hashmap.c), through which every page table is reached:   *)
(* buckets of linked page_table_t nodes, and the list tables of the nodes  *)
(* that were removed.                                                      *)
(*                                                                         *)
(* pt_paddr is written once, when a node is made for a fresh frame, so a   *)
(* node stands for its frame too.  Nodes are numbered in the order of      *)
(* their creation; the bucket of a fresh frame can be any.                 *)
(***************************************************************************)
EXTENDS Integers

CONSTANTS
  HASH_MAP_BUCKETS,
  InitialTables,    \* how many tables vmm_init puts into the map: 8
  InitialLength,    \* pages of kernel_page_tbls_obj at the start: 6
  AreaPages,        \* pages of that area the initial page table covers: 256
  MaxTables         \* nodes the one-page heap has room for: 4096 div (40 + 5) = 91 at most

ASSUME PtHashmapAssumption ==
  /\ HASH_MAP_BUCKETS \in Nat \ {0}
  /\ InitialTables \in Nat /\ MaxTables \in Nat /\ InitialTables <= MaxTables
  /\ InitialLength \in Nat /\ AreaPages \in Nat
  /\ InitialLength + (MaxTables - InitialTables) < AreaPages

NULL    == 0
Nodes   == 1 .. MaxTables
Buckets == 0 .. HASH_MAP_BUCKETS - 1

VARIABLES
  vmm_hashmap,   \* bucket -> first node
  next,          \* page_table_t.next
  hash_function, \* node -> bucket of its pt_paddr
  pt_vaddr,      \* page_table_t.pt_vaddr, as a page of the table area; 0 elsewhere
  tables,        \* head of the list of removed nodes
  made,          \* how many nodes were made
  length,        \* kernel_page_tbls_obj.length, in pages
  held,          \* history: the tables handed out or initial, and not removed
  removed,       \* history: how many removals took a node out
  stop           \* "no"; "panic": kmalloc with a full heap; "frame": no frame was left;
                 \* "null": the map refused the node; "loop": a walk does not end.
                 \* After "frame" and "null" both callers use the table at NULL, and fault.

vars == <<vmm_hashmap, next, hash_function, pt_vaddr, tables, made, length, held, removed, stop>>

-----------------------------------------------------------------------------
(* Walks *)

\* The node a walk from n is at after k steps.
At(n, k) ==
  LET walk[i \in Nat] == IF i = 0 THEN n
                         ELSE IF walk[i - 1] = NULL THEN NULL ELSE next[walk[i - 1]]
  IN walk[k]

\* What a walk from n visits, and whether it comes to NULL.
Visits(n) == {At(n, k) : k \in 0 .. MaxTables} \ {NULL}
Ends(n)   == At(n, MaxTables) = NULL

\* get_ptbl_vaddr finds n's node.
Found(n) == n \in Visits(vmm_hashmap[hash_function[n]])

-----------------------------------------------------------------------------

\* The tables that kernel_init.S made, put in one after the other.
Init ==
  /\ hash_function \in [Nodes -> Buckets]
  /\ LET In(b) == {n \in 1 .. InitialTables : hash_function[n] = b}
         Successor(n) == {m \in In(hash_function[n]) : m > n}
         Least(S) == IF S = {} THEN NULL ELSE CHOOSE m \in S : \A k \in S : m <= k
     IN /\ vmm_hashmap = [b \in Buckets |-> Least(In(b))]
        /\ next = [n \in Nodes |-> IF n <= InitialTables THEN Least(Successor(n)) ELSE NULL]
  /\ pt_vaddr = [n \in Nodes |-> 0]
  /\ tables = NULL /\ made = InitialTables /\ length = InitialLength
  /\ held = 1 .. InitialTables /\ removed = 0
  /\ stop = "no"

\* pg_tbl_insert, and the return of alloc_pg_table with it.  The first node of
\* the bucket is not compared with n; a node that is met later fails the call.
pg_tbl_insert(n) ==
  LET b == hash_function[n]
      first == vmm_hashmap[b]
      met == first # NULL /\ n \in Visits(next[first])
      endless == first # NULL /\ ~met /\ ~Ends(first)
      last == CHOOSE m \in Visits(first) : next[m] = NULL
  IN
  /\ vmm_hashmap' = IF first = NULL THEN [vmm_hashmap EXCEPT ![b] = n] ELSE vmm_hashmap
  /\ next' = IF first = NULL \/ met \/ endless THEN next ELSE [next EXCEPT ![last] = n]
  /\ stop' = IF met THEN "null" ELSE IF endless THEN "loop" ELSE "no"
  /\ held' = IF met \/ endless THEN held ELSE held \cup {n}

\* Mutant of get_freed_pg_tbl: the first removed node, which stays in the list.
FirstFreed == tables

\* The node behind the first one; nothing is taken out of the list.
get_freed_pg_tbl == IF tables = NULL THEN NULL ELSE next[tables]

\* A fresh node.  The heap is everybody's and may be full at any call, and is when
\* it holds MaxTables nodes; without a frame the fresh node is lost.  mmap of the
\* new page finds the initial page table there (TablesAreApart), so it succeeds.
alloc_new_table ==
  /\ stop = "no" /\ get_freed_pg_tbl = NULL
  /\ \/ /\ stop' = "panic"
        /\ UNCHANGED <<vmm_hashmap, next, pt_vaddr, made, length, held>>
     \/ /\ made < MaxTables /\ stop' = "frame"
        /\ UNCHANGED <<vmm_hashmap, next, pt_vaddr, made, length, held>>
     \/ /\ made < MaxTables /\ made' = made + 1 /\ length' = length + 1
        /\ pt_vaddr' = [pt_vaddr EXCEPT ![made + 1] = length + 1]
        /\ pg_tbl_insert(made + 1)
  /\ UNCHANGED <<hash_function, tables, removed>>

\* A removed node again.
alloc_freed_table ==
  /\ stop = "no" /\ get_freed_pg_tbl # NULL
  /\ pg_tbl_insert(get_freed_pg_tbl)
  /\ UNCHANGED <<hash_function, pt_vaddr, tables, made, length, removed>>

alloc_pg_table == alloc_new_table \/ alloc_freed_table

\* Mutant of vmm_hashmap_remove: the list is cut behind the removed node.
RemoveTail(n) ==
  LET first == vmm_hashmap[hash_function[n]]
      before == {k \in 0 .. MaxTables : At(first, k + 1) = n}
      p == At(first, CHOOSE k \in before : \A j \in before : k <= j)
  IN
  /\ stop = "no" /\ n \in held /\ n > InitialTables
  /\ held' = held \ {n}
  /\ IF before = {}
     THEN stop' = (IF Ends(first) THEN "no" ELSE "loop") /\ UNCHANGED <<next, tables, removed>>
     ELSE /\ next' = [next EXCEPT ![p] = NULL, ![n] = tables]
          /\ tables' = n
          /\ removed' = removed + 1
          /\ UNCHANGED stop
  /\ UNCHANGED <<vmm_hashmap, hash_function, pt_vaddr, made, length>>

\* reap_process gives back the top table of a process; the initial tables are the
\* kernel's own.  The walk compares the node behind the one it is at, so a node
\* that is first in its bucket stays.
vmm_hashmap_remove(n) ==
  LET first == vmm_hashmap[hash_function[n]]
      before == {k \in 0 .. MaxTables : At(first, k + 1) = n}
      p == At(first, CHOOSE k \in before : \A j \in before : k <= j)
  IN
  /\ stop = "no" /\ n \in held /\ n > InitialTables
  /\ held' = held \ {n}
  /\ IF before = {}
     THEN stop' = (IF Ends(first) THEN "no" ELSE "loop") /\ UNCHANGED <<next, tables, removed>>
     ELSE /\ next' = [next EXCEPT ![p] = next[n], ![n] = tables]
          /\ tables' = n
          /\ removed' = removed + 1
          /\ UNCHANGED stop
  /\ UNCHANGED <<vmm_hashmap, hash_function, pt_vaddr, made, length>>

\* Nothing runs any more.
Done == stop # "no" /\ UNCHANGED vars

Next ==
  \/ alloc_pg_table
  \/ \E n \in Nodes : vmm_hashmap_remove(n)
  \/ Done

Spec == Init /\ [][Next]_vars

-----------------------------------------------------------------------------
(* Properties *)

\* Every table in use is found through its physical address, whatever was removed
\* and in whichever buckets tables collide, until two nodes were removed: mmap
\* never meets an entry it cannot follow.
TablesInUseAreFound == removed < 2 => \A n \in held : Found(n)

\* Until two nodes were removed an allocation fails only for want of heap or of a
\* frame, never because of the map; the heap is full before the area of the page
\* tables leaves the initial page table, where mmap of a new table would need a
\* table itself, without end; and tables in use lie on different pages of the area.
TablesAreApart ==
  removed < 2 =>
    /\ stop \notin {"null", "loop"} /\ length < AreaPages
    /\ \A n, m \in held : n # m /\ pt_vaddr[n] # 0 => pt_vaddr[n] # pt_vaddr[m]

\* Every walk ends until a third node was removed, also when removed nodes are
\* handed out again with the links they had in the list of removed nodes.
WalksEnd == removed < 3 => Ends(tables) /\ \A b \in Buckets : Ends(vmm_hashmap[b])

\* vmm_hashmap.c:59: "We just pop off the first node": a table that is handed out
\* is not in the list of removed tables any more.
HandedOutTablesArePopped == \A n \in held : n \notin Visits(tables)

=============================================================================
