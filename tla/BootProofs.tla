----------------------------- MODULE BootProofs -----------------------------
(***************************************************************************)
(* Proofs about Boot and Console, for a screen of any size, formats and    *)
(* arguments of any length, and any number of system calls.                *)
(*                                                                         *)
(* The cursor is described by the statement kernel_start is at.  A handler *)
(* that prints in between leaves the cursor on the screen, and a cursor on *)
(* the screen is right at every statement, so that only kernel_start's own *)
(* steps need an argument of their own.                                    *)
(***************************************************************************)
EXTENDS Boot, TLAPS

-----------------------------------------------------------------------------
(* The console *)

\* Where the cursor is before each statement of printc.  The line for an unknown
\* interrupt can move it to the right of where the newline has put it.
CursorAt(pc, c) ==
  /\ pc \in {"loop", "x", "newline"} => OnScreen(c)
  /\ pc = "newline" => c.x <= UnknownChars
  /\ pc = "y"   => c.x <= VGA_WIDTH /\ c.y < VGA_HEIGHT
  /\ pc = "mod" => \/ c.x < VGA_WIDTH /\ c.y < VGA_HEIGHT
                   \/ c.x = VGA_WIDTH /\ c.y <= VGA_HEIGHT
  /\ pc \in {"check", "scroll"} =>
       \/ c.x < VGA_WIDTH /\ c.y < VGA_HEIGHT
       \/ c.x <= UnknownChars /\ c.y = VGA_HEIGHT

Statements == {"loop", "x", "y", "mod", "newline", "check", "scroll"}

\* Once kernel_start is abandoned, or has panicked, only whole printcs move the cursor.
CursorInv ==
  /\ cursor \in [x : Nat, y : Nat]
  /\ print_pc \in Statements
  /\ CursorAt(print_pc, cursor) \/ ((~booting \/ fault) /\ OnScreen(cursor))
  /\ settled => OnScreen(cursor)

\* Division and remainder by the width of a line.
LEMMA Divide ==
  ASSUME NEW a \in Nat, NEW n \in Nat \ {0}
  PROVE  /\ a % n \in 0 .. n - 1 /\ a \div n \in Nat
         /\ a < n => a % n = a /\ a \div n = 0
         /\ a = n => a % n = 0 /\ a \div n = 1
  BY SMT

\* A cursor is beyond the page only between the statements that wrap y and x.
LEMMA OnlyModBeyond ==
  ASSUME NEW c \in [x : Nat, y : Nat], Beyond(c),
         NEW pc \in Statements, CursorAt(pc, c) \/ OnScreen(c)
  PROVE  pc = "mod"
<1>1. /\ VGA_WIDTH \in Nat /\ VGA_HEIGHT \in Nat /\ PageCells \in Nat /\ UnknownChars \in Nat
      /\ VGA_WIDTH * VGA_HEIGHT \in Nat /\ UnknownChars < VGA_WIDTH
      /\ VGA_WIDTH * VGA_HEIGHT + UnknownChars < PageCells /\ c.x \in Nat /\ c.y \in Nat
  BY ConsoleAssumption, BootAssumption
<1>2. c.y * VGA_WIDTH + c.x >= PageCells
  BY DEF Beyond
<1>3. SUFFICES ASSUME pc # "mod" PROVE FALSE
  OBVIOUS
<1>4. \/ c.x <= VGA_WIDTH /\ c.y < VGA_HEIGHT
      \/ c.x <= UnknownChars /\ c.y = VGA_HEIGHT
  BY <1>1, <1>3 DEF CursorAt, OnScreen, Statements
<1>5. CASE c.x <= UnknownChars /\ c.y = VGA_HEIGHT
  <2>1. c.y * VGA_WIDTH = VGA_WIDTH * VGA_HEIGHT
    BY <1>1, <1>5
  <2>. QED
    BY <1>1, <1>2, <1>5, <2>1
<1>6. CASE c.x <= VGA_WIDTH /\ c.y < VGA_HEIGHT
  <2>1. c.y * VGA_WIDTH + VGA_WIDTH <= VGA_WIDTH * VGA_HEIGHT
    BY <1>1, <1>6
  <2>2. c.y * VGA_WIDTH \in Nat
    BY <1>1
  <2>. QED
    BY <1>1, <1>2, <1>6, <2>1, <2>2
<1>. QED
  BY <1>4, <1>5, <1>6

\* A whole printc leaves the cursor on the screen, wherever it was.
LEMMA PrintcLands ==
  ASSUME NEW c \in [x : Nat, y : Nat], NEW char
  PROVE  /\ Scrolled(Moved(c, char)) \in [x : Nat, y : Nat]
         /\ OnScreen(Scrolled(Moved(c, char)))
<1>1. /\ VGA_WIDTH \in Nat \ {0} /\ VGA_HEIGHT \in Nat \ {0}
      /\ c.x \in Nat /\ c.y \in Nat /\ c.x + 1 \in Nat
  BY ConsoleAssumption
<1>2. /\ (c.x + 1) % VGA_WIDTH \in 0 .. VGA_WIDTH - 1
      /\ (c.x + 1) \div VGA_WIDTH \in Nat
  BY <1>1, Divide, Zenon
<1>3. /\ Moved(c, char) \in [x : Nat, y : Nat]
      /\ Moved(c, char).x \in 0 .. VGA_WIDTH - 1
  BY <1>1, <1>2 DEF Moved
<1>. QED
  BY <1>1, <1>3 DEF Scrolled, Below, OnScreen

\* A cursor on the screen is right at every statement, behind a newline if it is far
\* enough to the left.
LEMMA OnScreenFits ==
  ASSUME NEW c \in [x : Nat, y : Nat], OnScreen(c), NEW pc \in Statements,
         pc # "newline" \/ c.x <= UnknownChars
  PROVE  CursorAt(pc, c)
<1>1. /\ VGA_WIDTH \in Nat /\ VGA_HEIGHT \in Nat /\ c.x \in Nat /\ c.y \in Nat
      /\ c.x < VGA_WIDTH /\ c.y < VGA_HEIGHT
  BY ConsoleAssumption DEF OnScreen
<1>. QED
  BY <1>1 DEF CursorAt

\* A handler's printc keeps the cursor right if kernel_start does not go on.
LEMMA PrintcKeeps ==
  ASSUME CursorInv, NEW char, printc(char), ~booting' \/ fault'
  PROVE  /\ CursorInv'
         /\ outside' => outside \/ print_pc = "mod"
<1>1. cursor' \in [x : Nat, y : Nat] /\ OnScreen(cursor') /\ print_pc' = print_pc
  BY PrintcLands DEF CursorInv, printc
<1>2. CursorInv'
  BY <1>1 DEF CursorInv
<1>3. outside' => outside \/ print_pc = "mod"
  BY OnlyModBeyond, Zenon DEF CursorInv, printc
<1>. QED
  BY <1>2, <1>3

\* The line for an unknown interrupt keeps it right.
LEMMA PrintLineKeeps ==
  ASSUME CursorInv, printLine(UnknownChars)
  PROVE  CursorInv'
<1>. DEFINE c == Scrolled(Moved(cursor, "newline"))
<1>1. c \in [x : Nat, y : Nat] /\ OnScreen(c)
  BY PrintcLands DEF CursorInv
<1>2. cursor' = [c EXCEPT !.x = UnknownChars] /\ print_pc' = print_pc
  BY DEF printLine
<1>. HIDE DEF c
<1>3. VGA_WIDTH \in Nat /\ VGA_HEIGHT \in Nat /\ UnknownChars \in 0 .. VGA_WIDTH - 1
  BY ConsoleAssumption, BootAssumption
<1>4. cursor'.x = UnknownChars /\ cursor'.y = c.y /\ cursor' \in [x : Nat, y : Nat]
  BY <1>1, <1>2, <1>3
<1>5. OnScreen(cursor') /\ cursor'.x <= UnknownChars
  BY <1>1, <1>3, <1>4 DEF OnScreen
<1>. QED
  BY <1>2, <1>4, <1>5, OnScreenFits DEF CursorInv

\* A statement that puts the cursor where the next one expects it.
LEMMA StatementKeeps ==
  ASSUME NEW from, NEW to \in Statements, NEW c \in [x : Nat, y : Nat],
         Statement(from, to, c), CursorAt(to, c)
  PROVE  CursorInv'
<1>1. cursor' = c /\ print_pc' = to /\ (settled' <=> to = "loop")
  BY Zenon DEF Statement
<1>2. to = "loop" => OnScreen(c)
  BY DEF CursorAt
<1>. QED
  BY <1>1, <1>2 DEF CursorInv

\* Every step of kernel_start's printf keeps the cursor right and writes inside the
\* page.
LEMMA PrintfKeeps ==
  ASSUME CursorInv, printfStep, booting, ~fault
  PROVE  CursorInv' /\ (outside' => outside)
<1>0. /\ VGA_WIDTH \in Nat \ {0} /\ VGA_HEIGHT \in Nat \ {0}
      /\ cursor \in [x : Nat, y : Nat] /\ cursor.x \in Nat /\ cursor.y \in Nat
      /\ UnknownChars \in Nat /\ UnknownChars < VGA_WIDTH
  BY ConsoleAssumption, BootAssumption DEF CursorInv
<1>1. ASSUME NEW char, Begin(char)
      PROVE  CursorInv' /\ (outside' => outside)
  <2>1. print_pc = "loop" /\ OnScreen(cursor)
    BY <1>1 DEF Begin, Statement, CursorInv, CursorAt
  <2>2. ~Beyond(cursor)
    BY <1>0, <2>1, OnlyModBeyond DEF Statements
  <2>3. CASE char = "newline" /\ Statement("loop", "newline", [cursor EXCEPT !.x = 0])
             /\ UNCHANGED outside
    <3>1. /\ [cursor EXCEPT !.x = 0] \in [x : Nat, y : Nat] /\ OnScreen([cursor EXCEPT !.x = 0])
          /\ [cursor EXCEPT !.x = 0].x <= UnknownChars
      BY <1>0, <2>1 DEF OnScreen
    <3>. QED
      BY <2>3, <3>1, OnScreenFits, StatementKeeps DEF Statements
  <2>4. CASE char = "c" /\ Statement("loop", "x", cursor)
             /\ outside' = (outside \/ Beyond(cursor))
    <3>1. CursorInv'
      BY <1>0, <2>1, <2>4, OnScreenFits, StatementKeeps DEF Statements
    <3>. QED
      BY <2>2, <2>4, <3>1
  <2>. QED
    BY <1>1, <2>3, <2>4 DEF Begin
<1>2. CASE printcStep
  <2>0. UNCHANGED outside
    BY <1>2 DEF printcStep
  <2>1. CASE Statement("newline", "check", [cursor EXCEPT !.y = @ + 1])
    <3>1. CursorAt("newline", cursor)
      BY <2>1 DEF Statement, CursorInv
    <3>2. [cursor EXCEPT !.y = @ + 1] \in [x : Nat, y : Nat] /\ CursorAt("check", [cursor EXCEPT !.y = @ + 1])
      BY <1>0, <2>1, <3>1 DEF CursorAt, OnScreen
    <3>. QED
      BY <2>0, <2>1, <3>2, StatementKeeps DEF Statements
  <2>2. CASE Statement("x", "y", [cursor EXCEPT !.x = @ + 1])
    <3>1. CursorAt("x", cursor)
      BY <2>2 DEF Statement, CursorInv
    <3>2. [cursor EXCEPT !.x = @ + 1] \in [x : Nat, y : Nat] /\ CursorAt("y", [cursor EXCEPT !.x = @ + 1])
      BY <1>0, <2>2, <3>1 DEF CursorAt, OnScreen
    <3>. QED
      BY <2>0, <2>2, <3>2, StatementKeeps DEF Statements
  <2>3. CASE Statement("y", "mod", [cursor EXCEPT !.y = @ + cursor.x \div VGA_WIDTH])
    <3>1. CursorAt("y", cursor)
      BY <2>3 DEF Statement, CursorInv
    <3>2. /\ cursor.x \div VGA_WIDTH \in Nat
          /\ cursor.x < VGA_WIDTH => cursor.x \div VGA_WIDTH = 0
          /\ cursor.x = VGA_WIDTH => cursor.x \div VGA_WIDTH = 1
      BY <1>0, Divide
    <3>3. [cursor EXCEPT !.y = @ + cursor.x \div VGA_WIDTH] \in [x : Nat, y : Nat] /\ CursorAt("mod", [cursor EXCEPT !.y = @ + cursor.x \div VGA_WIDTH])
      BY <1>0, <3>1, <3>2 DEF CursorAt
    <3>. QED
      BY <2>0, <2>3, <3>3, StatementKeeps DEF Statements
  <2>4. CASE Statement("mod", "check", [cursor EXCEPT !.x = @ % VGA_WIDTH])
    <3>1. CursorAt("mod", cursor)
      BY <2>4 DEF Statement, CursorInv
    <3>2. /\ cursor.x % VGA_WIDTH \in Nat
          /\ cursor.x < VGA_WIDTH => cursor.x % VGA_WIDTH = cursor.x
          /\ cursor.x = VGA_WIDTH => cursor.x % VGA_WIDTH = 0
      BY <1>0, Divide
    <3>3. [cursor EXCEPT !.x = @ % VGA_WIDTH] \in [x : Nat, y : Nat] /\ CursorAt("check", [cursor EXCEPT !.x = @ % VGA_WIDTH])
      BY <1>0, <3>1, <3>2 DEF CursorAt
    <3>. QED
      BY <2>0, <2>4, <3>3, StatementKeeps DEF Statements
  <2>5. CASE ~Below(cursor) /\ Statement("check", "loop", cursor)
    <3>1. CursorAt("check", cursor)
      BY <2>5 DEF Statement, CursorInv
    <3>2. cursor \in [x : Nat, y : Nat] /\ CursorAt("loop", cursor)
      BY <1>0, <2>5, <3>1 DEF Below, CursorAt, OnScreen
    <3>. QED
      BY <2>0, <2>5, <3>2, StatementKeeps DEF Statements
  <2>6. CASE Below(cursor) /\ Statement("check", "scroll", [cursor EXCEPT !.x = 0])
    <3>1. CursorAt("check", cursor)
      BY <2>6 DEF Statement, CursorInv
    <3>2. [cursor EXCEPT !.x = 0] \in [x : Nat, y : Nat] /\ CursorAt("scroll", [cursor EXCEPT !.x = 0])
      BY <1>0, <2>6, <3>1 DEF Below, CursorAt, OnScreen
    <3>. QED
      BY <2>0, <2>6, <3>2, StatementKeeps DEF Statements
  <2>7. CASE Statement("scroll", "loop", [cursor EXCEPT !.y = VGA_HEIGHT - 1])
    <3>1. CursorAt("scroll", cursor)
      BY <2>7 DEF Statement, CursorInv
    <3>2. [cursor EXCEPT !.y = VGA_HEIGHT - 1] \in [x : Nat, y : Nat] /\ CursorAt("loop", [cursor EXCEPT !.y = VGA_HEIGHT - 1])
      BY <1>0, <2>7, <3>1 DEF CursorAt, OnScreen
    <3>. QED
      BY <2>0, <2>7, <3>2, StatementKeeps DEF Statements
  <2>. QED
    BY <1>2, <2>1, <2>2, <2>3, <2>4, <2>5, <2>6, <2>7 DEF printcStep
<1>3. CASE UNCHANGED <<cursor, print_pc, settled, outside>>
  <2>1. CursorAt(print_pc, cursor)
    BY DEF CursorInv
  <2>. QED
    BY <1>3, <2>1 DEF CursorInv
<1>. QED
  BY <1>1, <1>2, <1>3 DEF printfStep

-----------------------------------------------------------------------------
(* The process *)

\* Where kernel_start is before the process has a block, a thread, and its place in the
\* queue, and where it is afterwards.
BeforeProc == {"apic_init", "tar_init", "parse_tar", "parse_end", "sched_init", "exec_elf",
               "dump_ehdr", "dump_end"}
Linking    == {"link", "queue"}
Queued     == {"switch_back", "printf", "printf_end", "hang"}

\* p is the only process and t its only thread.
Started(p, t) ==
  /\ p \in Procs /\ t \in Threads
  /\ liveP = {p} /\ liveT = {t}
  /\ p_threads[p] = t /\ p_next[p] = NULL
  /\ t_parent[t] = p /\ t_next[t] = NULL /\ t_stack[t] = "user"

Types ==
  /\ p_next \in [AllProcs -> Procs \cup {NULL}]
  /\ p_threads \in [AllProcs -> AllThreads \cup {NULL}]
  /\ t_next \in [AllThreads -> Threads \cup {NULL}]
  /\ t_parent \in [AllThreads -> AllProcs \cup {NULL}]
  /\ t_status \in [AllThreads -> {"READY", "RUNNING", "DEAD"}]
  /\ t_stack \in [AllThreads -> {"none", "user", "kernel"}]
  /\ boot_pc \in BeforeProc \cup {"create_thread"} \cup Linking \cup Queued

IdleIsMade ==
  /\ p_threads[Idle] = IdleThread /\ p_next[Idle] = NULL
  /\ t_next[IdleThread] = NULL /\ t_parent[IdleThread] = Idle
  /\ t_status[IdleThread] # "DEAD"

\* How far create_proc has come; a process that has been reaped is gone for good.
ProcInv ==
  /\ boot_pc \in BeforeProc => liveP = {} /\ liveT = {} /\ head_proc = NULL
  /\ boot_pc = "create_thread" =>
       /\ liveT = {} /\ head_proc = NULL
       /\ \E p \in Procs : liveP = {p} /\ p_threads[p] = NULL /\ p_next[p] = NULL
  /\ boot_pc \in Linking => head_proc = NULL /\ \E p \in Procs, t \in Threads : Started(p, t)
  /\ boot_pc \in Queued =>
       \/ liveP = {} /\ liveT = {} /\ head_proc = NULL
       \/ \E t \in Threads : Started(head_proc, t)

\* Whoever has the processor.
CurrentInv ==
  /\ \/ current_process = Idle /\ current_thread = IdleThread
     \/ /\ ~booting /\ boot_pc \in Queued /\ head_proc # NULL
        /\ current_process = head_proc /\ current_thread = p_threads[head_proc]
  /\ ~booting => current_vmm = current_process

StartInv == Types /\ IdleIsMade /\ ProcInv /\ CurrentInv

\* Idle, the idle thread and NULL are no blocks.
LEMMA Distinct ==
  /\ Idle \in AllProcs /\ Idle \notin Procs /\ Idle # NULL /\ NULL \notin Procs
  /\ IdleThread \in AllThreads /\ IdleThread \notin Threads /\ IdleThread # NULL
  /\ NULL \notin Threads /\ Procs \subseteq AllProcs /\ Threads \subseteq AllThreads
  BY SchedulerAssumption DEF AllProcs, AllThreads

\* A process that is queued is complete.
LEMMA HeadIsStarted ==
  ASSUME StartInv, head_proc # NULL
  PROVE  boot_pc \in Queued /\ \E t \in Threads : Started(head_proc, t)
  BY DEF StartInv, ProcInv, Types

\* schedule for a thread that goes on.
LEMMA PreemptKeeps ==
  ASSUME StartInv, Preempt, boot_pc' = boot_pc, booting' = FALSE
  PROVE  StartInv'
<1>1. /\ UNCHANGED <<head_proc, p_next, p_threads, liveP, t_next, t_parent, t_stack, liveT>>
      /\ SwitchThread("READY")
  BY DEF Preempt, procVars
<1>2. t_next[current_thread] = NULL /\ current_thread \in AllThreads
      /\ current_process \in AllProcs /\ p_next[current_process] = NULL
  BY Distinct, HeadIsStarted DEF StartInv, CurrentInv, IdleIsMade, Started
<1>3. /\ current_process' = IF head_proc = NULL THEN Idle ELSE head_proc
      /\ current_thread' = p_threads[current_process']
      /\ current_vmm' = current_process'
  BY <1>1, <1>2 DEF SwitchThread
<1>4. current_thread' \in AllThreads
  BY <1>3, Distinct, HeadIsStarted DEF StartInv, IdleIsMade, Started
<1>5. /\ t_status' \in [AllThreads -> {"READY", "RUNNING", "DEAD"}]
      /\ t_status'[IdleThread] # "DEAD"
  BY <1>1, <1>2, <1>4, Distinct DEF SwitchThread, StartInv, Types, IdleIsMade
<1>6. Types' /\ IdleIsMade'
  BY <1>1, <1>5 DEF StartInv, Types, IdleIsMade
<1>7. ProcInv'
  BY <1>1 DEF StartInv, ProcInv, Started
<1>8. CurrentInv'
  BY <1>1, <1>3, HeadIsStarted DEF StartInv, IdleIsMade, CurrentInv
<1>. QED
  BY <1>6, <1>7, <1>8 DEF StartInv

\* schedule for a thread that has exited: nothing is left of the process.
LEMMA ReapKeeps ==
  ASSUME StartInv, Reap, boot_pc' = boot_pc, booting' = FALSE, ~booting
  PROVE  StartInv' /\ ~fault'
<1>1. /\ current_thread # IdleThread
      /\ boot_pc \in Queued /\ head_proc # NULL /\ current_vmm = current_process
      /\ current_process = head_proc /\ current_thread = p_threads[head_proc]
  BY DEF StartInv, CurrentInv, IdleIsMade, Reap
<1>. DEFINE p == head_proc
            t == current_thread
<1>2. Started(p, t)
  BY <1>1, HeadIsStarted DEF Started
<1>3. IsLastThread(t) /\ t_parent[t] = p
  BY <1>2 DEF IsLastThread, Started
<1>4. ~ReapFaults(t)
  <2>1. p_threads[t_parent[t]] # NULL /\ InThreadList(t) /\ StackListed(t)
    BY <1>1, <1>2, Distinct DEF Started, InThreadList, StackListed
  <2>2. InQueue(t_parent[t]) /\ current_vmm = t_parent[t]
    BY <1>1, <1>2 DEF Started, InQueue
  <2>. QED
    BY <2>1, <2>2 DEF ReapFaults
<1>5. /\ ~fault'
      /\ reap_thread(t) /\ SwitchThread("DEAD") /\ UNCHANGED t_parent
  BY <1>4 DEF Reap
<1>6. /\ t_stack' = [t_stack EXCEPT ![t] = "none"]
      /\ p_threads' = [p_threads EXCEPT ![p] = NULL]
      /\ t_next' = t_next
      /\ liveT' = {} /\ liveP' = {} /\ head_proc' = NULL /\ p_next' = p_next
  <2>1. reap_process(p)
    BY <1>3, <1>5 DEF reap_thread
  <2>2. /\ t_stack' = [t_stack EXCEPT ![t] = "none"]
        /\ p_threads' = [p_threads EXCEPT ![p] = IF @ = t THEN t_next[t] ELSE @]
        /\ t_next' = [s \in AllThreads |-> IF /\ p_threads[p] # t /\ s \in liveT
                                              /\ t_parent[s] = p /\ t_next[s] = t
                                           THEN t_next[t] ELSE t_next[s]]
        /\ liveT' = liveT \ {t}
    BY <1>3, <1>5 DEF reap_thread
  <2>3. p_threads' = [p_threads EXCEPT ![p] = NULL]
    BY <1>2, <2>2 DEF Started
  <2>4. t_next' = t_next
    BY <1>2, <2>2 DEF Started, StartInv, Types
  <2>5. liveT' = {} /\ liveP' = {} /\ head_proc' = NULL
    BY <1>2, <2>1, <2>2 DEF Started, reap_process
  <2>6. p_next' = p_next
    BY <2>1 DEF reap_process, StartInv, Types
  <2>. QED
    BY <2>2, <2>3, <2>4, <2>5, <2>6, Zenon
<1>7. p # Idle /\ p \in AllProcs /\ t \in AllThreads /\ t_next[t] = NULL
  BY <1>2, Distinct DEF Started
<1>8. /\ current_process' = Idle /\ current_thread' = IdleThread /\ current_vmm' = Idle
  BY <1>5, <1>6, <1>7 DEF SwitchThread, StartInv, IdleIsMade, Types
<1>9. /\ t_status' \in [AllThreads -> {"READY", "RUNNING", "DEAD"}]
      /\ t_status'[IdleThread] # "DEAD"
  BY <1>1, <1>5, <1>7, <1>8, Distinct DEF SwitchThread, StartInv, Types, IdleIsMade
<1>10. Types' /\ IdleIsMade'
  BY <1>5, <1>6, <1>7, <1>9, Distinct, Zenon DEF StartInv, Types, IdleIsMade
<1>11. ProcInv'
  BY <1>1, <1>6 DEF ProcInv, Queued, BeforeProc, Linking
<1>12. CurrentInv'
  BY <1>8 DEF CurrentInv
<1>. QED
  BY <1>5, <1>10, <1>11, <1>12 DEF StartInv

\* A step that leaves the process alone.
LEMMA SameProcess ==
  ASSUME StartInv, UNCHANGED <<procVars, t_next, t_parent, t_status, t_stack, liveT,
                               current_process, current_thread, booting>>,
         current_vmm' = current_vmm \/ booting \/ current_vmm' = current_process,
         \/ boot_pc' = boot_pc
         \/ boot_pc \in BeforeProc /\ boot_pc' \in BeforeProc
         \/ boot_pc \in Queued /\ boot_pc' \in Queued
         \/ boot_pc \in Linking /\ boot_pc' \in Linking
  PROVE  StartInv'
<1>1. UNCHANGED <<head_proc, p_next, p_threads, liveP>>
  BY DEF procVars
<1>2. Types' /\ IdleIsMade'
  BY <1>1 DEF StartInv, Types, IdleIsMade
<1>3. ProcInv'
  BY <1>1 DEF StartInv, ProcInv, Started, BeforeProc, Linking, Queued
<1>4. CurrentInv'
  BY <1>1 DEF StartInv, CurrentInv, BeforeProc, Linking, Queued
<1>. QED
  BY <1>2, <1>3, <1>4 DEF StartInv

\* The steps of create_proc.
LEMMA CreateKeeps ==
  ASSUME StartInv, NEW p \in Procs, NEW t,
         new_proc(p) \/ new_thread(p, t) \/ link(p) \/ queue(p)
  PROVE  StartInv'
<1>0. /\ booting /\ booting' = booting
      /\ current_process = Idle /\ current_thread = IdleThread
  BY Zenon DEF StartInv, CurrentInv, new_proc, new_thread, link, queue, QuietStep, BootStep
<1>1. CASE new_proc(p)
  <2>1. /\ boot_pc = "dump_ehdr" /\ boot_pc' = "create_thread"
        /\ liveP' = liveP \cup {p}
        /\ p_threads' = [p_threads EXCEPT ![p] = NULL] /\ p_next' = [p_next EXCEPT ![p] = NULL]
        /\ UNCHANGED <<head_proc, t_next, t_parent, t_status, t_stack, liveT,
                       current_process, current_thread>>
    BY <1>1 DEF new_proc, QuietStep, BootStep, threadVars, cpuVars
  <2>2. Types' /\ IdleIsMade'
    BY <2>1, Distinct DEF StartInv, Types, IdleIsMade
  <2>3. ProcInv'
    BY <2>1, Distinct DEF StartInv, Types, ProcInv, BeforeProc, Linking, Queued
  <2>. QED
    BY <1>0, <2>1, <2>2, <2>3 DEF StartInv, CurrentInv
<1>2. CASE new_thread(p, t)
  <2>1. /\ boot_pc = "create_thread" /\ boot_pc' = "link" /\ p \in liveP /\ t \in Threads
        /\ NewThread(p, t, TRUE)
        /\ p_threads' = [p_threads EXCEPT ![p] = t]
        /\ UNCHANGED <<head_proc, p_next, liveP, current_process, current_thread>>
    BY <1>2 DEF new_thread, NewThread, QuietStep, BootStep
  <2>2. liveT = {} /\ head_proc = NULL /\ liveP = {p} /\ p_next[p] = NULL
    BY <2>1 DEF StartInv, ProcInv
  <2>3. /\ liveT' = {t}
        /\ t_next' = [t_next EXCEPT ![t] = NULL]
        /\ t_parent' = [t_parent EXCEPT ![t] = p]
        /\ t_status' = [t_status EXCEPT ![t] = "READY"]
        /\ t_stack' = [t_stack EXCEPT ![t] = "user"]
    BY <2>1, <2>2, Zenon DEF NewThread, StartInv, Types
  <2>4. Types' /\ IdleIsMade'
    BY <2>1, <2>3, Distinct DEF StartInv, Types, IdleIsMade, Linking
  <2>5. Started(p, t)'
    BY <2>1, <2>2, <2>3, Distinct DEF StartInv, Types, Started
  <2>6. ProcInv'
    BY <2>1, <2>2, <2>5 DEF ProcInv, BeforeProc, Linking, Queued
  <2>. QED
    BY <1>0, <2>1, <2>4, <2>6 DEF StartInv, CurrentInv
<1>3. CASE link(p)
  <2>1. /\ boot_pc = "link" /\ boot_pc' = "queue" /\ p \in liveP
        /\ p_next' = [p_next EXCEPT ![p] = head_proc]
        /\ UNCHANGED <<head_proc, p_threads, liveP, t_next, t_parent, t_status, t_stack, liveT,
                       current_process, current_thread>>
    BY <1>3 DEF link, QuietStep, BootStep, threadVars, cpuVars
  <2>2. PICK t0 \in Threads : Started(p, t0)
    <3>1. PICK q \in Procs, t0 \in Threads : Started(q, t0)
      BY <2>1, Zenon DEF StartInv, ProcInv, Linking
    <3>2. q = p
      BY <2>1, <3>1 DEF Started
    <3>. QED
      BY <3>1, <3>2, Zenon
  <2>3. head_proc = NULL /\ p_next' = p_next
    BY <2>1, <2>2, Distinct DEF StartInv, ProcInv, Linking, Started, Types
  <2>4. Types' /\ IdleIsMade'
    BY <2>1, <2>3, Zenon DEF StartInv, Types, IdleIsMade, Linking
  <2>5. ProcInv'
    BY <2>1, <2>2, <2>3 DEF ProcInv, Started, BeforeProc, Linking, Queued
  <2>. QED
    BY <1>0, <2>1, <2>4, <2>5 DEF StartInv, CurrentInv
<1>4. CASE queue(p)
  <2>1. /\ boot_pc = "queue" /\ boot_pc' = "switch_back" /\ p \in liveP
        /\ head_proc' = p
        /\ UNCHANGED <<p_next, p_threads, liveP, t_next, t_parent, t_status, t_stack, liveT,
                       current_process, current_thread>>
    BY <1>4 DEF queue, QuietStep, BootStep, threadVars, cpuVars
  <2>2. PICK t0 \in Threads : Started(p, t0)
    BY <2>1 DEF StartInv, ProcInv, Linking, Started
  <2>3. Types' /\ IdleIsMade'
    BY <2>1 DEF StartInv, Types, IdleIsMade, Queued
  <2>4. ProcInv'
    BY <2>1, <2>2 DEF ProcInv, Started, BeforeProc, Linking, Queued
  <2>. QED
    BY <1>0, <2>1, <2>3, <2>4 DEF StartInv, CurrentInv
<1>. QED
  BY <1>1, <1>2, <1>3, <1>4

-----------------------------------------------------------------------------
(* The lock, the keyboard and what is abandoned *)

InPrintf == {"parse_end", "dump_end", "printf_end"}

\* The first interrupt that reaches schedule ends kernel_start, so until then
\* should_sched has its initial value.
FlagsInv ==
  /\ booting /\ ~fault => should_sched
  /\ lock => boot_pc \in InPrintf \/ writing
  /\ print_pc # "loop" => boot_pc \in InPrintf
  /\ boot_pc = "apic_init" => ~irq
  /\ NoScheduler => booting
  /\ writing => ~booting
  /\ PanicOnlyBeforeSched /\ StuckOnlyInPrintf /\ OutsideOnlyFromWrap

BootInv == StartInv /\ CursorInv /\ FlagsInv

\* The state apic_init finds satisfies the invariant.
LEMMA InitBootInv == BootInit => BootInv
<1>. SUFFICES ASSUME BootInit PROVE BootInv
  OBVIOUS
<1>1. StartInv
  <2>1. Types /\ IdleIsMade
    BY Distinct DEF BootInit, Init, Types, IdleIsMade, BeforeProc, AllProcs, AllThreads
  <2>2. ProcInv /\ CurrentInv
    BY DEF BootInit, Init, ProcInv, CurrentInv, BeforeProc, Linking, Queued
  <2>. QED
    BY <2>1, <2>2 DEF StartInv
<1>2. CursorInv
  <2>1. cursor \in [x : Nat, y : Nat] /\ OnScreen(cursor) /\ print_pc = "loop"
    BY ConsoleAssumption DEF BootInit, ConsoleInit, OnScreen
  <2>. QED
    BY <2>1, OnScreenFits DEF CursorInv, Statements
<1>3. FlagsInv
  BY DEF BootInit, Init, ConsoleInit, FlagsInv, PanicOnlyBeforeSched, StuckOnlyInPrintf,
         OutsideOnlyFromWrap
<1>. QED
  BY <1>1, <1>2, <1>3 DEF BootInv

\* A step of kernel_start that does not print keeps what is said of the flags.
LEMMA QuietKeepsFlags ==
  ASSUME BootInv, NEW from, NEW to, QuietStep(from, to), from \notin InPrintf,
         to # "apic_init", fault' = fault
  PROVE  CursorInv' /\ FlagsInv'
<1>1. /\ booting /\ booting' = booting /\ ~fault /\ ~stuck /\ ~writing
      /\ boot_pc = from /\ boot_pc' = to
      /\ UNCHANGED <<should_sched, writing, stuck, lock,
                     cursor, print_pc, settled, outside>>
  BY DEF QuietStep, BootStep, Running, keyVars, sysVars, consoleVars
<1>2. CursorInv'
  BY <1>1 DEF BootInv, CursorInv
<1>3. FlagsInv'
  BY <1>1 DEF BootInv, FlagsInv, NoScheduler, PanicOnlyBeforeSched, StuckOnlyInPrintf, OutsideOnlyFromWrap
<1>. QED
  BY <1>2, <1>3

\* Every step of kernel_start keeps the invariant.
LEMMA KernelStartKeeps == BootInv /\ kernel_start => BootInv'
<1>. SUFFICES ASSUME BootInv, kernel_start PROVE BootInv'
  OBVIOUS
<1>. USE DEF BootInv
<1>1. CASE apic_init
  BY <1>1, SameProcess, QuietKeepsFlags
  DEF apic_init, QuietStep, BootStep, BeforeProc, InPrintf, vars, threadVars, cpuVars
<1>2. CASE tar_init \/ vfs_init
  BY <1>2, SameProcess, QuietKeepsFlags
  DEF tar_init, vfs_init, QuietStep, BootStep, BeforeProc, InPrintf, vars, threadVars, cpuVars
<1>3. CASE sched_init
  BY <1>3, SameProcess, QuietKeepsFlags
  DEF sched_init, QuietStep, BootStep, BeforeProc, InPrintf, vars, threadVars, cpuVars
<1>4. ASSUME NEW p \in Procs, exec_elf(p)
      PROVE  BootInv'
  BY <1>4, SameProcess, QuietKeepsFlags
  DEF exec_elf, QuietStep, BootStep, BeforeProc, InPrintf, threadVars
<1>5. ASSUME NEW p \in Procs, NEW t,
             new_proc(p) \/ new_thread(p, t) \/ link(p) \/ queue(p)
      PROVE  BootInv'
  <2>1. StartInv'
    BY <1>5, CreateKeeps
  <2>2. CursorInv' /\ FlagsInv'
    BY <1>5, QuietKeepsFlags, Zenon DEF new_proc, new_thread, link, queue, InPrintf, cpuVars
  <2>. QED
    BY <2>1, <2>2
<1>6. CASE exec_elf_back
  BY <1>6, SameProcess, QuietKeepsFlags
  DEF exec_elf_back, QuietStep, BootStep, Queued, InPrintf, threadVars
<1>7. CASE hang
  BY <1>7, SameProcess, QuietKeepsFlags
  DEF hang, QuietStep, BootStep, Queued, InPrintf, vars, threadVars, cpuVars
<1>8. ASSUME NEW from, NEW to,
             \/ from = "parse_tar" /\ to = "parse_end"
             \/ from = "dump_ehdr" /\ to = "dump_end"
             \/ from = "printf" /\ to = "printf_end",
             acquire(from, to) \/ printf(to) \/ release(to, from)
      PROVE  BootInv'
  <2>1. /\ booting /\ booting' = booting /\ ~fault /\ ~stuck /\ ~writing
        /\ {boot_pc, boot_pc'} \subseteq {from, to}
        /\ UNCHANGED <<should_sched, writing, stuck, vars, irq>>
    BY <1>8 DEF acquire, printf, release, BootStep, Running, keyVars, sysVars
  <2>2. fault' = fault
    BY <2>1 DEF vars, cpuVars
  <2>3. StartInv'
    BY <1>8, <2>1, SameProcess DEF BeforeProc, Queued, vars, threadVars, cpuVars
  <2>4. CursorInv' /\ (outside' => outside)
    <3>1. CASE printf(to)
      BY <2>1, <3>1, PrintfKeeps DEF printf
    <3>2. CASE UNCHANGED <<cursor, print_pc, settled, outside>>
      BY <2>1, <2>2, <3>2 DEF CursorInv
    <3>. QED
      BY <1>8, <3>1, <3>2 DEF acquire, release, consoleVars
  <2>5. /\ lock' => boot_pc' = to
        /\ print_pc' # "loop" => boot_pc' = to
    <3>1. CASE acquire(from, to)
      BY <3>1 DEF acquire, BootStep
    <3>2. CASE printf(to)
      BY <3>2 DEF printf, BootStep
    <3>3. CASE release(to, from)
      BY <3>3 DEF release, Printed, consoleVars
    <3>. QED
      BY <1>8, <3>1, <3>2, <3>3
  <2>6. FlagsInv'
    BY <1>8, <2>1, <2>2, <2>4, <2>5
    DEF FlagsInv, NoScheduler, InPrintf, PanicOnlyBeforeSched, StuckOnlyInPrintf, OutsideOnlyFromWrap
  <2>. QED
    BY <2>3, <2>4, <2>6
<1>. QED
  BY <1>1, <1>2, <1>3, <1>4, <1>5, <1>6, <1>7, <1>8 DEF kernel_start

\* What interrupt_handler does for the three gates in use.
LEMMA Gates ==
  /\ interrupt_handler(KeyboardGate) =>
       /\ \E str : keyboard_handler(str)
       /\ should_sched' = ~should_sched
       /\ IF should_sched THEN Switch ELSE UNCHANGED <<vars, booting>>
       /\ UNCHANGED <<lock, sysVars, boot_pc, calls, irq>>
  /\ interrupt_handler(SyscallGate) =>
       syscall_handler /\ UNCHANGED <<consoleVars, keyVars, booting, boot_pc, calls, irq>>
  /\ interrupt_handler(SpuriousGate) =>
       /\ printLine(UnknownChars)
       /\ UNCHANGED <<vars, keyVars, booting, lock, sysVars, boot_pc, calls, irq>>
<1>1. /\ StubVec(KeyboardGate) = 40 /\ StubVec(SyscallGate) = 230
      /\ StubVec(SpuriousGate) = 216
  BY DEF StubVec, KeyboardGate, SyscallGate, SpuriousGate
<1>. QED
  BY <1>1 DEF interrupt_handler

\* Switch faults only before there is a scheduler, and otherwise ends kernel_start.
LEMMA SwitchKeeps ==
  ASSUME StartInv, Switch, ~fault, boot_pc' = boot_pc
  PROVE  /\ StartInv'
         /\ \/ fault' /\ NoScheduler /\ booting' = booting
            \/ ~fault' /\ ~NoScheduler /\ ~booting'
<1>1. CASE NoScheduler \/ (head_proc # NULL /\ p_threads[head_proc] = NULL)
  <2>1. NoScheduler
    BY <1>1, HeadIsStarted, Distinct DEF Started
  <2>2. /\ fault' = TRUE
        /\ UNCHANGED <<procVars, threadVars, current_process, current_thread, current_vmm, booting>>
    BY <1>1 DEF Switch
  <2>. QED
    BY <2>1, <2>2, SameProcess DEF threadVars
<1>2. CASE ~NoScheduler /\ schedule /\ booting' = FALSE
  <2>1. CASE Preempt
    BY <1>2, <2>1, PreemptKeeps, Zenon DEF Preempt
  <2>2. CASE Reap
    <3>1. ~booting
      BY <2>2 DEF Reap, StartInv, CurrentInv, IdleIsMade
    <3>. QED
      BY <1>2, <2>2, <3>1, ReapKeeps
  <2>. QED
    BY <1>2, <2>1, <2>2 DEF schedule
<1>. QED
  BY <1>1, <1>2, Zenon DEF Switch

\* A key keeps the invariant: it panics, ends kernel_start, or finds it ended.
LEMMA KeyKeeps == BootInv /\ Key => BootInv'
<1>. SUFFICES ASSUME BootInv, Key PROVE BootInv'
  OBVIOUS
<1>0. /\ ~fault /\ ~stuck /\ ~writing /\ irq
      /\ UNCHANGED <<lock, writing, stuck, boot_pc, irq>>
      /\ IF should_sched THEN Switch ELSE UNCHANGED <<vars, booting>>
  BY Gates DEF Key, Running, sysVars
<1>1. PICK str : keyboard_handler(str)
  BY Gates DEF Key
<1>2. /\ StartInv'
      /\ \/ fault' /\ NoScheduler /\ booting' = booting /\ booting
         \/ ~fault' /\ ~NoScheduler /\ ~booting'
  <2>1. CASE should_sched
    <3>1. NoScheduler => booting
      BY DEF BootInv, FlagsInv
    <3>. QED
      BY <1>0, <2>1, <3>1, SwitchKeeps DEF BootInv
  <2>2. CASE ~should_sched
    <3>1. ~booting /\ ~NoScheduler /\ UNCHANGED <<vars, booting>>
      BY <1>0, <2>2 DEF BootInv, FlagsInv
    <3>2. StartInv' /\ fault' = fault
      BY <1>0, <3>1, SameProcess DEF BootInv, vars, threadVars, cpuVars
    <3>. QED
      BY <1>0, <3>1, <3>2
  <2>. QED
    BY <2>1, <2>2
<1>3. ~booting' \/ fault'
  BY <1>2
<1>4. /\ CursorInv' /\ print_pc' = print_pc
      /\ outside' => outside \/ print_pc = "mod"
  <2>1. CASE printc(str[1])
    BY <1>3, <2>1, PrintcKeeps DEF BootInv, printc
  <2>2. CASE UNCHANGED consoleVars
    <3>1. UNCHANGED <<cursor, print_pc, settled, outside>>
      BY <2>2 DEF consoleVars
    <3>. QED
      BY <1>3, <3>1 DEF BootInv, CursorInv
  <2>. QED
    BY <1>1, <2>1, <2>2 DEF keyboard_handler, consoleVars
<1>5. FlagsInv'
  BY <1>0, <1>2, <1>3, <1>4
  DEF BootInv, FlagsInv, InPrintf, NoScheduler, PanicOnlyBeforeSched, StuckOnlyInPrintf,
      OutsideOnlyFromWrap
<1>. QED
  BY <1>2, <1>4, <1>5 DEF BootInv

\* A handler that prints a line leaves everything else alone.
LEMMA SpuriousKeeps == BootInv /\ Spurious => BootInv'
<1>. SUFFICES ASSUME BootInv, Spurious PROVE BootInv'
  OBVIOUS
<1>1. /\ printLine(UnknownChars)
      /\ UNCHANGED <<vars, keyVars, booting, lock, sysVars, boot_pc, irq>>
  BY Gates DEF Spurious
<1>2. StartInv'
  BY <1>1, SameProcess DEF BootInv, vars, threadVars, cpuVars
<1>3. CursorInv' /\ UNCHANGED <<print_pc, outside>>
  BY <1>1, PrintLineKeeps DEF BootInv, printLine
<1>4. UNCHANGED <<fault, should_sched, writing, stuck>>
  BY <1>1 DEF vars, cpuVars, keyVars, sysVars
<1>5. FlagsInv'
  BY <1>1, <1>3, <1>4
  DEF BootInv, FlagsInv, NoScheduler, PanicOnlyBeforeSched, StuckOnlyInPrintf,
      OutsideOnlyFromWrap
<1>. QED
  BY <1>2, <1>3, <1>5 DEF BootInv

\* The steps of the process.
LEMMA ProcessKeeps == BootInv /\ (Write \/ WriteStep \/ Return) => BootInv'
<1>. SUFFICES ASSUME BootInv, Write \/ WriteStep \/ Return PROVE BootInv'
  OBVIOUS
<1>1. CASE Write
  <2>0. /\ syscall_handler /\ UNCHANGED <<consoleVars, keyVars, booting, boot_pc, irq>>
        /\ ~fault /\ ~stuck /\ ~writing
    BY <1>1, Gates DEF Write, Running
  <2>1. ~booting /\ boot_pc \in Queued
    BY <1>1, Distinct DEF Write, BootInv, StartInv, CurrentInv
  <2>2. UNCHANGED <<cursor, print_pc, settled, outside, should_sched>>
    BY <2>0 DEF consoleVars, keyVars
  <2>3. CursorInv'
    BY <2>0, <2>1, <2>2 DEF BootInv, CursorInv
  <2>4. StartInv' /\ fault' = fault
    <3>1. UNCHANGED <<procVars, threadVars, current_process, current_thread, current_vmm, fault>>
      BY <2>0 DEF syscall_handler, Run, vars, cpuVars
    <3>. QED
      BY <2>0, <3>1, SameProcess DEF BootInv, threadVars
  <2>5. /\ stuck' => lock
        /\ lock' => lock \/ writing'
    BY <2>0 DEF syscall_handler
  <2>6. FlagsInv'
    BY <2>0, <2>1, <2>2, <2>4, <2>5
    DEF BootInv, FlagsInv, NoScheduler, InPrintf, Queued, PanicOnlyBeforeSched, StuckOnlyInPrintf,
        OutsideOnlyFromWrap
  <2>. QED
    BY <2>3, <2>4, <2>6 DEF BootInv
<1>2. CASE WriteStep
  <2>1. /\ UNCHANGED <<vars, boot_pc, booting, irq, should_sched, stuck>>
        /\ writing /\ ~booting /\ (lock' => lock /\ writing')
    BY <1>2, Zenon DEF WriteStep, keyVars, BootInv, FlagsInv
  <2>2. StartInv' /\ fault' = fault
    BY <2>1, SameProcess DEF BootInv, vars, threadVars, cpuVars
  <2>3. /\ CursorInv' /\ print_pc' = print_pc
        /\ outside' => outside \/ print_pc = "mod"
    <3>1. ASSUME NEW char, printc(char)
          PROVE  /\ CursorInv' /\ print_pc' = print_pc
                 /\ outside' => outside \/ print_pc = "mod"
      BY <2>1, <3>1, PrintcKeeps DEF BootInv, printc
    <3>2. CASE UNCHANGED consoleVars
      <4>1. UNCHANGED <<cursor, print_pc, settled, outside>>
        BY <3>2 DEF consoleVars
      <4>. QED
        BY <2>1, <4>1 DEF BootInv, CursorInv
    <3>. QED
      BY <1>2, <3>1, <3>2, Zenon DEF WriteStep
  <2>4. FlagsInv'
    BY <2>1, <2>2, <2>3
    DEF BootInv, FlagsInv, NoScheduler, PanicOnlyBeforeSched, StuckOnlyInPrintf,
        OutsideOnlyFromWrap
  <2>. QED
    BY <2>2, <2>3, <2>4 DEF BootInv
<1>3. CASE Return
  <2>1. UNCHANGED <<cursor, print_pc, settled, outside, boot_pc, booting, irq, should_sched,
                    lock, writing, stuck>>
    BY <1>3 DEF Return, consoleVars, bootVars, keyVars, sysVars
  <2>2. /\ t_status' = [t_status EXCEPT ![current_thread] = "DEAD"]
        /\ current_thread \in Threads
        /\ UNCHANGED <<procVars, t_next, t_parent, t_stack, liveT, current_process,
                       current_thread, current_vmm, fault>>
    BY <1>3 DEF Return, Exit, cpuVars
  <2>3. StartInv'
    <3>1. UNCHANGED <<head_proc, p_next, p_threads, liveP>>
      BY <2>2 DEF procVars
    <3>2. Types' /\ IdleIsMade'
      BY <2>1, <2>2, <3>1, Distinct DEF BootInv, StartInv, Types, IdleIsMade
    <3>3. ProcInv' /\ CurrentInv'
      BY <2>1, <2>2, <3>1 DEF BootInv, StartInv, ProcInv, CurrentInv, Started
    <3>. QED
      BY <3>2, <3>3 DEF StartInv
  <2>4. CursorInv' /\ FlagsInv'
    BY <2>1, <2>2
    DEF BootInv, CursorInv, FlagsInv, NoScheduler, PanicOnlyBeforeSched, StuckOnlyInPrintf,
        OutsideOnlyFromWrap
  <2>. QED
    BY <2>3, <2>4 DEF BootInv
<1>. QED
  BY <1>1, <1>2, <1>3

\* The invariant holds in every state.
LEMMA BootInvariant == BootSpec => []BootInv
<1>1. BootInit => BootInv
  BY InitBootInv
<1>2. BootInv /\ [BootNext]_allVars => BootInv'
  <2>. SUFFICES ASSUME BootInv, [BootNext]_allVars PROVE BootInv'
    OBVIOUS
  <2>1. CASE UNCHANGED allVars
    <3>1. /\ UNCHANGED <<cursor, print_pc, settled, outside, boot_pc, booting, irq, should_sched,
                         lock, writing, stuck, vars>>
      BY <2>1 DEF allVars, consoleVars, bootVars, keyVars, sysVars
    <3>2. StartInv' /\ fault' = fault
      BY <3>1, SameProcess DEF BootInv, vars, threadVars, cpuVars
    <3>3. CursorInv' /\ FlagsInv'
      BY <3>1, <3>2
      DEF BootInv, CursorInv, FlagsInv, NoScheduler, PanicOnlyBeforeSched, StuckOnlyInPrintf,
          OutsideOnlyFromWrap
    <3>. QED
      BY <3>2, <3>3 DEF BootInv
  <2>2. CASE BootNext
    BY <2>1, <2>2, KernelStartKeeps, KeyKeeps, SpuriousKeeps, ProcessKeeps DEF BootNext, Halted
  <2>. QED
    BY <2>1, <2>2
<1>. QED
  BY <1>1, <1>2, PTL DEF BootSpec

-----------------------------------------------------------------------------
(* Theorems *)

\* Whenever keys are pressed, the kernel panics only between apic_init and the end of
\* sched_init: every schedule from then on finds a process with a thread, or none, and
\* reap_thread and reap_process find what they unlink.
THEOREM PanicsOnlyBeforeSched == BootSpec => []PanicOnlyBeforeSched
<1>1. BootInv => PanicOnlyBeforeSched
  BY DEF BootInv, FlagsInv
<1>. QED
  BY <1>1, BootInvariant, PTL

\* A system call spins on printf's lock for ever only if kernel_start was abandoned in
\* the printfs behind exec_elf.
THEOREM SpinsOnlyAfterPrintf == BootSpec => []StuckOnlyInPrintf
<1>1. BootInv => StuckOnlyInPrintf
  BY DEF BootInv, FlagsInv
<1>. QED
  BY <1>1, BootInvariant, PTL

\* A whole printc leaves the cursor on the screen, whichever statement of another printc
\* it has followed.
THEOREM CursorStaysOnScreen == BootSpec => []CursorReturnsToScreen
<1>1. BootInv => CursorReturnsToScreen
  BY DEF BootInv, CursorInv, CursorReturnsToScreen
<1>. QED
  BY <1>1, BootInvariant, PTL

\* A character leaves the console's page only if kernel_start was abandoned, or met a
\* panic, between the two statements that wrap the cursor.
THEOREM WritesStayInPage == BootSpec => []OutsideOnlyFromWrap
<1>1. BootInv => OutsideOnlyFromWrap
  BY DEF BootInv, FlagsInv
<1>. QED
  BY <1>1, BootInvariant, PTL

-----------------------------------------------------------------------------
(* printf goes forward *)

INSTANCE FiniteSetTheorems

\* What printf goes through.
PrintInv == format \in Formats /\ text \in Seq(Chars) /\ calls \in Seq(Formats)

\* The statements its printc has left.
StatementsLeft(pc) ==
  CASE pc = "x" -> 5 [] pc = "y" -> 4 [] pc = "mod" -> 3 [] pc = "newline" -> 3
    [] pc = "check" -> 2 [] pc = "scroll" -> 1 [] pc = "loop" -> 0

\* There is less of the format, or of the argument, or of the character.
LessToPrint ==
  \/ Len(format') < Len(format)
  \/ format' = format /\ Len(text') < Len(text)
  \/ format' = format /\ text' = text /\ StatementsLeft(print_pc') < StatementsLeft(print_pc)

\* kernel_start's own steps in printf bring it nearer to its end, and nothing else that
\* prints in between, an interrupt or a system call, sets it back.
PrintfForward ==
  /\ kernel_start /\ boot_pc \in InPrintf => LessToPrint \/ (Printed /\ boot_pc' \notin InPrintf)
  /\ ~kernel_start => UNCHANGED <<boot_pc, calls, format, text, print_pc>>

\* What a sequence has left behind its head.
LEMMA TailShape ==
  ASSUME NEW S, NEW q \in Seq(S), q # <<>>
  PROVE  Head(q) \in S /\ Tail(q) \in Seq(S) /\ Len(Tail(q)) \in Nat /\ Len(Tail(q)) < Len(q)
  OBVIOUS

\* What printf prints for a specifier is a string.
LEMMA ArgumentsAreTexts ==
  ASSUME NEW s, NEW t \in Arguments(s)
  PROVE  t \in Seq(Chars)
<1>1. ASSUME NEW n \in Nat PROVE Plain(n) \in Seq(Chars)
  BY DEF Plain, Chars
<1>2. CASE s = "%s"
  <2>1. PICK n \in 0 .. MaxChars : t \in [1 .. n -> Chars]
    BY <1>2 DEF Arguments, Texts
  <2>. QED
    BY <2>1, ConsoleAssumption
<1>3. CASE s = "%d"
  <2>1. PICK d \in Ints : t = printint(d)
    BY <1>3 DEF Arguments
  <2>2. Cardinality({k \in 1 .. 9 : 10 ^ k <= d}) \in Nat
    <3>1. IsFiniteSet(1 .. 9)
      <4>1. 1 \in Int /\ 9 \in Int
        OBVIOUS
      <4>. QED
        BY <4>1, FS_Interval, Zenon
    <3>. DEFINE D == {k \in 1 .. 9 : 10 ^ k <= d}
    <3>2. D \in SUBSET (1 .. 9)
      BY Zenon
    <3>. HIDE DEF D
    <3>3. Cardinality(D) \in Nat
      BY <3>1, <3>2, FS_Subset, FS_CardinalityType, Zenon
    <3>. QED
      BY <3>3, Zenon DEF D
  <2>. QED
    BY <1>1, <2>1, <2>2 DEF printint
<1>4. CASE s = "%lu"
  <2>1. t = Plain(2 + LongDigits)
    BY <1>4 DEF Arguments
  <2>2. 2 + LongDigits \in Nat
    <3>1. LongDigits \in Nat
      BY ConsoleAssumption, Zenon
    <3>. QED
      BY <3>1
  <2>. QED
    BY <1>1, <2>1, <2>2
<1>. QED
  BY <1>2, <1>3, <1>4 DEF Arguments

\* Every step of printf leaves less to print.
LEMMA PrintfStepForward ==
  ASSUME PrintInv, printfStep
  PROVE  LessToPrint /\ format' \in Formats /\ text' \in Seq(Chars)
<1>0. format \in Seq(Chars \cup Specifiers) /\ text \in Seq(Chars)
  BY DEF PrintInv, Formats
<1>1. CASE text # <<>> /\ Begin(Head(text)) /\ text' = Tail(text) /\ UNCHANGED format
  BY <1>0, <1>1, TailShape DEF LessToPrint, Formats
<1>2. CASE text = <<>> /\ format # <<>> /\ format' = Tail(format) /\ UNCHANGED text
  BY <1>0, <1>2, TailShape DEF LessToPrint, Formats
<1>3. CASE text = <<>> /\ format # <<>> /\ format' = Tail(format) /\ text' \in Arguments(Head(format))
  <2>1. text' \in Seq(Chars)
    BY <1>3, ArgumentsAreTexts
  <2>. QED
    BY <1>0, <1>3, <2>1, TailShape DEF LessToPrint, Formats
<1>4. CASE printcStep
  <2>1. StatementsLeft(print_pc') < StatementsLeft(print_pc) /\ UNCHANGED <<format, text>>
    BY <1>4 DEF printcStep, Statement, StatementsLeft
  <2>. QED
    BY <1>0, <2>1 DEF LessToPrint, Formats
<1>. QED
  BY <1>1, <1>2, <1>3, <1>4 DEF printfStep

\* What is not a step of kernel_start leaves its printf alone.
LEMMA OthersLeavePrintf ==
  ASSUME Key \/ Spurious \/ Write \/ WriteStep \/ Return \/ Halted \/ UNCHANGED allVars
  PROVE  UNCHANGED <<boot_pc, calls, format, text, print_pc>>
<1>1. CASE Key
  <2>1. PICK str : keyboard_handler(str)
    BY <1>1, Gates DEF Key
  <2>2. UNCHANGED <<boot_pc, calls>>
    BY <1>1, Gates DEF Key
  <2>. QED
    BY <2>1, <2>2 DEF keyboard_handler, printc, consoleVars
<1>2. CASE Spurious
  BY <1>2, Gates DEF Spurious, printLine
<1>3. CASE Write
  BY <1>3, Gates DEF Write, consoleVars
<1>4. CASE WriteStep
  BY <1>4, Zenon DEF WriteStep, printc, consoleVars
<1>5. CASE Return \/ Halted \/ UNCHANGED allVars
  BY <1>5 DEF Return, Halted, allVars, consoleVars, bootVars
<1>. QED
  BY <1>1, <1>2, <1>3, <1>4, <1>5

\* A step of kernel_start calls printf with a format, prints, or lets the text alone.
LEMMA KernelStartPrints ==
  ASSUME PrintInv, kernel_start
  PROVE  /\ PrintInv'
         /\ boot_pc \in InPrintf => LessToPrint \/ (Printed /\ boot_pc' \notin InPrintf)
<1>1. ASSUME NEW from \in {"parse_tar", "dump_ehdr", "printf"}, NEW to, acquire(from, to)
      PROVE  PrintInv' /\ boot_pc \notin InPrintf
  BY <1>1, TailShape DEF acquire, BootStep, PrintInv, InPrintf
<1>2. ASSUME NEW in \in InPrintf, printf(in)
      PROVE  PrintInv' /\ LessToPrint
  BY <1>2, PrintfStepForward DEF printf, PrintInv
<1>3. ASSUME NEW from, NEW to \in {"parse_tar", "dump_ehdr", "printf"}, release(from, to)
      PROVE  PrintInv' /\ Printed /\ boot_pc' \notin InPrintf
  BY <1>3 DEF release, BootStep, consoleVars, PrintInv, InPrintf
<1>4. ASSUME NEW from, NEW to, QuietStep(from, to), from \notin InPrintf, calls' \in Seq(Formats)
      PROVE  PrintInv' /\ boot_pc \notin InPrintf
  BY <1>4 DEF QuietStep, BootStep, consoleVars, PrintInv
<1>5. dump_ehdr \in Seq(Formats) /\ LastCalls \subseteq Seq(Formats)
  <2>1. /\ <<"c", "%s", "newline">> \in Formats /\ <<"c", "%lu", "newline">> \in Formats
        /\ <<"c", "%d", "newline">> \in Formats
    BY DEF Formats, Chars, Specifiers
  <2>. QED
    BY <2>1, BootAssumption DEF dump_ehdr
<1>6. CASE apic_init \/ vfs_init \/ sched_init \/ exec_elf_back \/ hang
  BY <1>4, <1>5, <1>6 DEF apic_init, vfs_init, sched_init, exec_elf_back, hang, InPrintf, PrintInv
<1>7. CASE \E p \in Procs : exec_elf(p) \/ new_proc(p) \/ link(p) \/ queue(p) \/ (\E t \in Threads : new_thread(p, t))
  BY <1>4, <1>5, <1>7, Zenon DEF exec_elf, new_proc, link, queue, new_thread, InPrintf, PrintInv
<1>8. CASE tar_init
  <2>1. found_file \in Formats
    BY DEF found_file, Formats, Chars, Specifiers
  <2>2. PICK files \in 0 .. MaxFiles : calls' = [i \in 1 .. files |-> found_file]
    BY <1>8, Zenon DEF tar_init
  <2>3. calls' \in Seq(Formats)
    <3>1. files \in Nat
      BY <2>2, BootAssumption
    <3>. QED
      BY <2>1, <2>2, <3>1
  <2>. QED
    BY <1>4, <1>8, <2>3, Zenon DEF tar_init, InPrintf
<1>. QED
  BY <1>1, <1>2, <1>3, <1>6, <1>7, <1>8 DEF kernel_start, InPrintf

\* The safety half of PrintfReturns, for formats and arguments of any length: no step of
\* kernel_start's printf leaves as much to print as there was, wherever interrupts and
\* system calls print in between, and it is left only with everything printed.
THEOREM PrintfGoesForward == BootSpec => [][PrintfForward]_allVars
<1>1. BootInit => PrintInv
  BY DEF BootInit, ConsoleInit, PrintInv, Formats
<1>2. PrintInv /\ [BootNext]_allVars => PrintInv'
  BY KernelStartPrints, OthersLeavePrintf DEF BootNext, PrintInv
<1>3. PrintInv /\ [BootNext]_allVars => [PrintfForward]_allVars
  BY KernelStartPrints, OthersLeavePrintf DEF BootNext, PrintfForward
<1>. QED
  BY <1>1, <1>2, <1>3, PTL DEF BootSpec

=============================================================================
