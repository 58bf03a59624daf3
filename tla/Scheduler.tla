----------------------------- MODULE Scheduler -----------------------------
(***************************************************************************)
(* Processes, threads and the round-robin scheduler (scheduler.c).         *)
(*                                                                         *)
(* process_t and thread_t are heap blocks: Procs and Threads are the       *)
(* blocks kmalloc can return for them, liveP and liveT the ones in use.    *)
(* kfree leaves a block's bytes alone and create_proc / create_thread      *)
(* clear them, so a field of a freed block keeps its last value: schedule  *)
(* reads current_thread->next and current_process->next of blocks that     *)
(* reap_thread and reap_process have just freed.                           *)
(*                                                                         *)
(* schedule runs in an interrupt gate (isr.c:62), so it is one step.       *)
(* create_proc and create_thread are one step too, as they are for a       *)
(* caller with interrupts off.                                             *)
(***************************************************************************)
EXTENDS Integers

CONSTANTS
  Procs, Threads,     \* heap blocks for process_t and thread_t
  Idle, IdleThread,   \* idle_proc and its only thread
  Initial,            \* the address space of vmm_init, which is no process's
  NULL,
  MaxPid, MaxTid,     \* bounds on next_pid and next_tid
  MaxWork             \* bound on the progress of a thread (history only)

ASSUME SchedulerAssumption ==
  /\ Idle \notin Procs /\ IdleThread \notin Threads
  /\ NULL \notin Procs \cup Threads \cup {Idle, IdleThread, Initial}
  /\ Initial \notin Procs \cup {Idle}
  /\ MaxPid \in Nat /\ MaxTid \in Nat /\ MaxWork \in Nat

AllProcs   == Procs \cup {Idle}
AllThreads == Threads \cup {IdleThread}

VARIABLES
  head_proc, current_process, current_thread,
  p_next, p_threads, p_pid,               \* process_t: next, threads, pid
  p_user,                                 \* vmm.head.next is a user region
  t_next, t_parent, t_tid, t_status,      \* thread_t: next, parent, tid, status
  t_context,                              \* thread_t: context, as a progress
  t_stack,                                \* where the region of t->stack is listed
  next_pid, next_tid,                     \* the static counters
  liveP, liveT,                           \* blocks in use
  current_vmm,                            \* the process whose vmm is current, or Initial
  cpu,                                    \* progress of the interrupted code
  work,                                   \* history: progress of every thread
  fault                                   \* a NULL dereference or failed ASSERT

procVars   == <<head_proc, p_next, p_threads, p_pid, p_user, next_pid, liveP>>
threadVars == <<t_next, t_parent, t_tid, t_status, t_context, t_stack, next_tid, liveT>>
cpuVars    == <<current_process, current_thread, current_vmm, cpu, work, fault>>
vars       == <<procVars, threadVars, cpuVars>>

\* The state sched_init leaves: kernel_start runs as the idle thread, still in the
\* address space of vmm_init.
Init ==
  /\ head_proc = NULL /\ current_process = Idle /\ current_thread = IdleThread
  /\ p_next = [p \in AllProcs |-> NULL]
  /\ p_threads = [p \in AllProcs |-> IF p = Idle THEN IdleThread ELSE NULL]
  /\ p_pid = [p \in AllProcs |-> 0]
  /\ p_user = [p \in AllProcs |-> FALSE]
  /\ t_next = [t \in AllThreads |-> NULL]
  /\ t_parent = [t \in AllThreads |-> IF t = IdleThread THEN Idle ELSE NULL]
  /\ t_tid = [t \in AllThreads |-> 0]
  /\ t_status = [t \in AllThreads |-> "READY"]
  /\ t_context = [t \in AllThreads |-> 0]
  /\ t_stack = [t \in AllThreads |-> IF t = IdleThread THEN "kernel" ELSE "none"]
  /\ next_pid = 1 /\ next_tid = 1
  /\ liveP = {} /\ liveT = {}
  /\ current_vmm = Initial
  /\ cpu = 0 /\ work = [t \in AllThreads |-> 0]
  /\ fault = FALSE

-----------------------------------------------------------------------------
(* Creation *)

\* create_thread(p, ...): t goes to the end of p's list.  alloc_user_stack puts
\* the stack into p's own list of regions and returns to the address space of
\* current_process; alloc_kernel_stack puts it into the part all lists share.
NewThread(p, t, is_user) ==
  /\ t \in Threads \ liveT /\ next_tid < MaxTid
  /\ liveT' = liveT \cup {t}
  /\ t_next' = [s \in AllThreads |->
                  IF s = t THEN NULL
                  ELSE IF s \in liveT /\ t_parent[s] = p /\ t_next[s] = NULL THEN t
                  ELSE t_next[s]]
  /\ t_parent' = [t_parent EXCEPT ![t] = p]
  /\ t_tid' = [t_tid EXCEPT ![t] = next_tid]
  /\ next_tid' = next_tid + 1
  /\ t_status' = [t_status EXCEPT ![t] = "READY"]
  /\ t_context' = [t_context EXCEPT ![t] = 0]
  /\ t_stack' = [t_stack EXCEPT ![t] = IF is_user THEN "user" ELSE "kernel"]
  /\ work' = [work EXCEPT ![t] = 0]
  /\ current_vmm' = IF is_user THEN current_process ELSE current_vmm

create_thread(p, t) ==
  /\ ~fault /\ p \in liveP
  /\ NewThread(p, t, FALSE)
  /\ p_threads' = IF p_threads[p] = NULL THEN [p_threads EXCEPT ![p] = t] ELSE p_threads
  /\ UNCHANGED <<head_proc, p_next, p_pid, p_user, next_pid, liveP,
                 current_process, current_thread, cpu, fault>>

\* create_proc(..., add_to_queue = true, is_user): the new process goes to the
\* head of the queue.
create_proc(p, t, is_user) ==
  /\ ~fault /\ p \in Procs \ liveP /\ next_pid < MaxPid
  /\ NewThread(p, t, is_user)
  /\ liveP' = liveP \cup {p}
  /\ p_pid' = [p_pid EXCEPT ![p] = next_pid]
  /\ next_pid' = next_pid + 1
  /\ p_user' = [p_user EXCEPT ![p] = is_user]
  /\ p_threads' = [p_threads EXCEPT ![p] = t]
  /\ p_next' = [p_next EXCEPT ![p] = head_proc]
  /\ head_proc' = p
  /\ UNCHANGED <<current_process, current_thread, cpu, fault>>

-----------------------------------------------------------------------------
(* Running and exiting *)

\* The current thread gets on with its work.
Run ==
  /\ ~fault /\ current_thread \in Threads
  /\ t_status[current_thread] # "DEAD" /\ work[current_thread] < MaxWork
  /\ cpu' = cpu + 1
  /\ work' = [work EXCEPT ![current_thread] = @ + 1]
  /\ UNCHANGED <<procVars, threadVars, current_process, current_thread, current_vmm, fault>>

\* kernel_thread_wrapper after thread_start, or system call 60.
Exit ==
  /\ ~fault /\ current_thread \in Threads
  /\ t_status' = [t_status EXCEPT ![current_thread] = "DEAD"]
  /\ UNCHANGED <<procVars, t_next, t_parent, t_tid, t_context, t_stack, next_tid, liveT, cpuVars>>

-----------------------------------------------------------------------------
(* Reaping.  Walking a list to the predecessor of an element that is not in *)
(* it, and freeing a region that is not listed in the current address       *)
(* space, end in a NULL dereference.                                        *)

\* vmm_free(t->stack) looks in current_vmm's list only.
StackListed(t) == t_stack[t] = "kernel" \/ (t_stack[t] = "user" /\ current_vmm = t_parent[t])

InThreadList(t) ==
  \/ p_threads[t_parent[t]] = t
  \/ \E s \in liveT : t_parent[s] = t_parent[t] /\ t_next[s] = t

InQueue(p) == head_proc = p \/ \E q \in liveP : p_next[q] = p

\* Unlinking t empties its process's list.
IsLastThread(t) == p_threads[t_parent[t]] = t /\ t_next[t] = NULL

\* The ASSERT of reap_thread, the two list walks and the two kinds of vmm_free.
ReapFaults(t) ==
  \/ p_threads[t_parent[t]] = NULL
  \/ ~StackListed(t)
  \/ ~InThreadList(t)
  \/ /\ IsLastThread(t)
     /\ ~InQueue(t_parent[t]) \/ (p_user[t_parent[t]] /\ current_vmm # t_parent[t])

\* Mutant of reap_process: a process that is not the head is not unlinked.
ReapHeadOnly(p) ==
  /\ head_proc' = IF head_proc = p THEN p_next[p] ELSE head_proc
  /\ p_user' = [p_user EXCEPT ![p] = FALSE]
  /\ liveP' = liveP \ {p}
  /\ UNCHANGED p_next

reap_process(p) ==
  /\ head_proc' = IF head_proc = p THEN p_next[p] ELSE head_proc
  /\ p_next' = [q \in AllProcs |-> IF head_proc # p /\ q \in liveP /\ p_next[q] = p
                                   THEN p_next[p] ELSE p_next[q]]
  /\ p_user' = [p_user EXCEPT ![p] = FALSE]
  /\ liveP' = liveP \ {p}

\* Mutant of reap_thread: the predecessor of t keeps its link.
ReapThreadKeepLink(t) ==
  LET p == t_parent[t] IN
  /\ t_stack' = [t_stack EXCEPT ![t] = "none"]
  /\ p_threads' = [p_threads EXCEPT ![p] = IF @ = t THEN t_next[t] ELSE @]
  /\ liveT' = liveT \ {t}
  /\ IF IsLastThread(t) THEN reap_process(p) ELSE UNCHANGED <<head_proc, p_next, p_user, liveP>>
  /\ UNCHANGED t_next

reap_thread(t) ==
  LET p == t_parent[t] IN
  /\ t_stack' = [t_stack EXCEPT ![t] = "none"]
  /\ p_threads' = [p_threads EXCEPT ![p] = IF @ = t THEN t_next[t] ELSE @]
  /\ t_next' = [s \in AllThreads |-> IF /\ p_threads[p] # t /\ s \in liveT
                                        /\ t_parent[s] = p /\ t_next[s] = t
                                     THEN t_next[t] ELSE t_next[s]]
  /\ liveT' = liveT \ {t}
  /\ IF IsLastThread(t) THEN reap_process(p) ELSE UNCHANGED <<head_proc, p_next, p_user, liveP>>

-----------------------------------------------------------------------------
(* schedule *)

\* Mutant of SaveContext: the registers go to the first thread of the process.
SaveContextInFirst ==
  t_context' = IF current_thread # p_threads[Idle]
               THEN [t_context EXCEPT ![p_threads[current_process]] = cpu] ELSE t_context

\* The registers are saved, except for the idle thread.
SaveContext ==
  t_context' = IF current_thread # p_threads[Idle]
               THEN [t_context EXCEPT ![current_thread] = cpu] ELSE t_context

\* Mutant of SwitchThread: switch_process does not load the address space.
SwitchKeepVmm(old) ==
  LET sibling == t_next[current_thread]
      st == [t_status EXCEPT ![current_thread] = old]
      switch_process ==
        IF head_proc' = NULL THEN Idle
        ELSE IF p_next'[current_process] = NULL THEN head_proc' ELSE p_next'[current_process]
  IN
  /\ current_process' = IF sibling # NULL THEN current_process ELSE switch_process
  /\ current_thread' = IF sibling # NULL THEN sibling ELSE p_threads'[current_process']
  /\ UNCHANGED current_vmm
  /\ t_status' = IF st[current_thread'] = "READY"
                 THEN [st EXCEPT ![current_thread'] = "RUNNING"] ELSE st
  /\ cpu' = t_context'[current_thread']

\* Mutant of SwitchThread: the end of the queue leads to the idle process.
SwitchNoWrap(old) ==
  LET sibling == t_next[current_thread]
      st == [t_status EXCEPT ![current_thread] = old]
      switch_process ==
        IF head_proc' = NULL \/ (current_process # Idle /\ p_next'[current_process] = NULL)
        THEN Idle
        ELSE IF p_next'[current_process] = NULL THEN head_proc' ELSE p_next'[current_process]
  IN
  /\ current_process' = IF sibling # NULL THEN current_process ELSE switch_process
  /\ current_thread' = IF sibling # NULL THEN sibling ELSE p_threads'[current_process']
  /\ current_vmm' = IF sibling # NULL THEN current_vmm ELSE current_process'
  /\ t_status' = IF st[current_thread'] = "READY"
                 THEN [st EXCEPT ![current_thread'] = "RUNNING"] ELSE st
  /\ cpu' = t_context'[current_thread']

\* Mutant of SwitchThread: the queue is always entered at its head.
SwitchToHead(old) ==
  LET sibling == t_next[current_thread]
      st == [t_status EXCEPT ![current_thread] = old]
      switch_process == IF head_proc' = NULL THEN Idle ELSE head_proc'
  IN
  /\ current_process' = IF sibling # NULL THEN current_process ELSE switch_process
  /\ current_thread' = IF sibling # NULL THEN sibling ELSE p_threads'[current_process']
  /\ current_vmm' = IF sibling # NULL THEN current_vmm ELSE current_process'
  /\ t_status' = IF st[current_thread'] = "READY"
                 THEN [st EXCEPT ![current_thread'] = "RUNNING"] ELSE st
  /\ cpu' = t_context'[current_thread']

\* Mutant of SwitchThread: the old thread keeps its status.
SwitchKeepRunning(old) ==
  LET sibling == t_next[current_thread]
      st == [t_status EXCEPT ![current_thread] = IF old = "DEAD" THEN old ELSE @]
      switch_process ==
        IF head_proc' = NULL THEN Idle
        ELSE IF p_next'[current_process] = NULL THEN head_proc' ELSE p_next'[current_process]
  IN
  /\ current_process' = IF sibling # NULL THEN current_process ELSE switch_process
  /\ current_thread' = IF sibling # NULL THEN sibling ELSE p_threads'[current_process']
  /\ current_vmm' = IF sibling # NULL THEN current_vmm ELSE current_process'
  /\ t_status' = IF st[current_thread'] = "READY"
                 THEN [st EXCEPT ![current_thread'] = "RUNNING"] ELSE st
  /\ cpu' = t_context'[current_thread']

\* The next thread of the process, or the first one of the next process; then
\* a READY thread becomes RUNNING.  t_status[current_thread] is old when this
\* part of schedule begins.
SwitchThread(old) ==
  LET sibling == t_next[current_thread]
      st == [t_status EXCEPT ![current_thread] = old]
      switch_process ==
        IF head_proc' = NULL THEN Idle
        ELSE IF p_next'[current_process] = NULL THEN head_proc' ELSE p_next'[current_process]
  IN
  /\ current_process' = IF sibling # NULL THEN current_process ELSE switch_process
  /\ current_thread' = IF sibling # NULL THEN sibling ELSE p_threads'[current_process']
  /\ current_vmm' = IF sibling # NULL THEN current_vmm ELSE current_process'
  /\ t_status' = IF st[current_thread'] = "READY"
                 THEN [st EXCEPT ![current_thread'] = "RUNNING"] ELSE st
  /\ cpu' = t_context'[current_thread']

\* schedule for a thread that goes on living.
Preempt ==
  /\ ~fault /\ t_status[current_thread] # "DEAD"
  /\ SaveContext
  /\ UNCHANGED <<procVars, t_next, t_stack, liveT>>
  /\ SwitchThread("READY")
  /\ UNCHANGED <<t_parent, t_tid, next_tid, work, fault>>

\* schedule for a thread that has exited.  After a fault nothing runs any more.
Reap ==
  /\ ~fault /\ t_status[current_thread] = "DEAD"
  /\ fault' = ReapFaults(current_thread)
  /\ SaveContext
  /\ reap_thread(current_thread)
  /\ SwitchThread("DEAD")
  /\ UNCHANGED <<p_pid, next_pid, t_parent, t_tid, next_tid, work>>

schedule == Preempt \/ Reap

Next ==
  \/ \E p \in Procs, t \in Threads, is_user \in BOOLEAN : create_proc(p, t, is_user)
  \/ \E p \in Procs, t \in Threads : create_thread(p, t)
  \/ Run
  \/ Exit
  \/ schedule

\* Interrupts that reach schedule keep coming.
Fairness == WF_vars(schedule)

Spec == Init /\ [][Next]_vars
FairSpec == Spec /\ Fairness

-----------------------------------------------------------------------------
(* Properties *)

\* Every field of every block has its type.
TypeOK ==
  /\ head_proc \in Procs \cup {NULL}
  /\ current_process \in AllProcs /\ current_thread \in AllThreads
  /\ current_vmm \in AllProcs \cup {Initial}
  /\ p_next \in [AllProcs -> Procs \cup {NULL}]
  /\ p_threads \in [AllProcs -> AllThreads \cup {NULL}]
  /\ p_pid \in [AllProcs -> Nat] /\ next_pid \in Nat
  /\ p_user \in [AllProcs -> BOOLEAN]
  /\ t_next \in [AllThreads -> Threads \cup {NULL}]
  /\ t_parent \in [AllThreads -> AllProcs \cup {NULL}]
  /\ t_tid \in [AllThreads -> Nat] /\ next_tid \in Nat
  /\ t_status \in [AllThreads -> {"READY", "RUNNING", "DEAD"}]
  /\ t_context \in [AllThreads -> Nat] /\ cpu \in Nat /\ work \in [AllThreads -> Nat]
  /\ t_stack \in [AllThreads -> {"none", "user", "kernel"}]
  /\ liveP \subseteq Procs /\ liveT \subseteq Threads
  /\ fault \in BOOLEAN

\* schedule never leaves the processor with a freed block: the current thread is
\* allocated, it belongs to the current process, which is allocated too, and
\* whose address space is the current one.  Only kernel_start, until its first
\* schedule, may run in the address space of vmm_init instead.
CurrentIsLive ==
  /\ current_thread \in liveT \cup {IdleThread}
  /\ current_process \in liveP \cup {Idle}
  /\ t_parent[current_thread] = current_process
  /\ \/ current_vmm = current_process
     \/ current_vmm = Initial /\ current_thread = IdleThread /\ t_status[IdleThread] = "READY"

\* The queue of create_proc and reap_process links every allocated process
\* exactly once, the newest first: no process is lost and none is left
\* dangling, whichever one was unlinked.
QueueLinksLiveProcesses ==
  /\ head_proc = NULL => liveP = {}
  /\ head_proc # NULL => /\ head_proc \in liveP
                         /\ \A q \in liveP : p_pid[q] <= p_pid[head_proc]
  /\ \A p \in liveP :
       /\ p_next[p] = NULL => \A q \in liveP : p_pid[p] <= p_pid[q]
       /\ p_next[p] # NULL =>
            /\ p_next[p] \in liveP /\ p_pid[p_next[p]] < p_pid[p]
            /\ \A q \in liveP : p_pid[q] < p_pid[p] => p_pid[q] <= p_pid[p_next[p]]

\* The list of a process links its allocated threads exactly once, the oldest
\* first, and a process in the queue has at least one thread.
ListsLinkLiveThreads ==
  \A p \in liveP :
    /\ p_threads[p] \in liveT /\ t_parent[p_threads[p]] = p
    /\ \A t \in liveT : t_parent[t] = p =>
         /\ t_tid[p_threads[p]] <= t_tid[t]
         /\ t_next[t] = NULL => \A s \in liveT : t_parent[s] = p => t_tid[s] <= t_tid[t]
         /\ t_next[t] # NULL =>
              /\ t_next[t] \in liveT /\ t_parent[t_next[t]] = p
              /\ t_tid[t] < t_tid[t_next[t]]
              /\ \A s \in liveT : t_parent[s] = p /\ t_tid[t] < t_tid[s]
                                  => t_tid[t_next[t]] <= t_tid[s]

\* Only the current thread is RUNNING or DEAD: every other thread can be given
\* the processor, and an exited thread never is again.
OthersAreReady == \A t \in liveT : t_status[t] # "READY" => t = current_thread

\* A thread resumes exactly where it was interrupted: what schedule saved is its
\* real progress, for every thread but the current one, whose progress is in
\* the registers.
ContextsAreKept ==
  /\ cpu = work[current_thread]
  /\ \A t \in liveT \ {current_thread} : t_context[t] = work[t]

\* scheduler.c:221: the ASSERT of reap_thread "Should never happen because that
\* would make this a dangling thread that is not tracked by its parent"; nor do
\* the walks of reap_thread, reap_process and vmm_free run off their lists.
NoReapFault == ~fault

\* The lists implement a plain pool of threads: schedule hands the processor to a
\* thread that was created and has not exited, to the idle thread only when
\* there is none, and no thread leaves the pool but by exiting.
RQ == INSTANCE RunQueue WITH ready <- liveT \ {current_thread},
                             running <- current_thread,
                             exited <- t_status[current_thread] = "DEAD"

ImplementsRunQueue == RQ!Spec

\* Round robin starves nobody: a thread that is ready gets the processor.
EveryReadyThreadRuns ==
  \A t \in Threads : (t \in liveT /\ t_status[t] = "READY") ~> (current_thread = t)

=============================================================================
