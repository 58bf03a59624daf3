-------------------------- MODULE SchedulerProofs --------------------------
(***************************************************************************)
(* Proofs about Scheduler, for any number of blocks and of creations.      *)
(*                                                                         *)
(* The lists are described by local facts about neighbours, ordered by pid *)
(* and by tid, and by the existence of a predecessor; no induction along a *)
(* list is needed.                                                         *)
(***************************************************************************)
EXTENDS Scheduler, TLAPS

-----------------------------------------------------------------------------
(* The inductive invariant *)

\* The queue: linked by decreasing pid, every process has a predecessor.
QInv ==
  /\ QueueLinksLiveProcesses
  /\ \A p \in liveP : InQueue(p)
  /\ \A p, q \in liveP : p_pid[p] = p_pid[q] => p = q
  /\ \A p \in liveP : p_pid[p] < next_pid

\* A thread ends p's list.
HasTail(p) == \E t \in liveT : t_parent[t] = p /\ t_next[t] = NULL

\* The thread lists: linked by increasing tid, every thread has a predecessor,
\* a live parent and a listed stack.
TInv ==
  /\ ListsLinkLiveThreads
  /\ \A p \in liveP : HasTail(p)
  /\ \A t \in liveT : InThreadList(t) /\ t_parent[t] \in liveP
  /\ \A s, t \in liveT : t_tid[s] = t_tid[t] => s = t
  /\ \A t \in liveT : t_tid[t] < next_tid
  /\ \A t \in liveT : t_stack[t] \in {"user", "kernel"}

\* The idle process is what sched_init made it.
IdleInv ==
  /\ p_threads[Idle] = IdleThread /\ p_next[Idle] = NULL
  /\ t_next[IdleThread] = NULL /\ t_parent[IdleThread] = Idle
  /\ t_status[IdleThread] # "DEAD"
  /\ work[IdleThread] = 0 /\ t_context[IdleThread] = 0

CInv == CurrentIsLive /\ OthersAreReady /\ ContextsAreKept /\ ~fault

SchedInv == TypeOK /\ QInv /\ TInv /\ IdleInv /\ CInv

-----------------------------------------------------------------------------
(* The queue *)

\* Pushing a fresh block with the next pid keeps the queue well linked.
LEMMA PushKeepsQueue ==
  ASSUME TypeOK, QInv, NEW p \in Procs \ liveP,
         liveP' = liveP \cup {p},
         p_pid' = [p_pid EXCEPT ![p] = next_pid], next_pid' = next_pid + 1,
         p_next' = [p_next EXCEPT ![p] = head_proc], head_proc' = p
  PROVE  QInv'
<1>0. /\ p \in AllProcs /\ p # NULL /\ next_pid \in Nat
      /\ p_pid \in [AllProcs -> Nat] /\ p_next \in [AllProcs -> Procs \cup {NULL}]
      /\ \A q \in liveP : q \in AllProcs /\ q # NULL /\ q # p
  BY SchedulerAssumption DEF TypeOK, AllProcs
<1>1. /\ p_pid'[p] = next_pid /\ p_next'[p] = head_proc
      /\ \A q \in liveP : p_pid'[q] = p_pid[q] /\ p_next'[q] = p_next[q]
  BY <1>0
<1>2. \A q \in liveP : p_pid[q] \in Nat /\ p_pid[q] < next_pid
  BY <1>0 DEF QInv
<1>3. QueueLinksLiveProcesses'
  <2>1. ASSUME NEW q \in liveP'
        PROVE  p_pid'[q] <= p_pid'[head_proc']
    BY <1>0, <1>1, <1>2
  <2>2. ASSUME NEW q \in liveP
        PROVE  /\ p_next'[q] = NULL => \A r \in liveP' : p_pid'[q] <= p_pid'[r]
               /\ p_next'[q] # NULL =>
                    /\ p_next'[q] \in liveP' /\ p_pid'[p_next'[q]] < p_pid'[q]
                    /\ \A r \in liveP' : p_pid'[r] < p_pid'[q] => p_pid'[r] <= p_pid'[p_next'[q]]
    BY <1>0, <1>1, <1>2 DEF QInv, QueueLinksLiveProcesses
  <2>3. /\ p_next'[p] = NULL => \A r \in liveP' : p_pid'[p] <= p_pid'[r]
        /\ p_next'[p] # NULL =>
             /\ p_next'[p] \in liveP' /\ p_pid'[p_next'[p]] < p_pid'[p]
             /\ \A r \in liveP' : p_pid'[r] < p_pid'[p] => p_pid'[r] <= p_pid'[p_next'[p]]
    BY <1>0, <1>1, <1>2 DEF QInv, QueueLinksLiveProcesses
  <2>. QED
    BY <1>0, <2>1, <2>2, <2>3 DEF QueueLinksLiveProcesses
<1>4. \A q \in liveP' : InQueue(q)'
  BY <1>0, <1>1 DEF QInv, InQueue
<1>5. \A q, r \in liveP' : p_pid'[q] = p_pid'[r] => q = r
  BY <1>0, <1>1, <1>2 DEF QInv
<1>6. \A q \in liveP' : p_pid'[q] < next_pid'
  BY <1>0, <1>1, <1>2
<1>. QED
  BY <1>3, <1>4, <1>5, <1>6 DEF QInv

\* Unlinking a process, wherever it is, keeps the queue well linked.
LEMMA UnlinkKeepsQueue ==
  ASSUME TypeOK, QInv, NEW p \in liveP, reap_process(p), UNCHANGED <<p_pid, next_pid>>
  PROVE  QInv'
<1>0. /\ liveP \subseteq AllProcs /\ NULL \notin liveP /\ next_pid \in Nat
      /\ p_pid \in [AllProcs -> Nat] /\ p_next \in [AllProcs -> Procs \cup {NULL}]
      /\ liveP' = liveP \ {p}
  BY SchedulerAssumption DEF TypeOK, AllProcs, reap_process
<1>1. /\ head_proc \in liveP
      /\ \A q \in liveP : p_pid[q] \in Nat /\ p_pid[q] <= p_pid[head_proc]
  BY <1>0 DEF QInv, QueueLinksLiveProcesses
<1>2. \A q \in liveP :
       /\ p_next[q] = NULL => \A r \in liveP : p_pid[q] <= p_pid[r]
       /\ p_next[q] # NULL =>
            /\ p_next[q] \in liveP /\ p_pid[p_next[q]] < p_pid[q]
            /\ \A r \in liveP : p_pid[r] < p_pid[q] => p_pid[r] <= p_pid[p_next[q]]
  BY DEF QInv, QueueLinksLiveProcesses
<1>3. \A q, r \in liveP : p_pid[q] = p_pid[r] => q = r
  BY DEF QInv
<1>4. \A q \in liveP : p_next[q] # q
  BY <1>0, <1>1, <1>2
<1>5. head_proc = p => \A q \in liveP : p_next[q] # p
  BY <1>0, <1>1, <1>2
<1>6. \A q \in liveP' : p_next'[q] = IF p_next[q] = p THEN p_next[p] ELSE p_next[q]
  BY <1>0, <1>5 DEF reap_process
<1>7. head_proc' = IF head_proc = p THEN p_next[p] ELSE head_proc
  BY DEF reap_process
<1>8. QueueLinksLiveProcesses'
  <2>1. head_proc' = NULL => liveP' = {}
    BY <1>0, <1>1, <1>2, <1>3, <1>7
  <2>2. head_proc' # NULL => /\ head_proc' \in liveP'
                             /\ \A q \in liveP' : p_pid[q] <= p_pid[head_proc']
    BY <1>0, <1>1, <1>2, <1>3, <1>4, <1>7
  <2>3. ASSUME NEW q \in liveP', p_next'[q] = NULL, NEW r \in liveP'
        PROVE  p_pid[q] <= p_pid[r]
    BY <1>0, <1>1, <1>2, <1>3, <1>6, <2>3
  <2>4. ASSUME NEW q \in liveP', p_next'[q] # NULL
        PROVE  /\ p_next'[q] \in liveP' /\ p_pid[p_next'[q]] < p_pid[q]
               /\ \A r \in liveP' : p_pid[r] < p_pid[q] => p_pid[r] <= p_pid[p_next'[q]]
    BY <1>0, <1>1, <1>2, <1>3, <1>4, <1>6, <2>4
  <2>. QED
    BY <2>1, <2>2, <2>3, <2>4 DEF QueueLinksLiveProcesses
<1>9. ASSUME NEW q \in liveP'
      PROVE  InQueue(q)'
  <2>1. q \in liveP /\ q # p /\ InQueue(q)
    BY <1>0 DEF QInv
  <2>2. CASE head_proc = q
    BY <1>7, <2>1, <2>2 DEF InQueue
  <2>3. CASE p_next[p] = q
    <3>1. CASE head_proc = p
      BY <1>7, <2>3, <3>1 DEF InQueue
    <3>2. CASE head_proc # p
      <4>1. PICK r \in liveP : p_next[r] = p
        BY <3>2 DEF QInv, InQueue
      <4>2. r \in liveP' /\ p_next'[r] = q
        BY <1>0, <1>4, <1>6, <2>3, <4>1
      <4>. QED
        BY <4>2 DEF InQueue
    <3>. QED
      BY <3>1, <3>2
  <2>4. ASSUME NEW r \in liveP, r # p, p_next[r] = q
        PROVE  InQueue(q)'
    BY <1>0, <1>6, <2>1, <2>4 DEF InQueue
  <2>. QED
    BY <2>1, <2>2, <2>3, <2>4 DEF InQueue
<1>. QED
  BY <1>0, <1>3, <1>8, <1>9 DEF QInv

-----------------------------------------------------------------------------
(* The thread lists *)

\* The lists of the processes, thread by thread.
ThreadFacts ==
  /\ \A p \in liveP : p_threads[p] \in liveT /\ t_parent[p_threads[p]] = p
  /\ \A t \in liveT :
       /\ t_parent[t] \in liveP
       /\ t_tid[p_threads[t_parent[t]]] <= t_tid[t]
       /\ t_next[t] = NULL => \A s \in liveT : t_parent[s] = t_parent[t] => t_tid[s] <= t_tid[t]
       /\ t_next[t] # NULL =>
            /\ t_next[t] \in liveT /\ t_parent[t_next[t]] = t_parent[t]
            /\ t_tid[t] < t_tid[t_next[t]]
            /\ \A s \in liveT : t_parent[s] = t_parent[t] /\ t_tid[t] < t_tid[s]
                                => t_tid[t_next[t]] <= t_tid[s]
  /\ \A s, t \in liveT : t_tid[s] = t_tid[t] => s = t
  /\ \A t \in liveT : t_tid[t] < next_tid
  /\ \A t \in liveT : t_stack[t] \in {"user", "kernel"}

\* ThreadFacts says the same as TInv, but for the ends and the predecessors.
LEMMA TInvIsThreadFacts ==
  TInv <=> ThreadFacts /\ (\A t \in liveT : InThreadList(t)) /\ (\A p \in liveP : HasTail(p))
<1>1. TInv => ThreadFacts /\ (\A t \in liveT : InThreadList(t)) /\ (\A p \in liveP : HasTail(p))
  BY DEF TInv, ThreadFacts, ListsLinkLiveThreads
<1>2. ThreadFacts /\ (\A t \in liveT : InThreadList(t)) /\ (\A p \in liveP : HasTail(p)) => TInv
  BY DEF TInv, ThreadFacts, ListsLinkLiveThreads
<1>. QED
  BY <1>1, <1>2

\* Appending a fresh block with the next tid keeps the lists well linked; the
\* process is an old one or a new one with this thread only.
LEMMA AppendKeepsLists ==
  ASSUME TypeOK, TInv, NEW p \in Procs, NEW t \in Threads, NEW is_user \in BOOLEAN,
         NewThread(p, t, is_user), liveP' = liveP \cup {p},
         \/ p \in liveP /\ p_threads' = p_threads
         \/ p \notin liveP /\ p_threads' = [p_threads EXCEPT ![p] = t]
  PROVE  TInv'
<1>0. /\ t \in AllThreads /\ t \notin liveT /\ t # NULL /\ next_tid \in Nat /\ next_tid' = next_tid + 1
      /\ liveT' = liveT \cup {t} /\ liveT \subseteq AllThreads /\ NULL \notin liveT
      /\ liveP \subseteq AllProcs /\ p \in AllProcs
      /\ \A s \in liveT : t_tid[s] \in Nat
  BY SchedulerAssumption DEF TypeOK, AllThreads, AllProcs, NewThread
<1>1. ThreadFacts /\ (\A s \in liveT : InThreadList(s)) /\ (\A q \in liveP : HasTail(q))
  BY TInvIsThreadFacts
<1>2. /\ t_parent'[t] = p /\ t_tid'[t] = next_tid /\ t_next'[t] = NULL
      /\ t_stack'[t] \in {"user", "kernel"}
      /\ \A s \in liveT : t_parent'[s] = t_parent[s] /\ t_tid'[s] = t_tid[s] /\ t_stack'[s] = t_stack[s]
  BY <1>0 DEF NewThread, TypeOK
<1>3. \A s \in liveT : t_next'[s] = IF t_parent[s] = p /\ t_next[s] = NULL THEN t ELSE t_next[s]
  BY <1>0 DEF NewThread
<1>4. \A q \in liveP : p_threads'[q] = p_threads[q]
  BY <1>0 DEF TypeOK
<1>5. p \notin liveP => p_threads'[p] = t /\ \A s \in liveT : t_parent[s] # p
  BY <1>0, <1>1 DEF TypeOK, ThreadFacts
<1>6. \A q \in liveP' : p_threads'[q] \in liveT' /\ t_parent'[p_threads'[q]] = q
  BY <1>0, <1>1, <1>2, <1>4, <1>5 DEF ThreadFacts
<1>7. \A s \in liveT : t_tid[s] < next_tid
  BY <1>1 DEF ThreadFacts
<1>8. ASSUME NEW s \in liveT'
      PROVE  /\ t_parent'[s] \in liveP'
             /\ t_tid'[p_threads'[t_parent'[s]]] <= t_tid'[s]
             /\ t_next'[s] = NULL => \A u \in liveT' : t_parent'[u] = t_parent'[s] => t_tid'[u] <= t_tid'[s]
             /\ t_next'[s] # NULL =>
                  /\ t_next'[s] \in liveT' /\ t_parent'[t_next'[s]] = t_parent'[s]
                  /\ t_tid'[s] < t_tid'[t_next'[s]]
                  /\ \A u \in liveT' : t_parent'[u] = t_parent'[s] /\ t_tid'[s] < t_tid'[u]
                                       => t_tid'[t_next'[s]] <= t_tid'[u]
  <2>1. CASE s = t
    BY <1>0, <1>1, <1>2, <1>4, <1>5, <1>7, <2>1 DEF ThreadFacts
  <2>2. CASE s \in liveT /\ t_parent[s] = p /\ t_next[s] = NULL
    BY <1>0, <1>1, <1>2, <1>3, <1>4, <1>5, <1>7, <2>2 DEF ThreadFacts
  <2>3. CASE s \in liveT /\ ~(t_parent[s] = p /\ t_next[s] = NULL)
    BY <1>0, <1>1, <1>2, <1>3, <1>4, <1>5, <1>7, <2>3 DEF ThreadFacts
  <2>. QED
    BY <1>0, <2>1, <2>2, <2>3
<1>9. ASSUME NEW s \in liveT'
      PROVE  InThreadList(s)'
  <2>1. CASE s = t /\ p \notin liveP
    BY <1>2, <1>5, <2>1 DEF InThreadList
  <2>2. CASE s = t /\ p \in liveP
    <3>1. \E u \in liveT : t_parent[u] = p /\ t_next[u] = NULL
      BY <1>1, <2>2 DEF HasTail
    <3>. QED
      BY <1>0, <1>2, <1>3, <2>2, <3>1 DEF InThreadList
  <2>3. CASE s \in liveT
    BY <1>0, <1>1, <1>2, <1>3, <1>4, <2>3 DEF InThreadList, ThreadFacts
  <2>. QED
    BY <1>0, <2>1, <2>2, <2>3
<1>10. /\ \A s, u \in liveT' : t_tid'[s] = t_tid'[u] => s = u
       /\ \A s \in liveT' : t_tid'[s] < next_tid'
       /\ \A s \in liveT' : t_stack'[s] \in {"user", "kernel"}
  <2>1. \A s, u \in liveT : t_tid[s] = t_tid[u] => s = u
    BY <1>1 DEF ThreadFacts
  <2>2. \A s \in liveT : t_stack[s] \in {"user", "kernel"}
    BY <1>1 DEF ThreadFacts
  <2>3. \A s, u \in liveT' : t_tid'[s] = t_tid'[u] => s = u
    BY <1>0, <1>2, <1>7, <2>1
  <2>4. \A s \in liveT' : t_tid'[s] < next_tid'
    BY <1>0, <1>2, <1>7
  <2>5. \A s \in liveT' : t_stack'[s] \in {"user", "kernel"}
    BY <1>0, <1>2, <2>2
  <2>. QED
    BY <2>3, <2>4, <2>5
<1>11. ThreadFacts'
  BY <1>6, <1>8, <1>10 DEF ThreadFacts
<1>12. ASSUME NEW q \in liveP'
       PROVE  HasTail(q)'
  <2>1. CASE q = p
    BY <1>0, <1>2, <2>1 DEF HasTail
  <2>2. CASE q # p
    BY <1>0, <1>1, <1>2, <1>3, <2>2 DEF HasTail
  <2>. QED
    BY <2>1, <2>2
<1>. QED
  BY <1>9, <1>11, <1>12 DEF TInv, ThreadFacts, ListsLinkLiveThreads

\* Unlinking a thread that is not the last one keeps the lists well linked.
LEMMA UnlinkKeepsLists ==
  ASSUME TypeOK, TInv, NEW t \in liveT, ~IsLastThread(t), reap_thread(t),
         UNCHANGED <<t_parent, t_tid, next_tid>>
  PROVE  TInv'
<1>. DEFINE p == t_parent[t]
<1>0. /\ liveT' = liveT \ {t} /\ liveT \subseteq AllThreads /\ NULL \notin liveT
      /\ liveP' = liveP /\ liveP \subseteq AllProcs /\ p \in liveP
      /\ \A s \in liveT : t_tid[s] \in Nat
  BY SchedulerAssumption DEF TypeOK, AllThreads, AllProcs, reap_thread, TInv
<1>1. ThreadFacts /\ (\A s \in liveT : InThreadList(s)) /\ (\A q \in liveP : HasTail(q))
  BY TInvIsThreadFacts
<1>2. \A s \in liveT : s # t => t_stack'[s] = t_stack[s]
  BY <1>0 DEF reap_thread, TypeOK
<1>3. /\ p_threads'[p] = IF p_threads[p] = t THEN t_next[t] ELSE p_threads[p]
      /\ \A q \in liveP : q # p => p_threads'[q] = p_threads[q]
  BY <1>0 DEF reap_thread, TypeOK
<1>4. \A s \in liveT : t_next[s] # s
  BY <1>0, <1>1 DEF ThreadFacts
<1>5. p_threads[p] = t => \A s \in liveT : t_next[s] # t
  BY <1>0, <1>1 DEF ThreadFacts
<1>6. \A s \in liveT' : t_next'[s] = IF t_next[s] = t THEN t_next[t] ELSE t_next[s]
  <2>1. \A s \in liveT : t_next[s] = t => t_parent[s] = p
    BY <1>0, <1>1 DEF ThreadFacts
  <2>2. \A s \in liveT : t_next'[s] = IF p_threads[p] # t /\ t_parent[s] = p /\ t_next[s] = t
                                      THEN t_next[t] ELSE t_next[s]
    BY <1>0 DEF reap_thread
  <2>. QED
    BY <1>0, <1>5, <2>1, <2>2
<1>7. p_threads[p] = t => t_next[t] # NULL
  BY DEF IsLastThread
<1>8. \A q \in liveP : p_threads'[q] \in liveT' /\ t_parent[p_threads'[q]] = q
  BY <1>0, <1>1, <1>3, <1>4, <1>7 DEF ThreadFacts
<1>9. ASSUME NEW s \in liveT'
      PROVE  t_tid[p_threads'[t_parent[s]]] <= t_tid[s]
  <2>1. CASE t_parent[s] = p /\ p_threads[p] = t
    <3>1. t_tid[t] < t_tid[s]
      BY <1>0, <1>1, <2>1 DEF ThreadFacts
    <3>. QED
      BY <1>0, <1>1, <1>3, <1>7, <2>1, <3>1 DEF ThreadFacts
  <2>2. CASE ~(t_parent[s] = p /\ p_threads[p] = t)
    BY <1>0, <1>1, <1>3, <2>2 DEF ThreadFacts
  <2>. QED
    BY <2>1, <2>2
<1>10. ASSUME NEW s \in liveT'
      PROVE  /\ t_next'[s] = NULL => \A u \in liveT' : t_parent[u] = t_parent[s] => t_tid[u] <= t_tid[s]
             /\ t_next'[s] # NULL =>
                  /\ t_next'[s] \in liveT' /\ t_parent[t_next'[s]] = t_parent[s]
                  /\ t_tid[s] < t_tid[t_next'[s]]
                  /\ \A u \in liveT' : t_parent[u] = t_parent[s] /\ t_tid[s] < t_tid[u]
                                       => t_tid[t_next'[s]] <= t_tid[u]
  <2>1. CASE t_next[s] = t
    <3>1. s \in liveT /\ t_parent[s] = p /\ t_tid[s] < t_tid[t] /\ t_next'[s] = t_next[t]
      BY <1>0, <1>1, <1>6, <2>1 DEF ThreadFacts
    <3>2. ASSUME NEW u \in liveT', t_parent[u] = p, t_tid[s] < t_tid[u]
          PROVE  t_tid[t] < t_tid[u]
      <4>1. u \in liveT /\ u # t /\ t_tid[u] \in Nat /\ t_tid[t] \in Nat
        BY <1>0
      <4>2. t_tid[t] <= t_tid[u]
        BY <1>0, <1>1, <2>1, <3>1, <3>2, <4>1 DEF ThreadFacts
      <4>3. t_tid[t] # t_tid[u]
        BY <1>1, <4>1 DEF ThreadFacts
      <4>. QED
        BY <4>1, <4>2, <4>3
    <3>. QED
      <4>1. t_next[t] = NULL => \A u \in liveT : t_parent[u] = p => t_tid[u] <= t_tid[t]
        BY <1>1 DEF ThreadFacts
      <4>2. t_next[t] # NULL =>
              /\ t_next[t] \in liveT /\ t_parent[t_next[t]] = p /\ t_tid[t] < t_tid[t_next[t]]
              /\ \A u \in liveT : t_parent[u] = p /\ t_tid[t] < t_tid[u] => t_tid[t_next[t]] <= t_tid[u]
        BY <1>1 DEF ThreadFacts
      <4>3. \A u \in liveT' : u \in liveT /\ t_tid[u] \in Nat /\ t_tid[s] \in Nat /\ t_tid[t] \in Nat
        BY <1>0, <3>1
      <4>4. t_next'[s] = NULL => \A u \in liveT' : t_parent[u] = t_parent[s] => t_tid[u] <= t_tid[s]
        BY <3>1, <3>2, <4>1, <4>3
      <4>5. t_next'[s] # NULL =>
              /\ t_next'[s] \in liveT' /\ t_parent[t_next'[s]] = t_parent[s]
              /\ t_tid[s] < t_tid[t_next'[s]]
        BY <1>0, <1>4, <3>1, <4>2
      <4>6. t_next'[s] # NULL =>
              \A u \in liveT' : t_parent[u] = t_parent[s] /\ t_tid[s] < t_tid[u]
                                => t_tid[t_next'[s]] <= t_tid[u]
        BY <3>1, <3>2, <4>2, <4>3
      <4>. QED
        BY <4>4, <4>5, <4>6
  <2>2. CASE t_next[s] # t
    BY <1>0, <1>1, <1>6, <2>2 DEF ThreadFacts
  <2>. QED
    BY <2>1, <2>2
<1>11. ThreadFacts'
  <2>1. /\ \A s \in liveT' : t_parent[s] \in liveP'
        /\ \A s, u \in liveT' : t_tid[s] = t_tid[u] => s = u
        /\ \A s \in liveT' : t_tid[s] < next_tid
        /\ \A s \in liveT' : t_stack'[s] \in {"user", "kernel"}
    BY <1>0, <1>1, <1>2 DEF ThreadFacts
  <2>2. t_parent' = t_parent /\ t_tid' = t_tid /\ next_tid' = next_tid /\ liveP' = liveP
    BY <1>0
  <2>. QED
    BY <1>8, <1>9, <1>10, <2>1, <2>2 DEF ThreadFacts
<1>12. ASSUME NEW s \in liveT'
       PROVE  InThreadList(s)'
  <2>1. CASE p_threads[t_parent[s]] = s
    BY <1>0, <1>1, <1>3, <2>1 DEF InThreadList, ThreadFacts
  <2>2. CASE t_next[t] = s
    <3>0. t_parent[s] = p
      BY <1>0, <1>1, <2>2 DEF ThreadFacts
    <3>1. CASE p_threads[p] = t
      BY <1>3, <2>2, <3>0, <3>1 DEF InThreadList
    <3>2. CASE p_threads[p] # t
      <4>1. PICK r \in liveT : t_parent[r] = p /\ t_next[r] = t
        BY <1>1, <3>2 DEF InThreadList
      <4>2. r \in liveT' /\ t_next'[r] = s
        BY <1>0, <1>4, <1>6, <2>2, <4>1
      <4>. QED
        BY <3>0, <4>1, <4>2 DEF InThreadList
    <3>. QED
      BY <3>1, <3>2
  <2>3. ASSUME NEW r \in liveT, r # t, t_parent[r] = t_parent[s], t_next[r] = s
        PROVE  InThreadList(s)'
    BY <1>0, <1>6, <2>3 DEF InThreadList
  <2>. QED
    BY <1>0, <1>1, <2>1, <2>2, <2>3 DEF InThreadList
<1>13. ASSUME NEW q \in liveP'
       PROVE  HasTail(q)'
  <2>1. PICK u \in liveT : t_parent[u] = q /\ t_next[u] = NULL
    BY <1>0, <1>1 DEF HasTail
  <2>2. CASE u # t
    BY <1>0, <1>6, <2>1, <2>2 DEF HasTail
  <2>3. CASE u = t
    <3>1. PICK r \in liveT : t_parent[r] = p /\ t_next[r] = t
      BY <1>1, <1>7, <2>1, <2>3 DEF InThreadList
    <3>2. r \in liveT' /\ t_next'[r] = NULL
      BY <1>0, <1>4, <1>6, <2>1, <2>3, <3>1
    <3>. QED
      BY <2>1, <2>3, <3>1, <3>2 DEF HasTail
  <2>. QED
    BY <2>2, <2>3
<1>. QED
  <2>1. ListsLinkLiveThreads'
    BY <1>11 DEF ThreadFacts, ListsLinkLiveThreads
  <2>2. /\ \A s \in liveT' : t_parent'[s] \in liveP'
        /\ \A s, u \in liveT' : t_tid'[s] = t_tid'[u] => s = u
        /\ \A s \in liveT' : t_tid'[s] < next_tid'
        /\ \A s \in liveT' : t_stack'[s] \in {"user", "kernel"}
    BY <1>11 DEF ThreadFacts
  <2>. QED
    BY <1>12, <1>13, <2>1, <2>2, Zenon DEF TInv

\* Unlinking the last thread removes its process, and leaves the lists of the
\* other processes as they were.
LEMMA LastUnlinkKeepsLists ==
  ASSUME TypeOK, TInv, NEW t \in liveT, IsLastThread(t), reap_thread(t),
         UNCHANGED <<t_parent, t_tid, next_tid>>
  PROVE  TInv'
<1>. DEFINE p == t_parent[t]
<1>0. /\ liveT' = liveT \ {t} /\ liveT \subseteq AllThreads /\ NULL \notin liveT
      /\ liveP' = liveP \ {p} /\ liveP \subseteq AllProcs /\ p \in liveP
      /\ \A s \in liveT : t_tid[s] \in Nat
  BY SchedulerAssumption DEF TypeOK, AllThreads, AllProcs, reap_thread, reap_process, TInv
<1>1. ThreadFacts /\ (\A s \in liveT : InThreadList(s)) /\ (\A q \in liveP : HasTail(q))
  BY TInvIsThreadFacts
<1>2. ASSUME NEW s \in liveT', t_parent[s] = p
      PROVE  FALSE
  <2>1. t_tid[t] <= t_tid[s] /\ t_tid[s] <= t_tid[t]
    BY <1>0, <1>1, <1>2 DEF ThreadFacts, IsLastThread
  <2>2. t_tid[s] \in Nat /\ t_tid[t] \in Nat /\ s \in liveT /\ s # t
    BY <1>0
  <2>3. \A u, v \in liveT : t_tid[u] = t_tid[v] => u = v
    BY <1>1, Zenon DEF ThreadFacts
  <2>. QED
    BY <2>1, <2>2, <2>3
<1>3. \A s \in liveT' : t_stack'[s] = t_stack[s] /\ t_next'[s] = t_next[s]
  BY <1>0 DEF reap_thread, TypeOK, IsLastThread
<1>4. \A q \in liveP' : p_threads'[q] = p_threads[q]
  BY <1>0 DEF reap_thread, TypeOK
<1>5. \A s \in liveT' : t_next[s] # t
  BY <1>0, <1>1, <1>2 DEF ThreadFacts
<1>6. ThreadFacts'
  <2>0. t_parent' = t_parent /\ t_tid' = t_tid /\ next_tid' = next_tid
    OBVIOUS
  <2>1. \A q \in liveP' : p_threads'[q] \in liveT' /\ t_parent'[p_threads'[q]] = q
    BY <1>0, <1>1, <1>4, <2>0 DEF ThreadFacts
  <2>2. ASSUME NEW s \in liveT'
        PROVE  /\ t_parent'[s] \in liveP'
               /\ t_tid'[p_threads'[t_parent'[s]]] <= t_tid'[s]
               /\ t_next'[s] = NULL => \A u \in liveT' : t_parent'[u] = t_parent'[s] => t_tid'[u] <= t_tid'[s]
               /\ t_next'[s] # NULL =>
                    /\ t_next'[s] \in liveT' /\ t_parent'[t_next'[s]] = t_parent'[s]
                    /\ t_tid'[s] < t_tid'[t_next'[s]]
                    /\ \A u \in liveT' : t_parent'[u] = t_parent'[s] /\ t_tid'[s] < t_tid'[u]
                                         => t_tid'[t_next'[s]] <= t_tid'[u]
    <3>1. s \in liveT /\ t_parent[s] # p /\ t_next'[s] = t_next[s] /\ t_next[s] # t
      BY <1>0, <1>2, <1>3, <1>5
    <3>2. /\ t_parent[s] \in liveP
          /\ t_tid[p_threads[t_parent[s]]] <= t_tid[s]
          /\ t_next[s] = NULL => \A u \in liveT : t_parent[u] = t_parent[s] => t_tid[u] <= t_tid[s]
          /\ t_next[s] # NULL =>
               /\ t_next[s] \in liveT /\ t_parent[t_next[s]] = t_parent[s]
               /\ t_tid[s] < t_tid[t_next[s]]
               /\ \A u \in liveT : t_parent[u] = t_parent[s] /\ t_tid[s] < t_tid[u]
                                   => t_tid[t_next[s]] <= t_tid[u]
      BY <1>1, <3>1, Zenon DEF ThreadFacts
    <3>3. t_parent[s] \in liveP' /\ p_threads'[t_parent[s]] = p_threads[t_parent[s]]
      BY <1>0, <1>4, <3>1, <3>2
    <3>. QED
      BY <1>0, <2>0, <3>1, <3>2, <3>3
  <2>3. /\ \A s, u \in liveT' : t_tid'[s] = t_tid'[u] => s = u
        /\ \A s \in liveT' : t_tid'[s] < next_tid'
        /\ \A s \in liveT' : t_stack'[s] \in {"user", "kernel"}
    <3>1. /\ \A s, u \in liveT : t_tid[s] = t_tid[u] => s = u
          /\ \A s \in liveT : t_tid[s] < next_tid
          /\ \A s \in liveT : t_stack[s] \in {"user", "kernel"}
      BY <1>1, Zenon DEF ThreadFacts
    <3>. QED
      BY <1>0, <1>3, <2>0, <3>1
  <2>. QED
    BY <2>1, <2>2, <2>3 DEF ThreadFacts
<1>7. ASSUME NEW s \in liveT'
      PROVE  InThreadList(s)'
  <2>1. s \in liveT /\ t_parent[s] \in liveP' /\ InThreadList(s)
    BY <1>0, <1>1, <1>2 DEF ThreadFacts
  <2>2. \A r \in liveT : t_parent[r] = t_parent[s] => r \in liveT'
    BY <1>0, <1>2
  <2>. QED
    BY <1>3, <1>4, <2>1, <2>2 DEF InThreadList
<1>8. ASSUME NEW q \in liveP'
      PROVE  HasTail(q)'
  <2>1. PICK u \in liveT : t_parent[u] = q /\ t_next[u] = NULL
    BY <1>0, <1>1 DEF HasTail
  <2>2. u \in liveT' /\ t_next'[u] = NULL /\ t_parent'[u] = q
    BY <1>0, <1>3, <2>1
  <2>. QED
    BY <2>2 DEF HasTail
<1>. QED
  <2>1. ListsLinkLiveThreads'
    BY <1>6 DEF ThreadFacts, ListsLinkLiveThreads
  <2>2. /\ \A s \in liveT' : t_parent'[s] \in liveP'
        /\ \A s, u \in liveT' : t_tid'[s] = t_tid'[u] => s = u
        /\ \A s \in liveT' : t_tid'[s] < next_tid'
        /\ \A s \in liveT' : t_stack'[s] \in {"user", "kernel"}
    BY <1>6 DEF ThreadFacts
  <2>. QED
    BY <1>7, <1>8, <2>1, <2>2, Zenon DEF TInv

-----------------------------------------------------------------------------
(* The actions *)

\* sched_init establishes the invariant.
LEMMA InitSchedInv == Init => SchedInv
<1>. SUFFICES ASSUME Init PROVE SchedInv
  OBVIOUS
<1>1. TypeOK
  <2>1. fault \in BOOLEAN /\ p_user \in [AllProcs -> BOOLEAN]
    BY DEF Init
  <2>. QED
    BY <2>1, SchedulerAssumption DEF Init, TypeOK, AllProcs, AllThreads
<1>2. QInv
  BY DEF Init, QInv, QueueLinksLiveProcesses
<1>3. TInv
  BY DEF Init, TInv, ListsLinkLiveThreads
<1>4. IdleInv
  BY DEF Init, IdleInv, AllProcs, AllThreads
<1>5. CInv
  BY DEF Init, CInv, CurrentIsLive, OthersAreReady, ContextsAreKept, AllProcs, AllThreads
<1>. QED
  BY <1>1, <1>2, <1>3, <1>4, <1>5 DEF SchedInv

\* What NewThread does to the threads that are already there, to the idle
\* thread and to the processor.
LEMMA NewThreadFrame ==
  ASSUME SchedInv, NEW p \in Procs, NEW t \in Threads, NEW is_user \in BOOLEAN,
         NewThread(p, t, is_user),
         UNCHANGED <<current_process, current_thread, cpu, fault>>, liveP \subseteq liveP',
         p_threads'[Idle] = p_threads[Idle], p_next'[Idle] = p_next[Idle]
  PROVE  IdleInv' /\ CInv'
<1>0. /\ t \in AllThreads /\ t \notin liveT /\ t # IdleThread /\ IdleThread \in AllThreads
      /\ liveT' = liveT \cup {t} /\ liveT \subseteq AllThreads /\ IdleThread \notin liveT
  BY SchedulerAssumption DEF SchedInv, TypeOK, AllThreads, NewThread
<1>1. current_thread # t /\ current_thread \in AllThreads
  BY <1>0 DEF SchedInv, CInv, CurrentIsLive
<1>2. \A s \in AllThreads : s # t =>
        /\ t_parent'[s] = t_parent[s] /\ t_status'[s] = t_status[s]
        /\ t_context'[s] = t_context[s] /\ work'[s] = work[s]
  BY <1>0 DEF NewThread, SchedInv, TypeOK
<1>3. /\ t_status'[t] = "READY" /\ t_context'[t] = 0 /\ work'[t] = 0
      /\ t_next'[IdleThread] = t_next[IdleThread]
  BY <1>0 DEF NewThread, SchedInv, TypeOK
<1>4. IdleInv'
  BY <1>0, <1>2, <1>3 DEF SchedInv, IdleInv
<1>5. CurrentIsLive'
  BY <1>0, <1>1, <1>2 DEF SchedInv, CInv, CurrentIsLive, NewThread
<1>6. OthersAreReady' /\ ContextsAreKept'
  <2>1. OthersAreReady /\ ContextsAreKept
    BY DEF SchedInv, CInv
  <2>2. OthersAreReady'
    BY <1>0, <1>1, <1>2, <1>3, <2>1 DEF OthersAreReady
  <2>3. ContextsAreKept'
    BY <1>0, <1>1, <1>2, <1>3, <2>1 DEF ContextsAreKept
  <2>. QED
    BY <2>2, <2>3
<1>. QED
  BY <1>4, <1>5, <1>6 DEF SchedInv, CInv

\* NewThread keeps the types of the thread fields.
LEMMA NewThreadTypes ==
  ASSUME TypeOK, NEW p \in Procs, NEW t \in Threads, NEW is_user \in BOOLEAN,
         NewThread(p, t, is_user)
  PROVE  /\ t_next' \in [AllThreads -> Threads \cup {NULL}]
         /\ t_parent' \in [AllThreads -> AllProcs \cup {NULL}]
         /\ t_tid' \in [AllThreads -> Nat] /\ next_tid' \in Nat
         /\ t_status' \in [AllThreads -> {"READY", "RUNNING", "DEAD"}]
         /\ t_context' \in [AllThreads -> Nat] /\ work' \in [AllThreads -> Nat]
         /\ t_stack' \in [AllThreads -> {"none", "user", "kernel"}]
         /\ liveT' \subseteq Threads /\ current_vmm' \in AllProcs \cup {Initial}
  BY DEF TypeOK, NewThread, AllThreads, AllProcs

\* A step that changes nothing of the queue keeps it.
LEMMA SameQueue ==
  ASSUME QInv, UNCHANGED <<head_proc, p_next, p_pid, next_pid, liveP>>
  PROVE  QInv'
<1>1. head_proc' = head_proc /\ p_next' = p_next /\ p_pid' = p_pid
      /\ next_pid' = next_pid /\ liveP' = liveP
  OBVIOUS
<1>2. QueueLinksLiveProcesses'
  <2>1. QueueLinksLiveProcesses
    BY DEF QInv
  <2>2. /\ head_proc' = NULL => liveP' = {}
        /\ head_proc' # NULL => /\ head_proc' \in liveP'
                                /\ \A q \in liveP' : p_pid'[q] <= p_pid'[head_proc']
    BY <1>1, <2>1 DEF QueueLinksLiveProcesses
  <2>3. ASSUME NEW p \in liveP'
        PROVE  /\ p_next'[p] = NULL => \A q \in liveP' : p_pid'[p] <= p_pid'[q]
               /\ p_next'[p] # NULL =>
                    /\ p_next'[p] \in liveP' /\ p_pid'[p_next'[p]] < p_pid'[p]
                    /\ \A q \in liveP' : p_pid'[q] < p_pid'[p] => p_pid'[q] <= p_pid'[p_next'[p]]
    BY <1>1, <2>1 DEF QueueLinksLiveProcesses
  <2>. QED
    BY <2>2, <2>3 DEF QueueLinksLiveProcesses
<1>3. ASSUME NEW p \in liveP'
      PROVE  InQueue(p)'
  BY <1>1 DEF QInv, InQueue
<1>4. /\ \A p, q \in liveP' : p_pid'[p] = p_pid'[q] => p = q
      /\ \A p \in liveP' : p_pid'[p] < next_pid'
  BY <1>1 DEF QInv
<1>. QED
  BY <1>2, <1>3, <1>4 DEF QInv

\* create_proc keeps the invariant.
LEMMA CreateProcInv ==
  ASSUME SchedInv, NEW p \in Procs, NEW t \in Threads, NEW is_user \in BOOLEAN,
         create_proc(p, t, is_user)
  PROVE  SchedInv'
<1>0. TypeOK /\ QInv /\ TInv
  BY DEF SchedInv
<1>1. QInv'
  BY <1>0, PushKeepsQueue DEF create_proc
<1>2. TInv'
  BY <1>0, AppendKeepsLists DEF create_proc
<1>3. p_threads'[Idle] = p_threads[Idle] /\ p_next'[Idle] = p_next[Idle]
  BY <1>0, SchedulerAssumption DEF create_proc, TypeOK, AllProcs
<1>4. IdleInv' /\ CInv'
  BY <1>3, NewThreadFrame DEF create_proc
<1>5. p_user' \in [AllProcs -> BOOLEAN] /\ fault' \in BOOLEAN
  BY <1>0 DEF create_proc, TypeOK
<1>6. /\ p_next' \in [AllProcs -> Procs \cup {NULL}]
      /\ p_threads' \in [AllProcs -> AllThreads \cup {NULL}]
      /\ p_pid' \in [AllProcs -> Nat] /\ next_pid' \in Nat
      /\ liveP' \subseteq Procs /\ head_proc' \in Procs
  <2>1. p_next' \in [AllProcs -> Procs \cup {NULL}]
    BY <1>0 DEF create_proc, TypeOK
  <2>2. p_threads' \in [AllProcs -> AllThreads \cup {NULL}]
    BY <1>0 DEF create_proc, TypeOK, AllThreads
  <2>3. p_pid' \in [AllProcs -> Nat] /\ next_pid' \in Nat
    <3>1. /\ p_pid' = [p_pid EXCEPT ![p] = next_pid] /\ next_pid' = next_pid + 1
          /\ p_pid \in [AllProcs -> Nat] /\ next_pid \in Nat
      BY <1>0 DEF create_proc, TypeOK
    <3>2. p_pid' \in [AllProcs -> Nat]
      BY <3>1
    <3>3. next_pid' \in Nat
      BY <3>1
    <3>. QED
      BY <3>2, <3>3
  <2>. QED
    BY <1>0, <2>1, <2>2, <2>3 DEF create_proc, TypeOK
<1>7. TypeOK'
  <2>1. /\ current_process' \in AllProcs /\ current_thread' \in AllThreads
        /\ cpu' \in Nat /\ NewThread(p, t, is_user)
    BY <1>0 DEF create_proc, TypeOK
  <2>2. /\ t_next' \in [AllThreads -> Threads \cup {NULL}]
        /\ t_parent' \in [AllThreads -> AllProcs \cup {NULL}]
        /\ t_tid' \in [AllThreads -> Nat] /\ next_tid' \in Nat
        /\ t_status' \in [AllThreads -> {"READY", "RUNNING", "DEAD"}]
        /\ t_context' \in [AllThreads -> Nat] /\ work' \in [AllThreads -> Nat]
        /\ t_stack' \in [AllThreads -> {"none", "user", "kernel"}]
        /\ liveT' \subseteq Threads /\ current_vmm' \in AllProcs \cup {Initial}
    BY <1>0, <2>1, NewThreadTypes
  <2>3. head_proc' \in Procs \cup {NULL}
    BY <1>6
  <2>. QED
    BY <1>5, <1>6, <2>1, <2>2, <2>3, Zenon DEF TypeOK
<1>. QED
  BY <1>1, <1>2, <1>4, <1>7 DEF SchedInv

\* create_thread keeps the invariant.
LEMMA CreateThreadInv ==
  ASSUME SchedInv, NEW p \in Procs, NEW t \in Threads, create_thread(p, t)
  PROVE  SchedInv'
<1>0. TypeOK /\ QInv /\ TInv
  BY DEF SchedInv
<1>1. p \in liveP /\ p_threads' = p_threads
  <2>1. p_threads[p] \in liveT
    BY <1>0 DEF create_thread, TInv, ListsLinkLiveThreads
  <2>. QED
    BY <1>0, <2>1, SchedulerAssumption DEF create_thread, TypeOK
<1>2. QInv'
  BY <1>0, SameQueue DEF create_thread
<1>3. TInv'
  BY <1>0, <1>1, AppendKeepsLists DEF create_thread
<1>4. IdleInv' /\ CInv'
  BY <1>1, NewThreadFrame DEF create_thread
<1>5. TypeOK'
  BY <1>0, <1>1, NewThreadTypes DEF create_thread, TypeOK
<1>. QED
  BY <1>2, <1>3, <1>4, <1>5 DEF SchedInv

\* A step that changes no link, no number and no stack keeps the lists.
LEMMA SameLists ==
  ASSUME QInv, TInv, UNCHANGED <<procVars, t_next, t_parent, t_tid, t_stack, next_tid, liveT>>
  PROVE  QInv' /\ TInv'
<1>0. /\ head_proc' = head_proc /\ p_next' = p_next /\ p_threads' = p_threads
      /\ p_pid' = p_pid /\ next_pid' = next_pid /\ liveP' = liveP
      /\ t_next' = t_next /\ t_parent' = t_parent /\ t_tid' = t_tid
      /\ t_stack' = t_stack /\ next_tid' = next_tid /\ liveT' = liveT
  BY DEF procVars
<1>1. QInv'
  BY <1>0, SameQueue
<1>2. ListsLinkLiveThreads'
  <2>1. ListsLinkLiveThreads
    BY DEF TInv
  <2>2. ASSUME NEW p \in liveP'
        PROVE  p_threads'[p] \in liveT' /\ t_parent'[p_threads'[p]] = p
    BY <1>0, <2>1 DEF ListsLinkLiveThreads
  <2>3. ASSUME NEW p \in liveP', NEW t \in liveT', t_parent'[t] = p
        PROVE  /\ t_tid'[p_threads'[p]] <= t_tid'[t]
               /\ t_next'[t] = NULL => \A s \in liveT' : t_parent'[s] = p => t_tid'[s] <= t_tid'[t]
    BY <1>0, <2>1, <2>3 DEF ListsLinkLiveThreads
  <2>4. ASSUME NEW p \in liveP', NEW t \in liveT', t_parent'[t] = p, t_next'[t] # NULL
        PROVE  /\ t_next'[t] \in liveT' /\ t_parent'[t_next'[t]] = p
               /\ t_tid'[t] < t_tid'[t_next'[t]]
               /\ \A s \in liveT' : t_parent'[s] = p /\ t_tid'[t] < t_tid'[s]
                                     => t_tid'[t_next'[t]] <= t_tid'[s]
    BY <1>0, <2>1, <2>4 DEF ListsLinkLiveThreads
  <2>. QED
    BY <2>2, <2>3, <2>4 DEF ListsLinkLiveThreads
<1>3. /\ \A p \in liveP : HasTail(p)'
      /\ \A t \in liveT : InThreadList(t)' /\ t_parent'[t] \in liveP'
  <2>1. /\ \A p \in liveP : HasTail(p)
        /\ \A t \in liveT : InThreadList(t) /\ t_parent[t] \in liveP
    BY DEF TInv
  <2>2. \A p \in liveP : HasTail(p)'
    BY <1>0, <2>1 DEF HasTail
  <2>3. \A t \in liveT : InThreadList(t)' /\ t_parent'[t] \in liveP'
    BY <1>0, <2>1 DEF InThreadList
  <2>. QED
    BY <2>2, <2>3
<1>4. TInv'
  BY <1>0, <1>2, <1>3, Zenon DEF TInv
<1>. QED
  BY <1>1, <1>4

\* A thread that gets on with its work keeps the invariant.
LEMMA RunInv == SchedInv /\ Run => SchedInv'
<1>. SUFFICES ASSUME SchedInv, Run PROVE SchedInv'
  OBVIOUS
<1>. USE DEF SchedInv, Run, procVars, threadVars
<1>1. QInv' /\ TInv'
  BY SameLists
<1>2. TypeOK'
  BY DEF TypeOK
<1>3. IdleInv'
  BY SchedulerAssumption DEF IdleInv, TypeOK
<1>4. CInv'
  BY DEF CInv, CurrentIsLive, OthersAreReady, ContextsAreKept, TypeOK, AllThreads
<1>. QED
  BY <1>1, <1>2, <1>3, <1>4

\* A thread that exits keeps the invariant.
LEMMA ExitInv == SchedInv /\ Exit => SchedInv'
<1>. SUFFICES ASSUME SchedInv, Exit PROVE SchedInv'
  OBVIOUS
<1>. USE DEF SchedInv, Exit, procVars, cpuVars
<1>1. QInv' /\ TInv'
  BY SameLists
<1>2. TypeOK'
  BY DEF TypeOK
<1>3. IdleInv'
  BY SchedulerAssumption DEF IdleInv, TypeOK
<1>4. CurrentIsLive'
  <2>1. current_thread # IdleThread /\ CurrentIsLive
    BY SchedulerAssumption DEF CInv
  <2>. QED
    BY <2>1 DEF CurrentIsLive
<1>5. OthersAreReady' /\ ContextsAreKept' /\ ~fault'
  BY DEF CInv, OthersAreReady, ContextsAreKept, TypeOK, AllThreads
<1>6. CInv'
  BY <1>4, <1>5 DEF CInv
<1>. QED
  BY <1>1, <1>2, <1>3, <1>6

\* Where schedule lands, given well-linked lists and a sound successor.
LEMMA SwitchLands ==
  ASSUME SchedInv, QInv', TInv', NEW old, SwitchThread(old),
         p_threads'[Idle] = IdleThread, t_parent' = t_parent,
         t_next[current_thread] # NULL =>
            /\ t_next[current_thread] \in liveT'
            /\ t_parent[t_next[current_thread]] = current_process
            /\ current_process \in liveP',
         p_next'[current_process] \in liveP' \cup {NULL}
  PROVE  CurrentIsLive'
<1>1. CASE t_next[current_thread] # NULL
  <2>1. current_thread # IdleThread /\ current_vmm = current_process
    BY <1>1 DEF CurrentIsLive, SchedInv, CInv, IdleInv
  <2>. QED
    BY <1>1, <2>1 DEF SwitchThread, CurrentIsLive
<1>2. CASE t_next[current_thread] = NULL
  <2>1. current_process' \in liveP' \cup {Idle} /\ current_vmm' = current_process'
        /\ current_thread' = p_threads'[current_process']
    BY <1>2 DEF SwitchThread, QInv, QueueLinksLiveProcesses
  <2>2. CASE current_process' = Idle
    BY <2>1, <2>2 DEF CurrentIsLive, SchedInv, IdleInv
  <2>3. CASE current_process' \in liveP'
    BY <2>1, <2>3 DEF CurrentIsLive, TInv, ListsLinkLiveThreads
  <2>. QED
    BY <2>1, <2>2, <2>3
<1>. QED
  BY <1>1, <1>2

\* The statuses and the contexts schedule leaves.
LEMMA SwitchKeepsContexts ==
  ASSUME SchedInv, NEW old \in {"READY", "DEAD"}, SwitchThread(old), SaveContext,
         CurrentIsLive', liveT' \subseteq liveT, UNCHANGED work,
         old = "DEAD" => current_thread \in Threads \ liveT'
  PROVE  /\ OthersAreReady' /\ ContextsAreKept'
         /\ t_status' \in [AllThreads -> {"READY", "RUNNING", "DEAD"}]
         /\ t_context' \in [AllThreads -> Nat] /\ cpu' \in Nat
         /\ t_status'[IdleThread] # "DEAD" /\ t_context'[IdleThread] = 0
         /\ t_status'[current_thread'] # "DEAD"
<1>0. /\ current_thread \in AllThreads /\ IdleThread \in AllThreads /\ IdleThread \notin Threads
      /\ liveT \subseteq AllThreads /\ IdleThread \notin liveT
      /\ t_status \in [AllThreads -> {"READY", "RUNNING", "DEAD"}]
      /\ t_context \in [AllThreads -> Nat] /\ cpu \in Nat
      /\ current_thread' \in liveT' \cup {IdleThread} /\ current_thread' \in AllThreads
  BY SchedulerAssumption DEF SchedInv, TypeOK, AllThreads, CurrentIsLive
<1>. DEFINE st == [t_status EXCEPT ![current_thread] = old]
<1>1. st \in [AllThreads -> {"READY", "RUNNING", "DEAD"}]
  BY <1>0
<1>2. \A s \in liveT' : st[s] = "READY"
  BY <1>0 DEF SchedInv, CInv, OthersAreReady
<1>3. st[IdleThread] # "DEAD"
  BY <1>0 DEF SchedInv, IdleInv
<1>4. t_status' = IF st[current_thread'] = "READY"
                  THEN [st EXCEPT ![current_thread'] = "RUNNING"] ELSE st
  BY DEF SwitchThread
<1>. HIDE DEF st
<1>5. /\ OthersAreReady' /\ t_status'[IdleThread] # "DEAD" /\ t_status'[current_thread'] # "DEAD"
      /\ t_status' \in [AllThreads -> {"READY", "RUNNING", "DEAD"}]
  BY <1>0, <1>1, <1>2, <1>3, <1>4 DEF OthersAreReady
<1>6. /\ t_context' \in [AllThreads -> Nat] /\ t_context'[IdleThread] = 0
      /\ \A s \in liveT \cup {IdleThread} : t_context'[s] = work[s]
  <2>1. t_context' = IF current_thread # IdleThread
                     THEN [t_context EXCEPT ![current_thread] = cpu] ELSE t_context
    BY DEF SaveContext, SchedInv, IdleInv
  <2>2. /\ cpu = work[current_thread] /\ t_context[IdleThread] = 0 /\ work[IdleThread] = 0
        /\ \A s \in liveT \ {current_thread} : t_context[s] = work[s]
    BY DEF SchedInv, CInv, ContextsAreKept, IdleInv
  <2>. QED
    BY <1>0, <2>1, <2>2
<1>7. ContextsAreKept' /\ cpu' \in Nat
  BY <1>0, <1>6 DEF ContextsAreKept, SwitchThread
<1>. QED
  BY <1>5, <1>6, <1>7

\* schedule for a living thread keeps the invariant.
LEMMA PreemptInv == SchedInv /\ Preempt => SchedInv'
<1>. SUFFICES ASSUME SchedInv, Preempt PROVE SchedInv'
  OBVIOUS
<1>. USE DEF Preempt, procVars
<1>0. TypeOK /\ QInv /\ TInv /\ IdleInv /\ CurrentIsLive
  BY DEF SchedInv, CInv
<1>1. QInv' /\ TInv'
  BY <1>0, SameLists
<1>2. t_next[current_thread] # NULL =>
        /\ t_next[current_thread] \in liveT
        /\ t_parent[t_next[current_thread]] = current_process
        /\ current_process \in liveP
  BY <1>0 DEF TInv, ListsLinkLiveThreads, IdleInv, CurrentIsLive
<1>3. p_next[current_process] \in liveP \cup {NULL}
  BY <1>0 DEF QInv, QueueLinksLiveProcesses, IdleInv, CurrentIsLive
<1>4. CurrentIsLive'
  BY <1>0, <1>1, <1>2, <1>3, SwitchLands DEF IdleInv
<1>5. /\ OthersAreReady' /\ ContextsAreKept'
      /\ t_status' \in [AllThreads -> {"READY", "RUNNING", "DEAD"}]
      /\ t_context' \in [AllThreads -> Nat] /\ cpu' \in Nat
      /\ t_status'[IdleThread] # "DEAD" /\ t_context'[IdleThread] = 0
  BY <1>4, SwitchKeepsContexts
<1>6. IdleInv'
  BY <1>0, <1>5 DEF IdleInv
<1>7. TypeOK'
  BY <1>0, <1>4, <1>5 DEF TypeOK, CurrentIsLive, AllThreads, AllProcs
<1>. QED
  BY <1>1, <1>4, <1>5, <1>6, <1>7 DEF SchedInv, CInv

\* schedule for an exited thread does not fault and keeps the invariant.
LEMMA ReapInv == SchedInv /\ Reap => SchedInv'
<1>. SUFFICES ASSUME SchedInv, Reap PROVE SchedInv'
  OBVIOUS
<1>. DEFINE t == current_thread
            p == current_process
<1>0. TypeOK /\ QInv /\ TInv /\ IdleInv /\ CurrentIsLive
  BY DEF SchedInv, CInv
<1>1. t \in liveT /\ p \in liveP /\ t_parent[t] = p /\ current_vmm = p /\ p # Idle
      /\ t \in Threads /\ t # NULL /\ p \in Procs
  <2>1. liveT \subseteq Threads /\ liveP \subseteq Procs
    BY <1>0 DEF TypeOK
  <2>2. t \in liveT /\ t_parent[t] = p /\ current_vmm = p
    BY <1>0, Zenon DEF Reap, CurrentIsLive, IdleInv
  <2>3. p \in liveP
    BY <1>0, <2>2 DEF TInv
  <2>. QED
    BY <2>1, <2>2, <2>3, SchedulerAssumption
<1>2. fault' = FALSE
  <2>1. p_threads[p] \in liveT /\ NULL \notin liveT
    BY <1>0, <1>1, SchedulerAssumption DEF TInv, ListsLinkLiveThreads, TypeOK
  <2>2. StackListed(t) /\ InThreadList(t) /\ InQueue(p)
    BY <1>0, <1>1 DEF TInv, StackListed, QInv
  <2>3. ~ReapFaults(t)
    BY <1>1, <2>1, <2>2 DEF ReapFaults
  <2>. QED
    BY <2>3 DEF Reap
<1>3. reap_thread(t) /\ UNCHANGED <<p_pid, next_pid, t_parent, t_tid, next_tid, work>>
  BY DEF Reap
<1>4. QInv'
  <2>1. CASE IsLastThread(t)
    BY <1>0, <1>1, <1>3, <2>1, UnlinkKeepsQueue DEF reap_thread
  <2>2. CASE ~IsLastThread(t)
    BY <1>0, <1>3, <2>2, SameQueue DEF reap_thread
  <2>. QED
    BY <2>1, <2>2
<1>5. TInv'
  BY <1>0, <1>1, <1>3, UnlinkKeepsLists, LastUnlinkKeepsLists
<1>6. liveT' = liveT \ {t} /\ p_threads'[Idle] = IdleThread
      /\ t_next'[IdleThread] = NULL /\ p_next'[Idle] = NULL
  <2>1. liveT' = liveT \ {t} /\ p_threads'[Idle] = IdleThread
    BY <1>0, <1>1, <1>3, SchedulerAssumption DEF reap_thread, IdleInv, TypeOK, AllProcs
  <2>2. t_next'[IdleThread] = NULL
    BY <1>0, <1>1, <1>3, SchedulerAssumption DEF reap_thread, IdleInv, TypeOK, AllThreads
  <2>3. p_next'[Idle] = NULL
    <3>1. Idle \in AllProcs /\ Idle \notin liveP /\ p_next[Idle] = NULL
      BY <1>0, SchedulerAssumption DEF IdleInv, TypeOK, AllProcs
    <3>2. p_next' = p_next \/ reap_process(p)
      BY <1>1, <1>3 DEF reap_thread
    <3>. QED
      BY <3>1, <3>2 DEF reap_process
  <2>. QED
    BY <2>1, <2>2, <2>3
<1>7. t_next[t] # NULL =>
        /\ t_next[t] \in liveT'
        /\ t_parent[t_next[t]] = p
        /\ p \in liveP'
  <2>. SUFFICES ASSUME t_next[t] # NULL
                PROVE  t_next[t] \in liveT' /\ t_parent[t_next[t]] = p /\ p \in liveP'
    OBVIOUS
  <2>1. t_next[t] \in liveT /\ t_parent[t_next[t]] = p /\ t_tid[t] < t_tid[t_next[t]]
    BY <1>0, <1>1 DEF TInv, ListsLinkLiveThreads
  <2>2. t_tid[t] \in Nat
    BY <1>0, <1>1 DEF TypeOK, AllThreads
  <2>3. liveP' = liveP
    BY <1>3 DEF reap_thread, IsLastThread
  <2>4. t_next[t] # t
    BY <2>1, <2>2
  <2>. QED
    BY <1>1, <1>6, <2>1, <2>3, <2>4, Zenon
<1>8. p_next'[p] \in liveP' \cup {NULL}
  <2>0. p \in AllProcs /\ p_pid[p] \in Nat
    BY <1>0, <1>1 DEF TypeOK, AllProcs
  <2>1. p_next[p] = NULL \/ (p_next[p] \in liveP /\ p_pid[p_next[p]] < p_pid[p])
    BY <1>0, <1>1 DEF QInv, QueueLinksLiveProcesses
  <2>2. p_next[p] # p
    <3>1. p # NULL
      BY <1>1, SchedulerAssumption
    <3>2. ~(p_pid[p] < p_pid[p])
      BY <2>0
    <3>. QED
      BY <2>1, <3>1, <3>2, Zenon
  <2>3. p_next'[p] = p_next[p] /\ liveP \ {p} \subseteq liveP'
    BY <1>1, <1>3, <2>0, <2>2 DEF reap_thread, reap_process
  <2>. QED
    BY <2>1, <2>2, <2>3
<1>9. CurrentIsLive'
  BY <1>3, <1>4, <1>5, <1>6, <1>7, <1>8, SwitchLands DEF Reap
<1>10. /\ OthersAreReady' /\ ContextsAreKept'
       /\ t_status' \in [AllThreads -> {"READY", "RUNNING", "DEAD"}]
       /\ t_context' \in [AllThreads -> Nat] /\ cpu' \in Nat
       /\ t_status'[IdleThread] # "DEAD" /\ t_context'[IdleThread] = 0
  BY <1>1, <1>6, <1>9, SwitchKeepsContexts DEF Reap
<1>11. IdleInv'
  BY <1>0, <1>3, <1>6, <1>10 DEF IdleInv
<1>12. TypeOK'
  <2>1. p_user' \in [AllProcs -> BOOLEAN]
    BY <1>0, <1>3 DEF TypeOK, reap_thread, reap_process
  <2>2. /\ p_next' \in [AllProcs -> Procs \cup {NULL}] /\ head_proc' \in Procs \cup {NULL}
        /\ liveP' \subseteq Procs
    <3>1. /\ p_next \in [AllProcs -> Procs \cup {NULL}] /\ head_proc \in Procs \cup {NULL}
          /\ liveP \subseteq Procs /\ p \in AllProcs
      BY <1>0, <1>1 DEF TypeOK, AllProcs
    <3>2. reap_process(p) \/ UNCHANGED <<head_proc, p_next, liveP>>
      BY <1>1, <1>3 DEF reap_thread
    <3>3. CASE reap_process(p)
      BY <3>1, <3>3 DEF reap_process
    <3>. QED
      BY <3>1, <3>2, <3>3
  <2>3. p_threads' \in [AllProcs -> AllThreads \cup {NULL}]
    BY <1>0, <1>1, <1>3 DEF TypeOK, reap_thread, AllThreads
  <2>4. t_next' \in [AllThreads -> Threads \cup {NULL}]
    BY <1>0, <1>1, <1>3 DEF TypeOK, reap_thread, AllThreads
  <2>5. t_stack' \in [AllThreads -> {"none", "user", "kernel"}]
    BY <1>0, <1>3 DEF TypeOK, reap_thread
  <2>6. current_thread' \in AllThreads /\ current_process' \in AllProcs /\ current_vmm' \in AllProcs \cup {Initial}
        /\ liveT' \subseteq Threads
    BY <1>0, <1>6, <1>9, <2>2 DEF TypeOK, CurrentIsLive, AllThreads, AllProcs
  <2>. QED
    BY <1>0, <1>2, <1>3, <1>10, <2>1, <2>2, <2>3, <2>4, <2>5, <2>6 DEF TypeOK
<1>. QED
  BY <1>2, <1>4, <1>5, <1>9, <1>10, <1>11, <1>12 DEF SchedInv, CInv

\* SchedInv is an inductive invariant.
LEMMA SchedInvariant == Spec => []SchedInv
<1>1. SchedInv /\ [Next]_vars => SchedInv'
  <2>. SUFFICES ASSUME SchedInv, [Next]_vars PROVE SchedInv'
    OBVIOUS
  <2>1. CASE UNCHANGED vars
    <3>. USE <2>1 DEF SchedInv, vars, procVars, threadVars, cpuVars
    <3>1. TypeOK'
      BY DEF TypeOK
    <3>2. QInv' /\ TInv'
      BY SameLists
    <3>3. IdleInv' /\ CInv'
      BY DEF IdleInv, CInv, CurrentIsLive, OthersAreReady, ContextsAreKept
    <3>. QED
      BY <3>1, <3>2, <3>3
  <2>. QED
    BY <2>1, CreateProcInv, CreateThreadInv, RunInv, ExitInv, PreemptInv, ReapInv
       DEF Next, schedule
<1>. QED
  BY <1>1, InitSchedInv, PTL DEF Spec

-----------------------------------------------------------------------------
(* The theorems *)

\* Every field of every block keeps its type.
THEOREM TypesAreKept == Spec => []TypeOK
<1>1. SchedInv => TypeOK
  BY DEF SchedInv
<1>. QED
  BY <1>1, SchedInvariant, PTL

\* schedule never leaves the processor with a freed thread or process, nor in an
\* address space that is not the process's; only before the first schedule is it
\* vmm_init's.
THEOREM CurrentStaysLive == Spec => []CurrentIsLive
<1>1. SchedInv => CurrentIsLive
  BY DEF SchedInv, CInv
<1>. QED
  BY <1>1, SchedInvariant, PTL

\* The queue links exactly the allocated processes, each of them once.
THEOREM QueueStaysLinked == Spec => []QueueLinksLiveProcesses
<1>1. SchedInv => QueueLinksLiveProcesses
  BY DEF SchedInv, QInv
<1>. QED
  BY <1>1, SchedInvariant, PTL

\* The thread list of a process links exactly its allocated threads, each of them once.
THEOREM ThreadsStayLinked == Spec => []ListsLinkLiveThreads
<1>1. SchedInv => ListsLinkLiveThreads
  BY DEF SchedInv, TInv
<1>. QED
  BY <1>1, SchedInvariant, PTL

\* Every thread resumes where it was interrupted.
THEOREM ContextsStayKept == Spec => []ContextsAreKept
<1>1. SchedInv => ContextsAreKept
  BY DEF SchedInv, CInv
<1>. QED
  BY <1>1, SchedInvariant, PTL

\* Whatever threads were created, preempted and reaped, only the current one is RUNNING
\* or DEAD.
THEOREM OthersStayReady == Spec => []OthersAreReady
<1>1. SchedInv => OthersAreReady
  BY DEF SchedInv, CInv
<1>. QED
  BY <1>1, SchedInvariant, PTL

\* The ASSERT of reap_thread holds and no list walk of reaping runs off its end.
THEOREM ReapNeverFaults == Spec => []NoReapFault
<1>1. SchedInv => NoReapFault
  BY DEF SchedInv, CInv, NoReapFault
<1>. QED
  BY <1>1, SchedInvariant, PTL

-----------------------------------------------------------------------------
(* Refinement *)

\* Creating a thread is a Spawn of the pool.
LEMMA NewThreadIsSpawn ==
  ASSUME SchedInv, NEW p \in Procs, NEW t \in Threads, NEW is_user \in BOOLEAN,
         NewThread(p, t, is_user), UNCHANGED current_thread
  PROVE  RQ!Spawn(t)
<1>1. t \notin liveT /\ liveT' = liveT \cup {t} /\ t # current_thread /\ current_thread \in AllThreads
  <2>1. t \notin liveT /\ liveT' = liveT \cup {t}
    BY DEF NewThread
  <2>2. current_thread \in liveT \cup {IdleThread} /\ current_thread \in AllThreads
    BY Zenon DEF SchedInv, CInv, CurrentIsLive, TypeOK
  <2>. QED
    BY <2>1, <2>2, SchedulerAssumption
<1>2. t_status'[current_thread] = t_status[current_thread]
  BY <1>1 DEF NewThread, SchedInv, TypeOK
<1>. QED
  BY <1>1, <1>2 DEF RQ!Spawn

\* The idle thread is chosen only when no thread is left.
LEMMA IdleMeansEmpty ==
  ASSUME SchedInv, SchedInv', NEW old, SwitchThread(old), current_thread' = IdleThread
  PROVE  liveT' = {}
<1>1. current_process' = Idle
  BY DEF SchedInv, CInv, CurrentIsLive, IdleInv
<1>2. t_next[current_thread] = NULL
  <2>. SUFFICES ASSUME t_next[current_thread] # NULL PROVE FALSE
    OBVIOUS
  <2>1. current_process = Idle
    BY <1>1 DEF SwitchThread
  <2>2. current_thread = IdleThread
    <3>1. current_thread \in liveT => t_parent[current_thread] \in liveP
      BY DEF SchedInv, TInv
    <3>2. Idle \notin liveP
      BY SchedulerAssumption DEF SchedInv, TypeOK
    <3>. QED
      BY <2>1, <3>1, <3>2 DEF SchedInv, CInv, CurrentIsLive
  <2>. QED
    BY <2>2 DEF SchedInv, IdleInv
<1>3. head_proc' = NULL
  <2>1. current_process' = IF head_proc' = NULL THEN Idle
                           ELSE IF p_next'[current_process] = NULL THEN head_proc'
                           ELSE p_next'[current_process]
    BY <1>2, Zenon DEF SwitchThread
  <2>2. head_proc' # NULL => head_proc' \in liveP'
    BY DEF SchedInv, QInv, QueueLinksLiveProcesses
  <2>3. Idle \notin liveP' /\ Idle \notin Procs
    BY SchedulerAssumption DEF SchedInv, TypeOK
  <2>4. p_next'[current_process] \in Procs \cup {NULL}
    BY DEF SchedInv, TypeOK
  <2>. QED
    BY <1>1, <2>1, <2>2, <2>3, <2>4
<1>. QED
  BY <1>3 DEF SchedInv, QInv, QueueLinksLiveProcesses, TInv

\* schedule dispatches from the pool: it is given by the threads that stay.
LEMMA ScheduleIsDispatch ==
  ASSUME SchedInv, SchedInv', Preempt \/ Reap
  PROVE  RQ!Dispatch
<1>1. /\ current_thread \in liveT \cup {IdleThread} /\ IdleThread \notin liveT /\ liveT \subseteq Threads
      /\ current_thread' \in liveT' \cup {IdleThread} /\ IdleThread \notin Threads
      /\ t_status[IdleThread] # "DEAD"
  BY SchedulerAssumption DEF SchedInv, CInv, CurrentIsLive, TypeOK, IdleInv
<1>2. RQ!Pool = liveT'
  <2>1. CASE Preempt
    BY <1>1, <2>1 DEF Preempt, RQ!Pool
  <2>2. CASE Reap
    BY <1>1, <2>2 DEF Reap, reap_thread, RQ!Pool
  <2>. QED
    BY <2>1, <2>2
<1>3. current_thread' = IdleThread => liveT' = {}
  BY IdleMeansEmpty DEF Preempt, Reap
<1>4. t_status'[current_thread'] # "DEAD"
  <2>1. CASE Preempt
    BY <1>1, <2>1, SwitchKeepsContexts DEF Preempt, SchedInv, CInv
  <2>2. CASE Reap
    BY <1>1, <2>2, SwitchKeepsContexts DEF Reap, reap_thread, SchedInv, CInv
  <2>. QED
    BY <2>1, <2>2
<1>. QED
  BY <1>1, <1>2, <1>3, <1>4 DEF RQ!Dispatch

\* The scheduler implements the pool of RunQueue: what runs was created and has
\* not exited, and the processor idles only when there is nothing to run.
THEOREM SchedulerImplementsRunQueue == Spec => ImplementsRunQueue
<1>1. Init => RQ!Init
  BY SchedulerAssumption DEF Init, RQ!Init, AllThreads
<1>2. SchedInv /\ SchedInv' /\ [Next]_vars => [RQ!Next]_(RQ!rqVars)
  <2>. SUFFICES ASSUME SchedInv, SchedInv', [Next]_vars PROVE [RQ!Next]_(RQ!rqVars)
    OBVIOUS
  <2>1. ASSUME NEW p \in Procs, NEW t \in Threads, NEW is_user \in BOOLEAN,
               create_proc(p, t, is_user)
        PROVE  RQ!Next
    BY <2>1, NewThreadIsSpawn DEF create_proc, RQ!Next
  <2>2. ASSUME NEW p \in Procs, NEW t \in Threads, create_thread(p, t)
        PROVE  RQ!Next
    BY <2>2, NewThreadIsSpawn DEF create_thread, RQ!Next
  <2>3. CASE Run
    BY <2>3 DEF Run, threadVars, RQ!rqVars
  <2>4. CASE Exit
    BY <2>4 DEF Exit, cpuVars, RQ!Next, RQ!Exit, SchedInv, TypeOK, AllThreads
  <2>5. CASE schedule
    BY <2>5, ScheduleIsDispatch DEF schedule, RQ!Next
  <2>6. CASE UNCHANGED vars
    BY <2>6 DEF vars, threadVars, cpuVars, RQ!rqVars
  <2>. QED
    BY <2>1, <2>2, <2>3, <2>4, <2>5, <2>6 DEF Next
<1>. QED
  BY <1>1, <1>2, SchedInvariant, PTL DEF Spec, ImplementsRunQueue, RQ!Spec
=============================================================================
