------------------------------ MODULE RunQueue ------------------------------
(***************************************************************************)
(* What a scheduler of one processor promises, without its lists: threads  *)
(* wait, one of them has the processor, and the idle thread has it only    *)
(* when there is nobody to choose.  Scheduler implements this.             *)
(***************************************************************************)

CONSTANTS Threads, IdleThread

VARIABLES
  ready,     \* the threads waiting for the processor
  running,   \* the one that has it
  exited     \* whether that one has exited

rqVars == <<ready, running, exited>>

Init == ready = {} /\ running = IdleThread /\ exited = FALSE

Spawn(t) ==
  /\ t \notin ready /\ t # running
  /\ ready' = ready \cup {t}
  /\ UNCHANGED <<running, exited>>

Exit ==
  /\ running \in Threads
  /\ exited' = TRUE
  /\ UNCHANGED <<ready, running>>

\* The threads to choose from: an exited one and the idle one are not.
Pool == IF running \in Threads /\ ~exited THEN ready \cup {running} ELSE ready

Dispatch ==
  /\ running' \in Pool \/ (Pool = {} /\ running' = IdleThread)
  /\ ready' = Pool \ {running'}
  /\ exited' = FALSE

Next == (\E t \in Threads : Spawn(t)) \/ Exit \/ Dispatch

Spec == Init /\ [][Next]_rqVars
=============================================================================
