------------------------------ MODULE RunList ------------------------------
(***************************************************************************)
(* The ready list of lab4/lab4/kernel/sched/run_queue.c as a function from *)
(* priorities to TCBs, and what its three operations do to it.  RunQueue   *)
(* has the bitmaps the code searches; ReadyQueue is the behaviour in terms *)
(* of these operators, and RunQueue is shown to implement it, so that the  *)
(* kernel's modules can use the operators in place of the bitmaps.         *)
(*                                                                         *)
(* A TCB is named by its index in system_tcb.  set_context is called for   *)
(* indices 1..num_tasks and sched_init for IDLE_PRIO: index 0 never is a   *)
(* task, and 0 stands for the null pointer.                                *)
(***************************************************************************)
EXTENDS Integers, FiniteSetsExt

NULL == 0

\* The priorities that have a task in their slot.
Occupied(list) == {p \in DOMAIN list : list[p] # NULL}

\* The lowest occupied number, the highest priority; 0 when no slot is.
HighestPrio(list) ==
  IF Occupied(list) = {} THEN 0 ELSE Min(Occupied(list))

\* runqueue_add overwrites whatever the slot held.
Put(list, prio, tcb) == [list EXCEPT ![prio] = tcb]

\* Mutant of Take: the idle task is removed like any other.
TakeEvenIdle(list, prio, idle) == [list EXCEPT ![prio] = NULL]

\* runqueue_remove leaves the idle task where it is.
Take(list, prio, idle) == IF prio = idle THEN list ELSE [list EXCEPT ![prio] = NULL]
=============================================================================
