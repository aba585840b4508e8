----------------------------- MODULE ReadyQueue -----------------------------
(***************************************************************************)
(* What run_queue.c promises its callers: a slot for every priority, and   *)
(* a search that answers with the most urgent occupied one.                *)
(***************************************************************************)
EXTENDS RunList

CONSTANTS
  Slots,      \* the priorities: 0 .. OS_MAX_TASKS - 1
  Tcbs,       \* the tasks callers add
  Prios,      \* the slots callers use
  IDLE_PRIO   \* the slot that is never emptied

VARIABLES
  ready,      \* the task waiting at each priority
  ret         \* what the last call returned; NULL for a call with no result

vars == <<ready, ret>>

TypeOK == ready \in [Slots -> Tcbs \cup {NULL}] /\ ret \in Nat

Init == ready = [p \in Slots |-> NULL] /\ ret = NULL

Clear == ready' = [p \in Slots |-> NULL] /\ ret' = NULL

Add(tcb, prio) == ready' = Put(ready, prio, tcb) /\ ret' = NULL

Remove(prio) == ready' = Take(ready, prio, IDLE_PRIO) /\ ret' = ready[prio]

Search == ret' = HighestPrio(ready) /\ UNCHANGED ready

Next ==
  \/ Clear
  \/ \E tcb \in Tcbs, prio \in Prios : Add(tcb, prio)
  \/ \E prio \in Prios : Remove(prio)
  \/ Search

Spec == Init /\ [][Next]_vars
=============================================================================
