------------------------------ MODULE RunQueue ------------------------------
(***************************************************************************)
(* lab4/lab4/kernel/sched/run_queue.c: the run queue as the code keeps it, *)
(* an array of TCB pointers, one byte of run bits for each group of eight  *)
(* priorities, and a byte with one bit for each group.                     *)
(*                                                                         *)
(* A byte is the set of the positions of its high bits.  The lookup in     *)
(* prio_unmap_table is LowestBit; module MCLibrary checks the 256 entries  *)
(* of the table against it.                                                *)
(***************************************************************************)
EXTENDS RunList

CONSTANTS
  Tcbs,       \* the tasks callers add
  Prios,      \* the slots callers use
  IDLE_PRIO   \* 63 in config.h

OS_MAX_TASKS == 64
Slots == 0 .. OS_MAX_TASKS - 1
Groups == 0 .. OS_MAX_TASKS \div 8 - 1
Bits == 0 .. 7

ASSUME RunQueueAssumption ==
  /\ Tcbs \subseteq Nat \ {NULL}
  /\ Prios \subseteq Slots
  /\ IDLE_PRIO \in Slots

VARIABLES
  run_list,        \* the task waiting at each priority
  run_bits,        \* for each group, the byte of its occupied slots
  group_run_bits,  \* the byte of the groups with an occupied slot
  ret              \* what the last call returned; NULL for a void function

vars == <<run_list, run_bits, group_run_bits, ret>>

TypeOK ==
  /\ run_list \in [Slots -> Tcbs \cup {NULL}]
  /\ run_bits \in [Groups -> SUBSET Bits]
  /\ group_run_bits \in SUBSET Groups
  /\ ret \in Nat

-----------------------------------------------------------------------------
group(prio) == prio \div 8

\* Mutant of position: the bits are counted from one.
PositionFromOne(prio) == (prio % 8) + 1
position(prio) == prio % 8

LowestBit(byte) == IF byte = {} THEN 0 ELSE Min(byte)

\* Mutant of highest_prio: group and position are exchanged.
HighestPrioExchanged ==
  LET y == LowestBit(group_run_bits)
      x == LowestBit(run_bits[y])
  IN  8 * x + y

highest_prio ==
  LET y == LowestBit(group_run_bits)
      x == LowestBit(run_bits[y])
  IN  8 * y + x

NoTasks == [p \in Slots |-> NULL]
NoBits == [g \in Groups |-> {}]

\* Before the first runqueue_init the arrays are zero because they are static.
Init ==
  /\ run_list = NoTasks
  /\ run_bits = NoBits
  /\ group_run_bits = {}
  /\ ret = NULL

runqueue_init ==
  /\ run_list' = NoTasks
  /\ run_bits' = NoBits
  /\ group_run_bits' = {}
  /\ ret' = NULL

runqueue_add(tcb, prio) ==
  /\ run_list' = [run_list EXCEPT ![prio] = tcb]
  /\ run_bits' = [run_bits EXCEPT ![group(prio)] = @ \cup {position(prio)}]
  /\ group_run_bits' = group_run_bits \cup {group(prio)}
  /\ ret' = NULL

\* The idle task is handed out without leaving its slot.
RemoveIdle ==
  /\ IDLE_PRIO \in Prios
  /\ ret' = run_list[IDLE_PRIO]
  /\ UNCHANGED <<run_list, run_bits, group_run_bits>>

\* Mutant of runqueue_remove: the group bit falls with any of the group's slots.
RemoveClearsGroup(prio) ==
  /\ prio # IDLE_PRIO
  /\ ret' = run_list[prio]
  /\ run_list' = [run_list EXCEPT ![prio] = NULL]
  /\ run_bits' = [run_bits EXCEPT ![group(prio)] = @ \ {position(prio)}]
  /\ group_run_bits' = group_run_bits \ {group(prio)}

runqueue_remove(prio) ==
  /\ prio # IDLE_PRIO
  /\ ret' = run_list[prio]
  /\ run_list' = [run_list EXCEPT ![prio] = NULL]
  /\ run_bits' = [run_bits EXCEPT ![group(prio)] = @ \ {position(prio)}]
  /\ group_run_bits' = IF run_bits'[group(prio)] = {}
                       THEN group_run_bits \ {group(prio)}
                       ELSE group_run_bits

Search == ret' = highest_prio /\ UNCHANGED <<run_list, run_bits, group_run_bits>>

Next ==
  \/ runqueue_init
  \/ \E tcb \in Tcbs, prio \in Prios : runqueue_add(tcb, prio)
  \/ RemoveIdle
  \/ \E prio \in Prios : runqueue_remove(prio)
  \/ Search

Spec == Init /\ [][Next]_vars

-----------------------------------------------------------------------------
(* Properties *)

\* The three structures agree (run_queue.c:20-30): a run bit is high exactly
\* when its slot holds a task, and a group bit exactly when a run bit of the
\* group is.  Each is updated by a separate statement of add and remove.
BitmapsAgree ==
  /\ \A p \in Slots : run_list[p] # NULL <=> position(p) \in run_bits[group(p)]
  /\ \A g \in Groups : g \in group_run_bits <=> run_bits[g] # {}

\* The trie answers like a list of slots searched from the most urgent one.
Abstract == INSTANCE ReadyQueue WITH ready <- run_list
ImplementsReadyQueue == Abstract!Spec
=============================================================================
