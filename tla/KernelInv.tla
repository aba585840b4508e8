----------------------------- MODULE KernelInv -----------------------------
(***************************************************************************)
(* Two inductive invariants of the kernel, in parts.  InPlace holds under  *)
(* its intended use: it says of every TCB where it is, and why no task     *)
(* that runs can find a mutex locked.  The properties of Kernel follow     *)
(* from it, in KernelInv_proofs.  OnePlace says that no task is in two     *)
(* places, and survives every misuse but one: the creation of a task again *)
(* while it waits on a queue that task_create does not empty.  What is     *)
(* said of steps at the end holds whatever tasks call (Kernel_proofs).     *)
(***************************************************************************)
EXTENDS Kernel

\* A task may wait for the device past the end, which the kernel does not refuse:
\* it is lost to its program, and harms nobody else.
IntendedUse == Misuse \subseteq {"device_past_end"}

\* The steps that are left: no task creates tasks while it holds a mutex or while
\* tasks wait on a queue that is kept, or a set that cannot be scheduled.
IntendedNext ==
  \/ \E m \in Mutexes : \/ mutex_create(m)
                       \/ mutex_lock(m) \/ mutex_lock_sleep(m)
                       \/ mutex_unlock(m) \/ mutex_unlock_wake(m)
  \/ \E d \in DevQueues : event_wait(d)
  \/ \E n \in 1 .. IDLE_PRIO - 1 : /\ task_create(n)
                                 /\ KeptQueuesEmpty /\ ~(InTask /\ holds_lock[cur_tcb] > 0)
  \/ task_create_unschedulable /\ InMain
  \/ SyscallRefused
  \/ dev_wait \/ dispatch_nosave \/ timer_tick \/ KernelExit

Created == num_tasks > 0
Known == Live \cup {IDLE_PRIO}

\* Who runs, and where a task can be when it does.
RunningInPlace ==
  /\ Created <=> cur_tcb # NULL
  /\ Created => cur_tcb \in Known
  /\ ~irq => Created
  /\ (Created /\ irq) => pc[cur_tcb] \in {"user", "checked", "nosave"}
  /\ \A t \in Tcbs :
       /\ pc[t] \notin {"mutex_lock", "mutex_unlock"}
       /\ pc[t] = "checked" => arg[t] \in DevQueues /\ t # IDLE_PRIO
       /\ pc[t] = "nosave" => /\ t = IDLE_PRIO /\ t = cur_tcb /\ irq
                              /\ \A d \in DevQueues : dev_queue[d] = <<>>

\* The only holder of a mutex is the running task, in its own code, and so
\* nobody waits for one.
HoldersInPlace ==
  \A m \in Mutexes :
    /\ bLock[m] <=> pHolding_Tcb[m] # NULL
    /\ pHolding_Tcb[m] # NULL =>
         /\ pHolding_Tcb[m] = cur_tcb
         /\ cur_tcb # IDLE_PRIO
         /\ irq
         /\ pc[cur_tcb] = "user"
    /\ mutex_queue[m] = <<>>

Held(t) == {m \in Mutexes : pHolding_Tcb[m] = t}

CountersInPlace ==
  /\ \A t \in Tcbs : holds_lock[t] = Cardinality(Held(t))
  /\ Created => \A t \in Known :
       cur_prio[t] = IF holds_lock[t] > 0 THEN 0 ELSE native_prio(t)

\* The slots of the run list: each holds its own task, never the running one.
SlotsInPlace(list, t) ==
  /\ list[IDLE_PRIO] = IDLE_PRIO
  /\ \A p \in Prios \ {IDLE_PRIO} : list[p] # NULL => list[p] = p /\ p \in Live /\ p # t

ReadyInPlace ==
  IF Created THEN SlotsInPlace(run_list, cur_tcb)
             ELSE \A p \in Prios : run_list[p] = NULL

SleepersInPlace ==
  /\ \A d \in DevQueues : \A i \in DOMAIN dev_queue[d] :
       /\ dev_queue[d][i] \in Live
       /\ dev_queue[d][i] # cur_tcb
       /\ run_list[dev_queue[d][i]] = NULL
  /\ \A d, e \in DevQueues : \A i \in DOMAIN dev_queue[d], j \in DOMAIN dev_queue[e] :
       dev_queue[d][i] = dev_queue[e][j] => d = e /\ i = j

Asleep(t) == \E d \in DevQueues : \E i \in DOMAIN dev_queue[d] : dev_queue[d][i] = t

NobodyMissing ==
  \A t \in Live : t = cur_tcb \/ run_list[t] = t \/ Asleep(t)

\* The inductive invariant: every TCB, slot, queue and mutex is in its place.
InPlace ==
  /\ TypeOK
  /\ RunningInPlace
  /\ HoldersInPlace
  /\ CountersInPlace
  /\ ReadyInPlace
  /\ SleepersInPlace
  /\ NobodyMissing

-----------------------------------------------------------------------------
(* What the kernel hides from its tasks: the slots of the run list, the order *)
(* of the queues, the counters and priorities of the TCBs, contexts and       *)
(* interrupts.  A task that was switched to and is not out of the kernel yet  *)
(* has the processor.                                                         *)

ReadyTasks == {run_list[p] : p \in Prios} \ {NULL, cur_tcb}
WaitingTasks == [d \in DevQueues |-> {dev_queue[d][i] : i \in DOMAIN dev_queue[d]}]

Tasks == INSTANCE Scheduler WITH
  Idle <- IDLE_PRIO, Mutexes <- Mutexes, Queues <- DevQueues, Devices <- Devices,
  running <- cur_tcb, ready <- ReadyTasks, waiting <- WaitingTasks, holder <- pHolding_Tcb

\* Tasks find the kernel to be the priority scheduler they are written for: each
\* system call and each interrupt, with every switch, copy and table in it, does to
\* who runs, who is ready, who waits and who holds a mutex what Scheduler says, or
\* nothing.
ImplementsScheduler == Tasks!Spec

-----------------------------------------------------------------------------
(* Whatever tasks call *)

\* The task is on one of the queues; no place of them has the task of another.
Among(queues, t) == \E q \in DOMAIN queues : \E j \in DOMAIN queues[q] : queues[q][j] = t
Distinct(queues) ==
  \A q, r \in DOMAIN queues : \A j \in DOMAIN queues[q], k \in DOMAIN queues[r] :
    queues[q][j] = queues[r][k] => q = r /\ j = k

PrioritiesOwn == \A t \in Tcbs : cur_prio[t] \in {0, native_prio(t)}

\* A ready task is in the slot of its priority, and on no queue.
SlotsApart ==
  \A p \in Prios : run_list[p] # NULL =>
    /\ cur_prio[run_list[p]] = p
    /\ ~Among(dev_queue, run_list[p]) /\ ~Among(mutex_queue, run_list[p])

\* A task sleeps on one queue, where its context has been saved.
QueuesApart ==
  /\ \A t \in Tcbs : /\ Among(dev_queue, t) => pc[t] = "dev_wait"
                     /\ Among(mutex_queue, t) => pc[t] = "mutex_lock"
  /\ Distinct(dev_queue) /\ Distinct(mutex_queue)

\* The running task is on no queue, and in no slot unless it is the idle task,
\* which never sleeps.
RunningApart ==
  /\ ~Among(dev_queue, cur_tcb) /\ ~Among(mutex_queue, cur_tcb)
  /\ \A p \in Prios : run_list[p] # NULL /\ run_list[p] = cur_tcb => cur_tcb = IDLE_PRIO
  /\ pc[IDLE_PRIO] \in {"none", "launch", "user", "nosave"}
  /\ irq /\ num_tasks > 0 => cur_tcb \in Tcbs

\* No task is in two places, or in one of them twice.
OnePlace == PrioritiesOwn /\ SlotsApart /\ QueuesApart /\ RunningApart

\* A TCB has one link for all sleep queues (task.h:60) and task_create fills it in
\* without looking where the TCB is (sched.c:55-71).  Nothing else can bring a task
\* into two places: not the device past the end, not a holder that replaces the
\* task set or a set refused after the queues were emptied, and no interleaving
\* with ticks.
TangledOnlyByCreation ==
  [][(OnePlace /\ ~OnePlace') => (created' # created /\ ~KeptQueuesEmpty)]_vars

\* Tasks are released from a mutex in the order in which they began to wait for
\* it (mutex_chaser.c:10 "Ensure mutex is releasing task in FCFS order"): its
\* queue grows at the end, by the running task and while the mutex is locked, and
\* shrinks at the head, into the run list or straight to the processor, when the
\* holder releases the mutex.  A creation leaves it as it is, or cuts it behind a
\* task that starts again.  Where a task is in two places nothing is said.
FirstComeFirstServed ==
  [][\A m \in Mutexes : mutex_queue'[m] # mutex_queue[m] /\ OnePlace =>
       \/ /\ bLock[m]
          /\ mutex_queue'[m] = Append(mutex_queue[m], cur_tcb)
       \/ /\ mutex_queue[m] # <<>>
          /\ mutex_queue'[m] = Tail(mutex_queue[m])
          /\ pHolding_Tcb[m] = cur_tcb /\ pHolding_Tcb'[m] = NULL
          /\ \/ cur_tcb' = Head(mutex_queue[m])
             \/ Head(mutex_queue[m]) \in {run_list'[p] : p \in Prios}
       \/ /\ created' # created
          /\ \E j \in DOMAIN mutex_queue[m] :
               /\ mutex_queue'[m] = SubSeq(mutex_queue[m], 1, j)
               /\ pc'[mutex_queue[m][j]] = "launch"]_vars

\* runqueue_add asks "that the run queue for that priority is empty"
\* (run_queue.c:90-91) and nobody looks.  Where it is not, after a task that
\* holds a mutex has replaced the task set, the task overwritten has priority 0
\* for a mutex it holds, and so has the one that overwrites it: no task is lost
\* from the slot of its own priority, and none in a queue or a switch.  Where a
\* task is in two places nothing is said.
LostOnlyAtCeiling ==
  [][\A t \in Tcbs : (~Lost(t) /\ Lost(t)' /\ OnePlace) =>
       /\ cur_prio'[t] = 0
       /\ \E u \in Tcbs \ {t} : cur_prio'[u] = 0 /\ (cur_tcb' = u \/ run_list'[0] = u)]_vars
=============================================================================
