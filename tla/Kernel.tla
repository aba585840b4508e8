------------------------------- MODULE Kernel -------------------------------
(***************************************************************************)
(* The scheduler, the mutexes and the periodic devices of the preemptive   *)
(* kernel in lab4/lab4/kernel, as the tasks and the timer drive them.      *)
(*                                                                         *)
(* The machine has one processor.  Code that runs between                  *)
(* disable_interrupts and enable_interrupts (or inside the interrupt       *)
(* handler, which runs with interrupts off) is one action.  A context      *)
(* switch ends the action: the processor continues, with interrupts still  *)
(* off, at the place where the task it switched to was suspended, which    *)
(* pc records, and the next action is the one that finishes that code.     *)
(*                                                                         *)
(* A system call that fails without changing anything is the action        *)
(* SyscallRefused.  The arguments of task_create are checked in            *)
(* proc.c:43-53 and those that fail leave the state as it is.              *)
(***************************************************************************)
EXTENDS Integers, Sequences, FiniteSets, RunList

CONSTANTS
  IDLE_PRIO,    \* the index and priority of the idle task: 63
  NumMutexes,   \* OS_NUM_MUTEX: 32
  NumDevices,   \* NUM_DEVICES: 4
  Freq,         \* dev_freq in timer ticks of 10 ms: 10, 20, 50, 5
  MaxCreate,    \* bound: the number of successful calls of task_create
  Misuse        \* the calls outside the intended use that tasks make;
                \* the kernel refuses none of them

Prios == 0 .. IDLE_PRIO
Tcbs == 1 .. IDLE_PRIO
Mutexes == 0 .. NumMutexes - 1
Devices == 0 .. NumDevices - 1

\* proc.c:102 lets the number NumDevices through: DevQueues has one entry more
\* than devices[], for the memory that follows the array.
DevQueues == 0 .. NumDevices

ASSUME KernelAssumption ==
  /\ IDLE_PRIO \in Nat \ {0}
  /\ NumMutexes \in Nat
  /\ NumDevices \in Nat
  /\ Freq \in [Devices -> Nat \ {0}]
  /\ MaxCreate \in Nat
  /\ Misuse \subseteq {"create_holding_lock", "create_over_sleepers",
                      "create_unschedulable", "device_past_end"}

VARIABLES
  cur_tcb,       \* the running task; NULL while main has created none yet
  run_list,      \* see RunList
  cur_prio,      \* the priority each task competes with
  holds_lock,    \* the number of mutexes each task holds, as the TCB counts it
  bAvailable,    \* the mutex has not been allocated
  bLock,         \* the mutex is locked
  pHolding_Tcb,  \* by this task
  mutex_queue,   \* the tasks on the mutex's sleep queue, in order
  dev_queue,     \* the tasks on the device's sleep queue, in order
  left,          \* ticks to the device's next match: next_match - timer_count
  pc,            \* where each task is, or was when it was switched away from
  arg,           \* the mutex or device of the system call it is in
  irq,           \* interrupts are enabled
  num_tasks,     \* the argument of the last successful task_create
  created        \* the number of them

tasks == <<cur_prio, holds_lock>>
mutexes == <<bAvailable, bLock, pHolding_Tcb, mutex_queue>>
devices == <<dev_queue, left>>
places == <<pc, arg>>
creation == <<num_tasks, created>>
sched == <<cur_tcb, run_list, irq>>
vars == <<sched, tasks, mutexes, devices, places, creation>>

\* none          a TCB no task_create has filled in, or that nothing leads to since
\*               the last one, or whose context is out of date since its task
\*               called it: the model stops where the processor is given to one
\* launch        the context is launch_task's: the task has not run yet
\* user          in its own code
\* checked       in event_wait, past the checks, interrupts still enabled
\* dev_wait      asleep in dev_wait
\* mutex_lock    asleep in mutex_lock
\* mutex_unlock  preempted in mutex_unlock
\* nosave        the idle task, while task_create runs in its name (proc.c:92-94)
Places == {"none", "launch", "user", "checked", "dev_wait", "mutex_lock",
           "mutex_unlock", "nosave"}

TypeOK ==
  /\ cur_tcb \in Tcbs \cup {NULL}
  /\ run_list \in [Prios -> Tcbs \cup {NULL}]
  /\ cur_prio \in [Tcbs -> Prios]
  /\ holds_lock \in [Tcbs -> Int]
  /\ bAvailable \in [Mutexes -> BOOLEAN]
  /\ bLock \in [Mutexes -> BOOLEAN]
  /\ pHolding_Tcb \in [Mutexes -> Tcbs \cup {NULL}]
  /\ mutex_queue \in [Mutexes -> Seq(Tcbs)]
  /\ dev_queue \in [DevQueues -> Seq(Tcbs)]
  /\ left \in [Devices -> Nat]
  /\ pc \in [Tcbs -> Places]
  /\ arg \in [Tcbs -> Nat]
  /\ irq \in BOOLEAN
  /\ num_tasks \in 0 .. IDLE_PRIO - 1
  /\ created \in 0 .. MaxCreate

native_prio(t) == t  \* set_context: a task's index is its priority

Main == cur_tcb = NULL /\ num_tasks = 0

\* The processor runs the code of main or of a task other than the idle one.
InMain == irq /\ Main
InTask == irq /\ cur_tcb \in Tcbs \ {IDLE_PRIO} /\ pc[cur_tcb] = "user"
InUser == InMain \/ InTask

\* At boot every static variable is zero and mutex_init has run: the first
\* tick finds next_match in the past.
Init ==
  /\ cur_tcb = NULL
  /\ run_list = [p \in Prios |-> NULL]
  /\ cur_prio = [t \in Tcbs |-> 0]
  /\ holds_lock = [t \in Tcbs |-> 0]
  /\ bAvailable = [m \in Mutexes |-> TRUE]
  /\ bLock = [m \in Mutexes |-> FALSE]
  /\ pHolding_Tcb = [m \in Mutexes |-> NULL]
  /\ mutex_queue = [m \in Mutexes |-> <<>>]
  /\ dev_queue = [d \in DevQueues |-> <<>>]
  /\ left = [d \in Devices |-> 0]
  /\ pc = [t \in Tcbs |-> "none"]
  /\ arg = [t \in Tcbs |-> 0]
  /\ irq = TRUE
  /\ num_tasks = 0
  /\ created = 0

At(t, place) == pc' = [pc EXCEPT ![t] = place]

-----------------------------------------------------------------------------
(* sched/ctx_switch.c: each leaves the processor with interrupts off. *)

\* On an empty list the task found is a null pointer and the registers are
\* loaded from wherever it points: the model stops there.
SwitchToHighest(list) ==
  LET p == HighestPrio(list)
  IN  /\ cur_tcb' = list[p]
      /\ run_list' = Take(list, p, IDLE_PRIO)
      /\ irq' = FALSE

\* Mutant of dispatch_sleep: the processor goes to the idle task.
SleepToIdle ==
  /\ cur_tcb' = IDLE_PRIO
  /\ irq' = FALSE
  /\ UNCHANGED run_list

dispatch_sleep == SwitchToHighest(run_list)

\* Mutant of dispatch_save: the task switched away from is not queued.
SaveWithoutAdd(list, prio) ==
  IF prio[cur_tcb] > HighestPrio(list)
  THEN SwitchToHighest(list)
  ELSE /\ run_list' = list
       /\ irq' = TRUE
       /\ UNCHANGED cur_tcb

\* The last thing its callers do before interrupts are enabled again; list and
\* prio are what the caller has made of run_list and cur_prio.
dispatch_save(list, prio) ==
  IF prio[cur_tcb] > HighestPrio(list)
  THEN SwitchToHighest(Put(list, prio[cur_tcb], cur_tcb))
  ELSE /\ run_list' = list
       /\ irq' = TRUE
       /\ UNCHANGED cur_tcb

-----------------------------------------------------------------------------
(* The sleep queues.  A queue is what its links lead to from its head, and a   *)
(* TCB has one link for all queues (task.h:60): what is done to the link of a  *)
(* task is done to every queue the task is on.                                 *)

\* The queue after the links of the tasks of S have been cleared.
CutAfter(queue, S) ==
  IF \A j \in DOMAIN queue : queue[j] \notin S THEN queue
  ELSE SubSeq(queue, 1, CHOOSE j \in DOMAIN queue :
                          queue[j] \in S /\ \A k \in 1 .. j - 1 : queue[k] \notin S)

Unlinked(queues, S) == [q \in DOMAIN queues |-> CutAfter(queues[q], S)]

\* What becomes of another queue when t is linked to the end of queue: the link
\* of the last task there leads to t, and that of t is cleared.
Linked(other, queue, t) ==
  LET shared == \E j \in DOMAIN other : queue # <<>> /\ other[j] = queue[Len(queue)]
  IN  CutAfter(IF shared THEN Append(other, t) ELSE other, {t})

LinkedAll(queues, queue, t) == [q \in DOMAIN queues |-> Linked(queues[q], queue, t)]

\* queues after t has been put on queue q of them.
Joined(queues, q, t) ==
  [LinkedAll(queues, queues[q], t) EXCEPT ![q] = CutAfter(Append(queues[q], t), {t})]

\* queues after the head of queue q of them has been taken off.
Served(queues, q) ==
  [Unlinked(queues, {Head(queues[q])}) EXCEPT ![q] = Tail(queues[q])]

-----------------------------------------------------------------------------
(* lock/mutex.c *)

mutex_create(m) ==
  /\ InUser
  /\ bAvailable[m]
  /\ \A k \in 0 .. m - 1 : ~bAvailable[k]
  /\ bAvailable' = [bAvailable EXCEPT ![m] = FALSE]
  /\ UNCHANGED <<sched, tasks, bLock, pHolding_Tcb, mutex_queue, devices, places, creation>>

\* Mutant of TakeMutex: the holder keeps its own priority.
TakeWithoutCeiling(m) ==
  /\ bLock' = [bLock EXCEPT ![m] = TRUE]
  /\ pHolding_Tcb' = [pHolding_Tcb EXCEPT ![m] = cur_tcb]
  /\ holds_lock' = [holds_lock EXCEPT ![cur_tcb] = @ + 1]
  /\ UNCHANGED <<cur_prio, bAvailable, mutex_queue>>

\* The last statements of mutex_lock, which do not look at bLock again.
TakeMutex(m) ==
  /\ bLock' = [bLock EXCEPT ![m] = TRUE]
  /\ pHolding_Tcb' = [pHolding_Tcb EXCEPT ![m] = cur_tcb]
  /\ holds_lock' = [holds_lock EXCEPT ![cur_tcb] = @ + 1]
  /\ cur_prio' = [cur_prio EXCEPT ![cur_tcb] = 0]
  /\ UNCHANGED <<bAvailable, mutex_queue>>

\* In main cur_tcb is NULL, and so is the holder of every mutex.
MayLock(m) == ~bAvailable[m] /\ pHolding_Tcb[m] # cur_tcb

mutex_lock(m) ==
  /\ InUser
  /\ MayLock(m)
  /\ ~bLock[m]
  /\ TakeMutex(m)
  /\ UNCHANGED <<sched, devices, places, creation>>

\* Mutant of mutex_lock_sleep: the queue grows at its head.
LockSleepAtHead(m) ==
  /\ InUser
  /\ MayLock(m)
  /\ bLock[m]
  /\ mutex_queue' = [Unlinked(mutex_queue, {cur_tcb}) EXCEPT
                      ![m] = <<cur_tcb>> \o mutex_queue[m]]
  /\ dev_queue' = Unlinked(dev_queue, {cur_tcb})
  /\ At(cur_tcb, "mutex_lock")
  /\ arg' = [arg EXCEPT ![cur_tcb] = m]
  /\ dispatch_sleep
  /\ UNCHANGED <<tasks, bAvailable, bLock, pHolding_Tcb, left, creation>>

mutex_lock_sleep(m) ==
  /\ InUser
  /\ MayLock(m)
  /\ bLock[m]
  /\ mutex_queue' = Joined(mutex_queue, m, cur_tcb)
  /\ dev_queue' = LinkedAll(dev_queue, mutex_queue[m], cur_tcb)
  /\ At(cur_tcb, "mutex_lock")
  /\ arg' = [arg EXCEPT ![cur_tcb] = m]
  /\ dispatch_sleep
  /\ UNCHANGED <<tasks, bAvailable, bLock, pHolding_Tcb, left, creation>>

mutex_lock_resume ==
  /\ ~irq
  /\ cur_tcb \in Tcbs
  /\ pc[cur_tcb] = "mutex_lock"
  /\ TakeMutex(arg[cur_tcb])
  /\ At(cur_tcb, "user")
  /\ irq' = TRUE
  /\ UNCHANGED <<cur_tcb, run_list, devices, arg, creation>>

\* Mutant of ReleaseMutex: the first release of several restores the priority.
ReleaseRestoresEarly(m) ==
  /\ InTask
  /\ ~bAvailable[m]
  /\ pHolding_Tcb[m] = cur_tcb
  /\ bLock' = [bLock EXCEPT ![m] = FALSE]
  /\ pHolding_Tcb' = [pHolding_Tcb EXCEPT ![m] = NULL]
  /\ holds_lock' = [holds_lock EXCEPT ![cur_tcb] = @ - 1]
  /\ cur_prio' = [cur_prio EXCEPT ![cur_tcb] = native_prio(cur_tcb)]

\* main passes the test for the holder too, because NULL = NULL, and goes on to
\* write through the null pointer: it is taken never to call mutex_unlock.
ReleaseMutex(m) ==
  /\ InTask
  /\ ~bAvailable[m]
  /\ pHolding_Tcb[m] = cur_tcb
  /\ bLock' = [bLock EXCEPT ![m] = FALSE]
  /\ pHolding_Tcb' = [pHolding_Tcb EXCEPT ![m] = NULL]
  /\ holds_lock' = [holds_lock EXCEPT ![cur_tcb] = @ - 1]
  /\ cur_prio' = [cur_prio EXCEPT ![cur_tcb] =
                    IF holds_lock[cur_tcb] = 1 THEN native_prio(cur_tcb) ELSE @]

mutex_unlock(m) ==
  /\ ReleaseMutex(m)
  /\ mutex_queue[m] = <<>>
  /\ UNCHANGED <<sched, bAvailable, mutex_queue, devices, places, creation>>

\* Mutant of mutex_unlock_wake: the woken task is not made ready.
UnlockForgetsWoken(m) ==
  /\ ReleaseMutex(m)
  /\ mutex_queue[m] # <<>>
  /\ mutex_queue' = Served(mutex_queue, m)
  /\ dev_queue' = Unlinked(dev_queue, {Head(mutex_queue[m])})
  /\ dispatch_save(run_list, cur_prio')
  /\ At(cur_tcb, IF irq' THEN "user" ELSE "mutex_unlock")
  /\ UNCHANGED <<bAvailable, left, arg, creation>>

mutex_unlock_wake(m) ==
  /\ ReleaseMutex(m)
  /\ mutex_queue[m] # <<>>
  /\ mutex_queue' = Served(mutex_queue, m)
  /\ dev_queue' = Unlinked(dev_queue, {Head(mutex_queue[m])})
  /\ LET woken == Head(mutex_queue[m])
     IN  dispatch_save(Put(run_list, cur_prio'[woken], woken), cur_prio')
  /\ At(cur_tcb, IF irq' THEN "user" ELSE "mutex_unlock")
  /\ UNCHANGED <<bAvailable, left, arg, creation>>

-----------------------------------------------------------------------------
(* device.c, with event_wait of syscall/proc.c *)

\* Mutant of event_wait: a task that holds a mutex may wait.
EventWaitHolding(d) ==
  /\ InTask
  /\ d = NumDevices => "device_past_end" \in Misuse
  /\ At(cur_tcb, "checked")
  /\ arg' = [arg EXCEPT ![cur_tcb] = d]
  /\ UNCHANGED <<sched, tasks, mutexes, devices, creation>>

\* The checks of event_wait are made with interrupts enabled.  main has no TCB
\* to put to sleep: it is taken never to call event_wait.
event_wait(d) ==
  /\ InTask
  /\ d = NumDevices => "device_past_end" \in Misuse
  /\ ~(holds_lock[cur_tcb] > 0)
  /\ At(cur_tcb, "checked")
  /\ arg' = [arg EXCEPT ![cur_tcb] = d]
  /\ UNCHANGED <<sched, tasks, mutexes, devices, creation>>

dev_wait ==
  /\ irq
  /\ cur_tcb \in Tcbs
  /\ pc[cur_tcb] = "checked"
  /\ dev_queue' = Joined(dev_queue, arg[cur_tcb], cur_tcb)
  /\ mutex_queue' = LinkedAll(mutex_queue, dev_queue[arg[cur_tcb]], cur_tcb)
  /\ At(cur_tcb, "dev_wait")
  /\ dispatch_sleep
  /\ UNCHANGED <<tasks, bAvailable, bLock, pHolding_Tcb, left, arg, creation>>

\* The places of the queues of the devices in due, and the tasks in them.
Sleeping(due) == UNION {{d} \X DOMAIN dev_queue[d] : d \in due}
TaskOf(s) == dev_queue[s[1]][s[2]]
Woken(due) == {TaskOf(s) : s \in Sleeping(due)}

\* dev_update goes through the due devices in order, and through the queue of each
\* from its head as far as the links lead that it has not cleared yet.
Reached(due, s) ==
  \A k \in 1 .. s[2] - 1 : \A r \in Sleeping(due) :
    r[1] < s[1] => TaskOf(r) # dev_queue[s[1]][k]

\* What it makes of the run list: of two tasks with one priority the later stays
\* in the slot.
LastOf(S) ==
  CHOOSE s \in S : \A r \in S : r[1] < s[1] \/ (r[1] = s[1] /\ r[2] <= s[2])

Wake(due) ==
  [p \in Prios |->
     LET here == {s \in Sleeping(due) : cur_prio[TaskOf(s)] = p /\ Reached(due, s)}
     IN  IF here = {} THEN run_list[p] ELSE TaskOf(LastOf(here))]

\* And of the queues.
Signalled(due) ==
  LET woken == Woken(due)
  IN  /\ dev_queue' = [d \in DevQueues |-> IF d \in due THEN <<>>
                                          ELSE CutAfter(dev_queue[d], woken)]
      /\ mutex_queue' = Unlinked(mutex_queue, woken)

\* Mutant of timer_tick: a match is seen only on its very tick.
TickOnEqual ==
  LET due == {d \in Devices : left[d] = 1}
  IN  /\ irq
      /\ left' = [d \in Devices |-> IF d \in due THEN Freq[d] ELSE left[d] - 1]
      /\ IF Sleeping(due) = {}
         THEN UNCHANGED <<sched, dev_queue, mutex_queue>>
         ELSE Signalled(due) /\ dispatch_save(Wake(due), cur_prio)
      /\ UNCHANGED <<tasks, bAvailable, bLock, pHolding_Tcb, places, creation>>

\* Mutant of timer_tick: the loop ends before the last device.
TickMissesLast ==
  LET due == {d \in Devices : d < NumDevices - 1 /\ left[d] <= 1}
  IN  /\ irq
      /\ left' = [d \in Devices |-> IF d \in due THEN Freq[d]
                                    ELSE IF left[d] = 0 THEN 0 ELSE left[d] - 1]
      /\ IF Sleeping(due) = {}
         THEN UNCHANGED <<sched, dev_queue, mutex_queue>>
         ELSE Signalled(due) /\ dispatch_save(Wake(due), cur_prio)
      /\ UNCHANGED <<tasks, bAvailable, bLock, pHolding_Tcb, places, creation>>

\* Mutant of timer_tick: the tasks are made ready and nothing is dispatched.
TickWithoutDispatch ==
  LET due == {d \in Devices : left[d] <= 1}
  IN  /\ irq
      /\ left' = [d \in Devices |-> IF d \in due THEN Freq[d] ELSE left[d] - 1]
      /\ Signalled(due)
      /\ run_list' = Wake(due)
      /\ UNCHANGED <<cur_tcb, irq, tasks, bAvailable, bLock, pHolding_Tcb, places, creation>>

\* C_IRQ_handler and dev_update.  timer_count counts interrupts, so the time
\* that passes while interrupts are off delays a tick and does not lose it.
\* The task interrupted is suspended where it is.
timer_tick ==
  LET due == {d \in Devices : left[d] <= 1}
  IN  /\ irq
      /\ left' = [d \in Devices |-> IF d \in due THEN Freq[d] ELSE left[d] - 1]
      /\ IF Sleeping(due) = {}
         THEN UNCHANGED <<sched, dev_queue, mutex_queue>>
         ELSE Signalled(due) /\ dispatch_save(Wake(due), cur_prio)
      /\ UNCHANGED <<tasks, bAvailable, bLock, pHolding_Tcb, places, creation>>

-----------------------------------------------------------------------------
(* task_create of syscall/proc.c, with sched/sched.c *)

\* Mutant of ResetQueues: the sleep queues keep the old tasks.
QueuesKept == dev_queue

\* runqueue_init and dev_init, which task_create calls before it knows that it
\* will succeed.
ResetQueues == [d \in DevQueues |-> IF d \in Devices THEN <<>> ELSE dev_queue[d]]
ResetDevices == dev_queue' = ResetQueues /\ left' = Freq

\* Nobody is on a queue that task_create does not empty.  A task that is and is
\* created again gets its link cleared and a slot of the run list, and stays on
\* the queue; those behind it are on no queue any more.
KeptQueuesEmpty == dev_queue[NumDevices] = <<>> /\ \A m \in Mutexes : mutex_queue[m] = <<>>

\* The tasks that wait on such a queue are all that task_create leaves of the
\* earlier tasks, apart from the one that calls it, which never returns.
OutlivesCreation(t) ==
  /\ t # cur_tcb
  /\ \/ t \in {dev_queue[NumDevices][j] : j \in DOMAIN dev_queue[NumDevices]}
     \/ \E m \in Mutexes : t \in {mutex_queue[m][j] : j \in DOMAIN mutex_queue[m]}

\* allocate_tasks and sched_init; the mutexes stay as they are, but for the links
\* of the tasks on their queues that set_context clears.  From here to
\* dispatch_nosave the processor runs in the idle task's name with interrupts
\* enabled.
task_create(n) ==
  LET fresh == 1 .. n \cup {IDLE_PRIO}
  IN  /\ InUser
      /\ (InTask /\ holds_lock[cur_tcb] > 0) => "create_holding_lock" \in Misuse
      /\ ~KeptQueuesEmpty => "create_over_sleepers" \in Misuse
      /\ created < MaxCreate
      /\ dev_queue' = Unlinked(ResetQueues, fresh)
      /\ mutex_queue' = Unlinked(mutex_queue, fresh)
      /\ left' = Freq
      /\ run_list' = [p \in Prios |-> IF p \in fresh THEN p ELSE NULL]
      /\ cur_prio' = [t \in Tcbs |-> IF t \in fresh THEN native_prio(t) ELSE cur_prio[t]]
      /\ holds_lock' = [t \in Tcbs |-> IF t \in fresh THEN 0 ELSE holds_lock[t]]
      /\ pc' = [t \in Tcbs |-> IF t = IDLE_PRIO THEN "nosave"
                               ELSE IF t \in fresh THEN "launch"
                               ELSE IF OutlivesCreation(t) THEN pc[t] ELSE "none"]
      /\ cur_tcb' = IDLE_PRIO
      /\ num_tasks' = n
      /\ created' = created + 1
      /\ UNCHANGED <<irq, bAvailable, bLock, pHolding_Tcb, arg>>

\* The return of -ESCHED, after the queues have been emptied.
task_create_unschedulable ==
  /\ InUser
  /\ InTask => "create_unschedulable" \in Misuse
  /\ ResetDevices
  /\ run_list' = [p \in Prios |-> NULL]
  /\ UNCHANGED <<cur_tcb, irq, tasks, mutexes, places, creation>>

\* Interrupts are still enabled, but no device has a sleeper (CreationQuiet),
\* so that a tick on the way to the first task would change no queue.
dispatch_nosave ==
  /\ irq
  /\ cur_tcb = IDLE_PRIO
  /\ pc[IDLE_PRIO] = "nosave"
  /\ SwitchToHighest(run_list)
  /\ At(IDLE_PRIO, "launch")
  /\ UNCHANGED <<tasks, mutexes, devices, arg, creation>>

-----------------------------------------------------------------------------
(* The ways out of the kernel *)

\* Where a task switched to runs on: launch_task in ctx_switch_asm.S, the end
\* of irq_wrapper, or the ends of dev_wait and mutex_unlock.
LeaveKernel(places_left, place) ==
  /\ ~irq
  /\ cur_tcb \in Tcbs
  /\ pc[cur_tcb] \in places_left
  /\ At(cur_tcb, place)
  /\ irq' = TRUE
  /\ UNCHANGED <<cur_tcb, run_list, tasks, mutexes, devices, arg, creation>>

launch_task == LeaveKernel({"launch"}, "user")
syscall_return == LeaveKernel({"dev_wait", "mutex_unlock"}, "user")
irq_return == \E place \in {"user", "checked", "nosave"} : LeaveKernel({place}, place)

\* -EINVAL and -EDEADLOCK of mutex_lock, -EINVAL and -EPERM of mutex_unlock,
\* -ENOMEM of mutex_create, -EHOLDSLOCK of event_wait.
SyscallRefused ==
  /\ InUser
  /\ \/ \E m \in Mutexes : ~MayLock(m)
     \/ InTask /\ \E m \in Mutexes : bAvailable[m] \/ pHolding_Tcb[m] # cur_tcb
     \/ \A m \in Mutexes : ~bAvailable[m]
     \/ InTask /\ holds_lock[cur_tcb] > 0
  /\ UNCHANGED vars

-----------------------------------------------------------------------------
KernelExit == launch_task \/ syscall_return \/ irq_return \/ mutex_lock_resume

Syscall ==
  \/ \E m \in Mutexes : mutex_create(m)
  \/ \E m \in Mutexes : mutex_lock(m)
  \/ \E m \in Mutexes : mutex_lock_sleep(m)
  \/ \E m \in Mutexes : mutex_unlock(m)
  \/ \E m \in Mutexes : mutex_unlock_wake(m)
  \/ \E d \in DevQueues : event_wait(d)
  \/ \E n \in 1 .. IDLE_PRIO - 1 : task_create(n)
  \/ task_create_unschedulable
  \/ SyscallRefused

Next == Syscall \/ dev_wait \/ dispatch_nosave \/ timer_tick \/ KernelExit

Spec == Init /\ [][Next]_vars

\* The processor never stops in code with interrupts off, and the timer's match
\* stays pending in OSSR until interrupts are on again.  Nothing is assumed of
\* what tasks call.
Fairness == WF_vars(KernelExit) /\ SF_vars(timer_tick)

FairSpec == Spec /\ Fairness

-----------------------------------------------------------------------------
(* Properties *)

Live == 1 .. num_tasks

\* A task is in a slot of the run list, in one place of a device's sleep queue
\* or in one of a mutex's: the places a task that does not run can be found.
Slots(t) == {p \in Prios : run_list[p] = t}
InDevices(t) == {s \in UNION {{d} \X DOMAIN dev_queue[d] : d \in DevQueues} : TaskOf(s) = t}
InMutexes(t) == {s \in UNION {{m} \X DOMAIN mutex_queue[m] : m \in Mutexes} :
                   mutex_queue[s[1]][s[2]] = t}

\* No task is lost and none is queued twice: a slot takes one task
\* (run_queue.c:90-92), and a TCB has one link for all sleep queues
\* (task.h:60), so every task but the running one is in exactly one place, and
\* the running one in none.
NoTaskLost ==
  \A t \in Live :
    Cardinality(Slots(t)) + Cardinality(InDevices(t)) + Cardinality(InMutexes(t)) =
      IF t = cur_tcb THEN 0 ELSE 1

\* A task that neither runs nor is in any place: nothing will ever run it again.
Lost(t) ==
  /\ t \in Live \ {cur_tcb}
  /\ Slots(t) = {} /\ InDevices(t) = {} /\ InMutexes(t) = {}

\* ctx_switch.c:76 "There is always an idle task to switch to", for the switches
\* away from a task: the idle task never leaves its slot.
IdleReady == num_tasks > 0 => run_list[IDLE_PRIO] = IDLE_PRIO

\* Why a mutex is exclusive although mutex_lock does not look at it again after
\* it slept (mutex.c:121-129): its holder runs at priority 0, gives up the
\* processor nowhere, and so no other task can find the mutex locked.
HolderRuns ==
  \A m \in Mutexes :
    /\ bLock[m] <=> pHolding_Tcb[m] # NULL
    /\ bLock[m] => pHolding_Tcb[m] = cur_tcb /\ pc[cur_tcb] = "user"
    /\ mutex_queue[m] = <<>>

\* The counter in the TCB, kept apart from the mutexes (mutex.c:128,169), is
\* the number of mutexes the task holds, and it decides the priority.
LocksCounted ==
  \A t \in Live :
    /\ holds_lock[t] = Cardinality({m \in Mutexes : pHolding_Tcb[m] = t})
    /\ cur_prio[t] = IF holds_lock[t] > 0 THEN 0 ELSE native_prio(t)

\* While task_create runs in the idle task's name with interrupts enabled
\* (proc.c:92-94), no tick can switch away from it: the idle task's context is
\* launch_task's, and dispatch_save would overwrite it.
CreationQuiet ==
  (num_tasks > 0 /\ pc[IDLE_PRIO] = "nosave") =>
    /\ irq
    /\ cur_tcb = IDLE_PRIO
    /\ \A d \in Devices : dev_queue[d] = <<>>

\* The running task is the most urgent of those that can run.
RunningIsHighest ==
  (irq /\ cur_tcb \in Tcbs /\ pc[cur_tcb] # "nosave") =>
    \A p \in Occupied(run_list) : cur_prio[cur_tcb] <= p

\* Whatever makes a task ready or runs one keeps the running task the most
\* urgent, except the release of the last mutex a task holds, which lowers its
\* priority and looks for a more urgent task only if one slept on the mutex
\* (mutex.c:170-184).
InversionOnlyAfterUnlock ==
  [][(RunningIsHighest /\ ~RunningIsHighest') =>
       cur_tcb' = cur_tcb /\ holds_lock[cur_tcb] = 1 /\ holds_lock'[cur_tcb] = 0]_vars

\* A switch goes to the most urgent ready task, and away only from a task that
\* sleeps or that the new one outranks (ctx_switch.c:49-57,83).
SwitchToMostUrgent ==
  [][(cur_tcb \in Tcbs /\ cur_tcb' # cur_tcb /\ created' = created) =>
       /\ cur_tcb' \in Tcbs
       /\ \A p \in Occupied(run_list') : cur_prio'[cur_tcb'] <= p
       /\ \/ pc'[cur_tcb] \in {"dev_wait", "mutex_lock"}
          \/ pc[cur_tcb] = "nosave"
          \/ cur_prio'[cur_tcb'] < cur_prio'[cur_tcb]]_vars

\* device.c:60-61: dev_wait "Puts a task to sleep on the sleep queue until the
\* next event is signalled for the device."  The event comes, whichever device.
SleeperSignalled ==
  \A d \in DevQueues, t \in Tcbs :
    (\E i \in DOMAIN dev_queue[d] : dev_queue[d][i] = t) ~>
      ~(\E i \in DOMAIN dev_queue[d] : dev_queue[d][i] = t)

\* ctx_switch.c:76 "There is always an idle task to switch to": a switch always
\* finds a task.
SwitchFindsTask == [][(cur_tcb \in Tcbs) => (cur_tcb' \in Tcbs)]_vars
=============================================================================
