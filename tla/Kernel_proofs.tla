--------------------------- MODULE Kernel_proofs ---------------------------
(***************************************************************************)
(* What holds of the kernel whatever tasks call, for every number of tasks,*)
(* mutexes and devices, every choice of device periods and every number of *)
(* calls: its types, that only the creation of tasks over sleepers can put *)
(* a task into two places, the order in which tasks get a mutex and where  *)
(* a task can be lost until then, and the ticks of devices.  What needs    *)
(* the intended use is in KernelInv_proofs.                                *)
(***************************************************************************)
EXTENDS KernelInv, RunList_proofs, FiniteSetTheorems, SequenceTheorems

-----------------------------------------------------------------------------
(* Types *)

\* A nonempty set of numbers below a bound has a greatest element.
LEMMA GreatestNatural ==
  ASSUME NEW S \in SUBSET Nat, S # {}, NEW n \in Nat, \A x \in S : x <= n
  PROVE  \E x \in S : \A y \in S : y <= x
PROOF
<1> DEFINE T == {n - x : x \in S}
<1>1. T \in SUBSET Nat /\ T # {}
  <2>1. \A x \in S : n - x \in Nat
    OBVIOUS
  <2> QED BY <2>1
<1>2. Min(T) \in T /\ \A y \in T : Min(T) <= y
  BY <1>1, MinOfNaturals
<1>3. PICK x \in S : Min(T) = n - x
  BY <1>2
<1>4. \A y \in S : n - x <= n - y
  BY <1>2, <1>3
<1> QED BY <1>3, <1>4

\* Of the sleepers with one priority dev_update leaves one in the slot, the
\* last it comes to.
LEMMA LastIsOne ==
  ASSUME TypeOK, NEW due \in SUBSET Devices, NEW S \in SUBSET Sleeping(due), S # {}
  PROVE  LastOf(S) \in S
PROOF
<1>1. \A s \in S : /\ s[1] \in Devices /\ s[1] \in Nat
                   /\ s[2] \in 1 .. Len(dev_queue[s[1]]) /\ s[2] \in Nat
  <2> TAKE s \in S
  <2>1. PICK d \in due : s \in {d} \X DOMAIN dev_queue[d]
    BY DEF Sleeping
  <2>2. d \in Devices /\ d \in Nat /\ dev_queue[d] \in Seq(Tcbs)
    BY KernelAssumption DEF TypeOK, Devices, DevQueues
  <2>3. DOMAIN dev_queue[d] = 1 .. Len(dev_queue[d])
    BY <2>2
  <2>4. s[1] = d /\ s[2] \in 1 .. Len(dev_queue[d])
    BY <2>1, <2>3
  <2> QED BY <2>2, <2>4
<1> DEFINE D == {s[1] : s \in S}
<1>2. D \in SUBSET Nat /\ D # {} /\ \A d \in D : d <= NumDevices
  BY <1>1, KernelAssumption DEF Devices
<1>3. PICK d \in D : \A e \in D : e <= d
  <2> HIDE DEF D
  <2> QED BY <1>2, GreatestNatural, KernelAssumption
<1> DEFINE I == {s[2] : s \in {r \in S : r[1] = d}}
<1>4. I \in SUBSET Nat /\ I # {} /\ \A i \in I : i <= Len(dev_queue[d])
  BY <1>1, <1>3
<1>5. Len(dev_queue[d]) \in Nat
  BY <1>1, <1>3 DEF TypeOK, Devices, DevQueues
<1>6. PICK i \in I : \A j \in I : j <= i
  <2> HIDE DEF I
  <2> QED BY <1>4, <1>5, GreatestNatural
<1>7. PICK s \in S : s[1] = d /\ s[2] = i
  BY <1>6
<1>8. \A r \in S : r[1] < s[1] \/ (r[1] = s[1] /\ r[2] <= s[2])
  <2> TAKE r \in S
  <2>1. r[1] <= d
    BY <1>3
  <2>2. r[1] = d => r[2] <= i
    BY <1>6
  <2> QED BY <1>1, <1>7, <2>1, <2>2
<1> QED BY <1>7, <1>8 DEF LastOf

LEMMA NoSleepers ==
  ASSUME NEW due, \A d \in due : dev_queue[d] = <<>>
  PROVE  Sleeping(due) = {}
PROOF
<1> SUFFICES ASSUME NEW s \in Sleeping(due) PROVE FALSE
  OBVIOUS
<1>1. PICK d \in due : s \in {d} \X DOMAIN dev_queue[d]
  BY DEF Sleeping
<1>2. DOMAIN dev_queue[d] = {}
  BY <1>1, EmptySeq
<1> QED BY <1>1, <1>2

LEMMA SleeperType ==
  ASSUME TypeOK, NEW due \in SUBSET Devices, NEW s \in Sleeping(due)
  PROVE  TaskOf(s) \in Tcbs
PROOF
<1>1. PICK d \in due : s \in {d} \X DOMAIN dev_queue[d]
  BY DEF Sleeping
<1>2. dev_queue[d] \in Seq(Tcbs)
  BY KernelAssumption DEF TypeOK, Devices, DevQueues
<1>3. s[1] = d /\ s[2] \in DOMAIN dev_queue[d]
  BY <1>1
<1> QED BY <1>2, <1>3, ElementOfSeq DEF TaskOf

LEMMA WakeType ==
  ASSUME TypeOK, NEW due \in SUBSET Devices
  PROVE  Wake(due) \in [Prios -> Tcbs \cup {NULL}]
PROOF
<1> SUFFICES ASSUME NEW p \in Prios
             PROVE  Wake(due)[p] \in Tcbs \cup {NULL}
  BY DEF Wake
<1> DEFINE here == {s \in Sleeping(due) : cur_prio[TaskOf(s)] = p /\ Reached(due, s)}
<1>1. Wake(due)[p] = IF here = {} THEN run_list[p] ELSE TaskOf(LastOf(here))
  BY DEF Wake
<1>2. here \in SUBSET Sleeping(due)
  OBVIOUS
<1> HIDE DEF here
<1>3. here # {} => TaskOf(LastOf(here)) \in Tcbs
  BY <1>2, LastIsOne, SleeperType
<1> QED BY <1>1, <1>3 DEF TypeOK

\* What a switch leaves in the three variables it changes.
SchedType ==
  /\ cur_tcb \in Tcbs \cup {NULL}
  /\ run_list \in [Prios -> Tcbs \cup {NULL}]
  /\ irq \in BOOLEAN

LEMMA HighestPrioType ==
  ASSUME NEW list \in [Prios -> Tcbs \cup {NULL}]
  PROVE  HighestPrio(list) \in Prios
PROOF
<1>1. CASE Occupied(list) = {}
  BY <1>1, KernelAssumption DEF HighestPrio, Prios
<1>2. CASE Occupied(list) # {}
  <2>1. DOMAIN list = Prios /\ Prios \subseteq Nat
    BY KernelAssumption DEF Prios
  <2> QED BY <1>2, <2>1, HighestPrioLeast
<1> QED BY <1>1, <1>2

LEMMA SwitchType ==
  ASSUME NEW list \in [Prios -> Tcbs \cup {NULL}], SwitchToHighest(list)
  PROVE  SchedType'
PROOF
  BY HighestPrioType DEF SwitchToHighest, SchedType, Take

LEMMA DispatchSaveType ==
  ASSUME NEW list \in [Prios -> Tcbs \cup {NULL}], NEW prio,
         SchedType, dispatch_save(list, prio)
  PROVE  SchedType'
PROOF
<1>1. CASE prio[cur_tcb] > HighestPrio(list)
  <2>1. Put(list, prio[cur_tcb], cur_tcb) \in [Prios -> Tcbs \cup {NULL}]
    BY DEF Put, SchedType
  <2> QED BY <1>1, <2>1, SwitchType DEF dispatch_save
<1>2. CASE ~(prio[cur_tcb] > HighestPrio(list))
  BY <1>2 DEF dispatch_save, SchedType
<1> QED BY <1>1, <1>2

LEMMA ConstantsTyped ==
  /\ NULL \notin Tcbs
  /\ Tcbs \subseteq Nat
  /\ Mutexes \subseteq Nat
  /\ DevQueues \subseteq Nat
  /\ Devices \subseteq DevQueues
  /\ Tcbs \subseteq Prios
  /\ 0 \in Prios
  /\ IDLE_PRIO \in Tcbs
  /\ IDLE_PRIO \in Prios
  /\ NumDevices \in DevQueues
PROOF
  BY KernelAssumption DEF NULL, Tcbs, Mutexes, DevQueues, Devices, Prios

-----------------------------------------------------------------------------
(* The sleep queues: what their operators return *)

LEMMA CutNothing ==
  ASSUME NEW q, NEW S, \A j \in DOMAIN q : q[j] \notin S
  PROVE  CutAfter(q, S) = q
PROOF
  BY DEF CutAfter

\* A queue ends with the first of its tasks whose link is cleared.
LEMMA CutWhere ==
  ASSUME NEW T, NEW q \in Seq(T), NEW S
  PROVE  \/ CutAfter(q, S) = q /\ \A j \in 1 .. Len(q) : q[j] \notin S
         \/ \E j \in 1 .. Len(q) : /\ q[j] \in S /\ \A k \in 1 .. j - 1 : q[k] \notin S
                                   /\ CutAfter(q, S) = SubSeq(q, 1, j)
PROOF
<1>1. DOMAIN q = 1 .. Len(q) /\ Len(q) \in Nat
  OBVIOUS
<1> DEFINE cuts == {j \in 1 .. Len(q) : q[j] \in S}
<1>2. CASE cuts = {}
  <2>1. \A j \in DOMAIN q : q[j] \notin S
    BY <1>1, <1>2
  <2> QED BY <1>1, <2>1, CutNothing
<1>3. CASE cuts # {}
  <2> DEFINE First(j) == q[j] \in S /\ \A k \in 1 .. j - 1 : q[k] \notin S
             first == CHOOSE j \in DOMAIN q : First(j)
  <2>1. cuts \in SUBSET Nat
    BY <1>1
  <2>2. Min(cuts) \in cuts /\ \A k \in cuts : Min(cuts) <= k
    <3> HIDE DEF cuts
    <3> QED BY <1>3, <2>1, MinOfNaturals
  <2>3. Min(cuts) \in DOMAIN q /\ First(Min(cuts))
    <3>1. \A k \in 1 .. Min(cuts) - 1 : k \in 1 .. Len(q) /\ ~(Min(cuts) <= k)
      BY <1>1, <2>2
    <3> QED BY <1>1, <2>2, <3>1
  <2>4. first \in DOMAIN q /\ First(first)
    <3> HIDE DEF First
    <3> QED BY <2>3
  <2>5. CutAfter(q, S) = SubSeq(q, 1, first)
    BY <2>3 DEF CutAfter
  <2> HIDE DEF first
  <2> QED BY <1>1, <2>4, <2>5
<1> QED BY <1>2, <1>3

LEMMA CutType ==
  ASSUME NEW T, NEW q \in Seq(T), NEW S
  PROVE  CutAfter(q, S) \in Seq(T)
PROOF
<1>1. ASSUME NEW j \in 1 .. Len(q), CutAfter(q, S) = SubSeq(q, 1, j)
      PROVE  CutAfter(q, S) \in Seq(T)
  <2>1. \A k \in 1 .. j : q[k] \in T
    <3>1. \A k \in 1 .. j : k \in 1 .. Len(q)
      OBVIOUS
    <3> QED BY <3>1, ElementOfSeq
  <2>2. 1 \in Int /\ j \in Int
    OBVIOUS
  <2> QED BY <1>1, <2>1, <2>2, SubSeqProperties
<1> QED BY <1>1, CutWhere

LEMMA UnlinkedType ==
  ASSUME NEW T, NEW I, NEW q \in [I -> Seq(T)], NEW S
  PROVE  Unlinked(q, S) \in [I -> Seq(T)]
PROOF
  BY CutType DEF Unlinked

LEMMA LinkedType ==
  ASSUME NEW T, NEW I, NEW q \in [I -> Seq(T)], NEW queue, NEW t \in T
  PROVE  LinkedAll(q, queue, t) \in [I -> Seq(T)]
PROOF
<1>1. ASSUME NEW i \in I PROVE Linked(q[i], queue, t) \in Seq(T)
  <2>1. q[i] \in Seq(T) /\ Append(q[i], t) \in Seq(T)
    BY AppendProperties
  <2> QED BY <2>1, CutType DEF Linked
<1> QED BY <1>1 DEF LinkedAll

LEMMA JoinedType ==
  ASSUME NEW T, NEW I, NEW q \in [I -> Seq(T)], NEW i, NEW t \in T
  PROVE  Joined(q, i, t) \in [I -> Seq(T)]
PROOF
<1> DEFINE others == LinkedAll(q, q[i], t)
           end == CutAfter(Append(q[i], t), {t})
<1>1. others \in [I -> Seq(T)]
  BY LinkedType
<1>2. i \in I => end \in Seq(T)
  <2>1. i \in I => Append(q[i], t) \in Seq(T)
    BY AppendProperties
  <2> QED BY <2>1, CutType
<1>3. Joined(q, i, t) = [others EXCEPT ![i] = end]
  BY DEF Joined
<1> HIDE DEF others, end
<1> QED BY <1>1, <1>2, <1>3

LEMMA ServedType ==
  ASSUME NEW T, NEW I, NEW q \in [I -> Seq(T)], NEW i \in I, q[i] # <<>>
  PROVE  Served(q, i) \in [I -> Seq(T)]
PROOF
<1>1. Unlinked(q, {Head(q[i])}) \in [I -> Seq(T)]
  BY UnlinkedType
<1>2. Tail(q[i]) \in Seq(T)
  BY HeadTailProperties
<1> QED BY <1>1, <1>2 DEF Served

-----------------------------------------------------------------------------
(* The steps *)

\* What keeps main from being queued: it finds no mutex held.
NoTaskYet ==
  num_tasks = 0 =>
    /\ cur_tcb = NULL
    /\ \A m \in Mutexes : pHolding_Tcb[m] = NULL
    /\ \A d \in DevQueues : dev_queue[d] = <<>>

LEMMA TakeMutexType ==
  ASSUME TypeOK, cur_tcb \in Tcbs, NEW m \in Nat, TakeMutex(m)
  PROVE  /\ bLock' \in [Mutexes -> BOOLEAN] /\ pHolding_Tcb' \in [Mutexes -> Tcbs \cup {NULL}]
         /\ bAvailable' \in [Mutexes -> BOOLEAN] /\ mutex_queue' \in [Mutexes -> Seq(Tcbs)]
         /\ holds_lock' \in [Tcbs -> Int] /\ cur_prio' \in [Tcbs -> Prios]
PROOF
<1>1. holds_lock[cur_tcb] + 1 \in Int
  BY DEF TypeOK
<1> QED
  BY <1>1, ConstantsTyped DEF TakeMutex, TypeOK

LEMMA ReleaseMutexType ==
  ASSUME TypeOK, NEW m \in Mutexes, ReleaseMutex(m)
  PROVE  /\ cur_prio' \in [Tcbs -> Prios] /\ holds_lock' \in [Tcbs -> Int]
         /\ bLock' \in [Mutexes -> BOOLEAN] /\ pHolding_Tcb' \in [Mutexes -> Tcbs \cup {NULL}]
PROOF
<1>1. cur_tcb \in Tcbs /\ holds_lock[cur_tcb] - 1 \in Int /\ native_prio(cur_tcb) \in Prios
  BY ConstantsTyped DEF ReleaseMutex, InTask, TypeOK, native_prio
<1>2. holds_lock' \in [Tcbs -> Int]
  BY <1>1 DEF ReleaseMutex, TypeOK
<1>3. cur_prio' \in [Tcbs -> Prios]
  BY <1>1 DEF ReleaseMutex, TypeOK
<1> QED
  BY <1>2, <1>3 DEF ReleaseMutex, TypeOK

LEMMA InitType == Init => TypeOK /\ NoTaskYet
PROOF
<1> SUFFICES ASSUME Init PROVE TypeOK /\ NoTaskYet
  OBVIOUS
<1>1. <<>> \in Seq(Tcbs)
  BY EmptySeq
<1>2. TypeOK
  BY <1>1, ConstantsTyped, KernelAssumption DEF Init, TypeOK, NULL, Places
<1>3. NoTaskYet
  BY DEF Init, NoTaskYet
<1> QED BY <1>2, <1>3

\* There are tasks from the first task_create on.
LEMMA TasksStay ==
  ASSUME num_tasks # 0, [Next]_vars
  PROVE  num_tasks' # 0
PROOF
<1>1. \A n \in 1 .. IDLE_PRIO - 1 : task_create(n) => num_tasks' # 0
  BY DEF task_create
<1>2. num_tasks' = num_tasks \/ \E n \in 1 .. IDLE_PRIO - 1 : task_create(n)
  BY DEF Next, Syscall, KernelExit, SyscallRefused, mutex_create, mutex_lock,
     mutex_lock_sleep, mutex_lock_resume, mutex_unlock, mutex_unlock_wake, event_wait,
     dev_wait, timer_tick, task_create_unschedulable, dispatch_nosave, launch_task,
     syscall_return, irq_return, LeaveKernel, vars, creation
<1> QED BY <1>1, <1>2

LEMMA NextNoTaskYet == TypeOK /\ NoTaskYet /\ [Next]_vars => NoTaskYet'
PROOF
<1> SUFFICES ASSUME TypeOK, NoTaskYet, [Next]_vars, num_tasks' = 0
             PROVE  NoTaskYet'
  BY DEF NoTaskYet
<1> USE ConstantsTyped
<1>1. CASE num_tasks # 0
  BY <1>1, TasksStay
<1>2. CASE num_tasks = 0
  <2>0. /\ cur_tcb = NULL
        /\ \A m \in Mutexes : pHolding_Tcb[m] = NULL
        /\ \A d \in DevQueues : dev_queue[d] = <<>>
    BY <1>2 DEF NoTaskYet
  <2>1. \A m \in Mutexes : ~mutex_lock(m) /\ ~mutex_lock_sleep(m)
                           /\ ~mutex_unlock(m) /\ ~mutex_unlock_wake(m)
    BY <2>0 DEF mutex_lock, mutex_lock_sleep, mutex_unlock, mutex_unlock_wake, MayLock,
       ReleaseMutex, InTask
  <2>2. /\ \A d \in DevQueues : ~event_wait(d)
        /\ ~dev_wait /\ ~dispatch_nosave /\ ~KernelExit
    BY <2>0 DEF event_wait, InTask, dev_wait, dispatch_nosave, KernelExit, mutex_lock_resume,
       launch_task, syscall_return, irq_return, LeaveKernel
  <2>3. ASSUME timer_tick PROVE NoTaskYet'
    <3>1. Sleeping({d \in Devices : left[d] <= 1}) = {}
      BY <2>0, NoSleepers
    <3>2. UNCHANGED <<cur_tcb, pHolding_Tcb, dev_queue>>
      BY <2>3, <3>1 DEF timer_tick, sched
    <3> QED BY <2>0, <3>2 DEF NoTaskYet
  <2>4. ASSUME NEW m \in Mutexes, mutex_create(m) PROVE NoTaskYet'
    BY <2>0, <2>4 DEF mutex_create, NoTaskYet, sched, devices
  <2>5. ASSUME task_create_unschedulable PROVE NoTaskYet'
    BY <2>0, <2>5 DEF task_create_unschedulable, ResetDevices, ResetQueues,
       NoTaskYet, mutexes
  <2>6. ASSUME NEW n \in 1 .. IDLE_PRIO - 1, task_create(n) PROVE NoTaskYet'
    BY <2>6 DEF task_create
  <2>7. ASSUME UNCHANGED vars PROVE NoTaskYet'
    BY <2>0, <2>7 DEF vars, sched, mutexes, devices, NoTaskYet
  <2> QED
    BY <2>1, <2>2, <2>3, <2>4, <2>5, <2>6, <2>7 DEF Next, Syscall, SyscallRefused
<1> QED BY <1>1, <1>2

LEMMA NextType == TypeOK /\ NoTaskYet /\ [Next]_vars => TypeOK'
PROOF
<1> SUFFICES ASSUME TypeOK, NoTaskYet, [Next]_vars PROVE TypeOK'
  OBVIOUS
<1> USE ConstantsTyped
<1>0. SchedType
  BY DEF TypeOK, SchedType
<1>1. ASSUME NEW m \in Mutexes, mutex_create(m) PROVE TypeOK'
  BY <1>1 DEF mutex_create, TypeOK, sched, tasks, devices, places, creation
<1>2. ASSUME NEW m \in Mutexes, mutex_lock(m) PROVE TypeOK'
  <2>1. cur_tcb \in Tcbs
    BY <1>2 DEF mutex_lock, InUser, InMain, InTask, Main, MayLock, NoTaskYet
  <2>2. TakeMutex(m)
    BY <1>2 DEF mutex_lock
  <2> QED
    BY <1>2, <2>1, <2>2, TakeMutexType DEF mutex_lock, TypeOK, sched, devices, places, creation
<1>3. ASSUME NEW m \in Mutexes, mutex_lock_sleep(m) PROVE TypeOK'
  <2>1. SchedType'
    BY <1>3, SwitchType DEF mutex_lock_sleep, dispatch_sleep, TypeOK
  <2>2. cur_tcb \in Tcbs
    BY <1>3 DEF mutex_lock_sleep, InUser, InMain, InTask, Main, MayLock, NoTaskYet
  <2>3. mutex_queue' \in [Mutexes -> Seq(Tcbs)] /\ dev_queue' \in [DevQueues -> Seq(Tcbs)]
    BY <1>3, <2>2, JoinedType, LinkedType DEF mutex_lock_sleep, TypeOK
  <2> QED
    BY <1>3, <2>1, <2>3 DEF mutex_lock_sleep, At, TypeOK, SchedType, Places, tasks, creation
<1>4. ASSUME mutex_lock_resume PROVE TypeOK'
  <2>1. cur_tcb \in Tcbs /\ TakeMutex(arg[cur_tcb])
    BY <1>4 DEF mutex_lock_resume
  <2> QED
    BY <1>4, <2>1, TakeMutexType DEF mutex_lock_resume, At, TypeOK, Places, devices, creation
<1>5. ASSUME NEW m \in Mutexes, mutex_unlock(m) PROVE TypeOK'
  BY <1>5, ReleaseMutexType DEF mutex_unlock, TypeOK, sched, devices, places, creation
<1>6. ASSUME NEW m \in Mutexes, mutex_unlock_wake(m) PROVE TypeOK'
  <2> DEFINE woken == Head(mutex_queue[m])
  <2> DEFINE list == Put(run_list, cur_prio'[woken], woken)
  <2>1. mutex_queue[m] \in Seq(Tcbs) /\ mutex_queue[m] # <<>>
    BY <1>6 DEF mutex_unlock_wake, TypeOK
  <2>2. woken \in Tcbs
    BY <2>1, HeadTailProperties
  <2> HIDE DEF woken
  <2>3. list \in [Prios -> Tcbs \cup {NULL}]
    BY <2>2 DEF Put, TypeOK
  <2> HIDE DEF list
  <2>4. dispatch_save(list, cur_prio')
    BY <1>6 DEF mutex_unlock_wake, list, woken
  <2>5. SchedType'
    <3>1. CASE cur_prio'[cur_tcb] > HighestPrio(list)
      <4> DEFINE l2 == Put(list, cur_prio'[cur_tcb], cur_tcb)
      <4>1. l2 \in [Prios -> Tcbs \cup {NULL}]
        BY <1>0, <2>3 DEF Put, SchedType
      <4> HIDE DEF l2
      <4>2. HighestPrio(l2) \in Prios
        BY <4>1, HighestPrioType
      <4>3. SwitchToHighest(l2)
        BY <2>4, <3>1 DEF dispatch_save, l2
      <4> QED BY <4>1, <4>2, <4>3 DEF SwitchToHighest, SchedType, Take
    <3>2. CASE ~(cur_prio'[cur_tcb] > HighestPrio(list))
      BY <1>0, <2>3, <2>4, <3>2 DEF dispatch_save, SchedType
    <3> QED BY <3>1, <3>2
  <2>6. mutex_queue' \in [Mutexes -> Seq(Tcbs)] /\ dev_queue' \in [DevQueues -> Seq(Tcbs)]
    BY <1>6, <2>1, ServedType, UnlinkedType DEF mutex_unlock_wake, TypeOK
  <2>7. cur_prio' \in [Tcbs -> Prios] /\ holds_lock' \in [Tcbs -> Int]
        /\ bLock' \in [Mutexes -> BOOLEAN] /\ pHolding_Tcb' \in [Mutexes -> Tcbs \cup {NULL}]
    BY <1>6, ReleaseMutexType DEF mutex_unlock_wake
  <2>8. pc' \in [Tcbs -> Places]
    BY <1>6 DEF mutex_unlock_wake, At, TypeOK, Places
  <2> QED
    BY <1>6, <2>5, <2>6, <2>7, <2>8 DEF mutex_unlock_wake, TypeOK, SchedType, creation
<1>7. ASSUME NEW d \in DevQueues, event_wait(d) PROVE TypeOK'
  BY <1>7 DEF event_wait, At, TypeOK, Places, sched, tasks, mutexes, devices, creation
<1>8. ASSUME dev_wait PROVE TypeOK'
  <2>1. SchedType'
    BY <1>8, SwitchType DEF dev_wait, dispatch_sleep, TypeOK
  <2>2. mutex_queue' \in [Mutexes -> Seq(Tcbs)] /\ dev_queue' \in [DevQueues -> Seq(Tcbs)]
    BY <1>8, JoinedType, LinkedType DEF dev_wait, TypeOK
  <2> QED
    BY <1>8, <2>1, <2>2 DEF dev_wait, At, TypeOK, SchedType, Places, tasks, creation
<1>9. ASSUME timer_tick PROVE TypeOK'
  <2> DEFINE due == {d \in Devices : left[d] <= 1}
  <2>1. SchedType'
    <3>1. Wake(due) \in [Prios -> Tcbs \cup {NULL}]
      BY WakeType
    <3>2. CASE Sleeping(due) = {}
      BY <1>0, <1>9, <3>2 DEF timer_tick, sched, SchedType
    <3>3. CASE Sleeping(due) # {}
      <4>1. dispatch_save(Wake(due), cur_prio)
        BY <1>9, <3>3 DEF timer_tick
      <4> QED BY <1>0, <3>1, <4>1, DispatchSaveType
    <3> QED BY <3>2, <3>3
  <2>2. mutex_queue' \in [Mutexes -> Seq(Tcbs)] /\ dev_queue' \in [DevQueues -> Seq(Tcbs)]
    <3>1. CASE Sleeping(due) = {}
      BY <1>9, <3>1 DEF timer_tick, TypeOK
    <3>2. CASE Sleeping(due) # {}
      <4>1. Signalled(due)
        BY <1>9, <3>2 DEF timer_tick
      <4>2. <<>> \in Seq(Tcbs) /\ \A d \in DevQueues : CutAfter(dev_queue[d], Woken(due)) \in Seq(Tcbs)
        BY EmptySeq, CutType DEF TypeOK
      <4>3. Unlinked(mutex_queue, Woken(due)) \in [Mutexes -> Seq(Tcbs)]
        BY UnlinkedType DEF TypeOK
      <4> QED BY <4>1, <4>2, <4>3 DEF Signalled
    <3> QED BY <3>1, <3>2
  <2>3. left' \in [Devices -> Nat]
    <3>1. \A d \in Devices : ~(left[d] <= 1) => left[d] - 1 \in Nat
      BY DEF TypeOK
    <3> QED BY <1>9, <3>1, KernelAssumption DEF timer_tick
  <2> QED
    BY <1>9, <2>1, <2>2, <2>3 DEF timer_tick, TypeOK, SchedType, tasks, places, creation
<1>10. ASSUME NEW n \in 1 .. IDLE_PRIO - 1, task_create(n) PROVE TypeOK'
  <2>1. dev_queue' \in [DevQueues -> Seq(Tcbs)] /\ left' \in [Devices -> Nat]
    <3>1. ResetQueues \in [DevQueues -> Seq(Tcbs)]
      BY EmptySeq DEF ResetQueues, TypeOK
    <3> QED BY <1>10, <3>1, UnlinkedType, KernelAssumption DEF task_create
  <2>2. 1 .. n \cup {IDLE_PRIO} \subseteq Tcbs /\ n \in 0 .. IDLE_PRIO - 1
    BY KernelAssumption DEF Tcbs
  <2>3. run_list' \in [Prios -> Tcbs \cup {NULL}]
    BY <1>10, <2>2 DEF task_create
  <2>4. cur_prio' \in [Tcbs -> Prios] /\ holds_lock' \in [Tcbs -> Int] /\ pc' \in [Tcbs -> Places]
    BY <1>10, <2>2 DEF task_create, TypeOK, native_prio, Places
  <2>5. cur_tcb' \in Tcbs /\ num_tasks' \in 0 .. IDLE_PRIO - 1 /\ created' \in 0 .. MaxCreate
    BY <1>10, <2>2, KernelAssumption DEF task_create, TypeOK
  <2>6. mutex_queue' \in [Mutexes -> Seq(Tcbs)]
    <3>1. mutex_queue \in [Mutexes -> Seq(Tcbs)]
      BY DEF TypeOK
    <3>2. mutex_queue' = Unlinked(mutex_queue, 1 .. n \cup {IDLE_PRIO})
      BY <1>10 DEF task_create
    <3> QED BY <3>1, <3>2, UnlinkedType
  <2> QED
    BY <1>10, <2>1, <2>3, <2>4, <2>5, <2>6 DEF task_create, TypeOK
<1>11. ASSUME task_create_unschedulable PROVE TypeOK'
  <2>1. dev_queue' \in [DevQueues -> Seq(Tcbs)] /\ left' \in [Devices -> Nat]
    BY <1>11, EmptySeq, KernelAssumption DEF task_create_unschedulable, ResetDevices, ResetQueues, TypeOK
  <2> QED
    BY <1>11, <2>1 DEF task_create_unschedulable, TypeOK, tasks, mutexes, places, creation
<1>12. ASSUME dispatch_nosave PROVE TypeOK'
  <2>1. SchedType'
    BY <1>12, SwitchType DEF dispatch_nosave, TypeOK
  <2> QED
    BY <1>12, <2>1 DEF dispatch_nosave, At, TypeOK, SchedType, Places, tasks, mutexes, devices, creation
<1>13. ASSUME NEW S, NEW place \in Places, LeaveKernel(S, place) PROVE TypeOK'
  BY <1>13 DEF LeaveKernel, At, TypeOK, tasks, mutexes, devices, creation
<1>14. ASSUME UNCHANGED vars PROVE TypeOK'
  BY <1>14 DEF vars, sched, tasks, mutexes, devices, places, creation, TypeOK
<1>15. ASSUME KernelExit PROVE TypeOK'
  BY <1>4, <1>13, <1>15 DEF KernelExit, launch_task, syscall_return, irq_return, Places
<1>16. ASSUME Syscall PROVE TypeOK'
  BY <1>1, <1>2, <1>3, <1>5, <1>6, <1>7, <1>10, <1>11, <1>14, <1>16 DEF Syscall, SyscallRefused
<1> QED
  BY <1>8, <1>9, <1>12, <1>14, <1>15, <1>16 DEF Next

\* Every variable keeps its type whatever the tasks call, misuse included: in
\* particular the number of tasks stays below IDLE_PRIO, every slot holds a TCB
\* or NULL, and no step is undefined.
THEOREM TypesAlwaysKept == Spec => []TypeOK
PROOF
  BY InitType, NextType, NextNoTaskYet, PTL DEF Spec

\* The device of a task past the checks of event_wait.
CheckedArg == \A t \in Tcbs : pc[t] = "checked" => arg[t] \in DevQueues

LEMMA NextCheckedArg == TypeOK /\ CheckedArg /\ [Next]_vars => CheckedArg'
PROOF
<1> SUFFICES ASSUME TypeOK, CheckedArg, [Next]_vars PROVE CheckedArg'
  OBVIOUS
<1>0. pc \in [Tcbs -> Places] /\ arg \in [Tcbs -> Nat]
  BY DEF TypeOK
<1>1. ASSUME NEW place, place # "checked", pc' = [pc EXCEPT ![cur_tcb] = place],
             arg' = arg \/ \E n \in Nat : arg' = [arg EXCEPT ![cur_tcb] = n]
      PROVE  CheckedArg'
  BY <1>0, <1>1 DEF CheckedArg
<1>2. ASSUME pc' = pc, arg' = arg PROVE CheckedArg'
  BY <1>2 DEF CheckedArg
<1>3. ASSUME NEW d \in DevQueues, event_wait(d) PROVE CheckedArg'
  <2>1. pc' = [pc EXCEPT ![cur_tcb] = "checked"] /\ arg' = [arg EXCEPT ![cur_tcb] = d]
    BY <1>3 DEF event_wait, At
  <2> QED BY <1>0, <2>1 DEF CheckedArg
<1>4. ASSUME NEW S, NEW place, LeaveKernel(S, place), place = "user" \/ S = {place}
      PROVE  CheckedArg'
  <2>1. /\ pc' = [pc EXCEPT ![cur_tcb] = place] /\ arg' = arg
        /\ cur_tcb \in Tcbs /\ place = "checked" => pc[cur_tcb] = "checked"
    BY <1>4 DEF LeaveKernel, At
  <2> QED BY <1>0, <2>1 DEF CheckedArg
<1>5. ASSUME NEW n \in 1 .. IDLE_PRIO - 1, task_create(n) PROVE CheckedArg'
  <2>1. \A t \in Tcbs : pc'[t] = "checked" => pc[t] = "checked"
    BY <1>5 DEF task_create
  <2>2. arg' = arg
    BY <1>5 DEF task_create
  <2> QED BY <2>1, <2>2 DEF CheckedArg
<1>6. ASSUME NEW m \in Mutexes, mutex_lock_sleep(m) PROVE CheckedArg'
  BY <1>1, <1>6, ConstantsTyped DEF mutex_lock_sleep, At
<1>7. ASSUME NEW m \in Mutexes, mutex_unlock_wake(m) PROVE CheckedArg'
  <2>1. PICK place \in {"user", "mutex_unlock"} : pc' = [pc EXCEPT ![cur_tcb] = place] /\ arg' = arg
    BY <1>7 DEF mutex_unlock_wake, At
  <2> QED BY <1>1, <2>1
<1>8. ASSUME dev_wait \/ dispatch_nosave \/ mutex_lock_resume PROVE CheckedArg'
  <2>1. dev_wait => CheckedArg'
    BY <1>1 DEF dev_wait, At
  <2>2. dispatch_nosave => CheckedArg'
    <3>1. ASSUME dispatch_nosave PROVE pc' = [pc EXCEPT ![cur_tcb] = "launch"] /\ arg' = arg
      BY <3>1 DEF dispatch_nosave, At
    <3> QED BY <1>1, <3>1
  <2>3. mutex_lock_resume => CheckedArg'
    BY <1>1 DEF mutex_lock_resume, At
  <2> QED BY <1>8, <2>1, <2>2, <2>3
<1>9. ASSUME NEW m \in Mutexes, mutex_create(m) \/ mutex_lock(m) \/ mutex_unlock(m)
      PROVE  CheckedArg'
  BY <1>2, <1>9 DEF mutex_create, mutex_lock, mutex_unlock, places
<1>10. ASSUME timer_tick \/ task_create_unschedulable \/ SyscallRefused \/ UNCHANGED vars
       PROVE  CheckedArg'
  BY <1>2, <1>10 DEF timer_tick, task_create_unschedulable, SyscallRefused, vars, places
<1>11. ASSUME KernelExit PROVE CheckedArg'
  BY <1>4, <1>8, <1>11 DEF KernelExit, launch_task, syscall_return, irq_return
<1>12. ASSUME Syscall PROVE CheckedArg'
  BY <1>3, <1>5, <1>6, <1>7, <1>9, <1>10, <1>12 DEF Syscall
<1> QED BY <1>8, <1>10, <1>11, <1>12 DEF Next

-----------------------------------------------------------------------------
(* The steps of a kernel in which no task is on two queues, or runs and is on *)
(* one: what is done to one queue leaves the others as they are.              *)

LinksApart ==
  /\ Distinct(dev_queue) /\ Distinct(mutex_queue)
  /\ \A t \in Tcbs : ~(Among(dev_queue, t) /\ Among(mutex_queue, t))
  /\ ~Among(dev_queue, cur_tcb) /\ ~Among(mutex_queue, cur_tcb)

LEMMA UnlinkedNothing ==
  ASSUME NEW I, NEW q \in [I -> Seq(Tcbs)], NEW S, \A t \in S : ~Among(q, t)
  PROVE  Unlinked(q, S) = q
PROOF
<1>1. ASSUME NEW i \in I PROVE CutAfter(q[i], S) = q[i]
  <2>1. \A j \in DOMAIN q[i] : q[i][j] \notin S
    BY DEF Among
  <2> QED BY <2>1, CutNothing
<1> QED BY <1>1 DEF Unlinked

LEMMA LinkedNothing ==
  ASSUME NEW I, NEW q \in [I -> Seq(Tcbs)], NEW queue, NEW t, ~Among(q, t),
         queue # <<>> => ~Among(q, queue[Len(queue)])
  PROVE  LinkedAll(q, queue, t) = q
PROOF
<1>1. ASSUME NEW i \in I PROVE Linked(q[i], queue, t) = q[i]
  <2>1. \A j \in DOMAIN q[i] : q[i][j] \notin {t}
    BY DEF Among
  <2>2. ~\E j \in DOMAIN q[i] : queue # <<>> /\ q[i][j] = queue[Len(queue)]
    BY DEF Among
  <2> QED BY <2>1, <2>2, CutNothing DEF Linked
<1> QED BY <1>1 DEF LinkedAll

LEMMA LastPlace ==
  ASSUME NEW queue \in Seq(Tcbs), queue # <<>>
  PROVE  Len(queue) \in DOMAIN queue /\ queue[Len(queue)] \in Tcbs
PROOF
<1>1. Len(queue) \in 1 .. Len(queue) /\ DOMAIN queue = 1 .. Len(queue)
  BY EmptySeq
<1> QED BY <1>1, ElementOfSeq

LEMMA JoinedPlain ==
  ASSUME NEW I, NEW q \in [I -> Seq(Tcbs)], NEW i \in I, NEW t \in Tcbs,
         Distinct(q), ~Among(q, t)
  PROVE  Joined(q, i, t) = [q EXCEPT ![i] = Append(@, t)]
PROOF
<1>1. q[i] \in Seq(Tcbs) /\ DOMAIN q = I
  OBVIOUS
<1>2. CutAfter(Append(q[i], t), {t}) = Append(q[i], t)
  <2> DEFINE a == Append(q[i], t)
  <2>1. /\ a \in Seq(Tcbs) /\ Len(a) = Len(q[i]) + 1 /\ Len(q[i]) \in Nat
        /\ \A j \in 1 .. Len(q[i]) : a[j] = q[i][j]
    BY <1>1, AppendProperties
  <2>2. \A j \in 1 .. Len(q[i]) : a[j] # t
    BY <1>1, <2>1 DEF Among
  <2> HIDE DEF a
  <2>3. ASSUME NEW j \in 1 .. Len(a), a[j] \in {t}, CutAfter(a, {t}) = SubSeq(a, 1, j)
        PROVE  CutAfter(a, {t}) = a
    <3>1. j = Len(a)
      BY <2>1, <2>2, <2>3
    <3> QED BY <2>1, <2>3, <3>1, SubSeqFull
  <2>4. CutAfter(a, {t}) = a
    BY <2>1, <2>3, CutWhere
  <2> QED BY <2>4 DEF a
<1>3. ASSUME NEW k \in I, k # i PROVE Linked(q[k], q[i], t) = q[k]
  <2>1. \A j \in DOMAIN q[k] : q[k][j] \notin {t}
    BY <1>1 DEF Among
  <2>2. ~\E j \in DOMAIN q[k] : q[i] # <<>> /\ q[k][j] = q[i][Len(q[i])]
    BY <1>1, <1>3, LastPlace DEF Distinct
  <2> QED BY <2>1, <2>2, CutNothing DEF Linked
<1>4. LinkedAll(q, q[i], t) = [k \in I |-> Linked(q[k], q[i], t)]
  BY <1>1 DEF LinkedAll
<1> QED BY <1>1, <1>2, <1>3, <1>4 DEF Joined

LEMMA ServedPlain ==
  ASSUME NEW I, NEW q \in [I -> Seq(Tcbs)], NEW i \in I, q[i] # <<>>, Distinct(q)
  PROVE  Served(q, i) = [q EXCEPT ![i] = Tail(@)]
PROOF
<1>1. q[i] \in Seq(Tcbs) /\ DOMAIN q = I
  OBVIOUS
<1>2. 1 \in DOMAIN q[i] /\ Head(q[i]) = q[i][1]
  BY <1>1, HeadTailProperties, EmptySeq
<1>3. ASSUME NEW k \in I, k # i PROVE CutAfter(q[k], {Head(q[i])}) = q[k]
  <2>1. \A j \in DOMAIN q[k] : q[k][j] \notin {Head(q[i])}
    BY <1>1, <1>2, <1>3 DEF Distinct
  <2> QED BY <2>1, CutNothing
<1>4. Unlinked(q, {Head(q[i])}) = [k \in I |-> CutAfter(q[k], {Head(q[i])})]
  BY <1>1 DEF Unlinked
<1> QED BY <1>1, <1>3, <1>4 DEF Served

LockSleepPlain(m) ==
  /\ InUser
  /\ MayLock(m)
  /\ bLock[m]
  /\ mutex_queue' = [mutex_queue EXCEPT ![m] = Append(@, cur_tcb)]
  /\ At(cur_tcb, "mutex_lock")
  /\ arg' = [arg EXCEPT ![cur_tcb] = m]
  /\ dispatch_sleep
  /\ UNCHANGED <<tasks, bAvailable, bLock, pHolding_Tcb, devices, creation>>

LEMMA LockSleepIsPlain ==
  ASSUME TypeOK, LinksApart, cur_tcb \in Tcbs, NEW m \in Mutexes, mutex_lock_sleep(m)
  PROVE  LockSleepPlain(m)
PROOF
<1>1. mutex_queue \in [Mutexes -> Seq(Tcbs)] /\ dev_queue \in [DevQueues -> Seq(Tcbs)]
  BY DEF TypeOK
<1>2. mutex_queue' = [mutex_queue EXCEPT ![m] = Append(@, cur_tcb)]
  <2>1. Distinct(mutex_queue) /\ ~Among(mutex_queue, cur_tcb)
    BY DEF LinksApart
  <2>2. mutex_queue' = Joined(mutex_queue, m, cur_tcb)
    BY DEF mutex_lock_sleep
  <2> QED BY <1>1, <2>1, <2>2, JoinedPlain
<1>3. dev_queue' = dev_queue
  <2> DEFINE queue == mutex_queue[m]
  <2>1. queue # <<>> => ~Among(dev_queue, queue[Len(queue)])
    <3> SUFFICES ASSUME queue # <<>> PROVE ~Among(dev_queue, queue[Len(queue)])
      OBVIOUS
    <3>1. queue[Len(queue)] \in Tcbs /\ Among(mutex_queue, queue[Len(queue)])
      BY <1>1, LastPlace DEF Among
    <3> QED BY <3>1 DEF LinksApart
  <2>2. ~Among(dev_queue, cur_tcb)
    BY DEF LinksApart
  <2>3. dev_queue' = LinkedAll(dev_queue, queue, cur_tcb)
    BY DEF mutex_lock_sleep
  <2> HIDE DEF queue
  <2> QED BY <1>1, <2>1, <2>2, <2>3, LinkedNothing
<1> QED BY <1>2, <1>3 DEF mutex_lock_sleep, LockSleepPlain, devices

UnlockWakePlain(m) ==
  /\ ReleaseMutex(m)
  /\ mutex_queue[m] # <<>>
  /\ mutex_queue' = [mutex_queue EXCEPT ![m] = Tail(@)]
  /\ LET woken == Head(mutex_queue[m])
     IN  dispatch_save(Put(run_list, cur_prio'[woken], woken), cur_prio')
  /\ At(cur_tcb, IF irq' THEN "user" ELSE "mutex_unlock")
  /\ UNCHANGED <<bAvailable, devices, arg, creation>>

LEMMA UnlockWakeIsPlain ==
  ASSUME TypeOK, LinksApart, NEW m \in Mutexes, mutex_unlock_wake(m)
  PROVE  UnlockWakePlain(m)
PROOF
<1>1. mutex_queue \in [Mutexes -> Seq(Tcbs)] /\ dev_queue \in [DevQueues -> Seq(Tcbs)]
      /\ mutex_queue[m] # <<>>
  BY DEF TypeOK, mutex_unlock_wake
<1>2. mutex_queue' = [mutex_queue EXCEPT ![m] = Tail(@)]
  <2>1. Distinct(mutex_queue) /\ mutex_queue' = Served(mutex_queue, m)
    BY DEF LinksApart, mutex_unlock_wake
  <2> QED BY <1>1, <2>1, ServedPlain
<1>3. dev_queue' = dev_queue
  <2> DEFINE woken == Head(mutex_queue[m])
  <2>1. woken \in Tcbs /\ Among(mutex_queue, woken)
    <3>1. 1 \in DOMAIN mutex_queue[m] /\ woken = mutex_queue[m][1]
      BY <1>1, HeadTailProperties, EmptySeq
    <3> QED BY <1>1, <3>1, ElementOfSeq DEF Among
  <2>2. ~Among(dev_queue, woken) /\ dev_queue' = Unlinked(dev_queue, {woken})
    BY <2>1 DEF LinksApart, mutex_unlock_wake
  <2> HIDE DEF woken
  <2> QED BY <1>1, <2>2, UnlinkedNothing
<1> QED BY <1>2, <1>3 DEF mutex_unlock_wake, UnlockWakePlain, devices

DevWaitPlain ==
  /\ irq
  /\ cur_tcb \in Tcbs
  /\ pc[cur_tcb] = "checked"
  /\ dev_queue' = [dev_queue EXCEPT ![arg[cur_tcb]] = Append(@, cur_tcb)]
  /\ At(cur_tcb, "dev_wait")
  /\ dispatch_sleep
  /\ UNCHANGED <<tasks, mutexes, left, arg, creation>>

LEMMA DevWaitIsPlain ==
  ASSUME TypeOK, LinksApart, CheckedArg, dev_wait
  PROVE  DevWaitPlain
PROOF
<1>1. mutex_queue \in [Mutexes -> Seq(Tcbs)] /\ dev_queue \in [DevQueues -> Seq(Tcbs)]
  BY DEF TypeOK
<1>2. PICK d \in DevQueues : d = arg[cur_tcb] /\ cur_tcb \in Tcbs
  BY DEF dev_wait, CheckedArg
<1>3. dev_queue' = [dev_queue EXCEPT ![d] = Append(@, cur_tcb)]
  <2>1. Distinct(dev_queue) /\ ~Among(dev_queue, cur_tcb)
    BY DEF LinksApart
  <2>2. dev_queue' = Joined(dev_queue, d, cur_tcb) /\ cur_tcb \in Tcbs
    BY <1>2 DEF dev_wait
  <2> QED BY <1>1, <2>1, <2>2, JoinedPlain
<1>4. mutex_queue' = mutex_queue
  <2> DEFINE queue == dev_queue[d]
  <2>1. queue # <<>> => ~Among(mutex_queue, queue[Len(queue)])
    <3> SUFFICES ASSUME queue # <<>> PROVE ~Among(mutex_queue, queue[Len(queue)])
      OBVIOUS
    <3>1. queue[Len(queue)] \in Tcbs /\ Among(dev_queue, queue[Len(queue)])
      BY <1>1, LastPlace DEF Among
    <3> QED BY <3>1 DEF LinksApart
  <2>2. ~Among(mutex_queue, cur_tcb)
    BY DEF LinksApart
  <2>3. mutex_queue' = LinkedAll(mutex_queue, queue, cur_tcb)
    BY <1>2 DEF dev_wait
  <2> HIDE DEF queue
  <2> QED BY <1>1, <2>1, <2>2, <2>3, LinkedNothing
<1> QED BY <1>2, <1>3, <1>4 DEF dev_wait, DevWaitPlain, mutexes

\* Every sleeper of a due device is reached.
WakeAll(due) ==
  [p \in Prios |->
     LET here == {s \in Sleeping(due) : cur_prio[TaskOf(s)] = p}
     IN  IF here = {} THEN run_list[p] ELSE TaskOf(LastOf(here))]

TickPlain ==
  LET due == {d \in Devices : left[d] <= 1}
  IN  /\ irq
      /\ left' = [d \in Devices |-> IF d \in due THEN Freq[d] ELSE left[d] - 1]
      /\ dev_queue' = [d \in DevQueues |-> IF d \in due THEN <<>> ELSE dev_queue[d]]
      /\ IF Sleeping(due) = {}
         THEN UNCHANGED sched
         ELSE dispatch_save(WakeAll(due), cur_prio)
      /\ UNCHANGED <<tasks, mutexes, places, creation>>

LEMMA WakeIsAll ==
  ASSUME TypeOK, Distinct(dev_queue), NEW due \in SUBSET Devices
  PROVE  Wake(due) = WakeAll(due)
PROOF
<1>1. ASSUME NEW s \in Sleeping(due) PROVE Reached(due, s)
  <2> SUFFICES ASSUME NEW k \in 1 .. s[2] - 1, NEW r \in Sleeping(due), r[1] < s[1],
                      TaskOf(r) = dev_queue[s[1]][k]
               PROVE  FALSE
    BY DEF Reached
  <2>1. PICK d \in due : s \in {d} \X DOMAIN dev_queue[d]
    BY DEF Sleeping
  <2>2. PICK e \in due : r \in {e} \X DOMAIN dev_queue[e]
    BY DEF Sleeping
  <2>3. /\ d \in DevQueues /\ e \in DevQueues /\ d \in Nat /\ e \in Nat
        /\ dev_queue \in [DevQueues -> Seq(Tcbs)] /\ DOMAIN dev_queue = DevQueues
    BY ConstantsTyped DEF TypeOK
  <2>4. /\ s[1] = d /\ r[1] = e /\ s[2] \in 1 .. Len(dev_queue[d]) /\ r[2] \in DOMAIN dev_queue[e]
        /\ Len(dev_queue[d]) \in Nat /\ DOMAIN dev_queue[d] = 1 .. Len(dev_queue[d])
    <3>1. dev_queue[d] \in Seq(Tcbs)
      BY <2>3
    <3>2. DOMAIN dev_queue[d] = 1 .. Len(dev_queue[d]) /\ Len(dev_queue[d]) \in Nat
      BY <3>1
    <3>3. s[1] = d /\ r[1] = e /\ s[2] \in DOMAIN dev_queue[d] /\ r[2] \in DOMAIN dev_queue[e]
      BY <2>1, <2>2
    <3> QED BY <3>2, <3>3
  <2>5. k \in DOMAIN dev_queue[d]
    BY <2>4
  <2>6. dev_queue[e][r[2]] = dev_queue[d][k]
    BY <2>4 DEF TaskOf
  <2>7. e = d
    BY <2>3, <2>4, <2>5, <2>6 DEF Distinct
  <2> QED BY <2>3, <2>4, <2>7
<1>2. \A p : {s \in Sleeping(due) : cur_prio[TaskOf(s)] = p /\ Reached(due, s)}
             = {s \in Sleeping(due) : cur_prio[TaskOf(s)] = p}
  BY <1>1
<1> QED BY <1>2 DEF Wake, WakeAll

\* The task of a place of the queues that are due.
LEMMA WokenTask ==
  ASSUME TypeOK, NEW due \in SUBSET Devices, NEW t \in Woken(due)
  PROVE  /\ t \in Tcbs /\ Among(dev_queue, t)
         /\ \E e \in due : e \in DevQueues /\ \E j \in DOMAIN dev_queue[e] : dev_queue[e][j] = t
PROOF
<1>1. PICK s \in Sleeping(due) : t = TaskOf(s)
  BY DEF Woken
<1>2. PICK e \in due : s \in {e} \X DOMAIN dev_queue[e]
  BY DEF Sleeping
<1>3. s[1] = e /\ s[2] \in DOMAIN dev_queue[e] /\ e \in DevQueues
  BY <1>2, ConstantsTyped
<1>4. dev_queue[e][s[2]] = t
  BY <1>1, <1>3 DEF TaskOf
<1>5. dev_queue[e] \in Seq(Tcbs) /\ e \in DOMAIN dev_queue
  BY <1>3 DEF TypeOK
<1> QED BY <1>3, <1>4, <1>5, ElementOfSeq DEF Among

LEMMA TickIsPlain ==
  ASSUME TypeOK, LinksApart, timer_tick
  PROVE  TickPlain
PROOF
<1> DEFINE due == {d \in Devices : left[d] <= 1}
           emptied == [d \in DevQueues |-> IF d \in due THEN <<>> ELSE dev_queue[d]]
<1>1. due \in SUBSET Devices
  OBVIOUS
<1>2. mutex_queue \in [Mutexes -> Seq(Tcbs)] /\ dev_queue \in [DevQueues -> Seq(Tcbs)]
  BY DEF TypeOK
<1>3. /\ irq /\ left' = [d \in Devices |-> IF d \in due THEN Freq[d] ELSE left[d] - 1]
      /\ IF Sleeping(due) = {}
         THEN UNCHANGED <<sched, dev_queue, mutex_queue>>
         ELSE Signalled(due) /\ dispatch_save(Wake(due), cur_prio)
      /\ UNCHANGED <<tasks, bAvailable, bLock, pHolding_Tcb, places, creation>>
  BY DEF timer_tick
<1>4. TickPlain <=>
        /\ irq /\ left' = [d \in Devices |-> IF d \in due THEN Freq[d] ELSE left[d] - 1]
        /\ dev_queue' = emptied
        /\ IF Sleeping(due) = {} THEN UNCHANGED sched ELSE dispatch_save(WakeAll(due), cur_prio)
        /\ UNCHANGED <<tasks, mutexes, places, creation>>
  BY DEF TickPlain
<1> HIDE DEF due
<1>5. CASE Sleeping(due) = {}
  <2>1. ASSUME NEW d \in due PROVE dev_queue[d] = <<>>
    <3>1. dev_queue[d] \in Seq(Tcbs)
      BY <1>1, <1>2, ConstantsTyped
    <3>2. ASSUME NEW j \in DOMAIN dev_queue[d] PROVE FALSE
      <4>1. <<d, j>> \in {d} \X DOMAIN dev_queue[d]
        OBVIOUS
      <4> QED BY <1>5, <4>1 DEF Sleeping
    <3>3. Len(dev_queue[d]) = 0
      <4>1. DOMAIN dev_queue[d] = 1 .. Len(dev_queue[d]) /\ Len(dev_queue[d]) \in Nat
        BY <3>1
      <4>2. Len(dev_queue[d]) # 0 => 1 \in DOMAIN dev_queue[d]
        BY <4>1
      <4> QED BY <3>2, <4>2
    <3> QED BY <3>1, <3>3, EmptySeq
  <2>2. dev_queue = emptied
    BY <1>2, <2>1
  <2> HIDE DEF emptied
  <2>3. dev_queue' = emptied /\ mutex_queue' = mutex_queue /\ UNCHANGED sched
    BY <1>3, <1>5, <2>2
  <2> QED BY <1>3, <1>4, <1>5, <2>3 DEF mutexes
<1>6. CASE Sleeping(due) # {}
  <2>1. mutex_queue' = mutex_queue
    <3>1. \A t \in Woken(due) : ~Among(mutex_queue, t)
      BY <1>1, WokenTask DEF LinksApart
    <3>2. mutex_queue' = Unlinked(mutex_queue, Woken(due))
      BY <1>3, <1>6 DEF Signalled
    <3> QED BY <1>2, <3>1, <3>2, UnlinkedNothing
  <2>2. ASSUME NEW d \in DevQueues, d \notin due PROVE CutAfter(dev_queue[d], Woken(due)) = dev_queue[d]
    <3>1. ASSUME NEW j \in DOMAIN dev_queue[d], dev_queue[d][j] \in Woken(due) PROVE FALSE
      <4>1. PICK e \in due : e \in DevQueues /\ \E k \in DOMAIN dev_queue[e] : dev_queue[e][k] = dev_queue[d][j]
        BY <1>1, <3>1, WokenTask
      <4>2. e = d
        BY <1>2, <4>1 DEF LinksApart, Distinct
      <4> QED BY <2>2, <4>2
    <3> QED BY <3>1, CutNothing
  <2>3. dev_queue' = emptied
    <3>1. dev_queue' = [d \in DevQueues |-> IF d \in due THEN <<>>
                                            ELSE CutAfter(dev_queue[d], Woken(due))]
      BY <1>3, <1>6 DEF Signalled
    <3> QED BY <2>2, <3>1
  <2> HIDE DEF emptied
  <2>4. dispatch_save(WakeAll(due), cur_prio)
    <3>1. Wake(due) = WakeAll(due)
      BY <1>1, WakeIsAll DEF LinksApart
    <3> QED BY <1>3, <1>6, <3>1
  <2> QED BY <1>3, <1>4, <1>6, <2>1, <2>3, <2>4 DEF mutexes
<1> QED BY <1>5, <1>6

CreatePlain(n) ==
  LET fresh == 1 .. n \cup {IDLE_PRIO}
  IN  /\ InUser
      /\ (InTask /\ holds_lock[cur_tcb] > 0) => "create_holding_lock" \in Misuse
      /\ created < MaxCreate /\ KeptQueuesEmpty
      /\ ResetDevices
      /\ run_list' = [p \in Prios |-> IF p \in fresh THEN p ELSE NULL]
      /\ cur_prio' = [t \in Tcbs |-> IF t \in fresh THEN native_prio(t) ELSE cur_prio[t]]
      /\ holds_lock' = [t \in Tcbs |-> IF t \in fresh THEN 0 ELSE holds_lock[t]]
      /\ pc' = [t \in Tcbs |-> IF t = IDLE_PRIO THEN "nosave"
                               ELSE IF t \in fresh THEN "launch" ELSE "none"]
      /\ cur_tcb' = IDLE_PRIO
      /\ num_tasks' = n
      /\ created' = created + 1
      /\ UNCHANGED <<irq, mutexes, arg>>

LEMMA CreateIsPlain ==
  ASSUME TypeOK, NEW n \in 1 .. IDLE_PRIO - 1, task_create(n), KeptQueuesEmpty
  PROVE  CreatePlain(n)
PROOF
<1> DEFINE fresh == 1 .. n \cup {IDLE_PRIO}
<1>1. mutex_queue \in [Mutexes -> Seq(Tcbs)] /\ ResetQueues \in [DevQueues -> Seq(Tcbs)]
  BY EmptySeq DEF TypeOK, ResetQueues
<1>2. DOMAIN << >> = {}
  BY EmptySeq
<1>3. (\A m \in Mutexes : mutex_queue[m] = <<>>) /\ dev_queue[NumDevices] = <<>>
  BY DEF KeptQueuesEmpty
<1>4. \A d \in DevQueues : ResetQueues[d] = <<>>
  <2>1. DevQueues = Devices \cup {NumDevices}
    BY KernelAssumption DEF Devices, DevQueues
  <2> QED BY <1>3, <2>1 DEF ResetQueues
<1>5. mutex_queue' = mutex_queue
  <2>1. \A t : ~Among(mutex_queue, t)
    BY <1>1, <1>2, <1>3 DEF Among
  <2>2. mutex_queue' = Unlinked(mutex_queue, fresh)
    BY DEF task_create
  <2> QED BY <1>1, <2>1, <2>2, UnlinkedNothing
<1>6. dev_queue' = ResetQueues
  <2>1. \A t : ~Among(ResetQueues, t)
    BY <1>1, <1>2, <1>4 DEF Among
  <2>2. dev_queue' = Unlinked(ResetQueues, fresh)
    BY DEF task_create
  <2> QED BY <1>1, <2>1, <2>2, UnlinkedNothing
<1>7. \A t : ~OutlivesCreation(t)
  BY <1>2, <1>3 DEF OutlivesCreation
<1>8. pc' = [t \in Tcbs |-> IF t = IDLE_PRIO THEN "nosave"
                            ELSE IF t \in fresh THEN "launch" ELSE "none"]
  BY <1>7 DEF task_create
<1> QED BY <1>5, <1>6, <1>8 DEF task_create, CreatePlain, ResetDevices, mutexes

PlainSyscall ==
  \/ \E m \in Mutexes : mutex_create(m)
  \/ \E m \in Mutexes : mutex_lock(m)
  \/ \E m \in Mutexes : LockSleepPlain(m)
  \/ \E m \in Mutexes : mutex_unlock(m)
  \/ \E m \in Mutexes : UnlockWakePlain(m)
  \/ \E d \in DevQueues : event_wait(d)
  \/ \E n \in 1 .. IDLE_PRIO - 1 : CreatePlain(n)
  \/ task_create_unschedulable
  \/ SyscallRefused

PlainNext == PlainSyscall \/ DevWaitPlain \/ dispatch_nosave \/ TickPlain \/ KernelExit

\* A creation while a task waits on a queue that is kept.
CreateOverSleepers == \E n \in 1 .. IDLE_PRIO - 1 : task_create(n) /\ ~KeptQueuesEmpty

LEMMA NextIsPlain ==
  ASSUME TypeOK, NoTaskYet, CheckedArg, LinksApart, [Next]_vars
  PROVE  [PlainNext]_vars \/ CreateOverSleepers
PROOF
<1>1. ASSUME NEW m \in Mutexes, mutex_lock_sleep(m) PROVE PlainNext
  <2>1. cur_tcb \in Tcbs
    BY <1>1 DEF mutex_lock_sleep, InUser, InMain, InTask, Main, MayLock, NoTaskYet
  <2> QED BY <1>1, <2>1, LockSleepIsPlain DEF PlainNext, PlainSyscall
<1>2. ASSUME NEW m \in Mutexes, mutex_unlock_wake(m) PROVE PlainNext
  BY <1>2, UnlockWakeIsPlain DEF PlainNext, PlainSyscall
<1>3. ASSUME NEW n \in 1 .. IDLE_PRIO - 1, task_create(n) PROVE PlainNext \/ CreateOverSleepers
  BY <1>3, CreateIsPlain DEF PlainNext, PlainSyscall, CreateOverSleepers
<1>4. CASE Syscall
  BY <1>1, <1>2, <1>3, <1>4 DEF Syscall, PlainNext, PlainSyscall
<1>5. CASE dev_wait
  BY <1>5, DevWaitIsPlain DEF PlainNext
<1>6. CASE timer_tick
  BY <1>6, TickIsPlain DEF PlainNext
<1>7. CASE dispatch_nosave \/ KernelExit \/ UNCHANGED vars
  BY <1>7 DEF PlainNext
<1> QED BY <1>4, <1>5, <1>6, <1>7 DEF Next

LEMMA WakeAllType ==
  ASSUME TypeOK, NEW due \in SUBSET Devices
  PROVE  WakeAll(due) \in [Prios -> Tcbs \cup {NULL}]
PROOF
<1> SUFFICES ASSUME NEW p \in Prios
             PROVE  WakeAll(due)[p] \in Tcbs \cup {NULL}
  BY DEF WakeAll
<1> DEFINE here == {s \in Sleeping(due) : cur_prio[TaskOf(s)] = p}
<1>1. WakeAll(due)[p] = IF here = {} THEN run_list[p] ELSE TaskOf(LastOf(here))
  BY DEF WakeAll
<1>2. here \in SUBSET Sleeping(due)
  OBVIOUS
<1> HIDE DEF here
<1>3. here # {} => TaskOf(LastOf(here)) \in Tcbs
  BY <1>2, LastIsOne, SleeperType
<1> QED BY <1>1, <1>3 DEF TypeOK

-----------------------------------------------------------------------------
(* No task is in two places until a creation puts it there *)

LEMMA AmongTasks ==
  ASSUME NEW I, NEW q \in [I -> Seq(Tcbs)], NEW t, Among(q, t)
  PROVE  t \in Tcbs
PROOF
<1>1. PICK i \in I : \E j \in DOMAIN q[i] : q[i][j] = t
  BY DEF Among
<1>2. PICK j \in DOMAIN q[i] : q[i][j] = t
  BY <1>1
<1> QED BY <1>2, ElementOfSeq

\* A queue grows by a task that is on none.
LEMMA AppendPlace ==
  ASSUME NEW I, NEW q \in [I -> Seq(Tcbs)], NEW i \in I, NEW c \in Tcbs,
         NEW r, DOMAIN r = I, r[i] = Append(q[i], c), \A k \in I \ {i} : r[k] = q[k]
  PROVE  /\ \A t : Among(r, t) => Among(q, t) \/ t = c
         /\ Distinct(q) /\ ~Among(q, c) => Distinct(r)
PROOF
<1>1. DOMAIN q = I /\ DOMAIN r = I
  OBVIOUS
<1>2. ASSUME NEW k \in I, NEW j \in DOMAIN r[k]
      PROVE  \/ j \in DOMAIN q[k] /\ r[k][j] = q[k][j]
             \/ k = i /\ j = Len(q[i]) + 1 /\ r[k][j] = c
  <2>1. CASE k # i
    BY <1>2, <2>1
  <2>2. CASE k = i
    <3>1. q[i] \in Seq(Tcbs) /\ r[i] = Append(q[i], c)
      OBVIOUS
    <3>2. DOMAIN q[i] = 1 .. Len(q[i]) /\ Len(q[i]) \in Nat
      BY <3>1
    <3>3. DOMAIN r[i] = 1 .. Len(q[i]) + 1
      BY <3>1, AppendProperties
    <3>4. \A n \in 1 .. Len(q[i]) : r[i][n] = q[i][n]
      BY <3>1, AppendProperties
    <3>5. r[i][Len(q[i]) + 1] = c
      BY <3>1, AppendProperties
    <3> QED BY <1>2, <2>2, <3>2, <3>3, <3>4, <3>5
  <2> QED BY <2>1, <2>2
<1>3. ASSUME NEW t, Among(r, t) PROVE Among(q, t) \/ t = c
  <2>1. PICK k \in I : \E j \in DOMAIN r[k] : r[k][j] = t
    BY <1>1, <1>3 DEF Among
  <2>2. PICK j \in DOMAIN r[k] : r[k][j] = t
    BY <2>1
  <2> QED BY <1>1, <1>2, <2>2 DEF Among
<1>4. ASSUME Distinct(q), ~Among(q, c) PROVE Distinct(r)
  <2> SUFFICES ASSUME NEW k \in I, NEW l \in I, NEW m \in DOMAIN r[k], NEW n \in DOMAIN r[l],
                      r[k][m] = r[l][n]
               PROVE  k = l /\ m = n
    BY <1>1 DEF Distinct
  <2>1. \/ m \in DOMAIN q[k] /\ r[k][m] = q[k][m]
        \/ k = i /\ m = Len(q[i]) + 1 /\ r[k][m] = c
    BY <1>2
  <2>2. \/ n \in DOMAIN q[l] /\ r[l][n] = q[l][n]
        \/ l = i /\ n = Len(q[i]) + 1 /\ r[l][n] = c
    BY <1>2
  <2>3. \A a \in I : \A b \in DOMAIN q[a] : q[a][b] # c
    BY <1>1, <1>4 DEF Among
  <2>4. m \in DOMAIN q[k] /\ n \in DOMAIN q[l] /\ q[k][m] = q[l][n] => k = l /\ m = n
    BY <1>1, <1>4 DEF Distinct
  <2> QED BY <2>1, <2>2, <2>3, <2>4
<1> QED BY <1>3, <1>4

\* The head of a queue leaves it, and is on none.
LEMMA TailPlace ==
  ASSUME NEW I, NEW q \in [I -> Seq(Tcbs)], NEW i \in I, q[i] # <<>>,
         NEW r, DOMAIN r = I, r[i] = Tail(q[i]), \A k \in I \ {i} : r[k] = q[k],
         Distinct(q)
  PROVE  /\ \A t : Among(r, t) => Among(q, t)
         /\ Distinct(r)
         /\ Among(q, Head(q[i])) /\ ~Among(r, Head(q[i]))
PROOF
<1>1. DOMAIN q = I /\ DOMAIN r = I
  OBVIOUS
<1>2. q[i] \in Seq(Tcbs) /\ r[i] = Tail(q[i])
  OBVIOUS
<1>3. /\ Len(q[i]) \in Nat \ {0} /\ DOMAIN q[i] = 1 .. Len(q[i])
      /\ Head(q[i]) = q[i][1]
      /\ Tail(q[i]) \in Seq(Tcbs) /\ Len(Tail(q[i])) = Len(q[i]) - 1
      /\ \A n \in 1 .. Len(Tail(q[i])) : Tail(q[i])[n] = q[i][n + 1]
  BY <1>2, HeadTailProperties, EmptySeq
<1>4. DOMAIN r[i] = 1 .. Len(q[i]) - 1
  BY <1>2, <1>3
\* Every place of the new queues is a place of the old ones, not the head's.
<1> DEFINE at(k, n) == IF k = i THEN n + 1 ELSE n
<1>5. ASSUME NEW k \in I, NEW n \in DOMAIN r[k]
      PROVE  /\ at(k, n) \in DOMAIN q[k] /\ r[k][n] = q[k][at(k, n)]
             /\ k = i => n \in Int /\ at(k, n) # 1
  <2>1. CASE k = i
    BY <1>2, <1>3, <1>4, <1>5, <2>1
  <2>2. CASE k # i
    BY <1>5, <2>2
  <2> QED BY <2>1, <2>2
<1>6. \A k \in I : \A m, n \in DOMAIN r[k] : at(k, m) = at(k, n) => m = n
  BY <1>5
<1> HIDE DEF at
<1>7. ASSUME NEW t, Among(r, t) PROVE Among(q, t)
  <2>1. PICK k \in I : \E j \in DOMAIN r[k] : r[k][j] = t
    BY <1>1, <1>7 DEF Among
  <2>2. PICK j \in DOMAIN r[k] : r[k][j] = t
    BY <2>1
  <2> QED BY <1>1, <1>5, <2>2 DEF Among
<1>8. Distinct(r)
  <2> SUFFICES ASSUME NEW k \in I, NEW l \in I, NEW m \in DOMAIN r[k], NEW n \in DOMAIN r[l],
                      r[k][m] = r[l][n]
               PROVE  k = l /\ m = n
    BY <1>1 DEF Distinct
  <2>1. at(k, m) \in DOMAIN q[k] /\ at(l, n) \in DOMAIN q[l] /\ q[k][at(k, m)] = q[l][at(l, n)]
    BY <1>5
  <2>2. k = l /\ at(k, m) = at(l, n)
    BY <1>1, <2>1 DEF Distinct
  <2> QED BY <1>6, <2>2
<1>9. 1 \in DOMAIN q[i]
  BY <1>3
<1>10. Among(q, Head(q[i]))
  BY <1>1, <1>3, <1>9 DEF Among
<1>11. ASSUME Among(r, Head(q[i])) PROVE FALSE
  <2>1. PICK k \in I : \E j \in DOMAIN r[k] : r[k][j] = Head(q[i])
    BY <1>1, <1>11 DEF Among
  <2>2. PICK j \in DOMAIN r[k] : r[k][j] = Head(q[i])
    BY <2>1
  <2>3. at(k, j) \in DOMAIN q[k] /\ q[k][at(k, j)] = q[i][1]
    BY <1>3, <1>5, <2>2
  <2>4. k = i /\ at(k, j) = 1
    BY <1>1, <1>9, <2>3 DEF Distinct
  <2> QED BY <1>5, <2>4
<1> QED BY <1>7, <1>8, <1>10, <1>11

\* Whole queues are emptied, and their tasks are on none.
LEMMA EmptyPlace ==
  ASSUME NEW I, NEW q \in [I -> Seq(Tcbs)], NEW due,
         NEW r, DOMAIN r = I, \A k \in I : r[k] = IF k \in due THEN <<>> ELSE q[k]
  PROVE  /\ \A t : Among(r, t) => Among(q, t)
         /\ Distinct(q) => Distinct(r)
         /\ Distinct(q) => \A k \in due \cap I : \A j \in DOMAIN q[k] : ~Among(r, q[k][j])
PROOF
<1>1. DOMAIN q = I /\ DOMAIN r = I
  OBVIOUS
<1>2. ASSUME NEW k \in I, NEW n \in DOMAIN r[k]
      PROVE  k \notin due /\ n \in DOMAIN q[k] /\ r[k][n] = q[k][n]
  <2>1. DOMAIN << >> = {}
    BY EmptySeq
  <2>2. k \notin due
    BY <1>2, <2>1
  <2> QED BY <1>2, <2>2
<1>3. \A t : Among(r, t) => Among(q, t)
  BY <1>1, <1>2 DEF Among
<1>4. ASSUME Distinct(q) PROVE Distinct(r)
  <2> SUFFICES ASSUME NEW k \in I, NEW l \in I, NEW m \in DOMAIN r[k], NEW n \in DOMAIN r[l],
                      r[k][m] = r[l][n]
               PROVE  k = l /\ m = n
    BY <1>1 DEF Distinct
  <2>1. m \in DOMAIN q[k] /\ n \in DOMAIN q[l] /\ q[k][m] = q[l][n]
    BY <1>2
  <2> QED BY <1>1, <1>4, <2>1 DEF Distinct
<1>5. ASSUME Distinct(q), NEW k \in due \cap I, NEW j \in DOMAIN q[k], Among(r, q[k][j])
      PROVE  FALSE
  <2>1. PICK l \in I : \E n \in DOMAIN r[l] : r[l][n] = q[k][j]
    BY <1>1, <1>5 DEF Among
  <2>2. PICK n \in DOMAIN r[l] : r[l][n] = q[k][j]
    BY <2>1
  <2>3. l \notin due /\ n \in DOMAIN q[l] /\ q[l][n] = q[k][j]
    BY <1>2, <2>2
  <2>4. l = k
    BY <1>1, <1>5, <2>3 DEF Distinct
  <2> QED BY <2>3, <2>4
<1> QED BY <1>3, <1>4, <1>5

\* A switch takes the task it goes to out of its slot, unless it is the idle
\* task; S stands for the tasks on the queues.
LEMMA SwitchApart ==
  ASSUME NEW list \in [Prios -> Tcbs \cup {NULL}], NEW prio, NEW S, NULL \notin S,
         \A t \in Tcbs : prio[t] \in {0, native_prio(t)},
         \A p \in Prios : list[p] # NULL => prio[list[p]] = p /\ list[p] \notin S,
         SwitchToHighest(list)
  PROVE  /\ \A p \in Prios : run_list'[p] # NULL =>
              prio[run_list'[p]] = p /\ run_list'[p] \notin S
         /\ cur_tcb' \notin S
         /\ \A p \in Prios : run_list'[p] # NULL /\ run_list'[p] = cur_tcb' =>
              cur_tcb' = IDLE_PRIO
         /\ ~irq'
PROOF
<1> DEFINE h == HighestPrio(list)
<1>1. h \in Prios
  BY HighestPrioType
<1>2. cur_tcb' = list[h] /\ run_list' = Take(list, h, IDLE_PRIO) /\ ~irq'
  BY DEF SwitchToHighest
<1> HIDE DEF h
<1>3. \A p \in Prios : run_list'[p] # NULL =>
        run_list'[p] = list[p] /\ (p = h => h = IDLE_PRIO)
  BY <1>1, <1>2 DEF Take
<1>4. ASSUME NEW p \in Prios, run_list'[p] # NULL, run_list'[p] = cur_tcb'
      PROVE  cur_tcb' = IDLE_PRIO
  <2>1. list[p] = list[h] /\ list[h] # NULL /\ prio[list[p]] = p /\ prio[list[h]] = h
    BY <1>1, <1>2, <1>3, <1>4
  <2>2. p = h /\ h = IDLE_PRIO
    BY <1>3, <1>4, <2>1
  <2>3. list[h] \in Tcbs /\ IDLE_PRIO # 0
    BY <1>1, <2>1, KernelAssumption
  <2> QED BY <1>2, <2>1, <2>2, <2>3 DEF native_prio
<1> QED BY <1>1, <1>2, <1>3, <1>4

LEMMA SaveApart ==
  ASSUME NEW list \in [Prios -> Tcbs \cup {NULL}], NEW prio, NEW S, NULL \notin S,
         \A t \in Tcbs : prio[t] \in {0, native_prio(t)},
         \A p \in Prios : list[p] # NULL => prio[list[p]] = p /\ list[p] \notin S,
         NEW c \in Tcbs, c = cur_tcb, c \notin S,
         \A p \in Prios : list[p] = c => c = IDLE_PRIO,
         dispatch_save(list, prio)
  PROVE  /\ \A p \in Prios : run_list'[p] # NULL =>
              prio[run_list'[p]] = p /\ run_list'[p] \notin S
         /\ cur_tcb' \notin S
         /\ \A p \in Prios : run_list'[p] # NULL /\ run_list'[p] = cur_tcb' =>
              cur_tcb' = IDLE_PRIO
         /\ irq' => cur_tcb' \in Tcbs
PROOF
<1>1. CASE prio[c] > HighestPrio(list)
  <2> DEFINE l == Put(list, prio[c], c)
  <2>1. l \in [Prios -> Tcbs \cup {NULL}]
    BY DEF Put
  <2>2. \A p \in Prios : l[p] # NULL => prio[l[p]] = p /\ l[p] \notin S
    BY DEF Put
  <2>3. SwitchToHighest(l)
    BY <1>1 DEF dispatch_save
  <2> HIDE DEF l
  <2> QED BY <2>1, <2>2, <2>3, SwitchApart
<1>2. CASE ~(prio[c] > HighestPrio(list))
  BY <1>2 DEF dispatch_save
<1> QED BY <1>1, <1>2

\* What a tick leaves in a slot: the task that was there, or one it woke.
LEMMA WakeFrom ==
  ASSUME TypeOK, NEW due \in SUBSET Devices, NEW p \in Prios
  PROVE  \/ WakeAll(due)[p] = run_list[p]
         \/ \E d \in due : \E j \in DOMAIN dev_queue[d] :
              WakeAll(due)[p] = dev_queue[d][j] /\ cur_prio[dev_queue[d][j]] = p
PROOF
<1> DEFINE here == {s \in Sleeping(due) : cur_prio[TaskOf(s)] = p}
<1>1. CASE here = {}
  BY <1>1 DEF WakeAll
<1>2. CASE here # {}
  <2>1. LastOf(here) \in here
    BY <1>2, LastIsOne
  <2>2. WakeAll(due)[p] = TaskOf(LastOf(here))
    BY <1>2 DEF WakeAll
  <2>3. PICK d \in due : LastOf(here) \in {d} \X DOMAIN dev_queue[d]
    BY <2>1 DEF Sleeping
  <2>4. LastOf(here)[1] = d /\ LastOf(here)[2] \in DOMAIN dev_queue[d]
    BY <2>3
  <2>5. cur_prio[TaskOf(LastOf(here))] = p
    BY <2>1
  <2> QED BY <2>2, <2>4, <2>5 DEF TaskOf
<1> QED BY <1>1, <1>2

\* The tasks on the queues of devices and mutexes.
Queued == {t \in Tcbs : Among(dev_queue, t) \/ Among(mutex_queue, t)}

\* What the lemmas on a switch leave, put together.
LEMMA ApartAfter ==
  ASSUME TypeOK', PrioritiesOwn', QueuesApart',
         \A p \in Prios : run_list'[p] # NULL =>
           cur_prio'[run_list'[p]] = p /\ run_list'[p] \notin Queued',
         cur_tcb' \notin Queued',
         \A p \in Prios : run_list'[p] # NULL /\ run_list'[p] = cur_tcb' => cur_tcb' = IDLE_PRIO,
         pc'[IDLE_PRIO] \in {"none", "launch", "user", "nosave"},
         irq' /\ num_tasks' > 0 => cur_tcb' \in Tcbs
  PROVE  OnePlace'
PROOF
<1>1. /\ dev_queue' \in [DevQueues -> Seq(Tcbs)] /\ mutex_queue' \in [Mutexes -> Seq(Tcbs)]
      /\ cur_tcb' \in Tcbs \cup {NULL} /\ run_list' \in [Prios -> Tcbs \cup {NULL}]
  BY DEF TypeOK
<1>2. \A t : Among(dev_queue', t) \/ Among(mutex_queue', t) => t \in Tcbs
  BY <1>1, AmongTasks
<1>3. \A t : (Among(dev_queue, t) \/ Among(mutex_queue, t))' => t \in Queued'
  BY <1>2 DEF Queued
<1>4. SlotsApart'
  BY <1>3 DEF SlotsApart
<1>5. RunningApart'
  BY <1>3 DEF RunningApart
<1> QED BY <1>4, <1>5 DEF OnePlace

\* The same, of the state a step starts from.
LEMMA ApartBefore ==
  ASSUME TypeOK, OnePlace
  PROVE  /\ \A p \in Prios : run_list[p] # NULL =>
              cur_prio[run_list[p]] = p /\ run_list[p] \notin Queued
         /\ cur_tcb \notin Queued /\ NULL \notin Queued
         /\ \A t \in Tcbs : cur_prio[t] \in {0, native_prio(t)}
         /\ \A t : Among(dev_queue, t) \/ Among(mutex_queue, t) => t \in Queued
PROOF
<1>1. dev_queue \in [DevQueues -> Seq(Tcbs)] /\ mutex_queue \in [Mutexes -> Seq(Tcbs)]
  BY DEF TypeOK
<1>2. \A t : Among(dev_queue, t) \/ Among(mutex_queue, t) => t \in Tcbs
  BY <1>1, AmongTasks
<1> QED BY <1>2, ConstantsTyped DEF OnePlace, PrioritiesOwn, SlotsApart, RunningApart, Queued

\* The steps in which the running task goes on running.
LEMMA GoesOnApart ==
  ASSUME TypeOK, OnePlace, NEW c \in Tcbs, c = cur_tcb, TypeOK',
         \/ cur_prio' = cur_prio
         \/ c # IDLE_PRIO /\ \E v \in {0, native_prio(c), cur_prio[c]} :
                               cur_prio' = [cur_prio EXCEPT ![c] = v],
         \A t \in Tcbs : t # c => pc'[t] = pc[t],
         pc'[IDLE_PRIO] \in {"none", "launch", "user", "nosave"},
         UNCHANGED <<cur_tcb, run_list, dev_queue, mutex_queue>>
  PROVE  OnePlace'
PROOF
<1>0. /\ cur_tcb' = c /\ run_list' = run_list
      /\ dev_queue' = dev_queue /\ mutex_queue' = mutex_queue
      /\ Queued' = Queued
  BY DEF Queued
<1>1. /\ \A p \in Prios : run_list[p] # NULL =>
           cur_prio[run_list[p]] = p /\ run_list[p] \notin Queued
      /\ cur_tcb \notin Queued
      /\ \A t \in Tcbs : cur_prio[t] \in {0, native_prio(t)}
      /\ \A t : Among(dev_queue, t) \/ Among(mutex_queue, t) => t \in Queued
  BY ApartBefore
<1>2. PrioritiesOwn'
  <2> SUFFICES ASSUME NEW t \in Tcbs PROVE cur_prio'[t] \in {0, native_prio(t)}
    BY DEF PrioritiesOwn, native_prio
  <2>1. CASE cur_prio' = cur_prio
    BY <1>1, <2>1
  <2>2. CASE \E v \in {0, native_prio(c), cur_prio[c]} :
               cur_prio' = [cur_prio EXCEPT ![c] = v]
    <3>1. PICK v \in {0, native_prio(c), cur_prio[c]} : cur_prio' = [cur_prio EXCEPT ![c] = v]
      BY <2>2
    <3>2. cur_prio'[t] = IF t = c THEN v ELSE cur_prio[t]
      BY <3>1 DEF TypeOK
    <3> QED BY <1>1, <3>1, <3>2
  <2> QED BY <2>1, <2>2
<1>3. QueuesApart'
  <2>1. QueuesApart
    BY DEF OnePlace
  <2> QED BY <1>0, <1>1, <2>1 DEF QueuesApart
<1>4. \A p \in Prios : run_list[p] # NULL /\ run_list[p] = cur_tcb => cur_tcb = IDLE_PRIO
  BY DEF OnePlace, RunningApart
<1>5. \A p \in Prios : run_list[p] # NULL => cur_prio'[run_list[p]] = p
  <2> SUFFICES ASSUME NEW p \in Prios, run_list[p] # NULL PROVE cur_prio'[run_list[p]] = p
    OBVIOUS
  <2>1. run_list[p] \in Tcbs /\ cur_prio \in [Tcbs -> Prios]
    BY DEF TypeOK
  <2> QED BY <1>1, <1>4, <2>1
<1> QED BY <1>0, <1>1, <1>2, <1>3, <1>4, <1>5, ApartAfter

\* The steps in which nothing that OnePlace is about changes.
LEMMA StaysApart ==
  ASSUME OnePlace,
         UNCHANGED <<cur_tcb, run_list, cur_prio, dev_queue, mutex_queue, pc, irq, num_tasks>>
  PROVE  OnePlace'
PROOF
  BY DEF OnePlace, PrioritiesOwn, SlotsApart, QueuesApart, RunningApart, Among, Distinct,
     native_prio

\* Main has no task to put to sleep, and what a task that sleeps was doing.
LEMMA LocksAsTask ==
  ASSUME NoTaskYet, InUser, NEW m \in Mutexes, MayLock(m)
  PROVE  cur_tcb \in Tcbs \ {IDLE_PRIO} /\ pc[cur_tcb] = "user"
PROOF
  BY DEF InUser, InMain, InTask, Main, MayLock, NoTaskYet

LEMMA InitApart == Init => OnePlace
PROOF
<1> SUFFICES ASSUME Init PROVE OnePlace
  OBVIOUS
<1>1. DOMAIN << >> = {}
  BY EmptySeq
<1>2. \A t : ~Among(dev_queue, t) /\ ~Among(mutex_queue, t)
  BY <1>1 DEF Init, Among
<1>3. Distinct(dev_queue) /\ Distinct(mutex_queue)
  BY <1>1 DEF Init, Distinct
<1>4. /\ \A t \in Tcbs : cur_prio[t] = 0 /\ pc[t] = "none"
      /\ \A p \in Prios : run_list[p] = NULL
      /\ num_tasks = 0
  BY DEF Init
<1>5. PrioritiesOwn
  BY <1>4 DEF PrioritiesOwn
<1>6. SlotsApart
  BY <1>4 DEF SlotsApart
<1>7. QueuesApart
  BY <1>2, <1>3 DEF QueuesApart
<1>8. RunningApart
  BY <1>2, <1>4, ConstantsTyped DEF RunningApart
<1> QED
  BY <1>5, <1>6, <1>7, <1>8 DEF OnePlace

LEMMA LockSleepApart ==
  ASSUME TypeOK, NoTaskYet, OnePlace, TypeOK', NEW m \in Mutexes, LockSleepPlain(m)
  PROVE  OnePlace'
PROOF
<1>1. PICK c \in Tcbs \ {IDLE_PRIO} : c = cur_tcb
  BY LocksAsTask DEF LockSleepPlain
<1>2. /\ mutex_queue' = [mutex_queue EXCEPT ![m] = Append(@, c)]
      /\ pc' = [pc EXCEPT ![c] = "mutex_lock"]
      /\ SwitchToHighest(run_list)
      /\ cur_prio' = cur_prio /\ dev_queue' = dev_queue /\ num_tasks' = num_tasks
  BY <1>1 DEF LockSleepPlain, At, dispatch_sleep, tasks, devices, creation
<1>3. /\ \A p \in Prios : run_list[p] # NULL =>
           cur_prio[run_list[p]] = p /\ run_list[p] \notin Queued
      /\ c \notin Queued /\ NULL \notin Queued
      /\ \A t \in Tcbs : cur_prio[t] \in {0, native_prio(t)}
      /\ \A t : Among(dev_queue, t) \/ Among(mutex_queue, t) => t \in Queued
  BY <1>1, ApartBefore
<1>4. QueuesApart /\ RunningApart
  BY DEF OnePlace
<1>5. mutex_queue \in [Mutexes -> Seq(Tcbs)]
  BY DEF TypeOK
<1>6. /\ \A t : Among(mutex_queue', t) => Among(mutex_queue, t) \/ t = c
      /\ Distinct(mutex_queue')
  <2>1. Distinct(mutex_queue) /\ ~Among(mutex_queue, c)
    BY <1>3, <1>4 DEF QueuesApart
  <2>2. c \in Tcbs
    OBVIOUS
  <2>3. /\ DOMAIN mutex_queue' = Mutexes
        /\ mutex_queue'[m] = Append(mutex_queue[m], c)
        /\ \A k \in Mutexes \ {m} : mutex_queue'[k] = mutex_queue[k]
    BY <1>2, <1>5
  <2> QED BY <1>5, <2>1, <2>2, <2>3, AppendPlace
<1>7. QueuesApart'
  <2>1. \A t \in Tcbs : pc'[t] = IF t = c THEN "mutex_lock" ELSE pc[t]
    BY <1>2 DEF TypeOK
  <2>2. \A t \in Tcbs : Among(dev_queue', t) => pc'[t] = "dev_wait"
    BY <1>2, <1>3, <1>4, <2>1 DEF QueuesApart
  <2>3. \A t \in Tcbs : Among(mutex_queue', t) => pc'[t] = "mutex_lock"
    BY <1>4, <1>6, <2>1 DEF QueuesApart
  <2>4. Distinct(dev_queue')
    BY <1>2, <1>4 DEF QueuesApart
  <2> QED BY <1>6, <2>2, <2>3, <2>4 DEF QueuesApart
<1> DEFINE S == Queued \cup {c}
<1>8. Queued' \subseteq S
  BY <1>2, <1>3, <1>6 DEF Queued
<1>9. /\ \A p \in Prios : run_list[p] # NULL => cur_prio[run_list[p]] = p /\ run_list[p] \notin S
      /\ NULL \notin S
  BY <1>1, <1>3, <1>4, ConstantsTyped DEF RunningApart
<1>10. run_list \in [Prios -> Tcbs \cup {NULL}]
  BY DEF TypeOK
<1> HIDE DEF S
<1>11. /\ \A p \in Prios : run_list'[p] # NULL =>
            cur_prio[run_list'[p]] = p /\ run_list'[p] \notin S
       /\ cur_tcb' \notin S
       /\ \A p \in Prios : run_list'[p] # NULL /\ run_list'[p] = cur_tcb' => cur_tcb' = IDLE_PRIO
       /\ ~irq'
  BY <1>2, <1>3, <1>9, <1>10, SwitchApart
<1>12. PrioritiesOwn'
  BY <1>2, <1>3 DEF PrioritiesOwn, native_prio
<1>13. pc'[IDLE_PRIO] \in {"none", "launch", "user", "nosave"}
  BY <1>1, <1>2, <1>4 DEF RunningApart
<1> QED BY <1>2, <1>7, <1>8, <1>11, <1>12, <1>13, ApartAfter

LEMMA DevWaitApart ==
  ASSUME TypeOK, OnePlace, TypeOK', DevWaitPlain
  PROVE  OnePlace'
PROOF
<1>1. PICK c \in Tcbs : c = cur_tcb
  BY DEF DevWaitPlain
<1> DEFINE d == arg[c]
<1>2. /\ dev_queue' = [dev_queue EXCEPT ![d] = Append(@, c)]
      /\ pc' = [pc EXCEPT ![c] = "dev_wait"] /\ pc[c] = "checked"
      /\ SwitchToHighest(run_list)
      /\ cur_prio' = cur_prio /\ mutex_queue' = mutex_queue /\ num_tasks' = num_tasks
  BY <1>1 DEF DevWaitPlain, At, dispatch_sleep, tasks, mutexes, creation
<1> HIDE DEF d
<1>3. /\ \A p \in Prios : run_list[p] # NULL =>
           cur_prio[run_list[p]] = p /\ run_list[p] \notin Queued
      /\ c \notin Queued /\ NULL \notin Queued
      /\ \A t \in Tcbs : cur_prio[t] \in {0, native_prio(t)}
      /\ \A t : Among(dev_queue, t) \/ Among(mutex_queue, t) => t \in Queued
  BY <1>1, ApartBefore
<1>4. QueuesApart /\ RunningApart /\ c # IDLE_PRIO
  <2>1. RunningApart /\ QueuesApart
    BY DEF OnePlace
  <2> QED BY <1>2, <2>1 DEF RunningApart
<1>5. dev_queue \in [DevQueues -> Seq(Tcbs)]
  BY DEF TypeOK
<1>6. /\ \A t : Among(dev_queue', t) => Among(dev_queue, t) \/ t = c
      /\ Distinct(dev_queue')
  <2>1. CASE d \in DevQueues
    <3>1. Distinct(dev_queue) /\ ~Among(dev_queue, c)
      BY <1>3, <1>4 DEF QueuesApart
    <3>2. /\ DOMAIN dev_queue' = DevQueues
          /\ dev_queue'[d] = Append(dev_queue[d], c)
          /\ \A k \in DevQueues \ {d} : dev_queue'[k] = dev_queue[k]
      BY <1>2, <1>5, <2>1
    <3> QED BY <1>5, <2>1, <3>1, <3>2, AppendPlace
  <2>2. CASE d \notin DevQueues
    <3>1. dev_queue' = dev_queue
      BY <1>2, <1>5, <2>2
    <3> QED BY <1>4, <3>1 DEF QueuesApart
  <2> QED BY <2>1, <2>2
<1>7. QueuesApart'
  <2>1. \A t \in Tcbs : pc'[t] = IF t = c THEN "dev_wait" ELSE pc[t]
    BY <1>2 DEF TypeOK
  <2>2. \A t \in Tcbs : Among(mutex_queue', t) => pc'[t] = "mutex_lock"
    BY <1>2, <1>3, <1>4, <2>1 DEF QueuesApart
  <2>3. \A t \in Tcbs : Among(dev_queue', t) => pc'[t] = "dev_wait"
    BY <1>4, <1>6, <2>1 DEF QueuesApart
  <2>4. Distinct(mutex_queue')
    BY <1>2, <1>4 DEF QueuesApart
  <2> QED BY <1>6, <2>2, <2>3, <2>4 DEF QueuesApart
<1> DEFINE S == Queued \cup {c}
<1>8. Queued' \subseteq S
  BY <1>2, <1>3, <1>6 DEF Queued
<1>9. /\ \A p \in Prios : run_list[p] # NULL => cur_prio[run_list[p]] = p /\ run_list[p] \notin S
      /\ NULL \notin S
  BY <1>1, <1>3, <1>4, ConstantsTyped DEF RunningApart
<1>10. run_list \in [Prios -> Tcbs \cup {NULL}]
  BY DEF TypeOK
<1> HIDE DEF S
<1>11. /\ \A p \in Prios : run_list'[p] # NULL =>
            cur_prio[run_list'[p]] = p /\ run_list'[p] \notin S
       /\ cur_tcb' \notin S
       /\ \A p \in Prios : run_list'[p] # NULL /\ run_list'[p] = cur_tcb' => cur_tcb' = IDLE_PRIO
       /\ ~irq'
  BY <1>2, <1>3, <1>9, <1>10, SwitchApart
<1>12. PrioritiesOwn'
  BY <1>2, <1>3 DEF PrioritiesOwn, native_prio
<1>13. pc'[IDLE_PRIO] \in {"none", "launch", "user", "nosave"}
  BY <1>2, <1>4, <1>1 DEF RunningApart
<1> QED BY <1>2, <1>7, <1>8, <1>11, <1>12, <1>13, ApartAfter

LEMMA UnlockWakeApart ==
  ASSUME TypeOK, OnePlace, TypeOK', NEW m \in Mutexes, UnlockWakePlain(m)
  PROVE  OnePlace'
PROOF
<1>1. PICK c \in Tcbs \ {IDLE_PRIO} : c = cur_tcb /\ pc[c] = "user"
  BY DEF UnlockWakePlain, ReleaseMutex, InTask
<1>2. PICK w \in Tcbs : w = Head(mutex_queue[m])
  <2>1. mutex_queue[m] \in Seq(Tcbs) /\ mutex_queue[m] # <<>>
    BY DEF UnlockWakePlain, TypeOK
  <2> QED BY <2>1, HeadTailProperties
<1> DEFINE list == Put(run_list, cur_prio'[w], w)
<1>3. /\ mutex_queue' = [mutex_queue EXCEPT ![m] = Tail(@)] /\ mutex_queue[m] # <<>>
      /\ pc' = [pc EXCEPT ![c] = IF irq' THEN "user" ELSE "mutex_unlock"]
      /\ dispatch_save(list, cur_prio')
      /\ cur_prio' = [cur_prio EXCEPT ![c] = IF holds_lock[c] = 1 THEN native_prio(c) ELSE @]
      /\ dev_queue' = dev_queue /\ num_tasks' = num_tasks
  BY <1>1, <1>2 DEF UnlockWakePlain, ReleaseMutex, At, devices, creation
<1>4. /\ \A p \in Prios : run_list[p] # NULL =>
           cur_prio[run_list[p]] = p /\ run_list[p] \notin Queued
      /\ c \notin Queued /\ NULL \notin Queued
      /\ \A t \in Tcbs : cur_prio[t] \in {0, native_prio(t)}
      /\ \A t : Among(dev_queue, t) \/ Among(mutex_queue, t) => t \in Queued
  BY <1>1, ApartBefore
<1>5. QueuesApart /\ RunningApart
  BY DEF OnePlace
<1>6. /\ mutex_queue \in [Mutexes -> Seq(Tcbs)] /\ run_list \in [Prios -> Tcbs \cup {NULL}]
      /\ cur_prio \in [Tcbs -> Prios] /\ cur_prio' \in [Tcbs -> Prios]
  BY DEF TypeOK
<1>7. /\ \A t : Among(mutex_queue', t) => Among(mutex_queue, t)
      /\ Distinct(mutex_queue')
      /\ Among(mutex_queue, w) /\ ~Among(mutex_queue', w)
  <2>1. Distinct(mutex_queue)
    BY <1>5 DEF QueuesApart
  <2>2. /\ DOMAIN mutex_queue' = Mutexes
        /\ mutex_queue'[m] = Tail(mutex_queue[m])
        /\ \A k \in Mutexes \ {m} : mutex_queue'[k] = mutex_queue[k]
    BY <1>3, <1>6
  <2>3. mutex_queue \in [Mutexes -> Seq(Tcbs)] /\ mutex_queue[m] # <<>>
    BY <1>3, <1>6
  <2>4. /\ \A t : Among(mutex_queue', t) => Among(mutex_queue, t)
        /\ Distinct(mutex_queue')
        /\ Among(mutex_queue, Head(mutex_queue[m]))
        /\ ~Among(mutex_queue', Head(mutex_queue[m]))
    BY <2>1, <2>2, <2>3, TailPlace
  <2> QED BY <1>2, <2>4
<1>8. w \in Queued /\ w # c /\ pc[w] = "mutex_lock"
  BY <1>4, <1>5, <1>7 DEF QueuesApart
<1>9. w \notin Queued'
  <2>1. ~Among(dev_queue, w)
    BY <1>5, <1>8 DEF QueuesApart
  <2> QED BY <1>3, <1>7, <2>1 DEF Queued
<1>10. Queued' \subseteq Queued /\ c \notin Queued' /\ NULL \notin Queued'
  BY <1>3, <1>4, <1>7 DEF Queued
<1>11. QueuesApart'
  <2>1. \A t \in Tcbs : t # c => pc'[t] = pc[t]
    BY <1>3 DEF TypeOK
  <2>2. \A t \in Tcbs : Among(dev_queue', t) => pc'[t] = "dev_wait"
    BY <1>3, <1>4, <1>5, <2>1 DEF QueuesApart
  <2>3. \A t \in Tcbs : Among(mutex_queue', t) => pc'[t] = "mutex_lock"
    BY <1>4, <1>5, <1>7, <2>1 DEF QueuesApart
  <2>4. Distinct(dev_queue')
    BY <1>3, <1>5 DEF QueuesApart
  <2> QED BY <1>7, <2>2, <2>3, <2>4 DEF QueuesApart
<1>12. \A t \in Tcbs : cur_prio'[t] \in {0, native_prio(t)} /\ (t # c => cur_prio'[t] = cur_prio[t])
  <2> TAKE t \in Tcbs
  <2>1. cur_prio'[t] = IF t = c /\ holds_lock[c] = 1 THEN native_prio(c) ELSE cur_prio[t]
    BY <1>3, <1>6
  <2> QED BY <1>4, <2>1
<1>13. \A p \in Prios : run_list[p] # NULL => run_list[p] # c
  BY <1>1, <1>5 DEF RunningApart
<1>14. /\ list \in [Prios -> Tcbs \cup {NULL}]
       /\ \A p \in Prios : list[p] = IF p = cur_prio'[w] THEN w ELSE run_list[p]
  BY <1>6 DEF Put
<1>15. \A p \in Prios : list[p] # NULL =>
         cur_prio'[list[p]] = p /\ list[p] \notin Queued' /\ list[p] # c
  <2> SUFFICES ASSUME NEW p \in Prios, list[p] # NULL
               PROVE  cur_prio'[list[p]] = p /\ list[p] \notin Queued' /\ list[p] # c
    OBVIOUS
  <2>1. CASE p = cur_prio'[w]
    BY <1>8, <1>9, <1>14, <2>1
  <2>2. CASE p # cur_prio'[w]
    <3>1. list[p] = run_list[p] /\ run_list[p] \in Tcbs
      BY <1>6, <1>14, <2>2
    <3> QED BY <1>4, <1>10, <1>12, <1>13, <3>1
  <2> QED BY <2>1, <2>2
<1> HIDE DEF list
<1>16. /\ \A p \in Prios : run_list'[p] # NULL =>
            cur_prio'[run_list'[p]] = p /\ run_list'[p] \notin Queued'
       /\ cur_tcb' \notin Queued'
       /\ \A p \in Prios : run_list'[p] # NULL /\ run_list'[p] = cur_tcb' => cur_tcb' = IDLE_PRIO
       /\ irq' => cur_tcb' \in Tcbs
  <2>1. \A p \in Prios : list[p] = c => c = IDLE_PRIO
    BY <1>15, ConstantsTyped
  <2>2. \A p \in Prios : list[p] # NULL => cur_prio'[list[p]] = p /\ list[p] \notin Queued'
    BY <1>15
  <2>3. \A t \in Tcbs : cur_prio'[t] \in {0, native_prio(t)}
    BY <1>12
  <2>4. c \in Tcbs /\ c = cur_tcb /\ list \in [Prios -> Tcbs \cup {NULL}]
        /\ dispatch_save(list, cur_prio')
    BY <1>1, <1>3, <1>14
  <2> QED BY <1>10, <2>1, <2>2, <2>3, <2>4, SaveApart
<1>17. PrioritiesOwn'
  BY <1>12 DEF PrioritiesOwn, native_prio
<1>18. pc'[IDLE_PRIO] \in {"none", "launch", "user", "nosave"}
  <2>1. pc'[IDLE_PRIO] = pc[IDLE_PRIO]
    BY <1>1, <1>3, ConstantsTyped DEF TypeOK
  <2> QED BY <1>5, <2>1 DEF RunningApart
<1> QED BY <1>11, <1>16, <1>17, <1>18, ApartAfter

LEMMA TickApart ==
  ASSUME TypeOK, NoTaskYet, OnePlace, TypeOK', TickPlain
  PROVE  OnePlace'
PROOF
<1> DEFINE due == {d \in Devices : left[d] <= 1}
<1>1. /\ dev_queue' = [d \in DevQueues |-> IF d \in due THEN <<>> ELSE dev_queue[d]]
      /\ cur_prio' = cur_prio /\ mutex_queue' = mutex_queue /\ num_tasks' = num_tasks
      /\ pc' = pc /\ irq
      /\ IF Sleeping(due) = {} THEN UNCHANGED sched ELSE dispatch_save(WakeAll(due), cur_prio)
  BY DEF TickPlain, tasks, mutexes, places, creation
<1>2. due \in SUBSET Devices
  OBVIOUS
<1> HIDE DEF due
<1>3. /\ \A p \in Prios : run_list[p] # NULL =>
           cur_prio[run_list[p]] = p /\ run_list[p] \notin Queued
      /\ cur_tcb \notin Queued /\ NULL \notin Queued
      /\ \A t \in Tcbs : cur_prio[t] \in {0, native_prio(t)}
      /\ \A t : Among(dev_queue, t) \/ Among(mutex_queue, t) => t \in Queued
  BY ApartBefore
<1>4. QueuesApart /\ RunningApart
  BY DEF OnePlace
<1>5. /\ dev_queue \in [DevQueues -> Seq(Tcbs)] /\ run_list \in [Prios -> Tcbs \cup {NULL}]
      /\ cur_tcb \in Tcbs \cup {NULL}
  BY DEF TypeOK
<1>6. /\ \A t : Among(dev_queue', t) => Among(dev_queue, t)
      /\ Distinct(dev_queue')
      /\ \A d \in due \cap DevQueues : \A j \in DOMAIN dev_queue[d] : ~Among(dev_queue', dev_queue[d][j])
  <2>1. Distinct(dev_queue)
    BY <1>4 DEF QueuesApart
  <2>2. /\ DOMAIN dev_queue' = DevQueues
        /\ \A d \in DevQueues : dev_queue'[d] = IF d \in due THEN <<>> ELSE dev_queue[d]
    BY <1>1
  <2>3. dev_queue \in [DevQueues -> Seq(Tcbs)]
    BY <1>5
  <2> QED BY <2>1, <2>2, <2>3, EmptyPlace
<1>7. Queued' \subseteq Queued
  BY <1>1, <1>6 DEF Queued
<1>8. QueuesApart'
  <2>1. \A t \in Tcbs : Among(dev_queue', t) => pc'[t] = "dev_wait"
    BY <1>1, <1>4, <1>6 DEF QueuesApart
  <2>2. /\ \A t \in Tcbs : Among(mutex_queue', t) => pc'[t] = "mutex_lock"
        /\ Distinct(mutex_queue')
    BY <1>1, <1>4 DEF QueuesApart
  <2> QED BY <1>6, <2>1, <2>2 DEF QueuesApart
<1>9. PrioritiesOwn'
  BY <1>1, <1>3 DEF PrioritiesOwn, native_prio
<1>10. pc'[IDLE_PRIO] \in {"none", "launch", "user", "nosave"}
  BY <1>1, <1>4 DEF RunningApart
<1>11. CASE Sleeping(due) = {}
  <2>1. cur_tcb' = cur_tcb /\ run_list' = run_list /\ irq' = irq
    BY <1>1, <1>11 DEF sched
  <2> QED BY <1>1, <1>3, <1>4, <1>7, <1>8, <1>9, <1>10, <2>1, ApartAfter DEF RunningApart
<1>12. CASE Sleeping(due) # {}
  <2>1. dispatch_save(WakeAll(due), cur_prio)
    BY <1>1, <1>12
  <2>2. PICK c \in Tcbs : c = cur_tcb
    <3>1. num_tasks # 0
      <4>1. num_tasks = 0 => \A d \in due : dev_queue[d] = <<>>
        BY <1>2, ConstantsTyped DEF NoTaskYet
      <4> QED BY <1>12, <4>1, NoSleepers
    <3>2. num_tasks > 0
      BY <3>1, KernelAssumption DEF TypeOK
    <3> QED BY <1>1, <1>4, <3>2 DEF RunningApart
  <2>3. WakeAll(due) \in [Prios -> Tcbs \cup {NULL}]
    BY <1>2, WakeAllType
  <2>4. ASSUME NEW p \in Prios, WakeAll(due)[p] # NULL
        PROVE  /\ cur_prio[WakeAll(due)[p]] = p /\ WakeAll(due)[p] \notin Queued'
               /\ WakeAll(due)[p] = c => c = IDLE_PRIO
    <3>1. CASE WakeAll(due)[p] = run_list[p]
      BY <1>3, <1>4, <1>7, <2>2, <2>4, <3>1 DEF RunningApart
    <3>2. CASE \E d \in due : \E j \in DOMAIN dev_queue[d] :
                 WakeAll(due)[p] = dev_queue[d][j] /\ cur_prio[dev_queue[d][j]] = p
      <4>1. PICK d \in due : \E j \in DOMAIN dev_queue[d] :
                 WakeAll(due)[p] = dev_queue[d][j] /\ cur_prio[dev_queue[d][j]] = p
        BY <3>2
      <4>2. PICK j \in DOMAIN dev_queue[d] :
                 WakeAll(due)[p] = dev_queue[d][j] /\ cur_prio[dev_queue[d][j]] = p
        BY <4>1
      <4>3. d \in due \cap DevQueues /\ d \in DOMAIN dev_queue
        BY <1>2, <1>5, ConstantsTyped
      <4>4. ~Among(dev_queue', dev_queue[d][j]) /\ Among(dev_queue, dev_queue[d][j])
        BY <1>6, <4>3 DEF Among
      <4>5. dev_queue[d][j] \in Tcbs /\ dev_queue[d][j] \in Queued
        BY <1>3, <1>5, <4>4, AmongTasks
      <4>6. ~Among(mutex_queue, dev_queue[d][j])
        BY <1>4, <4>4, <4>5 DEF QueuesApart
      <4>7. dev_queue[d][j] \notin Queued'
        BY <1>1, <4>4, <4>6 DEF Queued
      <4> QED BY <1>3, <2>2, <4>2, <4>5, <4>7
    <3> QED BY <1>2, <3>1, <3>2, WakeFrom
  <2>5. c \notin Queued' /\ NULL \notin Queued'
    BY <1>3, <1>7, <2>2
  <2>6. \A p \in Prios : WakeAll(due)[p] = c => c = IDLE_PRIO
    BY <2>4, ConstantsTyped
  <2>7. \A p \in Prios : WakeAll(due)[p] # NULL =>
          cur_prio[WakeAll(due)[p]] = p /\ WakeAll(due)[p] \notin Queued'
    BY <2>4
  <2>8. /\ \A p \in Prios : run_list'[p] # NULL =>
             cur_prio[run_list'[p]] = p /\ run_list'[p] \notin Queued'
        /\ cur_tcb' \notin Queued'
        /\ \A p \in Prios : run_list'[p] # NULL /\ run_list'[p] = cur_tcb' => cur_tcb' = IDLE_PRIO
        /\ irq' => cur_tcb' \in Tcbs
    BY <1>3, <2>1, <2>2, <2>3, <2>5, <2>6, <2>7, SaveApart
  <2> QED BY <1>1, <1>8, <1>9, <1>10, <2>8, ApartAfter
<1> QED BY <1>11, <1>12

LEMMA CreateApart ==
  ASSUME TypeOK, OnePlace, TypeOK', NEW n \in 1 .. IDLE_PRIO - 1, CreatePlain(n)
  PROVE  OnePlace'
PROOF
<1> DEFINE fresh == 1 .. n \cup {IDLE_PRIO}
<1>1. /\ dev_queue' = [d \in DevQueues |-> IF d \in Devices THEN <<>> ELSE dev_queue[d]]
      /\ mutex_queue' = mutex_queue /\ KeptQueuesEmpty
      /\ run_list' = [p \in Prios |-> IF p \in fresh THEN p ELSE NULL]
      /\ cur_prio' = [t \in Tcbs |-> IF t \in fresh THEN t ELSE cur_prio[t]]
      /\ pc'[IDLE_PRIO] = "nosave" /\ cur_tcb' = IDLE_PRIO
  BY ConstantsTyped DEF CreatePlain, ResetDevices, ResetQueues, mutexes, native_prio
<1>2. fresh \subseteq Tcbs
  BY KernelAssumption DEF Tcbs
<1> HIDE DEF fresh
<1>3. DOMAIN << >> = {}
  BY EmptySeq
<1>4. DOMAIN dev_queue' = DevQueues /\ \A d \in DevQueues : dev_queue'[d] = <<>>
  <2>1. DevQueues = Devices \cup {NumDevices}
    BY KernelAssumption DEF Devices, DevQueues
  <2> QED BY <1>1, <2>1 DEF KeptQueuesEmpty
<1>5. DOMAIN mutex_queue' = Mutexes /\ \A m \in Mutexes : mutex_queue'[m] = <<>>
  BY <1>1 DEF KeptQueuesEmpty, TypeOK
<1>6. \A t : ~Among(dev_queue', t) /\ ~Among(mutex_queue', t)
  BY <1>3, <1>4, <1>5 DEF Among
<1>7. QueuesApart'
  <2>1. Distinct(dev_queue') /\ Distinct(mutex_queue')
    BY <1>3, <1>4, <1>5 DEF Distinct
  <2> QED BY <1>6, <2>1 DEF QueuesApart
<1>8. Queued' = {}
  BY <1>6 DEF Queued
<1>9. PrioritiesOwn'
  <2>1. \A t \in Tcbs : cur_prio[t] \in {0, native_prio(t)}
    BY ApartBefore
  <2> QED BY <1>1, <2>1 DEF PrioritiesOwn, native_prio
<1>10. \A p \in Prios : run_list'[p] # NULL => run_list'[p] = p /\ cur_prio'[run_list'[p]] = p
  BY <1>1, <1>2
<1> QED BY <1>1, <1>7, <1>8, <1>9, <1>10, ConstantsTyped, ApartAfter

LEMMA UnschedulableApart ==
  ASSUME TypeOK, OnePlace, TypeOK', task_create_unschedulable
  PROVE  OnePlace'
PROOF
<1>1. /\ dev_queue' = [d \in DevQueues |-> IF d \in Devices THEN <<>> ELSE dev_queue[d]]
      /\ run_list' = [p \in Prios |-> NULL]
      /\ mutex_queue' = mutex_queue /\ cur_prio' = cur_prio /\ pc' = pc
      /\ cur_tcb' = cur_tcb /\ irq' = irq /\ num_tasks' = num_tasks
  BY DEF task_create_unschedulable, ResetDevices, ResetQueues, tasks, mutexes, places, creation
<1>2. QueuesApart /\ RunningApart
  BY DEF OnePlace
<1>3. /\ \A t : Among(dev_queue', t) => Among(dev_queue, t)
      /\ Distinct(dev_queue')
  <2>1. Distinct(dev_queue)
    BY <1>2 DEF QueuesApart
  <2> DEFINE due == Devices
  <2>2. /\ DOMAIN dev_queue' = DevQueues
        /\ \A d \in DevQueues : dev_queue'[d] = IF d \in due THEN <<>> ELSE dev_queue[d]
    BY <1>1
  <2>3. dev_queue \in [DevQueues -> Seq(Tcbs)]
    BY DEF TypeOK
  <2> HIDE DEF due
  <2>4. /\ \A t : Among(dev_queue', t) => Among(dev_queue, t)
        /\ Distinct(dev_queue')
        /\ \A d \in due \cap DevQueues : \A j \in DOMAIN dev_queue[d] :
             ~Among(dev_queue', dev_queue[d][j])
    BY <2>1, <2>2, <2>3, EmptyPlace
  <2> QED BY <2>4
<1>4. QueuesApart'
  BY <1>1, <1>2, <1>3 DEF QueuesApart
<1>5. PrioritiesOwn'
  <2>1. \A t \in Tcbs : cur_prio[t] \in {0, native_prio(t)}
    BY ApartBefore
  <2> QED BY <1>1, <2>1 DEF PrioritiesOwn, native_prio
<1>6. cur_tcb' \notin Queued'
  BY <1>1, <1>2, <1>3 DEF Queued, RunningApart
<1>7. \A p \in Prios : run_list'[p] = NULL
  BY <1>1
<1>8. /\ pc'[IDLE_PRIO] \in {"none", "launch", "user", "nosave"}
      /\ irq' /\ num_tasks' > 0 => cur_tcb' \in Tcbs
  BY <1>1, <1>2 DEF RunningApart
<1> QED BY <1>4, <1>5, <1>6, <1>7, <1>8, ApartAfter

LEMMA NosaveApart ==
  ASSUME TypeOK, OnePlace, TypeOK', dispatch_nosave
  PROVE  OnePlace'
PROOF
<1>1. /\ SwitchToHighest(run_list) /\ cur_tcb = IDLE_PRIO
      /\ pc' = [pc EXCEPT ![IDLE_PRIO] = "launch"]
      /\ dev_queue' = dev_queue /\ mutex_queue' = mutex_queue /\ cur_prio' = cur_prio
  BY DEF dispatch_nosave, At, tasks, mutexes, devices
<1>2. /\ \A p \in Prios : run_list[p] # NULL =>
           cur_prio[run_list[p]] = p /\ run_list[p] \notin Queued
      /\ IDLE_PRIO \notin Queued /\ NULL \notin Queued
      /\ \A t \in Tcbs : cur_prio[t] \in {0, native_prio(t)}
      /\ \A t : Among(dev_queue, t) \/ Among(mutex_queue, t) => t \in Queued
  BY <1>1, ApartBefore
<1>3. Queued' = Queued
  BY <1>1 DEF Queued
<1>4. run_list \in [Prios -> Tcbs \cup {NULL}]
  BY DEF TypeOK
<1>5. /\ \A p \in Prios : run_list'[p] # NULL =>
           cur_prio[run_list'[p]] = p /\ run_list'[p] \notin Queued
      /\ cur_tcb' \notin Queued
      /\ \A p \in Prios : run_list'[p] # NULL /\ run_list'[p] = cur_tcb' => cur_tcb' = IDLE_PRIO
      /\ ~irq'
  BY <1>1, <1>2, <1>4, SwitchApart
<1>6. QueuesApart'
  <2>1. QueuesApart
    BY DEF OnePlace
  <2>2. \A t \in Tcbs : t # IDLE_PRIO => pc'[t] = pc[t]
    BY <1>1 DEF TypeOK
  <2> QED BY <1>1, <1>2, <2>1, <2>2 DEF QueuesApart
<1>7. PrioritiesOwn'
  BY <1>1, <1>2 DEF PrioritiesOwn, native_prio
<1>8. pc'[IDLE_PRIO] = "launch"
  BY <1>1, ConstantsTyped DEF TypeOK
<1> QED BY <1>1, <1>3, <1>5, <1>6, <1>7, <1>8, ApartAfter

\* The other steps change at most where the running task is and what priority
\* it has.
LEMMA RunningStepApart ==
  ASSUME TypeOK, NoTaskYet, OnePlace, TypeOK',
         \/ \E m \in Mutexes : mutex_lock(m) \/ mutex_unlock(m)
         \/ \E d \in DevQueues : event_wait(d)
         \/ KernelExit
  PROVE  OnePlace'
PROOF
<1>0. /\ pc[IDLE_PRIO] \in {"none", "launch", "user", "nosave"}
      /\ pc \in [Tcbs -> Places] /\ cur_prio \in [Tcbs -> Prios]
  BY DEF OnePlace, RunningApart, TypeOK
<1>1. ASSUME NEW m \in Mutexes, mutex_lock(m) PROVE OnePlace'
  <2>1. PICK c \in Tcbs \ {IDLE_PRIO} : c = cur_tcb
    BY <1>1, LocksAsTask DEF mutex_lock
  <2>2. /\ cur_prio' = [cur_prio EXCEPT ![c] = 0] /\ pc' = pc
        /\ UNCHANGED <<cur_tcb, run_list, dev_queue, mutex_queue>>
    BY <1>1, <2>1 DEF mutex_lock, TakeMutex, sched, devices, places
  <2> QED BY <1>0, <2>1, <2>2, GoesOnApart
<1>2. ASSUME NEW m \in Mutexes, mutex_unlock(m) PROVE OnePlace'
  <2>1. PICK c \in Tcbs \ {IDLE_PRIO} : c = cur_tcb
    BY <1>2 DEF mutex_unlock, ReleaseMutex, InTask
  <2>2. PICK v \in {0, native_prio(c), cur_prio[c]} : cur_prio' = [cur_prio EXCEPT ![c] = v]
    BY <1>2, <2>1 DEF mutex_unlock, ReleaseMutex
  <2>3. pc' = pc /\ UNCHANGED <<cur_tcb, run_list, dev_queue, mutex_queue>>
    BY <1>2 DEF mutex_unlock, sched, devices, places
  <2> QED BY <1>0, <2>1, <2>2, <2>3, GoesOnApart
<1>3. ASSUME NEW d \in DevQueues, event_wait(d) PROVE OnePlace'
  <2>1. PICK c \in Tcbs \ {IDLE_PRIO} : c = cur_tcb
    BY <1>3 DEF event_wait, InTask
  <2>2. /\ cur_prio' = cur_prio /\ pc' = [pc EXCEPT ![c] = "checked"]
        /\ UNCHANGED <<cur_tcb, run_list, dev_queue, mutex_queue>>
    BY <1>3, <2>1 DEF event_wait, At, sched, tasks, mutexes, devices
  <2>3. (\A t \in Tcbs : t # c => pc'[t] = pc[t]) /\ pc'[IDLE_PRIO] = pc[IDLE_PRIO]
    BY <1>0, <2>1, <2>2, ConstantsTyped
  <2> QED BY <1>0, <2>1, <2>2, <2>3, GoesOnApart
<1>4. ASSUME mutex_lock_resume PROVE OnePlace'
  <2>1. PICK c \in Tcbs : c = cur_tcb /\ pc[c] = "mutex_lock"
    BY <1>4 DEF mutex_lock_resume
  <2>2. c # IDLE_PRIO
    BY <1>0, <2>1
  <2>3. /\ cur_prio' = [cur_prio EXCEPT ![c] = 0] /\ pc' = [pc EXCEPT ![c] = "user"]
        /\ UNCHANGED <<cur_tcb, run_list, dev_queue, mutex_queue>>
    BY <1>4, <2>1 DEF mutex_lock_resume, TakeMutex, At, devices
  <2>4. (\A t \in Tcbs : t # c => pc'[t] = pc[t]) /\ pc'[IDLE_PRIO] = pc[IDLE_PRIO]
    BY <1>0, <2>2, <2>3, ConstantsTyped
  <2> QED BY <1>0, <2>1, <2>2, <2>3, <2>4, GoesOnApart
<1>5. ASSUME NEW S, NEW place, LeaveKernel(S, place), place = "user" \/ S = {place}
      PROVE  OnePlace'
  <2>1. PICK c \in Tcbs : c = cur_tcb /\ pc[c] \in S
    BY <1>5 DEF LeaveKernel
  <2>2. /\ cur_prio' = cur_prio /\ pc' = [pc EXCEPT ![c] = place]
        /\ UNCHANGED <<cur_tcb, run_list, dev_queue, mutex_queue>>
    BY <1>5, <2>1 DEF LeaveKernel, At, tasks, mutexes, devices
  <2>3. \A t \in Tcbs : pc'[t] = IF t = c THEN place ELSE pc[t]
    BY <1>0, <2>2
  <2>4. pc'[IDLE_PRIO] \in {"none", "launch", "user", "nosave"}
    BY <1>0, <1>5, <2>1, <2>3, ConstantsTyped
  <2> QED BY <2>1, <2>2, <2>3, <2>4, GoesOnApart
<1>6. ASSUME KernelExit PROVE OnePlace'
  BY <1>4, <1>5, <1>6 DEF KernelExit, launch_task, syscall_return, irq_return
<1> QED BY <1>1, <1>2, <1>3, <1>6

LEMMA NextApart ==
  ASSUME TypeOK, NoTaskYet, OnePlace, TypeOK', [PlainNext]_vars
  PROVE  OnePlace'
PROOF
<1>1. ASSUME \/ \E m \in Mutexes : mutex_create(m)
             \/ SyscallRefused \/ UNCHANGED vars
      PROVE  OnePlace'
  <2>1. UNCHANGED <<cur_tcb, run_list, cur_prio, dev_queue, mutex_queue, pc, irq, num_tasks>>
    BY <1>1 DEF mutex_create, SyscallRefused, vars, sched, tasks, mutexes, devices, places, creation
  <2> QED BY <2>1, StaysApart
<1>2. ASSUME NEW m \in Mutexes, mutex_lock(m) \/ mutex_unlock(m) PROVE OnePlace'
  BY <1>2, RunningStepApart
<1>3. ASSUME NEW m \in Mutexes, LockSleepPlain(m) PROVE OnePlace'
  BY <1>3, LockSleepApart
<1>4. ASSUME NEW m \in Mutexes, UnlockWakePlain(m) PROVE OnePlace'
  BY <1>4, UnlockWakeApart
<1>5. ASSUME NEW d \in DevQueues, event_wait(d) PROVE OnePlace'
  BY <1>5, RunningStepApart
<1>6. ASSUME NEW n \in 1 .. IDLE_PRIO - 1, CreatePlain(n) PROVE OnePlace'
  BY <1>6, CreateApart
<1>7. ASSUME task_create_unschedulable PROVE OnePlace'
  BY <1>7, UnschedulableApart
<1>8. ASSUME DevWaitPlain PROVE OnePlace'
  BY <1>8, DevWaitApart
<1>9. ASSUME dispatch_nosave PROVE OnePlace'
  BY <1>9, NosaveApart
<1>10. ASSUME TickPlain PROVE OnePlace'
  BY <1>10, TickApart
<1>11. ASSUME KernelExit PROVE OnePlace'
  BY <1>11, RunningStepApart
<1>12. ASSUME PlainSyscall PROVE OnePlace'
  BY <1>1, <1>2, <1>3, <1>4, <1>5, <1>6, <1>7, <1>12 DEF PlainSyscall
<1> QED
  BY <1>1, <1>8, <1>9, <1>10, <1>11, <1>12 DEF PlainNext

\* No task is put into two places by a step of the kernel itself, other than that
\* creation.
LEMMA ApartIsPlain ==
  ASSUME TypeOK, NoTaskYet, CheckedArg, OnePlace, [Next]_vars
  PROVE  [PlainNext]_vars \/ CreateOverSleepers
PROOF
<1>1. \A t \in Tcbs : ~(Among(dev_queue, t) /\ Among(mutex_queue, t))
  BY DEF OnePlace, QueuesApart
<1>2. LinksApart
  BY <1>1 DEF OnePlace, QueuesApart, RunningApart, LinksApart
<1> QED BY <1>2, NextIsPlain

LEMMA StaysInOnePlace ==
  ASSUME TypeOK, NoTaskYet, CheckedArg, OnePlace, TypeOK', [Next]_vars, ~CreateOverSleepers
  PROVE  OnePlace'
PROOF
  BY ApartIsPlain, NextApart

\* What every state of every behaviour has.
KernelInv == TypeOK /\ NoTaskYet /\ CheckedArg

LEMMA InvAlways == (Init => KernelInv) /\ (KernelInv /\ [Next]_vars => KernelInv')
PROOF
<1>1. Init => CheckedArg
  BY DEF Init, CheckedArg
<1> QED BY <1>1, InitType, NextType, NextNoTaskYet, NextCheckedArg DEF KernelInv

\* A TCB has one link for all sleep queues (task.h:60), and dev_wait, mutex_lock and
\* mutex_unlock write it without looking where else the task is.  For any number of
\* tasks, and with tasks that wait past the devices, replace the task set while they
\* hold mutexes or have a set refused, no sequence of calls and ticks brings a task
\* into two slots, two queues or two places of one, or makes it ready and asleep, as
\* long as none creates tasks over sleepers.
THEOREM NeverInTwoPlaces ==
  ASSUME "create_over_sleepers" \notin Misuse
  PROVE  Spec => []OnePlace
PROOF
<1> DEFINE Inv == KernelInv /\ OnePlace
<1>1. Init => Inv
  BY InvAlways, InitApart
<1>2. Inv /\ [Next]_vars => Inv'
  <2>1. ~CreateOverSleepers
    BY DEF CreateOverSleepers, task_create
  <2> QED BY <2>1, InvAlways, StaysInOnePlace DEF KernelInv
<1>3. Inv => OnePlace
  OBVIOUS
<1> HIDE DEF Inv
<1> QED BY <1>1, <1>2, <1>3, PTL DEF Spec

\* And whatever they call, the first step to bring a task into two places is a
\* creation while some task waits for a mutex or past the devices (sched.c:55-71).
THEOREM OnlyCreationTangles == Spec => TangledOnlyByCreation
PROOF
<1> DEFINE Step == (OnePlace /\ ~OnePlace') => (created' # created /\ ~KeptQueuesEmpty)
<1>1. KernelInv /\ KernelInv' /\ [Next]_vars => [Step]_vars
  <2> SUFFICES ASSUME KernelInv, KernelInv', [Next]_vars, OnePlace, ~OnePlace'
               PROVE  created' # created /\ ~KeptQueuesEmpty
    OBVIOUS
  <2>1. PICK n \in 1 .. IDLE_PRIO - 1 : task_create(n) /\ ~KeptQueuesEmpty
    BY StaysInOnePlace DEF KernelInv, CreateOverSleepers
  <2>2. created' = created + 1 /\ created \in Nat
    BY <2>1, KernelAssumption DEF task_create, KernelInv, TypeOK
  <2> QED BY <2>1, <2>2
<1>2. TangledOnlyByCreation <=> [][Step]_vars
  BY DEF TangledOnlyByCreation
<1> HIDE DEF Step
<1> QED BY <1>1, <1>2, InvAlways, PTL DEF Spec

-----------------------------------------------------------------------------
(* The order of the tasks that wait for a mutex *)

\* The task that the release of a mutex wakes is not overwritten in its slot by
\* the one it preempts: only a task with a priority of its own is preempted, and
\* then no other task has it.
LEMMA WokenIsReady ==
  ASSUME TypeOK, OnePlace, TypeOK', NEW m \in Mutexes, UnlockWakePlain(m)
  PROVE  \/ cur_tcb' = Head(mutex_queue[m])
         \/ Head(mutex_queue[m]) \in {run_list'[p] : p \in Prios}
PROOF
<1>1. PICK c \in Tcbs : c = cur_tcb /\ pc[c] = "user"
  BY DEF UnlockWakePlain, ReleaseMutex, InTask
<1>2. PICK w \in Tcbs : w = Head(mutex_queue[m]) /\ Among(mutex_queue, w)
  <2>1. mutex_queue[m] \in Seq(Tcbs) /\ mutex_queue[m] # <<>> /\ m \in DOMAIN mutex_queue
    BY DEF UnlockWakePlain, TypeOK
  <2>2. /\ Head(mutex_queue[m]) \in Tcbs
        /\ 1 \in DOMAIN mutex_queue[m] /\ Head(mutex_queue[m]) = mutex_queue[m][1]
    BY <2>1, HeadTailProperties, EmptySeq
  <2> QED BY <2>1, <2>2 DEF Among
<1> DEFINE list == Put(run_list, cur_prio'[w], w)
           q == cur_prio'[w]
<1>3. /\ dispatch_save(list, cur_prio')
      /\ cur_prio' = [cur_prio EXCEPT ![c] = IF holds_lock[c] = 1 THEN native_prio(c) ELSE @]
  BY <1>1, <1>2 DEF UnlockWakePlain, ReleaseMutex
<1>4. w # c
  BY <1>1, <1>2 DEF OnePlace, QueuesApart
<1>5. /\ run_list \in [Prios -> Tcbs \cup {NULL}]
      /\ cur_prio \in [Tcbs -> Prios] /\ cur_prio' \in [Tcbs -> Prios]
  BY DEF TypeOK
<1>6. /\ cur_prio'[w] \in {0, native_prio(w)}
      /\ cur_prio'[c] \in {0, native_prio(c)}
  <2>1. \A t \in Tcbs : cur_prio[t] \in {0, native_prio(t)}
    BY ApartBefore
  <2> QED BY <1>3, <1>4, <1>5, <2>1
<1>7. /\ list \in [Prios -> Tcbs \cup {NULL}] /\ q \in Prios /\ list[q] = w
  BY <1>5 DEF Put
<1>8. Prios \subseteq Nat /\ w # NULL /\ NULL = 0
  BY KernelAssumption, ConstantsTyped DEF Prios, NULL
<1> HIDE DEF list, q
<1>9. CASE ~(cur_prio'[c] > HighestPrio(list))
  <2>1. run_list' = list
    BY <1>1, <1>3, <1>9 DEF dispatch_save
  <2> QED BY <1>2, <1>7, <2>1
<1>10. CASE cur_prio'[c] > HighestPrio(list)
  <2> DEFINE l == Put(list, cur_prio'[c], c)
  <2>1. HighestPrio(list) \in Nat /\ cur_prio'[c] \in Prios
    BY <1>5, <1>7, <1>8, HighestPrioType
  <2>2. q # cur_prio'[c]
    <3>1. cur_prio'[c] = c /\ c # 0
      BY <1>6, <1>8, <1>10, <2>1 DEF native_prio
    <3> QED BY <1>4, <1>6, <3>1 DEF native_prio, q
  <2>3. l \in [Prios -> Tcbs \cup {NULL}] /\ l[q] = w
    BY <1>7, <2>1, <2>2 DEF Put
  <2>4. SwitchToHighest(l)
    BY <1>1, <1>3, <1>10 DEF dispatch_save
  <2> HIDE DEF l
  <2>5. CASE HighestPrio(l) = q
    BY <1>2, <2>3, <2>4, <2>5 DEF SwitchToHighest
  <2>6. CASE HighestPrio(l) # q
    <3>1. run_list'[q] = w
      BY <1>7, <2>3, <2>4, <2>6 DEF SwitchToHighest, Take
    <3> QED BY <1>2, <1>7, <3>1
  <2> QED BY <2>5, <2>6
<1> QED BY <1>9, <1>10

\* What FirstComeFirstServed says of one queue in one step.
ServedInOrder(m) ==
  mutex_queue'[m] # mutex_queue[m] /\ OnePlace =>
       \/ /\ bLock[m]
          /\ mutex_queue'[m] = Append(mutex_queue[m], cur_tcb)
       \/ /\ mutex_queue[m] # <<>>
          /\ mutex_queue'[m] = Tail(mutex_queue[m])
          /\ pHolding_Tcb[m] = cur_tcb /\ pHolding_Tcb'[m] = NULL
          /\ \/ cur_tcb' = Head(mutex_queue[m])
             \/ Head(mutex_queue[m]) \in {run_list'[p] : p \in Prios}
       \/ /\ created' # created
          /\ \E j \in DOMAIN mutex_queue[m] :
               /\ mutex_queue'[m] = SubSeq(mutex_queue[m], 1, j)
               /\ pc'[mutex_queue[m][j]] = "launch"

\* A creation ends the queue with the first of its tasks that it creates again.
LEMMA CreateServed ==
  ASSUME TypeOK, OnePlace, NEW n \in 1 .. IDLE_PRIO - 1, task_create(n), NEW m \in Mutexes
  PROVE  ServedInOrder(m)
PROOF
<1> DEFINE fresh == 1 .. n \cup {IDLE_PRIO}
<1>1. mutex_queue[m] \in Seq(Tcbs) /\ m \in DOMAIN mutex_queue
  BY DEF TypeOK
<1>2. mutex_queue'[m] = CutAfter(mutex_queue[m], fresh)
  BY <1>1 DEF task_create, Unlinked
<1>3. created' # created
  BY KernelAssumption DEF task_create, TypeOK
<1>4. ASSUME NEW j \in 1 .. Len(mutex_queue[m]), mutex_queue[m][j] \in fresh
      PROVE  j \in DOMAIN mutex_queue[m] /\ pc'[mutex_queue[m][j]] = "launch"
  <2>1. j \in DOMAIN mutex_queue[m] /\ mutex_queue[m][j] \in Tcbs
    BY <1>1, <1>4, ElementOfSeq
  <2>2. Among(mutex_queue, mutex_queue[m][j])
    BY <1>1, <2>1 DEF Among
  <2>3. mutex_queue[m][j] # IDLE_PRIO
    BY <2>1, <2>2 DEF OnePlace, QueuesApart, RunningApart
  <2> QED BY <1>4, <2>1, <2>3 DEF task_create
<1> HIDE DEF fresh
<1>5. \/ mutex_queue'[m] = mutex_queue[m]
      \/ \E j \in 1 .. Len(mutex_queue[m]) : /\ mutex_queue[m][j] \in fresh
                                             /\ mutex_queue'[m] = SubSeq(mutex_queue[m], 1, j)
  BY <1>1, <1>2, CutWhere
<1> QED BY <1>3, <1>4, <1>5 DEF ServedInOrder

LEMMA NextServed ==
  ASSUME TypeOK, OnePlace, TypeOK', [PlainNext]_vars, NEW m \in Mutexes
  PROVE  ServedInOrder(m)
PROOF
<1>0. mutex_queue \in [Mutexes -> Seq(Tcbs)] /\ pHolding_Tcb \in [Mutexes -> Tcbs \cup {NULL}]
  BY DEF TypeOK
<1>1. ASSUME NEW k \in Mutexes, LockSleepPlain(k) PROVE ServedInOrder(m)
  <2>1. /\ mutex_queue' = [mutex_queue EXCEPT ![k] = Append(@, cur_tcb)]
        /\ bLock[k]
    BY <1>1 DEF LockSleepPlain
  <2>2. mutex_queue'[m] = IF m = k THEN Append(mutex_queue[m], cur_tcb) ELSE mutex_queue[m]
    BY <1>0, <2>1
  <2> QED BY <2>1, <2>2 DEF ServedInOrder
<1>2. ASSUME NEW k \in Mutexes, UnlockWakePlain(k) PROVE ServedInOrder(m)
  <2>1. /\ mutex_queue' = [mutex_queue EXCEPT ![k] = Tail(@)] /\ mutex_queue[k] # <<>>
        /\ pHolding_Tcb[k] = cur_tcb /\ pHolding_Tcb' = [pHolding_Tcb EXCEPT ![k] = NULL]
    BY <1>2 DEF UnlockWakePlain, ReleaseMutex
  <2>2. mutex_queue'[m] = IF m = k THEN Tail(mutex_queue[m]) ELSE mutex_queue[m]
    BY <1>0, <2>1
  <2>3. pHolding_Tcb'[k] = NULL
    BY <1>0, <2>1
  <2>4. \/ cur_tcb' = Head(mutex_queue[k])
        \/ Head(mutex_queue[k]) \in {run_list'[p] : p \in Prios}
    BY <1>2, WokenIsReady
  <2>5. CASE m = k
    BY <2>1, <2>2, <2>3, <2>4, <2>5 DEF ServedInOrder
  <2>6. CASE m # k
    BY <2>2, <2>6 DEF ServedInOrder
  <2> QED BY <2>5, <2>6
<1>3. ASSUME UNCHANGED mutex_queue PROVE ServedInOrder(m)
  BY <1>3 DEF ServedInOrder
<1>4. \/ UNCHANGED mutex_queue
      \/ \E k \in Mutexes : LockSleepPlain(k) \/ UnlockWakePlain(k)
  BY DEF PlainNext, PlainSyscall, KernelExit, SyscallRefused, mutex_create, mutex_lock, TakeMutex,
     mutex_lock_resume, mutex_unlock, event_wait, DevWaitPlain, TickPlain, CreatePlain,
     task_create_unschedulable, dispatch_nosave, launch_task, syscall_return, irq_return,
     LeaveKernel, vars, mutexes
<1> QED BY <1>1, <1>2, <1>3, <1>4

\* The order mutex_chaser.c:10 expects: a mutex is released to the task that has
\* waited for it longest, and that task is not lost when the one that released it
\* is preempted in the same step (mutex.c:176-184).  Whatever tasks call, this lasts
\* until a creation has put a task into two places; that creation itself cuts queues
\* behind the tasks it starts again.
THEOREM AlwaysFirstComeFirstServed == Spec => FirstComeFirstServed
PROOF
<1> DEFINE Step == \A m \in Mutexes : ServedInOrder(m)
<1>1. KernelInv /\ KernelInv' /\ [Next]_vars => [Step]_vars
  <2> SUFFICES ASSUME KernelInv, KernelInv', [Next]_vars, OnePlace, NEW m \in Mutexes
               PROVE  ServedInOrder(m)
    BY DEF ServedInOrder
  <2>1. CASE CreateOverSleepers
    BY <2>1, CreateServed DEF CreateOverSleepers, KernelInv
  <2>2. CASE [PlainNext]_vars
    BY <2>2, NextServed DEF KernelInv
  <2> QED BY <2>1, <2>2, ApartIsPlain DEF KernelInv
<1>2. FirstComeFirstServed <=> [][Step]_vars
  BY DEF FirstComeFirstServed, ServedInOrder
<1> HIDE DEF Step
<1> QED BY <1>1, <1>2, InvAlways, PTL DEF Spec

-----------------------------------------------------------------------------
(* Where a task can be lost *)

Somewhere(t) ==
  \/ t = cur_tcb
  \/ \E p \in Prios : run_list[p] = t
  \/ Among(dev_queue, t) \/ Among(mutex_queue, t)

\* Another task of priority 0 has the slot that t would have, or the processor.
Outdone(t) ==
  /\ cur_prio'[t] = 0
  /\ \E u \in Tcbs \ {t} : cur_prio'[u] = 0 /\ (cur_tcb' = u \/ run_list'[0] = u)

\* The places of the queues, counted or looked for.
LEMMA PlacesOfAmong ==
  ASSUME NEW I, NEW q, DOMAIN q = I, NEW t
  PROVE  {s \in UNION {{i} \X DOMAIN q[i] : i \in I} : q[s[1]][s[2]] = t} = {} <=> ~Among(q, t)
PROOF
<1> DEFINE S == {s \in UNION {{i} \X DOMAIN q[i] : i \in I} : q[s[1]][s[2]] = t}
<1>1. ASSUME NEW i \in I, NEW j \in DOMAIN q[i], q[i][j] = t PROVE <<i, j>> \in S
  <2>1. <<i, j>> \in {i} \X DOMAIN q[i]
    OBVIOUS
  <2>2. <<i, j>> \in UNION {{k} \X DOMAIN q[k] : k \in I}
    BY <2>1
  <2> QED BY <1>1, <2>2
<1>2. ASSUME NEW s \in S PROVE Among(q, t)
  <2>1. PICK i \in I : s \in {i} \X DOMAIN q[i]
    OBVIOUS
  <2>2. s[1] = i /\ s[2] \in DOMAIN q[i] /\ q[i][s[2]] = t
    BY <2>1
  <2> QED BY <2>2 DEF Among
<1> QED BY <1>1, <1>2 DEF Among

LEMMA LostIsNowhere ==
  ASSUME TypeOK, TypeOK', NEW t \in Tcbs
  PROVE  /\ Lost(t) <=> t \in Live /\ ~Somewhere(t)
         /\ Lost(t)' <=> t \in Live' /\ ~Somewhere(t)'
PROOF
<1>1. /\ DOMAIN dev_queue = DevQueues /\ DOMAIN mutex_queue = Mutexes
      /\ DOMAIN dev_queue' = DevQueues /\ DOMAIN mutex_queue' = Mutexes
  BY DEF TypeOK
<1>2. /\ InDevices(t) = {} <=> ~Among(dev_queue, t)
      /\ InDevices(t)' = {} <=> ~Among(dev_queue', t)
  BY <1>1, PlacesOfAmong DEF InDevices, TaskOf
<1>3. /\ InMutexes(t) = {} <=> ~Among(mutex_queue, t)
      /\ InMutexes(t)' = {} <=> ~Among(mutex_queue', t)
  BY <1>1, PlacesOfAmong DEF InMutexes
<1>4. /\ Slots(t) = {} <=> ~\E p \in Prios : run_list[p] = t
      /\ Slots(t)' = {} <=> ~\E p \in Prios : run_list'[p] = t
  BY DEF Slots
<1>5. Lost(t) <=> t \in Live /\ ~Somewhere(t)
  BY <1>2, <1>3, <1>4 DEF Lost, Somewhere
<1>6. Lost(t)' <=> t \in Live' /\ ~Somewhere(t)'
  BY <1>2, <1>3, <1>4 DEF Lost, Somewhere
<1> QED BY <1>5, <1>6

\* A switch takes no task from its slot but the one it goes to.
LEMMA SwitchKeeps ==
  ASSUME NEW list \in [Prios -> Tcbs \cup {NULL}], SwitchToHighest(list), NEW p \in Prios
  PROVE  cur_tcb' = list[p] \/ run_list'[p] = list[p]
PROOF
<1> DEFINE h == HighestPrio(list)
<1>1. h \in Prios /\ cur_tcb' = list[h] /\ run_list' = Take(list, h, IDLE_PRIO)
  BY HighestPrioType DEF SwitchToHighest
<1> HIDE DEF h
<1>2. p # h => run_list'[p] = list[p]
  BY <1>1 DEF Take
<1> QED BY <1>1, <1>2

\* The task that dispatch_save puts back has a priority of its own, so that it
\* overwrites nobody.
LEMMA SaveKeeps ==
  ASSUME NEW list \in [Prios -> Tcbs \cup {NULL}], NEW prio \in [Tcbs -> Prios],
         \A t \in Tcbs : prio[t] \in {0, native_prio(t)},
         NEW c \in Tcbs, c = cur_tcb, dispatch_save(list, prio)
  PROVE  /\ cur_tcb' = c \/ \E p \in Prios : run_list'[p] = c
         /\ \A p \in Prios : list[p] # NULL /\ prio[list[p]] = p =>
              cur_tcb' = list[p] \/ run_list'[p] = list[p]
PROOF
<1>1. CASE prio[c] > HighestPrio(list)
  <2> DEFINE l == Put(list, prio[c], c)
  <2>1. l \in [Prios -> Tcbs \cup {NULL}] /\ prio[c] \in Prios /\ SwitchToHighest(l)
    BY <1>1 DEF Put, dispatch_save
  <2>2. l[prio[c]] = c /\ \A p \in Prios : p # prio[c] => l[p] = list[p]
    BY <2>1 DEF Put
  <2>3. prio[c] = c /\ c # 0
    <3>1. HighestPrio(list) \in Nat /\ prio[c] \in Nat
      BY HighestPrioType, KernelAssumption DEF Prios
    <3> QED BY <1>1, <3>1, ConstantsTyped DEF native_prio
  <2> HIDE DEF l
  <2>4. \A p \in Prios : cur_tcb' = l[p] \/ run_list'[p] = l[p]
    BY <2>1, SwitchKeeps
  <2>5. ASSUME NEW p \in Prios, list[p] # NULL, prio[list[p]] = p
        PROVE  cur_tcb' = list[p] \/ run_list'[p] = list[p]
    <3>1. CASE p = prio[c]
      <4>1. list[p] \in Tcbs /\ p # 0
        BY <2>3, <2>5, <3>1
      <4>2. list[p] = c
        BY <2>3, <2>5, <3>1, <4>1 DEF native_prio
      <4> QED BY <2>2, <2>4, <3>1, <4>2
    <3>2. CASE p # prio[c]
      BY <2>2, <2>4, <3>2
    <3> QED BY <3>1, <3>2
  <2> QED BY <2>1, <2>2, <2>4, <2>5
<1>2. CASE ~(prio[c] > HighestPrio(list))
  BY <1>2 DEF dispatch_save
<1> QED BY <1>1, <1>2

\* The slot of a task that a tick wakes gets a task of that priority.
LEMMA WokenHasSlot ==
  ASSUME TypeOK, NEW due \in SUBSET Devices, NEW d \in due, NEW j \in DOMAIN dev_queue[d]
  PROVE  LET p == cur_prio[dev_queue[d][j]]
         IN  WakeAll(due)[p] \in Tcbs /\ cur_prio[WakeAll(due)[p]] = p
PROOF
<1> DEFINE p == cur_prio[dev_queue[d][j]]
           here == {s \in Sleeping(due) : cur_prio[TaskOf(s)] = p}
<1>0. /\ dev_queue \in [DevQueues -> Seq(Tcbs)] /\ cur_prio \in [Tcbs -> Prios]
      /\ due \subseteq DevQueues
  BY ConstantsTyped DEF TypeOK
<1>1. \A e \in due : \A i \in DOMAIN dev_queue[e] : dev_queue[e][i] \in Tcbs
  BY <1>0, ElementOfSeq
<1>2. p \in Prios
  BY <1>0, <1>1
<1>3. <<d, j>> \in here
  <2>1. <<d, j>> \in {d} \X DOMAIN dev_queue[d]
    OBVIOUS
  <2> QED BY <2>1 DEF Sleeping, TaskOf
<1>4. LastOf(here) \in here
  BY <1>0, <1>3, LastIsOne
<1>5. WakeAll(due)[p] = TaskOf(LastOf(here))
  BY <1>2, <1>3 DEF WakeAll
<1>6. PICK e \in due : LastOf(here) \in {e} \X DOMAIN dev_queue[e]
  BY <1>4 DEF Sleeping
<1>7. TaskOf(LastOf(here)) \in Tcbs
  BY <1>1, <1>6 DEF TaskOf
<1> QED BY <1>4, <1>5, <1>7

\* A queue loses nobody when it grows, and its head when it shrinks.
LEMMA AppendKeeps ==
  ASSUME NEW I, NEW q \in [I -> Seq(Tcbs)], NEW i \in I, NEW c \in Tcbs,
         NEW r, DOMAIN r = I, r[i] = Append(q[i], c), \A k \in I \ {i} : r[k] = q[k],
         NEW t, Among(q, t)
  PROVE  Among(r, t)
PROOF
<1>1. PICK k \in I : \E j \in DOMAIN q[k] : q[k][j] = t
  BY DEF Among
<1>2. PICK j \in DOMAIN q[k] : q[k][j] = t
  BY <1>1
<1>3. q[k] \in Seq(Tcbs)
  OBVIOUS
<1>4. CASE k = i
  <2>1. /\ Len(q[k]) \in Nat /\ DOMAIN q[k] = 1 .. Len(q[k])
        /\ Len(Append(q[k], c)) = Len(q[k]) + 1 /\ Append(q[k], c)[j] = q[k][j]
        /\ Append(q[k], c) \in Seq(Tcbs)
    BY <1>2, <1>3, AppendProperties
  <2>2. j \in DOMAIN r[k] /\ r[k][j] = t
    BY <1>2, <1>4, <2>1
  <2> QED BY <2>2 DEF Among
<1>5. CASE k # i
  BY <1>2, <1>5 DEF Among
<1> QED BY <1>4, <1>5

LEMMA TailKeeps ==
  ASSUME NEW I, NEW q \in [I -> Seq(Tcbs)], NEW i \in I, q[i] # <<>>,
         NEW r, DOMAIN r = I, r[i] = Tail(q[i]), \A k \in I \ {i} : r[k] = q[k],
         NEW t, Among(q, t), t # Head(q[i])
  PROVE  Among(r, t)
PROOF
<1>1. PICK k \in I : \E j \in DOMAIN q[k] : q[k][j] = t
  BY DEF Among
<1>2. PICK j \in DOMAIN q[k] : q[k][j] = t
  BY <1>1
<1>3. q[k] \in Seq(Tcbs)
  OBVIOUS
<1>4. CASE k = i
  <2>1. /\ Len(q[k]) \in Nat /\ DOMAIN q[k] = 1 .. Len(q[k])
        /\ Head(q[k]) = q[k][1] /\ Tail(q[k]) \in Seq(Tcbs) /\ Len(Tail(q[k])) = Len(q[k]) - 1
        /\ \A n \in 1 .. Len(Tail(q[k])) : Tail(q[k])[n] = q[k][n + 1]
    BY <1>3, <1>4, HeadTailProperties
  <2>2. j # 1
    BY <1>2, <1>4, <2>1
  <2>3. j - 1 \in 1 .. Len(Tail(q[k])) /\ (j - 1) + 1 = j
    BY <2>1, <2>2
  <2>4. j - 1 \in DOMAIN r[k] /\ r[k][j - 1] = t
    BY <1>2, <1>4, <2>1, <2>3
  <2> QED BY <2>4 DEF Among
<1>5. CASE k # i
  BY <1>2, <1>5 DEF Among
<1> QED BY <1>4, <1>5

LEMMA AppendFinds ==
  ASSUME NEW I, NEW q \in [I -> Seq(Tcbs)], NEW i \in I, NEW c \in Tcbs,
         NEW r, DOMAIN r = I, r[i] = Append(q[i], c)
  PROVE  Among(r, c)
PROOF
<1>1. q[i] \in Seq(Tcbs)
  OBVIOUS
<1>2. /\ Len(Append(q[i], c)) = Len(q[i]) + 1 /\ Append(q[i], c)[Len(q[i]) + 1] = c
      /\ Append(q[i], c) \in Seq(Tcbs) /\ Len(q[i]) \in Nat
  BY <1>1, AppendProperties
<1>3. Len(q[i]) + 1 \in DOMAIN r[i] /\ r[i][Len(q[i]) + 1] = c
  BY <1>2
<1> QED BY <1>3 DEF Among

\* Of the steps that put the running task to sleep.
LEMMA SleepFinds ==
  ASSUME TypeOK, NEW t \in Tcbs, Somewhere(t), t # cur_tcb, SwitchToHighest(run_list),
         Among(dev_queue, t) => Among(dev_queue', t),
         Among(mutex_queue, t) => Among(mutex_queue', t)
  PROVE  Somewhere(t)'
PROOF
<1>1. run_list \in [Prios -> Tcbs \cup {NULL}]
  BY DEF TypeOK
<1>2. \A p \in Prios : cur_tcb' = run_list[p] \/ run_list'[p] = run_list[p]
  BY <1>1, SwitchKeeps
<1>3. CASE \E p \in Prios : run_list[p] = t
  <2>1. PICK p \in Prios : run_list[p] = t
    BY <1>3
  <2> QED BY <1>2, <2>1 DEF Somewhere
<1> QED BY <1>3 DEF Somewhere

LEMMA LockSleepFinds ==
  ASSUME TypeOK, NoTaskYet, TypeOK', NEW m \in Mutexes, LockSleepPlain(m),
         NEW t \in Tcbs, Somewhere(t)
  PROVE  Somewhere(t)'
PROOF
<1>1. PICK c \in Tcbs : c = cur_tcb
  BY LocksAsTask DEF LockSleepPlain
<1>2. /\ mutex_queue' = [mutex_queue EXCEPT ![m] = Append(@, c)]
      /\ SwitchToHighest(run_list) /\ dev_queue' = dev_queue
  BY <1>1 DEF LockSleepPlain, dispatch_sleep, devices
<1>3. mutex_queue \in [Mutexes -> Seq(Tcbs)]
  BY DEF TypeOK
<1>4. /\ DOMAIN mutex_queue' = Mutexes
      /\ mutex_queue'[m] = Append(mutex_queue[m], c)
      /\ \A k \in Mutexes \ {m} : mutex_queue'[k] = mutex_queue[k]
  BY <1>2, <1>3
<1>5. Among(mutex_queue, t) => Among(mutex_queue', t)
  BY <1>3, <1>4, AppendKeeps
<1>6. CASE t = c
  <2>1. Among(mutex_queue', c)
    BY <1>3, <1>4, AppendFinds
  <2> QED BY <1>6, <2>1 DEF Somewhere
<1>7. CASE t # c
  BY <1>1, <1>2, <1>5, <1>7, SleepFinds
<1> QED BY <1>6, <1>7

LEMMA DevWaitFinds ==
  ASSUME TypeOK, CheckedArg, TypeOK', DevWaitPlain, NEW t \in Tcbs, Somewhere(t)
  PROVE  Somewhere(t)'
PROOF
<1>1. PICK c \in Tcbs, d \in DevQueues : c = cur_tcb /\ d = arg[c]
  BY DEF DevWaitPlain, CheckedArg
<1>2. /\ dev_queue' = [dev_queue EXCEPT ![d] = Append(@, c)]
      /\ SwitchToHighest(run_list) /\ mutex_queue' = mutex_queue
  BY <1>1 DEF DevWaitPlain, dispatch_sleep, mutexes
<1>3. dev_queue \in [DevQueues -> Seq(Tcbs)]
  BY DEF TypeOK
<1>4. /\ DOMAIN dev_queue' = DevQueues
      /\ dev_queue'[d] = Append(dev_queue[d], c)
      /\ \A k \in DevQueues \ {d} : dev_queue'[k] = dev_queue[k]
  BY <1>2, <1>3
<1>5. Among(dev_queue, t) => Among(dev_queue', t)
  BY <1>3, <1>4, AppendKeeps
<1>6. CASE t = c
  <2>1. Among(dev_queue', c)
    BY <1>3, <1>4, AppendFinds
  <2> QED BY <1>6, <2>1 DEF Somewhere
<1>7. CASE t # c
  BY <1>1, <1>2, <1>5, <1>7, SleepFinds
<1> QED BY <1>6, <1>7

\* The task woken may have the priority 0 of a mutex it holds, and overwrite
\* another that has.
LEMMA UnlockWakeFinds ==
  ASSUME TypeOK, OnePlace, TypeOK', NEW m \in Mutexes, UnlockWakePlain(m),
         NEW t \in Tcbs, Somewhere(t)
  PROVE  Somewhere(t)' \/ Outdone(t)
PROOF
<1>1. PICK c \in Tcbs : c = cur_tcb /\ pc[c] = "user"
  BY DEF UnlockWakePlain, ReleaseMutex, InTask
<1>2. PICK w \in Tcbs : w = Head(mutex_queue[m]) /\ Among(mutex_queue, w)
  <2>1. mutex_queue[m] \in Seq(Tcbs) /\ mutex_queue[m] # <<>> /\ m \in DOMAIN mutex_queue
    BY DEF UnlockWakePlain, TypeOK
  <2>2. /\ Head(mutex_queue[m]) \in Tcbs
        /\ 1 \in DOMAIN mutex_queue[m] /\ Head(mutex_queue[m]) = mutex_queue[m][1]
    BY <2>1, HeadTailProperties, EmptySeq
  <2> QED BY <2>1, <2>2 DEF Among
<1> DEFINE q == cur_prio'[w]
           list == Put(run_list, q, w)
<1>3. /\ dispatch_save(list, cur_prio')
      /\ cur_prio' = [cur_prio EXCEPT ![c] = IF holds_lock[c] = 1 THEN native_prio(c) ELSE @]
      /\ mutex_queue' = [mutex_queue EXCEPT ![m] = Tail(@)] /\ mutex_queue[m] # <<>>
      /\ dev_queue' = dev_queue
  BY <1>1, <1>2 DEF UnlockWakePlain, ReleaseMutex, devices
<1>4. /\ run_list \in [Prios -> Tcbs \cup {NULL}] /\ mutex_queue \in [Mutexes -> Seq(Tcbs)]
      /\ cur_prio \in [Tcbs -> Prios] /\ cur_prio' \in [Tcbs -> Prios]
  BY DEF TypeOK
<1>5. /\ \A p \in Prios : run_list[p] # NULL =>
           cur_prio[run_list[p]] = p /\ run_list[p] \notin Queued
      /\ \A u \in Tcbs : cur_prio[u] \in {0, native_prio(u)}
      /\ w \in Queued /\ w # c
  BY <1>1, <1>2, ApartBefore
<1>6. \A u \in Tcbs : cur_prio'[u] \in {0, native_prio(u)} /\ (u # c => cur_prio'[u] = cur_prio[u])
  BY <1>3, <1>4, <1>5
<1>7. /\ list \in [Prios -> Tcbs \cup {NULL}] /\ q \in Prios /\ list[q] = w
      /\ \A p \in Prios : p # q => list[p] = run_list[p]
  BY <1>4 DEF Put
<1> HIDE DEF list
<1>8. /\ cur_tcb' = c \/ \E p \in Prios : run_list'[p] = c
      /\ \A p \in Prios : list[p] # NULL /\ cur_prio'[list[p]] = p =>
           cur_tcb' = list[p] \/ run_list'[p] = list[p]
  <2>1. \A u \in Tcbs : cur_prio'[u] \in {0, native_prio(u)}
    BY <1>6
  <2>2. /\ c \in Tcbs /\ c = cur_tcb /\ dispatch_save(list, cur_prio')
        /\ list \in [Prios -> Tcbs \cup {NULL}] /\ cur_prio' \in [Tcbs -> Prios]
    BY <1>1, <1>3, <1>4, <1>7
  <2> QED BY <2>1, <2>2, SaveKeeps
<1>9. cur_tcb' = w \/ run_list'[q] = w
  BY <1>7, <1>8, ConstantsTyped
<1>10. CASE t = c \/ t = w
  BY <1>7, <1>8, <1>9, <1>10 DEF Somewhere
<1>11. CASE t # c /\ \E p \in Prios : run_list[p] = t
  <2>1. PICK p \in Prios : run_list[p] = t
    BY <1>11
  <2>2. cur_prio'[t] = p /\ t # w
    BY <1>5, <1>6, <1>11, <2>1, ConstantsTyped
  <2>3. CASE p # q
    BY <1>7, <1>8, <2>1, <2>2, <2>3, ConstantsTyped DEF Somewhere
  <2>4. CASE p = q
    <3>1. p = 0
      BY <1>6, <2>2, <2>4 DEF native_prio
    <3> QED BY <1>9, <2>2, <2>4, <3>1 DEF Outdone
  <2> QED BY <2>3, <2>4
<1>12. CASE Among(dev_queue, t)
  BY <1>3, <1>12 DEF Somewhere
<1>13. CASE t # w /\ Among(mutex_queue, t)
  <2>1. /\ DOMAIN mutex_queue' = Mutexes
        /\ mutex_queue'[m] = Tail(mutex_queue[m])
        /\ \A k \in Mutexes \ {m} : mutex_queue'[k] = mutex_queue[k]
    BY <1>3, <1>4
  <2>2. t = Head(mutex_queue[m]) \/ Among(mutex_queue', t)
    <3>1. Among(mutex_queue, t) /\ mutex_queue[m] # <<>> /\ mutex_queue \in [Mutexes -> Seq(Tcbs)]
      BY <1>3, <1>4, <1>13
    <3> QED BY <2>1, <3>1, TailKeeps
  <2> QED BY <1>2, <1>13, <2>2 DEF Somewhere
<1> QED BY <1>1, <1>10, <1>11, <1>12, <1>13 DEF Somewhere

\* So may a task whose device is signalled.
LEMMA TickFinds ==
  ASSUME TypeOK, OnePlace, TypeOK', TickPlain, num_tasks > 0, NEW t \in Tcbs, Somewhere(t)
  PROVE  Somewhere(t)' \/ Outdone(t)
PROOF
<1> DEFINE due == {d \in Devices : left[d] <= 1}
<1>1. /\ dev_queue' = [d \in DevQueues |-> IF d \in due THEN <<>> ELSE dev_queue[d]]
      /\ cur_prio' = cur_prio /\ mutex_queue' = mutex_queue /\ irq
      /\ IF Sleeping(due) = {} THEN UNCHANGED sched ELSE dispatch_save(WakeAll(due), cur_prio)
  BY DEF TickPlain, tasks, mutexes
<1>2. due \in SUBSET Devices
  OBVIOUS
<1> HIDE DEF due
<1>3. PICK c \in Tcbs : c = cur_tcb
  BY <1>1 DEF OnePlace, RunningApart
<1>4. /\ run_list \in [Prios -> Tcbs \cup {NULL}] /\ cur_prio \in [Tcbs -> Prios]
      /\ dev_queue \in [DevQueues -> Seq(Tcbs)]
  BY DEF TypeOK
<1>5. /\ \A p \in Prios : run_list[p] # NULL => cur_prio[run_list[p]] = p
      /\ \A u \in Tcbs : cur_prio[u] \in {0, native_prio(u)}
  BY ApartBefore
<1>6. ASSUME Among(dev_queue, t)
      PROVE  \/ Among(dev_queue', t)
             \/ \E d \in due : \E j \in DOMAIN dev_queue[d] : dev_queue[d][j] = t
  <2>1. PICK d \in DevQueues : \E j \in DOMAIN dev_queue[d] : dev_queue[d][j] = t
    BY <1>4, <1>6 DEF Among
  <2>2. CASE d \notin due
    <3>1. d \in DOMAIN dev_queue' /\ dev_queue'[d] = dev_queue[d]
      BY <1>1, <2>2
    <3> QED BY <2>1, <3>1 DEF Among
  <2> QED BY <2>1, <2>2
<1>7. CASE Sleeping(due) = {}
  <2>1. ASSUME NEW d \in due, NEW j \in DOMAIN dev_queue[d] PROVE FALSE
    <3>1. <<d, j>> \in {d} \X DOMAIN dev_queue[d]
      OBVIOUS
    <3> QED BY <1>7, <3>1 DEF Sleeping
  <2> QED BY <1>1, <1>6, <1>7, <2>1 DEF Somewhere, sched
<1>8. CASE Sleeping(due) # {}
  <2>1. WakeAll(due) \in [Prios -> Tcbs \cup {NULL}]
    BY <1>2, WakeAllType
  <2>2. /\ cur_tcb' = c \/ \E p \in Prios : run_list'[p] = c
        /\ \A p \in Prios : WakeAll(due)[p] # NULL /\ cur_prio[WakeAll(due)[p]] = p =>
             cur_tcb' = WakeAll(due)[p] \/ run_list'[p] = WakeAll(due)[p]
    BY <1>1, <1>3, <1>4, <1>5, <1>8, <2>1, SaveKeeps
  \* The slot that t has, or is woken into, holds t or another of its priority.
  <2>3. ASSUME NEW u \in Tcbs, NEW p \in Prios, cur_prio[t] = p, cur_prio[u] = p, WakeAll(due)[p] = u
        PROVE  Somewhere(t)' \/ Outdone(t)
    <3>1. cur_tcb' = u \/ run_list'[p] = u
      BY <2>2, <2>3, ConstantsTyped
    <3>2. t # u => p = 0
      BY <1>5, <2>3 DEF native_prio
    <3>3. CASE t = u
      BY <2>3, <3>1, <3>3 DEF Somewhere
    <3>4. CASE t # u
      BY <1>1, <2>3, <3>1, <3>2, <3>4 DEF Outdone
    <3> QED BY <3>3, <3>4
  <2>4. CASE \E p \in Prios : run_list[p] = t
    <3>1. PICK p \in Prios : run_list[p] = t
      BY <2>4
    <3>2. cur_prio[t] = p /\ t # NULL
      BY <1>5, <3>1, ConstantsTyped
    <3>3. PICK u \in Tcbs : WakeAll(due)[p] = u /\ cur_prio[u] = p
      <4>1. CASE WakeAll(due)[p] = run_list[p]
        BY <3>1, <3>2, <4>1
      <4>2. CASE \E d \in due : \E j \in DOMAIN dev_queue[d] :
                   WakeAll(due)[p] = dev_queue[d][j] /\ cur_prio[dev_queue[d][j]] = p
        <5>1. PICK d \in due : \E j \in DOMAIN dev_queue[d] :
                   WakeAll(due)[p] = dev_queue[d][j] /\ cur_prio[dev_queue[d][j]] = p
          BY <4>2
        <5>2. dev_queue[d] \in Seq(Tcbs)
          BY <1>2, <1>4, <5>1, ConstantsTyped
        <5> QED BY <5>1, <5>2, ElementOfSeq
      <4> QED BY <1>2, <4>1, <4>2, WakeFrom
    <3> QED BY <2>3, <3>2, <3>3
  <2>5. ASSUME NEW d \in due, NEW j \in DOMAIN dev_queue[d], dev_queue[d][j] = t
        PROVE  Somewhere(t)' \/ Outdone(t)
    <3>1. WakeAll(due)[cur_prio[t]] \in Tcbs /\ cur_prio[WakeAll(due)[cur_prio[t]]] = cur_prio[t]
      BY <1>2, <2>5, WokenHasSlot
    <3>2. cur_prio[t] \in Prios
      BY <1>4
    <3> QED BY <2>3, <3>1, <3>2
  <2>6. CASE t = c
    BY <2>2, <2>6 DEF Somewhere
  <2>7. CASE Among(mutex_queue, t) \/ Among(dev_queue', t)
    BY <1>1, <2>7 DEF Somewhere
  <2> QED BY <1>3, <1>6, <2>4, <2>5, <2>6, <2>7 DEF Somewhere
<1> QED BY <1>7, <1>8

\* What LostOnlyAtCeiling says of one task in one step.
LEMMA NextFinds ==
  ASSUME "create_unschedulable" \notin Misuse,
         TypeOK, NoTaskYet, OnePlace, CheckedArg, TypeOK', [PlainNext]_vars, NEW t \in Tcbs
  PROVE  ~Lost(t) /\ Lost(t)' => Outdone(t)
PROOF
<1> SUFFICES ASSUME ~Lost(t), t \in Live', ~Somewhere(t)' PROVE Outdone(t)
  BY LostIsNowhere
<1>1. ASSUME Live' = Live PROVE Somewhere(t) /\ num_tasks > 0
  <2>1. Somewhere(t)
    BY <1>1, LostIsNowhere
  <2> QED BY <1>1, <2>1 DEF Live, TypeOK
<1>2. ASSUME UNCHANGED <<cur_tcb, run_list, dev_queue, mutex_queue, num_tasks>> PROVE FALSE
  BY <1>1, <1>2 DEF Somewhere, Live
<1>3. ASSUME NEW n \in 1 .. IDLE_PRIO - 1, CreatePlain(n) PROVE FALSE
  <2>1. t \in 1 .. n /\ run_list'[t] = t /\ t \in Prios
    BY <1>3, ConstantsTyped DEF CreatePlain, Live
  <2> QED BY <2>1 DEF Somewhere
<1>4. ASSUME task_create_unschedulable PROVE FALSE
  <2>1. num_tasks = 0 /\ num_tasks' = num_tasks
    BY <1>4 DEF task_create_unschedulable, InUser, InMain, Main, creation
  <2> QED BY <2>1 DEF Live
<1>5. ASSUME NEW m \in Mutexes, LockSleepPlain(m) PROVE FALSE
  <2>1. num_tasks' = num_tasks
    BY <1>5 DEF LockSleepPlain, creation
  <2> QED BY <1>1, <1>5, <2>1, LockSleepFinds DEF Live
<1>6. ASSUME NEW m \in Mutexes, UnlockWakePlain(m) PROVE Outdone(t)
  <2>1. num_tasks' = num_tasks
    BY <1>6 DEF UnlockWakePlain, creation
  <2> QED BY <1>1, <1>6, <2>1, UnlockWakeFinds DEF Live
<1>7. ASSUME DevWaitPlain PROVE FALSE
  <2>1. num_tasks' = num_tasks
    BY <1>7 DEF DevWaitPlain, creation
  <2> QED BY <1>1, <1>7, <2>1, DevWaitFinds DEF Live
<1>8. ASSUME TickPlain PROVE Outdone(t)
  <2>1. num_tasks' = num_tasks
    BY <1>8 DEF TickPlain, creation
  <2> QED BY <1>1, <1>8, <2>1, TickFinds DEF Live
<1>9. ASSUME dispatch_nosave PROVE FALSE
  <2>1. /\ num_tasks' = num_tasks /\ cur_tcb = IDLE_PRIO /\ SwitchToHighest(run_list)
        /\ dev_queue' = dev_queue /\ mutex_queue' = mutex_queue
    BY <1>9 DEF dispatch_nosave, creation, devices, mutexes
  <2>2. Somewhere(t) /\ t # IDLE_PRIO
    BY <1>1, <2>1, KernelAssumption DEF Live, TypeOK
  <2> QED BY <2>1, <2>2, SleepFinds
<1>10. ASSUME NEW m \in Mutexes, mutex_create(m) \/ mutex_lock(m) \/ mutex_unlock(m) PROVE FALSE
  BY <1>2, <1>10 DEF mutex_create, mutex_lock, TakeMutex, mutex_unlock, sched, mutexes, devices, creation
<1>11. ASSUME NEW d \in DevQueues, event_wait(d) PROVE FALSE
  BY <1>2, <1>11 DEF event_wait, sched, mutexes, devices, creation
<1>12. ASSUME SyscallRefused \/ UNCHANGED vars PROVE FALSE
  BY <1>2, <1>12 DEF SyscallRefused, vars, sched, mutexes, devices, creation
<1>13. ASSUME KernelExit PROVE FALSE
  BY <1>2, <1>13 DEF KernelExit, launch_task, syscall_return, irq_return, LeaveKernel,
     mutex_lock_resume, TakeMutex, mutexes, devices, creation
<1>14. ASSUME PlainSyscall PROVE Outdone(t)
  BY <1>3, <1>4, <1>5, <1>6, <1>10, <1>11, <1>12, <1>14 DEF PlainSyscall
<1> QED BY <1>7, <1>8, <1>9, <1>12, <1>13, <1>14 DEF PlainNext

\* run_queue.c:90-92 with all its callers, also when tasks that hold mutexes have
\* replaced the task set: as long as no task is in two places, one is lost only from
\* priority 0, to another that has it too, for any number of tasks, mutexes and
\* devices.  Excluded is the call that empties the run queue and returns to its task
\* (proc.c:77).
THEOREM LossesOnlyAtCeiling ==
  ASSUME "create_unschedulable" \notin Misuse
  PROVE  Spec => LostOnlyAtCeiling
PROOF
<1> DEFINE Step == \A t \in Tcbs : (~Lost(t) /\ Lost(t)' /\ OnePlace) => Outdone(t)
<1>1. KernelInv /\ KernelInv' /\ [Next]_vars => [Step]_vars
  <2> SUFFICES ASSUME KernelInv, KernelInv', [Next]_vars, OnePlace,
                      NEW t \in Tcbs, ~Lost(t), Lost(t)'
               PROVE  Outdone(t)
    OBVIOUS
  <2>1. CASE CreateOverSleepers
    <3>1. PICK n \in 1 .. IDLE_PRIO - 1 : task_create(n)
      BY <2>1 DEF CreateOverSleepers
    <3>2. t \in Live' /\ ~Somewhere(t)'
      BY LostIsNowhere DEF KernelInv
    <3>3. t \in 1 .. n /\ run_list'[t] = t /\ t \in Prios
      BY <3>1, <3>2, ConstantsTyped DEF task_create, Live
    <3> QED BY <3>2, <3>3 DEF Somewhere
  <2>2. CASE [PlainNext]_vars
    BY <2>2, NextFinds DEF KernelInv
  <2> QED BY <2>1, <2>2, ApartIsPlain DEF KernelInv
<1>2. LostOnlyAtCeiling <=> [][Step]_vars
  BY DEF LostOnlyAtCeiling, Outdone
<1> HIDE DEF Step
<1> QED BY <1>1, <1>2, InvAlways, PTL DEF Spec

-----------------------------------------------------------------------------
(* The devices *)

DeviceTicks == INSTANCE Countdown WITH Period <- Freq

\* device.c, whatever tasks call: no call or switch touches the ticks of a device but
\* task_create, which begins all periods anew.  module Timer shows that the clock of
\* the processor keeps such ticks (ClockImplementsCountdown in Timer_proofs).
THEOREM KernelTicks == Spec => DeviceTicks!Spec
PROOF
<1>1. Init => DeviceTicks!Init
  BY DEF Init, DeviceTicks!Init
<1>2. [Next]_vars => [DeviceTicks!Tick \/ DeviceTicks!Reset]_left
  <2> SUFFICES ASSUME [Next]_vars PROVE DeviceTicks!Tick \/ DeviceTicks!Reset \/ UNCHANGED left
    OBVIOUS
  <2>1. CASE timer_tick
    BY <2>1 DEF timer_tick, DeviceTicks!Tick, DeviceTicks!Signalled
  <2>2. CASE (\E n \in 1 .. IDLE_PRIO - 1 : task_create(n)) \/ task_create_unschedulable
    BY <2>2 DEF task_create, task_create_unschedulable, ResetDevices, DeviceTicks!Reset
  <2>3. CASE ~timer_tick /\ ~(\E n \in 1 .. IDLE_PRIO - 1 : task_create(n)) /\ ~task_create_unschedulable
    <3>1. CASE dev_wait \/ dispatch_nosave \/ KernelExit
      BY <3>1 DEF dev_wait, dispatch_nosave, KernelExit, LeaveKernel, launch_task, syscall_return,
        irq_return, mutex_lock_resume, devices
    <3>2. CASE Syscall
      <4>1. ASSUME NEW m \in Mutexes, mutex_create(m) \/ mutex_lock(m) \/ mutex_unlock(m) PROVE UNCHANGED left
        BY <4>1 DEF mutex_create, mutex_lock, mutex_unlock, devices
      <4>2. ASSUME NEW m \in Mutexes, mutex_lock_sleep(m) \/ mutex_unlock_wake(m) PROVE UNCHANGED left
        BY <4>2 DEF mutex_lock_sleep, mutex_unlock_wake, devices
      <4>3. ASSUME NEW d \in DevQueues, event_wait(d) PROVE UNCHANGED left
        BY <4>3 DEF event_wait, devices
      <4>4. SyscallRefused => UNCHANGED left
        BY DEF SyscallRefused, vars, devices
      <4> QED BY <2>3, <3>2, <4>1, <4>2, <4>3, <4>4 DEF Syscall
    <3> QED BY <2>3, <3>1, <3>2 DEF Next, vars, devices
  <2> QED BY <2>1, <2>2, <2>3
<1> QED
  BY <1>1, <1>2, PTL DEF Spec, DeviceTicks!Spec
=============================================================================
