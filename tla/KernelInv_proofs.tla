-------------------------- MODULE KernelInv_proofs --------------------------
(***************************************************************************)
(* InPlace is an invariant of the kernel under its intended use, and what  *)
(* follows from it: no task is lost, the idle task is always ready, the    *)
(* mutexes exclude each other and are counted, creation is undisturbed,    *)
(* the processor goes to the most urgent task, and the kernel implements   *)
(* the abstract Scheduler.                                                 *)
(***************************************************************************)
EXTENDS KernelInv, Kernel_proofs

-----------------------------------------------------------------------------
(* Facts about one state *)

LEMMA HeldCount ==
  ASSUME NEW t
  PROVE  /\ IsFiniteSet(Held(t))
         /\ Cardinality(Held(t)) \in Nat
         /\ Cardinality(Held(t)) = 0 <=> Held(t) = {}
PROOF
<1>1. IsFiniteSet(Mutexes)
  BY KernelAssumption, FS_Interval DEF Mutexes
<1>2. IsFiniteSet(Held(t))
  BY <1>1, FS_Subset DEF Held
<1> QED BY <1>2, FS_CardinalityType, FS_EmptySet

\* A task that runs its own code or the checks of event_wait has been created.
LEMMA RunningTask ==
  ASSUME TypeOK, RunningInPlace, cur_tcb \in Tcbs
  PROVE  Created /\ cur_tcb \in Known
PROOF
  BY ConstantsTyped DEF RunningInPlace

LEMMA LiveTasks ==
  ASSUME TypeOK
  PROVE  Live \subseteq Tcbs /\ IDLE_PRIO \notin Live /\ 0 \notin Live
PROOF
  BY KernelAssumption DEF TypeOK, Live, Tcbs

LEMMA NoDomain ==
  ASSUME NEW S, NEW s \in Seq(S), DOMAIN s = {}
  PROVE  s = <<>>
PROOF
<1>1. DOMAIN s = 1 .. Len(s) /\ Len(s) \in Nat
  OBVIOUS
<1>2. Len(s) = 0
  <2>1. 1 \notin 1 .. Len(s)
    BY <1>1
  <2> QED BY <1>1, <2>1
<1> QED BY <1>2, EmptySeq

LEMMA SomeoneLive ==
  ASSUME TypeOK, NEW t \in Live
  PROVE  Created
PROOF
  BY DEF TypeOK, Live, Created

\* A created task that does not run holds no mutex and competes with its own
\* priority; so does the running one when it holds none.
LEMMA OwnPriority ==
  ASSUME InPlace, Created, NEW t \in Known, t # cur_tcb \/ Held(t) = {}
  PROVE  Held(t) = {} /\ cur_prio[t] = t
PROOF
<1>0. TypeOK /\ HoldersInPlace /\ CountersInPlace /\ RunningInPlace
  BY DEF InPlace
<1>1. t \in Tcbs
  BY <1>0, LiveTasks, ConstantsTyped DEF Known
<1>2. Held(t) = {}
  BY <1>0, <1>1, ConstantsTyped DEF Held, HoldersInPlace
<1>3. holds_lock[t] = 0
  BY <1>0, <1>1, <1>2, HeldCount DEF CountersInPlace
<1> QED
  BY <1>0, <1>2, <1>3 DEF CountersInPlace, native_prio

\* A task that holds a mutex competes at priority 0.
LEMMA HolderPriority ==
  ASSUME InPlace, Created, Held(cur_tcb) # {}
  PROVE  cur_prio[cur_tcb] = 0
PROOF
<1>0. TypeOK /\ CountersInPlace /\ RunningInPlace
  BY DEF InPlace
<1>1. cur_tcb \in Known /\ cur_tcb \in Tcbs
  BY <1>0, LiveTasks, ConstantsTyped DEF Known, RunningInPlace
<1>2. holds_lock[cur_tcb] > 0
  BY <1>0, <1>1, HeldCount DEF CountersInPlace
<1> QED
  BY <1>0, <1>1, <1>2 DEF CountersInPlace

\* No task is in two places of the devices' queues.
LEMMA DistinctSleepers ==
  ASSUME SleepersInPlace, NEW d \in DevQueues, NEW e \in DevQueues,
         NEW i \in DOMAIN dev_queue[d], NEW j \in DOMAIN dev_queue[e],
         dev_queue[d][i] = dev_queue[e][j]
  PROVE  d = e /\ i = j
PROOF
  BY DEF SleepersInPlace

\* The list a switch is made from: every slot holds its own task or none.
ListInPlace(list) ==
  /\ list \in [Prios -> Tcbs \cup {NULL}]
  /\ list[IDLE_PRIO] = IDLE_PRIO
  /\ \A p \in Prios \ {IDLE_PRIO} : list[p] # NULL => list[p] = p /\ p \in Live

\* A switch takes the task of the first occupied slot, and there is one.
LEMMA SwitchInPlace ==
  ASSUME TypeOK, NEW list, ListInPlace(list), SwitchToHighest(list), num_tasks' = num_tasks
  PROVE  /\ cur_tcb' \in Known
         /\ list[cur_tcb'] = cur_tcb'
         /\ \A p \in Prios : list[p] # NULL => cur_tcb' <= p
         /\ ~irq'
         /\ \A p \in Prios : run_list'[p] =
              IF p = cur_tcb' /\ p # IDLE_PRIO THEN NULL ELSE list[p]
         /\ SlotsInPlace(run_list, cur_tcb)'
PROOF
<1> DEFINE p0 == HighestPrio(list)
<1> USE ConstantsTyped
<1>1. DOMAIN list = Prios /\ Prios \subseteq Nat /\ IDLE_PRIO # NULL
  BY KernelAssumption DEF ListInPlace, Prios, NULL
<1>2. Occupied(list) # {}
  BY <1>1 DEF Occupied, ListInPlace
<1>3. p0 \in Prios /\ list[p0] # NULL /\ \A p \in Prios : list[p] # NULL => p0 <= p
  BY <1>1, <1>2, HighestPrioLeast
<1> HIDE DEF p0
<1>4. list[p0] = p0 /\ p0 \in Known
  BY <1>3 DEF ListInPlace, Known
<1>5. cur_tcb' = p0 /\ ~irq' /\ run_list' = Take(list, p0, IDLE_PRIO)
  BY <1>4 DEF SwitchToHighest, p0
<1>6. \A p \in Prios : run_list'[p] = IF p = p0 /\ p # IDLE_PRIO THEN NULL ELSE list[p]
  BY <1>1, <1>3, <1>5 DEF Take
<1>7. SlotsInPlace(run_list, cur_tcb)'
  BY <1>5, <1>6 DEF SlotsInPlace, ListInPlace, Live
<1> QED
  BY <1>3, <1>4, <1>5, <1>6, <1>7

\* dev_update puts every sleeper of the due devices into its own slot.
LEMMA WakeInPlace ==
  ASSUME InPlace, NEW due \in SUBSET Devices, NEW p \in Prios
  PROVE  WakeAll(due)[p] =
           IF \E d \in due : \E i \in DOMAIN dev_queue[d] : dev_queue[d][i] = p
           THEN p ELSE run_list[p]
PROOF
<1> DEFINE here == {s \in Sleeping(due) : cur_prio[TaskOf(s)] = p}
<1>0. TypeOK /\ SleepersInPlace /\ Devices \subseteq DevQueues
  BY ConstantsTyped DEF InPlace
<1>1. \A s \in Sleeping(due) : cur_prio[TaskOf(s)] = TaskOf(s)
  <2> TAKE s \in Sleeping(due)
  <2>1. PICK d \in due : s \in {d} \X DOMAIN dev_queue[d]
    BY DEF Sleeping
  <2>2. TaskOf(s) \in Live /\ TaskOf(s) # cur_tcb
    BY <1>0, <2>1 DEF SleepersInPlace, TaskOf
  <2>3. Created
    BY <1>0, <2>2 DEF Live, Created, TypeOK
  <2> QED BY <2>2, <2>3, OwnPriority DEF Known
<1>2. CASE \E d \in due : \E i \in DOMAIN dev_queue[d] : dev_queue[d][i] = p
  <2>1. PICK d \in due : \E i \in DOMAIN dev_queue[d] : dev_queue[d][i] = p
    BY <1>2
  <2>2. PICK i \in DOMAIN dev_queue[d] : dev_queue[d][i] = p
    BY <2>1
  <2>3. <<d, i>> \in Sleeping(due) /\ TaskOf(<<d, i>>) = p
    BY <2>2 DEF Sleeping, TaskOf
  <2>4. <<d, i>> \in here
    BY <1>1, <2>3
  <2>5. LastOf(here) \in here
    BY <1>0, <2>4, LastIsOne
  <2>6. TaskOf(LastOf(here)) = p
    BY <1>1, <2>5
  <2> QED BY <1>2, <2>4, <2>6 DEF WakeAll
<1>3. CASE ~ \E d \in due : \E i \in DOMAIN dev_queue[d] : dev_queue[d][i] = p
  <2>1. here = {}
    <3> SUFFICES ASSUME NEW s \in Sleeping(due), TaskOf(s) = p PROVE FALSE
      BY <1>1
    <3>1. PICK d \in due : s \in {d} \X DOMAIN dev_queue[d]
      BY DEF Sleeping
    <3> QED BY <1>3, <3>1 DEF TaskOf
  <2> QED BY <1>3, <2>1 DEF WakeAll
<1> QED BY <1>2, <1>3

\* The list it makes: every slot holds its own task, never the running one.
LEMMA WakeSlots ==
  ASSUME InPlace, Created, NEW due \in SUBSET Devices
  PROVE  SlotsInPlace(WakeAll(due), cur_tcb)
PROOF
<1> DEFINE list == WakeAll(due)
<1> USE ConstantsTyped
<1>1. TypeOK /\ SleepersInPlace /\ SlotsInPlace(run_list, cur_tcb)
  BY DEF InPlace, ReadyInPlace
<1>2. \A p \in Prios : list[p] =
        IF \E d \in due : \E i \in DOMAIN dev_queue[d] : dev_queue[d][i] = p
        THEN p ELSE run_list[p]
  BY WakeInPlace
<1> HIDE DEF list
<1>3. \A d \in due : \A i \in DOMAIN dev_queue[d] :
        dev_queue[d][i] \in Live /\ dev_queue[d][i] # cur_tcb
  BY <1>1 DEF SleepersInPlace
<1>4. IDLE_PRIO \notin Live /\ IDLE_PRIO \in Prios
  BY <1>1, LiveTasks, KernelAssumption DEF Prios
<1>5. list[IDLE_PRIO] = IDLE_PRIO
  BY <1>1, <1>2, <1>4 DEF SlotsInPlace
<1>6. ASSUME NEW p \in Prios \ {IDLE_PRIO}, list[p] # NULL
      PROVE  list[p] = p /\ p \in Live /\ p # cur_tcb
  <2>1. CASE \E d \in due : \E i \in DOMAIN dev_queue[d] : dev_queue[d][i] = p
    BY <1>2, <1>3, <2>1
  <2>2. CASE ~ \E d \in due : \E i \in DOMAIN dev_queue[d] : dev_queue[d][i] = p
    <3>1. list[p] = run_list[p]
      BY <1>2, <2>2
    <3> QED BY <1>1, <1>6, <3>1 DEF SlotsInPlace
  <2> QED BY <2>1, <2>2
<1>7. SlotsInPlace(list, cur_tcb)
  BY <1>5, <1>6 DEF SlotsInPlace
<1> QED BY <1>7 DEF list

-----------------------------------------------------------------------------
(* Steps *)

LEMMA InitInPlace == Init => InPlace
PROOF
<1> SUFFICES ASSUME Init PROVE InPlace
  OBVIOUS
<1>1. TypeOK
  BY InitType
<1>2. RunningInPlace
  BY DEF Init, RunningInPlace, Created, NULL
<1>3. HoldersInPlace
  BY DEF Init, HoldersInPlace
<1>4. CountersInPlace
  <2>1. \A t \in Tcbs : Held(t) = {}
    BY ConstantsTyped DEF Init, Held
  <2> QED BY <2>1, HeldCount DEF Init, CountersInPlace, Created
<1>5. ReadyInPlace
  BY DEF Init, ReadyInPlace, Created
<1>6. Live = {}
  BY DEF Init, Live
<1>7. SleepersInPlace
  <2>1. \A d \in DevQueues : DOMAIN dev_queue[d] = {} /\ dev_queue[d] = <<>>
    BY EmptySeq DEF Init
  <2> QED BY <2>1, ConstantsTyped DEF SleepersInPlace
<1>8. NobodyMissing
  BY <1>6 DEF NobodyMissing
<1> QED
  BY <1>1, <1>2, <1>3, <1>4, <1>5, <1>7, <1>8 DEF InPlace

\* A step that leaves these alone keeps every queue in its place.
LEMMA QueuesUntouched ==
  ASSUME InPlace, UNCHANGED <<cur_tcb, run_list, dev_queue, num_tasks>>
  PROVE  ReadyInPlace' /\ SleepersInPlace' /\ NobodyMissing'
PROOF
  BY DEF InPlace, ReadyInPlace, SlotsInPlace, SleepersInPlace, NobodyMissing, Asleep, Live, Created

\* A step that leaves these alone keeps the mutexes and their counters in place.
LEMMA MutexesUntouched ==
  ASSUME InPlace, UNCHANGED <<tasks, bLock, pHolding_Tcb, mutex_queue, num_tasks>>
  PROVE  /\ CountersInPlace'
         /\ (\A m \in Mutexes : pHolding_Tcb[m] # NULL =>
               UNCHANGED <<cur_tcb, irq>> /\ pc'[cur_tcb] = "user") => HoldersInPlace'
PROOF
<1>1. \A t : Held(t)' = Held(t)
  BY DEF Held
<1> QED
  BY <1>1 DEF InPlace, CountersInPlace, HoldersInPlace, tasks, Created, Known, Live

\* No task finds a mutex locked: it holds it itself or it is free.
LEMMA MutexFree ==
  ASSUME InPlace, NEW m \in Mutexes, InUser, MayLock(m)
  PROVE  /\ ~bLock[m] /\ pHolding_Tcb[m] = NULL
         /\ InTask /\ cur_tcb \in Live
PROOF
<1>1. ~bLock[m] /\ pHolding_Tcb[m] = NULL
  BY DEF InPlace, HoldersInPlace, MayLock
<1>2. cur_tcb # NULL
  BY <1>1 DEF MayLock
<1>3. InTask
  BY <1>2 DEF InUser, InMain, Main
<1> QED
  BY <1>1, <1>3, RunningTask DEF InPlace, InTask, Known

LEMMA LockInPlace ==
  ASSUME InPlace, TypeOK', NEW m \in Mutexes, mutex_lock(m)
  PROVE  InPlace'
PROOF
<1>0. InTask /\ cur_tcb \in Live /\ pHolding_Tcb[m] = NULL /\ cur_tcb \in Tcbs /\ cur_tcb # NULL
  BY MutexFree, ConstantsTyped DEF mutex_lock, InTask
<1>1. TypeOK /\ RunningInPlace /\ HoldersInPlace /\ CountersInPlace
  BY DEF InPlace
<1>2. /\ bLock' = [bLock EXCEPT ![m] = TRUE]
      /\ pHolding_Tcb' = [pHolding_Tcb EXCEPT ![m] = cur_tcb]
      /\ holds_lock' = [holds_lock EXCEPT ![cur_tcb] = @ + 1]
      /\ cur_prio' = [cur_prio EXCEPT ![cur_tcb] = 0]
      /\ UNCHANGED <<bAvailable, mutex_queue, cur_tcb, run_list, irq, dev_queue, left, pc, arg,
                     num_tasks, created>>
  BY DEF mutex_lock, TakeMutex, sched, devices, places, creation
<1>3. RunningInPlace'
  BY <1>1, <1>2 DEF RunningInPlace, Created, Known, Live
<1>4. HoldersInPlace'
  BY <1>0, <1>1, <1>2 DEF HoldersInPlace, TypeOK, InTask
<1>5. CountersInPlace'
  <2>1. Held(cur_tcb)' = Held(cur_tcb) \cup {m} /\ m \notin Held(cur_tcb)
    BY <1>0, <1>1, <1>2 DEF Held, TypeOK
  <2>2. \A t \in Tcbs \ {cur_tcb} : Held(t)' = Held(t)
    <3>1. pHolding_Tcb \in [Mutexes -> Tcbs \cup {NULL}]
      BY <1>1 DEF TypeOK
    <3>2. \A k \in Mutexes : pHolding_Tcb'[k] = IF k = m THEN cur_tcb ELSE pHolding_Tcb[k]
      BY <1>2, <3>1
    <3> QED BY <1>0, <3>2, ConstantsTyped DEF Held
  <2>3. Cardinality(Held(cur_tcb)') = Cardinality(Held(cur_tcb)) + 1
    BY <2>1, HeldCount, FS_AddElement
  <2>4. holds_lock'[cur_tcb] = Cardinality(Held(cur_tcb)') /\ holds_lock'[cur_tcb] > 0
    BY <1>0, <1>1, <1>2, <2>3, HeldCount DEF CountersInPlace, TypeOK
  <2>5. \A t \in Tcbs : holds_lock'[t] = Cardinality(Held(t)')
    <3>1. \A t \in Tcbs \ {cur_tcb} : holds_lock'[t] = holds_lock[t]
      BY <1>1, <1>2 DEF TypeOK
    <3>2. \A t \in Tcbs : holds_lock[t] = Cardinality(Held(t))
      BY <1>1 DEF CountersInPlace
    <3>3. ASSUME NEW t \in Tcbs \ {cur_tcb} PROVE holds_lock'[t] = Cardinality(Held(t)')
      <4>1. Held(t)' = Held(t)
        BY <2>2
      <4>2. Cardinality(Held(t)') = Cardinality(Held(t))
        BY <4>1
      <4> QED BY <3>1, <3>2, <4>2
    <3>4. ASSUME NEW t \in Tcbs, t = cur_tcb PROVE holds_lock'[t] = Cardinality(Held(t)')
      <4>1. t = cur_tcb'
        BY <1>2, <3>4
      <4>2. Held(t)' = Held(cur_tcb)'
        BY <4>1 DEF Held
      <4> QED BY <2>4, <3>4, <4>2
    <3> QED BY <3>3, <3>4
  <2>6. \A t \in Known : /\ t # cur_tcb => cur_prio'[t] = cur_prio[t] /\ holds_lock'[t] = holds_lock[t]
                         /\ t = cur_tcb => cur_prio'[t] = 0
    BY <1>0, <1>1, <1>2, LiveTasks, ConstantsTyped DEF TypeOK, Known
  <2> QED
    BY <1>1, <1>2, <2>4, <2>5, <2>6 DEF CountersInPlace, Created, Known, Live
<1> QED
  BY <1>2, <1>3, <1>4, <1>5, QueuesUntouched DEF InPlace

LEMMA UnlockInPlace ==
  ASSUME InPlace, TypeOK', NEW m \in Mutexes, mutex_unlock(m)
  PROVE  InPlace'
PROOF
<1>1. TypeOK /\ RunningInPlace /\ HoldersInPlace /\ CountersInPlace
  BY DEF InPlace
<1>0. InTask /\ pHolding_Tcb[m] = cur_tcb /\ cur_tcb \in Live /\ cur_tcb \in Tcbs
  BY <1>1, RunningTask DEF mutex_unlock, ReleaseMutex, InTask, Known
<1>2. /\ bLock' = [bLock EXCEPT ![m] = FALSE]
      /\ pHolding_Tcb' = [pHolding_Tcb EXCEPT ![m] = NULL]
      /\ holds_lock' = [holds_lock EXCEPT ![cur_tcb] = @ - 1]
      /\ cur_prio' = [cur_prio EXCEPT ![cur_tcb] =
                        IF holds_lock[cur_tcb] = 1 THEN native_prio(cur_tcb) ELSE @]
      /\ UNCHANGED <<bAvailable, mutex_queue, cur_tcb, run_list, irq, dev_queue, left, pc, arg,
                     num_tasks, created>>
  BY DEF mutex_unlock, ReleaseMutex, sched, devices, places, creation
<1>3. RunningInPlace'
  BY <1>1, <1>2 DEF RunningInPlace, Created, Known, Live
<1>4. HoldersInPlace'
  BY <1>0, <1>1, <1>2 DEF HoldersInPlace, TypeOK
<1>5. CountersInPlace'
  <2>1. Held(cur_tcb)' = Held(cur_tcb) \ {m} /\ m \in Held(cur_tcb)
    BY <1>0, <1>1, <1>2, ConstantsTyped DEF Held, TypeOK
  <2>2. \A t \in Tcbs \ {cur_tcb} : Held(t)' = Held(t)
    <3>1. pHolding_Tcb \in [Mutexes -> Tcbs \cup {NULL}]
      BY <1>1 DEF TypeOK
    <3>2. \A k \in Mutexes : pHolding_Tcb'[k] = IF k = m THEN NULL ELSE pHolding_Tcb[k]
      BY <1>2, <3>1
    <3> QED BY <1>0, <3>2, ConstantsTyped DEF Held
  <2>3. Cardinality(Held(cur_tcb)') = Cardinality(Held(cur_tcb)) - 1
    BY <2>1, HeldCount, FS_RemoveElement
  <2>4. /\ holds_lock'[cur_tcb] = Cardinality(Held(cur_tcb)')
        /\ holds_lock'[cur_tcb] = holds_lock[cur_tcb] - 1
        /\ holds_lock[cur_tcb] \in Nat \ {0}
    BY <1>0, <1>1, <1>2, <2>1, <2>3, HeldCount DEF CountersInPlace, TypeOK
  <2>5. \A t \in Tcbs : holds_lock'[t] = Cardinality(Held(t)')
    <3>1. \A t \in Tcbs \ {cur_tcb} : holds_lock'[t] = holds_lock[t]
      BY <1>1, <1>2 DEF TypeOK
    <3>2. \A t \in Tcbs : holds_lock[t] = Cardinality(Held(t))
      BY <1>1 DEF CountersInPlace
    <3>3. ASSUME NEW t \in Tcbs \ {cur_tcb} PROVE holds_lock'[t] = Cardinality(Held(t)')
      <4>1. Held(t)' = Held(t)
        BY <2>2
      <4>2. Cardinality(Held(t)') = Cardinality(Held(t))
        BY <4>1
      <4> QED BY <3>1, <3>2, <4>2
    <3>4. ASSUME NEW t \in Tcbs, t = cur_tcb PROVE holds_lock'[t] = Cardinality(Held(t)')
      <4>1. t = cur_tcb'
        BY <1>2, <3>4
      <4>2. Held(t)' = Held(cur_tcb)'
        BY <4>1 DEF Held
      <4> QED BY <2>4, <3>4, <4>2
    <3> QED BY <3>3, <3>4
  <2>6. Created /\ cur_prio[cur_tcb] = 0
    BY <1>0, <1>1, <2>1, HolderPriority, RunningTask
  <2>7. cur_prio'[cur_tcb] = IF holds_lock'[cur_tcb] > 0 THEN 0 ELSE native_prio(cur_tcb)
    BY <1>0, <1>1, <1>2, <2>4, <2>6 DEF TypeOK
  <2>8. \A t \in Known \ {cur_tcb} : cur_prio'[t] = cur_prio[t] /\ holds_lock'[t] = holds_lock[t]
    BY <1>0, <1>1, <1>2, LiveTasks, ConstantsTyped DEF TypeOK, Known
  <2> QED
    BY <1>1, <1>2, <2>5, <2>7, <2>8 DEF CountersInPlace, Created, Known, Live, native_prio
<1> QED
  BY <1>2, <1>3, <1>4, <1>5, QueuesUntouched DEF InPlace

LEMMA EventWaitInPlace ==
  ASSUME InPlace, TypeOK', NEW d \in DevQueues, event_wait(d)
  PROVE  InPlace'
PROOF
<1>1. TypeOK /\ RunningInPlace /\ HoldersInPlace /\ CountersInPlace
  BY DEF InPlace
<1>2. /\ pc' = [pc EXCEPT ![cur_tcb] = "checked"]
      /\ arg' = [arg EXCEPT ![cur_tcb] = d]
      /\ UNCHANGED <<cur_tcb, run_list, irq, tasks, bLock, pHolding_Tcb, mutex_queue, dev_queue,
                     num_tasks>>
  BY DEF event_wait, At, sched, mutexes, devices, creation
<1>3. cur_tcb \in Tcbs \ {IDLE_PRIO} /\ irq /\ ~(holds_lock[cur_tcb] > 0) /\ pc[cur_tcb] = "user"
  BY DEF event_wait, InTask
<1>5. Held(cur_tcb) = {}
  BY <1>1, <1>3, HeldCount DEF CountersInPlace
<1>6. RunningInPlace'
  BY <1>1, <1>2, <1>3 DEF RunningInPlace, Created, Known, Live, TypeOK
<1>7. HoldersInPlace'
  BY <1>1, <1>2, <1>5 DEF HoldersInPlace, Held
<1> QED
  BY <1>2, <1>6, <1>7, QueuesUntouched, MutexesUntouched DEF InPlace

LEMMA LeaveInPlace ==
  ASSUME InPlace, TypeOK', NEW S, NEW place, LeaveKernel(S, place),
         \/ place = "user"
         \/ place \in {"checked", "nosave"} /\ S = {place}
  PROVE  InPlace'
PROOF
<1>1. TypeOK /\ RunningInPlace /\ HoldersInPlace
  BY DEF InPlace
<1>2. /\ pc' = [pc EXCEPT ![cur_tcb] = place]
      /\ irq'
      /\ UNCHANGED <<cur_tcb, run_list, tasks, bLock, pHolding_Tcb, mutex_queue, dev_queue, arg,
                     num_tasks>>
  BY DEF LeaveKernel, At, mutexes, devices, creation
<1>3. ~irq /\ cur_tcb \in Tcbs /\ pc[cur_tcb] \in S
  BY DEF LeaveKernel
<1>4. place # "nosave"
  BY <1>1, <1>3 DEF RunningInPlace
<1>5. RunningInPlace'
  BY <1>1, <1>2, <1>3, <1>4 DEF RunningInPlace, Created, Known, Live, TypeOK
<1>6. HoldersInPlace'
  BY <1>1, <1>2, <1>3 DEF HoldersInPlace
<1> QED
  BY <1>2, <1>5, <1>6, QueuesUntouched, MutexesUntouched DEF InPlace

LEMMA CreateInPlace ==
  ASSUME InPlace, TypeOK', NEW n \in 1 .. IDLE_PRIO - 1, CreatePlain(n),
         ~(InTask /\ holds_lock[cur_tcb] > 0)
  PROVE  InPlace'
PROOF
<1> DEFINE fresh == 1 .. n \cup {IDLE_PRIO}
<1> USE ConstantsTyped
<1>1. TypeOK /\ RunningInPlace /\ HoldersInPlace /\ CountersInPlace /\ SleepersInPlace
  BY DEF InPlace
<1>2. /\ InUser
      /\ InTask => ~(holds_lock[cur_tcb] > 0)
      /\ dev_queue' = [d \in DevQueues |-> IF d \in Devices THEN <<>> ELSE dev_queue[d]]
      /\ dev_queue[NumDevices] = <<>>
      /\ run_list' = [p \in Prios |-> IF p \in fresh THEN p ELSE NULL]
      /\ cur_prio' = [t \in Tcbs |-> IF t \in fresh THEN native_prio(t) ELSE cur_prio[t]]
      /\ holds_lock' = [t \in Tcbs |-> IF t \in fresh THEN 0 ELSE holds_lock[t]]
      /\ pc' = [t \in Tcbs |-> IF t = IDLE_PRIO THEN "nosave"
                               ELSE IF t \in fresh THEN "launch" ELSE pc[t]]
      /\ cur_tcb' = IDLE_PRIO
      /\ num_tasks' = n
      /\ irq /\ irq'
      /\ UNCHANGED <<bLock, pHolding_Tcb, mutex_queue, arg>>
  BY DEF CreatePlain, ResetDevices, ResetQueues, KeptQueuesEmpty, mutexes, InUser, InMain, InTask
<1>3. fresh \subseteq Tcbs /\ n \in Nat /\ n > 0 /\ Live' = 1 .. n /\ Known' = fresh /\ Created'
  BY <1>2, KernelAssumption DEF Tcbs, Live, Known, Created
\* Nobody holds a mutex: only the caller could, and it does not.
<1>4. \A m \in Mutexes : pHolding_Tcb[m] = NULL
  <2>1. CASE InTask
    <3>1. cur_tcb \in Tcbs /\ Held(cur_tcb) = {}
      <4>1. cur_tcb \in Tcbs /\ ~(holds_lock[cur_tcb] > 0)
        BY <1>2, <2>1 DEF InTask
      <4>2. holds_lock[cur_tcb] = Cardinality(Held(cur_tcb))
        BY <1>1, <4>1 DEF CountersInPlace
      <4>3. Cardinality(Held(cur_tcb)) \in Nat /\ ~(Cardinality(Held(cur_tcb)) > 0)
        BY <4>1, <4>2, HeldCount
      <4>4. Cardinality(Held(cur_tcb)) = 0
        BY <4>3
      <4> QED BY <4>1, <4>4, HeldCount
    <3> QED BY <1>1, <3>1 DEF HoldersInPlace, Held
  <2>2. CASE ~InTask
    BY <1>1, <1>2, <2>2 DEF HoldersInPlace, InUser, InMain, Main
  <2> QED BY <2>1, <2>2
<1>5. \A d \in DevQueues : dev_queue'[d] = <<>> /\ DOMAIN dev_queue'[d] = {}
  <2>1. \A d \in DevQueues : d \in Devices \/ d = NumDevices
    BY KernelAssumption DEF DevQueues, Devices
  <2> QED BY <1>2, <2>1, EmptySeq
<1>6. RunningInPlace'
  <2>1. \A t \in Tcbs : t = IDLE_PRIO \/ (pc'[t] = "launch") \/ (pc'[t] = pc[t] /\ t \notin fresh)
    BY <1>2
  <2>2. \A t \in Tcbs \ {IDLE_PRIO} : pc[t] # "nosave"
    BY <1>1 DEF RunningInPlace
  <2>3. IDLE_PRIO # NULL
    OBVIOUS
  <2> QED
    BY <1>1, <1>2, <1>3, <1>5, <2>1, <2>2, <2>3 DEF RunningInPlace, Known
<1>7. HoldersInPlace'
  BY <1>1, <1>2, <1>4 DEF HoldersInPlace
<1>8. CountersInPlace'
  <2>1. \A t \in Tcbs : Held(t)' = {} /\ Held(t) = {}
    BY <1>2, <1>4 DEF Held
  <2>2. \A t \in Tcbs : holds_lock'[t] = 0
    BY <1>1, <1>2, <2>1, HeldCount DEF CountersInPlace
  <2>3. \A t \in Tcbs : Cardinality(Held(t)') = 0
    BY <2>1, FS_EmptySet
  <2>4. \A t \in fresh : cur_prio'[t] = native_prio(t)
    BY <1>2, <1>3
  <2> QED BY <1>3, <2>2, <2>3, <2>4 DEF CountersInPlace, native_prio
<1>9. ReadyInPlace'
  BY <1>2, <1>3 DEF ReadyInPlace, SlotsInPlace
<1>10. SleepersInPlace'
  BY <1>5 DEF SleepersInPlace
<1>11. NobodyMissing'
  BY <1>2, <1>3 DEF NobodyMissing
<1> QED
  BY <1>6, <1>7, <1>8, <1>9, <1>10, <1>11 DEF InPlace

LEMMA UnschedulableInPlace ==
  ASSUME InPlace, TypeOK', task_create_unschedulable, InMain
  PROVE  InPlace'
PROOF
<1> USE ConstantsTyped
<1>1. TypeOK /\ RunningInPlace /\ HoldersInPlace /\ SleepersInPlace
  BY DEF InPlace
<1>2. /\ InMain
      /\ dev_queue' = [d \in DevQueues |-> IF d \in Devices THEN <<>> ELSE dev_queue[d]]
      /\ run_list' = [p \in Prios |-> NULL]
      /\ UNCHANGED <<cur_tcb, irq, tasks, bLock, pHolding_Tcb, mutex_queue, pc, arg, num_tasks>>
  BY DEF task_create_unschedulable, ResetDevices, ResetQueues, mutexes, places, creation
<1>3. ~Created /\ Live = {} /\ Live' = {} /\ ~Created'
  BY <1>2 DEF InMain, Main, Created, Live
\* There is no task that could sleep.
<1>4. \A d \in DevQueues : dev_queue'[d] = <<>> /\ DOMAIN dev_queue'[d] = {}
  <2>1. \A d \in DevQueues : d \in Devices \/ d = NumDevices
    BY KernelAssumption DEF DevQueues, Devices
  <2>2. \A d \in DevQueues : DOMAIN dev_queue[d] = {}
    BY <1>1, <1>3 DEF SleepersInPlace
  <2>3. \A d \in DevQueues : dev_queue[d] \in Seq(Tcbs)
    BY <1>1 DEF TypeOK
  <2>4. \A d \in DevQueues : dev_queue[d] = <<>>
    BY <2>2, <2>3, NoDomain
  <2> QED BY <1>2, <2>1, <2>4, EmptySeq
<1>5. RunningInPlace'
  BY <1>1, <1>2, <1>3, <1>4 DEF RunningInPlace
<1>6. HoldersInPlace'
  BY <1>1, <1>2 DEF HoldersInPlace
<1>7. CountersInPlace'
  BY <1>2, MutexesUntouched
<1> QED
  BY <1>2, <1>3, <1>4, <1>5, <1>6, <1>7
  DEF InPlace, ReadyInPlace, SleepersInPlace, NobodyMissing

LEMMA NosaveInPlace ==
  ASSUME InPlace, TypeOK', dispatch_nosave
  PROVE  InPlace'
PROOF
<1> USE ConstantsTyped
<1>1. /\ TypeOK /\ RunningInPlace /\ HoldersInPlace /\ CountersInPlace /\ ReadyInPlace
      /\ SleepersInPlace /\ NobodyMissing
  BY DEF InPlace
<1>2. /\ irq /\ cur_tcb = IDLE_PRIO /\ pc[IDLE_PRIO] = "nosave" /\ SwitchToHighest(run_list)
      /\ pc' = [pc EXCEPT ![IDLE_PRIO] = "launch"]
      /\ UNCHANGED <<tasks, bLock, pHolding_Tcb, mutex_queue, dev_queue, arg, num_tasks>>
  BY DEF dispatch_nosave, At, mutexes, devices, creation
<1>3. Created /\ Created' /\ Live' = Live /\ Known' = Known
  BY <1>1, <1>2 DEF RunningInPlace, Created, Live, Known
<1>4. \A d \in DevQueues : dev_queue'[d] = <<>> /\ DOMAIN dev_queue'[d] = {}
  BY <1>1, <1>2, EmptySeq DEF RunningInPlace
<1>5. ListInPlace(run_list)
  BY <1>1, <1>3 DEF ListInPlace, ReadyInPlace, SlotsInPlace, TypeOK
<1>6. /\ cur_tcb' \in Known /\ ~irq'
      /\ \A p \in Prios : run_list'[p] = IF p = cur_tcb' /\ p # IDLE_PRIO THEN NULL ELSE run_list[p]
      /\ SlotsInPlace(run_list, cur_tcb)'
  BY <1>1, <1>2, <1>5, SwitchInPlace
<1>7. RunningInPlace'
  <2>1. cur_tcb' # NULL
    BY <1>1, <1>6, LiveTasks DEF Known
  <2> QED BY <1>1, <1>2, <1>3, <1>6, <2>1 DEF RunningInPlace, TypeOK
<1>8. \A m \in Mutexes : pHolding_Tcb[m] = NULL
  BY <1>1, <1>2 DEF HoldersInPlace
<1>9. HoldersInPlace'
  BY <1>1, <1>2, <1>8 DEF HoldersInPlace
<1>10. CountersInPlace'
  BY <1>2, MutexesUntouched
<1>11. ReadyInPlace'
  BY <1>3, <1>6 DEF ReadyInPlace
<1>12. SleepersInPlace'
  BY <1>4 DEF SleepersInPlace
<1>13. NobodyMissing'
  <2>1. \A t \in Live : run_list[t] = t
    <3>1. \A t \in Live : ~Asleep(t) /\ t # cur_tcb
      BY <1>1, <1>2, <1>4, LiveTasks DEF Asleep
    <3> QED BY <1>1, <3>1 DEF NobodyMissing
  <2> QED BY <1>1, <1>3, <1>6, <2>1, LiveTasks DEF NobodyMissing
<1> QED
  BY <1>7, <1>9, <1>10, <1>11, <1>12, <1>13 DEF InPlace

LEMMA DevWaitInPlace ==
  ASSUME InPlace, TypeOK', DevWaitPlain
  PROVE  InPlace'
PROOF
<1> USE ConstantsTyped
<1>1. /\ TypeOK /\ RunningInPlace /\ HoldersInPlace /\ CountersInPlace /\ ReadyInPlace
      /\ SleepersInPlace /\ NobodyMissing
  BY DEF InPlace
<1> DEFINE c == cur_tcb
           dev == arg[cur_tcb]
           old == dev_queue[dev]
<1>2. /\ irq /\ c \in Tcbs /\ pc[c] = "checked" /\ SwitchToHighest(run_list)
      /\ dev_queue' = [dev_queue EXCEPT ![dev] = Append(old, c)]
      /\ pc' = [pc EXCEPT ![c] = "dev_wait"]
      /\ UNCHANGED <<tasks, bLock, pHolding_Tcb, mutex_queue, arg, num_tasks>>
  BY DEF DevWaitPlain, dispatch_sleep, At, mutexes, creation
<1>3. /\ Created /\ Created' /\ Live' = Live /\ Known' = Known
      /\ c \in Live /\ dev \in DevQueues
  <2>1. dev \in DevQueues /\ c # IDLE_PRIO
    BY <1>1, <1>2 DEF RunningInPlace
  <2>2. Created /\ c \in Known
    BY <1>1, <1>2, RunningTask
  <2> QED BY <1>2, <2>1, <2>2 DEF Created, Live, Known
<1>4. ListInPlace(run_list) /\ run_list[c] = NULL
  BY <1>1, <1>2, <1>3, LiveTasks DEF ListInPlace, ReadyInPlace, SlotsInPlace, TypeOK
<1>5. /\ cur_tcb' \in Known /\ ~irq' /\ run_list[cur_tcb'] = cur_tcb'
      /\ \A p \in Prios : run_list'[p] = IF p = cur_tcb' /\ p # IDLE_PRIO THEN NULL ELSE run_list[p]
      /\ SlotsInPlace(run_list, cur_tcb)'
  BY <1>1, <1>2, <1>4, SwitchInPlace
<1>6. cur_tcb' # NULL /\ cur_tcb' # c /\ cur_tcb' \in Tcbs
  BY <1>1, <1>2, <1>4, <1>5, LiveTasks DEF Known
<1>7. /\ old \in Seq(Tcbs)
      /\ dev_queue'[dev] = Append(old, c)
      /\ DOMAIN dev_queue'[dev] = DOMAIN old \cup {Len(old) + 1}
      /\ Len(old) + 1 \notin DOMAIN old
      /\ dev_queue'[dev][Len(old) + 1] = c
      /\ \A i \in DOMAIN old : dev_queue'[dev][i] = old[i]
      /\ \A d \in DevQueues \ {dev} : dev_queue'[d] = dev_queue[d]
  <2>1. old \in Seq(Tcbs)
    BY <1>1, <1>3 DEF TypeOK
  <2>2. dev_queue'[dev] = Append(old, c) /\ \A d \in DevQueues \ {dev} : dev_queue'[d] = dev_queue[d]
    BY <1>1, <1>2, <1>3 DEF TypeOK
  <2>3. /\ Len(Append(old, c)) = Len(old) + 1
        /\ \A i \in 1 .. Len(old) : Append(old, c)[i] = old[i]
        /\ Append(old, c)[Len(old) + 1] = c
        /\ DOMAIN old = 1 .. Len(old) /\ Len(old) \in Nat
        /\ DOMAIN Append(old, c) = 1 .. Len(old) + 1
    BY <1>2, <2>1, AppendProperties
  <2> QED BY <2>1, <2>2, <2>3
<1> HIDE DEF c, dev, old
<1>8. \A d \in DevQueues : \A i \in DOMAIN dev_queue'[d] :
        \/ i \in DOMAIN dev_queue[d] /\ dev_queue'[d][i] = dev_queue[d][i]
        \/ d = dev /\ i = Len(old) + 1 /\ dev_queue'[d][i] = c
  BY <1>3, <1>7 DEF old
<1>9. RunningInPlace'
  <2>1. \A t \in Tcbs : pc[t] # "nosave"
    BY <1>1, <1>2 DEF RunningInPlace, c
  <2> QED BY <1>1, <1>2, <1>3, <1>5, <1>6, <2>1 DEF RunningInPlace, TypeOK
<1>10. \A m \in Mutexes : pHolding_Tcb[m] = NULL
  BY <1>1, <1>2 DEF HoldersInPlace, c
<1>11. HoldersInPlace'
  BY <1>1, <1>2, <1>10 DEF HoldersInPlace
<1>12. CountersInPlace'
  BY <1>2, MutexesUntouched
<1>13. ReadyInPlace'
  BY <1>3, <1>5 DEF ReadyInPlace
<1>14. SleepersInPlace'
  <2>2. \A d \in DevQueues : \A i \in DOMAIN dev_queue[d] :
          /\ dev_queue[d][i] \in Live /\ dev_queue[d][i] # c /\ run_list[dev_queue[d][i]] = NULL
    BY <1>1 DEF SleepersInPlace, c
  <2>3. \A d \in DevQueues : \A i \in DOMAIN dev_queue'[d] :
          /\ dev_queue'[d][i] \in Live
          /\ run_list[dev_queue'[d][i]] = NULL
    BY <1>3, <1>4, <1>8, <2>2
  <2>4. \A t \in Live : run_list[t] = NULL => t # cur_tcb' /\ run_list'[t] = NULL
    BY <1>1, <1>5, <1>6, LiveTasks
  <2>5. \A d, e \in DevQueues : \A i \in DOMAIN dev_queue'[d], j \in DOMAIN dev_queue'[e] :
          dev_queue'[d][i] = dev_queue'[e][j] => d = e /\ i = j
    <3> TAKE d, e \in DevQueues
    <3> TAKE i \in DOMAIN dev_queue'[d], j \in DOMAIN dev_queue'[e]
    <3> HAVE dev_queue'[d][i] = dev_queue'[e][j]
    <3>1. CASE i \in DOMAIN dev_queue[d] /\ dev_queue'[d][i] = dev_queue[d][i]
      <4>1. dev_queue'[e][j] # c
        BY <2>2, <3>1
      <4>2. j \in DOMAIN dev_queue[e] /\ dev_queue'[e][j] = dev_queue[e][j]
        BY <1>8, <4>1
      <4>3. dev_queue[d][i] = dev_queue[e][j]
        BY <3>1, <4>2
      <4> QED BY <1>1, <3>1, <4>2, <4>3, DistinctSleepers
    <3>2. CASE d = dev /\ i = Len(old) + 1 /\ dev_queue'[d][i] = c
      <4>1. ~(j \in DOMAIN dev_queue[e] /\ dev_queue'[e][j] = dev_queue[e][j])
        BY <2>2, <3>2
      <4>2. e = dev /\ j = Len(old) + 1
        BY <1>8, <4>1
      <4> QED BY <3>2, <4>2
    <3> QED BY <1>8, <3>1, <3>2
  <2> QED BY <1>3, <2>3, <2>4, <2>5 DEF SleepersInPlace
<1>15. NobodyMissing'
  <2>1. ASSUME NEW t \in Live PROVE t = cur_tcb' \/ run_list'[t] = t \/ Asleep(t)'
    <3>1. CASE t = c
      <4>1. Len(old) + 1 \in DOMAIN dev_queue'[dev] /\ dev_queue'[dev][Len(old) + 1] = t
        BY <1>7, <3>1
      <4> QED BY <1>3, <4>1 DEF Asleep
    <3>2. CASE Asleep(t)
      <4>1. PICK d \in DevQueues : \E i \in DOMAIN dev_queue[d] : dev_queue[d][i] = t
        BY <3>2 DEF Asleep
      <4>2. PICK i \in DOMAIN dev_queue[d] : dev_queue[d][i] = t
        BY <4>1
      <4>3. i \in DOMAIN dev_queue'[d] /\ dev_queue'[d][i] = t
        BY <1>7, <4>2 DEF old
      <4> QED BY <4>3 DEF Asleep
    <3>3. CASE run_list[t] = t
      BY <1>1, <1>5, <3>3, LiveTasks
    <3> QED BY <1>1, <3>1, <3>2, <3>3 DEF NobodyMissing, c
  <2> QED BY <1>3, <2>1 DEF NobodyMissing
<1> QED
  BY <1>9, <1>11, <1>12, <1>13, <1>14, <1>15 DEF InPlace

\* dispatch_save: when dev_update has made the list, either the running task goes
\* on with it, or joins it and the most urgent task leaves it.
LEMMA SaveInPlace ==
  ASSUME InPlace, Created, NEW list, list \in [Prios -> Tcbs \cup {NULL}],
         SlotsInPlace(list, cur_tcb), dispatch_save(list, cur_prio), num_tasks' = num_tasks
  PROVE  \/ /\ cur_tcb' = cur_tcb /\ run_list' = list /\ irq'
            /\ \A p \in Prios : list[p] # NULL => cur_prio[cur_tcb] <= p
         \/ /\ Held(cur_tcb) = {} /\ ~irq'
            /\ cur_tcb' \in Known /\ cur_tcb' # cur_tcb /\ list[cur_tcb'] = cur_tcb'
            /\ cur_tcb' < cur_tcb /\ \A p \in Prios : list[p] # NULL => cur_tcb' <= p
            /\ \A p \in Prios : run_list'[p] =
                 IF p = cur_tcb' /\ p # IDLE_PRIO THEN NULL
                 ELSE IF p = cur_tcb THEN cur_tcb ELSE list[p]
            /\ SlotsInPlace(run_list, cur_tcb)'
PROOF
<1> DEFINE c == cur_tcb
           put == Put(list, c, c)
<1> USE ConstantsTyped
<1>1. TypeOK /\ RunningInPlace /\ c \in Known /\ c \in Tcbs /\ c \in Prios /\ c \in Nat
  BY LiveTasks DEF InPlace, RunningInPlace, Known
<1>2. CASE ~(cur_prio[c] > HighestPrio(list))
  <2>1. DOMAIN list = Prios /\ Prios \subseteq Nat /\ IDLE_PRIO # NULL /\ Occupied(list) # {}
    BY KernelAssumption DEF Prios, NULL, Occupied, SlotsInPlace
  <2>2. /\ HighestPrio(list) \in Nat
        /\ \A p \in Prios : list[p] # NULL => HighestPrio(list) <= p
    BY <2>1, HighestPrioLeast
  <2>3. cur_prio[c] \in Nat
    BY <1>1, <2>1 DEF TypeOK
  <2>4. \A p \in Prios : list[p] # NULL => cur_prio[c] <= p
    BY <1>2, <2>1, <2>2, <2>3
  <2> QED BY <1>2, <2>4 DEF dispatch_save
<1>3. CASE cur_prio[c] > HighestPrio(list)
  <2>0. DOMAIN list = Prios /\ Prios \subseteq Nat /\ IDLE_PRIO # NULL /\ Occupied(list) # {}
    BY KernelAssumption DEF Prios, NULL, Occupied, SlotsInPlace
  <2>1. HighestPrio(list) \in Prios /\ list[HighestPrio(list)] # NULL
    BY <2>0, HighestPrioLeast
  <2>2. Held(c) = {}
    <3> SUFFICES ASSUME Held(c) # {} PROVE FALSE
      OBVIOUS
    <3>1. cur_prio[c] = 0
      BY HolderPriority
    <3>2. HighestPrio(list) \in Nat
      BY <2>0, <2>1
    <3> QED BY <1>3, <3>1, <3>2
  <2>3. cur_prio[c] = c
    BY <1>1, <2>2, OwnPriority
  <2>4. SwitchToHighest(put)
    BY <1>3, <2>3 DEF dispatch_save
  <2>5. \A p \in Prios : put[p] = IF p = c THEN c ELSE list[p]
    BY <1>1 DEF Put
  <2>6. ListInPlace(put)
    BY <1>1, <2>5 DEF ListInPlace, SlotsInPlace, Put, Known
  <2> HIDE DEF put, c
  <2>7. /\ cur_tcb' \in Known /\ put[cur_tcb'] = cur_tcb' /\ ~irq'
        /\ \A p \in Prios : put[p] # NULL => cur_tcb' <= p
        /\ \A p \in Prios : run_list'[p] = IF p = cur_tcb' /\ p # IDLE_PRIO THEN NULL ELSE put[p]
        /\ SlotsInPlace(run_list, cur_tcb)'
    BY <1>1, <2>4, <2>6, SwitchInPlace
  <2>8. cur_tcb' \in Tcbs /\ cur_tcb' \in Prios /\ cur_tcb' \in Nat
    BY <1>1, <2>7, LiveTasks DEF Known
  <2>9. cur_tcb' < c
    <3>1. HighestPrio(list) \in Nat /\ HighestPrio(list) < c
      BY <1>1, <1>3, <2>0, <2>1, <2>3
    <3>2. put[HighestPrio(list)] # NULL
      BY <1>1, <2>1, <2>5
    <3>3. cur_tcb' <= HighestPrio(list)
      BY <2>1, <2>7, <3>2
    <3> QED BY <1>1, <2>8, <3>1, <3>3
  <2>10. \A p \in Prios : list[p] # NULL => cur_tcb' <= p
    <3> SUFFICES ASSUME NEW p \in Prios, list[p] # NULL PROVE cur_tcb' <= p
      OBVIOUS
    <3>1. put[p] # NULL
      BY <1>1, <2>0, <2>5
    <3> QED BY <2>7, <3>1
  <2>11. cur_tcb' # c /\ list[cur_tcb'] = cur_tcb'
    BY <1>1, <2>5, <2>7, <2>8, <2>9
  <2> QED BY <2>2, <2>5, <2>7, <2>8, <2>9, <2>10, <2>11 DEF c
<1> QED BY <1>2, <1>3

LEMMA TickInPlace ==
  ASSUME InPlace, TypeOK', TickPlain
  PROVE  InPlace'
PROOF
<1> DEFINE due == {d \in Devices : left[d] <= 1}
           list == WakeAll(due)
<1> USE ConstantsTyped
<1>1. /\ TypeOK /\ RunningInPlace /\ HoldersInPlace /\ CountersInPlace /\ ReadyInPlace
      /\ SleepersInPlace /\ NobodyMissing
  BY DEF InPlace
<1>2. /\ irq
      /\ dev_queue' = [d \in DevQueues |-> IF d \in due THEN <<>> ELSE dev_queue[d]]
      /\ IF Sleeping(due) = {} THEN UNCHANGED sched ELSE dispatch_save(list, cur_prio)
      /\ UNCHANGED <<tasks, bLock, pHolding_Tcb, mutex_queue, pc, arg, num_tasks>>
  BY DEF TickPlain, mutexes, places, creation
<1>3. due \in SUBSET Devices
  OBVIOUS
<1> HIDE DEF due
<1>4. Live' = Live /\ Known' = Known /\ Created' = Created /\ CountersInPlace'
  BY <1>2, MutexesUntouched DEF Live, Known, Created
<1>5. CASE Sleeping(due) = {}
  <2>1. \A d \in due : dev_queue[d] = <<>>
    <3> TAKE d \in due
    <3>1. dev_queue[d] \in Seq(Tcbs)
      BY <1>1, <1>3 DEF TypeOK
    <3>2. ASSUME NEW i \in DOMAIN dev_queue[d] PROVE FALSE
      <4>1. <<d, i>> \in Sleeping(due)
        BY DEF Sleeping
      <4> QED BY <1>5, <4>1
    <3> QED BY <3>1, <3>2, NoDomain
  <2>2. dev_queue' = dev_queue
    BY <1>1, <1>2, <2>1 DEF TypeOK
  <2>3. UNCHANGED <<cur_tcb, run_list, irq>>
    BY <1>2, <1>5 DEF sched
  <2>4. RunningInPlace'
    BY <1>1, <1>2, <1>4, <2>2, <2>3 DEF RunningInPlace
  <2>5. HoldersInPlace'
    BY <1>1, <1>2, <2>3 DEF HoldersInPlace
  <2> QED BY <1>2, <1>4, <2>2, <2>3, <2>4, <2>5, QueuesUntouched DEF InPlace
<1>6. CASE Sleeping(due) # {}
  <2>1. PICK s \in Sleeping(due) : TRUE
    BY <1>6
  <2>2. PICK e \in due : s \in {e} \X DOMAIN dev_queue[e]
    BY <2>1 DEF Sleeping
  <2>3. s[2] \in DOMAIN dev_queue[e] /\ dev_queue[e] # <<>> /\ e \in DevQueues
    BY <1>3, <2>2, EmptySeq
  <2>4. Created
    <3>1. dev_queue[e][s[2]] \in Live
      BY <1>1, <2>3 DEF SleepersInPlace
    <3> QED BY <1>1, <3>1, SomeoneLive
  <2>5. \A t \in Tcbs : pc[t] # "nosave"
    BY <1>1, <2>3 DEF RunningInPlace
  <2>6. \A p \in Prios : list[p] =
          IF \E d \in due : \E i \in DOMAIN dev_queue[d] : dev_queue[d][i] = p
          THEN p ELSE run_list[p]
    BY <1>3, WakeInPlace
  <2>7. list \in [Prios -> Tcbs \cup {NULL}]
    BY <1>1, <1>3, WakeAllType
  <2> HIDE DEF list
  <2>8. SlotsInPlace(list, cur_tcb)
    BY <1>3, <2>4, WakeSlots DEF list
  \* Who sleeps on is where he was, and no slot has him.
  <2>9. \A d \in DevQueues : \A i \in DOMAIN dev_queue'[d] :
          /\ d \notin due /\ dev_queue'[d] = dev_queue[d]
          /\ dev_queue[d][i] \in Live /\ dev_queue[d][i] # cur_tcb
          /\ list[dev_queue[d][i]] = NULL
    <3> TAKE d \in DevQueues
    <3> TAKE i \in DOMAIN dev_queue'[d]
    <3>1. d \notin due /\ dev_queue'[d] = dev_queue[d]
      BY <1>2, EmptySeq
    <3>2. /\ dev_queue[d][i] \in Live /\ dev_queue[d][i] # cur_tcb
          /\ run_list[dev_queue[d][i]] = NULL
      BY <1>1, <3>1 DEF SleepersInPlace
    <3>3. ~ \E f \in due : \E j \in DOMAIN dev_queue[f] : dev_queue[f][j] = dev_queue[d][i]
      BY <1>1, <1>3, <3>1 DEF SleepersInPlace
    <3>4. dev_queue[d][i] \in Prios
      BY <1>1, <3>2, LiveTasks
    <3> QED BY <2>6, <3>1, <3>2, <3>3, <3>4
  <2>10. \A t \in Live : t = cur_tcb \/ list[t] = t \/ Asleep(t)'
    <3> TAKE t \in Live
    <3>1. t \in Prios
      BY <1>1, LiveTasks
    <3>2. CASE Asleep(t)
      <4>1. PICK d \in DevQueues : \E i \in DOMAIN dev_queue[d] : dev_queue[d][i] = t
        BY <3>2 DEF Asleep
      <4>2. CASE d \in due
        BY <2>6, <3>1, <4>1, <4>2
      <4>3. CASE d \notin due
        <5>1. dev_queue'[d] = dev_queue[d]
          BY <1>2, <4>3
        <5> QED BY <4>1, <5>1 DEF Asleep
      <4> QED BY <4>2, <4>3
    <3>3. CASE run_list[t] = t
      BY <2>6, <3>1, <3>3
    <3> QED BY <1>1, <3>2, <3>3 DEF NobodyMissing
  <2>11. \A d, f \in DevQueues : \A i \in DOMAIN dev_queue'[d], j \in DOMAIN dev_queue'[f] :
           dev_queue'[d][i] = dev_queue'[f][j] => d = f /\ i = j
    <3> TAKE d, f \in DevQueues
    <3> TAKE i \in DOMAIN dev_queue'[d], j \in DOMAIN dev_queue'[f]
    <3> HAVE dev_queue'[d][i] = dev_queue'[f][j]
    <3>1. /\ i \in DOMAIN dev_queue[d] /\ j \in DOMAIN dev_queue[f]
          /\ dev_queue[d][i] = dev_queue[f][j]
      BY <2>9
    <3> QED BY <1>1, <3>1, DistinctSleepers, Zenon
  <2>13. \/ cur_tcb' = cur_tcb /\ run_list' = list /\ irq'
         \/ /\ Held(cur_tcb) = {} /\ ~irq'
            /\ cur_tcb' \in Known /\ cur_tcb' # cur_tcb /\ list[cur_tcb'] = cur_tcb'
            /\ \A p \in Prios : run_list'[p] =
                 IF p = cur_tcb' /\ p # IDLE_PRIO THEN NULL
                 ELSE IF p = cur_tcb THEN cur_tcb ELSE list[p]
            /\ SlotsInPlace(run_list, cur_tcb)'
    BY <1>2, <1>6, <2>4, <2>7, <2>8, SaveInPlace
  <2>14. CASE cur_tcb' = cur_tcb /\ run_list' = list /\ irq'
    <3>1. RunningInPlace'
      BY <1>1, <1>2, <1>4, <2>5, <2>14 DEF RunningInPlace
    <3>2. HoldersInPlace'
      BY <1>1, <1>2, <2>14 DEF HoldersInPlace
    <3>3. ReadyInPlace'
      BY <1>4, <2>4, <2>8, <2>14 DEF ReadyInPlace, SlotsInPlace, Live
    <3>4. SleepersInPlace'
      BY <1>4, <2>9, <2>11, <2>14 DEF SleepersInPlace
    <3>5. NobodyMissing'
      BY <1>4, <2>10, <2>14 DEF NobodyMissing
    <3> QED BY <1>4, <3>1, <3>2, <3>3, <3>4, <3>5 DEF InPlace
  <2>15. CASE /\ Held(cur_tcb) = {} /\ ~irq'
              /\ cur_tcb' \in Known /\ cur_tcb' # cur_tcb /\ list[cur_tcb'] = cur_tcb'
              /\ \A p \in Prios : run_list'[p] =
                   IF p = cur_tcb' /\ p # IDLE_PRIO THEN NULL
                   ELSE IF p = cur_tcb THEN cur_tcb ELSE list[p]
              /\ SlotsInPlace(run_list, cur_tcb)'
    <3>0. cur_tcb' \in Tcbs
      BY <1>1, <2>15, LiveTasks DEF Known
    <3>1. RunningInPlace'
      BY <1>1, <1>2, <1>4, <2>4, <2>5, <2>15, <3>0 DEF RunningInPlace
    <3>2. HoldersInPlace'
      BY <1>1, <1>2, <2>15 DEF HoldersInPlace, Held
    <3>3. ReadyInPlace'
      BY <1>4, <2>4, <2>15 DEF ReadyInPlace
    <3>4. SleepersInPlace'
      <4>1. \A d \in DevQueues : \A i \in DOMAIN dev_queue'[d] :
              /\ dev_queue'[d][i] \in Live /\ dev_queue'[d][i] # cur_tcb'
              /\ run_list'[dev_queue'[d][i]] = NULL
        <5> TAKE d \in DevQueues
        <5> TAKE i \in DOMAIN dev_queue'[d]
        <5>0. dev_queue'[d] = dev_queue[d]
          BY <2>9
        <5>1. dev_queue'[d][i] \in Live /\ dev_queue'[d][i] # cur_tcb /\ list[dev_queue'[d][i]] = NULL
          BY <2>9, <5>0
        <5>2. dev_queue'[d][i] \in Prios
          BY <1>1, <5>1, LiveTasks
        <5> QED BY <2>15, <3>0, <5>1, <5>2
      <4> QED BY <1>4, <2>11, <4>1 DEF SleepersInPlace
    <3>5. NobodyMissing'
      <4>1. \A t \in Live : t \in Prios /\ t # IDLE_PRIO
        BY <1>1, LiveTasks
      <4> QED BY <1>4, <2>10, <2>15, <4>1 DEF NobodyMissing
    <3> QED BY <1>4, <3>1, <3>2, <3>3, <3>4, <3>5 DEF InPlace
  <2> QED BY <2>13, <2>14, <2>15
<1> QED BY <1>5, <1>6

LEMMA MutexCreateInPlace ==
  ASSUME InPlace, TypeOK', NEW m \in Mutexes, mutex_create(m)
  PROVE  InPlace'
PROOF
<1>1. UNCHANGED <<sched, tasks, bLock, pHolding_Tcb, mutex_queue, devices, places, creation>>
  BY DEF mutex_create
<1>2. RunningInPlace' /\ HoldersInPlace'
  BY <1>1 DEF InPlace, RunningInPlace, HoldersInPlace, sched, devices, places, creation,
              Created, Known, Live
<1> QED
  BY <1>1, <1>2, QueuesUntouched, MutexesUntouched DEF InPlace, sched, devices, creation

LEMMA StutterInPlace ==
  ASSUME InPlace, UNCHANGED vars
  PROVE  InPlace'
PROOF
<1>1. UNCHANGED <<cur_tcb, run_list, irq, cur_prio, holds_lock, bAvailable, bLock, pHolding_Tcb,
                  mutex_queue, dev_queue, left, pc, arg, num_tasks, created>>
  BY DEF vars, sched, tasks, mutexes, devices, places, creation
<1>2. TypeOK'
  BY <1>1 DEF InPlace, TypeOK
<1>3. RunningInPlace' /\ HoldersInPlace'
  BY <1>1 DEF InPlace, RunningInPlace, HoldersInPlace, Created, Known, Live
<1> QED
  BY <1>1, <1>2, <1>3, QueuesUntouched, MutexesUntouched DEF InPlace, tasks

-----------------------------------------------------------------------------
(* The steps of the intended use, as they are when every task is in its place *)

PlainIntended ==
  \/ \E m \in Mutexes : mutex_create(m) \/ mutex_lock(m) \/ mutex_unlock(m)
  \/ \E d \in DevQueues : event_wait(d)
  \/ \E n \in 1 .. IDLE_PRIO - 1 : CreatePlain(n) /\ ~(InTask /\ holds_lock[cur_tcb] > 0)
  \/ task_create_unschedulable /\ InMain
  \/ SyscallRefused
  \/ DevWaitPlain \/ dispatch_nosave \/ TickPlain \/ KernelExit

LEMMA InPlaceApart == InPlace => LinksApart /\ CheckedArg
PROOF
<1> SUFFICES ASSUME InPlace PROVE LinksApart /\ CheckedArg
  OBVIOUS
<1>1. /\ TypeOK /\ RunningInPlace /\ HoldersInPlace /\ SleepersInPlace
      /\ DOMAIN dev_queue = DevQueues /\ DOMAIN mutex_queue = Mutexes
  BY DEF InPlace, TypeOK
<1>2. \A t : ~Among(mutex_queue, t)
  BY <1>1, EmptySeq DEF HoldersInPlace, Among
<1>3. Distinct(mutex_queue)
  BY <1>1, EmptySeq DEF HoldersInPlace, Distinct
<1>4. Distinct(dev_queue) /\ ~Among(dev_queue, cur_tcb)
  BY <1>1 DEF SleepersInPlace, Distinct, Among
<1>5. CheckedArg
  BY <1>1 DEF RunningInPlace, CheckedArg
<1> QED BY <1>2, <1>3, <1>4, <1>5 DEF LinksApart

\* The path on which a task waits for a mutex is never taken.
LEMMA NobodyWaits ==
  ASSUME InPlace, NEW m \in Mutexes
  PROVE  ~mutex_lock_sleep(m) /\ ~mutex_lock_resume /\ ~mutex_unlock_wake(m)
PROOF
<1>1. ~mutex_lock_sleep(m)
  BY MutexFree DEF mutex_lock_sleep
<1>2. ~mutex_lock_resume
  BY DEF mutex_lock_resume, InPlace, RunningInPlace
<1>3. ~mutex_unlock_wake(m)
  BY DEF mutex_unlock_wake, InPlace, HoldersInPlace
<1> QED BY <1>1, <1>2, <1>3

LEMMA IntendedIsPlain ==
  ASSUME InPlace, [IntendedNext]_vars
  PROVE  [PlainIntended]_vars
PROOF
<1>1. TypeOK /\ LinksApart /\ CheckedArg
  BY InPlaceApart DEF InPlace
<1>3. ASSUME NEW n \in 1 .. IDLE_PRIO - 1, task_create(n), KeptQueuesEmpty PROVE CreatePlain(n)
  BY <1>1, <1>3, CreateIsPlain
<1>4. dev_wait => DevWaitPlain
  BY <1>1, DevWaitIsPlain
<1>5. timer_tick => TickPlain
  BY <1>1, TickIsPlain
<1> QED BY <1>3, <1>4, <1>5, NobodyWaits DEF IntendedNext, PlainIntended

LEMMA NextInPlace ==
  ASSUME InPlace, TypeOK', [PlainIntended]_vars
  PROVE  InPlace'
PROOF
<1>1. ASSUME NEW m \in Mutexes, mutex_create(m) PROVE InPlace'
  BY <1>1, MutexCreateInPlace
<1>2. ASSUME NEW m \in Mutexes, mutex_lock(m) PROVE InPlace'
  BY <1>2, LockInPlace
<1>3. ASSUME NEW m \in Mutexes, mutex_unlock(m) PROVE InPlace'
  BY <1>3, UnlockInPlace
<1>5. ASSUME NEW d \in DevQueues, event_wait(d) PROVE InPlace'
  BY <1>5, EventWaitInPlace
<1>6. ASSUME NEW n \in 1 .. IDLE_PRIO - 1, CreatePlain(n), ~(InTask /\ holds_lock[cur_tcb] > 0)
      PROVE  InPlace'
  BY <1>6, CreateInPlace
<1>7. CASE task_create_unschedulable /\ InMain
  BY <1>7, UnschedulableInPlace
<1>8. CASE DevWaitPlain
  BY <1>8, DevWaitInPlace
<1>9. CASE dispatch_nosave
  BY <1>9, NosaveInPlace
<1>10. CASE TickPlain
  BY <1>10, TickInPlace
<1>11. CASE launch_task
  BY <1>11, LeaveInPlace DEF launch_task
<1>12. CASE syscall_return
  BY <1>12, LeaveInPlace DEF syscall_return
<1>13. CASE irq_return
  <2>1. PICK place \in {"user", "checked", "nosave"} : LeaveKernel({place}, place)
    BY <1>13 DEF irq_return
  <2> QED BY <2>1, LeaveInPlace
<1>14. CASE mutex_lock_resume
  BY <1>14 DEF mutex_lock_resume, InPlace, RunningInPlace
<1>15. CASE SyscallRefused \/ UNCHANGED vars
  BY <1>15, StutterInPlace DEF SyscallRefused
<1> QED
  BY <1>1, <1>2, <1>3, <1>5, <1>6, <1>7, <1>8, <1>9, <1>10, <1>11, <1>12, <1>13, <1>14, <1>15
  DEF PlainIntended, KernelExit

LEMMA NextIsIntended ==
  ASSUME IntendedUse, InPlace, [Next]_vars
  PROVE  [PlainIntended]_vars
PROOF
<1>1. Next => IntendedNext
  BY DEF IntendedUse, IntendedNext, Next, Syscall, task_create, task_create_unschedulable, InUser
<1> QED BY <1>1, IntendedIsPlain

-----------------------------------------------------------------------------
(* Theorems, of the intended use: no task creates tasks while it holds a    *)
(* mutex or while tasks wait past the devices, and none creates a set that  *)
(* is refused as unschedulable.                                             *)

\* Every TCB, slot of the run list, sleep queue and mutex is in its place.
THEOREM AlwaysInPlace ==
  ASSUME IntendedUse
  PROVE  Spec => []InPlace
PROOF
<1>1. Init => InPlace /\ NoTaskYet
  BY InitInPlace, InitType
<1>3. InPlace /\ NoTaskYet /\ [Next]_vars => InPlace' /\ NoTaskYet'
  BY NextIsIntended, NextInPlace, NextType, NextNoTaskYet DEF InPlace
<1> QED BY <1>1, <1>3, PTL DEF Spec

\* Every created task but the running one is in exactly one slot of the run
\* list or one place of one sleep queue, and the running one is in none.
THEOREM TasksNeverLost ==
  ASSUME IntendedUse
  PROVE  Spec => []NoTaskLost
PROOF
<1>1. ASSUME InPlace PROVE NoTaskLost
  <2>1. /\ TypeOK /\ RunningInPlace /\ HoldersInPlace /\ ReadyInPlace
        /\ SleepersInPlace /\ NobodyMissing
    BY <1>1 DEF InPlace
  <2> SUFFICES ASSUME NEW t \in Live
               PROVE  Cardinality(Slots(t)) + Cardinality(InDevices(t)) + Cardinality(InMutexes(t)) =
                        IF t = cur_tcb THEN 0 ELSE 1
    BY DEF NoTaskLost
  <2>2. t \in Tcbs /\ t # IDLE_PRIO /\ t \in Prios /\ t # NULL /\ Created
    BY <2>1, LiveTasks, SomeoneLive, ConstantsTyped
  <2>3. SlotsInPlace(run_list, cur_tcb)
    BY <2>1, <2>2 DEF ReadyInPlace
  <2>4. Slots(t) = IF run_list[t] = t THEN {t} ELSE {}
    BY <2>2, <2>3 DEF Slots, SlotsInPlace
  <2>5. Cardinality(InMutexes(t)) = 0
    <3>1. \A m \in Mutexes : DOMAIN mutex_queue[m] = {}
      BY <2>1, EmptySeq DEF HoldersInPlace
    <3>2. InMutexes(t) = {}
      BY <3>1 DEF InMutexes
    <3> QED BY <3>2, FS_EmptySet
  <2>6. CASE Asleep(t)
    <3>1. PICK d \in DevQueues : \E i \in DOMAIN dev_queue[d] : dev_queue[d][i] = t
      BY <2>6 DEF Asleep
    <3>2. PICK i \in DOMAIN dev_queue[d] : dev_queue[d][i] = t
      BY <3>1
    <3>3. <<d, i>> \in InDevices(t)
      BY <3>2 DEF InDevices, TaskOf
    <3>4. ASSUME NEW s \in InDevices(t) PROVE s = <<d, i>>
      <4>1. PICK e \in DevQueues : s \in {e} \X DOMAIN dev_queue[e]
        BY DEF InDevices
      <4>2. s = <<e, s[2]>> /\ s[2] \in DOMAIN dev_queue[e] /\ dev_queue[e][s[2]] = t
        BY <4>1 DEF InDevices, TaskOf
      <4>3. e = d /\ s[2] = i
        BY <2>1, <3>2, <4>2 DEF SleepersInPlace
      <4> QED BY <4>2, <4>3
    <3>5. InDevices(t) = {<<d, i>>}
      BY <3>3, <3>4
    <3>6. t # cur_tcb /\ run_list[t] = NULL
      BY <2>1, <3>2 DEF SleepersInPlace
    <3>7. Slots(t) = {}
      BY <2>2, <2>4, <3>6
    <3>8. Cardinality(InDevices(t)) = 1
      BY <3>5, FS_Singleton
    <3>9. Cardinality(Slots(t)) = 0
      BY <3>7, FS_EmptySet
    <3> QED BY <2>5, <3>6, <3>8, <3>9
  <2>7. CASE ~Asleep(t)
    <3>1. InDevices(t) = {}
      <4> SUFFICES ASSUME NEW s \in InDevices(t) PROVE FALSE
        OBVIOUS
      <4>1. PICK e \in DevQueues : s \in {e} \X DOMAIN dev_queue[e]
        BY DEF InDevices
      <4>2. s[2] \in DOMAIN dev_queue[e] /\ dev_queue[e][s[2]] = t
        BY <4>1 DEF InDevices, TaskOf
      <4> QED BY <2>7, <4>2 DEF Asleep
    <3>2. CASE t = cur_tcb
      <4>1. Slots(t) = {}
        BY <2>2, <2>3, <2>4, <3>2 DEF SlotsInPlace
      <4> QED BY <2>5, <3>1, <3>2, <4>1, FS_EmptySet
    <3>3. CASE t # cur_tcb
      <4>1. Slots(t) = {t}
        BY <2>1, <2>4, <2>7, <3>3 DEF NobodyMissing
      <4>2. Cardinality(Slots(t)) = 1 /\ Cardinality(InDevices(t)) = 0
        BY <3>1, <4>1, FS_EmptySet, FS_Singleton
      <4> QED BY <2>5, <3>3, <4>2
    <3> QED BY <3>2, <3>3
  <2> QED BY <2>6, <2>7
<1> QED BY <1>1, AlwaysInPlace, PTL

\* Once there are tasks the idle task is in its slot, so that every switch
\* finds a task.
THEOREM IdleAlwaysReady ==
  ASSUME IntendedUse
  PROVE  Spec => []IdleReady
PROOF
<1>1. InPlace => IdleReady
  BY DEF InPlace, ReadyInPlace, SlotsInPlace, IdleReady, Created
<1> QED BY <1>1, AlwaysInPlace, PTL

\* A locked mutex is held by the running task, and no task waits for one:
\* mutex_lock is exclusive although it does not look at the mutex again.
THEOREM HolderAlwaysRuns ==
  ASSUME IntendedUse
  PROVE  Spec => []HolderRuns
PROOF
<1>1. InPlace => HolderRuns
  BY DEF InPlace, HoldersInPlace, HolderRuns
<1> QED BY <1>1, AlwaysInPlace, PTL

\* The counter of each task is the number of mutexes it holds, and its priority
\* is the ceiling exactly when the counter is positive.
THEOREM LocksAlwaysCounted ==
  ASSUME IntendedUse
  PROVE  Spec => []LocksCounted
PROOF
<1>1. ASSUME InPlace PROVE LocksCounted
  <2>1. \A t \in Live : t \in Tcbs /\ t \in Known /\ Created
    BY <1>1, LiveTasks DEF InPlace, Known, Live, Created, TypeOK
  <2> QED BY <1>1, <2>1 DEF InPlace, CountersInPlace, LocksCounted, Held
<1> QED BY <1>1, AlwaysInPlace, PTL

\* Between enable_interrupts and dispatch_nosave in task_create no device has a
\* sleeper, so that no tick overwrites the idle task's context.
THEOREM CreationAlwaysQuiet ==
  ASSUME IntendedUse
  PROVE  Spec => []CreationQuiet
PROOF
<1>1. InPlace => CreationQuiet
  <2>1. IDLE_PRIO \in Tcbs
    BY ConstantsTyped
  <2> QED BY <2>1, ConstantsTyped DEF InPlace, RunningInPlace, CreationQuiet
<1> QED BY <1>1, AlwaysInPlace, PTL

-----------------------------------------------------------------------------
(* What the steps do: a switch goes to the most urgent task, and no step but *)
(* the release of a task's last mutex leaves a more urgent one waiting.      *)


\* While the processor is in code with interrupts off, on the way to the task it
\* has been given to, no ready task is more urgent than that one.
SwitchedToHighest == ~irq => \A p \in Prios : run_list[p] # NULL => cur_tcb <= p

\* How a switch leaves the processor and the run list.
Switched == ~irq' /\ cur_tcb' \in Known /\ \A p \in Prios : run_list'[p] # NULL => cur_tcb' <= p

-----------------------------------------------------------------------------
(* Facts about one state *)

\* A task competes with a priority no less urgent than its own.
LEMMA PriorityAtMostOwn ==
  ASSUME InPlace, Created, NEW t \in Known
  PROVE  t \in Tcbs /\ t \in Nat /\ cur_prio[t] \in Nat /\ cur_prio[t] <= t
PROOF
<1>1. TypeOK /\ CountersInPlace
  BY DEF InPlace
<1>2. t \in Tcbs /\ t \in Nat
  BY <1>1, LiveTasks, ConstantsTyped DEF Known
<1>3. cur_prio[t] = 0 \/ cur_prio[t] = t
  BY <1>1 DEF CountersInPlace, native_prio
<1> QED BY <1>2, <1>3

\* The occupied slots of the run list.
LEMMA OccupiedSlots == ASSUME TypeOK PROVE Occupied(run_list) = {p \in Prios : run_list[p] # NULL}
PROOF
  BY DEF TypeOK, Occupied

-----------------------------------------------------------------------------
(* The steps that switch *)

LEMMA DevWaitSwitches ==
  ASSUME InPlace, DevWaitPlain
  PROVE  Switched /\ cur_tcb \in Tcbs /\ pc'[cur_tcb] = "dev_wait" /\ UNCHANGED <<tasks, creation>>
PROOF
<1> USE ConstantsTyped
<1>1. TypeOK /\ RunningInPlace /\ ReadyInPlace
  BY DEF InPlace
<1>2. /\ irq /\ cur_tcb \in Tcbs /\ SwitchToHighest(run_list)
      /\ pc' = [pc EXCEPT ![cur_tcb] = "dev_wait"] /\ UNCHANGED <<tasks, creation>>
  BY DEF DevWaitPlain, dispatch_sleep, At
<1>3. Created /\ num_tasks' = num_tasks
  BY <1>1, <1>2, RunningTask DEF creation
<1>4. ListInPlace(run_list)
  BY <1>1, <1>3 DEF ListInPlace, ReadyInPlace, SlotsInPlace, TypeOK
<1>5. /\ cur_tcb' \in Known /\ ~irq'
      /\ \A p \in Prios : run_list[p] # NULL => cur_tcb' <= p
      /\ \A p \in Prios : run_list'[p] = IF p = cur_tcb' /\ p # IDLE_PRIO THEN NULL ELSE run_list[p]
  BY <1>1, <1>2, <1>3, <1>4, SwitchInPlace
<1>6. \A p \in Prios : run_list'[p] # NULL => run_list[p] # NULL
  BY <1>5
<1> QED BY <1>1, <1>2, <1>5, <1>6 DEF Switched, TypeOK

LEMMA NosaveSwitches ==
  ASSUME InPlace, dispatch_nosave
  PROVE  Switched /\ cur_tcb \in Tcbs /\ pc[cur_tcb] = "nosave" /\ UNCHANGED <<tasks, creation>>
PROOF
<1> USE ConstantsTyped
<1>1. TypeOK /\ RunningInPlace /\ ReadyInPlace
  BY DEF InPlace
<1>2. /\ cur_tcb = IDLE_PRIO /\ pc[IDLE_PRIO] = "nosave" /\ SwitchToHighest(run_list)
      /\ UNCHANGED <<tasks, creation>>
  BY DEF dispatch_nosave
<1>3. Created /\ num_tasks' = num_tasks
  BY <1>1, <1>2 DEF creation, RunningInPlace
<1>4. ListInPlace(run_list)
  BY <1>1, <1>3 DEF ListInPlace, ReadyInPlace, SlotsInPlace, TypeOK
<1>5. /\ cur_tcb' \in Known /\ ~irq'
      /\ \A p \in Prios : run_list[p] # NULL => cur_tcb' <= p
      /\ \A p \in Prios : run_list'[p] = IF p = cur_tcb' /\ p # IDLE_PRIO THEN NULL ELSE run_list[p]
  BY <1>1, <1>2, <1>3, <1>4, SwitchInPlace
<1>6. \A p \in Prios : run_list'[p] # NULL => run_list[p] # NULL
  BY <1>5
<1> QED BY <1>2, <1>5, <1>6 DEF Switched

\* A tick changes nothing of who runs and who is ready, or adds to the list and
\* leaves the running task the most urgent, or switches to a more urgent one.
LEMMA TickSwitches ==
  ASSUME InPlace, TickPlain
  PROVE  /\ irq /\ UNCHANGED <<tasks, pc, creation>>
         /\ \/ UNCHANGED sched
            \/ /\ Created /\ cur_tcb' = cur_tcb /\ irq'
               /\ \A p \in Prios : run_list'[p] # NULL => cur_prio[cur_tcb] <= p
            \/ Created /\ Switched /\ Held(cur_tcb) = {} /\ cur_tcb' < cur_tcb
PROOF
<1> DEFINE due == {d \in Devices : left[d] <= 1}
           list == WakeAll(due)
<1> USE ConstantsTyped
<1>1. TypeOK /\ SleepersInPlace /\ RunningInPlace
  BY DEF InPlace
<1>2. /\ irq /\ UNCHANGED <<tasks, pc, creation>>
      /\ IF Sleeping(due) = {} THEN UNCHANGED sched ELSE dispatch_save(list, cur_prio)
  BY DEF TickPlain, places
<1>3. due \in SUBSET Devices
  OBVIOUS
<1> HIDE DEF due
<1>4. CASE Sleeping(due) = {}
  BY <1>2, <1>4
<1>5. CASE Sleeping(due) # {}
  <2>1. PICK s \in Sleeping(due) : TRUE
    BY <1>5
  <2>2. PICK e \in due : s \in {e} \X DOMAIN dev_queue[e]
    BY <2>1 DEF Sleeping
  <2>3. dev_queue[e][s[2]] \in Live
    BY <1>1, <1>3, <2>2 DEF SleepersInPlace
  <2>4. Created
    BY <1>1, <2>3, SomeoneLive
  <2>5. SlotsInPlace(list, cur_tcb)
    BY <1>3, <2>4, WakeSlots
  <2>6. list \in [Prios -> Tcbs \cup {NULL}]
    BY <1>1, <1>3, WakeAllType
  <2>7. dispatch_save(list, cur_prio) /\ num_tasks' = num_tasks
    BY <1>2, <1>5 DEF creation
  <2>8. cur_tcb \in Known /\ cur_tcb \in Nat
    BY <1>1, <2>4, PriorityAtMostOwn DEF RunningInPlace
  <2> HIDE DEF list
  <2>9. \/ /\ cur_tcb' = cur_tcb /\ run_list' = list /\ irq'
           /\ \A p \in Prios : list[p] # NULL => cur_prio[cur_tcb] <= p
        \/ /\ Held(cur_tcb) = {} /\ ~irq' /\ cur_tcb' \in Known /\ cur_tcb' < cur_tcb
           /\ \A p \in Prios : list[p] # NULL => cur_tcb' <= p
           /\ \A p \in Prios : run_list'[p] =
                IF p = cur_tcb' /\ p # IDLE_PRIO THEN NULL
                ELSE IF p = cur_tcb THEN cur_tcb ELSE list[p]
    BY <2>4, <2>5, <2>6, <2>7, SaveInPlace
  <2>10. CASE /\ Held(cur_tcb) = {} /\ ~irq' /\ cur_tcb' \in Known /\ cur_tcb' < cur_tcb
              /\ \A p \in Prios : list[p] # NULL => cur_tcb' <= p
              /\ \A p \in Prios : run_list'[p] =
                   IF p = cur_tcb' /\ p # IDLE_PRIO THEN NULL
                   ELSE IF p = cur_tcb THEN cur_tcb ELSE list[p]
    <3>1. cur_tcb' \in Nat
      BY <2>4, <2>10, PriorityAtMostOwn
    <3>2. ASSUME NEW p \in Prios, run_list'[p] # NULL PROVE cur_tcb' <= p
      <4>1. p = cur_tcb \/ list[p] # NULL
        BY <2>10, <3>2
      <4> QED BY <2>8, <2>10, <3>1, <4>1
    <3> QED BY <1>2, <2>4, <2>10, <3>2 DEF Switched
  <2> QED BY <1>2, <2>4, <2>9, <2>10
<1> QED BY <1>4, <1>5

-----------------------------------------------------------------------------
(* Steps that do not: all but these three and the creation of tasks leave    *)
(* the running task running.                                                 *)

LEMMA OthersStay ==
  ASSUME InPlace, [PlainIntended]_vars, cur_tcb \in Tcbs, created' = created
  PROVE  cur_tcb' = cur_tcb \/ DevWaitPlain \/ dispatch_nosave \/ TickPlain
PROOF
<1>1. TypeOK
  BY DEF InPlace
<1>2. \A m \in Mutexes : mutex_create(m) \/ mutex_lock(m) \/ mutex_unlock(m) => cur_tcb' = cur_tcb
  BY DEF mutex_create, mutex_lock, mutex_unlock, sched
<1>4. \A d \in DevQueues : event_wait(d) => cur_tcb' = cur_tcb
  BY DEF event_wait, sched
<1>5. ~ \E n \in 1 .. IDLE_PRIO - 1 : CreatePlain(n)
  BY <1>1 DEF CreatePlain, TypeOK
<1>6. task_create_unschedulable \/ SyscallRefused \/ UNCHANGED vars => cur_tcb' = cur_tcb
  BY DEF task_create_unschedulable, SyscallRefused, vars, sched
<1>7. KernelExit => cur_tcb' = cur_tcb
  BY DEF KernelExit, launch_task, syscall_return, irq_return, LeaveKernel, mutex_lock_resume
<1> QED BY <1>2, <1>4, <1>5, <1>6, <1>7 DEF PlainIntended

\* Whoever leaves the code with interrupts off was switched to, and the list is
\* as the switch left it; nothing else happens there.
LEMMA OffTheWay ==
  ASSUME InPlace, PlainIntended, ~irq
  PROVE  irq' /\ UNCHANGED <<cur_tcb, run_list, tasks>>
PROOF
<1>1. ~mutex_lock_resume
  BY DEF mutex_lock_resume, InPlace, RunningInPlace
<1> QED
  BY <1>1 DEF PlainIntended, KernelExit, mutex_create, mutex_lock, mutex_unlock, ReleaseMutex, event_wait, CreatePlain, task_create_unschedulable,
    SyscallRefused, DevWaitPlain, dispatch_nosave, TickPlain, launch_task, syscall_return, irq_return,
    LeaveKernel, InUser, InMain, InTask

\* The steps that do not switch leave interrupts enabled.
LEMMA OthersEnabled ==
  ASSUME InPlace, PlainIntended, irq
  PROVE  irq' \/ DevWaitPlain \/ dispatch_nosave \/ TickPlain
PROOF
<1>1. \A m \in Mutexes : mutex_create(m) \/ mutex_lock(m) \/ mutex_unlock(m) => irq'
  BY DEF mutex_create, mutex_lock, mutex_unlock, sched
<1>3. \A d \in DevQueues : event_wait(d) => irq'
  BY DEF event_wait, sched
<1>4. \A n \in 1 .. IDLE_PRIO - 1 : CreatePlain(n) => irq'
  BY DEF CreatePlain
<1>5. task_create_unschedulable \/ SyscallRefused => irq'
  BY DEF task_create_unschedulable, SyscallRefused, vars, sched
<1>6. KernelExit => irq'
  BY DEF KernelExit, launch_task, syscall_return, irq_return, LeaveKernel, mutex_lock_resume
<1> QED BY <1>1, <1>3, <1>4, <1>5, <1>6 DEF PlainIntended

LEMMA SwitchedKept == InPlace /\ SwitchedToHighest /\ [PlainIntended]_vars => SwitchedToHighest'
PROOF
<1> SUFFICES ASSUME InPlace, SwitchedToHighest, [PlainIntended]_vars PROVE SwitchedToHighest'
  OBVIOUS
<1>1. CASE UNCHANGED vars
  BY <1>1 DEF SwitchedToHighest, vars, sched
<1>2. CASE PlainIntended /\ ~irq
  BY <1>2, OffTheWay DEF SwitchedToHighest
<1>3. CASE PlainIntended /\ irq
  <2>1. CASE irq'
    BY <2>1 DEF SwitchedToHighest
  <2>2. CASE DevWaitPlain
    BY <2>2, DevWaitSwitches DEF Switched, SwitchedToHighest
  <2>3. CASE dispatch_nosave
    BY <2>3, NosaveSwitches DEF Switched, SwitchedToHighest
  <2>4. CASE TickPlain
    BY <1>3, <2>4, TickSwitches DEF Switched, SwitchedToHighest, sched
  <2> QED BY <1>3, <2>1, <2>2, <2>3, <2>4, OthersEnabled
<1> QED BY <1>1, <1>2, <1>3

\* The switches of the intended use are as SwitchToMostUrgent has them.
LEMMA SwitchIsUrgent ==
  ASSUME InPlace, InPlace', [PlainIntended]_vars, cur_tcb \in Tcbs, cur_tcb' # cur_tcb, created' = created
  PROVE  /\ cur_tcb' \in Tcbs
         /\ \A p \in Occupied(run_list') : cur_prio'[cur_tcb'] <= p
         /\ \/ pc'[cur_tcb] \in {"dev_wait", "mutex_lock"}
            \/ pc[cur_tcb] = "nosave"
            \/ cur_prio'[cur_tcb'] < cur_prio'[cur_tcb]
PROOF
<1> USE ConstantsTyped
<1>1. DevWaitPlain \/ dispatch_nosave \/ TickPlain
  BY OthersStay
<1>2. /\ Switched /\ cur_prio' = cur_prio /\ num_tasks' = num_tasks
      /\ \/ pc'[cur_tcb] = "dev_wait"
         \/ pc[cur_tcb] = "nosave"
         \/ Held(cur_tcb) = {} /\ cur_tcb' < cur_tcb
  BY <1>1, DevWaitSwitches, NosaveSwitches, TickSwitches DEF tasks, creation, sched
<1>3. Created /\ cur_tcb \in Known
  BY RunningTask DEF InPlace
<1>4. cur_tcb' \in Known /\ Created'
  BY <1>2, <1>3 DEF Switched, Created
<1>5. /\ cur_tcb' \in Tcbs /\ cur_tcb' \in Nat /\ cur_prio'[cur_tcb'] \in Nat
      /\ cur_prio'[cur_tcb'] <= cur_tcb'
  BY <1>2, <1>3, <1>4, PriorityAtMostOwn
<1>6. \A p \in Occupied(run_list') : cur_prio'[cur_tcb'] <= p
  <2> SUFFICES ASSUME NEW p \in Prios, run_list'[p] # NULL PROVE cur_prio'[cur_tcb'] <= p
    BY OccupiedSlots DEF InPlace, TypeOK, Occupied
  <2>1. cur_tcb' <= p /\ p \in Nat
    BY <1>2 DEF Switched, Prios
  <2> QED BY <1>5, <2>1
<1>7. CASE Held(cur_tcb) = {} /\ cur_tcb' < cur_tcb
  <2>1. cur_prio[cur_tcb] = cur_tcb
    BY <1>3, <1>7, OwnPriority
  <2>2. cur_prio'[cur_tcb'] < cur_prio'[cur_tcb]
    BY <1>2, <1>3, <1>5, <1>7, <2>1, PriorityAtMostOwn
  <2> QED BY <1>5, <1>6, <2>2
<1> QED BY <1>2, <1>5, <1>6, <1>7

-----------------------------------------------------------------------------
(* What each step does to who should run *)

\* The conclusion of RunningIsHighest, without its condition.
NoneMoreUrgent == \A p \in Prios : run_list[p] # NULL => cur_prio[cur_tcb] <= p

LEMMA RunningMeans ==
  ASSUME TypeOK
  PROVE  RunningIsHighest <=>
           ((irq /\ cur_tcb \in Tcbs /\ pc[cur_tcb] # "nosave") => NoneMoreUrgent)
PROOF
  BY OccupiedSlots DEF RunningIsHighest, NoneMoreUrgent

\* A task that locks a mutex gets the most urgent priority.
LEMMA LockKeepsUrgent ==
  ASSUME InPlace, NEW m \in Mutexes, mutex_lock(m), cur_tcb \in Tcbs
  PROVE  NoneMoreUrgent'
PROOF
<1>1. TypeOK /\ \A p \in Prios : 0 <= p
  BY DEF InPlace, Prios
<1>2. cur_tcb' = cur_tcb /\ cur_prio'[cur_tcb] = 0
  BY <1>1 DEF mutex_lock, TakeMutex, sched, TypeOK
<1> QED BY <1>1, <1>2 DEF NoneMoreUrgent

\* A task that unlocks one of several keeps it.
LEMMA UnlockKeepsUrgent ==
  ASSUME InPlace, NEW m \in Mutexes, mutex_unlock(m), NoneMoreUrgent,
         ~(holds_lock[cur_tcb] = 1 /\ holds_lock'[cur_tcb] = 0)
  PROVE  NoneMoreUrgent'
PROOF
<1>1. TypeOK /\ cur_tcb \in Tcbs
  BY DEF InPlace, mutex_unlock, ReleaseMutex, InTask
<1>2. /\ cur_tcb' = cur_tcb /\ run_list' = run_list
      /\ holds_lock'[cur_tcb] = holds_lock[cur_tcb] - 1
      /\ holds_lock[cur_tcb] # 1 => cur_prio'[cur_tcb] = cur_prio[cur_tcb]
  BY <1>1 DEF mutex_unlock, ReleaseMutex, sched, TypeOK
<1>3. holds_lock[cur_tcb] # 1
  BY <1>2
<1> QED BY <1>2, <1>3 DEF NoneMoreUrgent

\* A tick leaves the most urgent task running, or switches.
LEMMA TickKeepsUrgent ==
  ASSUME InPlace, TickPlain, irq', cur_tcb' = cur_tcb => NoneMoreUrgent
  PROVE  NoneMoreUrgent'
PROOF
<1>1. UNCHANGED sched => NoneMoreUrgent'
  BY TickSwitches DEF NoneMoreUrgent, sched, tasks
<1> QED BY <1>1, TickSwitches DEF NoneMoreUrgent, Switched, tasks

\* Interrupts are enabled for the task that was switched to, with its own
\* priority or a more urgent one.
LEMMA ExitKeepsUrgent ==
  ASSUME InPlace, SwitchedToHighest, PlainIntended, ~irq
  PROVE  NoneMoreUrgent'
PROOF
<1>1. Created /\ cur_tcb \in Known
  BY DEF InPlace, RunningInPlace
<1>2. cur_tcb \in Nat /\ cur_prio[cur_tcb] \in Nat /\ cur_prio[cur_tcb] <= cur_tcb
  BY <1>1, PriorityAtMostOwn
<1>3. \A p \in Prios : p \in Nat /\ (run_list[p] # NULL => cur_tcb <= p)
  BY DEF SwitchedToHighest, Prios
<1>4. cur_tcb' = cur_tcb /\ run_list' = run_list /\ cur_prio' = cur_prio
  BY OffTheWay DEF tasks
<1> QED BY <1>2, <1>3, <1>4 DEF NoneMoreUrgent

LEMMA InversionOnlyThere ==
  ASSUME InPlace, InPlace', SwitchedToHighest, [PlainIntended]_vars, RunningIsHighest,
         ~(cur_tcb' = cur_tcb /\ holds_lock[cur_tcb] = 1 /\ holds_lock'[cur_tcb] = 0)
  PROVE  RunningIsHighest'
PROOF
<1> USE ConstantsTyped
<1>1. TypeOK /\ TypeOK'
  BY DEF InPlace
<1>2. RunningIsHighest' <=>
        ((irq' /\ cur_tcb' \in Tcbs /\ pc'[cur_tcb'] # "nosave") => NoneMoreUrgent')
  BY <1>1, OccupiedSlots DEF RunningIsHighest, NoneMoreUrgent, TypeOK, Occupied
<1> SUFFICES ASSUME irq', cur_tcb' \in Tcbs, pc'[cur_tcb'] # "nosave" PROVE NoneMoreUrgent'
  BY <1>2
<1>3. (irq /\ cur_tcb \in Tcbs /\ pc[cur_tcb] # "nosave") => NoneMoreUrgent
  BY <1>1, RunningMeans
\* A step that leaves the scheduler's state as it was, in a task's own code.
<1>4. ASSUME irq, UNCHANGED <<sched, cur_prio>>, pc[cur_tcb] # "nosave" PROVE NoneMoreUrgent'
  BY <1>3, <1>4 DEF NoneMoreUrgent, sched
<1>5. CASE UNCHANGED vars
  BY <1>4, <1>5, <1>3 DEF vars, sched, tasks, places, NoneMoreUrgent
<1>6. CASE PlainIntended /\ ~irq
  BY <1>6, ExitKeepsUrgent
<1>7. CASE PlainIntended /\ irq
  <2>1. ASSUME NEW m \in Mutexes, mutex_create(m) PROVE NoneMoreUrgent'
    BY <1>4, <1>7, <2>1 DEF mutex_create, sched, tasks, places
  <2>2. ASSUME NEW m \in Mutexes, mutex_lock(m) PROVE NoneMoreUrgent'
    <3>1. cur_tcb \in Tcbs
      BY <2>2 DEF mutex_lock, sched
    <3> QED BY <2>2, <3>1, LockKeepsUrgent
  <2>3. ASSUME NEW m \in Mutexes, mutex_unlock(m) PROVE NoneMoreUrgent'
    <3>1. cur_tcb' = cur_tcb /\ NoneMoreUrgent
      BY <1>3, <1>7, <2>3 DEF mutex_unlock, ReleaseMutex, InTask, sched
    <3> QED BY <2>3, <3>1, UnlockKeepsUrgent
  <2>4. ASSUME NEW d \in DevQueues, event_wait(d) PROVE NoneMoreUrgent'
    <3>1. pc[cur_tcb] = "user" /\ UNCHANGED <<sched, cur_prio>>
      BY <2>4 DEF event_wait, InTask, tasks
    <3> QED BY <1>4, <1>7, <3>1
  <2>5. ASSUME NEW n \in 1 .. IDLE_PRIO - 1, CreatePlain(n) PROVE FALSE
    <3>1. cur_tcb' = IDLE_PRIO /\ pc'[IDLE_PRIO] = "nosave"
      BY <2>5 DEF CreatePlain
    <3> QED BY <3>1
  <2>6. CASE task_create_unschedulable
    BY <2>6 DEF task_create_unschedulable, NoneMoreUrgent
  <2>7. CASE SyscallRefused
    BY <1>4, <1>7, <1>3, <2>7 DEF SyscallRefused, vars, sched, tasks, places
  <2>8. CASE TickPlain
    <3>1. pc' = pc
      BY <2>8, TickSwitches
    <3> QED BY <1>3, <1>7, <2>8, <3>1, TickKeepsUrgent
  <2>9. CASE DevWaitPlain \/ dispatch_nosave
    BY <2>9, DevWaitSwitches, NosaveSwitches DEF Switched
  <2>10. CASE KernelExit
    BY <1>7, <2>10 DEF KernelExit, launch_task, syscall_return, irq_return, LeaveKernel,
      mutex_lock_resume
  <2> QED BY <1>7, <2>1, <2>2, <2>3, <2>4, <2>5, <2>6, <2>7, <2>8, <2>9, <2>10
    DEF PlainIntended
<1> QED BY <1>5, <1>6, <1>7

-----------------------------------------------------------------------------
(* Theorems, of the intended use *)

\* A switch goes to the most urgent ready task, and away only from a task that
\* sleeps or that the new one outranks (ctx_switch.c:49-57,83).
THEOREM SwitchesAreUrgent ==
  ASSUME IntendedUse
  PROVE  Spec => SwitchToMostUrgent
PROOF
<1>1. InPlace /\ InPlace' /\ [Next]_vars =>
        [(cur_tcb \in Tcbs /\ cur_tcb' # cur_tcb /\ created' = created) =>
           /\ cur_tcb' \in Tcbs
           /\ \A p \in Occupied(run_list') : cur_prio'[cur_tcb'] <= p
           /\ \/ pc'[cur_tcb] \in {"dev_wait", "mutex_lock"}
              \/ pc[cur_tcb] = "nosave"
              \/ cur_prio'[cur_tcb'] < cur_prio'[cur_tcb]]_vars
  BY NextIsIntended, SwitchIsUrgent
<1> QED BY <1>1, AlwaysInPlace, PTL DEF Spec, SwitchToMostUrgent

\* Whatever makes a task ready or runs one keeps the running task the most urgent,
\* except the release of the last mutex a task holds (mutex.c:170-184): a return
\* to a task finds the processor given to the most urgent one.
THEOREM InversionsFromUnlock ==
  ASSUME IntendedUse
  PROVE  Spec => InversionOnlyAfterUnlock
PROOF
<1>1. Init => SwitchedToHighest
  BY DEF Init, SwitchedToHighest
<1>2. InPlace /\ InPlace' /\ SwitchedToHighest /\ [Next]_vars =>
        [(RunningIsHighest /\ ~RunningIsHighest') =>
           cur_tcb' = cur_tcb /\ holds_lock[cur_tcb] = 1 /\ holds_lock'[cur_tcb] = 0]_vars
  BY NextIsIntended, InversionOnlyThere
<1>3. InPlace /\ SwitchedToHighest /\ [Next]_vars => SwitchedToHighest'
  BY NextIsIntended, SwitchedKept
<1> QED BY <1>1, <1>2, <1>3, AlwaysInPlace, PTL DEF Spec, InversionOnlyAfterUnlock

-----------------------------------------------------------------------------
(* The kernel implements the priority scheduler: facts about its slots and   *)
(* queues as sets of tasks.                                                  *)

\* Where every slot holds its own task or none, the tasks of the list are its
\* occupied slots.
LEMMA SlotsAsSet ==
  ASSUME NEW list, \A p \in Prios : list[p] = NULL \/ list[p] = p, NEW c
  PROVE  {list[p] : p \in Prios} \ {NULL, c} = {p \in Prios : list[p] # NULL /\ p # c}
PROOF
  OBVIOUS

\* Before the first task set nobody is ready; then those in the slots are, but for
\* the idle task where it runs.
LEMMA ReadySet ==
  ASSUME InPlace
  PROVE  ReadyTasks = {p \in Prios : run_list[p] # NULL /\ p # cur_tcb}
PROOF
<1>1. \A p \in Prios : run_list[p] = NULL \/ run_list[p] = p
  BY DEF InPlace, ReadyInPlace, SlotsInPlace
<1> QED BY <1>1, SlotsAsSet DEF ReadyTasks

\* What a switch from a list does to who runs and who is ready.
LEMMA SwitchesAmong ==
  ASSUME NEW list, \A p \in Prios : list[p] = NULL \/ list[p] = p,
         cur_tcb' \in Prios, list[cur_tcb'] # NULL,
         \A p \in Prios : list[p] # NULL => cur_tcb' <= p,
         \A p \in Prios : run_list'[p] = IF p = cur_tcb' /\ p # IDLE_PRIO THEN NULL ELSE list[p]
  PROVE  Tasks!SwitchAmong({p \in Prios : list[p] # NULL})
PROOF
<1> DEFINE S == {p \in Prios : list[p] # NULL}
<1>1. \A p \in Prios : run_list'[p] = NULL \/ run_list'[p] = p
  OBVIOUS
<1>2. ReadyTasks' = {p \in Prios : run_list'[p] # NULL /\ p # cur_tcb'}
  <2> DEFINE l == run_list'
             c == cur_tcb'
  <2>1. {l[p] : p \in Prios} \ {NULL, c} = {p \in Prios : l[p] # NULL /\ p # c}
    BY <1>1, SlotsAsSet
  <2> QED BY <2>1 DEF ReadyTasks
<1>3. \A p \in Prios : (run_list'[p] # NULL /\ p # cur_tcb') <=> (list[p] # NULL /\ p # cur_tcb')
  OBVIOUS
<1>4. ReadyTasks' = S \ {cur_tcb'}
  BY <1>2, <1>3
<1>5. cur_tcb' \in S /\ \A s \in S : cur_tcb' <= s
  OBVIOUS
<1> QED BY <1>4, <1>5 DEF Tasks!SwitchAmong, Tasks!MostUrgent

\* The priority the running task competes with is its urgency.
LEMMA RunningUrgency ==
  ASSUME InPlace, Created
  PROVE  /\ Tasks!Urgency(cur_tcb) = cur_prio[cur_tcb]
         /\ Tasks!Holds(cur_tcb) <=> Held(cur_tcb) # {}
         /\ holds_lock[cur_tcb] > 0 <=> Held(cur_tcb) # {}
PROOF
<1>1. TypeOK /\ RunningInPlace /\ CountersInPlace
  BY DEF InPlace
<1>2. cur_tcb \in Known /\ cur_tcb \in Tcbs
  BY <1>1, LiveTasks, ConstantsTyped DEF Known, RunningInPlace
<1>3. Tasks!Holds(cur_tcb) <=> Held(cur_tcb) # {}
  BY DEF Tasks!Holds, Held
<1>4. holds_lock[cur_tcb] > 0 <=> Held(cur_tcb) # {}
  BY <1>1, <1>2, HeldCount DEF CountersInPlace
<1>5. cur_prio[cur_tcb] = IF holds_lock[cur_tcb] > 0 THEN 0 ELSE cur_tcb
  BY <1>1, <1>2 DEF CountersInPlace, native_prio
<1> QED BY <1>3, <1>4, <1>5 DEF Tasks!Urgency

\* A step that leaves these alone does nothing that tasks could see.
LEMMA HiddenStep ==
  ASSUME UNCHANGED <<cur_tcb, run_list, dev_queue, pHolding_Tcb>>
  PROVE  UNCHANGED Tasks!vars
PROOF
  BY DEF Tasks!vars, ReadyTasks, WaitingTasks

LEMMA InitRefines == Init => Tasks!Init
PROOF
<1> SUFFICES ASSUME Init PROVE Tasks!Init
  OBVIOUS
<1>1. ReadyTasks = {}
  BY DEF Init, ReadyTasks
<1>2. WaitingTasks = [d \in DevQueues |-> {}]
  <2>1. \A d \in DevQueues : DOMAIN dev_queue[d] = {}
    BY EmptySeq DEF Init
  <2> QED BY <2>1 DEF WaitingTasks
<1> QED
  BY <1>1, <1>2 DEF Init, Tasks!Init, Tasks!Nobody, NULL

-----------------------------------------------------------------------------
(* The kernel implements the priority scheduler: its steps *)

LEMMA LockRefines ==
  ASSUME InPlace, NEW m \in Mutexes, mutex_lock(m)
  PROVE  Tasks!Lock(m)
PROOF
<1>1. pHolding_Tcb[m] = NULL /\ InTask
  BY MutexFree DEF mutex_lock
<1>2. cur_tcb \notin {NULL, IDLE_PRIO}
  BY <1>1, ConstantsTyped DEF InTask
<1>3. /\ pHolding_Tcb' = [pHolding_Tcb EXCEPT ![m] = cur_tcb]
      /\ UNCHANGED <<cur_tcb, run_list, dev_queue>>
  BY DEF mutex_lock, TakeMutex, sched, devices
<1>4. ReadyTasks' = ReadyTasks /\ WaitingTasks' = WaitingTasks
  BY <1>3 DEF ReadyTasks, WaitingTasks
<1> QED BY <1>1, <1>2, <1>3, <1>4 DEF Tasks!Lock, Tasks!Nobody, NULL

LEMMA UnlockRefines ==
  ASSUME InPlace, NEW m \in Mutexes, mutex_unlock(m)
  PROVE  Tasks!Unlock(m)
PROOF
<1>1. /\ InTask /\ pHolding_Tcb[m] = cur_tcb
      /\ pHolding_Tcb' = [pHolding_Tcb EXCEPT ![m] = NULL]
      /\ UNCHANGED <<cur_tcb, run_list, dev_queue>>
  BY DEF mutex_unlock, ReleaseMutex, sched, devices
<1>2. cur_tcb \notin {NULL, IDLE_PRIO}
  BY <1>1, ConstantsTyped DEF InTask
<1>3. ReadyTasks' = ReadyTasks /\ WaitingTasks' = WaitingTasks
  BY <1>1 DEF ReadyTasks, WaitingTasks
<1> QED BY <1>1, <1>2, <1>3 DEF Tasks!Unlock, Tasks!Nobody, NULL

LEMMA CreateRefines ==
  ASSUME InPlace, NEW n \in 1 .. IDLE_PRIO - 1, CreatePlain(n),
         ~(InTask /\ holds_lock[cur_tcb] > 0)
  PROVE  Tasks!Create(n)
PROOF
<1> DEFINE fresh == 1 .. n \cup {IDLE_PRIO}
<1> USE ConstantsTyped
<1>1. /\ InUser /\ KeptQueuesEmpty
      /\ dev_queue' = [d \in DevQueues |-> IF d \in Devices THEN <<>> ELSE dev_queue[d]]
      /\ run_list' = [p \in Prios |-> IF p \in fresh THEN p ELSE NULL]
      /\ cur_tcb' = IDLE_PRIO
      /\ pHolding_Tcb' = pHolding_Tcb
  BY DEF CreatePlain, ResetDevices, ResetQueues, mutexes
<1>2. fresh \subseteq Prios \ {0} /\ 1 .. n = fresh \ {IDLE_PRIO}
  BY KernelAssumption DEF Prios
<1> HIDE DEF fresh
<1>3. ReadyTasks' = 1 .. n
  <2>1. \A p \in Prios : run_list'[p] = IF p \in fresh THEN p ELSE NULL
    BY <1>1
  <2>2. {run_list'[p] : p \in Prios} \ {NULL, cur_tcb'} = fresh \ {IDLE_PRIO}
    BY <1>1, <1>2, <2>1 DEF NULL
  <2> QED BY <1>2, <2>2 DEF ReadyTasks
<1>4. DevQueues \ Devices \subseteq {NumDevices} /\ dev_queue[NumDevices] = <<>>
  BY <1>1, KernelAssumption DEF KeptQueuesEmpty, DevQueues, Devices
<1>5. \A d \in DevQueues : dev_queue'[d] = <<>> /\ DOMAIN dev_queue'[d] = {}
  <2> TAKE d \in DevQueues
  <2>1. dev_queue'[d] = IF d \in Devices THEN <<>> ELSE dev_queue[d]
    BY <1>1
  <2>2. d \notin Devices => dev_queue[d] = <<>>
    BY <1>4
  <2> QED BY <2>1, <2>2, EmptySeq
<1>6. WaitingTasks' = [d \in DevQueues |-> {}]
  BY <1>5 DEF WaitingTasks
<1>7. \A d \in DevQueues \ Devices : WaitingTasks[d] = {}
  BY <1>4, EmptySeq DEF WaitingTasks
<1>8. cur_tcb # IDLE_PRIO
  BY <1>1 DEF InUser, InMain, InTask, Main, NULL
<1>9. cur_tcb # NULL => ~Tasks!Holds(cur_tcb)
  <2> SUFFICES ASSUME cur_tcb # NULL PROVE ~Tasks!Holds(cur_tcb)
    OBVIOUS
  <2>1. InTask
    BY <1>1 DEF InUser, InMain, Main
  <2>2. Created
    BY <2>1, RunningTask DEF InPlace, InTask
  <2> QED BY <2>1, <2>2, RunningUrgency
<1> QED BY <1>1, <1>3, <1>6, <1>7, <1>8, <1>9 DEF Tasks!Create, Tasks!Nobody, NULL

LEMMA NosaveRefines ==
  ASSUME InPlace, dispatch_nosave
  PROVE  Tasks!Start
PROOF
<1> USE ConstantsTyped
<1>1. TypeOK /\ RunningInPlace /\ ReadyInPlace
  BY DEF InPlace
<1>2. /\ cur_tcb = IDLE_PRIO /\ SwitchToHighest(run_list)
      /\ UNCHANGED <<dev_queue, pHolding_Tcb, num_tasks>>
  BY DEF dispatch_nosave, mutexes, devices, creation
<1>3. Created
  BY <1>1, <1>2 DEF RunningInPlace
<1>4. ListInPlace(run_list)
  BY <1>1, <1>3 DEF ListInPlace, ReadyInPlace, SlotsInPlace, TypeOK
<1>5. /\ cur_tcb' \in Known /\ run_list[cur_tcb'] = cur_tcb'
      /\ \A p \in Prios : run_list[p] # NULL => cur_tcb' <= p
      /\ \A p \in Prios : run_list'[p] = IF p = cur_tcb' /\ p # IDLE_PRIO THEN NULL ELSE run_list[p]
  BY <1>1, <1>2, <1>4, SwitchInPlace
<1>6. cur_tcb' \in Tcbs
  BY <1>1, <1>5, LiveTasks DEF Known
<1>7. Tasks!SwitchAmong({p \in Prios : run_list[p] # NULL})
  BY <1>4, <1>5, <1>6, SwitchesAmong DEF ListInPlace
<1>8. {p \in Prios : run_list[p] # NULL} = ReadyTasks \cup {IDLE_PRIO}
  BY <1>2, <1>4, ReadySet DEF ListInPlace
<1>9. WaitingTasks' = WaitingTasks
  BY <1>2 DEF WaitingTasks
<1> QED BY <1>2, <1>7, <1>8, <1>9 DEF Tasks!Start

\* The queue with one more sleeper at its end, as a set.
LEMMA AppendAsSet ==
  ASSUME NEW S, NEW s \in Seq(S), NEW t \in S
  PROVE  {Append(s, t)[i] : i \in DOMAIN Append(s, t)} = {s[i] : i \in DOMAIN s} \cup {t}
PROOF
<1>1. /\ DOMAIN s = 1 .. Len(s) /\ Len(s) \in Nat
      /\ DOMAIN Append(s, t) = 1 .. Len(s) + 1
      /\ \A i \in 1 .. Len(s) : Append(s, t)[i] = s[i]
      /\ Append(s, t)[Len(s) + 1] = t
  BY AppendProperties
<1>2. DOMAIN Append(s, t) = DOMAIN s \cup {Len(s) + 1}
  BY <1>1
<1> DEFINE a == Append(s, t)
           k == Len(s) + 1
<1>3. DOMAIN a = DOMAIN s \cup {k} /\ a[k] = t /\ \A i \in DOMAIN s : a[i] = s[i]
  BY <1>1, <1>2
<1> HIDE DEF a, k
<1>4. {a[i] : i \in DOMAIN a} = {s[i] : i \in DOMAIN s} \cup {t}
  BY <1>3
<1> QED BY <1>4 DEF a

LEMMA DevWaitRefines ==
  ASSUME InPlace, DevWaitPlain
  PROVE  \E d \in DevQueues : Tasks!Wait(d)
PROOF
<1> USE ConstantsTyped
<1>1. TypeOK /\ RunningInPlace /\ HoldersInPlace /\ ReadyInPlace
  BY DEF InPlace
<1>2. /\ irq /\ cur_tcb \in Tcbs /\ pc[cur_tcb] = "checked" /\ SwitchToHighest(run_list)
      /\ dev_queue' = [dev_queue EXCEPT ![arg[cur_tcb]] = Append(@, cur_tcb)]
      /\ UNCHANGED <<pHolding_Tcb, num_tasks>>
  BY DEF DevWaitPlain, dispatch_sleep, mutexes, creation
<1>3. PICK dev \in DevQueues : dev = arg[cur_tcb]
  BY <1>1, <1>2 DEF RunningInPlace
<1>4. cur_tcb # IDLE_PRIO /\ cur_tcb # NULL /\ Created
  BY <1>1, <1>2, RunningTask DEF RunningInPlace
<1>5. ~Tasks!Holds(cur_tcb)
  BY <1>1, <1>2 DEF HoldersInPlace, Tasks!Holds
<1>6. ListInPlace(run_list)
  BY <1>1, <1>4 DEF ListInPlace, ReadyInPlace, SlotsInPlace, TypeOK
<1>7. run_list[cur_tcb] = NULL
  BY <1>1, <1>2, <1>4 DEF ReadyInPlace, SlotsInPlace
<1>8. Tasks!SwitchAmong(ReadyTasks)
  <2>1. /\ cur_tcb' \in Known /\ run_list[cur_tcb'] = cur_tcb'
        /\ \A p \in Prios : run_list[p] # NULL => cur_tcb' <= p
        /\ \A p \in Prios : run_list'[p] = IF p = cur_tcb' /\ p # IDLE_PRIO THEN NULL ELSE run_list[p]
    BY <1>1, <1>2, <1>6, SwitchInPlace
  <2>2. cur_tcb' \in Tcbs
    BY <1>1, <2>1, LiveTasks DEF Known
  <2>3. Tasks!SwitchAmong({p \in Prios : run_list[p] # NULL})
    BY <1>6, <2>1, <2>2, SwitchesAmong DEF ListInPlace
  <2>4. {p \in Prios : run_list[p] # NULL} = ReadyTasks
    BY <1>7, ReadySet
  <2> QED BY <2>3, <2>4
<1>9. WaitingTasks' = [WaitingTasks EXCEPT ![dev] = @ \cup {cur_tcb}]
  <2>1. PICK c \in Tcbs : c = cur_tcb
    BY <1>2
  <2>2. /\ dev_queue'[dev] = Append(dev_queue[dev], c)
        /\ \A d \in DevQueues \ {dev} : dev_queue'[d] = dev_queue[d]
    BY <1>1, <1>2, <1>3, <2>1 DEF TypeOK
  <2>3. {Append(dev_queue[dev], c)[i] : i \in DOMAIN Append(dev_queue[dev], c)}
          = {dev_queue[dev][i] : i \in DOMAIN dev_queue[dev]} \cup {c}
    <3>1. dev_queue[dev] \in Seq(Tcbs)
      BY <1>1 DEF TypeOK
    <3> DEFINE old == dev_queue[dev]
    <3>2. old \in Seq(Tcbs) /\ c \in Tcbs
      BY <2>1, <3>1
    <3> HIDE DEF old
    <3>3. {Append(old, c)[i] : i \in DOMAIN Append(old, c)} = {old[i] : i \in DOMAIN old} \cup {c}
      BY <3>2, AppendAsSet
    <3> QED BY <3>3 DEF old
  <2>4. WaitingTasks'[dev] = WaitingTasks[dev] \cup {c}
    BY <2>2, <2>3 DEF WaitingTasks
  <2>5. \A d \in DevQueues \ {dev} : WaitingTasks'[d] = WaitingTasks[d]
    BY <2>2 DEF WaitingTasks
  <2>6. WaitingTasks' = [d \in DevQueues |-> WaitingTasks'[d]]
        /\ WaitingTasks = [d \in DevQueues |-> WaitingTasks[d]]
    BY DEF WaitingTasks
  <2> QED BY <2>1, <2>4, <2>5, <2>6
<1>10. Tasks!Wait(dev)
  BY <1>2, <1>4, <1>5, <1>8, <1>9 DEF Tasks!Wait, Tasks!Nobody, NULL
<1> QED BY <1>10

\* The tasks that wait for a device that is due.
LEMMA WhoIsWoken ==
  ASSUME NEW due \in SUBSET Devices, NEW t
  PROVE  t \in UNION {WaitingTasks[d] : d \in due}
           <=> \E d \in due : \E i \in DOMAIN dev_queue[d] : dev_queue[d][i] = t
PROOF
<1>1. \A d \in due : t \in WaitingTasks[d] <=> \E i \in DOMAIN dev_queue[d] : dev_queue[d][i] = t
  BY ConstantsTyped DEF WaitingTasks
<1> QED BY <1>1

\* A tick is a signal of the devices that are due, or nothing to tasks if nobody
\* waits for them.
LEMMA TickRefines ==
  ASSUME InPlace, TickPlain
  PROVE  (\E due \in SUBSET Devices : Tasks!Signal(due)) \/ UNCHANGED Tasks!vars
PROOF
<1> DEFINE due == {d \in Devices : left[d] <= 1}
           list == WakeAll(due)
           woken == UNION {WaitingTasks[d] : d \in due}
<1> USE ConstantsTyped
<1>1. TypeOK /\ SleepersInPlace /\ RunningInPlace
  BY DEF InPlace
<1>2. /\ irq /\ UNCHANGED <<pHolding_Tcb, num_tasks>>
      /\ dev_queue' = [d \in DevQueues |-> IF d \in due THEN <<>> ELSE dev_queue[d]]
      /\ IF Sleeping(due) = {} THEN UNCHANGED sched ELSE dispatch_save(list, cur_prio)
  BY DEF TickPlain, mutexes, creation
<1>3. due \in SUBSET Devices
  OBVIOUS
<1> HIDE DEF due
<1>4. WaitingTasks' = [d \in DevQueues |-> IF d \in due THEN {} ELSE WaitingTasks[d]]
  <2>1. \A d \in due : dev_queue'[d] = <<>> /\ DOMAIN dev_queue'[d] = {}
    BY <1>2, <1>3, EmptySeq
  <2>2. \A d \in DevQueues \ due : dev_queue'[d] = dev_queue[d]
    BY <1>2
  <2> QED BY <2>1, <2>2 DEF WaitingTasks
<1>5. CASE Sleeping(due) = {}
  <2>1. \A d \in due : DOMAIN dev_queue[d] = {}
    <3> SUFFICES ASSUME NEW d \in due, NEW k \in DOMAIN dev_queue[d] PROVE FALSE
      OBVIOUS
    <3>1. <<d, k>> \in {d} \X DOMAIN dev_queue[d]
      OBVIOUS
    <3> QED BY <1>5, <3>1 DEF Sleeping
  <2>2. \A d \in due : WaitingTasks[d] = {}
    BY <1>3, <2>1 DEF WaitingTasks
  <2>3. WaitingTasks' = WaitingTasks
    BY <1>4, <2>2 DEF WaitingTasks
  <2> QED BY <1>2, <1>5, <2>3 DEF Tasks!vars, ReadyTasks, sched
<1>6. CASE Sleeping(due) # {}
  <2>1. PICK s \in Sleeping(due) : TRUE
    BY <1>6
  <2>2. PICK e \in due : s \in {e} \X DOMAIN dev_queue[e]
    BY <2>1 DEF Sleeping
  <2>3. dev_queue[e][s[2]] \in Live /\ dev_queue[e][s[2]] \in woken
    <3>1. s[2] \in DOMAIN dev_queue[e]
      BY <2>2
    <3>2. dev_queue[e][s[2]] \in Live
      BY <1>1, <1>3, <3>1 DEF SleepersInPlace
    <3>3. \E d \in due : \E i \in DOMAIN dev_queue[d] : dev_queue[d][i] = dev_queue[e][s[2]]
      BY <3>1
    <3> QED BY <1>3, <3>2, <3>3, WhoIsWoken
  <2>4. Created
    BY <1>1, <2>3, SomeoneLive
  <2>5. SlotsInPlace(list, cur_tcb) /\ list \in [Prios -> Tcbs \cup {NULL}]
    BY <1>1, <1>3, <2>4, WakeSlots, WakeAllType
  <2>6. cur_tcb \in Known /\ cur_tcb \in Tcbs
    BY <1>1, <2>4, LiveTasks DEF RunningInPlace, Known
  <2>7. \A p \in Prios : list[p] = NULL \/ list[p] = p
    BY <2>5 DEF SlotsInPlace
\* The list has those that were ready, those that were woken, and the idle task.
  <2>8. {p \in Prios : list[p] # NULL /\ p # cur_tcb} = ReadyTasks \cup woken
    <3>1. \A p : p \in woken <=> \E d \in due : \E i \in DOMAIN dev_queue[d] : dev_queue[d][i] = p
      BY <1>3, WhoIsWoken
    <3>2. \A d \in due : \A i \in DOMAIN dev_queue[d] :
            dev_queue[d][i] \in Live /\ dev_queue[d][i] # cur_tcb
      BY <1>1, <1>3 DEF SleepersInPlace
    <3>3. \A p \in woken : p \in Prios /\ p # cur_tcb /\ p # NULL
      <4> SUFFICES ASSUME NEW p \in woken PROVE p \in Prios /\ p # cur_tcb /\ p # NULL
        OBVIOUS
      <4>1. p \in Live /\ p # cur_tcb
        BY <3>1, <3>2
      <4> QED BY <1>1, <4>1, LiveTasks
    <3>4. \A p \in Prios : list[p] = IF p \in woken THEN p ELSE run_list[p]
      BY <1>3, <3>1, WakeInPlace
    <3> HIDE DEF list, woken
    <3> QED BY <3>3, <3>4, ReadySet
  <2>9. list[cur_tcb] = IF cur_tcb = IDLE_PRIO THEN IDLE_PRIO ELSE NULL
    BY <2>5, <2>6 DEF SlotsInPlace
  <2>10. dispatch_save(list, cur_prio) /\ num_tasks' = num_tasks
    BY <1>2, <1>6
  <2> HIDE DEF list, woken
  <2>11. \/ /\ cur_tcb' = cur_tcb /\ run_list' = list /\ irq'
            /\ \A p \in Prios : list[p] # NULL => cur_prio[cur_tcb] <= p
         \/ /\ Held(cur_tcb) = {} /\ ~irq'
            /\ cur_tcb' \in Known /\ cur_tcb' # cur_tcb /\ list[cur_tcb'] = cur_tcb'
            /\ cur_tcb' < cur_tcb /\ \A p \in Prios : list[p] # NULL => cur_tcb' <= p
            /\ \A p \in Prios : run_list'[p] =
                 IF p = cur_tcb' /\ p # IDLE_PRIO THEN NULL
                 ELSE IF p = cur_tcb THEN cur_tcb ELSE list[p]
            /\ SlotsInPlace(run_list, cur_tcb)'
    BY <2>4, <2>5, <2>10, SaveInPlace
  <2>12. CASE /\ cur_tcb' = cur_tcb /\ run_list' = list
              /\ \A p \in Prios : list[p] # NULL => cur_prio[cur_tcb] <= p
    <3>1. ReadyTasks' = ReadyTasks \cup woken
      <4>1. ReadyTasks' = {list[p] : p \in Prios} \ {NULL, cur_tcb}
        BY <2>12 DEF ReadyTasks
      <4>2. {list[p] : p \in Prios} \ {NULL, cur_tcb} = {p \in Prios : list[p] # NULL /\ p # cur_tcb}
        BY <2>7, SlotsAsSet
      <4> QED BY <2>8, <4>1, <4>2
    <3>2. \A t \in ReadyTasks \cup woken : ~(t < Tasks!Urgency(cur_tcb))
      <4>1. \A t \in ReadyTasks \cup woken : t \in Prios /\ cur_prio[cur_tcb] <= t
        BY <2>8, <2>12
      <4>2. cur_prio[cur_tcb] \in Nat
        BY <2>4, <2>6, PriorityAtMostOwn
      <4>3. \A t \in Prios : t \in Nat
        BY DEF Prios
      <4>4. Tasks!Urgency(cur_tcb) = cur_prio[cur_tcb]
        BY <2>4, RunningUrgency
      <4> TAKE t \in ReadyTasks \cup woken
      <4>5. t \in Nat /\ cur_prio[cur_tcb] <= t
        BY <4>1, <4>3
      <4> QED BY <4>2, <4>4, <4>5
    <3>3. Tasks!Signal(due)
      BY <1>2, <1>4, <2>3, <2>12, <3>1, <3>2 DEF Tasks!Signal, woken
    <3> QED BY <1>3, <3>3
  <2>13. CASE /\ Held(cur_tcb) = {}
              /\ cur_tcb' \in Known /\ cur_tcb' # cur_tcb /\ list[cur_tcb'] = cur_tcb'
              /\ cur_tcb' < cur_tcb /\ \A p \in Prios : list[p] # NULL => cur_tcb' <= p
              /\ \A p \in Prios : run_list'[p] =
                   IF p = cur_tcb' /\ p # IDLE_PRIO THEN NULL
                   ELSE IF p = cur_tcb THEN cur_tcb ELSE list[p]
    <3> DEFINE put == [p \in Prios |-> IF p = cur_tcb THEN cur_tcb ELSE list[p]]
    <3>1. \A p \in Prios : put[p] = IF p = cur_tcb THEN cur_tcb ELSE list[p]
      OBVIOUS
    <3> HIDE DEF put
    <3>2. cur_tcb' \in Tcbs /\ cur_tcb' \in Nat /\ cur_tcb \in Nat /\ cur_tcb # NULL
      BY <1>1, <2>6, <2>13, LiveTasks DEF Known
    <3>3. \A p \in Prios : put[p] = NULL \/ put[p] = p
      BY <2>7, <3>1
    <3>4. put[cur_tcb'] # NULL
      BY <2>13, <3>1, <3>2
    <3>5. \A p \in Prios : put[p] # NULL => cur_tcb' <= p
      <4> SUFFICES ASSUME NEW p \in Prios, put[p] # NULL PROVE cur_tcb' <= p
        OBVIOUS
      <4> QED BY <2>13, <3>1, <3>2
    <3>6. \A p \in Prios : run_list'[p] = IF p = cur_tcb' /\ p # IDLE_PRIO THEN NULL ELSE put[p]
      BY <2>13, <3>1
    <3>7. Tasks!SwitchAmong({p \in Prios : put[p] # NULL})
      BY <3>2, <3>3, <3>4, <3>5, <3>6, SwitchesAmong
    <3>8. {p \in Prios : put[p] # NULL} = (ReadyTasks \cup woken) \cup {cur_tcb}
      BY <2>6, <2>8, <3>1, <3>2
    <3>9. \E t \in ReadyTasks \cup woken : t < Tasks!Urgency(cur_tcb)
      <4>1. cur_tcb' \in ReadyTasks \cup woken
        BY <2>8, <2>13, <3>2
      <4>2. Tasks!Urgency(cur_tcb) = cur_tcb
        BY <2>4, <2>6, <2>13, RunningUrgency, OwnPriority
      <4> QED BY <2>13, <4>1, <4>2
    <3>10. Tasks!Signal(due)
      BY <1>2, <1>4, <2>3, <3>7, <3>8, <3>9 DEF Tasks!Signal, woken
    <3> QED BY <1>3, <3>10
  <2> QED BY <2>11, <2>12, <2>13
<1> QED BY <1>5, <1>6

\* A step of the intended use does to who runs, who is ready, who waits and who
\* holds what the scheduler does in a step, or nothing.
LEMMA NextRefines ==
  ASSUME InPlace, [PlainIntended]_vars
  PROVE  [Tasks!Next]_(Tasks!vars)
PROOF
<1>1. ASSUME NEW m \in Mutexes, mutex_lock(m) \/ mutex_unlock(m) PROVE Tasks!Next
  BY <1>1, LockRefines, UnlockRefines DEF Tasks!Next
<1>3. ASSUME NEW m \in Mutexes, mutex_create(m) PROVE UNCHANGED Tasks!vars
  BY <1>3, HiddenStep DEF mutex_create, sched, devices
<1>4. ASSUME NEW d \in DevQueues, event_wait(d) PROVE UNCHANGED Tasks!vars
  BY <1>4, HiddenStep DEF event_wait, sched, devices, mutexes
<1>5. ASSUME NEW n \in 1 .. IDLE_PRIO - 1, CreatePlain(n), ~(InTask /\ holds_lock[cur_tcb] > 0)
      PROVE  Tasks!Next
  BY <1>5, CreateRefines DEF Tasks!Next
\* main has no tasks whose queues could be emptied.
<1>6. CASE task_create_unschedulable /\ InMain
  <2>1. ~Created /\ TypeOK
    BY <1>6 DEF InMain, Main, Created, InPlace
  <2>2. run_list' = run_list
    <3>1. \A p \in Prios : run_list[p] = NULL
      BY <2>1 DEF InPlace, ReadyInPlace
    <3> QED BY <1>6, <2>1, <3>1 DEF task_create_unschedulable, TypeOK
  <2>3. dev_queue' = dev_queue
    <3>1. \A d \in DevQueues : DOMAIN dev_queue[d] = {}
      <4> SUFFICES ASSUME NEW d \in DevQueues, NEW i \in DOMAIN dev_queue[d] PROVE FALSE
        OBVIOUS
      <4>1. dev_queue[d][i] \in Live
        BY DEF InPlace, SleepersInPlace
      <4> QED BY <2>1, <4>1, SomeoneLive
    <3>2. \A d \in DevQueues : dev_queue[d] = <<>>
      <4> TAKE d \in DevQueues
      <4>1. dev_queue[d] \in Seq(Tcbs)
        BY <2>1 DEF TypeOK
      <4> QED BY <3>1, <4>1, NoDomain
    <3> QED BY <1>6, <2>1, <3>2 DEF task_create_unschedulable, ResetDevices, ResetQueues, TypeOK
  <2> QED BY <1>6, <2>2, <2>3, HiddenStep DEF task_create_unschedulable, mutexes
<1>7. CASE DevWaitPlain
  BY <1>7, DevWaitRefines DEF Tasks!Next
<1>8. CASE dispatch_nosave
  BY <1>8, NosaveRefines DEF Tasks!Next
<1>9. CASE TickPlain
  BY <1>9, TickRefines DEF Tasks!Next
<1>10. CASE KernelExit
  <2>1. ~mutex_lock_resume
    BY DEF mutex_lock_resume, InPlace, RunningInPlace
  <2>2. UNCHANGED <<cur_tcb, run_list, dev_queue, pHolding_Tcb>>
    BY <1>10, <2>1 DEF KernelExit, launch_task, syscall_return, irq_return, LeaveKernel, mutexes, devices
  <2> QED BY <2>2, HiddenStep
<1>11. CASE SyscallRefused \/ UNCHANGED vars
  BY <1>11, HiddenStep DEF SyscallRefused, vars, sched, mutexes, devices
<1> QED
  BY <1>1, <1>3, <1>4, <1>5, <1>6, <1>7, <1>8, <1>9, <1>10, <1>11 DEF PlainIntended

\* Tasks find the kernel to be the priority scheduler of module Scheduler: of its
\* slots, queues, counters, contexts and interrupts nothing else shows, as long as
\* no task creates tasks while it holds a mutex or a set that is refused.
THEOREM KernelImplementsScheduler ==
  ASSUME IntendedUse
  PROVE  Spec => ImplementsScheduler
PROOF
<1>1. InPlace /\ [Next]_vars => [Tasks!Next]_(Tasks!vars)
  BY NextIsIntended, NextRefines
<1> QED
  BY <1>1, InitRefines, AlwaysInPlace, PTL DEF Spec, ImplementsScheduler, Tasks!Spec
=============================================================================
