------------------------------ MODULE Scheduler ------------------------------
(***************************************************************************)
(* What the preemptive kernel promises the tasks of a correct program: a   *)
(* fixed order of urgency, mutexes under the highest-locker protocol, and  *)
(* devices that wake all who wait for them.  There are no slots, queues,   *)
(* counters, contexts or interrupts here, only sets of tasks; the task     *)
(* with the smaller number is the more urgent.                             *)
(***************************************************************************)
EXTENDS Integers

CONSTANTS
  Idle,      \* the idle task, with the largest number
  Mutexes,
  Queues,    \* what tasks can wait for
  Devices    \* those of them that are signalled

Nobody == 0

VARIABLES
  running,   \* the task that has the processor; Nobody before the first task set
  ready,     \* the tasks that could run
  waiting,   \* the tasks that wait for each device
  holder     \* the task that holds each mutex, or Nobody

vars == <<running, ready, waiting, holder>>

Holds(t) == \E m \in Mutexes : holder[m] = t
Urgency(t) == IF Holds(t) THEN 0 ELSE t
MostUrgent(t, S) == t \in S /\ \A s \in S : t <= s

Init ==
  /\ running = Nobody
  /\ ready = {}
  /\ waiting = [q \in Queues |-> {}]
  /\ holder = [m \in Mutexes |-> Nobody]

\* The processor goes to the most urgent of the candidates; the others are ready.
SwitchAmong(candidates) ==
  \E t \in candidates :
    /\ MostUrgent(t, candidates)
    /\ running' = t
    /\ ready' = candidates \ {t}

\* A task set replaces the last one, in the idle task's name.  Who waits where
\* nobody is signalled would be forgotten: no such task is there.
Create(n) ==
  /\ running # Idle
  /\ running # Nobody => ~Holds(running)
  /\ \A q \in Queues \ Devices : waiting[q] = {}
  /\ running' = Idle
  /\ ready' = 1 .. n
  /\ waiting' = [q \in Queues |-> {}]
  /\ UNCHANGED holder

\* Then the most urgent of its tasks runs.
Start ==
  /\ running = Idle
  /\ SwitchAmong(ready \cup {Idle})
  /\ UNCHANGED <<waiting, holder>>

\* Nobody ever waits for a mutex.
Lock(m) ==
  /\ running \notin {Nobody, Idle}
  /\ holder[m] = Nobody
  /\ holder' = [holder EXCEPT ![m] = running]
  /\ UNCHANGED <<running, ready, waiting>>

\* The task goes on, even if it loses its urgency and a ready task has more.
Unlock(m) ==
  /\ running \notin {Nobody, Idle}
  /\ holder[m] = running
  /\ holder' = [holder EXCEPT ![m] = Nobody]
  /\ UNCHANGED <<running, ready, waiting>>

Wait(q) ==
  /\ running \notin {Nobody, Idle}
  /\ ~Holds(running)
  /\ waiting' = [waiting EXCEPT ![q] = @ \cup {running}]
  /\ SwitchAmong(ready)
  /\ UNCHANGED holder

\* All who wait for the devices become ready together.  Only then is the running
\* task compared with those that are ready.
Signal(due) ==
  LET woken == UNION {waiting[d] : d \in due}
      candidates == ready \cup woken
  IN  /\ woken # {}
      /\ waiting' = [q \in Queues |-> IF q \in due THEN {} ELSE waiting[q]]
      /\ IF \E t \in candidates : t < Urgency(running)
         THEN SwitchAmong(candidates \cup {running})
         ELSE running' = running /\ ready' = candidates
      /\ UNCHANGED holder

Next ==
  \/ \E n \in 1 .. Idle - 1 : Create(n)
  \/ Start
  \/ \E m \in Mutexes : Lock(m) \/ Unlock(m)
  \/ \E q \in Queues : Wait(q)
  \/ \E due \in SUBSET Devices : Signal(due)

Spec == Init /\ [][Next]_vars
=============================================================================
