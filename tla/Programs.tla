------------------------------ MODULE Programs ------------------------------
(***************************************************************************)
(* The test programs of lab 4 (part1tests and tasks) on the kernel: what   *)
(* main and each task function does, call by call, with every switch and   *)
(* tick of module Kernel between the calls.                                *)
(*                                                                         *)
(* A task works at the place that at gives.  A call returns a negated      *)
(* error or no error, and the stubs in libc/swi put the error in errno.    *)
(* Output is left out, but for the verdicts the programs give.             *)
(***************************************************************************)
EXTENDS Kernel

CONSTANTS
  Loaded,     \* the programs that are run
  ITE,        \* of cyclone: 30
  NUM_TASK    \* of stress: 60

\* The programs are written for the kernel's four devices (they wait for 0 to 3) and
\* its 32 mutexes (sys_err uses 0 and 1); stress has more tasks than devices.
ASSUME ProgramsAssumption ==
  /\ NumDevices >= 4 /\ NumMutexes >= 2
  /\ ITE \in Nat
  /\ NUM_TASK \in Nat /\ NumDevices + 2 < NUM_TASK /\ NUM_TASK < IDLE_PRIO

\* device.c:41, whose periods are 100, 200, 500 and 50: the tasks of mutex_chaser
\* are sorted by the periods of the devices that they wait for.
ASSUME RatesAssumption == Freq[3] <= Freq[0] /\ Freq[0] <= Freq[1] /\ Freq[1] <= Freq[2]

VARIABLES
  prog,
  b_set,      \* main sets the field B of its tasks (the copies in tasks/)
  at,         \* where main (under NULL) and each task function is
  i,          \* its local variable of that name, or cur_mutex
  reg,        \* the value it has read of a global
  errno,
  mem,        \* the globals of the program
  failed,     \* what the program found wrong
  late        \* history, of mutex_chaser: a tick came while more than the idle task ran

mains == <<prog, b_set>>
locals == <<at, i, reg>>
pvars == <<vars, mains, locals, errno, mem, failed, late>>

BSet == {"simple_mutex", "sys_err", "dagger"}
Globals ==
  CASE prog = "mutex_chaser" -> [m \in Mutexes |-> 2]
    [] prog = "simple_mutex" -> [even |-> [t \in 1 .. 3 |-> 1], once |-> 0, mid |-> -1]
    [] prog = "cyclone"      -> [ct |-> 0]
    [] prog = "stress"       -> [score |-> [t \in 1 .. NUM_TASK |-> 0], once |-> 0, flag |-> 0]
    [] OTHER                 -> [none |-> 0]

ProgramsInit ==
  /\ Init
  /\ prog \in Loaded
  /\ b_set \in (IF prog \in BSet THEN BOOLEAN ELSE {FALSE})
  /\ at = [t \in Tcbs \cup {NULL} |-> "start"]
  /\ i = [t \in Tcbs \cup {NULL} |-> 0]
  /\ reg = [t \in Tcbs |-> 0]
  /\ errno = "none"
  /\ mem = Globals
  /\ failed = {}
  /\ late = FALSE

-----------------------------------------------------------------------------
(* The system calls as a program sees them: what the kernel does and the     *)
(* result r of the call, ok or the error by its name.                        *)

Errors == {"EINVAL", "EFAULT", "EPERM", "EDEADLOCK", "ENOMEM", "EHOLDSLOCK", "ESCHED"}
ok == "OK"  \* not negative
\* Mutant of Stub: the result is stored whatever it is.
StubAlways(r) == errno' = r
\* Mutant of Stub: -1 is returned and errno is left as it is.
StubForgets(r) == errno' = errno
\* What the stubs make of an error.
Stub(r) == errno' = IF r \in Errors THEN r ELSE errno

create_stub(r) ==
  /\ Stub(r)
  /\ IF \E m \in Mutexes : bAvailable[m]
     THEN r = ok /\ \E m \in Mutexes : mutex_create(m)
     ELSE r = "ENOMEM" /\ UNCHANGED vars

\* Mutant of lock_result: a task that holds the mutex is not told so.
LockTwice(m) ==
  IF m \notin Mutexes THEN "EINVAL" ELSE IF bAvailable[m] THEN "EINVAL" ELSE ok

lock_result(m) ==
  IF m \notin Mutexes THEN "EINVAL"
  ELSE IF bAvailable[m] THEN "EINVAL"
  ELSE IF pHolding_Tcb[m] = cur_tcb THEN "EDEADLOCK" ELSE ok

lock_stub(m, r) ==
  /\ r = lock_result(m)
  /\ Stub(r)
  /\ IF r # ok THEN UNCHANGED vars
     ELSE IF bLock[m] THEN mutex_lock_sleep(m) ELSE mutex_lock(m)

unlock_result(m) ==
  IF m \notin Mutexes THEN "EINVAL"
  ELSE IF bAvailable[m] THEN "EINVAL"
  ELSE IF pHolding_Tcb[m] # cur_tcb THEN "EPERM" ELSE ok

unlock_stub(m, r) ==
  /\ r = unlock_result(m)
  /\ Stub(r)
  /\ IF r # ok THEN UNCHANGED vars
     ELSE IF mutex_queue[m] = <<>> THEN mutex_unlock(m) ELSE mutex_unlock_wake(m)

\* Mutant of wait_result: any number is taken for a device.
WaitUnchecked(d) == IF holds_lock[cur_tcb] > 0 THEN "EHOLDSLOCK" ELSE ok

wait_result(d) ==
  IF d > NumDevices THEN "EINVAL" ELSE IF holds_lock[cur_tcb] > 0 THEN "EHOLDSLOCK" ELSE ok

wait_stub(d, r) ==
  /\ r = wait_result(d)
  /\ Stub(r)
  /\ IF r = ok THEN event_wait(d) ELSE UNCHANGED vars

\* The checks at the head of task_create.
check_tasks(n, in_user) ==
  IF n >= IDLE_PRIO \/ n = 0 THEN "EINVAL" ELSE IF ~in_user THEN "EFAULT" ELSE ok

refused_stub(n, in_user, r) ==
  /\ r = check_tasks(n, in_user) /\ r # ok
  /\ Stub(r)
  /\ UNCHANGED vars

\* The tasks of every program pass the admission test, unless the field B of
\* one is whatever the stack of main held.
task_create_stub(n, r) ==
  /\ Stub(r)
  /\ \/ r = ok /\ task_create(n)
     \/ r = "ESCHED" /\ ~b_set /\ task_create_unschedulable

-----------------------------------------------------------------------------
Runs(p, t) == prog = p /\ InUser /\ cur_tcb = t
Goes(from, to) == at[cur_tcb] = from /\ at' = [at EXCEPT ![cur_tcb] = to]
Or(r, there) == IF r = ok THEN there ELSE "panic"
Counts(n) == i' = [i EXCEPT ![cur_tcb] = n]
Found(what, holds) == failed' = IF holds THEN failed ELSE failed \cup {what}
Own == UNCHANGED <<vars, errno>>  \* a step without a system call

\* The wait at the end of every loop.
waits(d) ==
  /\ \E r \in Errors \cup {ok} : Goes("wait", Or(r, "loop")) /\ wait_stub(d, r)
  /\ UNCHANGED <<i, reg, mem, failed>>

\* What main does with the tasks it has filled in, sorted by their periods.
starts(n) ==
  /\ \E r \in {ok, "ESCHED"} :
       /\ task_create_stub(n, r)
       /\ at' = IF r # ok THEN [at EXCEPT ![NULL] = "end"]
                ELSE [t \in Tcbs \cup {NULL} |-> IF t \in 1 .. n THEN "loop" ELSE at[t]]
  /\ at[NULL] = "start"
  /\ UNCHANGED <<reg, mem, failed>>

(* mutex_chaser: fun1 to fun4 by their periods. *)

\* Mutant of store: the value is the one before the lock was taken.
StoreEarlier(v) == mem' = [mem EXCEPT ![i[cur_tcb]] = v - reg[cur_tcb] + 2]
store(v) == mem' = [mem EXCEPT ![i[cur_tcb]] = v]

\* Mutant of locks: the loop goes one mutex too far.
LocksPastEnd ==
  /\ \E r \in Errors \cup {ok} : Goes("loop", Or(r, "locked")) /\ lock_stub(i[cur_tcb], r)
  /\ UNCHANGED <<i, reg, mem, failed>>
locks ==
  /\ i[cur_tcb] < NumMutexes
  /\ \E r \in Errors \cup {ok} : Goes("loop", Or(r, "locked")) /\ lock_stub(i[cur_tcb], r)
  /\ UNCHANGED <<i, reg, mem, failed>>
reads ==
  /\ Goes("locked", "read") /\ reg' = [reg EXCEPT ![cur_tcb] = mem[i[cur_tcb]]]
  /\ Own /\ UNCHANGED <<i, mem, failed>>
writes(v) ==
  /\ Goes("read", "written") /\ store(v)
  /\ Own /\ UNCHANGED <<i, reg, failed>>
unlocks ==
  /\ \E r \in Errors \cup {ok} : Goes("written", Or(r, "wait")) /\ unlock_stub(i[cur_tcb], r)
  /\ Counts(i[cur_tcb] + 1)
  /\ UNCHANGED <<reg, mem, failed>>
finishes == i[cur_tcb] = NumMutexes /\ Goes("loop", "wait") /\ Own /\ UNCHANGED <<i, reg, mem>>

chaser_fun1 ==
  /\ Runs("mutex_chaser", 1)
  /\ locks \/ reads \/ writes(reg[1] + 3) \/ unlocks \/ waits(3) \/ (finishes /\ UNCHANGED failed)
chaser_fun2 ==
  /\ Runs("mutex_chaser", 2)
  /\ locks \/ reads \/ writes(reg[2] * 11) \/ unlocks \/ waits(0) \/ (finishes /\ UNCHANGED failed)
chaser_fun3 ==
  /\ Runs("mutex_chaser", 3)
  /\ locks \/ reads \/ writes(reg[3] - 7) \/ unlocks \/ waits(1) \/ (finishes /\ UNCHANGED failed)

result_val == ((2 + 3) * 11 - 7) * 13
chaser_fun4 ==
  /\ Runs("mutex_chaser", 4)
  /\ \/ locks \/ reads \/ writes(reg[4] * 13) \/ unlocks \/ waits(2)
     \/ finishes /\ failed' = {m \in Mutexes : mem[m] # result_val}

\* The loops of the tasks begin with mutex 1.
chaser_main ==
  /\ Runs("mutex_chaser", NULL)
  /\ \/ /\ \E r \in {ok} : create_stub(r)
        /\ at[NULL] = "start"
        /\ UNCHANGED <<locals, mem, failed>>
     \/ /\ \A m \in Mutexes : ~bAvailable[m]
        /\ starts(4)
        /\ i' = [t \in Tcbs \cup {NULL} |-> 1]

(* simple_mutex *)

Even(t) == mem.even[t] = 1
SetEven(t, v) == mem' = [mem EXCEPT !.even[t] = v]

simple_fun1 ==
  /\ Runs("simple_mutex", 1)
  /\ \/ /\ mem.mid = -1
        /\ \E r \in {ok} : create_stub(r)
        /\ mem' = [mem EXCEPT !.mid = 0]
        /\ UNCHANGED <<locals, failed>>
     \/ /\ mem.mid # -1 /\ Even(1)
        /\ Goes("loop", IF mem.once > 0 THEN "!" ELSE "wait")
        /\ mem' = IF mem.once > 0 THEN mem ELSE [mem EXCEPT !.once = 1, !.even[1] = 0]
        /\ Own /\ UNCHANGED <<i, reg, failed>>
     \/ /\ mem.mid # -1 /\ ~Even(1)
        /\ \E r \in Errors \cup {ok} : Goes("loop", "e") /\ lock_stub(mem.mid, r)
        /\ UNCHANGED <<i, reg, mem, failed>>
     \/ Goes("e", "unlock") /\ SetEven(1, 1) /\ Own /\ UNCHANGED <<i, reg, failed>>
     \/ /\ \E r \in Errors \cup {ok} : Goes("unlock", "wait") /\ unlock_stub(mem.mid, r)
        /\ UNCHANGED <<i, reg, mem, failed>>
     \/ waits(0)

simple_fun2 ==
  /\ Runs("simple_mutex", 2)
  /\ \/ Even(2) /\ Goes("loop", "wait") /\ SetEven(2, 0) /\ Own /\ UNCHANGED <<i, reg, failed>>
     \/ /\ ~Even(2)
        /\ \E r \in Errors \cup {ok} : Goes("loop", "wait") /\ lock_stub(mem.mid, r)
        /\ UNCHANGED <<i, reg, mem, failed>>
     \/ waits(1)

\* Its else branch is for a second round, which the wait never lets come.
simple_fun3 ==
  /\ Runs("simple_mutex", 3)
  /\ \/ /\ \E r \in Errors \cup {ok} :
             /\ IF Even(3) THEN lock_stub(mem.mid, r) ELSE unlock_stub(mem.mid, r)
             /\ Goes("loop", "wait")
        /\ SetEven(3, 0)
        /\ UNCHANGED <<i, reg, failed>>
     \/ waits(2)

simple_main == Runs("simple_mutex", NULL) /\ starts(3) /\ UNCHANGED i

(* sys_err *)

\* The calls of fun1 after it has created every mutex, and what it expects of
\* errno, or of the result where that is 0.
Script ==
  << <<"create", 0, "ENOMEM">>, <<"unlock", NumMutexes + 1, "EINVAL">>, <<"unlock", 1, "EPERM">>,
     <<"lock", NumMutexes, "EINVAL">>, <<"lock", 0, ok>>, <<"lock", 0, "EDEADLOCK">>,
     <<"unlock", 0, ok>>, <<"event_wait", NumDevices + 1, "EINVAL">> >>

check_return(k, got, expected) == Found(k, got = expected)

Performs(call, r) ==
  CASE call[1] = "create" -> create_stub(r)
    [] call[1] = "lock"   -> lock_stub(call[2], r)
    [] call[1] = "unlock" -> unlock_stub(call[2], r)
    [] OTHER              -> wait_stub(call[2], r)

sys_err_fun1 ==
  /\ Runs("sys_err", 1)
  /\ \/ /\ i[1] < NumMutexes
        /\ \E r \in {ok} : create_stub(r)
        /\ at[1] = "loop"
        /\ Counts(i[1] + 1)
        /\ UNCHANGED <<at, reg, mem, failed>>
     \/ /\ i[1] >= NumMutexes /\ at[1] = "loop"
        /\ LET k == i[1] - NumMutexes + 1
           IN  \E r \in Errors \cup {ok} :
                 /\ Performs(Script[k], r)
                 /\ check_return(k + 2, IF Script[k][3] = ok THEN r ELSE errno', Script[k][3])
                 /\ at' = [at EXCEPT ![1] = IF k = Len(Script) THEN "end" ELSE "loop"]
        /\ Counts(i[1] + 1)
        /\ UNCHANGED <<reg, mem>>

sys_err_main ==
  /\ Runs("sys_err", NULL)
  /\ \/ /\ i[NULL] = 0
        /\ \E r \in Errors : refused_stub(IDLE_PRIO, TRUE, r)
        /\ Counts(1)
        /\ check_return(1, errno', "EINVAL")
        /\ UNCHANGED <<at, reg, mem>>
     \/ /\ i[NULL] = 1
        /\ \E r \in Errors : refused_stub(IDLE_PRIO \div 2, FALSE, r)
        /\ Counts(2)
        /\ check_return(2, errno', "EFAULT")
        /\ UNCHANGED <<at, reg, mem>>
     \/ i[NULL] = 2 /\ starts(1) /\ UNCHANGED i

(* stress: task t has the number t - 1; the last is fun2. *)

Min1(n) == IF n > 1 THEN 1 ELSE n  \* bound: the scores count up to one

\* The task sleeps before it waits (module Timer).
stress_fun1 ==
  \E t \in 1 .. NUM_TASK - 1 :
    /\ Runs("stress", t)
    /\ \/ /\ Goes("loop", "wait")
          /\ mem' = [mem EXCEPT !.score[t] = Min1(@ + 1)]
          /\ Own /\ UNCHANGED <<i, reg, failed>>
       \/ waits(t - 1)

stress_main == Runs("stress", NULL) /\ starts(NUM_TASK) /\ UNCHANGED i

(* cyclone *)

\* The lines after task_create in fun1 are reached where it is refused.
cyclone_fun1 ==
  /\ Runs("cyclone", 1)
  /\ \/ /\ Goes("loop", IF mem.ct + 1 > ITE THEN "ends" ELSE "sleep")
        /\ mem' = [mem EXCEPT !.ct = @ + 1]
        /\ Own /\ UNCHANGED <<i, reg, failed>>
     \/ Goes("sleep", "create") /\ Own /\ UNCHANGED <<i, reg, mem, failed>>
     \/ /\ at[1] = "create"
        /\ \E r \in {ok, "ESCHED"} :
             /\ task_create_stub(1, r)
             /\ at' = [at EXCEPT ![1] = IF r = ok THEN "loop" ELSE "never"]
             /\ Found("never", r = ok)
        /\ UNCHANGED <<i, reg, mem>>

cyclone_main == Runs("cyclone", NULL) /\ starts(1) /\ UNCHANGED i

(* dagger *)

prints == Goes("loop", "wait") /\ Own /\ UNCHANGED <<i, reg, mem, failed>>
dagger_fun1 == Runs("dagger", 1) /\ (prints \/ waits(0))
dagger_fun2 == Runs("dagger", 2) /\ (prints \/ waits(1))
dagger_main == Runs("dagger", NULL) /\ starts(2) /\ UNCHANGED i

-----------------------------------------------------------------------------
Works ==
  /\ \/ chaser_fun1 \/ chaser_fun2 \/ chaser_fun3 \/ chaser_fun4 \/ chaser_main
     \/ simple_fun1 \/ simple_fun2 \/ simple_fun3 \/ simple_main
     \/ sys_err_fun1 \/ sys_err_main
     \/ stress_fun1 \/ stress_main
     \/ cyclone_fun1 \/ cyclone_main
     \/ dagger_fun1 \/ dagger_fun2 \/ dagger_main
  /\ UNCHANGED <<mains, late>>

KernelWorks ==
  /\ dev_wait \/ dispatch_nosave \/ KernelExit
  /\ UNCHANGED <<mains, locals, errno, mem, failed, late>>
Ticks ==
  /\ timer_tick
  /\ late' = (late \/ (prog = "mutex_chaser" /\ num_tasks > 0 /\ ~(cur_tcb = IDLE_PRIO /\ pc[IDLE_PRIO] = "user")))
  /\ UNCHANGED <<mains, locals, errno, mem, failed>>

ProgramsNext == Works \/ KernelWorks \/ Ticks

\* The processor goes on, in the program and in the kernel, and the timer too.
ProgramsSpec ==
  ProgramsInit /\ [][ProgramsNext]_pvars /\ WF_pvars(Works \/ KernelWorks) /\ SF_pvars(Ticks)

-----------------------------------------------------------------------------
(* Properties *)

ProgramsTypeOK ==
  /\ prog \in Loaded /\ b_set \in BOOLEAN
  /\ at \in [Tcbs \cup {NULL} ->
              {"start", "loop", "locked", "read", "written", "wait", "panic", "e", "unlock", "!",
               "sleep", "create", "ends", "never", "end"}]
  /\ i \in [Tcbs \cup {NULL} -> 0 .. NumMutexes + Len(Script)]
  /\ reg \in [Tcbs -> Int]
  /\ errno \in Errors \cup {"none"}
  /\ late \in BOOLEAN

\* mutex_chaser: the numbers that the operations of a set of tasks can make of
\* the first one, one after the other in some order.
Apply(t, v) == CASE t = 1 -> v + 3 [] t = 2 -> v * 11 [] t = 3 -> v - 7 [] OTHER -> v * 13
Outcomes[T \in SUBSET (1 .. 4)] ==
  IF T = {} THEN {2} ELSE UNION {{Apply(t, v) : v \in Outcomes[T \ {t}]} : t \in T}
Passed(m) == {t \in 1 .. 4 : i[t] > m \/ (i[t] = m /\ at[t] = "written")}

\* However late the tasks are and wherever they are switched, no operation on a
\* number is lost or done twice: that is what the mutexes are for.
NothingLost ==
  prog = "mutex_chaser" => \A m \in Mutexes \ {0} : mem[m] \in Outcomes[Passed(m)]

\* mutex_chaser.c:29 "order of operations", with which the test wants to show
\* that "rate monotonic scheduling is preserved" (:11): as long as every task
\* sleeps again before the next tick, each number goes through the operations in
\* the order of the priorities, and fun4 finds all of them right except that of
\* mutex 0, which no task locks.  (A late task misses the signal of its device, and
\* another then passes it: the test would fail on a kernel that is correct.)
ChaserInOrder ==
  (prog = "mutex_chaser" /\ ~late) =>
    /\ \A m \in Mutexes : mem[m] \in {2, 5, 55, 48, 624}
    /\ failed \subseteq {0}

\* sys_err: every call that the kernel refuses leaves in errno what the test
\* expects of it, and every other call succeeds.
ErrnoAsExpected == prog = "sys_err" => failed = {}

\* The calls of the programs are refused only where they must be: fun2 and fun3
\* of simple_mutex wait with the mutex locked (simple_mutex.c:7 "This will not work
\* for part 2 of this lab"), and stress has more tasks than there are devices.
OnlyNotedPanic ==
  \A t \in Tcbs : at[t] = "panic" =>
    \/ prog = "simple_mutex" /\ t \in {2, 3}
    \/ prog = "stress" /\ t - 1 > NumDevices

\* ... where the first of them to panic spins above all the tasks after it: the
\* last, which is to judge the test, never gets the processor.  outputs/stress.txt is
\* the record of a run in which it does: "One more time" at lines 139 and 469, "Test
\* PASSED" at 892, and no panic.  That program was not the stress.c of the repository,
\* whose task of number 5 waits for a device 5 (stress.c:35) and is refused.
NeverJudged == prog = "stress" => cur_tcb # NUM_TASK

\* dagger.c and the others: the most urgent task comes back from event_wait, with
\* its device signalled and itself dispatched, again and again, whatever the
\* others do; but in simple_mutex one spins with a mutex held, at priority 0.
FirstTaskKeepsGoing ==
  (pc[1] = "dev_wait" /\ prog # "simple_mutex") ~> (cur_tcb = 1 /\ InTask)

\* A program of one task comes to its end: no call of it waits for itself
\* (mutex.c EDEADLOCK), and each task_create of cyclone starts the task again.
SingleTaskEnds ==
  (prog \in {"sys_err", "cyclone"} /\ num_tasks > 0) ~> at[1] \in {"end", "ends", "never"}

\* mutex_chaser: nothing is lost, and what comes in time comes in order.
ChaserWorks == NothingLost /\ ChaserInOrder

\* The kernel refuses, in every program, the calls that the program or a comment in it
\* says it does, with the error expected, and no others; but in stress, against the
\* record of its run, it refuses the waits for devices that are not there.
RefusalsExpected == ErrnoAsExpected /\ OnlyNotedPanic /\ NeverJudged
=============================================================================
