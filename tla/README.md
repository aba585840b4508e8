# A verification development of the laboratory kernels

The repository holds the laboratory projects of an embedded-systems course: four
successive programs for an XScale (PXA255) board. Lab 1 is exercises; labs 2 and 3
run one user program under a small kernel that takes the machine over from U-Boot
and gives it back; `lab4/lab4` is a preemptive real-time kernel with tasks, mutexes
and periodic devices. This directory models them in TLA+, checks small instances
with TLC, and proves the main invariants with TLAPS. Paths below are relative to
the repository; `K/` stands for `lab4/lab4/kernel/`, `K3/` for
`Lab 3/lab3-support/kernel/`.

## 1. The system

### Parts, their state and operations

| part | source | state | operations |
|---|---|---|---|
| run queue | `K/sched/run_queue.c` | `run_list[64]`, `run_bits[8]`, `group_run_bits` | `runqueue_init`, `runqueue_add`, `runqueue_remove`, `highest_prio` |
| dispatcher | `K/sched/ctx_switch.c`, `ctx_switch_asm.S` | `cur_tcb`, the saved context of each TCB | `dispatch_init`, `dispatch_save`, `dispatch_nosave`, `dispatch_sleep`, `launch_task` |
| mutexes | `K/lock/mutex.c` | `gtMutex[32]`: available, locked, holder, sleep queue; in the TCB `holds_lock`, `cur_prio` | `mutex_init`, `mutex_create`, `mutex_lock`, `mutex_unlock` |
| devices | `K/device.c`, `event_wait` in `K/syscall/proc.c` | `devices[4]`: next match, sleep queue | `dev_init`, `dev_wait`, `dev_update`, `event_wait` |
| task creation | `task_create` in `K/syscall/proc.c`, `K/sched/sched.c`, `K/sched/ub_test.c` | `system_tcb[64]` | argument checks, sort by period, utilisation test, `allocate_tasks`, `sched_init` |
| clock | `K/arm/int_asm.S`, `C_IRQ_handler.c` of labs 3 and 4, `syscall/time.c` | `timer_count`, the OS timer's registers | `irq_wrapper`, `C_IRQ_handler`, `time`, `sleep` |
| system calls | `K/arm/swihandler.S`, `C_SWI_handler.c` | the caller's registers on its kernel stack | entry, dispatch, return |
| console | `syscall/io.c`, `memcheck.c`, `C_SWI_handler.c` of labs 2 and 3 | a line, the screen | `read`, `write` |
| boot and restore | `main.c`, `start.S`, `helper_functions.c`, `user_mode_setup.S`, `exit_handler.S` of labs 2 to 4 | the words of memory U-Boot's vectors lead to, the timer's and interrupt controller's registers, what is saved of them | `kmain`, `hijacking`, `set_timer`, `restore_timer`, `exit` |
| test programs | `lab4/lab4/part1tests`, `lab4/lab4/tasks` | globals, `errno` | `main` and the task functions of six programs |
| C library | `tasks/libc` of labs 3 and 4 | none, but the buffer of `printf` and the seed of `rand` | strings, numbers, printing, scanning |
| Lab 1 | `Lab1/Solution` | none that lasts | `oddball`, `strTable`, the calculator |

### How they interact

Boot overwrites the first two words of the handlers that U-Boot's two exception
vectors lead to, sets the timer and enters the user program in user mode. From then
on there are two ways into the kernel, the system call and the timer interrupt.

In lab 4 the program starts as *main*: user code with no TCB (`cur_tcb` is null). Its
`task_create` fills in TCBs 1..n, one for each priority, and the idle task's TCB
63, and switches to the most urgent task without saving anything: main never
resumes. From then on there is one processor and a fixed priority order. Tasks
make system calls; the timer interrupts every 10 ms wherever interrupts are
enabled, which includes most of a system call's code, and readies the tasks
asleep on the devices whose match has come. Four structures refer to the same
TCBs: `cur_tcb`, a slot of the run list, a device's sleep queue and a mutex's
sleep queue (the last two through one link field in the TCB). A mutex holder
competes at priority 0 (highest-locker protocol).

### What is hard about it

* A tick falls between any two instructions with interrupts enabled, in the
  middle of `event_wait`, `task_create` and the entry and exit of system calls too.
* A context switch suspends kernel code with interrupts off. The task resumes
  there, any number of events later, and acts on what it read before.
* A task must be in exactly one of the four structures.
* `mutex_lock` does not look at the mutex again after it slept, and
  `mutex_unlock` looks for a more urgent task only in one case.
* `task_create` may be called again, by a task, while the old set is anywhere.
* Error paths return after part of the work is done: a refused task set, a second
  vector that is not accepted.
* The clock is three counts that wrap at 2^32 with steps that do not divide it, and
  they are compared with `<=`.
* Interrupts are enabled before the timer and the vectors are ready in lab 3, and
  stay on while `exit` gives them back.
* The library works on bare memory: overlapping regions, strings without room,
  buffers that are just full.

`PROJECT.json` lists these as hazards, each at its line with the properties that
would catch it.

## 2. Modules

| module | what it is |
|---|---|
| `RunList` | the ready list as a function from priorities to TCBs; `HighestPrio`, `Put`, `Take` |
| `ReadyQueue` | abstract specification: a slot per priority, and a search for the most urgent occupied slot |
| `RunQueue` | the run queue with its two bitmaps; implements `ReadyQueue` |
| `PrioUnmap` | the literal `prio_unmap_table` |
| `Kernel` | dispatcher, mutexes, devices, task creation and the timer, over `RunList` |
| `Scheduler` | abstract specification: a fixed order of urgency over sets of ready and waiting tasks, and the holders of mutexes |
| `Countdown` | abstract specification: devices with a number of ticks left |
| `KernelInv` | two inductive invariants of `Kernel`: `InPlace`, under the intended use, and `OnePlace`, which every misuse but one keeps; and the mapping by which `Kernel` implements `Scheduler` |
| `Programs` | the six test programs, call by call; extends `Kernel` and is composed with it |
| `Exceptions` | registers, modes and kernel stacks on the way into and out of the kernel |
| `Timer` | counter, match register, `timer_count`, device matches and `sleep`, with their widths; its matches implement `Countdown` |
| `Boot` | taking the machine over and giving it back, labs 2 to 4 |
| `Strings`, `Numbers`, `Format`, `Stdio` | the C library: `string`, `stdlib`, and `stdio` in two layers, each extending the one before |
| `Console` | `read`, `write`, address checks, and the tasks of labs 2 and 3; extends `Stdio` |
| `Admission` | the order and the admission of a task set, and `math.c` |
| `Lab1` | the exercises of lab 1 |
| `RunList_proofs`, `RunQueue_proofs`, `Kernel_proofs`, `KernelInv_proofs`, `Programs_proofs`, `Exceptions_proofs`, `Timer_proofs`, `Boot_proofs` | theorems |
| `MCRunQueue`, `MCKernel`, `MCExceptions`, `MCTimer`, `MCBoot`, `MCPrograms`, `MCLibrary` | instances for TLC |

`RunQueue` keeps a byte as the set of its high bits. `PrioUnmap` and `MCLibrary` tie the
table to the lowest bit, `RunQueue` ties the bitmaps to `RunList`'s operators, and
`Kernel` uses those operators and implements `Scheduler`, on which the test programs run: the chain
from the literal table to them has no gap. `Countdown` is the link between the two modules
of devices: `Kernel` has its ticks for its devices, and `Timer` shows that the
processor's clock gives them, until it wraps.

### From the code to `Kernel`

* *Atomicity.* Code between `disable_interrupts` and `enable_interrupts`, and the
  interrupt handler, is one action. A context switch ends an action: `irq` is
  false afterwards and `pc` of the new task says which code finishes
  (`launch_task`, `syscall_return`, `irq_return`, `mutex_lock_resume`). While
  `irq` is false nothing else is enabled, as on the board.
* *Where tasks are.* `pc[t]` replaces the saved context: `launch` for a context
  made by `set_context`, `dev_wait` and so on for a suspended system call,
  `user` or `checked` for a task suspended by a tick.
* *TCBs* are their indices; 0 is the null pointer, because index 0 never is a task.
* *Sleep queues* are sequences.
* *Time.* `left[d]` is the number of ticks to device d's match, the variable of
  `Countdown`. The count and the match it stands for are in `Timer`, where
  `TicksLeft` computes the number from them.
* *Null contexts.* A switch that finds no task loads registers through a null
  pointer. The model stops there, and `SwitchFindsTask` is about it.
* *Device `NumDevices`*, which `event_wait` accepts (`proc.c:102`), has a queue of its
  own, which starts empty, overlaps nothing and is left alone by `dev_init` and
  `dev_update`. In the code it is the memory after `devices[]`; what the linker puts there
  is not established, and if it is a variable of the kernel the wait overwrites that. What
  is said of `device_past_end` is said for memory that is zero at boot and not used.
* *Links.* A TCB has one link for all sleep queues. `CutAfter`, `Unlinked` and `Joined` say
  what setting or clearing it does to every queue the task is on, not only to the one that
  the code has in hand.
* *main* never unlocks a mutex nor waits for a device: both would write through
  the null `cur_tcb`.

`Misuse` names the calls a correct program does not make but the code accepts:
creating tasks while holding a mutex (`create_holding_lock`), or while a task sleeps on a
queue that `task_create` does not empty, that of a mutex or of device `NumDevices`
(`create_over_sleepers`), creating from a
running task a set that is refused (`create_unschedulable`), and waiting for
device `NumDevices` (`device_past_end`). With `create_over_sleepers` the link of a task that
is created again is cleared: it is in its slot and still on the queue, and those behind
it are on no queue. `IntendedUse` excludes the first three. It
allows the last, which the kernel does not refuse: the task is lost to its program and,
as far as that memory is free, nothing else is disturbed. It still has tasks that create again, any call in any order,
and ticks anywhere.

### From the code to `Programs`

A step of `Programs` is a call of a task function together with the kernel action
that carries it out, or a statement that reads or writes a global, or one of the
kernel's own steps. `at[t]` is the place in the task function, `i` and `reg` its
local variables, `mem` the globals. Each stub has the result the code would give
(`lock_result`, `wait_result` and so on), and `Stub` says what becomes of `errno`, of
which there is one for all tasks. The programs differ between the two copies in
one respect only, whether main sets the field B of its tasks: `b_set`. Where it is
not set, the admission test may go either way.

### From the code to `Exceptions`

`Kernel` takes the entry to and exit from the kernel as given; `Exceptions` is
about them. An action is the instructions of `swihandler` between two places where
an interrupt can be taken; `irq_wrapper` runs with interrupts off and is one
action, or two if `C_IRQ_handler` dispatches another task. A register holds the
name of the task its value belongs to. There is one user bank (`ubank`: sp and lr of
user mode), one `spsr_svc` and one `lr_svc` for all tasks, and a kernel stack for each:
a stack of frames, with the two words under it (`below`), which an interrupt
overwrites. `C_SWI_handler` is the place `body`, where switches and ticks
happen. `TickAt` says at which places ticks fall: at all of them in the code, at
all but the three `Windows` in the run that passes and in the proofs. The model
starts when `task_create` leaves main's stack; a task that came back in supervisor
mode makes no more calls.

### From the code to `Timer`

Time passes one unit of the counter at a time (`pass`). A match sets `ossr` and
waits at most `Latency` units for the handler, since no code keeps interrupts off
longer. `phase`, `behind`, `since` and `slept` are not state of the code: they
measure what the properties speak of. `lab` chooses between the handler of lab 4,
which moves the match register on, and that of lab 3, which restarts the counter.
The wait of `sleep` is one action, enabled whenever the loop would end.

### From the code to `Boot`

Memory is the words that matter, at any addresses: the two vectors, the words an LDR in
them can refer to, and the first two of each handler (`Own`). `BootAssumption` says that
these do not overlap: `hijacking` looks at one word and writes two others. A vector is an LDR upwards or
downwards or another instruction. `hijacking` is the code's decision tree, with its mask. Each
statement of `kmain` and of `exit` after which an interrupt can come is an action, and
`timer_interrupt` is one that may come wherever `cpsr`, the controller and the timer let
it. `stack` has the words that `start.S`, `user_mode_setup` and `exit_handler.S` push and
pop. Lab 2 calls `user_mode_setup()` without arguments (`kernel.c:56`), so that r0 and r1
are what the compiler left there: the model lets lab 2 push U-Boot's arguments or any
number of unknown words. That an unknown r1 may be no address at all, and the copying abort,
is left out; so is that the status register of zero, which lab 3 gives back, has a mode
that the architecture leaves undefined: it is taken to do no harm. Where a vector is refused, the model ends with `0xbadc0de`: U-Boot may start the
kernel again, but then over other words.

### From the code to the library

A routine without state is an operator. Memory is a function of addresses
`0 .. Top`, a string in it is the front of that function up to a 0, and characters are
their codes, because the routines compare, mask and pad them; where only the value
matters a string is a sequence. `Bits` is the width of an int: `Signed` and `Unsigned` wrap.
A format is a sequence of items (`Char`, `Directive`, `Scans`), so that the parsing of
`%` is left out and what each directive does is kept. `read_syscall` is a fold over the
keys with the buffer, the count and what is echoed. What the model has of the
library is the same in labs 3 and 4 but for the declared type of `size_t`, as wide as a word
in both; the map names the files of lab 3, or of lab 4 where lab 3 has none.

## 3. What is checked

| run | states | shows |
|---|---|---|
| `MCRunQueue` | 2,137 | the run queue, of two bitmaps and a list, implements `ReadyQueue` |
| `Kernel_core` | 79,893 | intended use, 3 tasks, 2 mutexes, 2 devices, 2 creations: the safety properties, the inductive invariant, that the kernel implements `Scheduler`, and that sleepers are signalled |
| `Kernel_ghost` | 900,783 | with `create_holding_lock`, `create_over_sleepers` and 3 creations: on the path on which tasks wait for a mutex, which the intended use never takes, they are served first come, first served; a task can be lost only in slot 0; and only a creation over sleepers puts a task in two places |
| `Exceptions_harmless` | 161,250 | three tasks, ticks everywhere but in three windows: user mode, own registers, bounded stacks |
| `Timer` | 762,961 | both clocks: every period counted, devices never late, sleeps long enough and ended, each with the exceptions that wrapping makes |
| `Boot` | 3,576 | the three kernels with every kind of vector: what is taken over, what an interrupt can meet, what is given back |
| `Programs` | 203,340 | the six test programs on the kernel: what they compute, expect and fail at |
| `Library` | 30,809 | every routine without state, for every input of small sets, against a definition of its purpose |

Runs that end in a violation, each of one statement made by the repository:

| run | statement | what happens |
|---|---|---|
| `Kernel_inversion` | `mutex_chaser.c:11` rate-monotonic scheduling is preserved | a tick readies task 1 while task 2 holds a mutex; 2 unlocks and goes on |
| `Kernel_unschedulable` | `K/sched/ctx_switch.c:76` there is always an idle task to switch to | `-ESCHED` to a running task leaves an empty run queue, whose search returns 0, not IDLE_PRIO as `ctx_switch.c:41-42` has it |
| `Exceptions_psr` | `K/arm/int_asm.S:34-35` SWI code uses spsr only with IRQ disabled | a tick between lines 43 and 49 of `swihandler.S` overwrites it, and the task goes on in supervisor mode |
| `Boot_cpsr` | `K3/start.S:27` the CPSR is saved to restore at the end | `app_startup` zeroes the variable it was saved in, and `exit` restores a status register of zero |

The properties, besides one `TypeOK` per module:

* `NoTaskLost`: every task but the running one is in exactly one slot or queue.
* `HolderRuns`, `LocksCounted`: why mutual exclusion holds. The holder runs at
  priority 0 and cannot sleep, so no other task ever finds a mutex locked.
* `InversionOnlyAfterUnlock`: of all steps only the release of a task's last mutex
  can leave a more urgent task waiting. The violation above is thus the only one
  of its kind.
* `ImplementsScheduler`: each call, interrupt and switch does to who runs, who is
  ready, who waits and who holds what `Scheduler` says, or nothing: who sleeps
  gives way to the most urgent task, a tick wakes all who wait for the devices due before
  it compares anybody, and nobody is switched away from for a less urgent one.
  `SwitchToMostUrgent`, the part of it about switches, is a theorem too.
* `CreationQuiet`: the enabled-interrupt window at the end of `task_create`
  cannot corrupt the idle task's context.
* `FirstComeFirstServed`: a mutex releases tasks in the order in which they began to
  wait, until a creation has put a task in two places. It is checked in `Kernel_ghost`,
  where the sleep queues of mutexes are used, and proved for all misuse.
* `TangledOnlyByCreation`: nothing but a creation while a task sleeps on a queue that is kept
  puts a task in two places. In the code nothing refuses such a creation.
* `LostOnlyAtCeiling`: what is left of `NoTaskLost` when tasks replace the task
  set while they hold a mutex. A task can be lost then, as below, but only from priority 0 and
  only to another task of priority 0: never in a queue, in a switch or from the slot of its own.
  It too is said of steps from states in which no task is in two places.
* `SleeperSignalled`: a task that waits for a device is signalled in the end.
* `InPlace`, `ContextsInPlace`: inductive invariants of section 4. `IdleReady` (the
  idle task is there to be switched to) and `StacksBounded` (no kernel stack grows
  over its neighbour) follow from them, by proof.
* `RunsInUserMode`, `FindsOwnRegisters`: with one user bank and one
  `spsr_svc` for all tasks, each way out of the kernel brings back the caller's.
* `Timer`: `Accurate`, `NeverLate`, `OnTimeUnlessWrapped` (`EarlyOnlyOnceWrapped` and
  `CountsDown`, the steps of `Countdown`), `SleepLongEnough`, `SleepEnds`. A
  device whose match wraps before the count does is due at every tick until the
  count has wrapped too; a sleep whose end wraps returns at once; and one whose end lies
  above the last count that the steps reach never returns.
* `Boot`: `VectorsInHand`, `InterruptsReachKernel`, `GivenBack` (`Recoverable` and
  `ExitRestores`), `HandedOver` (`ArgumentsPassed`, of labs 3 and 4, and `GlobalDataFound`).
* `Programs`: `ChaserWorks` (`NothingLost` and `ChaserInOrder`), `RefusalsExpected`
  (`ErrnoAsExpected`, `OnlyNotedPanic` and `NeverJudged`), `FirstTaskKeepsGoing`,
  `SingleTaskEnds`.
* `Library`: one property for each group of routines, in `MCLibrary`: `StringsRight`,
  `StdioRight`, `ConsoleRight`, `KernelTablesRight`, `EarlyProgramsRight`,
  `AdmittedMeetDeadlines`.

Every property has a mutant: a definition with a plausible bug (in the modules,
marked *Mutant of*) under which TLC finds the property violated.

### What the runs say about the programs

* `mutex_chaser` loses no operation, and as long as every task sleeps again before
  the next tick its operations come in order: but `fun4` reports mutex 0, which no loop
  locks. The comment over the test has 61 for the result, the operations give
  624. A task that is late misses the signal of its device, another passes it,
  and the test fails on a correct kernel.
* `simple_mutex` stops in `fun2` and `fun3`, which wait with the mutex locked, as its
  comment says.
* `stress` never judges: the first task whose number is over that of the devices is
  refused, and spins above the one that would. The repository's record of a run disagrees:
  `lab4/lab4/outputs/stress.txt` has "One more time" at lines 139 and 469, "Test PASSED" at
  892, and no panic. It is the record of another program than the `stress.c` beside it,
  in which task 5 waits for device 5 (`stress.c:35`), a number that `event_wait`
  refuses (`proc.c:102`). The model follows the source.
* `sys_err` finds every error as it expects; `cyclone` is started again each time.

How a task is lost (`Kernel_ghost`; no program of the repository does it): a task that holds a
mutex calls `task_create`, which sets its counter `holds_lock` back to 0 and leaves it the
holder. It unlocks, which makes the counter -1; it locks a mutex again, which makes it
0 with priority 0. `event_wait` asks only the counter, so that the task may sleep while it
holds. When two such tasks are woken, both go to slot 0, and the second overwrites
the first: `runqueue_add` asks its callers that the slot is empty
(`run_queue.c:90-91`) and does not look.

How a task comes into two places: a task sleeps on a mutex, whose holder creates tasks, or
past the devices, and any task does. `task_create` empties the run queue and the devices'
queues and leaves that one. `set_context` clears the link of the sleeper and
`allocate_tasks` puts it in its slot, while the mutex's head still leads to it. Who slept
behind it is forgotten. Whatever task or tick next puts it on another queue links the two.

### What the runs say about boot and the library

* `hijacking` has the directions of an LDR the wrong way round, and its mask makes both
  the same. An LDR upwards, which U-Boot has, is followed; one downwards is taken for
  upwards, so that other words are overwritten (`VectorsInHand` leaves it out).
* Lab 2's program finds no arguments it can rely on (`kernel.c:56`); `ArgumentsPassed` is
  about labs 3 and 4.
* A refused kmain leaves ten words on U-Boot's stack, and the handler of the first
  vector overwritten where the second is refused. What was saved is enough to undo
  it (`Recoverable`), but nobody does.
* `str lr, [sp]` of `start.S` loses r4; ICLR and ICMR are exchanged after `exit`. Lab 2's
  `exit` writes the saved words over the variable that holds the handler's address
  and leaves the handler. Lab 4 has no `exit`.
* `strncpy` with a source as long as the count clears the memory behind; `strtol`
  reads 0 behind a plus sign; `snprintf` writes one byte more than its size; a string
  cut by its precision and adjusted to the left comes out one short; `putchar` shows the
  four bytes of an int; `read` may write the 0 one past the buffer; lab 3's `write`
  overwrites its error, lab 2's shows a byte more. In the example of the comment in
  `doprnt.c:101-103` the bit of BITTWO is set in 0xb and the output leaves it out: the code
  shows it.
* `write` of lab 4 looks at the address of the first byte only (`io.c:93-99`, where the
  count is still 0): a buffer that begins in the tasks' memory and reaches over its end is
  shown to its end. `read` looks after it has written the line (`io.c:74-77`): what it
  refuses with EFAULT is written all the same. `WriteChecked` and `ReadChecked` say both.
* The admission test accepts a set with a period of zero and no work: 0.0 / 0 is not
  greater than any bound.

These are written into the properties as the exceptions they are, each at its line.

### Bounds

The table and the run queue are checked at full size (256 entries, 64 slots),
with callers that use six slots: two in one group, the ends of groups, and the
idle slot's group. `Kernel` has three tasks under the idle task, so that there is a
running, a more urgent and a less urgent one; two mutexes, so that a task may hold
one of several; two devices with periods 2 and 3, so that events coincide and
alternate; and two creations (`MaxCreate`), so that a set is replaced. `MaxCreate`
is the only bound on behaviours in that run; the proofs hold for every value of it. With
`create_holding_lock` the counter `holds_lock` is bounded, in `CountersBounded`, to
-1 .. 1: a task that is given a mutex it slept on while another has taken it counts
one more than it can release, again and again, and the state space is infinite. The three
values are the one below zero, the zero at which `event_wait` lets a task sleep, and that at
which a release restores the priority. The proofs need no such bound.
`Kernel_ghost` has three creations, so that a set is replaced under holders and then again
over those who came to wait for them, and one device. `UntilTangled` stops it where a task has come into two
places: the step that gets there is checked, what follows is not explored.

`Exceptions` has three tasks, so that a task can be suspended in a tick, another in
a system call and a third run. Nothing else is bounded: stacks cannot grow
(`StacksBounded`).

`Timer` scales the numbers and keeps how they stand to each other: a period of 3 for
32500, a counter of 10 and a count of 26 in steps of 4 for 2^32 and 10, so that
neither wraps at a multiple of its step. `Latency` is less than a period: interrupts
that stay off longer are not modelled. `MaxBehind` and `MaxSlept` stop the two
measures where no property can tell the difference.

`Boot` has an offset of 3 words and nineteen addresses (`MCBoot`), by which all words
stay apart, and no arguments or two; the theorems are for any. `Programs` has three mutexes for 32 (one that nobody locks and two that
all do), four devices with periods that stand to each other as those of
`device.c`, `NUM_TASK` 7 for 60 so that there are tasks on both sides of
`NUM_DEVICES`, and three rounds of cyclone for 31. The scores of `stress` stop at one.
`Library` has words of 8 bits, memory of 13 bytes, a `printf` buffer of 3, and inputs in
which each special character and each length on both sides of a limit occurs.

### Fairness

`Kernel_core`: `WF_vars(KernelExit)`, the processor does not stop in code with
interrupts off; `SF_vars(timer_tick)`, the match stays pending in the timer's status
register until interrupts are enabled, and they are enabled again and again. Nothing
is assumed of what tasks call. `Timer`: time passes, a pending match is taken
(`WF`), and a task that looks at the count again and again does so once
while it is high enough (`SF` of `sleep_return`). The last is an assumption where a task of
low priority sleeps in lab 4: the more urgent ones must leave it the processor often enough. `Programs`: the processor goes on, in the program
or in the kernel (`WF`), and ticks come as above (`SF`).

## 4. What is proved

| theorem | states |
|---|---|
| `RunQueue_proofs`: `TypesAreKept`, `BitmapsAlwaysAgree`, `RunQueueImplements` | type correctness, `BitmapsAgree` (the bitmaps and the list agree after every call, on which the refinement rests) and the refinement of `ReadyQueue` by the run queue, for every set of tasks and slots |
| `Kernel_proofs`: `TypesAlwaysKept` | `Spec => []TypeOK`, with any misuse |
| `NeverInTwoPlaces` | `Spec => []OnePlace`, with any misuse but `create_over_sleepers` |
| `OnlyCreationTangles` | `TangledOnlyByCreation`, with any misuse: what the theorem before excludes is the only thing that breaks `OnePlace` |
| `AlwaysFirstComeFirstServed` | `FirstComeFirstServed`, with any misuse; the steps it speaks of are those from states with `OnePlace` |
| `LossesOnlyAtCeiling` | `LostOnlyAtCeiling`, with any misuse but `create_unschedulable`; likewise from states with `OnePlace` |
| `KernelTicks` | the devices of `Kernel` implement `Countdown`, with any misuse |
| `KernelInv_proofs`: `AlwaysInPlace` | `IntendedUse` implies `Spec => []InPlace`, for every number of tasks, mutexes, devices, every period and any number of creations |
| `TasksNeverLost`, `IdleAlwaysReady`, `HolderAlwaysRuns`, `LocksAlwaysCounted`, `CreationAlwaysQuiet` | the invariants of `Kernel_core` and `IdleReady`, from `InPlace` |
| `KernelImplementsScheduler` | `ImplementsScheduler`, the refinement of `Scheduler` by `Kernel`, under `IntendedUse` |
| `SwitchesAreUrgent`, `InversionsFromUnlock` | the action properties `SwitchToMostUrgent` and `InversionOnlyAfterUnlock`, under `IntendedUse` |
| `Programs_proofs`: `ProgramsAlwaysInPlace` | `ProgramsSpec => []ProgramsInPlace`, for any numbers of mutexes and devices the programs can do with, any `ITE` and `NUM_TASK` |
| `ProgramsUseKernel` | `ProgramsSpec => Spec`: the programs are tasks of the kernel |
| `ProgramsFindScheduler` | the programs run on `Scheduler`: five of them always, `cyclone` as long as no creation is refused |
| `ProgramsTypesKept`, `ChaserAlwaysWorks`, `RefusalsAlwaysExpected` | the invariants of `Programs` |
| `Exceptions_proofs`: `ContextsAlwaysInPlace` | `QuietWindows` implies that registers and stacks are determined by each task's place, for any number of tasks |
| `TypesAlwaysKept`, `AlwaysInUserMode`, `RegistersAlwaysFound`, `StacksAlwaysBounded` | the invariants of `Exceptions_harmless` and `StacksBounded`, under `QuietWindows` |
| `Timer_proofs`: `ClockAlwaysInPlace`, `SleepAlwaysInPlace` | `Spec => []TimerInv` and `Spec => []SleepInv`, for every period, width, latency, resolution and set of devices |
| `CountsKeepTheirTypes`, `EveryPeriodCounted`, `DevicesNeverLate`, `DevicesEarlyOnlyWrapped`, `SleepsLongEnough` | the invariants of `Timer`, with `EarlyOnlyOnceWrapped` by itself, from these two |
| `TicksCountDown`, `DevicesOnTime` | `CountsDown` and with it `OnTimeUnlessWrapped`: a tick and a new task set do to the ticks left what `Countdown` says, as long as nothing wraps |
| `ClockImplementsCountdown` | the matches of lab 4 implement `Countdown` in a behaviour in which nothing wraps |
| `Boot_proofs`: `BootAlwaysInPlace` | `Spec => []BootInv`, for any addresses and contents of U-Boot's vectors and handlers and any numbers of arguments |
| `BootTypeOK`, `VectorsAlwaysInHand`, `InterruptsAlwaysReachKernel`, `AlwaysGivenBack`, `AlwaysHandedOver` | the invariants of `Boot` |

The assumptions are `RunQueueAssumption`, `KernelAssumption`, `ExceptionsAssumption`,
`TimerAssumption`, `BootAssumption` (U-Boot's words are apart), `ProgramsAssumption` (there
are the mutexes and devices that the programs name, and more tasks of `stress` than
devices), `RatesAssumption` (the order of the periods in `device.c:41`, which the
order of the tasks of `mutex_chaser` follows), and `IntendedUse` or `QuietWindows` where
stated. TLC evaluates them in the runs.

### The kernel

`NoTaskLost` is not inductive: that a task is in one queue
depends on where the running one is, on no holder being able to sleep (so that
`cur_prio` is the native priority of everyone who is queued and slots cannot
collide), and on the links of two queues having no task in common. `InPlace` says
all of that: `RunningInPlace` (who runs and where in the code), `HoldersInPlace` (only
the running task holds, nobody waits), `CountersInPlace`, `ReadyInPlace` (slot
p holds task p or nobody), `SleepersInPlace` (sleepers are distinct, live, not
running and not ready) and `NobodyMissing`. The proof has a lemma for each action; that
the three actions of the waiting path are impossible is the lemma `NobodyWaits`. TLC
checks `InPlace` in `Kernel_core`.

The action properties need one thing more: between a switch and the return to the
task, no ready task is more urgent than the one switched to (`SwitchedToHighest`).
Otherwise the step that enables interrupts could begin an inversion. It holds because
nothing but the three steps that switch leaves interrupts off (`OthersEnabled`), and
nothing but that return happens while they are (`OffTheWay`).

The refinement of `Scheduler` takes the slots for a set of ready tasks, each device's queue
for a set of waiting ones and `pHolding_Tcb` for the holders; counters, contexts, ticks and
`irq` have no counterpart, and an exit from the kernel is a stutter. `InPlace` makes
this a refinement. Slot p holds task p, so that the search of the run queue finds the least
of the ready set; the tasks that a tick wakes go to different slots, so that `dev_update`
adds all of them; and no holder sleeps, so that the urgency of who runs is 0 exactly if it
holds. `Create` of `Scheduler` asks that nobody waits where no device signals: that tasks do
not create over sleepers is part of the intended use.

With misuse `InPlace` is lost: tasks with priority 0 and no lock overwrite each other in
slot 0, sleep queues of mutexes are used, and the idle task can be missing. What remains
is `OnePlace`: priorities are 0 or native, a slot holds a task of its priority, and
nobody is in two places. Where it holds, the operations on links are plain: each changes
one queue only, at its end or head (the lemmas `LockSleepIsPlain`, `UnlockWakeIsPlain`,
`DevWaitIsPlain`, `TickIsPlain`), so that every step but a creation over sleepers keeps it.
It is just enough for the order in which tasks get a mutex.
The step that needs it is the release that wakes a task and then preempts the one that
released it. `runqueue_add` is called twice and could overwrite the woken task; but
only a task with a priority over 0 is preempted, and that priority is its own
(`WokenIsReady`).

`LossesOnlyAtCeiling` rests on the same two facts. A slot over 0 belongs to one task, so that
nobody can be overwritten in it; and who is preempted had a priority over 0, so that
putting it back overwrites nobody. For each action it then remains to follow the tasks
it moves: one taken off a queue is the one that runs or is in its slot, unless that slot is 0
and another of those woken came later (`Outdone`, which is the case the property
names). The reset of `task_create` puts every task in a slot, if the set is not refused:
a refused one leaves the run queue empty, which is why `create_unschedulable` is excluded
and what `Kernel_unschedulable` shows. `event_wait` and `dev_wait` are two steps, and
that the queue the task goes to exists was checked in the first (`CheckedArg`).

### The test programs

Each step of a program is a step of the kernel, and of its intended use for all but
`cyclone`, which creates a set that is refused from a running task. So `InPlace`
holds under the programs (`KernelInPlace`), and what a call gets is known. `Base` types
the places and locals; each program adds what its mutexes and counters
are at each place (`ChaserInPlace`, `SysErrInPlace`, `SimpleInPlace`). For `stress`
the invariant is that task `NumDevices + 2` (`Spinner`), whose wait is refused, never
sleeps once it is reached, so that the processor goes to no task behind it
(`StressInPlace`): the one that judges is behind.

That no operation of `mutex_chaser` is lost (`NothingLost`) follows from the mutex each
task holds while it has read a number. `Outcomes` is a recursive function on sets of
tasks; that the definition defines something is the lemma `OutcomesUnfold`. The order of the
operations needs time. As long as no task is late, a tick finds only the idle task
running, so that every signal finds its task asleep and every task does one round for a
signal, after the tasks before it (`TurnsInPlace`). Then rounds can be counted:
at tick n the task with period P that has been signalled k times and whose device has `left`
ticks to go has n = k P + P - left (`InRound`). Of two devices the one
with the shorter period has thus never been signalled less often (`Rates`), and its task is
ahead in the numbers up to the last (`RoundsInPlace`, where `Cap` stops the count at
the number of mutexes). Each number has been through the operations of the first
tasks, in order, and no others (`NumbersInPlace`).

### Registers and stacks

`QuietWindows` says that no tick falls in the three windows; the violation
shows that it cannot be dropped. `ContextsInPlace` is the inductive invariant: a task
that runs has the stack `StackAt` of its place and the registers `RegistersAt`; a
task suspended in a system call has the stack of `body`; and one suspended by a tick
has the stack of the place it was interrupted at with one frame on top, whose
content satisfies what that place demands. `RunsInUserMode` alone says nothing of the
frames that a return will pop.

### The clock

`Accurate` counts periods and says nothing of when the next match comes. `TimerInv` adds
`ClockInPlace`: in lab 4 the match register is as far from the counter as the period has
to go, or was passed `late` units ago, modulo the counter; in lab 3 the counter never is
ahead of the period. `DevicesInPlace` puts each match either exactly the rest of
its period ahead of the count, or below it with the device just signalled; that is why
no device can be late, and why one is early only if its match wrapped. It is also why the matches
count down: the ticks left are the distance of a match in counts, which are whole
multiples of the resolution. `Unwrapped` says that no period reaches over the end of the
count, which takes 49 days; then the tick that takes the last of a device's ticks is the one
at which `dev_update` finds its match passed.

`SleepLongEnough` compares time that has passed with counts. `SleepInPlace` says while a task
sleeps that the time since it began, and the part of a period that had already passed then,
is at least the counts since then, in periods, unless the end of the sleep
wrapped or the measure stands at its bound.

### Boot and restore

`BootInv` says of each step of `kmain`, the program and `exit` what is where: which handlers
are overwritten (`Held`), of which the words are kept (`Kept`), that the rest of the memory
is U-Boot's (`MemoryInPlace`), what the registers of the timer and the controller can
be and where their old values are (`RegistersInPlace`), the words on both stacks, the
mode, and the kernel's variables. None of the properties is inductive: `Recoverable` does not
say which handler is still held, so that the next step of `exit` could write the words of one
twice and of the other never; and `InterruptsReachKernel` does not say that the timer is
still off before the kernel's handler and its stack are in place.

### Only model-checked

* Liveness (`SleeperSignalled`, `SleepEnds`, `FirstTaskKeepsGoing`, `SingleTaskEnds`),
  which is out of the prover's reach.
* The library (`StringsRight`, `StdioRight`, `ConsoleRight`, `EarlyProgramsRight`,
  `KernelTablesRight`, `AdmittedMeetDeadlines`): its operators are recursive (`Format`), or folds
  and choices over data that would need induction.
* The four runs that end in a violation, which are counterexamples.

## 5. Not modelled

* U-Boot: its functions are external, and only what the kernels read from it is
  there. The stubs of its interface jump.
* `assert.c` and `raise.c`, which print and stop; the accessors of registers, which
  are part of the actions that use them.
* The third version of `oddball` (`OPTIMIZE2`), which does not compile; `hello`, `exit`, `splat` and
  `twister`, which only print or wait.
* Of `doprnt.c` the conversions that no program uses and a radix of zero cannot
  carry out; `%[` of `doscan.c`; the endless `%s` behind the end of its input.
* Interrupts kept off for a period or more: the match register would fall behind the
  counter for a whole turn of it.
* What follows once a task is in two places: the queues may then run into one another or in a
  circle, and a sequence cannot show a circle. The step that gets there is modelled.
* Sets of tasks with a period of zero (`AdmittedMeetDeadlines` leaves them out, because they
  have no deadline to meet); the tick in the first two instructions of `swihandler`, which
  the model has but no run shows; and a program of several tasks whose verdict depends
  on the one `errno`: the repository has none.

What is left to do: queues as links, for what follows a creation over sleepers; interrupts that
come later than a period; and proofs of what the library computes, which need induction.
