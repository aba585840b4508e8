------------------------------- MODULE Timer -------------------------------
(***************************************************************************)
(* The clock of the two kernels that have one: the counter and the match   *)
(* register of the PXA255, the handlers that count its matches, the widths *)
(* of the counts, and what is built on them: the periodic devices of lab   *)
(* 4 and the busy-wait sleep of labs 3 and 4.                              *)
(*                                                                         *)
(* Time passes in units of the counter.  A match waits in OSSR while       *)
(* interrupts are off, at most Latency units.  Lab 4 counts milliseconds,  *)
(* Resolution at a time; lab 3 counts ticks.                               *)
(***************************************************************************)
EXTENDS Integers

CONSTANTS
  Match,        \* counter units in a period: 32500
  CounterSize,  \* OSCR counts modulo this: 2^32
  CountSize,    \* timer_count counts modulo this: 2^32
  Resolution,   \* TIME_RESOLUTION: 10 milliseconds a tick
  Devices, Freq, \* dev_freq in milliseconds: multiples of Resolution
  Millis,       \* the arguments of sleep
  Latency       \* bound: the counter units a match may wait for the handler

ASSUME TimerAssumption ==
  /\ Match \in Nat \ {0} /\ CounterSize \in Nat /\ CounterSize > Match
  /\ Resolution \in Nat \ {0} /\ CountSize \in Nat /\ CountSize > Resolution
  /\ Freq \in [Devices -> {n * Resolution : n \in 1 .. CountSize \div Resolution - 1}]
  /\ Millis \subseteq 0 .. CountSize - 1
  /\ Latency \in 0 .. Match - 1

VARIABLES
  lab,          \* whose handler is installed: 3 or 4
  oscr, osmr0,  \* the counter and the match register 0
  ossr,         \* the match has been seen and not cleared
  timer_count,
  next_match,   \* the count at which each device is signalled
  end_time,     \* of the task in sleep, or -1
  \* The rest is what the properties measure, not state of the code:
  late,         \* counter units the match has been waiting
  phase,        \* counter units since the last whole period
  behind,       \* whole periods that have passed and are not counted
  since,        \* ticks since each device was signalled or armed
  asked, slept  \* the argument of sleep, and counter units since its call

clock == <<oscr, osmr0, ossr, late, phase, behind>>
devs == <<next_match, since>>
sleeper == <<end_time, asked, slept>>
vars == <<lab, clock, timer_count, devs, sleeper>>

MaxBehind == 2                           \* bound: behind stops there
MaxSlept == (CountSize \div Resolution) * Match  \* bound: slept stops there
Sleeping == end_time # -1
Inc(n) == (n + 1) % CounterSize

TypeOK ==
  /\ lab \in {3, 4}
  /\ {oscr, osmr0} \subseteq 0 .. CounterSize - 1 /\ ossr \in BOOLEAN
  /\ timer_count \in 0 .. CountSize - 1
  /\ next_match \in [Devices -> 0 .. CountSize - 1]
  /\ end_time \in -1 .. CountSize - 1
  /\ late \in 0 .. Latency /\ phase \in 0 .. Match - 1 /\ behind \in -1 .. MaxBehind
  /\ since \in [Devices -> Nat] /\ asked \in Nat /\ slept \in 0 .. MaxSlept

\* set_timer has restarted the counter; the devices are as the loader left them.
Init ==
  /\ lab \in {3, 4}
  /\ oscr = 0 /\ osmr0 = Match /\ ossr = FALSE
  /\ timer_count = 0
  /\ next_match = [d \in Devices |-> 0]
  /\ end_time = -1 /\ asked = 0 /\ slept = 0
  /\ late = 0 /\ phase = 0 /\ behind = 0
  /\ since = [d \in Devices |-> 0]

\* A unit of time: the counter meets the match register or passes it by.
pass ==
  /\ ossr => late < Latency
  /\ oscr' = Inc(oscr)
  /\ ossr' = (ossr \/ oscr' = osmr0)
  /\ late' = IF ossr THEN late + 1 ELSE 0
  /\ phase' = (phase + 1) % Match
  /\ behind' = IF phase' = 0 /\ behind < MaxBehind THEN behind + 1 ELSE behind
  /\ slept' = IF Sleeping /\ slept < MaxSlept THEN slept + 1 ELSE slept
  /\ UNCHANGED <<lab, osmr0, timer_count, devs, end_time, asked>>

Counted(step) ==
  /\ timer_count' = (timer_count + step) % CountSize
  /\ ossr' = FALSE /\ late' = 0
  /\ behind' = behind - 1
  /\ UNCHANGED <<lab, phase, sleeper>>

\* Lab 3: the counter starts again when the handler comes to it.
lab3_C_IRQ_handler ==
  /\ lab = 3 /\ ossr
  /\ Counted(1)
  /\ oscr' = 0
  /\ UNCHANGED <<osmr0, devs>>

Due(now) == {d \in Devices : next_match[d] <= now}
\* Mutant of Arm: the match is set a tick too early.
ArmShort(now, ds) ==
  /\ next_match' = [d \in Devices |-> IF d \in ds THEN (now + Freq[d] - Resolution) % CountSize
                                                  ELSE next_match[d]]
  /\ since' = [d \in Devices |-> IF d \in ds THEN 0 ELSE since[d] + 1]

Arm(now, ds) ==
  /\ next_match' = [d \in Devices |-> IF d \in ds THEN (now + Freq[d]) % CountSize
                                                  ELSE next_match[d]]
  /\ since' = [d \in Devices |-> IF d \in ds THEN 0 ELSE since[d] + 1]

\* Mutant of dev_update: a match that is passed is not seen.
UpdateOnEqual(now) == Arm(now, {d \in Devices : next_match[d] = now})

\* The tasks that dev_update makes ready are in module Kernel.
dev_update(now) == Arm(now, Due(now))

\* Mutant of next_osmr0: the next match is a period from now.
MatchFromNow == (oscr + Match) % CounterSize
next_osmr0 == (osmr0 + Match) % CounterSize

\* Lab 4: the match register moves on by a period.
C_IRQ_handler ==
  /\ lab = 4 /\ ossr
  /\ Counted(Resolution)
  /\ osmr0' = next_osmr0
  /\ dev_update(timer_count')
  /\ UNCHANGED oscr

\* Called by task_create at any time.
dev_init ==
  /\ lab = 4
  /\ next_match' = [d \in Devices |-> (timer_count + Freq[d]) % CountSize]
  /\ since' = [d \in Devices |-> 0]
  /\ UNCHANGED <<lab, clock, timer_count, sleeper>>

\* Mutant of EndTime: the sum is wider than the count.
EndUnwrapped(millis) ==
  timer_count + (IF lab = 4 THEN millis ELSE millis \div Resolution)

\* Mutant of EndTime: no count is waited for that the next tick brings.
EndRounded(millis) ==
  IF lab = 4 THEN (timer_count + (millis \div (2 * Resolution)) * Resolution) % CountSize
             ELSE (timer_count + millis \div (2 * Resolution)) % CountSize

EndTime(millis) ==
  IF lab = 4 THEN (timer_count + millis) % CountSize
             ELSE (timer_count + millis \div Resolution) % CountSize

\* Interrupts are on in both system calls: a match that waits is taken first.
sleep_syscall(millis) ==
  /\ ~Sleeping /\ ~ossr
  /\ end_time' = EndTime(millis)
  /\ asked' = millis /\ slept' = 0
  /\ UNCHANGED <<lab, clock, timer_count, devs>>

\* Mutant of StillWaiting: only the very count ends the sleep.
WaitForEqual == timer_count # end_time
StillWaiting == timer_count < end_time

\* The loop may be preempted, and looks again when its task runs.
sleep_return ==
  /\ Sleeping /\ ~StillWaiting
  /\ end_time' = -1
  /\ UNCHANGED <<lab, clock, timer_count, devs, asked, slept>>

Next ==
  \/ pass
  \/ lab3_C_IRQ_handler
  \/ C_IRQ_handler
  \/ dev_init
  \/ \E millis \in Millis : sleep_syscall(millis)
  \/ sleep_return

\* Time passes, a pending interrupt is taken, and a task that looks at the
\* clock again and again does so once while the count is high enough.
Spec == Init /\ [][Next]_vars
FairSpec ==
  Spec /\ WF_vars(pass) /\ WF_vars(C_IRQ_handler \/ lab3_C_IRQ_handler) /\ SF_vars(sleep_return)

-----------------------------------------------------------------------------
(* Properties *)

\* Lab 4 counts every period, late or not and over the wrap of the 32-bit
\* counter, as long as no code keeps interrupts off for a period; lab 3
\* restarts the counter in the handler and only falls behind: "Drift is added due
\* division and memory accesses" (Lab 3 C_SWI_handler.c:63).
Accurate ==
  LET pending == IF ossr THEN 1 ELSE 0
  IN  IF lab = 4 THEN behind = pending ELSE behind >= pending

\* device.c:40 "Devices will be periodically signaled at the following
\* frequencies": never later than that, although both counts are compared with
\* <= and wrap.
NeverLate == \A d \in Devices : lab = 4 => since[d] * Resolution < Freq[d]

\* ... and never earlier, except that a match that has wrapped before the count
\* did, or that no dev_init has set, is due at every tick.
EarlyOnlyOnceWrapped ==
  [][\A d \in Devices :
       (timer_count' # timer_count /\ lab = 4 /\ since'[d] = 0) =>
          (since[d] + 1) * Resolution = Freq[d] \/ next_match[d] <= timer_count]_vars

\* The ticks that a device has left by its match: none once the match has wrapped.
TicksLeft == [d \in Devices |->
  IF next_match[d] > timer_count THEN (next_match[d] - timer_count) \div Resolution ELSE 0]
DevicesTick == INSTANCE Countdown WITH
  Period <- [d \in Devices |-> Freq[d] \div Resolution], left <- TicksLeft

\* As long as no period goes over the end of the count, which is 49 days, the matches
\* are what module Kernel takes them for, numbers of ticks that count down.
Unwrapped == \A d \in Devices : timer_count + Freq[d] < CountSize
CountsDown ==
  [][lab = 4 /\ Unwrapped /\ Unwrapped' =>
       IF timer_count' # timer_count THEN DevicesTick!Tick
                                     ELSE DevicesTick!Reset \/ UNCHANGED TicksLeft]_vars

\* A device is signalled early only once it has wrapped; before, its ticks count down.
OnTimeUnlessWrapped == EarlyOnlyOnceWrapped /\ CountsDown

\* time.c:30 "Waits in a tight loop for atleast the given number of
\* milliseconds": short of it by less than a tick in lab 4, and by less than two
\* in lab 3, which drops the odd milliseconds too, if the end has not wrapped.
Wrapped == end_time < (IF lab = 4 THEN asked ELSE asked \div Resolution)
Short == IF lab = 4 THEN Resolution ELSE 2 * Resolution
SleepLongEnough ==
  [][(Sleeping /\ end_time' = -1) =>
       slept * Resolution > (asked - Short) * Match \/ Wrapped]_vars

\* A sleep ends, unless it waits for a count that the steps of the timer jump
\* over for ever.
SleepEnds ==
  (Sleeping /\ (lab = 4 => \E n \in 1 .. CountSize : (n * Resolution) % CountSize >= end_time))
     ~> ~Sleeping
=============================================================================
