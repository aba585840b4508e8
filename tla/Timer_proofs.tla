---------------------------- MODULE Timer_proofs ----------------------------
(***************************************************************************)
(* For every period, width, resolution, set of devices and their           *)
(* frequencies: the counts keep their types, lab 4 counts every period,    *)
(* and its devices are never late, nor early but where a match wrapped.    *)
(***************************************************************************)
EXTENDS Timer, TLAPS

\* A remainder, of numbers that wrap at most once.
LEMMA ModSmall == ASSUME NEW n \in Nat, NEW a \in 0 .. n - 1 PROVE a % n = a
  BY SMT
LEMMA ModOnce == ASSUME NEW n \in Nat \ {0}, NEW a \in n .. n + n - 1 PROVE a % n = a - n
  BY SMT
LEMMA ModOfSum ==
  ASSUME NEW n \in Nat \ {0}, NEW a \in 0 .. n - 1, NEW b \in 0 .. n, n <= a + b
  PROVE  (a + b) % n = a + b - n
  BY SMT
LEMMA ModRange == ASSUME NEW n \in Nat \ {0}, NEW a \in Int PROVE a % n \in 0 .. n - 1
  BY SMT

\* A multiple that is short of another is so by the factor at least.
LEMMA NextMultiple == ASSUME NEW r \in Nat, NEW s \in Nat PROVE (s + 1) * r = s * r + r
  BY SMT
LEMMA MultipleGap ==
  ASSUME NEW r \in Nat, NEW s \in Nat, NEW n \in Nat, s * r < n * r
  PROVE  s * r + r <= n * r
  BY SMT

\* Where the clock is in its period.  In lab 4 the match register is as far from
\* the counter as the period has to go, or was passed when the match was seen; in
\* lab 3 the counter is behind the period by what the handlers took.
ClockInPlace ==
  /\ ~ossr => late = 0
  /\ lab = 4 =>
       /\ ossr => phase = late /\ behind = 1 /\ (osmr0 = oscr - phase \/ osmr0 = oscr - phase + CounterSize)
       /\ ~ossr => behind = 0 /\ \/ osmr0 = oscr + Match - phase
                                 \/ osmr0 = oscr + Match - phase - CounterSize
  /\ lab = 3 =>
       /\ osmr0 = Match
       /\ ossr => behind >= 1
       /\ ~ossr => behind >= 0 /\ oscr < Match /\ (behind = 0 => oscr <= phase)

\* How far each device is from its next signal: the time that is left of its
\* period, or a match that wrapped when it was armed, or was never armed.
DeviceInPlace(d) ==
  \/ /\ since[d] * Resolution < Freq[d]
     /\ next_match[d] = timer_count + Freq[d] - since[d] * Resolution
  \/ /\ since[d] = 0
     /\ next_match[d] \in {0, timer_count + Freq[d] - CountSize}
DevicesInPlace == lab = 4 => \A d \in Devices : DeviceInPlace(d)

TimerInv == TypeOK /\ ClockInPlace /\ DevicesInPlace

\* What the assumption gives of the constants.
LEMMA Sizes ==
  /\ Match \in Nat \ {0} /\ CounterSize \in Nat \ {0} /\ Match < CounterSize
  /\ Resolution \in Nat \ {0} /\ CountSize \in Nat \ {0} /\ Resolution < CountSize
  /\ Latency \in Nat /\ Latency < Match
  /\ MaxSlept \in Nat
<1>1. CountSize \div Resolution \in Nat
  BY TimerAssumption, SMT
<1> QED
  BY <1>1, TimerAssumption, SMT DEF MaxSlept

LEMMA Frequencies ==
  ASSUME NEW d \in Devices
  PROVE  /\ Freq[d] \in Nat /\ Resolution <= Freq[d] /\ Freq[d] + Resolution <= CountSize
         /\ \A s \in Nat : s * Resolution < Freq[d] => s * Resolution + Resolution <= Freq[d]
<1>1. PICK n \in 1 .. CountSize \div Resolution - 1 : Freq[d] = n * Resolution
  BY TimerAssumption
<1>2. n \in Nat /\ n >= 1
  BY <1>1, Sizes, SMT
<1>3. n + 1 <= CountSize \div Resolution
  BY <1>1, Sizes, SMT
<1>4. (CountSize \div Resolution) * Resolution <= CountSize
  BY Sizes, SMT
<1>5. (n + 1) * Resolution <= (CountSize \div Resolution) * Resolution
  BY <1>2, <1>3, Sizes, SMT
<1>6. Resolution <= n * Resolution /\ n * Resolution \in Nat
  BY <1>2, Sizes, SMT
<1>7. \A s \in Nat : s * Resolution < n * Resolution => s * Resolution + Resolution <= n * Resolution
  BY <1>2, MultipleGap, Sizes
<1>8. (n + 1) * Resolution = n * Resolution + Resolution
  BY <1>2, NextMultiple, Sizes
<1>9. CountSize \div Resolution \in Nat
  BY Sizes, SMT
<1> QED
  BY <1>1, <1>2, <1>4, <1>5, <1>6, <1>7, <1>8, <1>9, Sizes, SMT

-----------------------------------------------------------------------------
LEMMA InitInPlace == Init => TimerInv
<1> SUFFICES ASSUME Init PROVE TimerInv
  OBVIOUS
<1>1. TypeOK
  <2>1. since \in [Devices -> Nat] /\ next_match \in [Devices -> 0 .. CountSize - 1]
    BY Sizes, SMT DEF Init
  <2>2. /\ 0 \in 0 .. CounterSize - 1 /\ Match \in 0 .. CounterSize - 1 /\ 0 \in 0 .. CountSize - 1
        /\ -1 \in -1 .. CountSize - 1 /\ 0 \in 0 .. Latency /\ 0 \in 0 .. Match - 1
        /\ 0 \in -1 .. MaxBehind /\ 0 \in 0 .. MaxSlept
    BY Sizes, SMT DEF MaxBehind
  <2> QED
    BY <2>1, <2>2 DEF Init, TypeOK
<1>2. ClockInPlace
  BY Sizes, SMT DEF Init, ClockInPlace
<1>3. DevicesInPlace
  BY DEF Init, DevicesInPlace, DeviceInPlace
<1> QED
  BY <1>1, <1>2, <1>3 DEF TimerInv

\* What a unit of time does to the counter and the period.
LEMMA PassMoves ==
  ASSUME TimerInv, pass
  PROVE  /\ oscr' = IF oscr = CounterSize - 1 THEN 0 ELSE oscr + 1
         /\ phase' = IF phase = Match - 1 THEN 0 ELSE phase + 1
<1>1. oscr \in 0 .. CounterSize - 1 /\ phase \in 0 .. Match - 1
  BY DEF TimerInv, TypeOK
<1>2. oscr' = IF oscr = CounterSize - 1 THEN 0 ELSE oscr + 1
  <2>1. CASE oscr = CounterSize - 1
    BY <1>1, <2>1, ModOnce, Sizes, SMT DEF pass, Inc
  <2>2. CASE oscr # CounterSize - 1
    <3>1. oscr + 1 \in 0 .. CounterSize - 1
      BY <1>1, <2>2, Sizes, SMT
    <3> QED
      BY <2>2, <3>1, ModSmall, Sizes DEF pass, Inc
  <2> QED
    BY <2>1, <2>2
<1>3. phase' = IF phase = Match - 1 THEN 0 ELSE phase + 1
  <2>1. CASE phase = Match - 1
    BY <1>1, <2>1, ModOnce, Sizes, SMT DEF pass
  <2>2. CASE phase # Match - 1
    <3>1. phase + 1 \in 0 .. Match - 1
      BY <1>1, <2>2, Sizes, SMT
    <3> QED
      BY <2>2, <3>1, ModSmall, Sizes DEF pass
  <2> QED
    BY <2>1, <2>2
<1> QED
  BY <1>2, <1>3

LEMMA PassKeeps == ASSUME TimerInv, pass PROVE TimerInv'
<1> USE DEF TimerInv
<1>1. /\ oscr \in 0 .. CounterSize - 1 /\ osmr0 \in 0 .. CounterSize - 1
      /\ phase \in 0 .. Match - 1 /\ late \in 0 .. Latency
      /\ ossr \in BOOLEAN /\ behind \in -1 .. MaxBehind /\ lab \in {3, 4}
  BY DEF TypeOK
<1>2. oscr' = IF oscr = CounterSize - 1 THEN 0 ELSE oscr + 1
  BY PassMoves
<1>3. phase' = IF phase = Match - 1 THEN 0 ELSE phase + 1
  BY PassMoves
<1>4. /\ ossr' <=> (ossr \/ oscr' = osmr0)
      /\ ossr' \in BOOLEAN /\ late' = IF ossr THEN late + 1 ELSE 0
      /\ behind' = IF phase' = 0 /\ behind < MaxBehind THEN behind + 1 ELSE behind
      /\ ossr => late < Latency
      /\ lab' = lab /\ osmr0' = osmr0
  BY DEF pass
<1>5. TypeOK'
  <2>1. slept' \in 0 .. MaxSlept
    BY Sizes, SMT DEF pass, TypeOK
  <2>2. /\ oscr' \in 0 .. CounterSize - 1 /\ late' \in 0 .. Latency /\ phase' \in 0 .. Match - 1
        /\ behind' \in -1 .. MaxBehind
    BY <1>1, <1>2, <1>3, <1>4, Sizes, SMT DEF MaxBehind
  <2> QED
    BY <1>4, <2>1, <2>2 DEF pass, TypeOK, devs
<1>6. ClockInPlace'
  <2>0. ~ossr' => late' = 0
    BY <1>1, <1>4
  <2>1. CASE lab = 4
    <3>1. CASE ossr
      <4>1. ossr' /\ late' = late + 1 /\ phase' = phase + 1 /\ behind' = 1
        BY <1>1, <1>3, <1>4, <2>1, <3>1, Sizes, SMT DEF ClockInPlace
      <4> QED
        BY <1>1, <1>2, <1>4, <2>1, <3>1, <4>1, Sizes, SMT DEF ClockInPlace
    <3>2. CASE ~ossr
      <4>1. oscr' = osmr0 <=> phase = Match - 1
        BY <1>1, <1>2, <2>1, <3>2, Sizes, SMT DEF ClockInPlace
      <4>2. CASE phase = Match - 1
        BY <1>1, <1>2, <1>3, <1>4, <2>1, <3>2, <4>1, <4>2, Sizes, SMT DEF ClockInPlace, MaxBehind
      <4>3. CASE phase # Match - 1
        BY <1>1, <1>2, <1>3, <1>4, <2>1, <3>2, <4>1, <4>3, Sizes, SMT DEF ClockInPlace, MaxBehind
      <4> QED
        BY <4>2, <4>3
    <3> QED
      BY <3>1, <3>2
  <2>2. CASE lab = 3
    <3>1. CASE ossr
      BY <1>1, <1>4, <2>2, <3>1, Sizes, SMT DEF ClockInPlace, MaxBehind
    <3>2. CASE ~ossr
      BY <1>1, <1>2, <1>3, <1>4, <2>0, <2>2, <3>2, Sizes, SMT DEF ClockInPlace, MaxBehind
    <3> QED
      BY <3>1, <3>2
  <2> QED
    BY <1>1, <2>1, <2>2
<1>7. DevicesInPlace'
  BY DEF pass, devs, DevicesInPlace, DeviceInPlace
<1> QED
  BY <1>5, <1>6, <1>7

\* The count of milliseconds after a tick.
LEMMA CountAfterTick ==
  ASSUME TimerInv, timer_count' = (timer_count + Resolution) % CountSize
  PROVE  timer_count' = IF timer_count + Resolution < CountSize THEN timer_count + Resolution
                        ELSE timer_count + Resolution - CountSize
<1>1. timer_count \in 0 .. CountSize - 1
  BY DEF TimerInv, TypeOK
<1>2. CASE timer_count + Resolution < CountSize
  <2>1. timer_count + Resolution \in 0 .. CountSize - 1
    BY <1>1, <1>2, Sizes, SMT
  <2> QED
    BY <1>2, <2>1, ModSmall, Sizes
<1>3. CASE ~(timer_count + Resolution < CountSize)
  <2>1. timer_count \in 0 .. CountSize - 1 /\ Resolution \in 0 .. CountSize /\ CountSize <= timer_count + Resolution
    BY <1>1, <1>3, Sizes, SMT
  <2>2. (timer_count + Resolution) % CountSize = timer_count + Resolution - CountSize
    BY <2>1, ModOfSum, Sizes
  <2> QED
    BY <1>3, <2>2
<1> QED
  BY <1>2, <1>3

\* A device that is armed now is in its place.
LEMMA ArmedInPlace ==
  ASSUME NEW d \in Devices, NEW now \in 0 .. CountSize - 1, NEW next, NEW s,
         next = (now + Freq[d]) % CountSize, s = 0
  PROVE  /\ next \in 0 .. CountSize - 1
         /\ s * Resolution < Freq[d]
         /\ next = now + Freq[d] - s * Resolution \/ next = now + Freq[d] - CountSize
<1>1. Freq[d] \in Nat /\ Resolution <= Freq[d] /\ Freq[d] + Resolution <= CountSize
  BY Frequencies
<1>2. s * Resolution = 0
  BY Sizes, SMT
<1>3. CASE now + Freq[d] < CountSize
  <2>1. now + Freq[d] \in 0 .. CountSize - 1
    BY <1>1, <1>3, Sizes, SMT
  <2>2. next = now + Freq[d]
    BY <2>1, ModSmall, Sizes
  <2> QED
    BY <1>1, <1>2, <2>1, <2>2, Sizes, SMT
<1>4. CASE ~(now + Freq[d] < CountSize)
  <2>1. now \in 0 .. CountSize - 1 /\ Freq[d] \in 0 .. CountSize /\ CountSize <= now + Freq[d]
    BY <1>1, <1>4, Sizes, SMT
  <2>2. (now + Freq[d]) % CountSize = now + Freq[d] - CountSize
    BY <2>1, ModOfSum, Sizes
  <2> QED
    BY <1>1, <1>2, <2>1, <2>2, Sizes, SMT
<1> QED
  BY <1>3, <1>4

LEMMA Lab3Keeps == ASSUME TimerInv, lab3_C_IRQ_handler PROVE TimerInv'
<1> USE DEF TimerInv
<1>1. /\ lab = 3 /\ ossr /\ behind \in -1 .. MaxBehind /\ behind >= 1
      /\ osmr0 = Match /\ phase \in 0 .. Match - 1
  BY DEF lab3_C_IRQ_handler, TypeOK, ClockInPlace
<1>2. timer_count' \in 0 .. CountSize - 1
  <2>1. timer_count + 1 \in Int
    BY Sizes, SMT DEF TypeOK
  <2> QED
    BY <2>1, ModRange, Sizes DEF lab3_C_IRQ_handler, Counted
<1>3. behind' \in -1 .. MaxBehind /\ behind' >= 0
  BY <1>1, SMT DEF lab3_C_IRQ_handler, Counted, MaxBehind
<1>4. 0 \in 0 .. CounterSize - 1 /\ 0 \in 0 .. Latency /\ 0 < Match /\ 0 <= phase
  BY <1>1, Sizes, SMT
<1>5. TypeOK'
  BY <1>2, <1>3, <1>4 DEF lab3_C_IRQ_handler, Counted, TypeOK, devs, sleeper
<1>6. ClockInPlace'
  BY <1>1, <1>3, <1>4 DEF lab3_C_IRQ_handler, Counted, ClockInPlace
<1>7. DevicesInPlace'
  BY <1>1, SMT DEF lab3_C_IRQ_handler, Counted, DevicesInPlace
<1> QED
  BY <1>5, <1>6, <1>7

\* At a tick of lab 4 a device either is signalled, and then at the end of its
\* period if its match had not wrapped, or comes nearer.
LEMMA DeviceAtTick ==
  ASSUME TimerInv, C_IRQ_handler, NEW d \in Devices
  PROVE  /\ next_match'[d] \in 0 .. CountSize - 1 /\ since'[d] \in Nat
         /\ DeviceInPlace(d)'
         /\ since'[d] = 0 => (since[d] + 1) * Resolution = Freq[d] \/ next_match[d] <= timer_count
<1>1. /\ timer_count \in 0 .. CountSize - 1 /\ next_match[d] \in 0 .. CountSize - 1
      /\ since[d] \in Nat /\ DeviceInPlace(d)
  BY DEF TimerInv, TypeOK, C_IRQ_handler, DevicesInPlace
<1>2. timer_count' = IF timer_count + Resolution < CountSize THEN timer_count + Resolution
                     ELSE timer_count + Resolution - CountSize
  BY CountAfterTick DEF C_IRQ_handler, Counted
<1>3. timer_count' \in 0 .. CountSize - 1
  BY <1>1, <1>2, Sizes, SMT
<1>4. /\ Freq[d] \in Nat /\ Resolution <= Freq[d] /\ Freq[d] + Resolution <= CountSize
      /\ since[d] * Resolution < Freq[d] => since[d] * Resolution + Resolution <= Freq[d]
  BY <1>1, Frequencies
<1>5. (since[d] + 1) * Resolution = since[d] * Resolution + Resolution
  BY <1>1, NextMultiple, Sizes
<1>6. since[d] * Resolution \in Nat
  BY <1>1, Sizes, SMT
<1>7. (since[d] = 0) => since[d] * Resolution = 0
  BY Sizes, SMT
<1>8. CASE next_match[d] <= timer_count'
  <2>1. next_match'[d] = (timer_count' + Freq[d]) % CountSize /\ since'[d] = 0
    BY <1>8 DEF C_IRQ_handler, dev_update, Arm, Due
  <2>2. /\ next_match'[d] \in 0 .. CountSize - 1
        /\ since'[d] * Resolution < Freq[d]
        /\ \/ next_match'[d] = timer_count' + Freq[d] - since'[d] * Resolution
           \/ next_match'[d] = timer_count' + Freq[d] - CountSize
    BY <1>3, <2>1, ArmedInPlace
  <2>3. DeviceInPlace(d)'
    BY <2>1, <2>2 DEF DeviceInPlace
  <2>4. (since[d] + 1) * Resolution = Freq[d] \/ next_match[d] <= timer_count
    <3>1. CASE /\ since[d] * Resolution < Freq[d]
               /\ next_match[d] = timer_count + Freq[d] - since[d] * Resolution
      BY <1>1, <1>2, <1>4, <1>5, <1>6, <1>8, <3>1, Sizes, SMT
    <3>2. CASE since[d] = 0 /\ next_match[d] \in {0, timer_count + Freq[d] - CountSize}
      BY <1>1, <1>4, <3>2, Sizes, SMT
    <3> QED
      BY <1>1, <3>1, <3>2 DEF DeviceInPlace
  <2> QED
    BY <2>1, <2>2, <2>3, <2>4
<1>9. CASE ~(next_match[d] <= timer_count')
  <2>1. next_match'[d] = next_match[d] /\ since'[d] = since[d] + 1
    BY <1>9 DEF C_IRQ_handler, dev_update, Arm, Due
  <2>2. since'[d] * Resolution = since[d] * Resolution + Resolution
    BY <1>5, <2>1
  <2>3. since'[d] * Resolution < Freq[d] /\ next_match'[d] = timer_count' + Freq[d] - since'[d] * Resolution
    <3>1. CASE /\ since[d] * Resolution < Freq[d]
               /\ next_match[d] = timer_count + Freq[d] - since[d] * Resolution
      BY <1>1, <1>2, <1>4, <1>6, <1>9, <2>1, <2>2, <3>1, Sizes, SMT
    <3>2. CASE since[d] = 0 /\ next_match[d] \in {0, timer_count + Freq[d] - CountSize}
      BY <1>1, <1>2, <1>3, <1>4, <1>7, <1>9, <2>1, <2>2, <3>2, Sizes, SMT
    <3> QED
      BY <1>1, <3>1, <3>2 DEF DeviceInPlace
  <2>4. since'[d] \in Nat /\ since'[d] # 0
    BY <1>1, <2>1, SMT
  <2> QED
    BY <1>1, <2>1, <2>3, <2>4 DEF DeviceInPlace
<1> QED
  BY <1>8, <1>9

LEMMA Lab4Keeps == ASSUME TimerInv, C_IRQ_handler PROVE TimerInv'
<1> USE DEF TimerInv
<1>1. /\ lab = 4 /\ ossr /\ phase = late /\ behind = 1
      /\ osmr0 = oscr - phase \/ osmr0 = oscr - phase + CounterSize
      /\ oscr \in 0 .. CounterSize - 1 /\ osmr0 \in 0 .. CounterSize - 1
      /\ phase \in 0 .. Match - 1
  BY DEF C_IRQ_handler, TypeOK, ClockInPlace
<1>2. timer_count' \in 0 .. CountSize - 1
  <2>1. timer_count + Resolution \in Int
    BY Sizes, SMT DEF TypeOK
  <2> QED
    BY <2>1, ModRange, Sizes DEF C_IRQ_handler, Counted
<1>3. osmr0' = IF osmr0 + Match < CounterSize THEN osmr0 + Match ELSE osmr0 + Match - CounterSize
  <2>1. CASE osmr0 + Match < CounterSize
    <3>1. osmr0 + Match \in 0 .. CounterSize - 1
      BY <1>1, <2>1, Sizes, SMT
    <3> QED
      BY <2>1, <3>1, ModSmall, Sizes DEF C_IRQ_handler, next_osmr0
  <2>2. CASE ~(osmr0 + Match < CounterSize)
    <3>1. osmr0 \in 0 .. CounterSize - 1 /\ Match \in 0 .. CounterSize /\ CounterSize <= osmr0 + Match
      BY <1>1, <2>2, Sizes, SMT
    <3>2. (osmr0 + Match) % CounterSize = osmr0 + Match - CounterSize
      BY <3>1, ModOfSum, Sizes
    <3> QED
      BY <2>2, <3>2 DEF C_IRQ_handler, next_osmr0
  <2> QED
    BY <2>1, <2>2
<1>4. /\ lab' = 4 /\ ~ossr' /\ ossr' \in BOOLEAN /\ late' = 0 /\ behind' = 0 /\ phase' = phase /\ oscr' = oscr
      /\ slept' = slept /\ asked' = asked /\ end_time' = end_time
  <2>1. behind' = behind - 1 /\ 1 - 1 = 0
    BY SMT DEF C_IRQ_handler, Counted
  <2> QED
    BY <1>1, <2>1 DEF C_IRQ_handler, Counted, sleeper
<1>5. ClockInPlace'
  BY <1>1, <1>3, <1>4, Sizes, SMT DEF ClockInPlace
<1>6. \A d \in Devices : /\ next_match'[d] \in 0 .. CountSize - 1 /\ since'[d] \in Nat
                          /\ DeviceInPlace(d)'
  BY DeviceAtTick
<1>7. DevicesInPlace'
  BY <1>6 DEF DevicesInPlace
<1>8. TypeOK'
  <2>1. next_match' \in [Devices -> 0 .. CountSize - 1] /\ since' \in [Devices -> Nat]
    BY <1>6 DEF C_IRQ_handler, dev_update, Arm
  <2>2. osmr0' \in 0 .. CounterSize - 1 /\ 0 \in 0 .. Latency /\ 0 \in -1 .. MaxBehind
    BY <1>1, <1>3, Sizes, SMT DEF MaxBehind
  <2> QED
    BY <1>2, <1>4, <2>1, <2>2 DEF TypeOK
<1> QED
  BY <1>5, <1>7, <1>8

LEMMA DevInitKeeps == ASSUME TimerInv, dev_init PROVE TimerInv'
<1> USE DEF TimerInv
<1>1. timer_count \in 0 .. CountSize - 1 /\ timer_count' = timer_count
  BY DEF TypeOK, dev_init
<1>2. ASSUME NEW d \in Devices
      PROVE  /\ next_match'[d] \in 0 .. CountSize - 1 /\ since'[d] \in Nat
             /\ DeviceInPlace(d)'
  <2>1. next_match'[d] = (timer_count + Freq[d]) % CountSize /\ since'[d] = 0
    BY DEF dev_init
  <2>2. /\ next_match'[d] \in 0 .. CountSize - 1
        /\ since'[d] * Resolution < Freq[d]
        /\ \/ next_match'[d] = timer_count + Freq[d] - since'[d] * Resolution
           \/ next_match'[d] = timer_count + Freq[d] - CountSize
    BY <1>1, <2>1, ArmedInPlace
  <2> QED
    BY <1>1, <2>1, <2>2 DEF DeviceInPlace
<1>3. next_match' \in [Devices -> 0 .. CountSize - 1] /\ since' \in [Devices -> Nat]
  BY <1>2 DEF dev_init
<1>4. TypeOK'
  BY <1>3 DEF TypeOK, dev_init, clock, sleeper
<1>5. ClockInPlace'
  BY DEF ClockInPlace, dev_init, clock
<1>6. DevicesInPlace'
  BY <1>2 DEF DevicesInPlace
<1> QED
  BY <1>4, <1>5, <1>6

LEMMA SleepKeeps == ASSUME TimerInv, NEW millis \in Millis, sleep_syscall(millis) PROVE TimerInv'
<1> USE DEF TimerInv
<1>1. millis \in Nat /\ timer_count \in Nat
  BY TimerAssumption, Sizes, SMT DEF TypeOK
<1>2. end_time' \in 0 .. CountSize - 1
  <2>1. timer_count + millis \in Int /\ timer_count + millis \div Resolution \in Int
    BY <1>1, Sizes, SMT
  <2> QED
    BY <2>1, ModRange, Sizes DEF sleep_syscall, EndTime
<1>3. end_time' \in -1 .. CountSize - 1 /\ 0 \in 0 .. MaxSlept
  BY <1>2, Sizes, SMT
<1>4. TypeOK'
  BY <1>1, <1>3 DEF TypeOK, sleep_syscall, clock, devs
<1>5. ClockInPlace' /\ DevicesInPlace'
  BY DEF ClockInPlace, DevicesInPlace, DeviceInPlace, sleep_syscall, clock, devs
<1> QED
  BY <1>4, <1>5

LEMMA ReturnKeeps == ASSUME TimerInv, sleep_return PROVE TimerInv'
<1> USE DEF TimerInv
<1>1. -1 \in -1 .. CountSize - 1
  BY Sizes, SMT
<1> QED
  BY <1>1 DEF TypeOK, ClockInPlace, DevicesInPlace, DeviceInPlace, sleep_return, clock, devs

LEMMA StutterKeeps == ASSUME TimerInv, UNCHANGED vars PROVE TimerInv'
  BY DEF TimerInv, TypeOK, ClockInPlace, DevicesInPlace, DeviceInPlace, vars, clock, devs, sleeper

LEMMA StepKeeps == TimerInv /\ [Next]_vars => TimerInv'
  BY PassKeeps, Lab3Keeps, Lab4Keeps, DevInitKeeps, SleepKeeps, ReturnKeeps, StutterKeeps DEF Next

\* C_IRQ_handler, dev_update: where counter, match register and devices stand
\* between two interrupts.
THEOREM ClockAlwaysInPlace == Spec => []TimerInv
  BY InitInPlace, StepKeeps, PTL DEF Spec

-----------------------------------------------------------------------------
\* C_IRQ_handler, set_timer, sleep_syscall: counter, counts and matches keep
\* their widths.
THEOREM CountsKeepTheirTypes == Spec => []TypeOK
  BY ClockAlwaysInPlace, PTL DEF TimerInv

\* C_IRQ_handler: lab 4 counts every period that passes, lab 3 never one that
\* has not.
THEOREM EveryPeriodCounted == Spec => []Accurate
<1>1. TimerInv => Accurate
  <2> SUFFICES ASSUME TimerInv PROVE Accurate
    OBVIOUS
  <2>1. lab \in {3, 4} /\ behind \in -1 .. MaxBehind /\ ossr \in BOOLEAN
    BY DEF TimerInv, TypeOK
  <2>2. CASE lab = 4
    BY <2>2 DEF TimerInv, ClockInPlace, Accurate
  <2>3. CASE lab = 3
    <3>1. ossr => behind >= 1
      BY <2>3 DEF TimerInv, ClockInPlace
    <3>2. ~ossr => behind >= 0
      BY <2>3 DEF TimerInv, ClockInPlace
    <3> QED
      BY <2>3, <3>1, <3>2 DEF Accurate
  <2> QED
    BY <2>1, <2>2, <2>3
<1> QED
  BY <1>1, ClockAlwaysInPlace, PTL

\* dev_update: no device is signalled later than its period after the last time,
\* wherever the count and its match wrap.
THEOREM DevicesNeverLate == Spec => []NeverLate
<1>1. TimerInv => NeverLate
  <2> SUFFICES ASSUME TimerInv, NEW d \in Devices, lab = 4 PROVE since[d] * Resolution < Freq[d]
    BY DEF NeverLate
  <2>1. DeviceInPlace(d)
    BY DEF TimerInv, DevicesInPlace
  <2>2. since[d] = 0 => since[d] * Resolution < Freq[d]
    <3>1. 0 * Resolution = 0 /\ 0 < Freq[d]
      BY Frequencies, Sizes, SMT
    <3> QED
      BY <3>1
  <2> QED
    BY <2>1, <2>2 DEF DeviceInPlace
<1> QED
  BY <1>1, ClockAlwaysInPlace, PTL

\* dev_update: nor earlier, unless its match has wrapped or was never set.
THEOREM DevicesEarlyOnlyWrapped == Spec => EarlyOnlyOnceWrapped
<1>1. TimerInv /\ [Next]_vars =>
        [\A d \in Devices :
           (timer_count' # timer_count /\ lab = 4 /\ since'[d] = 0) =>
              (since[d] + 1) * Resolution = Freq[d] \/ next_match[d] <= timer_count]_vars
  <2> SUFFICES ASSUME TimerInv, [Next]_vars, NEW d \in Devices,
                      timer_count' # timer_count, lab = 4, since'[d] = 0
               PROVE  (since[d] + 1) * Resolution = Freq[d] \/ next_match[d] <= timer_count
    OBVIOUS
  <2>1. C_IRQ_handler
    BY DEF Next, vars, pass, lab3_C_IRQ_handler, dev_init, sleep_syscall, sleep_return, Counted
  <2> QED
    BY <2>1, DeviceAtTick
<1> QED
  BY <1>1, ClockAlwaysInPlace, PTL DEF Spec, EarlyOnlyOnceWrapped

-----------------------------------------------------------------------------
(* The ticks that are left *)

LEMMA Quotient == ASSUME NEW n \in Nat, NEW r \in Nat \ {0} PROVE (n * r) \div r = n
  BY SMT

\* A device is as many ticks from its signal as its period has, less those that
\* have been since.
LEMMA TicksOf ==
  ASSUME NEW d \in Devices, NEW now \in Nat, NEW s \in Nat, NEW next,
         s * Resolution < Freq[d], next = now + Freq[d] - s * Resolution
  PROVE  /\ next > now
         /\ (next - now) \div Resolution = Freq[d] \div Resolution - s
         /\ Freq[d] \div Resolution \in Nat /\ s < Freq[d] \div Resolution
<1>1. PICK n \in 1 .. CountSize \div Resolution - 1 : Freq[d] = n * Resolution
  BY TimerAssumption
<1>2. n \in Nat /\ Resolution \in Nat \ {0} /\ n * Resolution \in Nat /\ s * Resolution \in Nat
  BY <1>1, Sizes, SMT
<1>3. s < n
  BY <1>1, <1>2, SMT
<1>4. n - s \in Nat /\ (n - s) * Resolution = n * Resolution - s * Resolution
  BY <1>2, <1>3, SMT
<1>5. next - now = (n - s) * Resolution /\ next > now
  BY <1>1, <1>2, <1>4, SMT
<1>6. (n * Resolution) \div Resolution = n /\ ((n - s) * Resolution) \div Resolution = n - s
  BY <1>2, <1>4, Quotient
<1> QED
  BY <1>1, <1>2, <1>3, <1>5, <1>6

\* Before its period can go over the end of the count.
LEMMA LeftInPlace ==
  ASSUME TimerInv, lab = 4, NEW d \in Devices, timer_count + Freq[d] < CountSize
  PROVE  \/ /\ since[d] * Resolution < Freq[d]
            /\ next_match[d] = timer_count + Freq[d] - since[d] * Resolution
            /\ TicksLeft[d] = Freq[d] \div Resolution - since[d]
            /\ since[d] < Freq[d] \div Resolution
         \/ next_match[d] = 0 /\ TicksLeft[d] = 0
<1>1. /\ timer_count \in 0 .. CountSize - 1 /\ next_match[d] \in 0 .. CountSize - 1
      /\ since[d] \in Nat /\ DeviceInPlace(d)
  BY DEF TimerInv, TypeOK, DevicesInPlace
<1>2. timer_count \in Nat /\ CountSize \in Nat /\ Freq[d] \in Nat
  BY <1>1, Frequencies, Sizes, SMT
<1>3. TicksLeft[d] = IF next_match[d] > timer_count THEN (next_match[d] - timer_count) \div Resolution ELSE 0
  BY DEF TicksLeft
<1>4. CASE /\ since[d] * Resolution < Freq[d]
           /\ next_match[d] = timer_count + Freq[d] - since[d] * Resolution
  BY <1>1, <1>2, <1>3, <1>4, TicksOf
<1>5. CASE since[d] = 0 /\ next_match[d] \in {0, timer_count + Freq[d] - CountSize}
  <2>1. next_match[d] = 0
    BY <1>1, <1>2, <1>5, SMT
  <2> QED
    BY <1>2, <1>3, <2>1, SMT
<1> QED
  BY <1>1, <1>4, <1>5 DEF DeviceInPlace

LEMMA ArmedTicks ==
  ASSUME NEW d \in Devices, NEW now \in Nat, NEW next,
         now + Freq[d] < CountSize, next = (now + Freq[d]) % CountSize
  PROVE  next > now /\ (next - now) \div Resolution = Freq[d] \div Resolution
<1>1. Freq[d] \in Nat /\ 0 < Freq[d] /\ Resolution \in Nat /\ CountSize \in Nat
  BY Frequencies, Sizes, SMT
<1>2. now + Freq[d] \in 0 .. CountSize - 1
  BY <1>1, SMT
<1>3. next = now + Freq[d]
  BY <1>1, <1>2, ModSmall
<1>4. 0 \in Nat /\ 0 * Resolution = 0 /\ next = now + Freq[d] - 0 * Resolution
  BY <1>1, <1>3, SMT
<1>5. /\ next > now
      /\ (next - now) \div Resolution = Freq[d] \div Resolution - 0
      /\ Freq[d] \div Resolution \in Nat
  BY <1>1, <1>4, TicksOf
<1> QED
  BY <1>5, SMT

LEMMA TickCountsDown ==
  ASSUME TimerInv, C_IRQ_handler, NEW d \in Devices,
         timer_count + Freq[d] < CountSize, timer_count' + Freq[d] < CountSize
  PROVE  /\ timer_count' # timer_count
         /\ TicksLeft'[d] = IF TicksLeft[d] <= 1 THEN Freq[d] \div Resolution ELSE TicksLeft[d] - 1
<1>1. /\ lab = 4 /\ timer_count \in 0 .. CountSize - 1 /\ next_match[d] \in 0 .. CountSize - 1
      /\ since[d] \in Nat
  BY DEF TimerInv, TypeOK, C_IRQ_handler
<1>2. /\ timer_count \in Nat /\ CountSize \in Nat /\ Freq[d] \in Nat /\ Resolution \in Nat \ {0}
      /\ Resolution <= Freq[d]
  BY <1>1, Frequencies, Sizes, SMT
<1>3. timer_count' = timer_count + Resolution
  <2>1. timer_count' = IF timer_count + Resolution < CountSize THEN timer_count + Resolution
                       ELSE timer_count + Resolution - CountSize
    BY CountAfterTick DEF C_IRQ_handler, Counted
  <2> QED
    BY <1>2, <2>1, SMT
<1>4. timer_count' \in Nat /\ timer_count' # timer_count
  BY <1>2, <1>3, SMT
<1>5. TicksLeft'[d] = IF next_match'[d] > timer_count' THEN (next_match'[d] - timer_count') \div Resolution
                      ELSE 0
  BY DEF TicksLeft
<1>6. CASE next_match[d] <= timer_count'
  <2>1. next_match'[d] = (timer_count' + Freq[d]) % CountSize /\ since'[d] = 0
    BY <1>6 DEF C_IRQ_handler, dev_update, Arm, Due
  <2>2. TicksLeft'[d] = Freq[d] \div Resolution
    BY <1>4, <1>5, <2>1, ArmedTicks
  <2>3. TicksLeft[d] <= 1
    <3>1. CASE next_match[d] <= timer_count
      <4>1. TicksLeft[d] = 0
        BY <1>1, <1>2, <3>1, SMT DEF TicksLeft
      <4> QED
        BY <4>1
    <3>2. CASE ~(next_match[d] <= timer_count)
      <4>1. (since[d] + 1) * Resolution = Freq[d]
        BY <2>1, <3>2, DeviceAtTick
      <4>2. Freq[d] \div Resolution = since[d] + 1
        <5>1. since[d] + 1 \in Nat
          BY <1>1
        <5> QED
          BY <1>2, <4>1, <5>1, Quotient
      <4>3. TicksLeft[d] = Freq[d] \div Resolution - since[d] \/ TicksLeft[d] = 0
        BY <1>1, LeftInPlace
      <4> QED
        BY <1>1, <4>2, <4>3, SMT
    <3> QED
      BY <3>1, <3>2
  <2> QED
    BY <1>4, <2>2, <2>3
<1>7. CASE ~(next_match[d] <= timer_count')
  <2>1. next_match'[d] = next_match[d] /\ since'[d] = since[d] + 1 /\ since'[d] \in Nat /\ since'[d] # 0
    BY <1>1, <1>7 DEF C_IRQ_handler, dev_update, Arm, Due
  <2>2. /\ since'[d] * Resolution < Freq[d]
        /\ next_match'[d] = timer_count' + Freq[d] - since'[d] * Resolution
    <3>1. DeviceInPlace(d)'
      BY DeviceAtTick
    <3> QED
      BY <2>1, <3>1 DEF DeviceInPlace
  <2>3. /\ next_match'[d] > timer_count'
        /\ (next_match'[d] - timer_count') \div Resolution = Freq[d] \div Resolution - since'[d]
        /\ Freq[d] \div Resolution \in Nat /\ since'[d] < Freq[d] \div Resolution
    BY <1>4, <2>1, <2>2, TicksOf
  <2>4. TicksLeft'[d] = Freq[d] \div Resolution - since'[d]
    BY <1>5, <2>3
  <2>5. TicksLeft[d] = Freq[d] \div Resolution - since[d]
    <3>1. next_match[d] # 0
      BY <1>1, <1>4, <1>7, SMT
    <3> QED
      BY <1>1, <3>1, LeftInPlace
  <2> QED
    BY <1>1, <1>4, <2>1, <2>3, <2>4, <2>5, SMT
<1> QED
  BY <1>6, <1>7

\* dev_update and dev_init: until the count is within a period of its end, 49 days from
\* the start, what they do with counts and matches is what module Kernel has in their
\* place, a number of ticks left for each device.
THEOREM TicksCountDown == Spec => CountsDown
<1>1. TimerInv /\ [Next]_vars =>
        [lab = 4 /\ Unwrapped /\ Unwrapped' =>
           IF timer_count' # timer_count THEN DevicesTick!Tick
                                         ELSE DevicesTick!Reset \/ UNCHANGED TicksLeft]_vars
  <2> SUFFICES ASSUME TimerInv, Next, lab = 4, Unwrapped, Unwrapped'
               PROVE  IF timer_count' # timer_count THEN DevicesTick!Tick
                      ELSE DevicesTick!Reset \/ UNCHANGED TicksLeft
    BY Zenon
  <2>1. \A d \in Devices : timer_count + Freq[d] < CountSize /\ timer_count' + Freq[d] < CountSize
    BY DEF Unwrapped
  <2>2. CASE C_IRQ_handler
    <3>1. TicksLeft' = [d \in Devices |-> TicksLeft'[d]]
      BY DEF TicksLeft
    <3>2. \A d \in Devices : TicksLeft'[d] = IF TicksLeft[d] <= 1 THEN Freq[d] \div Resolution
                                             ELSE TicksLeft[d] - 1
      BY <2>1, <2>2, TickCountsDown
    <3>3. DevicesTick!Tick
      BY <3>1, <3>2 DEF DevicesTick!Tick, DevicesTick!Signalled
    <3>4. Devices # {} => timer_count' # timer_count
      BY <2>1, <2>2, TickCountsDown
    <3>5. Devices = {} => TicksLeft' = TicksLeft
      BY DEF TicksLeft
    <3> QED
      BY <3>3, <3>4, <3>5
  <2>3. CASE dev_init
    <3>1. timer_count' = timer_count /\ timer_count \in Nat
      BY <2>3, Sizes, SMT DEF dev_init, TimerInv, TypeOK
    <3>2. \A d \in Devices : next_match'[d] = (timer_count + Freq[d]) % CountSize
      BY <2>3 DEF dev_init
    <3>3. \A d \in Devices : /\ next_match'[d] > timer_count
                            /\ (next_match'[d] - timer_count) \div Resolution = Freq[d] \div Resolution
      BY <2>1, <3>1, <3>2, ArmedTicks
    <3>4. TicksLeft' = [d \in Devices |-> Freq[d] \div Resolution]
      BY <3>1, <3>3 DEF TicksLeft
    <3> QED
      BY <3>1, <3>4 DEF DevicesTick!Reset
  <2>4. CASE ~C_IRQ_handler /\ ~dev_init
    <3>1. UNCHANGED <<timer_count, next_match>>
      BY <2>4 DEF Next, pass, lab3_C_IRQ_handler, sleep_syscall, sleep_return, devs
    <3> QED
      BY <3>1 DEF TicksLeft
  <2> QED
    BY <2>2, <2>3, <2>4
<1> QED
  BY <1>1, ClockAlwaysInPlace, PTL DEF Spec, CountsDown

\* dev_update: no device is signalled early, and its ticks count down, but for the wrap.
THEOREM DevicesOnTime == Spec => OnTimeUnlessWrapped
  BY DevicesEarlyOnlyWrapped, TicksCountDown DEF OnTimeUnlessWrapped

\* What module Kernel has for its devices (KernelTicks in Kernel_proofs) the clock gives.
THEOREM ClockImplementsCountdown == Spec /\ [](lab = 4 /\ Unwrapped) => DevicesTick!Spec
<1>1. Init => DevicesTick!Init
  <2> SUFFICES ASSUME Init, NEW d \in Devices PROVE TicksLeft[d] = 0
    BY DEF DevicesTick!Init, TicksLeft
  <2> QED
    BY SMT DEF Init, TicksLeft
<1>2. [lab = 4 /\ Unwrapped /\ Unwrapped' =>
         IF timer_count' # timer_count THEN DevicesTick!Tick
                                       ELSE DevicesTick!Reset \/ UNCHANGED TicksLeft]_vars
      /\ (lab = 4 /\ Unwrapped) /\ (lab = 4 /\ Unwrapped)'
      => [DevicesTick!Tick \/ DevicesTick!Reset]_TicksLeft
  <2>1. UNCHANGED vars => UNCHANGED TicksLeft
    BY DEF vars, devs, TicksLeft
  <2> QED
    BY <2>1
<1> QED
  BY <1>1, <1>2, TicksCountDown, PTL DEF Spec, CountsDown, DevicesTick!Spec

-----------------------------------------------------------------------------
(* Sleep *)

\* What the end of a sleep counts, and the units of time that are known to have passed
\* for the counts since its start, a period more for the one that it began in.
Counts == IF lab = 4 THEN asked ELSE asked \div Resolution
StepOfCount == IF lab = 4 THEN Resolution ELSE 1
Spent == slept + Match - 1 - (IF lab = 4 THEN phase + behind * Match ELSE IF ossr THEN Match ELSE oscr)
SleepInPlace ==
  Sleeping =>
    /\ asked < CountSize
    /\ \/ Wrapped
       \/ slept = MaxSlept
       \/ Spent * StepOfCount >= (timer_count - end_time + Counts) * Match
SleepInv == TimerInv /\ SleepInPlace

\* One period more, and one count more.
LEMMA PeriodMore ==
  ASSUME NEW a \in Int, NEW b \in Int, NEW step \in Nat, NEW m \in Nat, a * step >= b * m
  PROVE  (a + m) * step >= (b + step) * m
<1>1. (a + m) * step = a * step + m * step /\ (b + step) * m = b * m + step * m
  BY SMT
<1>2. m * step = step * m /\ {a * step, b * m, m * step} \subseteq Int
  BY SMT
<1> QED
  BY <1>1, <1>2, SMT

LEMMA Products ==
  ASSUME NEW a \in Int, NEW b \in Int, NEW m \in Nat, a <= b
  PROVE  a * m <= b * m /\ a * m \in Int /\ b * m \in Int
  BY SMT

LEMMA SleepTypes ==
  ASSUME TimerInv
  PROVE  /\ lab \in {3, 4} /\ slept \in 0 .. MaxSlept /\ asked \in Nat /\ Counts \in Nat /\ Counts <= asked
         /\ timer_count \in 0 .. CountSize - 1 /\ end_time \in -1 .. CountSize - 1
         /\ Spent \in Int /\ StepOfCount \in Nat \ {0}
         /\ oscr \in 0 .. CounterSize - 1 /\ phase \in 0 .. Match - 1 /\ behind \in -1 .. MaxBehind
         /\ behind * Match \in Int
<1>1. /\ lab \in {3, 4} /\ slept \in 0 .. MaxSlept /\ asked \in Nat
      /\ timer_count \in 0 .. CountSize - 1 /\ end_time \in -1 .. CountSize - 1
      /\ oscr \in 0 .. CounterSize - 1 /\ phase \in 0 .. Match - 1 /\ behind \in -1 .. MaxBehind
  BY DEF TimerInv, TypeOK
<1>2. behind * Match \in Int
  BY <1>1, Sizes, SMT DEF MaxBehind
<1>3. asked \div Resolution \in Nat /\ asked \div Resolution <= asked
  BY <1>1, Sizes, SMT
<1> QED
  BY <1>1, <1>2, <1>3, Sizes, SMT DEF Counts, Spent, StepOfCount

LEMMA PassSleeps == ASSUME SleepInv, pass PROVE SleepInPlace'
<1>1. TimerInv /\ UNCHANGED <<lab, timer_count, end_time, asked>>
  BY DEF SleepInv, pass
<1>2. (Sleeping' <=> Sleeping) /\ (Wrapped' <=> Wrapped) /\ Counts' = Counts /\ StepOfCount' = StepOfCount
  BY <1>1 DEF Sleeping, Wrapped, Counts, StepOfCount
<1> SUFFICES ASSUME Sleeping, ~Wrapped, slept < MaxSlept
             PROVE  slept' = MaxSlept \/ Spent' * StepOfCount >= (timer_count - end_time + Counts) * Match
  <2>1. slept # MaxSlept => slept < MaxSlept
    BY <1>1, SleepTypes, Sizes, SMT
  <2>2. slept = MaxSlept => slept' = MaxSlept
    BY <1>1, SleepTypes, Sizes, SMT DEF pass
  <2> QED
    BY <1>1, <1>2, <2>1, <2>2 DEF SleepInPlace, SleepInv
<1>3. slept' = slept + 1
  BY DEF pass
<1>4. CASE lab = 4
  <2>1. phase' + behind' * Match = phase + behind * Match + 1
    <3>1. CASE phase = Match - 1
      <4>1. behind = 0 /\ phase' = 0
        BY <1>1, <1>4, <3>1, PassMoves, Sizes, SMT DEF TimerInv, ClockInPlace, TypeOK, pass
      <4>2. behind' = 1
        BY <4>1, SMT DEF pass, MaxBehind
      <4> QED
        BY <3>1, <4>1, <4>2, Sizes, SMT
    <3>2. CASE phase # Match - 1
      <4>1. phase' = phase + 1 /\ phase' # 0
        BY <1>1, <3>2, PassMoves, SleepTypes, SMT
      <4>2. behind' = behind
        BY <4>1 DEF pass
      <4> QED
        BY <1>1, <4>1, <4>2, SleepTypes, SMT
    <3> QED
      BY <3>1, <3>2
  <2>2. Spent' = Spent
    BY <1>1, <1>3, <1>4, <2>1, SleepTypes, Sizes, SMT DEF Spent
  <2> QED
    BY <2>2, SleepTypes, SMT DEF SleepInv, SleepInPlace
<1>5. CASE lab = 3
  <2>1. (IF ossr' THEN Match ELSE oscr') <= (IF ossr THEN Match ELSE oscr) + 1
    <3>1. CASE ossr
      <4>1. ossr'
        BY <3>1 DEF pass
      <4> QED
        BY <3>1, <4>1, Sizes, SMT
    <3>2. CASE ~ossr
      <4>1. oscr < Match /\ osmr0 = Match /\ oscr' = oscr + 1
        BY <1>1, <1>5, <3>2, PassMoves, SleepTypes, Sizes, SMT DEF TimerInv, ClockInPlace
      <4>2. ossr' => oscr' = Match
        BY <3>2, <4>1 DEF pass
      <4> QED
        BY <1>1, <3>2, <4>1, <4>2, SleepTypes, SMT
    <3> QED
      BY <3>1, <3>2
  <2>2. Spent' >= Spent /\ Spent' \in Int
    <3>1. oscr' \in Int
      BY <1>1, PassMoves, SleepTypes, SMT
    <3> QED
      BY <1>1, <1>3, <1>5, <2>1, <3>1, SleepTypes, Sizes, SMT DEF Spent
  <2> QED
    BY <1>1, <1>5, <2>2, SleepTypes, Sizes, SMT DEF SleepInv, SleepInPlace, StepOfCount
<1> QED
  BY <1>1, <1>4, <1>5, SleepTypes

\* A count of the clock is at most a step more.
LEMMA TickSleeps == ASSUME SleepInv, lab3_C_IRQ_handler \/ C_IRQ_handler PROVE SleepInPlace'
<1>1. TimerInv /\ UNCHANGED <<lab, end_time, asked, slept, phase>> /\ ossr /\ ~ossr' /\ behind' = behind - 1
  BY DEF SleepInv, lab3_C_IRQ_handler, C_IRQ_handler, Counted, sleeper
<1>2. /\ Sleeping' <=> Sleeping
      /\ Wrapped' <=> Wrapped
      /\ Counts' = Counts /\ StepOfCount' = StepOfCount
  BY <1>1 DEF Sleeping, Wrapped, Counts, StepOfCount
<1>3. timer_count' <= timer_count + StepOfCount /\ timer_count' \in 0 .. CountSize - 1
  <2>1. CASE lab = 4
    <3>1. timer_count' = IF timer_count + Resolution < CountSize THEN timer_count + Resolution
                         ELSE timer_count + Resolution - CountSize
      BY <1>1, <2>1, CountAfterTick DEF lab3_C_IRQ_handler, C_IRQ_handler, Counted
    <3> QED
      BY <1>1, <2>1, <3>1, SleepTypes, Sizes, SMT DEF StepOfCount
  <2>2. CASE lab = 3
    <3>1. timer_count' = (timer_count + 1) % CountSize
      BY <2>2 DEF lab3_C_IRQ_handler, C_IRQ_handler, Counted
    <3>2. CASE timer_count + 1 < CountSize
      <4>1. timer_count + 1 \in 0 .. CountSize - 1
        BY <1>1, <3>2, SleepTypes, Sizes, SMT
      <4>2. timer_count' = timer_count + 1
        BY <3>1, <4>1, ModSmall, Sizes
      <4> QED
        BY <1>1, <2>2, <4>1, <4>2, SleepTypes, SMT DEF StepOfCount
    <3>3. CASE ~(timer_count + 1 < CountSize)
      <4>1. timer_count + 1 = CountSize /\ CountSize \in CountSize .. CountSize + CountSize - 1
        BY <1>1, <3>3, SleepTypes, Sizes, SMT
      <4>2. timer_count' = 0
        BY <3>1, <4>1, ModOnce, Sizes, SMT
      <4> QED
        BY <1>1, <2>2, <4>2, SleepTypes, Sizes, SMT DEF StepOfCount
    <3> QED
      BY <3>2, <3>3
  <2> QED
    BY <1>1, <2>1, <2>2, SleepTypes
<1> SUFFICES ASSUME Sleeping, ~Wrapped, slept # MaxSlept
             PROVE  Spent' * StepOfCount >= (timer_count' - end_time + Counts) * Match
  BY <1>1, <1>2 DEF SleepInPlace, SleepInv
<1>4. Spent' = Spent + Match
  <2>1. CASE lab = 4
    <3>1. behind = 1 /\ behind' = 0
      BY <1>1, <2>1, SMT DEF TimerInv, ClockInPlace
    <3> QED
      BY <1>1, <2>1, <3>1, SleepTypes, Sizes, SMT DEF Spent
  <2>2. CASE lab = 3
    <3>1. oscr' = 0
      BY <2>2 DEF lab3_C_IRQ_handler, C_IRQ_handler
    <3> QED
      BY <1>1, <2>2, <3>1, SleepTypes, Sizes, SMT DEF Spent
  <2> QED
    BY <1>1, <2>1, <2>2, SleepTypes
<1> DEFINE elapsed == timer_count - end_time + Counts
           elapsed1 == timer_count' - end_time + Counts
<1>5. Spent * StepOfCount >= elapsed * Match
  BY DEF SleepInv, SleepInPlace
<1>6. elapsed \in Int /\ elapsed1 \in Int /\ elapsed1 <= elapsed + StepOfCount
  BY <1>1, <1>3, SleepTypes, SMT
<1>7. Spent \in Int /\ StepOfCount \in Nat /\ Match \in Nat
  BY <1>1, SleepTypes, Sizes
<1> HIDE DEF elapsed, elapsed1
<1>8. (Spent + Match) * StepOfCount >= (elapsed + StepOfCount) * Match
  BY <1>5, <1>6, <1>7, PeriodMore
<1>9. /\ elapsed1 * Match <= (elapsed + StepOfCount) * Match
      /\ elapsed1 * Match \in Int /\ (elapsed + StepOfCount) * Match \in Int
  <2>1. elapsed + StepOfCount \in Int
    BY <1>6, <1>7, SMT
  <2> QED
    BY <1>6, <1>7, <2>1, Products
<1>10. (Spent + Match) * StepOfCount \in Int
  BY <1>7, SMT
<1>11. (Spent + Match) * StepOfCount >= elapsed1 * Match
  BY <1>8, <1>9, <1>10, SMT
<1> QED
  BY <1>4, <1>11 DEF elapsed1

LEMMA CallSleeps == ASSUME SleepInv, NEW millis \in Millis, sleep_syscall(millis) PROVE SleepInPlace'
<1>1. /\ TimerInv /\ TimerInv'
      /\ UNCHANGED <<lab, timer_count, phase, behind, oscr, ossr>> /\ ~ossr
      /\ asked' = millis /\ slept' = 0 /\ end_time' = EndTime(millis)
  BY SleepKeeps DEF SleepInv, sleep_syscall, clock
<1>2. millis \in 0 .. CountSize - 1 /\ Counts' \in 0 .. CountSize - 1
  <2>1. millis \in 0 .. CountSize - 1
    BY TimerAssumption
  <2>2. Counts' \in Nat /\ Counts' <= asked'
    <3>1. millis \in Nat /\ millis \div Resolution \in Nat /\ millis \div Resolution <= millis
      BY <2>1, Sizes, SMT
    <3> QED
      BY <1>1, <3>1 DEF Counts
  <2> QED
    BY <1>1, <2>1, <2>2, Sizes, SMT
<1>3. end_time' = (timer_count + Counts') % CountSize
  BY <1>1 DEF EndTime, Counts
<1>4. CASE timer_count + Counts' >= CountSize
  <2>1. end_time' = timer_count + Counts' - CountSize
    <3>1. timer_count \in 0 .. CountSize - 1 /\ Counts' \in 0 .. CountSize /\ CountSize <= timer_count + Counts'
      BY <1>1, <1>2, <1>4, SleepTypes, Sizes, SMT
    <3> QED
      BY <1>3, <3>1, ModOfSum, Sizes
  <2>2. Wrapped'
    <3>1. end_time' < Counts'
      BY <1>1, <1>2, <2>1, SleepTypes, Sizes, SMT
    <3> QED
      BY <3>1 DEF Wrapped, Counts
  <2> QED
    BY <1>1, <1>2, <2>2, Sizes, SMT DEF SleepInPlace
<1>5. CASE ~(timer_count + Counts' >= CountSize)
  <2>1. timer_count + Counts' \in 0 .. CountSize - 1
    BY <1>1, <1>2, <1>5, SleepTypes, Sizes, SMT
  <2>2. end_time' = timer_count + Counts'
    BY <1>3, <2>1, ModSmall, Sizes
  <2>3. (timer_count' - end_time' + Counts') = 0
    BY <1>1, <1>2, <2>2, SleepTypes, Sizes, SMT
  <2>4. Spent' >= 0 /\ Spent' \in Int /\ StepOfCount' \in Nat
    <3>1. CASE lab = 4
      <4>1. behind = 0
        BY <1>1, <3>1 DEF TimerInv, ClockInPlace
      <4> QED
        BY <1>1, <3>1, <4>1, SleepTypes, Sizes, SMT DEF Spent, StepOfCount
    <3>2. CASE lab = 3
      <4>1. oscr < Match
        BY <1>1, <3>2 DEF TimerInv, ClockInPlace
      <4> QED
        BY <1>1, <3>2, <4>1, SleepTypes, Sizes, SMT DEF Spent, StepOfCount
    <3> QED
      BY <1>1, <3>1, <3>2, SleepTypes
  <2>5. Spent' * StepOfCount' >= 0 /\ 0 * Match = 0
    <3>1. \A a, m \in Nat : a * m >= 0
      BY SMT
    <3>2. Spent' \in Nat
      BY <2>4, SMT
    <3>3. Spent' * StepOfCount' >= 0
      BY <2>4, <3>1, <3>2, Zenon
    <3>4. 0 * Match = 0
      BY Sizes, SMT
    <3> QED
      BY <3>3, <3>4
  <2> QED
    BY <1>1, <1>2, <2>3, <2>5, Sizes, SMT DEF SleepInPlace
<1> QED
  BY <1>4, <1>5

LEMMA SleepStepKeeps == SleepInv /\ [Next]_vars => SleepInv'
<1> SUFFICES ASSUME SleepInv, [Next]_vars PROVE SleepInv'
  OBVIOUS
<1>1. TimerInv'
  BY StepKeeps DEF SleepInv
<1>2. ASSUME dev_init \/ UNCHANGED vars PROVE SleepInPlace'
  <2>1. UNCHANGED <<lab, oscr, ossr, phase, behind, timer_count, end_time, asked, slept>>
    BY <1>2 DEF dev_init, vars, clock, sleeper
  <2> QED
    BY <2>1 DEF SleepInv, SleepInPlace, Sleeping, Wrapped, Spent, StepOfCount, Counts
<1>3. ASSUME sleep_return PROVE SleepInPlace'
  BY <1>3 DEF sleep_return, SleepInPlace, Sleeping
<1> QED
  BY <1>1, <1>2, <1>3, PassSleeps, TickSleeps, CallSleeps DEF Next, SleepInv

\* Where a sleep stands while its task looks at the clock: at least so much time has
\* passed as its counts are worth, but for the period that it began in (time.c).
THEOREM SleepAlwaysInPlace == Spec => []SleepInv
<1>1. Init => SleepInv
  BY InitInPlace DEF Init, SleepInv, SleepInPlace, Sleeping
<1> QED
  BY <1>1, SleepStepKeeps, PTL DEF Spec

\* What is left of a product.
LEMMA LessByPeriod ==
  ASSUME NEW s \in Nat, NEW c \in Nat, NEW m \in Nat \ {0}, NEW r \in Nat \ {0}, NEW spent \in Int,
         s >= spent - (m - 1), spent * r >= c * m
  PROVE  s * r > (c - r) * m
<1>1. s * r >= (spent - (m - 1)) * r
  BY Products, SMT
<1>2. (spent - (m - 1)) * r = spent * r - m * r + r
  BY SMT
<1>3. (c - r) * m = c * m - m * r
  BY SMT
<1>4. {s * r, spent * r, c * m, m * r} \subseteq Int
  BY SMT
<1> QED
  BY <1>1, <1>2, <1>3, <1>4, SMT

LEMMA EndedLongEnough ==
  ASSUME SleepInv, sleep_return PROVE slept * Resolution > (asked - Short) * Match \/ Wrapped
<1> SUFFICES ASSUME ~Wrapped PROVE slept * Resolution > (asked - Short) * Match
  OBVIOUS
<1>1. TimerInv /\ Sleeping /\ asked \in 0 .. CountSize - 1 /\ end_time <= timer_count
  <2>1. TimerInv /\ Sleeping /\ asked < CountSize /\ ~(timer_count < end_time)
    BY DEF SleepInv, SleepInPlace, sleep_return, StillWaiting
  <2> QED
    BY <2>1, SleepTypes, Sizes, SMT
<1>2. Short \in Int /\ Short >= Resolution
  BY Sizes, SMT DEF Short
<1>3. CASE slept = MaxSlept
  <2> DEFINE q == CountSize \div Resolution
  <2>1. q \in Nat /\ q * Resolution > CountSize - Resolution
    BY Sizes, SMT
  <2> HIDE DEF q
  <2>2. slept * Resolution = (q * Resolution) * Match
    <3>1. slept = q * Match
      BY <1>3 DEF q, MaxSlept
    <3> QED
      BY <2>1, <3>1, Sizes, SMT
  <2>3. q * Resolution \in Int /\ asked - Short + 1 \in Int /\ asked - Short + 1 <= q * Resolution
    BY <1>1, <1>2, <2>1, Sizes, SMT
  <2>4. (asked - Short + 1) * Match <= (q * Resolution) * Match
    BY <2>3, Products, Sizes
  <2>5. (asked - Short + 1) * Match = (asked - Short) * Match + Match /\ (asked - Short) * Match \in Int
    BY <1>1, <1>2, Sizes, SMT
  <2>6. (q * Resolution) * Match \in Int
    BY <2>3, Sizes, SMT
  <2> QED
    BY <2>2, <2>4, <2>5, <2>6, Sizes, SMT
<1>4. CASE slept # MaxSlept
  <2>1. Spent * StepOfCount >= (timer_count - end_time + Counts) * Match
    BY <1>1, <1>4 DEF SleepInv, SleepInPlace
  <2>2. Spent * StepOfCount >= Counts * Match
    <3> DEFINE e == timer_count - end_time + Counts
    <3>1. e \in Int /\ Counts <= e /\ Counts \in Int
      BY <1>1, SleepTypes, SMT
    <3> HIDE DEF e
    <3>2. Counts * Match <= e * Match /\ Counts * Match \in Int /\ e * Match \in Int
      BY <3>1, Products, Sizes
    <3>3. Spent * StepOfCount \in Int
      BY <1>1, SleepTypes, SMT
    <3>4. Spent * StepOfCount >= e * Match
      BY <2>1 DEF e
    <3> QED
      BY <3>2, <3>3, <3>4, SMT
  <2>3. slept \in Nat /\ Spent \in Int /\ Counts \in Nat
    BY <1>1, SleepTypes, Sizes, SMT
  <2>4. CASE lab = 4
    <3>1. slept >= Spent - (Match - 1)
      <4>1. behind \in {0, 1}
        BY <1>1, <2>4 DEF TimerInv, ClockInPlace, TypeOK
      <4>2. behind * Match \in Nat
        BY <4>1, Sizes, SMT
      <4> QED
        BY <1>1, <2>4, <4>2, SleepTypes, Sizes, SMT DEF Spent
    <3>2. Counts = asked /\ StepOfCount = Resolution /\ Short = Resolution
      BY <2>4 DEF Counts, StepOfCount, Short
    <3> QED
      BY <2>2, <2>3, <3>1, <3>2, LessByPeriod, Sizes
  <2>5. CASE lab = 3
    <3>1. slept >= Spent - (Match - 1)
      BY <1>1, <2>5, SleepTypes, Sizes, SMT DEF Spent
    <3>2. Counts = asked \div Resolution /\ StepOfCount = 1 /\ Short = 2 * Resolution
      BY <2>5 DEF Counts, StepOfCount, Short
    <3>3. slept * 1 > (Counts - 1) * Match
      BY <2>2, <2>3, <3>1, <3>2, LessByPeriod, Sizes
    <3>4. slept >= (Counts - 1) * Match /\ (Counts - 1) * Match \in Int
      BY <2>3, <3>3, Sizes, SMT
    <3>5. slept * Resolution > ((Counts - 1) * Match) * Resolution
      <4>1. slept - (Counts - 1) * Match >= 1
        BY <2>3, <3>3, <3>4, SMT
      <4> DEFINE a == (Counts - 1) * Match
      <4> HIDE DEF a
      <4>2. a \in Int /\ slept >= a + 1
        BY <2>3, <3>4, <4>1, SMT DEF a
      <4>3. (a + 1) * Resolution <= slept * Resolution
        BY <2>3, <4>2, Products, Sizes, SMT
      <4> QED
        BY <2>3, <4>2, <4>3, Sizes, SMT DEF a
    <3>6. ((Counts - 1) * Match) * Resolution = ((Counts - 1) * Resolution) * Match
      BY <2>3, Sizes, SMT
    <3>7. asked - Short <= (Counts - 1) * Resolution
      BY <1>1, <2>3, <3>2, Sizes, SMT
    <3>8. (asked - Short) * Match <= ((Counts - 1) * Resolution) * Match
      <4>1. (Counts - 1) * Resolution \in Int /\ asked - Short \in Int
        BY <1>1, <1>2, <2>3, Sizes, SMT
      <4> QED
        BY <3>7, <4>1, Products, Sizes
    <3>9. {(asked - Short) * Match, ((Counts - 1) * Resolution) * Match, slept * Resolution} \subseteq Int
      BY <1>1, <1>2, <2>3, Sizes, SMT
    <3> QED
      BY <3>5, <3>6, <3>8, <3>9, SMT
  <2> QED
    BY <1>1, <2>4, <2>5, SleepTypes
<1> QED
  BY <1>3, <1>4

\* sleep_syscall: no task comes back from sleep a tick early in lab 4, or two in lab 3,
\* unless the end of its sleep wrapped.
THEOREM SleepsLongEnough == Spec => SleepLongEnough
<1>1. SleepInv /\ [Next]_vars =>
        [(Sleeping /\ end_time' = -1) => slept * Resolution > (asked - Short) * Match \/ Wrapped]_vars
  <2> SUFFICES ASSUME SleepInv, [Next]_vars, Sleeping, end_time' = -1
               PROVE  slept * Resolution > (asked - Short) * Match \/ Wrapped
    OBVIOUS
  <2>1. sleep_return
    BY DEF Next, vars, pass, lab3_C_IRQ_handler, C_IRQ_handler, dev_init, sleep_syscall, Counted,
           sleeper, Sleeping
  <2> QED
    BY <2>1, EndedLongEnough
<1> QED
  BY <1>1, SleepAlwaysInPlace, PTL DEF Spec, SleepLongEnough
=============================================================================
