-------------------------- MODULE Programs_proofs --------------------------
(***************************************************************************)
(* The test programs of lab 4 on the kernel: what they do is what the      *)
(* kernel allows, no operation on a number of mutex_chaser is lost or out  *)
(* of order, and the kernel refuses just the calls that it should.         *)
(***************************************************************************)
EXTENDS Programs, KernelInv_proofs

-----------------------------------------------------------------------------
(* The numbers of mutex_chaser *)

\* One round of the definition of Outcomes.
Round(f) ==
  [T \in SUBSET (1 .. 4) |->
     IF T = {} THEN {2} ELSE UNION {{Apply(t, v) : v \in f[T \ {t}]} : t \in T}]

\* Two functions that agree on the sets of less than n tasks.
Agree(f, g, n) == \A T \in SUBSET (1 .. 4) : Cardinality(T) < n => f[T] = g[T]

LEMMA SmallSets ==
  ASSUME NEW T \in SUBSET (1 .. 4)
  PROVE  IsFiniteSet(T) /\ Cardinality(T) \in Nat /\ Cardinality(T) <= 4
PROOF
<1>1. IsFiniteSet(1 .. 4) /\ Cardinality(1 .. 4) = 4
  <2>1. 4 \in Int /\ 1 \in Int /\ (IF 1 > 4 THEN 0 ELSE 4 - 1 + 1) = 4
    OBVIOUS
  <2> QED BY <2>1, FS_Interval
<1> QED BY <1>1, FS_Subset, FS_CardinalityType

LEMMA RoundsAgree ==
  ASSUME NEW f, NEW g, NEW n \in Nat, Agree(f, g, n)
  PROVE  Agree(Round(f), Round(g), n + 1)
PROOF
<1> SUFFICES ASSUME NEW T \in SUBSET (1 .. 4), Cardinality(T) < n + 1 PROVE Round(f)[T] = Round(g)[T]
  BY DEF Agree
<1>1. ASSUME NEW t \in T PROVE f[T \ {t}] = g[T \ {t}]
  <2>1. Cardinality(T \ {t}) = Cardinality(T) - 1 /\ T \ {t} \in SUBSET (1 .. 4)
    BY SmallSets, FS_RemoveElement
  <2>2. Cardinality(T \ {t}) < n
    BY <2>1, SmallSets
  <2> QED BY <2>1, <2>2 DEF Agree
<1>2. {{Apply(t, v) : v \in f[T \ {t}]} : t \in T} = {{Apply(t, v) : v \in g[T \ {t}]} : t \in T}
  BY <1>1, Zenon
<1> QED BY <1>2 DEF Round

\* The recursive definition of Outcomes defines what it says: five rounds, from any
\* function, get to all subsets of four tasks.
LEMMA OutcomesUnfold == Outcomes = Round(Outcomes)
PROOF
<1> DEFINE R1 == Round([T \in SUBSET (1 .. 4) |-> {}])
           R2 == Round(R1)
           R3 == Round(R2)
           R4 == Round(R3)
           R5 == Round(R4)
           R6 == Round(R5)
<1>1. Agree(R1, R2, 1)
  <2>1. Agree([T \in SUBSET (1 .. 4) |-> {}], R1, 0)
    BY SmallSets DEF Agree
  <2> HIDE DEF R1
  <2>2. Agree(Round([T \in SUBSET (1 .. 4) |-> {}]), Round(R1), 0 + 1)
    BY <2>1, RoundsAgree
  <2> QED BY <2>2 DEF R1
<1> HIDE DEF R1
<1>2. Agree(R2, R3, 2)
  <2>1. Agree(R2, R3, 1 + 1)
    BY <1>1, RoundsAgree
  <2> QED BY <2>1
<1> HIDE DEF R2
<1>3. Agree(R3, R4, 3)
  <2>1. Agree(R3, R4, 2 + 1)
    BY <1>2, RoundsAgree
  <2> QED BY <2>1
<1> HIDE DEF R3
<1>4. Agree(R4, R5, 4)
  <2>1. Agree(R4, R5, 3 + 1)
    BY <1>3, RoundsAgree
  <2> QED BY <2>1
<1> HIDE DEF R4
<1>5. Agree(R5, R6, 5)
  <2>1. Agree(R5, R6, 4 + 1)
    BY <1>4, RoundsAgree
  <2> QED BY <2>1
<1>6. R5 = R6
  <2>1. \A T \in SUBSET (1 .. 4) : R5[T] = R6[T]
    BY <1>5, SmallSets DEF Agree
  <2> QED BY <2>1 DEF Round
<1> HIDE DEF R5
<1>7. \E f : f = Round(f)
  BY <1>6
<1> QED BY <1>7, Zenon DEF Outcomes, Round

LEMMA OutcomesOfNone == Outcomes[{}] = {2}
PROOF
<1>1. Round(Outcomes)[{}] = {2}
  BY DEF Round
<1> QED BY <1>1, OutcomesUnfold

LEMMA OneMore ==
  ASSUME NEW T \in SUBSET (1 .. 4), NEW t \in (1 .. 4) \ T, NEW v \in Outcomes[T]
  PROVE  Apply(t, v) \in Outcomes[T \cup {t}]
PROOF
<1> DEFINE U == T \cup {t}
<1>1. U \in SUBSET (1 .. 4) /\ U # {} /\ t \in U /\ U \ {t} = T
  OBVIOUS
<1> HIDE DEF U
<1>2. Round(Outcomes)[U] = UNION {{Apply(s, w) : w \in Outcomes[U \ {s}]} : s \in U}
  BY <1>1 DEF Round
<1>3. Apply(t, v) \in {Apply(t, w) : w \in Outcomes[U \ {t}]}
  BY <1>1
<1>4. Apply(t, v) \in UNION {{Apply(s, w) : w \in Outcomes[U \ {s}]} : s \in U}
  <2> HIDE DEF Apply, U
  <2>1. {Apply(t, w) : w \in Outcomes[U \ {t}]} \in {{Apply(s, w) : w \in Outcomes[U \ {s}]} : s \in U}
    BY <1>1, Zenon
  <2> QED BY <1>3, <2>1, Zenon
<1> QED BY <1>2, <1>4, OutcomesUnfold DEF U

-----------------------------------------------------------------------------
(* Every step of a program is one of the kernel's *)

LEMMA Sizes ==
  /\ IDLE_PRIO \in Nat /\ NumMutexes \in Nat /\ NumDevices \in Nat /\ NUM_TASK \in Nat
  /\ NumDevices >= 4 /\ NumMutexes >= 2 /\ IDLE_PRIO > 7
  /\ NUM_TASK > NumDevices + 2 /\ NUM_TASK < IDLE_PRIO
  /\ 1 .. 4 \subseteq Tcbs /\ NULL \notin Tcbs /\ IDLE_PRIO \in Tcbs
  /\ 0 .. 3 \subseteq Devices /\ Devices \subseteq DevQueues
  /\ {1, 2, 3, 4, NUM_TASK} \subseteq 1 .. IDLE_PRIO - 1
  /\ {0, 1} \subseteq Mutexes /\ NumMutexes \notin Mutexes /\ NumMutexes + 1 \notin Mutexes
PROOF
  BY KernelAssumption, ProgramsAssumption DEF Tcbs, NULL, Devices, DevQueues, Mutexes

LEMMA CreateIsIntended == ASSUME NEW r, create_stub(r) PROVE [IntendedNext]_vars
PROOF
  BY DEF create_stub, IntendedNext

LEMMA LockIsIntended == ASSUME NEW m, NEW r, lock_stub(m, r) PROVE [IntendedNext]_vars
PROOF
<1>1. CASE r = ok
  <2>1. m \in Mutexes
    BY <1>1 DEF lock_stub, lock_result, ok
  <2> QED BY <1>1, <2>1 DEF lock_stub, IntendedNext
<1> QED BY <1>1 DEF lock_stub

LEMMA UnlockIsIntended == ASSUME NEW m, NEW r, unlock_stub(m, r) PROVE [IntendedNext]_vars
PROOF
<1>1. CASE r = ok
  <2>1. m \in Mutexes
    BY <1>1 DEF unlock_stub, unlock_result, ok
  <2> QED BY <1>1, <2>1 DEF unlock_stub, IntendedNext
<1> QED BY <1>1 DEF unlock_stub

LEMMA WaitIsIntended == ASSUME NEW d \in Nat, NEW r, wait_stub(d, r) PROVE [IntendedNext]_vars
PROOF
<1>1. CASE r = ok
  <2>1. d \in DevQueues
    BY <1>1, Sizes DEF wait_stub, wait_result, ok, DevQueues
  <2> QED BY <1>1, <2>1 DEF wait_stub, IntendedNext
<1> QED BY <1>1 DEF wait_stub

\* main creates the tasks.
MainCreates == \E n \in 1 .. IDLE_PRIO - 1 : task_create(n) /\ cur_tcb = NULL
AsIntended == [IntendedNext]_vars \/ MainCreates

LEMMA StartIsIntended ==
  ASSUME NEW n \in 1 .. IDLE_PRIO - 1, NEW r, task_create_stub(n, r), cur_tcb = NULL
  PROVE  AsIntended
PROOF
<1>1. InUser => InMain /\ ~InTask
  BY Sizes DEF InUser, InTask
<1>2. task_create(n) \/ task_create_unschedulable
  BY DEF task_create_stub
<1>3. task_create_unschedulable => task_create_unschedulable /\ InMain
  BY <1>1 DEF task_create_unschedulable
<1> QED BY <1>2, <1>3 DEF AsIntended, MainCreates, IntendedNext

LEMMA IntendedIsKernels == AsIntended => [Next]_vars
PROOF
  BY DEF AsIntended, MainCreates, IntendedNext, Next, Syscall

-----------------------------------------------------------------------------
(* What a program keeps to itself: where its tasks are, their variables and  *)
(* its numbers.                                                              *)

Labels == {"start", "loop", "locked", "read", "written", "wait", "panic", "e", "unlock", "!",
           "sleep", "create", "ends", "never", "end"}

\* Where a task of mutex_chaser has a mutex locked.
Inside == {"locked", "read", "written"}

\* No task has begun before main creates them.
NoneBegun == num_tasks = 0 => \A t \in Tcbs : at[t] = "start"

LocalsInPlace ==
  /\ ProgramsTypeOK
  /\ prog = "mutex_chaser" =>
       /\ mem \in [Mutexes -> Int]
       /\ \A t \in 1 .. 4 :
            /\ i[t] \in 0 .. NumMutexes
            /\ at[t] \in Inside => i[t] < NumMutexes
  /\ prog = "sys_err" =>
       /\ at[1] \in {"start", "loop"} => i[1] < NumMutexes + Len(Script)
       /\ i[NULL] \in 0 .. 2

LEMMA ScriptLength == Len(Script) = 8 /\ 1 .. Len(Script) = 1 .. 8
PROOF
  BY DEF Script

LEMMA InitLocals == ProgramsInit => LocalsInPlace
PROOF
<1> SUFFICES ASSUME ProgramsInit PROVE LocalsInPlace
  OBVIOUS
<1>1. /\ prog \in Loaded /\ b_set \in BOOLEAN
      /\ at = [t \in Tcbs \cup {NULL} |-> "start"] /\ i = [t \in Tcbs \cup {NULL} |-> 0]
      /\ reg = [t \in Tcbs |-> 0] /\ errno = "none" /\ late = FALSE /\ mem = Globals
  BY DEF ProgramsInit
<1>2. ProgramsTypeOK
  <2>1. 0 \in 0 .. NumMutexes + Len(Script) /\ 0 \in Int
    BY Sizes, ScriptLength
  <2>2. at \in [Tcbs \cup {NULL} -> Labels] /\ i \in [Tcbs \cup {NULL} -> 0 .. NumMutexes + Len(Script)]
    BY <1>1, <2>1 DEF Labels
  <2>3. reg \in [Tcbs -> Int] /\ errno \in Errors \cup {"none"} /\ late \in BOOLEAN
    BY <1>1, <2>1
  <2> QED BY <1>1, <2>2, <2>3 DEF ProgramsTypeOK, Labels
<1>3. prog = "mutex_chaser" => mem = [m \in Mutexes |-> 2]
  BY <1>1 DEF Globals
<1> QED BY <1>1, <1>2, <1>3, Sizes, ScriptLength DEF LocalsInPlace, Inside

\* The places that the processor takes next, and the results of calls, are typed.
LEMMA GoesType ==
  ASSUME ProgramsTypeOK, NEW from, NEW to \in Labels, cur_tcb \in Tcbs \cup {NULL}, Goes(from, to)
  PROVE  /\ at' \in [Tcbs \cup {NULL} -> Labels]
         /\ at[cur_tcb] = from /\ at'[cur_tcb] = to
         /\ \A t \in (Tcbs \cup {NULL}) \ {cur_tcb} : at'[t] = at[t]
PROOF
  BY DEF ProgramsTypeOK, Goes, Labels

LEMMA StubType ==
  ASSUME ProgramsTypeOK, NEW r \in Errors \cup {ok}, Stub(r)
  PROVE  errno' \in Errors \cup {"none"}
PROOF
  BY DEF ProgramsTypeOK, Stub

LEMMA CallsType ==
  ASSUME ProgramsTypeOK, NEW r \in Errors \cup {ok}, NEW x,
         create_stub(r) \/ lock_stub(x, r) \/ unlock_stub(x, r) \/ wait_stub(x, r)
           \/ task_create_stub(x, r)
  PROVE  errno' \in Errors \cup {"none"}
PROOF
  BY StubType DEF create_stub, lock_stub, unlock_stub, wait_stub, task_create_stub

\* A step of a program but mutex_chaser and sys_err, which alone count in i.
LEMMA LocalsElsewhere ==
  ASSUME LocalsInPlace, prog \notin {"mutex_chaser", "sys_err"}, UNCHANGED <<mains, i, reg>>,
         at' \in [Tcbs \cup {NULL} -> Labels], errno' \in Errors \cup {"none"}, late' \in BOOLEAN
  PROVE  LocalsInPlace'
PROOF
  BY DEF LocalsInPlace, ProgramsTypeOK, mains, Labels

\* What the waits and the starts of all programs do to it.
LEMMA WaitsLocals ==
  ASSUME ProgramsTypeOK, NEW d \in Nat, waits(d), cur_tcb \in Tcbs
  PROVE  /\ at' \in [Tcbs \cup {NULL} -> Labels] /\ errno' \in Errors \cup {"none"}
         /\ UNCHANGED <<i, reg, mem, failed>>
         /\ at[cur_tcb] = "wait" /\ at'[cur_tcb] \in {"loop", "panic"}
         /\ \A t \in (Tcbs \cup {NULL}) \ {cur_tcb} : at'[t] = at[t]
PROOF
<1>1. PICK r \in Errors \cup {ok} : Goes("wait", Or(r, "loop")) /\ wait_stub(d, r)
  BY DEF waits
<1>2. Or(r, "loop") \in {"loop", "panic"} /\ {"loop", "panic"} \subseteq Labels
  BY DEF Or, Labels
<1> QED BY <1>1, <1>2, GoesType, CallsType DEF waits

LEMMA StartsLocals ==
  ASSUME ProgramsTypeOK, NEW n \in 1 .. IDLE_PRIO - 1, starts(n)
  PROVE  /\ at' \in [Tcbs \cup {NULL} -> Labels] /\ errno' \in Errors \cup {"none"}
         /\ UNCHANGED <<reg, mem, failed>>
         /\ \A t \in Tcbs : at'[t] \in {at[t], "loop"}
PROOF
<1>1. PICK r \in {ok, "ESCHED"} :
        /\ task_create_stub(n, r)
        /\ at' = IF r # ok THEN [at EXCEPT ![NULL] = "end"]
                 ELSE [t \in Tcbs \cup {NULL} |-> IF t \in 1 .. n THEN "loop" ELSE at[t]]
  BY DEF starts
<1>2. r \in Errors \cup {ok}
  BY DEF Errors
<1>3. at \in [Tcbs \cup {NULL} -> Labels] /\ "loop" \in Labels /\ "end" \in Labels
  BY DEF ProgramsTypeOK, Labels
<1>4. /\ at' \in [Tcbs \cup {NULL} -> Labels]
      /\ \A t \in Tcbs : at'[t] \in {at[t], "loop"}
  <2>1. CASE r = ok
    BY <1>1, <1>3, <2>1
  <2>2. CASE r # ok
    BY <1>1, <1>3, <2>2, Sizes
  <2> QED BY <2>1, <2>2
<1> QED BY <1>1, <1>2, <1>4, CallsType DEF starts

LEMMA ChaserLocals ==
  ASSUME LocalsInPlace, UNCHANGED <<mains, late>>,
         chaser_fun1 \/ chaser_fun2 \/ chaser_fun3 \/ chaser_fun4 \/ chaser_main
  PROVE  LocalsInPlace'
PROOF
<1> USE Sizes, ScriptLength
<1>1. /\ ProgramsTypeOK /\ prog = "mutex_chaser" /\ mem \in [Mutexes -> Int]
      /\ \A t \in 1 .. 4 : i[t] \in 0 .. NumMutexes /\ (at[t] \in Inside => i[t] < NumMutexes)
      /\ prog' = prog /\ b_set' = b_set /\ late' = late
  BY DEF LocalsInPlace, mains, chaser_fun1, chaser_fun2, chaser_fun3, chaser_fun4, chaser_main, Runs
<1>2. /\ at \in [Tcbs \cup {NULL} -> Labels] /\ i \in [Tcbs \cup {NULL} -> 0 .. NumMutexes + 8]
      /\ reg \in [Tcbs -> Int] /\ errno \in Errors \cup {"none"}
      /\ prog \in Loaded /\ b_set \in BOOLEAN /\ late \in BOOLEAN
  BY <1>1 DEF ProgramsTypeOK, Labels
<1> SUFFICES /\ at' \in [Tcbs \cup {NULL} -> Labels] /\ i' \in [Tcbs \cup {NULL} -> 0 .. NumMutexes + 8]
             /\ reg' \in [Tcbs -> Int] /\ errno' \in Errors \cup {"none"}
             /\ mem' \in [Mutexes -> Int]
             /\ \A t \in 1 .. 4 : i'[t] \in 0 .. NumMutexes /\ (at'[t] \in Inside => i'[t] < NumMutexes)
  BY <1>1, <1>2 DEF LocalsInPlace, ProgramsTypeOK, Labels
<1>3. CASE chaser_main
  <2>1. CASE UNCHANGED <<locals, mem>> /\ \E r \in {ok} : create_stub(r)
    BY <1>1, <1>2, <2>1, CallsType DEF locals
  <2>2. CASE starts(4) /\ i' = [t \in Tcbs \cup {NULL} |-> 1]
    <3>1. \A t \in 1 .. 4 : at'[t] \in {at[t], "loop"} /\ i'[t] = 1
      BY <1>1, <2>2, StartsLocals
    <3>2. /\ at' \in [Tcbs \cup {NULL} -> Labels] /\ errno' \in Errors \cup {"none"}
          /\ UNCHANGED <<reg, mem>>
      BY <1>1, <2>2, StartsLocals
    <3> QED BY <1>1, <1>2, <2>2, <3>1, <3>2
  <2> QED BY <1>3, <2>1, <2>2 DEF chaser_main
<1>4. CASE ~chaser_main
  <2>1. PICK v \in Int, d \in Nat :
          /\ cur_tcb \in 1 .. 4
          /\ locks \/ reads \/ writes(v) \/ unlocks \/ waits(d) \/ (finishes /\ cur_tcb \in 1 .. 4)
    <3>1. reg[1] \in Int /\ reg[2] \in Int /\ reg[3] \in Int /\ reg[4] \in Int
      BY <1>2
    <3>2. reg[1] + 3 \in Int /\ reg[2] * 11 \in Int /\ reg[3] - 7 \in Int /\ reg[4] * 13 \in Int
      BY <3>1
    <3>3. CASE chaser_fun1
      BY <3>2, <3>3 DEF chaser_fun1, Runs
    <3>4. CASE chaser_fun2
      BY <3>2, <3>4 DEF chaser_fun2, Runs
    <3>5. CASE chaser_fun3
      BY <3>2, <3>5 DEF chaser_fun3, Runs
    <3>6. CASE chaser_fun4
      BY <3>2, <3>6 DEF chaser_fun4, Runs
    <3> QED BY <1>4, <3>3, <3>4, <3>5, <3>6
  <2> DEFINE c == cur_tcb
  <2>2. c \in 1 .. 4 /\ c \in Tcbs /\ c \in Tcbs \cup {NULL}
    BY <2>1
  <2>3. CASE locks
    <3>1. PICK r \in Errors \cup {ok} : Goes("loop", Or(r, "locked")) /\ lock_stub(i[c], r)
      BY <2>3 DEF locks
    <3>2. Or(r, "locked") \in Labels
      BY DEF Or, Labels
    <3>3. i[c] < NumMutexes /\ UNCHANGED <<i, reg, mem>>
      BY <2>3 DEF locks
    <3> QED BY <1>1, <1>2, <2>2, <3>1, <3>2, <3>3, GoesType, CallsType
  <2>4. CASE reads
    <3>1. /\ Goes("locked", "read") /\ reg' = [reg EXCEPT ![c] = mem[i[c]]] /\ UNCHANGED <<i, mem, errno>>
          /\ "read" \in Labels
      BY <2>4 DEF reads, Own, Labels
    <3>2. at[c] = "locked" /\ i[c] \in Mutexes
      <4>1. at[c] = "locked"
        BY <1>1, <2>2, <3>1, GoesType
      <4>2. i[c] \in 0 .. NumMutexes /\ i[c] < NumMutexes
        BY <1>1, <2>2, <4>1 DEF Inside
      <4> QED BY <4>1, <4>2 DEF Mutexes
    <3>3. mem[i[c]] \in Int
      BY <1>1, <3>2
    <3> QED BY <1>1, <1>2, <2>2, <3>1, <3>2, <3>3, GoesType DEF Inside
  <2>5. CASE writes(v)
    <3>1. /\ Goes("read", "written") /\ mem' = [mem EXCEPT ![i[c]] = v] /\ UNCHANGED <<i, reg, errno>>
          /\ "written" \in Labels
      BY <2>5 DEF writes, store, Own, Labels
    <3>2. at[c] = "read"
      BY <1>1, <2>2, <3>1, GoesType
    <3> QED BY <1>1, <1>2, <2>1, <2>2, <3>1, <3>2, GoesType DEF Inside
  <2>6. CASE unlocks
    <3>1. PICK r \in Errors \cup {ok} : Goes("written", Or(r, "wait")) /\ unlock_stub(i[c], r)
      BY <2>6 DEF unlocks
    <3>2. Or(r, "wait") \in Labels /\ Or(r, "wait") \notin Inside
      BY DEF Or, Labels, Inside
    <3>3. i' = [i EXCEPT ![c] = i[c] + 1] /\ UNCHANGED <<reg, mem>>
      BY <2>6 DEF unlocks, Counts
    <3>4. at[c] = "written"
      BY <1>1, <2>2, <3>1, <3>2, GoesType
    <3>5. i[c] + 1 \in 0 .. NumMutexes
      BY <1>1, <2>2, <3>4 DEF Inside
    <3> QED BY <1>1, <1>2, <2>2, <3>1, <3>2, <3>3, <3>5, GoesType, CallsType
  <2>7. CASE waits(d)
    BY <1>1, <1>2, <2>2, <2>7, WaitsLocals DEF Inside
  <2>8. CASE finishes
    <3>1. Goes("loop", "wait") /\ UNCHANGED <<i, reg, mem, errno>> /\ "wait" \in Labels /\ "wait" \notin Inside
      BY <2>8 DEF finishes, Own, Labels, Inside
    <3> QED BY <1>1, <1>2, <2>2, <3>1, GoesType
  <2> QED BY <2>1, <2>3, <2>4, <2>5, <2>6, <2>7, <2>8
<1> QED BY <1>3, <1>4

LEMMA SysErrLocals ==
  ASSUME LocalsInPlace, NoneBegun, UNCHANGED <<mains, late>>, sys_err_fun1 \/ sys_err_main
  PROVE  LocalsInPlace'
PROOF
<1> USE Sizes, ScriptLength
<1>1. /\ ProgramsTypeOK /\ prog = "sys_err" /\ prog' = prog /\ b_set' = b_set /\ late' = late
      /\ at[1] \in {"start", "loop"} => i[1] < NumMutexes + 8
      /\ i[NULL] \in 0 .. 2
  BY DEF LocalsInPlace, mains, sys_err_fun1, sys_err_main, Runs
<1>2. /\ at \in [Tcbs \cup {NULL} -> Labels] /\ i \in [Tcbs \cup {NULL} -> 0 .. NumMutexes + 8]
      /\ reg \in [Tcbs -> Int] /\ errno \in Errors \cup {"none"}
      /\ prog \in Loaded /\ b_set \in BOOLEAN /\ late \in BOOLEAN
  BY <1>1 DEF ProgramsTypeOK, Labels
<1> SUFFICES /\ at' \in [Tcbs \cup {NULL} -> Labels] /\ i' \in [Tcbs \cup {NULL} -> 0 .. NumMutexes + 8]
             /\ reg' = reg /\ errno' \in Errors \cup {"none"}
             /\ at'[1] \in {"start", "loop"} => i'[1] < NumMutexes + 8
             /\ i'[NULL] \in 0 .. 2
  BY <1>1, <1>2 DEF LocalsInPlace, ProgramsTypeOK, Labels
<1>3. CASE sys_err_main
  <2>1. ASSUME NEW n, NEW u, NEW r \in Errors, refused_stub(n, u, r)
        PROVE  errno' \in Errors \cup {"none"}
    BY <1>1, <2>1, StubType DEF refused_stub
  <2>2. CASE /\ i[NULL] \in 0 .. 1 /\ i' = [i EXCEPT ![NULL] = i[NULL] + 1] /\ UNCHANGED <<at, reg, mem>>
             /\ errno' \in Errors \cup {"none"}
    <3>1. i[NULL] + 1 \in 0 .. NumMutexes + 8 /\ i[NULL] + 1 \in 0 .. 2
      BY <2>2
    <3> QED BY <1>1, <1>2, <2>2, <3>1
  <2>3. CASE starts(1) /\ UNCHANGED i
    <3>1. at'[1] \in {at[1], "loop"}
      BY <1>1, <2>3, StartsLocals
    <3>2. at[1] = "start"
      BY <1>3 DEF sys_err_main, Runs, InUser, InMain, InTask, Main, NoneBegun
    <3> QED BY <1>1, <1>2, <2>3, <3>1, <3>2, StartsLocals
  <2>4. CASE ~(starts(1) /\ UNCHANGED i)
    <3>1. \/ /\ i[NULL] = 0 /\ \E r \in Errors : refused_stub(IDLE_PRIO, TRUE, r)
             /\ i' = [i EXCEPT ![NULL] = 1]
          \/ /\ i[NULL] = 1 /\ \E r \in Errors : refused_stub(IDLE_PRIO \div 2, FALSE, r)
             /\ i' = [i EXCEPT ![NULL] = 2]
      BY <1>3, <2>4 DEF sys_err_main, Counts, Runs
    <3>2. UNCHANGED <<at, reg, mem>>
      BY <1>3, <2>4 DEF sys_err_main
    <3>3. errno' \in Errors \cup {"none"}
      BY <2>1, <3>1
    <3>4. i[NULL] \in 0 .. 1 /\ i' = [i EXCEPT ![NULL] = i[NULL] + 1]
      <4>1. CASE i[NULL] = 0 /\ i' = [i EXCEPT ![NULL] = 1]
        <5>1. 1 = i[NULL] + 1
          BY <4>1
        <5> QED BY <4>1, <5>1
      <4>2. CASE i[NULL] = 1 /\ i' = [i EXCEPT ![NULL] = 2]
        <5>1. 2 = i[NULL] + 1
          BY <4>2
        <5> QED BY <4>2, <5>1
      <4> QED BY <3>1, <4>1, <4>2
    <3> QED BY <2>2, <3>2, <3>3, <3>4
  <2> QED BY <2>3, <2>4
<1>4. CASE sys_err_fun1
  <2>1. cur_tcb = 1 /\ 1 \in Tcbs \cup {NULL} /\ at[1] = "loop" /\ i[1] < NumMutexes + 8
    BY <1>1, <1>4 DEF sys_err_fun1, Runs
  <2>2. i' = [i EXCEPT ![1] = i[1] + 1] /\ reg' = reg
    BY <1>4, <2>1 DEF sys_err_fun1, Counts
  <2>3. /\ i' \in [Tcbs \cup {NULL} -> 0 .. NumMutexes + 8] /\ i'[1] = i[1] + 1 /\ i'[NULL] = i[NULL]
    BY <1>2, <2>1, <2>2
  <2>4. CASE i[1] < NumMutexes /\ at' = at /\ \E r \in {ok} : create_stub(r)
    <3>1. errno' \in Errors \cup {"none"}
      BY <1>1, <2>4, CallsType
    <3> QED BY <1>1, <1>2, <2>2, <2>3, <2>4, <3>1
  <2>5. CASE i[1] >= NumMutexes
    <3> DEFINE k == i[1] - NumMutexes + 1
    <3>1. PICK r \in Errors \cup {ok} :
            /\ Performs(Script[k], r)
            /\ at' = [at EXCEPT ![1] = IF k = Len(Script) THEN "end" ELSE "loop"]
      BY <1>2, <1>4, <2>1, <2>5 DEF sys_err_fun1
    <3>2. errno' \in Errors \cup {"none"}
      BY <1>1, <3>1, CallsType DEF Performs
    <3>3. at' \in [Tcbs \cup {NULL} -> Labels] /\ at'[1] = IF k = 8 THEN "end" ELSE "loop"
      BY <1>2, <2>1, <3>1 DEF Labels
    <3>4. k # 8 => i[1] + 1 < NumMutexes + 8
      BY <1>2, <2>1
    <3> QED BY <1>1, <2>2, <2>3, <3>2, <3>3, <3>4
  <2> QED BY <1>2, <1>4, <2>1, <2>4, <2>5 DEF sys_err_fun1
<1> QED BY <1>3, <1>4

LEMMA OtherLocals ==
  ASSUME LocalsInPlace, UNCHANGED <<mains, late>>,
         \/ simple_fun1 \/ simple_fun2 \/ simple_fun3 \/ simple_main
         \/ stress_fun1 \/ stress_main
         \/ cyclone_fun1 \/ cyclone_main
         \/ dagger_fun1 \/ dagger_fun2 \/ dagger_main
  PROVE  LocalsInPlace'
PROOF
<1> USE Sizes
<1>0. InUser /\ prog \notin {"mutex_chaser", "sys_err"}
  BY DEF simple_fun1, simple_fun2, simple_fun3, simple_main, stress_fun1, stress_main,
    cyclone_fun1, cyclone_main, dagger_fun1, dagger_fun2, dagger_main, Runs
<1>1. /\ ProgramsTypeOK /\ late' = late /\ late \in BOOLEAN /\ cur_tcb \in Tcbs \cup {NULL}
      /\ prog \notin {"mutex_chaser", "sys_err"}
  BY <1>0 DEF LocalsInPlace, ProgramsTypeOK, InUser, InMain, InTask, Main
<1>2. at \in [Tcbs \cup {NULL} -> Labels] /\ errno \in Errors \cup {"none"}
  BY <1>1 DEF ProgramsTypeOK, Labels
<1> SUFFICES /\ UNCHANGED <<i, reg>>
             /\ at' \in [Tcbs \cup {NULL} -> Labels] /\ errno' \in Errors \cup {"none"}
  BY <1>1, LocalsElsewhere
<1>3. ASSUME NEW d \in Nat, waits(d), cur_tcb # NULL
      PROVE  /\ UNCHANGED <<i, reg>>
             /\ at' \in [Tcbs \cup {NULL} -> Labels] /\ errno' \in Errors \cup {"none"}
  BY <1>1, <1>3, WaitsLocals
<1>4. ASSUME NEW n \in 1 .. IDLE_PRIO - 1, starts(n)
      PROVE  /\ UNCHANGED reg
             /\ at' \in [Tcbs \cup {NULL} -> Labels] /\ errno' \in Errors \cup {"none"}
  BY <1>1, <1>4, StartsLocals
<1>5. ASSUME NEW from, NEW to \in Labels, Goes(from, to)
      PROVE  at' \in [Tcbs \cup {NULL} -> Labels]
  BY <1>1, <1>5, GoesType
<1>6. {"loop", "wait", "e", "unlock", "!", "sleep", "create", "ends", "never"} \subseteq Labels
  BY DEF Labels
<1>7. CASE simple_fun1
  BY <1>1, <1>2, <1>3, <1>5, <1>6, <1>7, CallsType DEF simple_fun1, locals, Own, Runs
<1>8. CASE simple_fun2 \/ simple_fun3
  BY <1>1, <1>2, <1>3, <1>5, <1>6, <1>8, CallsType DEF simple_fun2, simple_fun3, Own, Runs
<1>9. CASE simple_main \/ stress_main \/ cyclone_main \/ dagger_main
  BY <1>4, <1>9 DEF simple_main, stress_main, cyclone_main, dagger_main
<1>10. CASE stress_fun1 \/ dagger_fun1 \/ dagger_fun2
  BY <1>2, <1>3, <1>5, <1>6, <1>10 DEF stress_fun1, dagger_fun1, dagger_fun2, prints, Own, Runs, NULL
<1>11. CASE cyclone_fun1
  <2>1. CASE at' \in [Tcbs \cup {NULL} -> Labels] /\ UNCHANGED <<i, reg, errno>>
    BY <1>2, <2>1
  <2>2. CASE \E r \in {ok, "ESCHED"} :
               task_create_stub(1, r) /\ at' = [at EXCEPT ![1] = IF r = ok THEN "loop" ELSE "never"]
    <3>1. {ok, "ESCHED"} \subseteq Errors \cup {ok}
      BY DEF Errors
    <3>2. errno' \in Errors \cup {"none"}
      BY <1>1, <2>2, <3>1, CallsType
    <3>3. UNCHANGED <<i, reg>>
      BY <1>11 DEF cyclone_fun1
    <3> QED BY <1>2, <1>6, <2>2, <3>2, <3>3
  <2> QED BY <1>5, <1>6, <1>11, <2>1, <2>2 DEF cyclone_fun1, Own
<1> QED BY <1>7, <1>8, <1>9, <1>10, <1>11

LEMMA StepIsIntended ==
  ASSUME LocalsInPlace, prog # "cyclone", [ProgramsNext]_pvars
  PROVE  AsIntended
PROOF
<1> USE Sizes
<1>1. Own \/ UNCHANGED pvars => AsIntended
  BY DEF Own, pvars, AsIntended
<1>2. \A d \in Nat : waits(d) => AsIntended
  BY WaitIsIntended DEF waits, AsIntended
<1>3. \A n \in 1 .. IDLE_PRIO - 1 : starts(n) /\ cur_tcb = NULL => AsIntended
  BY StartIsIntended DEF starts
<1>4. locks \/ unlocks => AsIntended
  BY LockIsIntended, UnlockIsIntended DEF locks, unlocks, AsIntended
<1>5. \A v : writes(v) => AsIntended
  BY <1>1 DEF writes
<1>6. reads \/ finishes => AsIntended
  BY <1>1 DEF reads, finishes
<1>7. CASE chaser_fun1 \/ chaser_fun2 \/ chaser_fun3 \/ chaser_fun4 \/ chaser_main
  BY <1>2, <1>3, <1>4, <1>5, <1>6, <1>7, CreateIsIntended
  DEF chaser_fun1, chaser_fun2, chaser_fun3, chaser_fun4, chaser_main, Runs, AsIntended
<1>8. CASE simple_fun1 \/ simple_fun2 \/ simple_fun3 \/ simple_main
  BY <1>1, <1>2, <1>3, <1>8, CreateIsIntended, LockIsIntended, UnlockIsIntended
  DEF simple_fun1, simple_fun2, simple_fun3, simple_main, Runs, AsIntended
<1>9. CASE sys_err_fun1 \/ sys_err_main
  <2>1. ASSUME NEW r, refused_stub(IDLE_PRIO, TRUE, r) \/ refused_stub(IDLE_PRIO \div 2, FALSE, r)
        PROVE  AsIntended
    BY <2>1 DEF refused_stub, AsIntended
  <2>2. ASSUME NEW r, NEW k \in 1 .. 8, Performs(Script[k], r) PROVE AsIntended
    <3>1. Script[k][1] \notin {"create", "lock", "unlock"} => Script[k][2] \in Nat
      BY DEF Script
    <3> QED BY <2>2, <3>1, CreateIsIntended, LockIsIntended, UnlockIsIntended, WaitIsIntended
      DEF Performs, AsIntended
  <2>3. CASE sys_err_fun1 /\ i[1] >= NumMutexes
    <3>1. at[1] = "loop" /\ prog = "sys_err"
      BY <2>3 DEF sys_err_fun1, Runs
    <3>2. i[1] - NumMutexes + 1 \in 1 .. 8 /\ i[1] \in Int /\ ~(i[1] < NumMutexes)
      BY <2>3, <3>1, ScriptLength DEF LocalsInPlace, ProgramsTypeOK
    <3>3. PICK r : Performs(Script[i[1] - NumMutexes + 1], r)
      BY <2>3, <3>2 DEF sys_err_fun1
    <3> QED BY <2>2, <3>2, <3>3
  <2>4. CASE sys_err_fun1 /\ ~(i[1] >= NumMutexes)
    BY <2>4, CreateIsIntended DEF sys_err_fun1, AsIntended
  <2> QED BY <1>3, <1>9, <2>1, <2>3, <2>4 DEF sys_err_main, Runs
<1>10. CASE stress_fun1 \/ stress_main \/ dagger_fun1 \/ dagger_fun2 \/ dagger_main
  BY <1>1, <1>2, <1>3, <1>10
  DEF stress_fun1, stress_main, dagger_fun1, dagger_fun2, dagger_main, prints, Runs
<1>11. ~cyclone_fun1 /\ ~cyclone_main
  BY DEF cyclone_fun1, cyclone_main, Runs
<1>12. CASE KernelWorks \/ Ticks
  BY <1>12 DEF KernelWorks, Ticks, IntendedNext, AsIntended
<1> QED
  BY <1>1, <1>7, <1>8, <1>9, <1>10, <1>11, <1>12 DEF ProgramsNext, Works

LEMMA StepIsKernels ==
  ASSUME LocalsInPlace, [ProgramsNext]_pvars
  PROVE  [Next]_vars
PROOF
<1>1. CASE prog # "cyclone"
  BY <1>1, StepIsIntended, IntendedIsKernels
<1>2. CASE prog = "cyclone"
  <2>1. ASSUME NEW r, task_create_stub(1, r) PROVE [Next]_vars
    BY <2>1, Sizes DEF task_create_stub, Next, Syscall
  <2>2. CASE cyclone_fun1 \/ cyclone_main
    BY <2>1, <2>2 DEF cyclone_fun1, cyclone_main, starts, Own
  <2>3. CASE KernelWorks \/ Ticks \/ UNCHANGED pvars
    BY <2>3 DEF KernelWorks, Ticks, Next, pvars
  <2>4. Works => cyclone_fun1 \/ cyclone_main
    BY <1>2 DEF Works, chaser_fun1, chaser_fun2, chaser_fun3, chaser_fun4, chaser_main,
      simple_fun1, simple_fun2, simple_fun3, simple_main, sys_err_fun1, sys_err_main,
      stress_fun1, stress_main, dagger_fun1, dagger_fun2, dagger_main, Runs
  <2> QED BY <2>2, <2>3, <2>4 DEF ProgramsNext
<1> QED BY <1>1, <1>2

\* Only main, which runs as long as there are no tasks, starts any.
LEMMA BegunKept ==
  ASSUME LocalsInPlace, NoneBegun, NoTaskYet, [ProgramsNext]_pvars
  PROVE  NoneBegun'
PROOF
<1> USE Sizes
<1>1. CASE num_tasks # 0
  BY <1>1, StepIsKernels, TasksStay DEF NoneBegun
<1>2. CASE num_tasks = 0
  <2>1. cur_tcb = NULL /\ \A t \in Tcbs : at[t] = "start"
    BY <1>2 DEF NoTaskYet, NoneBegun
  <2>2. ASSUME NEW n \in 1 .. IDLE_PRIO - 1, starts(n) PROVE NoneBegun'
    <3>1. PICK r \in {ok, "ESCHED"} :
            /\ task_create_stub(n, r)
            /\ at' = IF r # ok THEN [at EXCEPT ![NULL] = "end"]
                     ELSE [t \in Tcbs \cup {NULL} |-> IF t \in 1 .. n THEN "loop" ELSE at[t]]
      BY <2>2 DEF starts
    <3>2. CASE r = ok
      <4>1. num_tasks' = n
        BY <3>1, <3>2 DEF task_create_stub, task_create, ok
      <4> QED BY <4>1 DEF NoneBegun
    <3>3. CASE r # ok
      <4>1. \A t \in Tcbs : at'[t] = at[t]
        BY <3>1, <3>3 DEF LocalsInPlace, ProgramsTypeOK
      <4> QED BY <2>1, <4>1 DEF NoneBegun
    <3> QED BY <3>2, <3>3
  <2>3. CASE UNCHANGED at
    BY <2>1, <2>3 DEF NoneBegun
  <2>4. CASE Works
    <3>1. \A p : \A t \in 1 .. NUM_TASK : ~Runs(p, t)
      BY <2>1 DEF Runs, NULL
    <3>2. 1 \in 1 .. NUM_TASK /\ 2 \in 1 .. NUM_TASK /\ 3 \in 1 .. NUM_TASK /\ 4 \in 1 .. NUM_TASK
      OBVIOUS
    <3>3. chaser_main \/ simple_main \/ sys_err_main \/ stress_main \/ cyclone_main \/ dagger_main
      BY <2>4, <3>1, <3>2 DEF Works, chaser_fun1, chaser_fun2, chaser_fun3, chaser_fun4,
        simple_fun1, simple_fun2, simple_fun3, sys_err_fun1, stress_fun1, cyclone_fun1,
        dagger_fun1, dagger_fun2
    <3>4. CASE chaser_main \/ sys_err_main
      BY <2>2, <2>3, <3>4 DEF chaser_main, sys_err_main, locals
    <3>5. CASE simple_main \/ stress_main \/ cyclone_main \/ dagger_main
      BY <2>2, <3>5 DEF simple_main, stress_main, cyclone_main, dagger_main
    <3> QED BY <3>3, <3>4, <3>5
  <2>5. CASE KernelWorks \/ Ticks \/ UNCHANGED pvars
    BY <2>3, <2>5 DEF KernelWorks, Ticks, pvars, locals
  <2> QED BY <2>4, <2>5 DEF ProgramsNext
<1> QED BY <1>1, <1>2

LEMMA LocalsKept ==
  ASSUME LocalsInPlace, NoneBegun, [ProgramsNext]_pvars
  PROVE  LocalsInPlace'
PROOF
<1>1. CASE Works
  BY <1>1, ChaserLocals, SysErrLocals, OtherLocals DEF Works
<1>2. CASE UNCHANGED <<mains, locals, errno, mem, failed>> /\ late' \in BOOLEAN
  BY <1>2 DEF LocalsInPlace, ProgramsTypeOK, mains, locals
<1>3. KernelWorks \/ Ticks \/ UNCHANGED pvars => UNCHANGED <<mains, locals, errno, mem, failed>>
  BY DEF KernelWorks, Ticks, pvars
<1>4. late \in BOOLEAN
  BY DEF LocalsInPlace, ProgramsTypeOK
<1>5. CASE KernelWorks \/ Ticks \/ UNCHANGED pvars
  <2>1. late' \in BOOLEAN
    <3>1. CASE Ticks
      <4>1. late' = (late \/ (prog = "mutex_chaser" /\ num_tasks > 0
                              /\ ~(cur_tcb = IDLE_PRIO /\ pc[IDLE_PRIO] = "user")))
        BY <3>1 DEF Ticks
      <4> QED BY <4>1, Zenon
    <3>2. CASE ~Ticks
      BY <1>4, <1>5, <3>2 DEF KernelWorks, pvars
    <3> QED BY <3>1, <3>2
  <2> QED BY <1>2, <1>3, <1>5, <2>1
<1> QED BY <1>1, <1>5 DEF ProgramsNext

\* What holds of every program, whatever it calls.
Base == TypeOK /\ NoTaskYet /\ NoneBegun /\ LocalsInPlace

LEMMA InitBase == ProgramsInit => Base
PROOF
<1> SUFFICES ASSUME ProgramsInit PROVE Base
  OBVIOUS
<1>1. NoneBegun
  BY DEF ProgramsInit, NoneBegun
<1> QED BY <1>1, InitType, InitLocals DEF Base, ProgramsInit

LEMMA BaseKept == Base /\ [ProgramsNext]_pvars => Base'
PROOF
  BY StepIsKernels, NextType, NextNoTaskYet, BegunKept, LocalsKept DEF Base

\* The programs but cyclone, which creates tasks from a task, use the kernel as
\* intended.
KernelInPlace == prog # "cyclone" => InPlace

\* Nobody is asleep where there is no task but the running one.
LEMMA NobodyElse == ASSUME InPlace, Live \subseteq {cur_tcb} PROVE KeptQueuesEmpty
PROOF
<1>1. /\ dev_queue \in [DevQueues -> Seq(Tcbs)] /\ NumDevices \in DevQueues
      /\ \A m \in Mutexes : mutex_queue[m] = <<>>
  BY KernelAssumption DEF InPlace, TypeOK, HoldersInPlace, DevQueues
<1>2. DOMAIN dev_queue[NumDevices] = {}
  BY <1>1 DEF InPlace, SleepersInPlace
<1>3. dev_queue[NumDevices] = <<>>
  BY <1>1, <1>2, NoDomain
<1> QED BY <1>1, <1>3 DEF KeptQueuesEmpty

LEMMA NobodyYet == ASSUME InPlace, ~Created PROVE KeptQueuesEmpty
PROOF
<1>1. Live = {}
  BY SomeoneLive DEF InPlace
<1> QED BY <1>1, NobodyElse

LEMMA IntendedWhere == ASSUME InPlace, AsIntended PROVE [IntendedNext]_vars
PROOF
<1>1. CASE MainCreates
  <2>1. PICK n \in 1 .. IDLE_PRIO - 1 : task_create(n) /\ cur_tcb = NULL
    BY <1>1 DEF MainCreates
  <2>2. ~Created /\ ~InTask
    BY <2>1, Sizes DEF InPlace, RunningInPlace, InTask
  <2> QED BY <2>1, <2>2, NobodyYet DEF IntendedNext
<1> QED BY <1>1 DEF AsIntended

\* What the kernel does in its own time and what main does, with every task in place.
LEMMA StepsPlain ==
  ASSUME InPlace
  PROVE  /\ dev_wait => DevWaitPlain
         /\ timer_tick => TickPlain
         /\ \A n \in 1 .. IDLE_PRIO - 1 : task_create(n) /\ ~Created => CreatePlain(n)
PROOF
<1>1. TypeOK /\ LinksApart /\ CheckedArg
  BY InPlaceApart DEF InPlace
<1>2. dev_wait => DevWaitPlain
  BY <1>1, DevWaitIsPlain
<1>3. timer_tick => TickPlain
  BY <1>1, TickIsPlain
<1>4. ASSUME NEW n \in 1 .. IDLE_PRIO - 1, task_create(n), ~Created PROVE CreatePlain(n)
  BY <1>1, <1>4, NobodyYet, CreateIsPlain
<1> QED BY <1>2, <1>3, <1>4

LEMMA KernelKept == Base /\ KernelInPlace /\ [ProgramsNext]_pvars => KernelInPlace'
PROOF
<1> SUFFICES ASSUME Base, KernelInPlace, [ProgramsNext]_pvars, prog # "cyclone" PROVE InPlace'
  BY DEF KernelInPlace, ProgramsNext, Works, KernelWorks, Ticks, pvars, mains
<1>1. TypeOK'
  BY BaseKept DEF Base
<1>2. InPlace /\ [IntendedNext]_vars
  BY StepIsIntended, IntendedWhere DEF Base, KernelInPlace
<1> QED BY <1>1, <1>2, IntendedIsPlain, NextInPlace

-----------------------------------------------------------------------------
(* The calls of a task, in terms of what the programs see of the mutexes *)

LEMMA LockCall ==
  ASSUME InPlace, cur_tcb \in Tcbs, NEW m, NEW r, lock_stub(m, r)
  PROVE  /\ UNCHANGED <<cur_tcb, sched, devices, bAvailable, creation>>
         /\ r # ok => /\ UNCHANGED vars
                      /\ m \notin Mutexes \/ bAvailable[m] \/ pHolding_Tcb[m] = cur_tcb
         /\ r = ok => /\ m \in Mutexes /\ ~bAvailable[m] /\ pHolding_Tcb[m] # cur_tcb
                      /\ pHolding_Tcb' = [pHolding_Tcb EXCEPT ![m] = cur_tcb]
                      /\ pc' = pc
PROOF
<1>1. r = lock_result(m)
  BY DEF lock_stub
<1>2. CASE r = ok
  <2>1. m \in Mutexes /\ ~bAvailable[m] /\ pHolding_Tcb[m] # cur_tcb
    BY <1>1, <1>2 DEF lock_result, ok
  <2>2. mutex_lock(m)
    BY <1>2, <2>1, NobodyWaits DEF lock_stub
  <2>3. /\ UNCHANGED <<cur_tcb, sched, devices, bAvailable, creation, pc>>
        /\ pHolding_Tcb' = [pHolding_Tcb EXCEPT ![m] = cur_tcb]
    BY <2>2 DEF mutex_lock, TakeMutex, sched, places
  <2> QED BY <1>2, <2>1, <2>3
<1>3. CASE r # ok
  <2>1. UNCHANGED vars
    BY <1>3 DEF lock_stub
  <2>2. UNCHANGED <<cur_tcb, sched, devices, bAvailable, creation>>
    BY <2>1 DEF vars, sched, mutexes
  <2> QED BY <1>1, <1>3, <2>1, <2>2 DEF lock_result
<1> QED BY <1>2, <1>3

LEMMA UnlockCall ==
  ASSUME InPlace, cur_tcb \in Tcbs, NEW m, NEW r, unlock_stub(m, r)
  PROVE  /\ UNCHANGED <<cur_tcb, sched, devices, bAvailable, creation>>
         /\ r # ok => /\ UNCHANGED vars
                      /\ m \notin Mutexes \/ bAvailable[m] \/ pHolding_Tcb[m] # cur_tcb
         /\ r = ok => /\ m \in Mutexes /\ ~bAvailable[m] /\ pHolding_Tcb[m] = cur_tcb
                      /\ pHolding_Tcb' = [pHolding_Tcb EXCEPT ![m] = NULL]
                      /\ pc' = pc
PROOF
<1>1. r = unlock_result(m)
  BY DEF unlock_stub
<1>2. CASE r = ok
  <2>1. m \in Mutexes /\ ~bAvailable[m] /\ pHolding_Tcb[m] = cur_tcb
    BY <1>1, <1>2 DEF unlock_result, ok
  <2>2. mutex_unlock(m)
    BY <1>2, <2>1, NobodyWaits DEF unlock_stub
  <2>3. /\ UNCHANGED <<cur_tcb, sched, devices, bAvailable, creation, pc>>
        /\ pHolding_Tcb' = [pHolding_Tcb EXCEPT ![m] = NULL]
    BY <2>2 DEF mutex_unlock, ReleaseMutex, sched, places
  <2> QED BY <1>2, <2>1, <2>3
<1>3. CASE r # ok
  <2>1. UNCHANGED vars
    BY <1>3 DEF unlock_stub
  <2>2. UNCHANGED <<cur_tcb, sched, devices, bAvailable, creation>>
    BY <2>1 DEF vars, sched, mutexes
  <2> QED BY <1>1, <1>3, <2>1, <2>2 DEF unlock_result
<1> QED BY <1>2, <1>3

\* The first free mutex is given out.
LEMMA CreateCall ==
  ASSUME TypeOK, create_stub(ok)
  PROVE  /\ UNCHANGED <<cur_tcb, pHolding_Tcb, creation, pc>>
         /\ \E m \in Mutexes : /\ bAvailable[m] /\ \A k \in Mutexes : k < m => ~bAvailable[k]
                               /\ bAvailable' = [bAvailable EXCEPT ![m] = FALSE]
PROOF
<1>1. PICK m \in Mutexes : mutex_create(m)
  BY DEF create_stub, ok
<1>2. \A k \in Mutexes : k < m => k \in 0 .. m - 1
  BY KernelAssumption DEF Mutexes
<1> QED BY <1>1, <1>2 DEF mutex_create, sched, places

\* A wait is refused to a task that holds a mutex, and for a number too great.
LEMMA WaitCall ==
  ASSUME InPlace, cur_tcb \in Tcbs, NEW d \in Nat, NEW r, wait_stub(d, r)
  PROVE  /\ UNCHANGED <<cur_tcb, sched, mutexes, devices, creation>>
         /\ r # ok => UNCHANGED vars /\ (d > NumDevices \/ Held(cur_tcb) # {})
         /\ r = ok => /\ d <= NumDevices /\ pc' = [pc EXCEPT ![cur_tcb] = "checked"]
                      /\ arg' = [arg EXCEPT ![cur_tcb] = d]
PROOF
<1>1. r = wait_result(d)
  BY DEF wait_stub
<1>2. CASE r = ok
  <2>1. event_wait(d) /\ ~(d > NumDevices)
    BY <1>1, <1>2 DEF wait_stub, wait_result, ok
  <2> QED BY <1>2, <2>1, Sizes DEF event_wait, At, sched
<1>3. CASE r # ok
  <2>1. UNCHANGED vars
    BY <1>3 DEF wait_stub
  <2>2. holds_lock[cur_tcb] = Cardinality(Held(cur_tcb))
    BY DEF InPlace, CountersInPlace
  <2>3. Held(cur_tcb) = {} => ~(holds_lock[cur_tcb] > 0)
    BY <2>2, HeldCount
  <2>4. d > NumDevices \/ Held(cur_tcb) # {}
    BY <1>1, <1>3, <2>3 DEF wait_result
  <2> QED BY <1>3, <2>1, <2>4 DEF vars, sched
<1> QED BY <1>2, <1>3

\* The kernel's own steps and the ticks leave the mutexes and the tasks there are.
LEMMA KernelCall ==
  ASSUME InPlace, KernelWorks \/ Ticks
  PROVE  UNCHANGED <<mutexes, creation>>
PROOF
<1>1. ~mutex_lock_resume
  BY DEF mutex_lock_resume, InPlace, RunningInPlace
<1> QED
  BY <1>1, StepsPlain DEF KernelWorks, Ticks, DevWaitPlain, dispatch_nosave, TickPlain, KernelExit,
    launch_task, syscall_return, irq_return, LeaveKernel

\* dev_wait adds the running task to the queue of its device.
LEMMA QueueGrows ==
  ASSUME TypeOK, DevWaitPlain, arg[cur_tcb] \in DevQueues
  PROVE  /\ \A d \in DevQueues : \A j \in DOMAIN dev_queue'[d] :
              \/ \E l \in DOMAIN dev_queue[d] : dev_queue[d][l] = dev_queue'[d][j]
              \/ d = arg[cur_tcb] /\ dev_queue'[d][j] = cur_tcb
         /\ \A t : Asleep(t)' <=> Asleep(t) \/ t = cur_tcb
PROOF
<1> DEFINE a == arg[cur_tcb]
           old == dev_queue[a]
           new == Append(old, cur_tcb)
<1>1. /\ cur_tcb \in Tcbs /\ dev_queue \in [DevQueues -> Seq(Tcbs)]
      /\ dev_queue' = [dev_queue EXCEPT ![a] = new]
  BY DEF TypeOK, DevWaitPlain
<1>2. dev_queue'[a] = new /\ \A d \in DevQueues : d # a => dev_queue'[d] = dev_queue[d]
  BY <1>1
<1>3. old \in Seq(Tcbs) /\ Len(old) \in Nat /\ DOMAIN old = 1 .. Len(old)
  BY <1>1, LenProperties
<1>4. /\ DOMAIN new = 1 .. Len(old) + 1 /\ new[Len(old) + 1] = cur_tcb
      /\ \A l \in 1 .. Len(old) : new[l] = old[l]
  BY <1>1, <1>3, AppendProperties, LenProperties
<1> HIDE DEF a, old, new
<1>5. \A j \in DOMAIN new : (j \in DOMAIN old /\ new[j] = old[j]) \/ new[j] = cur_tcb
  BY <1>3, <1>4
<1>6. \A l \in DOMAIN old : l \in DOMAIN new /\ new[l] = old[l]
  BY <1>3, <1>4
<1>7. \E j \in DOMAIN new : new[j] = cur_tcb
  BY <1>3, <1>4
<1>8. ASSUME NEW d \in DevQueues, NEW j \in DOMAIN dev_queue'[d]
      PROVE  \/ \E l \in DOMAIN dev_queue[d] : dev_queue[d][l] = dev_queue'[d][j]
             \/ d = a /\ dev_queue'[d][j] = cur_tcb
  <2>1. CASE d = a
    BY <1>2, <1>5, <1>8, <2>1 DEF old
  <2>2. CASE d # a
    BY <1>2, <1>8, <2>2
  <2> QED BY <2>1, <2>2
<1>9. ASSUME NEW t PROVE Asleep(t)' <=> Asleep(t) \/ t = cur_tcb
  <2>1. Asleep(t)' => Asleep(t) \/ t = cur_tcb
    BY <1>8 DEF Asleep
  <2>2. ASSUME Asleep(t) PROVE Asleep(t)'
    <3>1. PICK d \in DevQueues : \E l \in DOMAIN dev_queue[d] : dev_queue[d][l] = t
      BY <2>2 DEF Asleep
    <3>2. \E l \in DOMAIN dev_queue'[d] : dev_queue'[d][l] = t
      <4>1. CASE d = a
        BY <1>2, <1>6, <3>1, <4>1 DEF old
      <4>2. CASE d # a
        BY <1>2, <3>1, <4>2
      <4> QED BY <4>1, <4>2
    <3> QED BY <3>2 DEF Asleep
  <2>3. t = cur_tcb => Asleep(t)'
    BY <1>2, <1>7 DEF Asleep, a
  <2> QED BY <2>1, <2>2, <2>3
<1> QED BY <1>8, <1>9 DEF a

LEMMA InitKernel == ProgramsInit => KernelInPlace
PROOF
  BY InitInPlace DEF ProgramsInit, KernelInPlace

-----------------------------------------------------------------------------
(* mutex_chaser *)

\* A task holds the mutex of the number it works on, and that one alone; what
\* it has read is what is there.
ChaserInPlace ==
  prog = "mutex_chaser" =>
    /\ Created => \A m \in Mutexes : ~bAvailable[m]
    /\ \A t \in 1 .. 4 :
         /\ at[t] \in {"start", "loop", "wait"} \cup Inside
         /\ at[t] = "start" => i[t] <= 1
         /\ at[t] \in Inside => pHolding_Tcb[i[t]] = t
         /\ at[t] = "read" => reg[t] = mem[i[t]]
         /\ \A m \in Mutexes : pHolding_Tcb[m] = t => at[t] \in Inside /\ i[t] = m
    /\ NothingLost

LEMMA InitChaser == ProgramsInit => ChaserInPlace
PROOF
<1> SUFFICES ASSUME ProgramsInit, prog = "mutex_chaser" PROVE ChaserInPlace
  BY DEF ChaserInPlace
<1>1. /\ num_tasks = 0 /\ pHolding_Tcb = [m \in Mutexes |-> NULL]
      /\ at = [t \in Tcbs \cup {NULL} |-> "start"] /\ i = [t \in Tcbs \cup {NULL} |-> 0]
      /\ mem = [m \in Mutexes |-> 2]
  BY DEF ProgramsInit, Init, Globals
<1>2. \A t \in 1 .. 4 : at[t] = "start" /\ i[t] = 0
  BY <1>1, Sizes
<1>3. \A m \in Mutexes \ {0} : Passed(m) = {}
  BY <1>2, KernelAssumption DEF Passed, Mutexes
<1>4. NothingLost
  BY <1>1, <1>3, OutcomesOfNone DEF NothingLost
<1> QED BY <1>1, <1>2, <1>4 DEF ChaserInPlace, Created, Inside, NULL

\* Nothing is lost where no number and nobody's progress changes.
LEMMA NothingLostKept ==
  ASSUME NothingLost, prog' = prog, mem' = mem,
         \A t \in 1 .. 4, m \in Mutexes \ {0} :
           (i'[t] > m \/ (i'[t] = m /\ at'[t] = "written"))
             <=> (i[t] > m \/ (i[t] = m /\ at[t] = "written"))
  PROVE  NothingLost'
PROOF
<1>1. \A m \in Mutexes \ {0} : Passed(m)' = Passed(m)
  BY DEF Passed
<1> QED BY <1>1 DEF NothingLost

LEMMA ChaserTask ==
  ASSUME Base, InPlace, ChaserInPlace, prog = "mutex_chaser", prog' = prog, cur_tcb \in 1 .. 4,
         \/ locks \/ reads \/ writes(Apply(cur_tcb, reg[cur_tcb])) \/ unlocks
         \/ (\E d \in 0 .. 3 : waits(d)) \/ finishes
  PROVE  ChaserInPlace'
PROOF
<1> USE Sizes
<1> DEFINE c == cur_tcb
<1>1. /\ at \in [Tcbs \cup {NULL} -> Labels] /\ i \in [Tcbs \cup {NULL} -> 0 .. NumMutexes + 8]
      /\ reg \in [Tcbs -> Int] /\ mem \in [Mutexes -> Int]
      /\ pHolding_Tcb \in [Mutexes -> Tcbs \cup {NULL}]
      /\ ProgramsTypeOK
  BY ScriptLength DEF Base, LocalsInPlace, ProgramsTypeOK, TypeOK, Labels
<1>2. c \in 1 .. 4 /\ c \in Tcbs /\ c \in Tcbs \cup {NULL} /\ c # NULL /\ i[c] \in 0 .. NumMutexes
  BY DEF Base, LocalsInPlace
<1>3. Created /\ \A m \in Mutexes : ~bAvailable[m]
  BY <1>2 DEF InPlace, RunningInPlace, ChaserInPlace
<1>0. ASSUME NEW t \in 1 .. 4, at[t] \in Inside PROVE i[t] \in Mutexes /\ pHolding_Tcb[i[t]] = t
  <2>1. i[t] \in 0 .. NumMutexes /\ i[t] < NumMutexes
    BY <1>0 DEF Base, LocalsInPlace
  <2>2. i[t] \in Mutexes
    BY <2>1 DEF Mutexes
  <2> QED BY <1>0, <2>2 DEF ChaserInPlace
<1>4. /\ at[c] \in {"start", "loop", "wait"} \cup Inside
      /\ at[c] \in Inside => i[c] \in Mutexes /\ pHolding_Tcb[i[c]] = c
      /\ at[c] = "read" => reg[c] = mem[i[c]]
      /\ \A m \in Mutexes : pHolding_Tcb[m] = c => at[c] \in Inside /\ i[c] = m
  BY <1>0, <1>2 DEF ChaserInPlace
<1>5. ASSUME NEW t \in 1 .. 4, t # c
      PROVE  /\ at[t] \in {"start", "loop", "wait"} /\ (at[t] = "start" => i[t] <= 1)
             /\ \A m \in Mutexes : pHolding_Tcb[m] # t
             /\ i[t] \in 0 .. NumMutexes
  <2>1. \A m \in Mutexes : pHolding_Tcb[m] # t
    BY <1>2, <1>5 DEF InPlace, HoldersInPlace, NULL
  <2>2. at[t] \in Inside => i[t] \in Mutexes /\ pHolding_Tcb[i[t]] = t
    BY <1>0
  <2> QED BY <2>1, <2>2 DEF ChaserInPlace, Base, LocalsInPlace
\* What there is to show of the step of c.
<1> DEFINE Shown ==
      /\ bAvailable' = bAvailable
      /\ \A t \in 1 .. 4 : t # c => at'[t] = at[t] /\ i'[t] = i[t]
      /\ \A t \in 1 .. 4 : t # c => \A m \in Mutexes : pHolding_Tcb'[m] # t
      /\ at'[c] \in {"loop", "wait"} \cup Inside
      /\ at'[c] \in Inside => pHolding_Tcb'[i'[c]] = c
      /\ at'[c] = "read" => reg'[c] = mem'[i'[c]]
      /\ \A m \in Mutexes : pHolding_Tcb'[m] = c => at'[c] \in Inside /\ i'[c] = m
<1>6. ASSUME Shown, NothingLost' PROVE ChaserInPlace'
  <2> USE <1>6
  <2>1. ASSUME NEW t \in 1 .. 4
        PROVE  /\ at'[t] \in {"start", "loop", "wait"} \cup Inside
               /\ at'[t] = "start" => i'[t] <= 1
               /\ at'[t] \in Inside => pHolding_Tcb'[i'[t]] = t
               /\ at'[t] = "read" => reg'[t] = mem'[i'[t]]
               /\ \A m \in Mutexes : pHolding_Tcb'[m] = t => at'[t] \in Inside /\ i'[t] = m
    <3>1. CASE t = c
      BY <3>1 DEF Inside
    <3>2. CASE t # c
      BY <1>5, <3>2 DEF Inside
    <3> QED BY <3>1, <3>2
  <2> HIDE DEF Shown
  <2>2. \A m \in Mutexes : ~bAvailable'[m]
    BY <1>3 DEF Shown
  <2> QED BY <2>1, <2>2 DEF ChaserInPlace
<1>7. ASSUME UNCHANGED <<i, mem>>, \A t \in 1 .. 4 : t # c => at'[t] = at[t],
             at[c] # "written", at'[c] # "written"
      PROVE  NothingLost'
  BY <1>7, NothingLostKept DEF ChaserInPlace
<1>8. Own => UNCHANGED <<bAvailable, pHolding_Tcb>>
  BY DEF Own, vars, mutexes
<1>9. {"locked", "read", "written", "wait", "loop", "panic"} \subseteq Labels
  BY DEF Labels
<1>10. ASSUME NEW from, NEW to \in Labels, Goes(from, to)
       PROVE  at[c] = from /\ at'[c] = to /\ \A t \in 1 .. 4 : t # c => at'[t] = at[t]
  BY <1>1, <1>2, <1>10, GoesType
<1>11. CASE locks
  <2>1. PICK r \in Errors \cup {ok} : Goes("loop", Or(r, "locked")) /\ lock_stub(i[c], r)
    BY <1>11 DEF locks
  <2>2. i[c] \in Mutexes /\ UNCHANGED <<i, reg, mem>>
    BY <1>2, <1>11 DEF locks, Mutexes
  <2>3. Or(r, "locked") \in Labels
    BY <1>9 DEF Or
  <2>4. at[c] = "loop"
    BY <1>10, <2>1, <2>3
  <2>5. pHolding_Tcb[i[c]] # c
    BY <1>4, <2>2, <2>4 DEF Inside
  <2>6. r = ok
    BY <1>2, <1>3, <2>1, <2>2, <2>5, LockCall
  <2>7. bAvailable' = bAvailable /\ pHolding_Tcb' = [pHolding_Tcb EXCEPT ![i[c]] = c]
    BY <1>2, <2>1, <2>6, LockCall
  <2>8. at'[c] = "locked" /\ \A t \in 1 .. 4 : t # c => at'[t] = at[t]
    BY <1>9, <1>10, <2>1, <2>6 DEF Or
  <2>9. \A m \in Mutexes : pHolding_Tcb'[m] = IF m = i[c] THEN c ELSE pHolding_Tcb[m]
    BY <1>1, <2>2, <2>7
  <2>10. Shown
    BY <1>4, <1>5, <2>2, <2>4, <2>7, <2>8, <2>9 DEF Inside
  <2> QED BY <1>6, <1>7, <2>2, <2>4, <2>8, <2>10
<1>12. CASE reads
  <2>1. /\ Goes("locked", "read") /\ reg' = [reg EXCEPT ![c] = mem[i[c]]] /\ UNCHANGED <<i, mem>>
        /\ UNCHANGED <<bAvailable, pHolding_Tcb>>
    BY <1>8, <1>12 DEF reads
  <2>2. at[c] = "locked" /\ at'[c] = "read" /\ \A t \in 1 .. 4 : t # c => at'[t] = at[t]
    BY <1>9, <1>10, <2>1
  <2>3. Shown
    BY <1>1, <1>2, <1>4, <1>5, <2>1, <2>2 DEF Inside
  <2> QED BY <1>6, <1>7, <2>1, <2>2, <2>3
<1>13. CASE writes(Apply(c, reg[c]))
  <2>1. /\ Goes("read", "written") /\ mem' = [mem EXCEPT ![i[c]] = Apply(c, reg[c])]
        /\ UNCHANGED <<i, reg>> /\ UNCHANGED <<bAvailable, pHolding_Tcb>>
    BY <1>8, <1>13 DEF writes, store
  <2>2. at[c] = "read" /\ at'[c] = "written" /\ \A t \in 1 .. 4 : t # c => at'[t] = at[t]
    BY <1>9, <1>10, <2>1
  <2>3. Shown
    BY <1>4, <1>5, <2>1, <2>2 DEF Inside
  <2>4. i[c] \in Mutexes /\ reg[c] = mem[i[c]]
    BY <1>4, <2>2 DEF Inside
  <2>5. ASSUME NEW m \in Mutexes \ {0} PROVE mem'[m] \in Outcomes[Passed(m)']
    <3>1. mem[m] \in Outcomes[Passed(m)]
      BY DEF ChaserInPlace, NothingLost
    <3>2. CASE m = i[c]
      <4>1. Passed(m)' = Passed(m) \cup {c} /\ c \notin Passed(m) /\ Passed(m) \in SUBSET (1 .. 4)
        BY <1>2, <1>5, <2>1, <2>2, <3>2 DEF Passed
      <4>2. mem'[m] = Apply(c, mem[m])
        BY <1>1, <2>1, <2>4, <3>2
      <4> QED BY <1>2, <3>1, <4>1, <4>2, OneMore
    <3>3. CASE m # i[c]
      <4>1. Passed(m)' = Passed(m)
        BY <2>1, <2>2, <3>3 DEF Passed
      <4>2. mem'[m] = mem[m]
        BY <1>1, <2>1, <2>4, <3>3
      <4> QED BY <3>1, <4>1, <4>2
    <3> QED BY <3>2, <3>3
  <2>6. NothingLost'
    BY <2>5 DEF NothingLost
  <2> QED BY <1>6, <2>3, <2>6
<1>14. CASE unlocks
  <2>1. PICK r \in Errors \cup {ok} : Goes("written", Or(r, "wait")) /\ unlock_stub(i[c], r)
    BY <1>14 DEF unlocks
  <2>2. i' = [i EXCEPT ![c] = i[c] + 1] /\ UNCHANGED <<reg, mem>>
    BY <1>14 DEF unlocks, Counts
  <2>3. Or(r, "wait") \in Labels
    BY <1>9 DEF Or
  <2>4. at[c] = "written"
    BY <1>10, <2>1, <2>3
  <2>5. i[c] \in Mutexes /\ pHolding_Tcb[i[c]] = c
    BY <1>4, <2>4 DEF Inside
  <2>6. r = ok
    BY <1>2, <1>3, <2>1, <2>5, UnlockCall
  <2>7. bAvailable' = bAvailable /\ pHolding_Tcb' = [pHolding_Tcb EXCEPT ![i[c]] = NULL]
    BY <1>2, <2>1, <2>6, UnlockCall
  <2>8. at'[c] = "wait" /\ \A t \in 1 .. 4 : t # c => at'[t] = at[t]
    BY <1>9, <1>10, <2>1, <2>6 DEF Or
  <2>9. \A m \in Mutexes : pHolding_Tcb'[m] = IF m = i[c] THEN NULL ELSE pHolding_Tcb[m]
    BY <1>1, <2>5, <2>7
  <2>10. i'[c] = i[c] + 1 /\ \A t \in 1 .. 4 : t # c => i'[t] = i[t]
    BY <1>1, <1>2, <2>2
  <2>11. Shown
    BY <1>2, <1>4, <1>5, <2>2, <2>7, <2>8, <2>9, <2>10 DEF Inside, NULL
  <2>12. NothingLost'
    <3>1. ASSUME NEW t \in 1 .. 4, NEW m \in Mutexes \ {0}
          PROVE  (i'[t] > m \/ (i'[t] = m /\ at'[t] = "written"))
                   <=> (i[t] > m \/ (i[t] = m /\ at[t] = "written"))
      <4>1. m \in Int
        BY DEF Mutexes
      <4>2. CASE t = c
        BY <1>2, <2>4, <2>8, <2>10, <4>1, <4>2
      <4>3. CASE t # c
        BY <2>8, <2>10, <4>3
      <4> QED BY <4>2, <4>3
    <3> QED BY <2>2, <3>1, NothingLostKept DEF ChaserInPlace
  <2> QED BY <1>6, <2>11, <2>12
<1>15. ASSUME NEW d \in 0 .. 3, waits(d) PROVE ChaserInPlace'
  <2>1. PICK r \in Errors \cup {ok} : Goes("wait", Or(r, "loop")) /\ wait_stub(d, r)
    BY <1>15 DEF waits
  <2>2. UNCHANGED <<i, reg, mem>>
    BY <1>15 DEF waits
  <2>3. Or(r, "loop") \in Labels
    BY <1>9 DEF Or
  <2>4. at[c] = "wait"
    BY <1>10, <2>1, <2>3
  <2>5. Held(c) = {}
    BY <1>4, <2>4 DEF Inside, Held
  <2>6. UNCHANGED mutexes /\ r = ok
    BY <1>2, <2>1, <2>5, WaitCall
  <2>7. UNCHANGED <<bAvailable, pHolding_Tcb>>
    BY <2>6 DEF mutexes
  <2>8. at'[c] = "loop" /\ \A t \in 1 .. 4 : t # c => at'[t] = at[t]
    BY <1>9, <1>10, <2>1, <2>6 DEF Or
  <2>9. Shown
    BY <1>4, <1>5, <2>2, <2>4, <2>7, <2>8 DEF Inside
  <2> QED BY <1>6, <1>7, <2>2, <2>4, <2>8, <2>9
<1>16. CASE finishes
  <2>1. Goes("loop", "wait") /\ UNCHANGED <<i, reg, mem>> /\ UNCHANGED <<bAvailable, pHolding_Tcb>>
    BY <1>8, <1>16 DEF finishes
  <2>2. at[c] = "loop" /\ at'[c] = "wait" /\ \A t \in 1 .. 4 : t # c => at'[t] = at[t]
    BY <1>9, <1>10, <2>1
  <2>3. Shown
    BY <1>4, <1>5, <2>1, <2>2 DEF Inside
  <2> QED BY <1>6, <1>7, <2>1, <2>2, <2>3
<1> QED BY <1>11, <1>12, <1>13, <1>14, <1>15, <1>16

\* main creates the tasks while there are none, and no mutex is locked.
LEMMA StartCall ==
  ASSUME Base, InPlace, NEW n \in 1 .. IDLE_PRIO - 1, starts(n), cur_tcb = NULL
  PROVE  /\ ~Created /\ UNCHANGED mutexes /\ \A m \in Mutexes : pHolding_Tcb[m] = NULL
         /\ \A t \in Tcbs : at[t] = "start" /\ at'[t] \in {"start", "loop"}
         /\ \/ CreatePlain(n)
            \/ task_create_unschedulable
PROOF
<1>1. ~Created /\ num_tasks = 0
  BY DEF InPlace, RunningInPlace, TypeOK, Created
<1>2. \A m \in Mutexes : pHolding_Tcb[m] = NULL
  BY DEF InPlace, HoldersInPlace
<1>3. \A t \in Tcbs : at[t] = "start" /\ at'[t] \in {"start", "loop"}
  BY <1>1, StartsLocals DEF Base, LocalsInPlace, NoneBegun
<1>4. CreatePlain(n) \/ task_create_unschedulable
  BY <1>1, StepsPlain DEF starts, task_create_stub
<1>5. UNCHANGED mutexes
  BY <1>4 DEF CreatePlain, task_create_unschedulable
<1> QED BY <1>1, <1>2, <1>3, <1>4, <1>5

LEMMA ChaserMain ==
  ASSUME Base, InPlace, ChaserInPlace, prog = "mutex_chaser", prog' = prog, chaser_main
  PROVE  ChaserInPlace'
PROOF
<1> USE Sizes
<1>1. cur_tcb = NULL /\ ~Created
  BY DEF chaser_main, Runs, InPlace, RunningInPlace
<1>2. CASE UNCHANGED <<locals, mem>> /\ create_stub(ok)
  <2>1. UNCHANGED <<pHolding_Tcb, num_tasks>>
    BY <1>2, CreateCall DEF InPlace, creation
  <2>2. UNCHANGED <<at, i, reg, mem>>
    BY <1>2 DEF locals
  <2>3. NothingLost'
    BY <2>2, NothingLostKept DEF ChaserInPlace
  <2> QED BY <1>1, <2>1, <2>2, <2>3 DEF ChaserInPlace, Created
<1>3. CASE /\ \A m \in Mutexes : ~bAvailable[m]
           /\ starts(4) /\ i' = [t \in Tcbs \cup {NULL} |-> 1]
  <2>1. /\ UNCHANGED mutexes /\ \A m \in Mutexes : pHolding_Tcb[m] = NULL
        /\ \A t \in Tcbs : at[t] = "start" /\ at'[t] \in {"start", "loop"}
    BY <1>1, <1>3, StartCall
  <2>2. /\ \A m \in Mutexes : ~bAvailable'[m] /\ pHolding_Tcb'[m] = NULL
        /\ \A t \in 1 .. 4 : at[t] = "start" /\ at'[t] \in {"start", "loop"} /\ i'[t] = 1
        /\ mem' = mem
    BY <1>3, <2>1 DEF mutexes, starts
  <2>3. \A t \in 1 .. 4 : i[t] \in Nat /\ i[t] <= 1
    BY <2>2 DEF ChaserInPlace, Base, LocalsInPlace
  <2>4. ASSUME NEW t \in 1 .. 4, NEW m \in Mutexes \ {0}
        PROVE  (i'[t] > m \/ (i'[t] = m /\ at'[t] = "written"))
                 <=> (i[t] > m \/ (i[t] = m /\ at[t] = "written"))
    <3>1. m \in Nat /\ m >= 1
      BY DEF Mutexes
    <3>2. at[t] # "written" /\ at'[t] # "written" /\ i'[t] = 1 /\ i[t] \in Nat /\ i[t] <= 1
      BY <2>2, <2>3
    <3> QED BY <3>1, <3>2
  <2>5. NothingLost'
    BY <2>2, <2>4, NothingLostKept DEF ChaserInPlace
  <2> QED BY <2>2, <2>5 DEF ChaserInPlace, Inside, NULL
<1> QED BY <1>2, <1>3 DEF chaser_main

LEMMA ChaserKept ==
  ASSUME Base, KernelInPlace, ChaserInPlace, [ProgramsNext]_pvars
  PROVE  ChaserInPlace'
PROOF
<1> SUFFICES ASSUME prog' = "mutex_chaser" PROVE ChaserInPlace'
  BY DEF ChaserInPlace
<1>1. prog = "mutex_chaser" /\ prog' = prog
  BY DEF ProgramsNext, Works, KernelWorks, Ticks, pvars, mains
<1>2. InPlace
  BY <1>1 DEF KernelInPlace
<1>3. CASE Works
  <2>1. chaser_fun1 \/ chaser_fun2 \/ chaser_fun3 \/ chaser_fun4 \/ chaser_main
    BY <1>1, <1>3 DEF Works, simple_fun1, simple_fun2, simple_fun3, simple_main, sys_err_fun1, sys_err_main,
      stress_fun1, stress_main, cyclone_fun1, cyclone_main, dagger_fun1, dagger_fun2, dagger_main, Runs
  <2>2. CASE chaser_fun1
    BY <1>1, <1>2, <2>2, ChaserTask DEF chaser_fun1, Runs, Apply
  <2>3. CASE chaser_fun2
    BY <1>1, <1>2, <2>3, ChaserTask DEF chaser_fun2, Runs, Apply
  <2>4. CASE chaser_fun3
    BY <1>1, <1>2, <2>4, ChaserTask DEF chaser_fun3, Runs, Apply
  <2>5. CASE chaser_fun4
    BY <1>1, <1>2, <2>5, ChaserTask DEF chaser_fun4, Runs, Apply
  <2> QED BY <1>1, <1>2, <2>1, <2>2, <2>3, <2>4, <2>5, ChaserMain
<1>4. CASE ~Works
  <2>1. UNCHANGED <<locals, mem>>
    BY <1>4 DEF ProgramsNext, KernelWorks, Ticks, pvars
  <2>2. UNCHANGED <<mutexes, creation>>
    BY <1>2, <1>4, KernelCall DEF ProgramsNext, pvars, vars
  <2>3. UNCHANGED <<at, i, reg, mem, bAvailable, pHolding_Tcb, num_tasks>>
    BY <2>1, <2>2 DEF locals, mutexes, creation
  <2>4. NothingLost'
    BY <1>1, <2>3, NothingLostKept DEF ChaserInPlace
  <2> QED BY <1>1, <2>3, <2>4 DEF ChaserInPlace, Created
<1> QED BY <1>3, <1>4

-----------------------------------------------------------------------------
(* sys_err *)

\* fun1 has created as many mutexes as it has counted, and holds mutex 0 between
\* its fifth and its seventh call after that.
SysErrInPlace ==
  prog = "sys_err" =>
    /\ failed = {}
    /\ ~Created => i[1] = 0
    /\ at[1] \in {"start", "loop", "end"}
    /\ \A m \in Mutexes :
         /\ bAvailable[m] <=> i[1] <= m
         /\ pHolding_Tcb[m] = 1 <=> m = 0 /\ i[1] \in {NumMutexes + 5, NumMutexes + 6}

LEMMA InitSysErr == ProgramsInit => SysErrInPlace
PROOF
<1> SUFFICES ASSUME ProgramsInit PROVE SysErrInPlace
  OBVIOUS
<1>1. /\ failed = {} /\ at[1] = "start" /\ i[1] = 0
      /\ \A m \in Mutexes : bAvailable[m] = TRUE /\ pHolding_Tcb[m] = NULL
  BY Sizes DEF ProgramsInit, Init
<1>2. ~(0 \in {NumMutexes + 5, NumMutexes + 6}) /\ \A m \in Mutexes : 0 <= m
  BY Sizes DEF Mutexes
<1> QED BY <1>1, <1>2 DEF SysErrInPlace, NULL

LEMMA ScriptLines ==
  /\ Script[1] = <<"create", 0, "ENOMEM">>
  /\ Script[2] = <<"unlock", NumMutexes + 1, "EINVAL">>
  /\ Script[3] = <<"unlock", 1, "EPERM">>
  /\ Script[4] = <<"lock", NumMutexes, "EINVAL">>
  /\ Script[5] = <<"lock", 0, ok>>
  /\ Script[6] = <<"lock", 0, "EDEADLOCK">>
  /\ Script[7] = <<"unlock", 0, ok>>
  /\ Script[8] = <<"event_wait", NumDevices + 1, "EINVAL">>
PROOF
  BY DEF Script

\* A call that is refused leaves the error it is refused with in errno.
LEMMA Refused ==
  ASSUME NEW e \in Errors, NEW x, create_stub(e) \/ lock_stub(x, e) \/ unlock_stub(x, e) \/ wait_stub(x, e)
  PROVE  errno' = e /\ UNCHANGED vars
PROOF
<1>1. e # ok
  BY DEF Errors, ok
<1>2. Stub(e)
  BY DEF create_stub, lock_stub, unlock_stub, wait_stub
<1>3. UNCHANGED vars
  <2>1. CASE create_stub(e)
    BY <1>1, <2>1 DEF create_stub
  <2>2. CASE lock_stub(x, e) \/ unlock_stub(x, e) \/ wait_stub(x, e)
    BY <1>1, <2>2 DEF lock_stub, unlock_stub, wait_stub
  <2> QED BY <2>1, <2>2
<1> QED BY <1>2, <1>3 DEF Stub

LEMMA SysErrCall ==
  ASSUME Base, InPlace, SysErrInPlace, prog = "sys_err", cur_tcb = 1,
         NEW k \in 1 .. 8, i[1] = NumMutexes + k - 1, NEW r, Performs(Script[k], r)
  PROVE  /\ Script[k][3] = (IF Script[k][3] = ok THEN r ELSE errno')
         /\ bAvailable' = bAvailable /\ Created'
         /\ \A m \in Mutexes : pHolding_Tcb'[m] = 1 <=> m = 0 /\ k \in {5, 6}
PROOF
<1> USE Sizes
<1>1. /\ NumMutexes \in Nat /\ i[1] \in Int /\ 1 \in Tcbs /\ 0 \in Mutexes /\ 1 \in Mutexes
      /\ NumMutexes + 1 \notin Mutexes /\ NumMutexes \notin Mutexes
  OBVIOUS
<1>2. \A m \in Mutexes : ~bAvailable[m]
  <2>1. \A m \in Mutexes : ~(i[1] <= m)
    BY <1>1 DEF Mutexes
  <2> QED BY <2>1 DEF SysErrInPlace
<1>3. \A m \in Mutexes : pHolding_Tcb[m] = 1 <=> m = 0 /\ k \in {6, 7}
  <2>1. i[1] \in {NumMutexes + 5, NumMutexes + 6} <=> k \in {6, 7}
    BY <1>1
  <2> QED BY <2>1 DEF SysErrInPlace
<1>4. Created
  BY DEF InPlace, RunningInPlace, NULL
<1>5. pHolding_Tcb \in [Mutexes -> Tcbs \cup {NULL}]
  BY DEF InPlace, TypeOK
<1>6. {"ENOMEM", "EINVAL", "EPERM", "EDEADLOCK"} \subseteq Errors /\ ok \notin Errors
  BY DEF Errors, ok
<1>7. UNCHANGED vars => bAvailable' = bAvailable /\ pHolding_Tcb' = pHolding_Tcb /\ Created'
  BY <1>4 DEF vars, mutexes, creation, Created
<1>8. CASE k = 1
  <2>1. create_stub(r) /\ Script[k][3] = "ENOMEM" /\ k \notin {5, 6, 7}
    BY <1>8, ScriptLines DEF Performs
  <2>2. r = "ENOMEM"
    BY <1>2, <2>1 DEF create_stub
  <2> QED BY <1>3, <1>6, <1>7, <2>1, <2>2, Refused
<1>9. CASE k = 2
  <2>1. unlock_stub(NumMutexes + 1, r) /\ Script[k][3] = "EINVAL" /\ k \notin {5, 6, 7}
    BY <1>9, ScriptLines DEF Performs
  <2>2. r = "EINVAL"
    BY <1>1, <2>1 DEF unlock_stub, unlock_result
  <2> QED BY <1>3, <1>6, <1>7, <2>1, <2>2, Refused
<1>10. CASE k = 3
  <2>1. unlock_stub(1, r) /\ Script[k][3] = "EPERM" /\ k \notin {5, 6, 7}
    BY <1>10, ScriptLines DEF Performs
  <2>2. r = "EPERM"
    BY <1>1, <1>2, <1>3, <2>1 DEF unlock_stub, unlock_result
  <2> QED BY <1>3, <1>6, <1>7, <2>1, <2>2, Refused
<1>11. CASE k = 4
  <2>1. lock_stub(NumMutexes, r) /\ Script[k][3] = "EINVAL" /\ k \notin {5, 6, 7}
    BY <1>11, ScriptLines DEF Performs
  <2>2. r = "EINVAL"
    BY <1>1, <2>1 DEF lock_stub, lock_result
  <2> QED BY <1>3, <1>6, <1>7, <2>1, <2>2, Refused
<1>12. CASE k = 5
  <2>1. lock_stub(0, r) /\ Script[k][3] = ok /\ k \notin {6, 7}
    BY <1>12, ScriptLines DEF Performs
  <2>2. r = ok
    BY <1>1, <1>2, <1>3, <2>1 DEF lock_stub, lock_result
  <2>3. /\ UNCHANGED <<bAvailable, creation>>
        /\ pHolding_Tcb' = [pHolding_Tcb EXCEPT ![0] = cur_tcb]
    BY <1>1, <2>1, <2>2, LockCall
  <2>4. Created'
    BY <1>4, <2>3 DEF Created, creation
  <2> QED BY <1>1, <1>3, <1>5, <1>12, <2>1, <2>2, <2>3, <2>4
<1>13. CASE k = 6
  <2>1. lock_stub(0, r) /\ Script[k][3] = "EDEADLOCK"
    BY <1>13, ScriptLines DEF Performs
  <2>2. r = "EDEADLOCK"
    BY <1>1, <1>2, <1>3, <1>13, <2>1 DEF lock_stub, lock_result
  <2> QED BY <1>3, <1>6, <1>7, <1>13, <2>1, <2>2, Refused
<1>14. CASE k = 7
  <2>1. unlock_stub(0, r) /\ Script[k][3] = ok
    BY <1>14, ScriptLines DEF Performs
  <2>2. r = ok
    BY <1>1, <1>2, <1>3, <1>14, <2>1 DEF unlock_stub, unlock_result
  <2>3. /\ UNCHANGED <<bAvailable, creation>>
        /\ pHolding_Tcb' = [pHolding_Tcb EXCEPT ![0] = NULL]
    BY <1>1, <2>1, <2>2, UnlockCall
  <2>4. Created'
    BY <1>4, <2>3 DEF Created, creation
  <2> QED BY <1>1, <1>3, <1>5, <1>14, <2>1, <2>2, <2>3, <2>4 DEF NULL
<1>15. CASE k = 8
  <2>1. wait_stub(NumDevices + 1, r) /\ Script[k][3] = "EINVAL" /\ k \notin {5, 6, 7}
    BY <1>15, ScriptLines DEF Performs
  <2>2. NumDevices + 1 > NumDevices
    OBVIOUS
  <2>3. r = "EINVAL"
    BY <2>1, <2>2 DEF wait_stub, wait_result
  <2> QED BY <1>3, <1>6, <1>7, <2>1, <2>3, Refused
<1> QED BY <1>8, <1>9, <1>10, <1>11, <1>12, <1>13, <1>14, <1>15

LEMMA SysErrKept ==
  ASSUME Base, KernelInPlace, SysErrInPlace, [ProgramsNext]_pvars
  PROVE  SysErrInPlace'
PROOF
<1> USE Sizes
<1> SUFFICES ASSUME prog' = "sys_err" PROVE SysErrInPlace'
  BY DEF SysErrInPlace
<1>1. prog = "sys_err" /\ prog' = prog
  BY DEF ProgramsNext, Works, KernelWorks, Ticks, pvars, mains
<1>2. InPlace /\ ProgramsTypeOK
  BY <1>1 DEF KernelInPlace, Base, LocalsInPlace
<1>3. /\ at \in [Tcbs \cup {NULL} -> Labels] /\ i \in [Tcbs \cup {NULL} -> 0 .. NumMutexes + 8]
      /\ 1 \in Tcbs \cup {NULL} /\ NULL \in Tcbs \cup {NULL} /\ 1 # NULL
  BY <1>2, ScriptLength DEF ProgramsTypeOK, Labels
<1>4. CASE UNCHANGED <<failed, at, i, mutexes, creation>>
  BY <1>1, <1>4 DEF SysErrInPlace, Created, mutexes, creation
<1>5. CASE sys_err_main
  <2>1. cur_tcb = NULL
    BY <1>5 DEF sys_err_main, Runs
  <2>2. CASE starts(1) /\ UNCHANGED i
    <3>1. /\ ~Created /\ UNCHANGED mutexes /\ at'[1] \in {"start", "loop"}
      BY <1>2, <2>1, <2>2, StartCall
    <3>2. failed' = failed
      BY <2>2 DEF starts
    <3> QED BY <1>1, <2>2, <3>1, <3>2 DEF SysErrInPlace, mutexes
  <2>3. ASSUME NEW n \in Nat, NEW u \in BOOLEAN, NEW r \in Errors, refused_stub(n, u, r)
        PROVE  errno' = r /\ r = check_tasks(n, u) /\ UNCHANGED <<mutexes, creation>>
    BY <2>3 DEF refused_stub, Stub, vars
  <2>4. CASE ~(starts(1) /\ UNCHANGED i)
    <3>1. at' = at /\ i'[1] = i[1]
      BY <1>3, <1>5, <2>4 DEF sys_err_main, Counts, Runs
    <3>2. UNCHANGED <<mutexes, creation>> /\ failed' = failed
      <4>1. CASE \E r \in Errors : refused_stub(IDLE_PRIO, TRUE, r) /\ check_return(1, errno', "EINVAL")
        <5>1. check_tasks(IDLE_PRIO, TRUE) = "EINVAL"
          BY DEF check_tasks
        <5> QED BY <2>3, <4>1, <5>1 DEF check_return, Found
      <4>2. CASE \E r \in Errors : refused_stub(IDLE_PRIO \div 2, FALSE, r) /\ check_return(2, errno', "EFAULT")
        <5>1. check_tasks(IDLE_PRIO \div 2, FALSE) = "EFAULT" /\ IDLE_PRIO \div 2 \in Nat
          BY DEF check_tasks
        <5> QED BY <2>3, <4>2, <5>1 DEF check_return, Found
      <4> QED BY <1>5, <2>4, <4>1, <4>2 DEF sys_err_main
    <3> QED BY <1>1, <3>1, <3>2 DEF SysErrInPlace, Created, mutexes, creation
  <2> QED BY <2>2, <2>4
<1>6. CASE sys_err_fun1
  <2>1. cur_tcb = 1 /\ at[1] = "loop" /\ i'[1] = i[1] + 1 /\ i[1] \in Nat
    BY <1>3, <1>6 DEF sys_err_fun1, Runs, Counts
  <2>2. Created
    BY <1>2, <2>1 DEF InPlace, RunningInPlace, NULL
  <2>3. CASE i[1] < NumMutexes
    <3>1. create_stub(ok) /\ at' = at /\ failed' = failed
      BY <1>6, <2>1, <2>3 DEF sys_err_fun1
    <3>2. PICK m \in Mutexes : /\ bAvailable[m] /\ \A k \in Mutexes : k < m => ~bAvailable[k]
                               /\ bAvailable' = [bAvailable EXCEPT ![m] = FALSE]
      BY <1>2, <3>1, CreateCall DEF InPlace
    <3>3. UNCHANGED <<pHolding_Tcb, creation>>
      BY <1>2, <3>1, CreateCall DEF InPlace
    <3>4. m = i[1]
      <4>1. m \in Int /\ i[1] \in Mutexes /\ i[1] <= m
        BY <1>1, <2>1, <2>3, <3>2 DEF SysErrInPlace, Mutexes
      <4>2. ~(i[1] < m)
        BY <1>1, <2>1, <3>2, <4>1 DEF SysErrInPlace
      <4> QED BY <2>1, <4>1, <4>2
    <3>5. ASSUME NEW x \in Mutexes
          PROVE  /\ bAvailable'[x] <=> i[1] + 1 <= x
                 /\ pHolding_Tcb'[x] # 1
      <4>1. x \in Int /\ i[1] \in Int /\ bAvailable \in [Mutexes -> BOOLEAN]
        <5>1. bAvailable \in [Mutexes -> BOOLEAN]
          BY <1>2 DEF InPlace, TypeOK
        <5>2. x \in Int
          BY DEF Mutexes
        <5> QED BY <2>1, <5>1, <5>2
      <4>2. bAvailable[x] <=> i[1] <= x
        BY <1>1 DEF SysErrInPlace
      <4>3. bAvailable'[x] <=> i[1] + 1 <= x
        <5>1. CASE x = m
          BY <3>2, <3>4, <4>1, <5>1
        <5>2. CASE x # m
          <6>1. bAvailable'[x] <=> bAvailable[x]
            BY <3>2, <4>1, <5>2
          <6> QED BY <3>4, <4>1, <4>2, <5>2, <6>1
        <5> QED BY <5>1, <5>2
      <4>4. i[1] \notin {NumMutexes + 5, NumMutexes + 6}
        BY <2>1, <2>3
      <4> QED BY <1>1, <3>3, <4>3, <4>4 DEF SysErrInPlace
    <3>6. i'[1] \notin {NumMutexes + 5, NumMutexes + 6}
      BY <2>1, <2>3
    <3> QED BY <1>1, <2>1, <2>2, <3>1, <3>3, <3>5, <3>6 DEF SysErrInPlace, Created, creation
  <2>4. CASE i[1] >= NumMutexes
    <3> DEFINE k == i[1] - NumMutexes + 1
    <3>1. PICK r \in Errors \cup {ok} :
            /\ Performs(Script[k], r)
            /\ check_return(k + 2, IF Script[k][3] = ok THEN r ELSE errno', Script[k][3])
            /\ at' = [at EXCEPT ![1] = IF k = Len(Script) THEN "end" ELSE "loop"]
      BY <1>6, <2>1, <2>4 DEF sys_err_fun1
    <3>2. i[1] < NumMutexes + 8
      BY <1>1, <2>1, ScriptLength DEF Base, LocalsInPlace
    <3>3. k \in 1 .. 8 /\ i[1] = NumMutexes + k - 1
      BY <2>1, <2>4, <3>2
    <3> HIDE DEF k
    <3>4. /\ Script[k][3] = (IF Script[k][3] = ok THEN r ELSE errno')
          /\ bAvailable' = bAvailable /\ Created'
          /\ \A m \in Mutexes : pHolding_Tcb'[m] = 1 <=> m = 0 /\ k \in {5, 6}
      BY <1>1, <1>2, <2>1, <3>1, <3>3, SysErrCall
    <3>5. failed' = failed
      BY <3>1, <3>4 DEF check_return, Found
    <3>6. at'[1] \in {"loop", "end"}
      BY <1>3, <3>1
    <3>7. k \in {5, 6} <=> i'[1] \in {NumMutexes + 5, NumMutexes + 6}
      BY <2>1, <3>3
    <3>8. \A m \in Mutexes : ~bAvailable'[m] /\ ~(i'[1] <= m)
      <4>1. \A m \in Mutexes : ~(i[1] <= m) /\ ~(i'[1] <= m)
        BY <2>1, <2>4 DEF Mutexes
      <4> QED BY <1>1, <3>4, <4>1 DEF SysErrInPlace
    <3> QED BY <1>1, <3>4, <3>5, <3>6, <3>7, <3>8 DEF SysErrInPlace
  <2> QED BY <2>1, <2>3, <2>4
<1>7. CASE KernelWorks \/ Ticks \/ UNCHANGED pvars
  <2>1. UNCHANGED <<failed, locals>>
    BY <1>7 DEF KernelWorks, Ticks, pvars
  <2>2. UNCHANGED <<mutexes, creation>>
    BY <1>2, <1>7, KernelCall DEF pvars, vars
  <2> QED BY <1>4, <2>1, <2>2 DEF locals
<1>8. Works => sys_err_fun1 \/ sys_err_main
  BY <1>1 DEF Works, chaser_fun1, chaser_fun2, chaser_fun3, chaser_fun4, chaser_main,
    simple_fun1, simple_fun2, simple_fun3, simple_main,
    stress_fun1, stress_main, cyclone_fun1, cyclone_main, dagger_fun1, dagger_fun2, dagger_main, Runs
<1> QED BY <1>5, <1>6, <1>7, <1>8 DEF ProgramsNext

-----------------------------------------------------------------------------
(* simple_mutex *)

\* The only mutex of the program is mutex 0, and fun1 has it locked only between
\* its lock and its unlock: never when it waits.
SimpleInPlace ==
  prog = "simple_mutex" =>
    /\ mem \in [even : [1 .. 3 -> Int], once : Int, mid : {-1, 0}]
    /\ \A m \in Mutexes : mem.mid = -1 => bAvailable[m]
    /\ mem.mid = 0 => ~bAvailable[0]
    /\ \A m \in Mutexes : pHolding_Tcb[m] = 1 =>
                            m = 0 /\ mem.mid = 0 /\ at[1] \in {"e", "unlock"}

LEMMA InitSimple == ProgramsInit => SimpleInPlace
PROOF
<1> SUFFICES ASSUME ProgramsInit, prog = "simple_mutex" PROVE SimpleInPlace
  BY DEF SimpleInPlace
<1>1. mem = [even |-> [t \in 1 .. 3 |-> 1], once |-> 0, mid |-> -1]
  BY DEF ProgramsInit, Globals
<1>2. mem \in [even : [1 .. 3 -> Int], once : Int, mid : {-1, 0}] /\ mem.mid = -1
  BY <1>1
<1>3. \A m \in Mutexes : bAvailable[m] /\ pHolding_Tcb[m] # 1
  BY DEF ProgramsInit, Init, NULL
<1> QED BY <1>2, <1>3 DEF SimpleInPlace

LEMMA SimpleMutex ==
  ASSUME SimpleInPlace, prog = "simple_mutex", NEW m, m = mem.mid
  PROVE  \/ m = 0 /\ ~bAvailable[0]
         \/ m = -1 /\ m \notin Mutexes
PROOF
<1>1. mem \in [even : [1 .. 3 -> Int], once : Int, mid : {-1, 0}]
  BY DEF SimpleInPlace
<1>2. m \in {-1, 0}
  BY <1>1
<1> QED BY <1>2 DEF SimpleInPlace, Mutexes

LEMMA SimpleTask ==
  ASSUME Base, InPlace, SimpleInPlace, prog = "simple_mutex", prog' = prog,
         simple_fun1 \/ simple_fun2 \/ simple_fun3
  PROVE  /\ SimpleInPlace'
         /\ \A t \in Tcbs : at'[t] = "panic" => at[t] = "panic" \/ t \in {2, 3}
PROOF
<1> USE Sizes
<1> DEFINE c == cur_tcb
<1> DEFINE T == [even : [1 .. 3 -> Int], once : Int, mid : {-1, 0}]
<1>1. c \in {1, 2, 3} /\ c \in Tcbs /\ c # NULL
  BY DEF simple_fun1, simple_fun2, simple_fun3, Runs, NULL
<1>2. /\ at \in [Tcbs \cup {NULL} -> Labels] /\ ProgramsTypeOK /\ mem \in T
      /\ 0 \in Mutexes /\ 1 \in Tcbs
      /\ pHolding_Tcb \in [Mutexes -> Tcbs \cup {NULL}]
  <2>1. ProgramsTypeOK /\ mem \in T
    BY DEF Base, LocalsInPlace, SimpleInPlace
  <2>2. at \in [Tcbs \cup {NULL} -> Labels]
    BY <2>1 DEF ProgramsTypeOK, Labels
  <2>3. pHolding_Tcb \in [Mutexes -> Tcbs \cup {NULL}]
    BY DEF InPlace, TypeOK
  <2> QED BY <2>1, <2>2, <2>3
<1>3. mem.mid \in {-1, 0} /\ (mem.mid \in Mutexes => mem.mid = 0 /\ ~bAvailable[0])
  BY <1>2, SimpleMutex DEF Mutexes
<1>4. ASSUME NEW from, NEW to \in Labels, Goes(from, to)
      PROVE  /\ at[c] = from /\ at'[c] = to /\ \A t \in Tcbs : t # c => at'[t] = at[t]
  BY <1>1, <1>2, <1>4, GoesType
<1>5. Own => UNCHANGED <<bAvailable, pHolding_Tcb>>
  BY DEF Own, vars, mutexes
<1>6. ASSUME NEW t \in 1 .. 3, NEW v \in Int, SetEven(t, v) PROVE mem' \in T /\ mem'.mid = mem.mid
  BY <1>2, <1>6 DEF SetEven
\* A step that leaves mutex 0 to fun1, if it has it, or takes it for another task.
<1>7. ASSUME mem' \in T /\ mem'.mid = mem.mid, bAvailable' = bAvailable,
             \A m \in Mutexes : pHolding_Tcb'[m] = 1 =>
               m = 0 /\ mem.mid = 0 /\ at'[1] \in {"e", "unlock"}
      PROVE  SimpleInPlace'
  BY <1>7 DEF SimpleInPlace
<1>8. \A m \in Mutexes : pHolding_Tcb[m] = 1 => m = 0 /\ mem.mid = 0 /\ at[1] \in {"e", "unlock"}
  BY DEF SimpleInPlace
<1>9. {"loop", "wait", "panic", "e", "unlock", "!"} \subseteq Labels
  BY DEF Labels
<1>10. ASSUME NEW d \in 0 .. 3, waits(d)
       PROVE  /\ SimpleInPlace'
              /\ \A t \in Tcbs : at'[t] = "panic" => at[t] = "panic" \/ t \in {2, 3}
  <2>1. PICK r \in Errors \cup {ok} : Goes("wait", Or(r, "loop")) /\ wait_stub(d, r)
    BY <1>10 DEF waits
  <2>2. Or(r, "loop") \in Labels
    BY <1>9 DEF Or
  <2>3. at[c] = "wait" /\ at'[c] = Or(r, "loop") /\ \A t \in Tcbs : t # c => at'[t] = at[t]
    BY <1>4, <2>1, <2>2
  <2>4. UNCHANGED mutexes /\ (r # ok => Held(c) # {})
    BY <1>1, <2>1, WaitCall
  <2>5. \A m \in Mutexes : pHolding_Tcb[m] = 1 => at'[1] \in {"e", "unlock"}
    <3>1. ASSUME NEW m \in Mutexes, pHolding_Tcb[m] = 1 PROVE at'[1] = at[1] /\ at[1] \in {"e", "unlock"}
      <4>1. at[1] \in {"e", "unlock"}
        BY <1>8, <3>1
      <4> QED BY <2>3, <4>1
    <3> QED BY <3>1
  <2>6. SimpleInPlace'
    BY <1>2, <1>7, <1>8, <1>10, <2>4, <2>5 DEF waits, mutexes
  <2>7. c = 1 => r = ok
    BY <1>8, <2>3, <2>4 DEF Held
  <2>8. at'[c] = "panic" => c \in {2, 3}
    BY <1>1, <2>3, <2>7 DEF Or
  <2> QED BY <1>1, <2>3, <2>6, <2>8
<1>11. CASE simple_fun1
  <2>1. c = 1
    BY <1>11 DEF simple_fun1, Runs
  <2>2. CASE mem.mid = -1 /\ create_stub(ok) /\ mem' = [mem EXCEPT !.mid = 0] /\ at' = at
    <3>1. PICK m \in Mutexes : /\ bAvailable[m] /\ \A k \in Mutexes : k < m => ~bAvailable[k]
                               /\ bAvailable' = [bAvailable EXCEPT ![m] = FALSE]
      BY <2>2, CreateCall DEF InPlace
    <3>2. m = 0
      <4>1. bAvailable[0]
        BY <1>2, <2>2 DEF SimpleInPlace
      <4>2. m \in Nat /\ ~(0 < m)
        BY <1>2, <3>1, <4>1 DEF Mutexes
      <4> QED BY <4>2
    <3>3. ~bAvailable'[0]
      <4>1. bAvailable \in [Mutexes -> BOOLEAN]
        BY DEF InPlace, TypeOK
      <4> QED BY <1>2, <3>1, <3>2, <4>1
    <3>4. mem' \in T /\ mem'.mid = 0
      BY <1>2, <2>2
    <3>5. pHolding_Tcb' = pHolding_Tcb
      BY <2>2, CreateCall DEF InPlace
    <3>6. \A m1 \in Mutexes : pHolding_Tcb[m1] # 1
      BY <1>8, <2>2
    <3>7. SimpleInPlace'
      BY <3>3, <3>4, <3>5, <3>6 DEF SimpleInPlace
    <3> QED BY <2>2, <3>7
  <2>3. CASE /\ Even(1) /\ Goes("loop", IF mem.once > 0 THEN "!" ELSE "wait")
             /\ mem' = IF mem.once > 0 THEN mem ELSE [mem EXCEPT !.once = 1, !.even[1] = 0]
             /\ Own
    <3>1. mem' \in T /\ mem'.mid = mem.mid
      <4>1. CASE mem' = mem
        BY <1>2, <4>1
      <4>2. CASE mem' = [mem EXCEPT !.once = 1, !.even[1] = 0]
        <5>1. mem.even \in [1 .. 3 -> Int] /\ mem.mid \in {-1, 0} /\ 0 \in Int
          BY <1>2
        <5>2. [mem.even EXCEPT ![1] = 0] \in [1 .. 3 -> Int]
          BY <5>1
        <5>3. mem' = [even |-> [mem.even EXCEPT ![1] = 0], once |-> 1, mid |-> mem.mid]
          BY <1>2, <4>2
        <5> QED BY <5>1, <5>2, <5>3
      <4> QED BY <2>3, <4>1, <4>2
    <3>2. at[1] = "loop" /\ at'[1] \in {"!", "wait"} /\ \A t \in Tcbs : t # 1 => at'[t] = at[t]
      BY <1>4, <1>9, <2>1, <2>3
    <3>3. \A m \in Mutexes : pHolding_Tcb[m] # 1
      BY <1>8, <3>2
    <3>4. SimpleInPlace'
      BY <1>5, <1>7, <2>3, <3>1, <3>3
    <3> QED BY <3>2, <3>4
  <2>4. CASE mem.mid # -1 /\ mem' = mem /\ \E r \in Errors \cup {ok} : Goes("loop", "e") /\ lock_stub(mem.mid, r)
    <3>1. PICK r \in Errors \cup {ok} : Goes("loop", "e") /\ lock_stub(mem.mid, r)
      BY <2>4
    <3>2. at[1] = "loop" /\ at'[1] = "e" /\ \A t \in Tcbs : t # 1 => at'[t] = at[t]
      BY <1>4, <1>9, <2>1, <3>1
    <3>3. mem.mid = 0 /\ bAvailable' = bAvailable
      BY <1>1, <1>3, <2>4, <3>1, LockCall
    <3>4. pHolding_Tcb' \in {pHolding_Tcb, [pHolding_Tcb EXCEPT ![0] = c]}
      BY <1>1, <3>1, <3>3, LockCall DEF vars, mutexes
    <3>5. \A m \in Mutexes : pHolding_Tcb'[m] = 1 => m = 0
      BY <1>2, <1>8, <3>4
    <3>6. SimpleInPlace'
      BY <1>2, <1>7, <2>4, <3>2, <3>3, <3>5
    <3> QED BY <3>2, <3>6
  <2>5. CASE Goes("e", "unlock") /\ SetEven(1, 1) /\ Own
    <3>1. at'[1] = "unlock" /\ \A t \in Tcbs : t # 1 => at'[t] = at[t]
      BY <1>4, <1>9, <2>1, <2>5
    <3>2. mem' \in T /\ mem'.mid = mem.mid
      BY <1>6, <2>5
    <3>3. SimpleInPlace'
      BY <1>5, <1>7, <1>8, <2>5, <3>1, <3>2
    <3> QED BY <3>1, <3>3
  <2>6. CASE mem' = mem /\ \E r \in Errors \cup {ok} : Goes("unlock", "wait") /\ unlock_stub(mem.mid, r)
    <3>1. PICK r \in Errors \cup {ok} : Goes("unlock", "wait") /\ unlock_stub(mem.mid, r)
      BY <2>6
    <3>2. at'[1] = "wait" /\ \A t \in Tcbs : t # 1 => at'[t] = at[t]
      BY <1>4, <1>9, <2>1, <3>1
    <3>3. bAvailable' = bAvailable
      BY <1>1, <3>1, UnlockCall
    <3>4. \A m \in Mutexes : pHolding_Tcb'[m] # 1
      <4>1. CASE r = ok
        <5>1. mem.mid = 0 /\ pHolding_Tcb' = [pHolding_Tcb EXCEPT ![0] = NULL]
          BY <1>1, <1>3, <3>1, <4>1, UnlockCall
        <5> QED BY <1>2, <1>8, <5>1 DEF NULL
      <4>2. CASE r # ok
        <5>1. /\ pHolding_Tcb' = pHolding_Tcb
              /\ mem.mid \notin Mutexes \/ bAvailable[mem.mid] \/ pHolding_Tcb[mem.mid] # 1
          BY <1>1, <2>1, <3>1, <4>2, UnlockCall DEF vars, mutexes
        <5>2. ASSUME NEW m \in Mutexes, pHolding_Tcb[m] = 1 PROVE FALSE
          <6>1. m = 0 /\ mem.mid = 0
            BY <1>8, <5>2
          <6> QED BY <1>2, <1>3, <5>1, <5>2, <6>1
        <5> QED BY <5>1, <5>2
      <4> QED BY <4>1, <4>2
    <3>5. SimpleInPlace'
      BY <1>2, <1>7, <2>6, <3>3, <3>4
    <3> QED BY <3>2, <3>5
  <2> QED BY <1>10, <1>11, <2>2, <2>3, <2>4, <2>5, <2>6 DEF simple_fun1, locals
<1>12. CASE simple_fun2 \/ simple_fun3
  <2>1. c \in {2, 3}
    BY <1>12 DEF simple_fun2, simple_fun3, Runs
  <2>2. ASSUME NEW to \in Labels, Goes("loop", to)
        PROVE  at'[1] = at[1] /\ \A t \in Tcbs : at'[t] = "panic" => at[t] = "panic" \/ t \in {2, 3}
    BY <1>2, <1>4, <2>1, <2>2
  <2>3. ASSUME NEW r, lock_stub(mem.mid, r) \/ unlock_stub(mem.mid, r)
        PROVE  /\ bAvailable' = bAvailable
               /\ \A m \in Mutexes : pHolding_Tcb'[m] = 1 => pHolding_Tcb[m] = 1
    <3>1. bAvailable' = bAvailable
      BY <1>1, <2>3, LockCall, UnlockCall
    <3>2. pHolding_Tcb' = pHolding_Tcb \/ \E h \in {c, NULL} : pHolding_Tcb' = [pHolding_Tcb EXCEPT ![mem.mid] = h]
      BY <1>1, <2>3, LockCall, UnlockCall DEF vars, mutexes
    <3> QED BY <1>2, <2>1, <3>1, <3>2 DEF NULL
  <2>4. CASE Goes("loop", "wait") /\ (\E t \in 1 .. 3 : SetEven(t, 0)) /\ Own
    <3>1. at'[1] = at[1] /\ \A t \in Tcbs : at'[t] = "panic" => at[t] = "panic" \/ t \in {2, 3}
      BY <1>9, <2>2, <2>4
    <3>2. SimpleInPlace'
      BY <1>5, <1>6, <1>7, <1>8, <2>4, <3>1
    <3> QED BY <3>1, <3>2
  <2>5. CASE /\ \E r : lock_stub(mem.mid, r) \/ unlock_stub(mem.mid, r)
             /\ Goes("loop", "wait") /\ (mem' = mem \/ SetEven(3, 0))
    <3>1. at'[1] = at[1] /\ \A t \in Tcbs : at'[t] = "panic" => at[t] = "panic" \/ t \in {2, 3}
      BY <1>9, <2>2, <2>5
    <3>2. mem' \in T /\ mem'.mid = mem.mid
      BY <1>2, <1>6, <2>5
    <3>3. SimpleInPlace'
      BY <1>7, <1>8, <2>3, <2>5, <3>1, <3>2
    <3> QED BY <3>1, <3>3
  <2>6. CASE simple_fun2
    BY <1>10, <2>4, <2>5, <2>6 DEF simple_fun2
  <2>7. CASE simple_fun3
    BY <1>10, <2>4, <2>5, <2>7 DEF simple_fun3
  <2> QED BY <1>12, <2>6, <2>7
<1> QED BY <1>11, <1>12

LEMMA SimpleKept ==
  ASSUME Base, KernelInPlace, SimpleInPlace, [ProgramsNext]_pvars
  PROVE  /\ SimpleInPlace'
         /\ prog = "simple_mutex" =>
              \A t \in Tcbs : at'[t] = "panic" => at[t] = "panic" \/ t \in {2, 3}
PROOF
<1> USE Sizes
<1>1. prog' = prog
  BY DEF ProgramsNext, Works, KernelWorks, Ticks, pvars, mains
<1> SUFFICES ASSUME prog = "simple_mutex"
             PROVE  /\ SimpleInPlace'
                    /\ \A t \in Tcbs : at'[t] = "panic" => at[t] = "panic" \/ t \in {2, 3}
  BY <1>1 DEF SimpleInPlace
<1>2. InPlace
  BY DEF KernelInPlace
<1>3. CASE simple_main
  <2>1. starts(3) /\ cur_tcb = NULL
    BY <1>3 DEF simple_main, Runs
  <2>2. /\ UNCHANGED mutexes /\ \A m \in Mutexes : pHolding_Tcb[m] = NULL
        /\ \A t \in Tcbs : at'[t] \in {"start", "loop"}
    BY <1>2, <2>1, StartCall
  <2>3. mem' = mem
    BY <2>1 DEF starts
  <2> QED BY <1>1, <2>2, <2>3 DEF SimpleInPlace, mutexes, NULL
<1>4. CASE KernelWorks \/ Ticks \/ UNCHANGED pvars
  <2>1. UNCHANGED <<mem, locals>>
    BY <1>4 DEF KernelWorks, Ticks, pvars
  <2>2. UNCHANGED mutexes
    BY <1>2, <1>4, KernelCall DEF pvars, vars
  <2> QED BY <1>1, <2>1, <2>2 DEF SimpleInPlace, locals, mutexes
<1>5. Works => simple_fun1 \/ simple_fun2 \/ simple_fun3 \/ simple_main
  BY DEF Works, chaser_fun1, chaser_fun2, chaser_fun3, chaser_fun4, chaser_main,
    sys_err_fun1, sys_err_main,
    stress_fun1, stress_main, cyclone_fun1, cyclone_main, dagger_fun1, dagger_fun2, dagger_main, Runs
<1> QED BY <1>1, <1>2, <1>3, <1>4, <1>5, SimpleTask DEF ProgramsNext

-----------------------------------------------------------------------------
(* stress and dagger *)

NobodyLocks == prog \in {"stress", "dagger"} => \A m \in Mutexes : pHolding_Tcb[m] = NULL

\* The first task of stress whose wait is refused.
Spinner == NumDevices + 2

\* It never sleeps, and so the processor goes to no task after it.
StressInPlace ==
  prog = "stress" =>
    /\ num_tasks \in {0, NUM_TASK}
    /\ pc[Spinner] \in {"none", "launch", "user"}
    /\ ~Asleep(Spinner)
    /\ Created => cur_tcb <= Spinner \/ (cur_tcb = IDLE_PRIO /\ pc[IDLE_PRIO] = "nosave")

LEMMA InitStress == ProgramsInit => NobodyLocks /\ StressInPlace
PROOF
<1> SUFFICES ASSUME ProgramsInit PROVE NobodyLocks /\ StressInPlace
  OBVIOUS
<1>1. /\ \A m \in Mutexes : pHolding_Tcb[m] = NULL
      /\ \A t \in Tcbs : pc[t] = "none"
      /\ num_tasks = 0 /\ \A d \in DevQueues : dev_queue[d] = <<>>
  BY DEF ProgramsInit, Init
<1>2. ~Asleep(Spinner)
  BY <1>1, EmptySeq DEF Asleep
<1>3. Spinner \in Tcbs
  BY Sizes DEF Spinner, Tcbs
<1> QED BY <1>1, <1>2, <1>3 DEF NobodyLocks, StressInPlace, Created

LEMMA NobodyLocksKept ==
  ASSUME Base, KernelInPlace, NobodyLocks, [ProgramsNext]_pvars
  PROVE  NobodyLocks'
PROOF
<1> USE Sizes
<1>1. prog' = prog
  BY DEF ProgramsNext, Works, KernelWorks, Ticks, pvars, mains
<1> SUFFICES ASSUME prog \in {"stress", "dagger"} PROVE UNCHANGED mutexes
  BY <1>1 DEF NobodyLocks, mutexes
<1>2. InPlace
  BY DEF KernelInPlace
<1>3. Own => UNCHANGED mutexes
  BY DEF Own, vars
<1>4. ASSUME NEW d \in Nat, waits(d), cur_tcb \in Tcbs PROVE UNCHANGED mutexes
  BY <1>2, <1>4, WaitCall DEF waits
<1>5. CASE stress_main \/ dagger_main
  BY <1>2, <1>5, StartCall DEF stress_main, dagger_main, Runs
<1>6. CASE stress_fun1
  BY <1>3, <1>4, <1>6 DEF stress_fun1, Runs, Tcbs
<1>7. CASE dagger_fun1 \/ dagger_fun2
  BY <1>3, <1>4, <1>7 DEF dagger_fun1, dagger_fun2, prints, Runs, Tcbs
<1>8. CASE KernelWorks \/ Ticks \/ UNCHANGED pvars
  BY <1>2, <1>8, KernelCall DEF pvars, vars
<1>9. Works => stress_main \/ dagger_main \/ stress_fun1 \/ dagger_fun1 \/ dagger_fun2
  BY DEF Works, chaser_fun1, chaser_fun2, chaser_fun3, chaser_fun4, chaser_main,
    simple_fun1, simple_fun2, simple_fun3, simple_main, sys_err_fun1, sys_err_main,
    cyclone_fun1, cyclone_main, Runs
<1> QED BY <1>5, <1>6, <1>7, <1>8, <1>9 DEF ProgramsNext

\* A wait of stress or dagger is refused to the tasks whose number is no device.
LEMMA WaitHeldNone ==
  ASSUME Base, InPlace, NobodyLocks, prog \in {"stress", "dagger"}, cur_tcb \in Tcbs,
         NEW d \in Nat, waits(d)
  PROVE  /\ \A t \in Tcbs : at'[t] = "panic" => at[t] = "panic" \/ (t = cur_tcb /\ d > NumDevices)
         /\ UNCHANGED <<cur_tcb, devices, creation>>
         /\ pc' = pc \/ (d <= NumDevices /\ pc' = [pc EXCEPT ![cur_tcb] = "checked"])
PROOF
<1> DEFINE c == cur_tcb
<1>1. PICK r \in Errors \cup {ok} : Goes("wait", Or(r, "loop")) /\ wait_stub(d, r)
  BY DEF waits
<1>2. Or(r, "loop") \in Labels
  BY DEF Or, Labels
<1>3. at'[c] = Or(r, "loop") /\ \A t \in Tcbs : t # c => at'[t] = at[t]
  BY <1>1, <1>2, GoesType DEF Base, LocalsInPlace
<1>4. Held(c) = {}
  BY Sizes DEF NobodyLocks, Held
<1>5. /\ UNCHANGED <<c, devices, creation>>
      /\ r # ok => UNCHANGED vars /\ d > NumDevices
      /\ r = ok => d <= NumDevices /\ pc' = [pc EXCEPT ![c] = "checked"]
  BY <1>1, <1>4, WaitCall
<1>6. r # ok => pc' = pc
  BY <1>5 DEF vars, places
<1> QED BY <1>3, <1>5, <1>6 DEF Or

\* A switch goes to the spinner, or to a task before it.
LEMMA SpinnerFirst ==
  ASSUME InPlace', Switched, num_tasks' = NUM_TASK, ~Asleep(Spinner)'
  PROVE  cur_tcb' <= Spinner
PROOF
<1> USE Sizes
<1>1. Spinner \in Live' /\ Spinner \in Prios /\ Spinner # NULL /\ Spinner \in Nat
  BY DEF Live, Spinner, Prios, NULL
<1>2. Spinner = cur_tcb' \/ run_list'[Spinner] = Spinner
  BY <1>1 DEF InPlace, NobodyMissing
<1> QED BY <1>1, <1>2 DEF Switched

LEMMA StressKept ==
  ASSUME Base, KernelInPlace, NobodyLocks, StressInPlace, [ProgramsNext]_pvars
  PROVE  StressInPlace'
PROOF
<1> USE Sizes
<1>1. prog' = prog
  BY DEF ProgramsNext, Works, KernelWorks, Ticks, pvars, mains
<1> SUFFICES ASSUME prog = "stress" PROVE StressInPlace'
  BY <1>1 DEF StressInPlace
<1>2. InPlace /\ InPlace'
  BY <1>1, KernelKept DEF KernelInPlace
<1>3. /\ num_tasks \in {0, NUM_TASK} /\ pc[Spinner] \in {"none", "launch", "user"}
      /\ ~Asleep(Spinner)
      /\ Created => cur_tcb <= Spinner \/ (cur_tcb = IDLE_PRIO /\ pc[IDLE_PRIO] = "nosave")
  BY DEF StressInPlace
<1>4. /\ Spinner \in Tcbs /\ Spinner \in Nat /\ Spinner = NumDevices + 2 /\ Spinner < NUM_TASK
      /\ Spinner # IDLE_PRIO /\ IDLE_PRIO \in Tcbs
  BY DEF Spinner, Tcbs
<1>5. pc \in [Tcbs -> Places] /\ dev_queue \in [DevQueues -> Seq(Tcbs)] /\ arg \in [Tcbs -> Nat]
  BY <1>2 DEF InPlace, TypeOK
<1>6. dev_queue' = dev_queue => ~Asleep(Spinner)'
  BY <1>3 DEF Asleep
<1>7. CASE stress_fun1
  <2>1. PICK t \in 1 .. NUM_TASK - 1 :
          cur_tcb = t /\ InUser /\ (Own \/ waits(t - 1))
    BY <1>7 DEF stress_fun1, Runs
  <2>2. cur_tcb \in Tcbs /\ t - 1 \in Nat /\ t # IDLE_PRIO /\ t # NULL
    BY <2>1 DEF Tcbs, NULL
  <2>3. Created /\ cur_tcb <= Spinner
    BY <1>2, <1>3, <2>1, <2>2 DEF InPlace, RunningInPlace
  <2>4. CASE Own
    BY <1>1, <1>3, <1>6, <2>3, <2>4 DEF StressInPlace, Own, vars, sched, places, creation, devices, Created
  <2>5. CASE waits(t - 1)
    <3>1. /\ UNCHANGED <<cur_tcb, devices, creation>>
          /\ pc' = pc \/ (t - 1 <= NumDevices /\ pc' = [pc EXCEPT ![cur_tcb] = "checked"])
      BY <1>2, <2>2, <2>5, WaitHeldNone
    <3>2. pc'[Spinner] = pc[Spinner]
      BY <1>4, <1>5, <2>1, <3>1
    <3> QED BY <1>1, <1>3, <1>6, <2>3, <3>1, <3>2 DEF StressInPlace, creation, devices, Created
  <2> QED BY <2>1, <2>4, <2>5
<1>8. CASE stress_main
  <2>1. starts(NUM_TASK) /\ cur_tcb = NULL
    BY <1>8 DEF stress_main, Runs
  <2>2. ~Created /\ (CreatePlain(NUM_TASK) \/ task_create_unschedulable)
    BY <1>2, <2>1, StartCall
  <2>3. CASE CreatePlain(NUM_TASK)
    <3>1. /\ num_tasks' = NUM_TASK /\ cur_tcb' = IDLE_PRIO
          /\ pc' = [t \in Tcbs |-> IF t = IDLE_PRIO THEN "nosave"
                                   ELSE IF t \in 1 .. NUM_TASK \cup {IDLE_PRIO} THEN "launch" ELSE "none"]
          /\ KeptQueuesEmpty /\ ResetDevices
      BY <2>3 DEF CreatePlain
    <3>2. pc'[IDLE_PRIO] = "nosave" /\ pc'[Spinner] = "launch"
      BY <1>4, <3>1
    <3>3. \A d \in DevQueues : dev_queue'[d] = <<>>
      BY <3>1 DEF KeptQueuesEmpty, ResetDevices, ResetQueues, DevQueues, Devices
    <3>4. ~Asleep(Spinner)'
      BY <3>3, EmptySeq DEF Asleep
    <3> QED BY <1>1, <3>1, <3>2, <3>4 DEF StressInPlace
  <2>4. CASE task_create_unschedulable
    <3>1. /\ UNCHANGED <<cur_tcb, pc, num_tasks>>
          /\ dev_queue' = [d \in DevQueues |-> IF d \in Devices THEN <<>> ELSE dev_queue[d]]
      BY <2>4 DEF task_create_unschedulable, ResetDevices, ResetQueues, places, creation
    <3>2. ~Asleep(Spinner)'
      BY <1>3, <3>1, EmptySeq DEF Asleep
    <3> QED BY <1>1, <1>3, <2>2, <3>1, <3>2 DEF StressInPlace, Created
  <2> QED BY <2>2, <2>3, <2>4
<1>9. CASE dev_wait
  <2>0. DevWaitPlain
    BY <1>2, <1>9, StepsPlain
  <2>1. Switched /\ cur_tcb \in Tcbs /\ UNCHANGED creation
    BY <1>2, <2>0, DevWaitSwitches
  <2>2. /\ pc[cur_tcb] = "checked" /\ pc' = [pc EXCEPT ![cur_tcb] = "dev_wait"]
        /\ dev_queue' = [dev_queue EXCEPT ![arg[cur_tcb]] = Append(@, cur_tcb)]
    BY <2>0 DEF DevWaitPlain, At
  <2>3. cur_tcb # Spinner /\ pc'[Spinner] = pc[Spinner]
    BY <1>3, <1>4, <1>5, <2>1, <2>2
  <2>4. ~Asleep(Spinner)'
    <3>1. arg[cur_tcb] \in DevQueues
      BY <1>2, <2>1, <2>2 DEF InPlace, RunningInPlace
    <3> QED BY <1>2, <1>3, <2>0, <2>3, <3>1, QueueGrows DEF InPlace
  <2>5. num_tasks' = NUM_TASK
    BY <1>2, <1>3, <2>1 DEF creation, InPlace, RunningInPlace, Created, Tcbs, NULL
  <2>6. cur_tcb' <= Spinner
    BY <1>2, <2>1, <2>4, <2>5, SpinnerFirst
  <2> QED BY <1>1, <1>3, <2>3, <2>4, <2>5, <2>6 DEF StressInPlace
<1>10. CASE dispatch_nosave
  <2>1. Switched /\ cur_tcb \in Tcbs /\ UNCHANGED creation
    BY <1>2, <1>10, NosaveSwitches
  <2>2. pc' = [pc EXCEPT ![IDLE_PRIO] = "launch"] /\ dev_queue' = dev_queue
    BY <1>10 DEF dispatch_nosave, At, devices
  <2>3. pc'[Spinner] = pc[Spinner] /\ ~Asleep(Spinner)'
    BY <1>4, <1>5, <1>6, <2>2
  <2>4. num_tasks' = NUM_TASK
    BY <1>2, <1>3, <2>1 DEF creation, InPlace, RunningInPlace, Created, Tcbs, NULL
  <2>5. cur_tcb' <= Spinner
    BY <1>2, <2>1, <2>3, <2>4, SpinnerFirst
  <2> QED BY <1>1, <1>3, <2>3, <2>4, <2>5 DEF StressInPlace
<1>11. CASE timer_tick
  <2>0. TickPlain
    BY <1>2, <1>11, StepsPlain
  <2>1. /\ UNCHANGED <<pc, creation>>
        /\ \/ cur_tcb' = cur_tcb
           \/ Created /\ Switched
    BY <1>2, <2>0, TickSwitches DEF sched
  <2>2. ~Asleep(Spinner)'
    <3>1. dev_queue' = [d \in DevQueues |-> IF d \in {x \in Devices : left[x] <= 1} THEN <<>> ELSE dev_queue[d]]
      BY <2>0 DEF TickPlain
    <3>2. \A d \in DevQueues : dev_queue'[d] = <<>> \/ dev_queue'[d] = dev_queue[d]
      BY <3>1
    <3> QED BY <1>3, <3>2, EmptySeq DEF Asleep
  <2>3. Created /\ Switched => cur_tcb' <= Spinner
    BY <1>2, <1>3, <2>1, <2>2, SpinnerFirst DEF creation, Created
  <2> QED BY <1>1, <1>3, <2>1, <2>2, <2>3 DEF StressInPlace, Created, creation
<1>12. CASE KernelExit
  <2>1. ~mutex_lock_resume
    BY <1>2 DEF mutex_lock_resume, InPlace, RunningInPlace
  <2>2. /\ ~irq /\ cur_tcb \in Tcbs /\ UNCHANGED <<cur_tcb, devices, creation>>
        /\ \/ pc[cur_tcb] = "launch" /\ pc' = [pc EXCEPT ![cur_tcb] = "user"]
           \/ pc[cur_tcb] \in {"dev_wait", "mutex_unlock"} /\ pc' = [pc EXCEPT ![cur_tcb] = "user"]
           \/ \E place \in {"user", "checked", "nosave"} :
                pc[cur_tcb] = place /\ pc' = [pc EXCEPT ![cur_tcb] = place]
    BY <1>12, <2>1 DEF KernelExit, launch_task, syscall_return, irq_return, LeaveKernel, At
  <2>3. pc'[Spinner] \in {"none", "launch", "user"}
    BY <1>3, <1>4, <1>5, <2>2
  <2>4. pc[IDLE_PRIO] # "nosave"
    BY <1>2, <1>4, <2>2 DEF InPlace, RunningInPlace
  <2> QED BY <1>1, <1>3, <1>6, <2>2, <2>3, <2>4 DEF StressInPlace, Created, creation, devices
<1>13. CASE UNCHANGED pvars
  BY <1>1, <1>3, <1>6, <1>13 DEF StressInPlace, pvars, vars, sched, devices, places, creation, Created
<1>14. Works => stress_fun1 \/ stress_main
  BY DEF Works, chaser_fun1, chaser_fun2, chaser_fun3, chaser_fun4, chaser_main,
    simple_fun1, simple_fun2, simple_fun3, simple_main, sys_err_fun1, sys_err_main,
    cyclone_fun1, cyclone_main, dagger_fun1, dagger_fun2, dagger_main, Runs
<1> QED BY <1>7, <1>8, <1>9, <1>10, <1>11, <1>12, <1>13, <1>14 DEF ProgramsNext, KernelWorks, Ticks

-----------------------------------------------------------------------------
(* The refusals that end a task *)

LEMMA PanicKept ==
  ASSUME Base, KernelInPlace, ChaserInPlace, SysErrInPlace, SimpleInPlace, NobodyLocks,
         OnlyNotedPanic, [ProgramsNext]_pvars
  PROVE  OnlyNotedPanic'
PROOF
<1> USE Sizes
<1>1. prog' = prog
  BY DEF ProgramsNext, Works, KernelWorks, Ticks, pvars, mains
<1>2. ASSUME \A t \in Tcbs : at'[t] = "panic" =>
               \/ at[t] = "panic"
               \/ prog = "simple_mutex" /\ t \in {2, 3}
               \/ prog = "stress" /\ t - 1 > NumDevices
      PROVE  OnlyNotedPanic'
  BY <1>1, <1>2 DEF OnlyNotedPanic
<1>3. at \in [Tcbs \cup {NULL} -> Labels] /\ ProgramsTypeOK
  BY DEF Base, LocalsInPlace, ProgramsTypeOK, Labels
<1>4. ASSUME NEW n \in 1 .. IDLE_PRIO - 1, starts(n) PROVE OnlyNotedPanic'
  <2>1. \A t \in Tcbs : at'[t] \in {at[t], "loop"}
    BY <1>3, <1>4, StartsLocals
  <2> QED BY <1>2, <2>1
<1>5. at' = at => OnlyNotedPanic'
  BY <1>2
<1>6. ASSUME NEW from, NEW to, Goes(from, to), cur_tcb \in Tcbs
      PROVE  at'[cur_tcb] = to /\ \A t \in Tcbs : t # cur_tcb => at'[t] = at[t]
  BY <1>3, <1>6 DEF Goes
<1>7. CASE chaser_fun1 \/ chaser_fun2 \/ chaser_fun3 \/ chaser_fun4
  <2>1. cur_tcb \in 1 .. 4 /\ prog = "mutex_chaser"
    BY <1>7 DEF chaser_fun1, chaser_fun2, chaser_fun3, chaser_fun4, Runs
  <2>2. \E from, to : Goes(from, to)
    BY <1>7 DEF chaser_fun1, chaser_fun2, chaser_fun3, chaser_fun4, locks, reads, writes, unlocks,
      waits, finishes
  <2>3. \A t \in Tcbs : t # cur_tcb => at'[t] = at[t]
    BY <1>6, <2>1, <2>2
  <2>4. at'[cur_tcb] # "panic"
    BY <1>1, <2>1, ChaserKept DEF ChaserInPlace, Inside
  <2> QED BY <1>2, <2>3, <2>4
<1>8. CASE chaser_main
  BY <1>4, <1>5, <1>8 DEF chaser_main, locals
<1>9. CASE sys_err_fun1
  <2>1. prog = "sys_err" /\ at'[1] # "panic"
    BY <1>1, <1>9, SysErrKept DEF SysErrInPlace, sys_err_fun1, Runs
  <2>2. \A t \in Tcbs : t # 1 => at'[t] = at[t]
    BY <1>3, <1>9 DEF sys_err_fun1
  <2> QED BY <1>2, <2>1, <2>2
<1>10. CASE sys_err_main
  BY <1>4, <1>5, <1>10 DEF sys_err_main
<1>11. CASE simple_fun1 \/ simple_fun2 \/ simple_fun3 \/ simple_main
  <2>1. prog = "simple_mutex"
    BY <1>11 DEF simple_fun1, simple_fun2, simple_fun3, simple_main, Runs
  <2> QED BY <1>2, <2>1, SimpleKept
<1>12. CASE stress_fun1
  <2>1. PICK t \in 1 .. NUM_TASK - 1 :
          /\ Runs("stress", t)
          /\ Goes("loop", "wait") \/ waits(t - 1)
    BY <1>12 DEF stress_fun1
  <2>2. prog = "stress" /\ cur_tcb = t /\ t - 1 \in Nat /\ t \in Tcbs
    BY <2>1 DEF Runs, Tcbs
  <2>3. CASE Goes("loop", "wait")
    BY <1>2, <1>6, <2>2, <2>3
  <2>4. CASE waits(t - 1)
    BY <1>2, <2>2, <2>4, WaitHeldNone DEF KernelInPlace
  <2> QED BY <2>1, <2>3, <2>4
<1>13. CASE stress_main \/ cyclone_main \/ dagger_main \/ simple_main
  BY <1>4, <1>13 DEF stress_main, cyclone_main, dagger_main, simple_main
<1>14. CASE cyclone_fun1
  <2>1. cur_tcb = 1 /\ 1 \in Tcbs
    BY <1>14 DEF cyclone_fun1, Runs
  <2>2. \/ \E from, to \in {"ends", "sleep", "create"} : Goes(from, to)
        \/ Goes("loop", "ends") \/ Goes("loop", "sleep")
        \/ at' = [at EXCEPT ![1] = "loop"] \/ at' = [at EXCEPT ![1] = "never"]
    BY <1>14 DEF cyclone_fun1
  <2>3. at'[1] # "panic" /\ \A t \in Tcbs : t # 1 => at'[t] = at[t]
    BY <1>3, <1>6, <2>1, <2>2
  <2> QED BY <1>2, <2>3
<1>15. CASE dagger_fun1 \/ dagger_fun2
  <2>1. PICK d \in {0, 1} : Goes("loop", "wait") \/ waits(d)
    BY <1>15 DEF dagger_fun1, dagger_fun2, prints
  <2>2. prog = "dagger" /\ cur_tcb \in Tcbs
    BY <1>15 DEF dagger_fun1, dagger_fun2, Runs
  <2>3. CASE Goes("loop", "wait")
    BY <1>2, <1>6, <2>2, <2>3
  <2>4. CASE waits(d)
    BY <1>2, <2>2, <2>4, WaitHeldNone DEF KernelInPlace
  <2> QED BY <2>1, <2>3, <2>4
<1>16. CASE KernelWorks \/ Ticks \/ UNCHANGED pvars
  BY <1>5, <1>16 DEF KernelWorks, Ticks, pvars, locals
<1> QED
  BY <1>7, <1>8, <1>9, <1>10, <1>11, <1>12, <1>13, <1>14, <1>15, <1>16 DEF ProgramsNext, Works

-----------------------------------------------------------------------------
(* The order of the operations of mutex_chaser                               *)

\* The device that each task of mutex_chaser waits for, and its period in ticks.
DeviceOf(t) == CASE t = 1 -> 3 [] t = 2 -> 0 [] t = 3 -> 1 [] OTHER -> 2
Period(t) == Freq[DeviceOf(t)]

\* The task has finished the round it was signalled for.
Rested(t) == at[t] = "wait" \/ (at[t] = "loop" /\ (pc[t] = "checked" \/ Asleep(t)))

\* Who runs before whom while no tick comes but to the idle task: each signal of
\* a device finds its task asleep.
TurnsInPlace ==
  /\ num_tasks = 4
  /\ pc[IDLE_PRIO] # "nosave" => \A p \in Prios : run_list[p] # NULL => cur_tcb <= p
  /\ \A t \in 1 .. 4 :
       /\ at[t] # "start"
       /\ Asleep(t) => at[t] = "loop" /\ pc[t] = "dev_wait"
       /\ \A d \in DevQueues : \A j \in DOMAIN dev_queue[d] : dev_queue[d][j] = t => d = DeviceOf(t)
       /\ pc[t] = "checked" => at[t] = "loop" /\ t = cur_tcb /\ arg[t] = DeviceOf(t)
       /\ at[t] \in Inside \cup {"wait"} => t = cur_tcb /\ pc[t] = "user"

Cap(x) == IF x < NumMutexes THEN x ELSE NumMutexes

\* At tick n after the creation of the tasks, t has been signalled k times.
InRound(t, n, k) ==
  /\ n = k * Period(t) + Period(t) - left[DeviceOf(t)]
  /\ i[t] = Cap(IF Rested(t) THEN k + 2 ELSE k + 1)

\* A task does its round before the next tick, and after the tasks before it.
RoundsInPlace ==
  /\ \A t \in 1 .. 4 :
       /\ left[DeviceOf(t)] \in 1 .. Period(t)
       /\ ~Rested(t) => left[DeviceOf(t)] = Period(t)
       /\ \A s \in 1 .. t : Rested(t) /\ left[DeviceOf(t)] = Period(t) => Rested(s)
  /\ \E n \in Nat : \A t \in 1 .. 4 : \E k \in Nat : InRound(t, n, k)

\* A number after the operations of the first q tasks.
Made(q) == CASE q = 0 -> 2 [] q = 1 -> 5 [] q = 2 -> 55 [] q = 3 -> 48 [] OTHER -> 624

NumbersInPlace ==
  /\ failed \subseteq {0}
  /\ mem[0] = 2
  /\ \A m \in Mutexes \ {0} : \E q \in 0 .. 4 : Passed(m) = 1 .. q /\ mem[m] = Made(q)

OrderInPlace ==
  prog = "mutex_chaser" =>
    /\ ~Created => failed = {} /\ \A m \in Mutexes : mem[m] = 2
    /\ (Created /\ ~late) => TurnsInPlace /\ RoundsInPlace /\ NumbersInPlace

\* Of two devices the one with the shorter period is never signalled less often;
\* and more often, when it has been signalled just now and the other has not.
LEMMA Rates ==
  ASSUME NEW F \in Nat \ {0}, NEW G \in Nat \ {0}, F <= G, NEW a \in Nat, NEW b \in Nat,
         NEW l \in 1 .. F, NEW h \in 1 .. G, a * F + F - l = b * G + G - h
  PROVE  b <= a /\ (l = F /\ h # G => b < a)
PROOF
<1>1. a * F \in Nat /\ b * F \in Nat /\ b * G \in Nat /\ a * G \in Nat
  OBVIOUS
<1>2. b * F <= b * G /\ a * F <= a * G
  OBVIOUS
<1>3. b <= a
  <2> SUFFICES ASSUME a + 1 <= b PROVE FALSE
    OBVIOUS
  <2>1. (a + 1) * F <= b * F
    OBVIOUS
  <2>2. (a + 1) * F = a * F + F
    OBVIOUS
  <2> QED BY <1>1, <1>2, <2>1, <2>2
<1>4. ASSUME l = F, h # G PROVE b < a
  <2>1. a * F = b * G + G - h
    BY <1>1, <1>4
  <2>2. a * F > b * G
    BY <1>1, <1>4, <2>1
  <2> SUFFICES ASSUME a <= b PROVE FALSE
    OBVIOUS
  <2>3. a * G <= b * G
    OBVIOUS
  <2> QED BY <1>1, <1>2, <2>2, <2>3
<1> QED BY <1>3, <1>4

LEMMA Periods ==
  /\ \A t \in 1 .. 4 : DeviceOf(t) \in Devices /\ DeviceOf(t) \in DevQueues /\ Period(t) \in Nat \ {0}
  /\ \A s, t \in 1 .. 4 : s <= t => Period(s) <= Period(t)
PROOF
<1>1. {0, 1, 2, 3} \subseteq Devices /\ {0, 1, 2, 3} \subseteq DevQueues
  BY Sizes
<1>2. \A t \in 1 .. 4 : DeviceOf(t) \in {0, 1, 2, 3}
  BY DEF DeviceOf
<1>3. Freq[0] \in Nat \ {0} /\ Freq[1] \in Nat \ {0} /\ Freq[2] \in Nat \ {0} /\ Freq[3] \in Nat \ {0}
  BY <1>1, KernelAssumption
<1>4. /\ Period(1) = Freq[3] /\ Period(2) = Freq[0] /\ Period(3) = Freq[1] /\ Period(4) = Freq[2]
  BY DEF Period, DeviceOf
<1>5. \A s, t \in 1 .. 4 : s <= t => Period(s) <= Period(t)
  BY <1>3, <1>4, RatesAssumption
<1>6. \A t \in 1 .. 4 : Period(t) \in Nat \ {0}
  BY <1>3, <1>4
<1> QED BY <1>1, <1>2, <1>5, <1>6

\* What a step of a task of mutex_chaser does to its place and to what the order
\* depends on.
LEMMA ChaserStep ==
  ASSUME Base, InPlace, ChaserInPlace, prog = "mutex_chaser", prog' = prog, cur_tcb \in 1 .. 4,
         pc[cur_tcb] = "user",
         \/ locks \/ reads \/ writes(Apply(cur_tcb, reg[cur_tcb])) \/ unlocks
         \/ waits(DeviceOf(cur_tcb)) \/ finishes
  PROVE  /\ UNCHANGED <<sched, devices, creation>>
         /\ \A t \in 1 .. 4 : t # cur_tcb => at'[t] = at[t] /\ i'[t] = i[t]
         /\ \/ /\ UNCHANGED <<i, mem, pc>>
               /\ \/ at[cur_tcb] = "loop" /\ at'[cur_tcb] = "locked"
                  \/ at[cur_tcb] = "locked" /\ at'[cur_tcb] = "read"
                  \/ at[cur_tcb] = "loop" /\ at'[cur_tcb] = "wait" /\ i[cur_tcb] = NumMutexes
            \/ /\ at[cur_tcb] = "read" /\ at'[cur_tcb] = "written" /\ UNCHANGED <<i, pc>>
               /\ i[cur_tcb] \in Mutexes
               /\ mem' = [mem EXCEPT ![i[cur_tcb]] = Apply(cur_tcb, @)]
            \/ /\ at[cur_tcb] = "written" /\ at'[cur_tcb] = "wait" /\ UNCHANGED <<mem, pc>>
               /\ i[cur_tcb] \in Mutexes /\ i'[cur_tcb] = i[cur_tcb] + 1
            \/ /\ at[cur_tcb] = "wait" /\ at'[cur_tcb] = "loop" /\ UNCHANGED <<i, mem>>
               /\ pc' = [pc EXCEPT ![cur_tcb] = "checked"]
               /\ arg' = [arg EXCEPT ![cur_tcb] = DeviceOf(cur_tcb)]
PROOF
<1> USE Sizes
<1> DEFINE c == cur_tcb
<1>1. /\ at \in [Tcbs \cup {NULL} -> Labels] /\ i \in [Tcbs \cup {NULL} -> 0 .. NumMutexes + 8]
      /\ mem \in [Mutexes -> Int] /\ ProgramsTypeOK
  BY ScriptLength DEF Base, LocalsInPlace, ProgramsTypeOK, Labels
<1>2. /\ c \in Tcbs /\ c \in Tcbs \cup {NULL} /\ DeviceOf(c) \in Nat /\ DeviceOf(c) \in 0 .. 3
      /\ i[c] \in 0 .. NumMutexes
  BY DEF Base, LocalsInPlace, DeviceOf
<1>3. at'[c] # "panic"
  <2>1. ChaserInPlace'
    BY <1>2, ChaserTask
  <2> QED BY <2>1 DEF ChaserInPlace, Inside
<1>4. Own => UNCHANGED <<sched, devices, creation, pc>>
  BY DEF Own, vars, places
<1>5. ASSUME NEW from, NEW to \in Labels, Goes(from, to)
      PROVE  at[c] = from /\ at'[c] = to /\ \A t \in 1 .. 4 : t # c => at'[t] = at[t]
  BY <1>1, <1>2, <1>5, GoesType
<1>6. ASSUME NEW there \in Labels, NEW r, Goes(at[c], Or(r, there)) PROVE r = ok /\ Or(r, there) = there
  BY <1>1, <1>2, <1>3, <1>6 DEF Goes, Or
<1>7. {"locked", "read", "written", "wait", "loop", "panic"} \subseteq Labels
  BY DEF Labels
<1>8. ASSUME at[c] \in Inside PROVE i[c] \in Mutexes /\ (at[c] = "read" => reg[c] = mem[i[c]])
  <2>1. i[c] < NumMutexes
    BY <1>8 DEF Base, LocalsInPlace
  <2>2. i[c] \in Mutexes
    BY <1>2, <2>1 DEF Mutexes
  <2> QED BY <1>8, <2>2 DEF ChaserInPlace
<1>9. CASE locks
  <2>1. PICK r \in Errors \cup {ok} : Goes("loop", Or(r, "locked")) /\ lock_stub(i[c], r)
    BY <1>9 DEF locks
  <2>2. at[c] = "loop"
    BY <2>1 DEF Goes
  <2>3. r = ok /\ Goes("loop", "locked")
    BY <1>6, <1>7, <2>1, <2>2
  <2>4. at'[c] = "locked" /\ \A t \in 1 .. 4 : t # c => at'[t] = at[t]
    BY <1>5, <1>7, <2>3
  <2>5. UNCHANGED <<sched, devices, creation, pc>>
    BY <1>2, <2>1, <2>3, LockCall
  <2>6. UNCHANGED <<i, mem>>
    BY <1>9 DEF locks
  <2> QED BY <2>2, <2>4, <2>5, <2>6
<1>10. CASE reads
  <2>1. Goes("locked", "read") /\ UNCHANGED <<i, mem>> /\ UNCHANGED <<sched, devices, creation, pc>>
    BY <1>4, <1>10 DEF reads
  <2> QED BY <1>5, <1>7, <2>1
<1>11. CASE writes(Apply(c, reg[c]))
  <2>1. /\ Goes("read", "written") /\ mem' = [mem EXCEPT ![i[c]] = Apply(c, reg[c])] /\ i' = i
        /\ UNCHANGED <<sched, devices, creation, pc>>
    BY <1>4, <1>11 DEF writes, store
  <2>2. at[c] = "read" /\ at'[c] = "written" /\ \A t \in 1 .. 4 : t # c => at'[t] = at[t]
    BY <1>5, <1>7, <2>1
  <2>3. i[c] \in Mutexes /\ reg[c] = mem[i[c]]
    BY <1>8, <2>2 DEF Inside
  <2> QED BY <2>1, <2>2, <2>3
<1>12. CASE unlocks
  <2>1. PICK r \in Errors \cup {ok} : Goes("written", Or(r, "wait")) /\ unlock_stub(i[c], r)
    BY <1>12 DEF unlocks
  <2>2. at[c] = "written"
    BY <2>1 DEF Goes
  <2>3. r = ok /\ Goes("written", "wait")
    BY <1>6, <1>7, <2>1, <2>2
  <2>4. at'[c] = "wait" /\ \A t \in 1 .. 4 : t # c => at'[t] = at[t]
    BY <1>5, <1>7, <2>3
  <2>5. UNCHANGED <<sched, devices, creation, pc>>
    BY <1>2, <2>1, <2>3, UnlockCall
  <2>6. mem' = mem /\ i' = [i EXCEPT ![c] = i[c] + 1]
    BY <1>12 DEF unlocks, Counts
  <2>7. i'[c] = i[c] + 1 /\ \A t \in 1 .. 4 : t # c => i'[t] = i[t]
    BY <1>1, <1>2, <2>6
  <2>8. i[c] \in Mutexes
    BY <1>8, <2>2 DEF Inside
  <2> QED BY <2>2, <2>4, <2>5, <2>6, <2>7, <2>8
<1>13. CASE waits(DeviceOf(c))
  <2>1. PICK r \in Errors \cup {ok} : Goes("wait", Or(r, "loop")) /\ wait_stub(DeviceOf(c), r)
    BY <1>13 DEF waits
  <2>2. at[c] = "wait"
    BY <2>1 DEF Goes
  <2>3. r = ok /\ Goes("wait", "loop")
    BY <1>6, <1>7, <2>1, <2>2
  <2>4. at'[c] = "loop" /\ \A t \in 1 .. 4 : t # c => at'[t] = at[t]
    BY <1>5, <1>7, <2>3
  <2>5. /\ UNCHANGED <<sched, devices, creation>>
        /\ pc' = [pc EXCEPT ![c] = "checked"] /\ arg' = [arg EXCEPT ![c] = DeviceOf(c)]
    BY <1>2, <2>1, <2>3, WaitCall
  <2>6. UNCHANGED <<i, mem>>
    BY <1>13 DEF waits
  <2> QED BY <2>2, <2>4, <2>5, <2>6
<1>14. CASE finishes
  <2>1. /\ Goes("loop", "wait") /\ UNCHANGED <<i, mem>> /\ UNCHANGED <<sched, devices, creation, pc>>
        /\ i[c] = NumMutexes
    BY <1>4, <1>14 DEF finishes
  <2> QED BY <1>5, <1>7, <2>1
<1> QED BY <1>9, <1>10, <1>11, <1>12, <1>13, <1>14

\* The tasks before the one that runs have done their rounds.
LEMMA EarlierRested ==
  ASSUME InPlace, TurnsInPlace, cur_tcb \in 1 .. 4
  PROVE  ~Asleep(cur_tcb) /\ pc[IDLE_PRIO] # "nosave" /\ \A s \in 1 .. 4 : s < cur_tcb => Rested(s)
PROOF
<1> USE Sizes
<1>1. ~Asleep(cur_tcb)
  BY DEF InPlace, SleepersInPlace, Asleep
<1>2. pc[IDLE_PRIO] # "nosave"
  BY DEF InPlace, RunningInPlace
<1>3. ASSUME NEW s \in 1 .. 4, s < cur_tcb PROVE Rested(s)
  <2>1. s \in Live /\ s \in Prios /\ s # NULL /\ s # cur_tcb
    BY <1>3 DEF TurnsInPlace, Live, Prios, NULL
  <2>2. ~(cur_tcb <= s)
    BY <1>3
  <2>3. run_list[s] = NULL
    BY <1>2, <2>1, <2>2 DEF TurnsInPlace
  <2>4. Asleep(s)
    BY <2>1, <2>3 DEF InPlace, NobodyMissing
  <2> QED BY <2>4 DEF TurnsInPlace, Rested
<1> QED BY <1>1, <1>2, <1>3

\* A task in its round is ahead of those after it, and behind those before it.
LEMMA InTurn ==
  ASSUME RoundsInPlace, NEW c \in 1 .. 4, ~Rested(c), \A s \in 1 .. 4 : s < c => Rested(s)
  PROVE  /\ i[c] \in 1 .. NumMutexes
         /\ \A s \in 1 .. 4 : s < c => i[s] \in 0 .. NumMutexes /\ i[s] >= Cap(i[c] + 1)
         /\ \A t \in 1 .. 4 : t > c => i[t] \in 0 .. NumMutexes /\ i[t] <= i[c]
PROOF
<1> USE Sizes
<1> DEFINE l(t) == left[DeviceOf(t)]
<1>1. PICK n \in Nat : \A t \in 1 .. 4 : \E k \in Nat : InRound(t, n, k)
  BY DEF RoundsInPlace
<1>2. PICK a \in Nat : InRound(c, n, a)
  BY <1>1
<1>3. /\ n = a * Period(c) + Period(c) - l(c) /\ i[c] = Cap(a + 1) /\ l(c) = Period(c)
      /\ l(c) \in 1 .. Period(c) /\ Period(c) \in Nat \ {0}
  BY <1>2, Periods DEF InRound, RoundsInPlace
<1>4. i[c] \in 1 .. NumMutexes
  BY <1>3 DEF Cap
<1>5. ASSUME NEW s \in 1 .. 4, s < c PROVE i[s] \in 0 .. NumMutexes /\ i[s] >= Cap(i[c] + 1)
  <2>1. PICK b \in Nat : InRound(s, n, b)
    BY <1>1
  <2>2. n = b * Period(s) + Period(s) - l(s) /\ i[s] = Cap(b + 2)
    BY <1>5, <2>1 DEF InRound
  <2>3. Period(s) \in Nat \ {0} /\ Period(s) <= Period(c) /\ l(s) \in 1 .. Period(s)
    BY <1>5, Periods DEF RoundsInPlace
  <2>4. a <= b
    <3> HIDE DEF l
    <3>1. b * Period(s) + Period(s) - l(s) = a * Period(c) + Period(c) - l(c)
      BY <1>3, <2>2
    <3> QED BY <1>3, <2>3, <3>1, Rates
  <2>5. i[s] >= Cap(a + 2) /\ i[s] \in 0 .. NumMutexes
    BY <2>2, <2>4 DEF Cap
  <2>6. Cap(i[c] + 1) = Cap(a + 2)
    BY <1>3 DEF Cap
  <2> QED BY <2>5, <2>6
<1>6. ASSUME NEW t \in 1 .. 4, t > c PROVE i[t] \in 0 .. NumMutexes /\ i[t] <= i[c]
  <2>1. PICK b \in Nat : InRound(t, n, b)
    BY <1>1
  <2>2. n = b * Period(t) + Period(t) - l(t) /\ i[t] = Cap(IF Rested(t) THEN b + 2 ELSE b + 1)
    BY <2>1 DEF InRound
  <2>3. Period(t) \in Nat \ {0} /\ Period(c) <= Period(t) /\ l(t) \in 1 .. Period(t)
    BY <1>6, Periods DEF RoundsInPlace
  <2>4. b <= a /\ (l(t) # Period(t) => b < a)
    <3> HIDE DEF l
    <3>1. a * Period(c) + Period(c) - l(c) = b * Period(t) + Period(t) - l(t)
      BY <1>3, <2>2
    <3> DEFINE F == Period(c)
               G == Period(t)
               f == l(c)
               g == l(t)
    <3>2. /\ F \in Nat \ {0} /\ G \in Nat \ {0} /\ F <= G /\ f \in 1 .. F /\ g \in 1 .. G
          /\ a * F + F - f = b * G + G - g
      BY <1>3, <2>3, <3>1
    <3> HIDE DEF F, G, f, g
    <3>3. b <= a /\ (f = F /\ g # G => b < a)
      BY <3>2, Rates
    <3> QED BY <1>3, <3>3 DEF F, G, f, g
  <2>5. Rested(t) => l(t) # Period(t)
    BY <1>6 DEF RoundsInPlace
  <2>6. CASE Rested(t)
    <3>1. i[t] = Cap(b + 2) /\ b + 1 <= a
      BY <2>2, <2>4, <2>5, <2>6
    <3> QED BY <1>3, <3>1 DEF Cap
  <2>7. CASE ~Rested(t)
    <3>1. i[t] = Cap(b + 1) /\ b <= a
      BY <2>2, <2>4, <2>7
    <3> QED BY <1>3, <3>1 DEF Cap
  <2> QED BY <2>6, <2>7
<1> QED BY <1>4, <1>5, <1>6

\* A step but a tick leaves the rounds as they are, or one task has done its own.
LEMMA RoundsKept ==
  ASSUME RoundsInPlace, NEW c \in 1 .. 4, left' = left,
         \A t \in 1 .. 4 : t # c => i'[t] = i[t] /\ (Rested(t)' <=> Rested(t)),
         \/ i'[c] = i[c] /\ (Rested(c)' <=> Rested(c))
         \/ /\ ~Rested(c) /\ Rested(c)'
            /\ \A k \in Nat : i[c] = Cap(k + 1) => i'[c] = Cap(k + 2)
            /\ \A s \in 1 .. 4 : s < c => Rested(s)
  PROVE  RoundsInPlace'
PROOF
<1>1. \A t \in 1 .. 4 : Rested(t) => Rested(t)'
  OBVIOUS
<1>2. PICK n \in Nat : \A t \in 1 .. 4 : \E k \in Nat : InRound(t, n, k)
  BY DEF RoundsInPlace
<1>3. ASSUME NEW t \in 1 .. 4 PROVE \E k \in Nat : InRound(t, n, k)'
  <2>1. PICK k \in Nat : InRound(t, n, k)
    BY <1>2
  <2>2. i'[t] = Cap(IF Rested(t)' THEN k + 2 ELSE k + 1)
    <3>1. CASE i'[t] = i[t] /\ (Rested(t)' <=> Rested(t))
      <4>1. CASE Rested(t)
        BY <2>1, <3>1, <4>1 DEF InRound
      <4>2. CASE ~Rested(t)
        BY <2>1, <3>1, <4>2 DEF InRound
      <4> QED BY <4>1, <4>2
    <3>2. CASE t = c /\ ~Rested(c) /\ Rested(c)' /\ \A x \in Nat : i[c] = Cap(x + 1) => i'[c] = Cap(x + 2)
      <4>1. i[c] = Cap(k + 1)
        BY <2>1, <3>2 DEF InRound
      <4> QED BY <3>2, <4>1
    <3> QED BY <3>1, <3>2
  <2> QED BY <2>1, <2>2 DEF InRound, Period
<1>4. ASSUME NEW t \in 1 .. 4
      PROVE  /\ left'[DeviceOf(t)] \in 1 .. Period(t)'
             /\ ~Rested(t)' => left'[DeviceOf(t)] = Period(t)'
             /\ \A s \in 1 .. t : Rested(t)' /\ left'[DeviceOf(t)] = Period(t)' => Rested(s)'
  <2>1. /\ left[DeviceOf(t)] \in 1 .. Period(t)
        /\ ~Rested(t) => left[DeviceOf(t)] = Period(t)
        /\ \A s \in 1 .. t : Rested(t) /\ left[DeviceOf(t)] = Period(t) => Rested(s)
    BY DEF RoundsInPlace
  <2>2. \A s \in 1 .. t : s \in 1 .. 4 /\ (s = t \/ s < t)
    OBVIOUS
  <2>3. \A s \in 1 .. t : Rested(t)' /\ left[DeviceOf(t)] = Period(t) => Rested(s)'
    BY <1>1, <2>1, <2>2
  <2> QED BY <1>1, <2>1, <2>3 DEF Period
<1> QED BY <1>3, <1>4 DEF RoundsInPlace

\* The next operation of a task on its number is the one whose turn it is.
LEMMA TaskNumbers ==
  ASSUME NumbersInPlace, RoundsInPlace, TurnsInPlace, NEW c \in 1 .. 4, c = cur_tcb, ~Rested(c),
         \A s \in 1 .. 4 : s < c => Rested(s)
  PROVE  /\ \A m \in Mutexes \ {0} : i[c] = m /\ at[c] = "read" => Passed(m) = 1 .. c - 1 /\ mem[m] = Made(c - 1)
         /\ c = 4 /\ i[c] = NumMutexes => \A m \in Mutexes \ {0} : Passed(m) = 1 .. 4 /\ mem[m] = Made(4)
PROOF
<1> USE Sizes
<1>1. /\ i[c] \in 1 .. NumMutexes
      /\ \A s \in 1 .. 4 : s < c => i[s] \in 0 .. NumMutexes /\ i[s] >= Cap(i[c] + 1)
      /\ \A t \in 1 .. 4 : t > c => i[t] \in 0 .. NumMutexes /\ i[t] <= i[c]
  BY InTurn
<1>2. \A t \in 1 .. 4 : t # c => at[t] # "written"
  BY DEF TurnsInPlace, Inside
<1>3. \A p, q \in 0 .. 4 : 1 .. p = 1 .. q => p = q
  <2> SUFFICES ASSUME NEW p \in 0 .. 4, NEW q \in 0 .. 4, 1 .. p = 1 .. q, p < q PROVE FALSE
    OBVIOUS
  <2>1. q \in 1 .. q /\ q \notin 1 .. p
    OBVIOUS
  <2> QED BY <2>1
<1>4. ASSUME NEW m \in Mutexes \ {0}, i[c] = m, at[c] = "read"
      PROVE  Passed(m) = 1 .. c - 1 /\ mem[m] = Made(c - 1)
  <2>1. m \in Nat /\ m + 1 <= NumMutexes /\ Cap(m + 1) = m + 1
    BY DEF Mutexes, Cap
  <2>2. \A t \in 1 .. 4 : (i[t] > m \/ (i[t] = m /\ at[t] = "written")) <=> t < c
    <3> TAKE t \in 1 .. 4
    <3>1. CASE t < c
      BY <1>1, <1>4, <2>1, <3>1
    <3>2. CASE t = c
      BY <1>4, <2>1, <3>2
    <3>3. CASE t > c
      <4>1. ~(i[t] > m) /\ at[t] # "written"
        BY <1>1, <1>2, <1>4, <2>1, <3>3
      <4> QED BY <3>3, <4>1
    <3> QED BY <3>1, <3>2, <3>3
  <2>3. Passed(m) = {t \in 1 .. 4 : t < c}
    BY <2>2 DEF Passed
  <2>4. {t \in 1 .. 4 : t < c} = 1 .. c - 1
    OBVIOUS
  <2>5. PICK q \in 0 .. 4 : Passed(m) = 1 .. q /\ mem[m] = Made(q)
    BY DEF NumbersInPlace
  <2>6. q = c - 1
    <3>1. 1 .. q = 1 .. c - 1
      BY <2>3, <2>4, <2>5, Zenon
    <3>2. c - 1 \in 0 .. 4
      OBVIOUS
    <3> QED BY <1>3, <3>1, <3>2, Zenon
  <2> QED BY <2>5, <2>6
<1>5. ASSUME c = 4, i[c] = NumMutexes, NEW m \in Mutexes \ {0}
      PROVE  Passed(m) = 1 .. 4 /\ mem[m] = Made(4)
  <2>1. m \in Nat /\ m < NumMutexes /\ Cap(NumMutexes + 1) = NumMutexes
    BY DEF Mutexes, Cap
  <2>2. \A t \in 1 .. 4 : i[t] > m
    <3> TAKE t \in 1 .. 4
    <3>1. t = 4 \/ t < 4
      OBVIOUS
    <3> QED BY <1>1, <1>5, <2>1, <3>1
  <2>3. Passed(m) = 1 .. 4
    BY <2>2 DEF Passed
  <2>4. PICK q \in 0 .. 4 : Passed(m) = 1 .. q /\ mem[m] = Made(q)
    BY DEF NumbersInPlace
  <2>5. q = 4
    <3>1. 1 .. q = 1 .. 4 /\ 4 \in 0 .. 4
      BY <2>3, <2>4
    <3> QED BY <1>3, <3>1, Zenon
  <2> QED BY <2>3, <2>4, <2>5
<1> QED BY <1>4, <1>5

\* The operation of task c makes the next of these numbers.
LEMMA MadeNext == \A c \in 1 .. 4 : Apply(c, Made(c - 1)) = Made(c)
PROOF
  BY DEF Apply, Made

\* A number that no operation is done on stays as it is, where nobody's progress
\* with it changes.
LEMMA NumberKept ==
  ASSUME NumbersInPlace, NEW m \in Mutexes \ {0}, mem'[m] = mem[m],
         \A t \in 1 .. 4 : (i'[t] > m \/ (i'[t] = m /\ at'[t] = "written"))
                             <=> (i[t] > m \/ (i[t] = m /\ at[t] = "written"))
  PROVE  \E q \in 0 .. 4 : Passed(m)' = 1 .. q /\ mem'[m] = Made(q)
PROOF
<1>1. Passed(m)' = Passed(m)
  BY DEF Passed
<1> QED BY <1>1 DEF NumbersInPlace

\* Every step of a task keeps the order: it works on a number after the tasks before it,
\* and rests after them.
LEMMA TaskInOrder ==
  ASSUME Base, InPlace, ChaserInPlace, prog = "mutex_chaser", prog' = prog, cur_tcb \in 1 .. 4,
         pc[cur_tcb] = "user", TurnsInPlace, RoundsInPlace, NumbersInPlace,
         \/ locks \/ reads \/ writes(Apply(cur_tcb, reg[cur_tcb])) \/ unlocks
         \/ waits(DeviceOf(cur_tcb)) \/ finishes,
         \/ failed' = failed
         \/ /\ at[cur_tcb] = "loop" /\ at'[cur_tcb] = "wait" /\ cur_tcb = 4
            /\ failed' = {m \in Mutexes : mem[m] # result_val}
  PROVE  TurnsInPlace' /\ RoundsInPlace' /\ NumbersInPlace'
PROOF
<1> USE Sizes
<1>a. PICK c \in 1 .. 4 : c = cur_tcb
  OBVIOUS
<1>0. c = cur_tcb /\ c \in Tcbs /\ c # IDLE_PRIO
  BY <1>a
<1>1. /\ UNCHANGED <<sched, devices, creation>>
      /\ \A t \in 1 .. 4 : t # c => at'[t] = at[t] /\ i'[t] = i[t]
      /\ \/ /\ UNCHANGED <<i, mem, pc>>
            /\ \/ at[c] = "loop" /\ at'[c] = "locked"
               \/ at[c] = "locked" /\ at'[c] = "read"
               \/ at[c] = "loop" /\ at'[c] = "wait" /\ i[c] = NumMutexes
         \/ /\ at[c] = "read" /\ at'[c] = "written" /\ UNCHANGED <<i, pc>>
            /\ i[c] \in Mutexes
            /\ mem' = [mem EXCEPT ![i[c]] = Apply(c, @)]
         \/ /\ at[c] = "written" /\ at'[c] = "wait" /\ UNCHANGED <<mem, pc>>
            /\ i[c] \in Mutexes /\ i'[c] = i[c] + 1
         \/ /\ at[c] = "wait" /\ at'[c] = "loop" /\ UNCHANGED <<i, mem>>
            /\ pc' = [pc EXCEPT ![c] = "checked"]
            /\ arg' = [arg EXCEPT ![c] = DeviceOf(c)]
  BY <1>a, ChaserStep
<1>2. /\ UNCHANGED <<cur_tcb, run_list, dev_queue, left, num_tasks>>
      /\ \A t \in 1 .. 4 : Asleep(t)' <=> Asleep(t)
  BY <1>1 DEF sched, devices, creation, Asleep
<1>3. ~Asleep(c) /\ pc[IDLE_PRIO] # "nosave" /\ \A s \in 1 .. 4 : s < c => Rested(s)
  BY <1>a, EarlierRested
<1>4. /\ pc \in [Tcbs -> Places] /\ arg \in [Tcbs -> Nat] /\ mem \in [Mutexes -> Int]
      /\ \A t \in 1 .. 4 : i[t] \in 0 .. NumMutexes
  BY DEF Base, LocalsInPlace, TypeOK
<1>5. \/ pc' = pc /\ at'[c] # "loop"
      \/ /\ pc' = [pc EXCEPT ![c] = "checked"] /\ arg' = [arg EXCEPT ![c] = DeviceOf(c)]
         /\ at[c] = "wait" /\ at'[c] = "loop"
  BY <1>1
<1>6. \A t \in Tcbs : t # c => pc'[t] = pc[t]
  BY <1>4, <1>5
<1>7. \/ pc'[c] = "user" /\ at'[c] # "loop"
      \/ pc'[c] = "checked" /\ at'[c] = "loop" /\ arg'[c] = DeviceOf(c)
  BY <1>0, <1>4, <1>5
<1>8. TurnsInPlace'
  <2>1. /\ num_tasks = 4
        /\ \A p \in Prios : run_list[p] # NULL => cur_tcb <= p
    BY <1>3 DEF TurnsInPlace
  <2>2. ASSUME NEW t \in 1 .. 4
        PROVE  /\ at'[t] # "start"
               /\ Asleep(t)' => at'[t] = "loop" /\ pc'[t] = "dev_wait"
               /\ \A d \in DevQueues : \A j \in DOMAIN dev_queue[d] : dev_queue[d][j] = t => d = DeviceOf(t)
               /\ pc'[t] = "checked" => at'[t] = "loop" /\ t = c /\ arg'[t] = DeviceOf(t)
               /\ at'[t] \in Inside \cup {"wait"} => t = c /\ pc'[t] = "user"
    <3>1. /\ at[t] # "start"
          /\ Asleep(t) => at[t] = "loop" /\ pc[t] = "dev_wait"
          /\ \A d \in DevQueues : \A j \in DOMAIN dev_queue[d] : dev_queue[d][j] = t => d = DeviceOf(t)
          /\ pc[t] = "checked" => t = c
          /\ at[t] \in Inside \cup {"wait"} => t = c
      BY <1>0 DEF TurnsInPlace
    <3>2. CASE t # c
      <4>1. at'[t] = at[t] /\ pc'[t] = pc[t]
        BY <1>1, <1>6, <3>2
      <4> QED BY <1>2, <3>1, <3>2, <4>1
    <3>3. CASE t = c
      <4>1. at'[c] # "start" /\ ~Asleep(c)'
        BY <1>1, <1>2, <1>3
      <4>2. /\ pc'[c] = "checked" => at'[c] = "loop" /\ arg'[c] = DeviceOf(c)
            /\ at'[c] \in Inside \cup {"wait"} => pc'[c] = "user"
        BY <1>7 DEF Inside
      <4> QED BY <3>1, <3>3, <4>1, <4>2, Zenon
    <3> QED BY <3>2, <3>3
  <2> QED BY <1>0, <1>2, <2>1, <2>2 DEF TurnsInPlace, DeviceOf
<1>9. Rested(c) <=> at[c] = "wait"
  BY <1>0, <1>3 DEF Rested
<1>10. Rested(c)' <=> at'[c] \in {"wait", "loop"}
  BY <1>2, <1>3, <1>5, <1>7 DEF Rested
<1>11. RoundsInPlace'
  <2>1. \A t \in 1 .. 4 : t # c => i'[t] = i[t] /\ (Rested(t)' <=> Rested(t))
    BY <1>1, <1>2, <1>6 DEF Rested
  <2>2. \/ i'[c] = i[c] /\ (Rested(c)' <=> Rested(c))
        \/ ~Rested(c) /\ Rested(c)' /\ i'[c] = i[c] /\ i[c] = NumMutexes
        \/ ~Rested(c) /\ Rested(c)' /\ i'[c] = i[c] + 1 /\ i[c] \in Mutexes
    BY <1>1, <1>9, <1>10
  <2>3. i'[c] = i[c] /\ i[c] = NumMutexes => \A k \in Nat : i[c] = Cap(k + 1) => i'[c] = Cap(k + 2)
    BY DEF Cap
  <2>4. i'[c] = i[c] + 1 /\ i[c] \in Mutexes => \A k \in Nat : i[c] = Cap(k + 1) => i'[c] = Cap(k + 2)
    BY DEF Cap, Mutexes
  <2> QED BY <1>2, <1>3, <2>1, <2>2, <2>3, <2>4, RoundsKept
<1>12. NumbersInPlace'
  <2>1. failed \subseteq {0} /\ mem[0] = 2
    BY DEF NumbersInPlace
  <2>2. CASE ~(at[c] = "read" /\ at'[c] = "written")
    <3>1. mem' = mem
      BY <1>1, <2>2
    <3>2. ASSUME NEW m \in Mutexes \ {0}, NEW t \in 1 .. 4
          PROVE  (i'[t] > m \/ (i'[t] = m /\ at'[t] = "written"))
                   <=> (i[t] > m \/ (i[t] = m /\ at[t] = "written"))
      <4>1. m \in Nat
        BY DEF Mutexes
      <4>2. CASE t # c
        BY <1>1, <4>2
      <4>3. CASE t = c /\ at[c] = "written" /\ i'[c] = i[c] + 1 /\ at'[c] = "wait"
        BY <1>4, <4>1, <4>3
      <4>4. CASE t = c /\ i' = i /\ at[c] # "written" /\ at'[c] # "written"
        BY <4>4
      <4> QED BY <1>1, <2>2, <4>2, <4>3, <4>4
    <3>3. \A m \in Mutexes \ {0} : \E q \in 0 .. 4 : Passed(m)' = 1 .. q /\ mem'[m] = Made(q)
      BY <3>1, <3>2, NumberKept
    <3>4. failed' \subseteq {0}
      <4>1. CASE failed' = failed
        BY <2>1, <4>1
      <4>2. CASE /\ at[c] = "loop" /\ at'[c] = "wait" /\ c = 4
                 /\ failed' = {m \in Mutexes : mem[m] # result_val}
        <5>1. i[c] = NumMutexes /\ ~Rested(c)
          BY <1>1, <1>9, <4>2
        <5>2. \A m \in Mutexes \ {0} : mem[m] = Made(4)
          BY <1>0, <1>3, <4>2, <5>1, TaskNumbers
        <5>3. Made(4) = 624 /\ result_val = 624
          BY DEF Made, result_val
        <5> QED BY <4>2, <5>2, <5>3
      <4> QED BY <1>0, <4>1, <4>2
    <3> QED BY <2>1, <3>1, <3>3, <3>4 DEF NumbersInPlace, Made
  <2>3. CASE at[c] = "read" /\ at'[c] = "written"
    <3>1. /\ i' = i /\ i[c] \in Mutexes /\ mem' = [mem EXCEPT ![i[c]] = Apply(c, @)] /\ ~Rested(c)
          /\ failed' = failed
      BY <1>0, <1>1, <1>9, <2>3
    <3>2. i[c] \in 1 .. NumMutexes
      BY <1>3, <3>1, InTurn
    <3>3. mem'[0] = 2
      BY <1>4, <2>1, <3>1, <3>2
    <3>4. ASSUME NEW m \in Mutexes \ {0} PROVE \E q \in 0 .. 4 : Passed(m)' = 1 .. q /\ mem'[m] = Made(q)
      <4>1. m \in Nat
        BY DEF Mutexes
      <4>2. CASE i[c] = m
        <5>1. Passed(m) = 1 .. c - 1 /\ mem[m] = Made(c - 1)
          BY <1>0, <1>3, <2>3, <3>1, <4>2, TaskNumbers
        <5>2. mem'[m] = Made(c)
          BY <1>4, <3>1, <4>2, <5>1, MadeNext
        <5>3. \A t \in 1 .. 4 : (i'[t] > m \/ (i'[t] = m /\ at'[t] = "written"))
                <=> (t = c \/ i[t] > m \/ (i[t] = m /\ at[t] = "written"))
          BY <1>1, <2>3, <3>1, <4>2
        <5>4. Passed(m)' = Passed(m) \cup {c}
          BY <5>3 DEF Passed
        <5>5. Passed(m)' = 1 .. c
          BY <5>1, <5>4
        <5> QED BY <5>2, <5>5
      <4>3. CASE i[c] # m
        <5>1. mem'[m] = mem[m]
          BY <1>4, <3>1, <4>3
        <5>2. \A t \in 1 .. 4 : (i'[t] > m \/ (i'[t] = m /\ at'[t] = "written"))
                <=> (i[t] > m \/ (i[t] = m /\ at[t] = "written"))
          BY <1>1, <3>1, <4>3
        <5> QED BY <5>1, <5>2, NumberKept
      <4> QED BY <4>2, <4>3
    <3> QED BY <2>1, <3>1, <3>3, <3>4 DEF NumbersInPlace, Made
  <2> QED BY <2>2, <2>3
<1> QED BY <1>8, <1>11, <1>12

\* main starts the tasks together, asleep nowhere, and each before its first round.
LEMMA StartInOrder ==
  ASSUME Base, InPlace, ChaserInPlace, OrderInPlace, prog = "mutex_chaser", prog' = prog, chaser_main
  PROVE  OrderInPlace'
PROOF
<1> USE Sizes
<1>1. cur_tcb = NULL /\ ~Created
  BY DEF chaser_main, Runs, InPlace, RunningInPlace
<1>2. failed = {} /\ \A m \in Mutexes : mem[m] = 2
  BY <1>1 DEF OrderInPlace
<1>3. failed' = failed /\ mem' = mem
  BY DEF chaser_main, starts
<1>4. CASE num_tasks' = num_tasks
  BY <1>1, <1>2, <1>3, <1>4 DEF OrderInPlace, Created
<1>5. CASE create_stub(ok)
  BY <1>4, <1>5, CreateCall DEF InPlace, creation
<1>6. CASE starts(4) /\ i' = [t \in Tcbs \cup {NULL} |-> 1] /\ task_create_unschedulable
  BY <1>4, <1>6 DEF task_create_unschedulable, creation
<1>7. CASE starts(4) /\ i' = [t \in Tcbs \cup {NULL} |-> 1] /\ CreatePlain(4)
  <2>1. /\ num_tasks' = 4 /\ cur_tcb' = IDLE_PRIO /\ KeptQueuesEmpty /\ ResetDevices
        /\ pc' = [t \in Tcbs |-> IF t = IDLE_PRIO THEN "nosave"
                                 ELSE IF t \in 1 .. 4 \cup {IDLE_PRIO} THEN "launch" ELSE "none"]
    BY <1>7 DEF CreatePlain
  <2>2. pc'[IDLE_PRIO] = "nosave" /\ \A t \in 1 .. 4 : pc'[t] = "launch"
    BY <2>1
  <2>3. \A d \in DevQueues : dev_queue'[d] = <<>>
    BY <2>1 DEF KeptQueuesEmpty, ResetDevices, ResetQueues, DevQueues, Devices
  <2>4. \A t \in 1 .. 4 : ~Asleep(t)' /\ i'[t] = 1 /\ left'[DeviceOf(t)] = Period(t)
    BY <1>7, <2>1, <2>3, EmptySeq DEF Asleep, ResetDevices, Period
  <2>5. \A t \in 1 .. 4 : at'[t] = "loop"
    <3>1. PICK r \in {ok, "ESCHED"} :
            /\ task_create_stub(4, r)
            /\ at' = IF r # ok THEN [at EXCEPT ![NULL] = "end"]
                     ELSE [t \in Tcbs \cup {NULL} |-> IF t \in 1 .. 4 THEN "loop" ELSE at[t]]
      BY <1>7 DEF starts
    <3>2. r = ok
      <4>1. ~task_create_unschedulable
        BY <1>1, <2>1 DEF task_create_unschedulable, creation, Created
      <4> QED BY <3>1, <4>1 DEF task_create_stub
    <3> QED BY <3>1, <3>2
  <2>6. \A t \in 1 .. 4 : ~Rested(t)'
    BY <2>2, <2>4, <2>5 DEF Rested
  <2>7. TurnsInPlace'
    BY <2>1, <2>2, <2>3, <2>4, <2>5, EmptySeq DEF TurnsInPlace, Inside
  <2>8. RoundsInPlace'
    <3>1. \A t \in 1 .. 4 : Period(t) \in Nat \ {0} /\ Period(t)' = Period(t)
      BY Periods DEF Period
    <3>2. ASSUME NEW t \in 1 .. 4 PROVE InRound(t, 0, 0)'
      <4>1. 0 = 0 * Period(t) + Period(t) - Period(t)
        BY <3>1
      <4>2. i'[t] = Cap(0 + 1)
        BY <2>4 DEF Cap
      <4> QED BY <2>4, <2>6, <3>1, <4>1, <4>2 DEF InRound
    <3>3. \A t \in 1 .. 4 : left'[DeviceOf(t)] \in 1 .. Period(t)'
      BY <2>4, <3>1
    <3> QED BY <2>4, <2>6, <3>1, <3>2, <3>3 DEF RoundsInPlace
  <2>9. NumbersInPlace'
    <3>1. ASSUME NEW m \in Mutexes \ {0} PROVE Passed(m)' = 1 .. 0 /\ mem'[m] = Made(0)
      <4>1. \A t \in 1 .. 4 : ~(i'[t] > m) /\ at'[t] # "written"
        BY <2>4, <2>5 DEF Mutexes
      <4>2. Passed(m)' = {}
        BY <4>1 DEF Passed
      <4> QED BY <1>2, <1>3, <4>2 DEF Made
    <3> QED BY <1>2, <1>3, <3>1 DEF NumbersInPlace
  <2> QED BY <2>1, <2>7, <2>8, <2>9 DEF OrderInPlace, Created
<1> QED BY <1>1, <1>5, <1>6, <1>7, StartCall DEF chaser_main

\* The numbers stay in order where the tasks and the numbers stay as they are.
LEMMA NumbersKept ==
  ASSUME NumbersInPlace, UNCHANGED <<at, i, mem, failed>>
  PROVE  NumbersInPlace'
PROOF
<1>1. \A m \in Mutexes \ {0} : Passed(m)' = Passed(m)
  BY DEF Passed
<1> QED BY <1>1 DEF NumbersInPlace, Made

\* The kernel's own steps let nobody run before a task that is more urgent.
LEMMA KernelInOrder ==
  ASSUME InPlace, TurnsInPlace, RoundsInPlace, dev_wait \/ dispatch_nosave \/ KernelExit, at' = at, i' = i
  PROVE  TurnsInPlace' /\ RoundsInPlace'
PROOF
<1> USE Sizes
<1>a. IDLE_PRIO \notin 1 .. 4
  OBVIOUS
<1>1. /\ pc \in [Tcbs -> Places] /\ arg \in [Tcbs -> Nat] /\ TypeOK /\ IDLE_PRIO \notin 1 .. 4
  BY <1>a DEF InPlace, TypeOK
<1>2. /\ num_tasks = 4 /\ Created
      /\ \A t \in 1 .. 4 :
           /\ at[t] # "start"
           /\ Asleep(t) => at[t] = "loop" /\ pc[t] = "dev_wait"
           /\ \A d \in DevQueues : \A j \in DOMAIN dev_queue[d] : dev_queue[d][j] = t => d = DeviceOf(t)
           /\ pc[t] = "checked" => at[t] = "loop" /\ t = cur_tcb /\ arg[t] = DeviceOf(t)
           /\ at[t] \in Inside \cup {"wait"} => t = cur_tcb /\ pc[t] = "user"
  BY DEF TurnsInPlace, Created
<1>3. CASE dev_wait
  <2>0. DevWaitPlain
    BY <1>3, StepsPlain
  <2>1. /\ Switched /\ num_tasks' = num_tasks
    BY <2>0, DevWaitSwitches DEF creation
  <2>2. cur_tcb \in Tcbs /\ pc[cur_tcb] = "checked" /\ pc' = [pc EXCEPT ![cur_tcb] = "dev_wait"] /\ arg' = arg /\ left' = left
    BY <2>0 DEF DevWaitPlain, At
  <2>3. cur_tcb \in 1 .. 4 /\ arg[cur_tcb] \in DevQueues
    BY <1>2, <2>2 DEF InPlace, RunningInPlace, Known, Live
  <2>4. PICK c \in 1 .. 4 : c = cur_tcb
    BY <2>3
  <2>5. /\ \A d \in DevQueues : \A j \in DOMAIN dev_queue'[d] :
             \/ \E l \in DOMAIN dev_queue[d] : dev_queue[d][l] = dev_queue'[d][j]
             \/ d = arg[c] /\ dev_queue'[d][j] = c
        /\ \A t : Asleep(t)' <=> Asleep(t) \/ t = c
    BY <1>1, <2>0, <2>3, <2>4, QueueGrows
  <2>6. /\ at[c] = "loop" /\ arg[c] = DeviceOf(c) /\ pc[c] = "checked" /\ pc'[c] = "dev_wait"
        /\ \A t \in 1 .. 4 : t # c => pc'[t] = pc[t] /\ pc[t] # "checked" /\ at[t] \notin Inside \cup {"wait"}
    BY <1>1, <1>2, <2>2, <2>4
  <2>7. \A t \in 1 .. 4 : Rested(t)' <=> Rested(t)
    BY <2>5, <2>6 DEF Rested
  <2>8. ASSUME NEW t \in 1 .. 4, NEW d \in DevQueues, NEW j \in DOMAIN dev_queue'[d], dev_queue'[d][j] = t
        PROVE  d = DeviceOf(t)
    BY <1>2, <2>5, <2>6, <2>8
  <2>9. TurnsInPlace'
    <3>1. ASSUME NEW t \in 1 .. 4
          PROVE  /\ at'[t] # "start"
                 /\ Asleep(t)' => at'[t] = "loop" /\ pc'[t] = "dev_wait"
                 /\ pc'[t] # "checked" /\ at'[t] \notin Inside \cup {"wait"}
      BY <1>2, <2>5, <2>6 DEF Inside
    <3> QED BY <1>2, <2>1, <2>8, <3>1 DEF TurnsInPlace, DeviceOf, Switched
  <2>10. RoundsInPlace'
    BY <2>2, <2>4, <2>7, RoundsKept
  <2> QED BY <2>9, <2>10
<1>4. CASE dispatch_nosave
  <2>1. Switched /\ num_tasks' = num_tasks
    BY <1>4, NosaveSwitches DEF creation
  <2>2. cur_tcb = IDLE_PRIO /\ pc' = [pc EXCEPT ![IDLE_PRIO] = "launch"] /\ dev_queue' = dev_queue /\ left' = left
    BY <1>4 DEF dispatch_nosave, At, devices
  <2>3. \A t \in 1 .. 4 : /\ pc'[t] = pc[t] /\ (Asleep(t)' <=> Asleep(t)) /\ pc[t] # "checked"
                          /\ at[t] \notin Inside \cup {"wait"}
    BY <1>1, <1>2, <2>2 DEF Asleep
  <2>4. \A t \in 1 .. 4 : Rested(t)' <=> Rested(t)
    BY <2>3 DEF Rested
  <2>5. TurnsInPlace'
    BY <1>2, <2>1, <2>2, <2>3 DEF TurnsInPlace, DeviceOf, Switched
  <2> QED BY <2>2, <2>4, <2>5, RoundsKept
<1>5. CASE KernelExit
  <2>1. ~mutex_lock_resume
    BY DEF mutex_lock_resume, InPlace, RunningInPlace
  <2>2. /\ ~irq /\ cur_tcb \in Tcbs /\ UNCHANGED <<cur_tcb, run_list, num_tasks, dev_queue, left, arg>>
        /\ \/ pc[cur_tcb] \in {"launch", "dev_wait", "mutex_unlock"} /\ pc' = [pc EXCEPT ![cur_tcb] = "user"]
           \/ \E place \in {"user", "checked", "nosave"} :
                pc[cur_tcb] = place /\ pc' = [pc EXCEPT ![cur_tcb] = place]
    BY <1>5, <2>1 DEF KernelExit, launch_task, syscall_return, irq_return, LeaveKernel, At, creation, devices
  <2>3. pc' = pc \/ (pc[cur_tcb] \in {"launch", "dev_wait", "mutex_unlock"} /\ pc' = [pc EXCEPT ![cur_tcb] = "user"])
    BY <1>1, <2>2
  <2>4. pc[IDLE_PRIO] # "nosave"
    BY <2>2 DEF InPlace, RunningInPlace
  <2>5. ASSUME NEW t \in 1 .. 4
        PROVE  /\ pc'[t] = pc[t] \/ (t = cur_tcb /\ pc[t] \notin {"user", "checked"} /\ pc'[t] = "user")
               /\ Asleep(t)' <=> Asleep(t)
    BY <1>1, <2>2, <2>3 DEF Asleep
  <2>6. ~Asleep(cur_tcb)
    BY <2>2 DEF InPlace, SleepersInPlace, Asleep
  <2>7. \A t \in 1 .. 4 : Rested(t)' <=> Rested(t)
    BY <2>5 DEF Rested
  <2>8. TurnsInPlace'
    <3>1. \A p \in Prios : run_list'[p] # NULL => cur_tcb' <= p
      BY <2>2, <2>4 DEF TurnsInPlace
    <3>2. ASSUME NEW t \in 1 .. 4
          PROVE  /\ at'[t] # "start"
                 /\ Asleep(t)' => at'[t] = "loop" /\ pc'[t] = "dev_wait"
                 /\ \A d \in DevQueues : \A j \in DOMAIN dev_queue'[d] : dev_queue'[d][j] = t => d = DeviceOf(t)
                 /\ pc'[t] = "checked" => at'[t] = "loop" /\ t = cur_tcb' /\ arg'[t] = DeviceOf(t)
                 /\ at'[t] \in Inside \cup {"wait"} => t = cur_tcb' /\ pc'[t] = "user"
      BY <1>2, <2>2, <2>5, <2>6
    <3> QED BY <1>2, <2>2, <3>1, <3>2 DEF TurnsInPlace, DeviceOf
  <2> QED BY <2>2, <2>7, <2>8, RoundsKept
<1> QED BY <1>3, <1>4, <1>5

\* A tick that finds everybody asleep begins a round for the tasks it wakes, and
\* brings the others a tick nearer to theirs.
LEMMA TickInOrder ==
  ASSUME InPlace, TurnsInPlace, RoundsInPlace, timer_tick, at' = at, i' = i,
         cur_tcb = IDLE_PRIO, pc[IDLE_PRIO] = "user"
  PROVE  TurnsInPlace' /\ RoundsInPlace'
PROOF
<1> USE Sizes
<1> DEFINE due == {d \in Devices : left[d] <= 1}
<1>0. TickPlain
  BY StepsPlain
<1>a. IDLE_PRIO \notin 1 .. 4 /\ \A t \in 1 .. 4 : ~(IDLE_PRIO <= t)
  OBVIOUS
<1>1. /\ num_tasks = 4 /\ Created
      /\ \A p \in Prios : run_list[p] # NULL => cur_tcb <= p
      /\ \A t \in 1 .. 4 :
           /\ Asleep(t) => at[t] = "loop" /\ pc[t] = "dev_wait"
           /\ \A d \in DevQueues : \A j \in DOMAIN dev_queue[d] : dev_queue[d][j] = t => d = DeviceOf(t)
  BY DEF TurnsInPlace, Created
<1>2. ASSUME NEW t \in 1 .. 4 PROVE Asleep(t) /\ at[t] = "loop" /\ pc[t] = "dev_wait" /\ Rested(t)
  <2>1. t \in Live /\ t \in Prios /\ t # NULL
    BY <1>1 DEF Live, Prios, NULL
  <2>2. run_list[t] = NULL
    BY <1>a, <1>1, <2>1
  <2>3. Asleep(t)
    BY <1>a, <2>1, <2>2 DEF InPlace, NobodyMissing
  <2> QED BY <1>1, <2>3 DEF Rested
<1>3. /\ UNCHANGED <<arg, pc, num_tasks>>
      /\ \/ UNCHANGED sched
         \/ cur_tcb' = cur_tcb /\ \A p \in Prios : run_list'[p] # NULL => cur_prio[cur_tcb] <= p
         \/ Switched
  BY <1>0, TickSwitches DEF TickPlain, places, creation
<1>4. \A p \in Prios : run_list'[p] # NULL => cur_tcb' <= p
  <2>1. Held(IDLE_PRIO) = {}
    BY DEF InPlace, HoldersInPlace, Held, NULL
  <2>2. cur_prio[cur_tcb] = cur_tcb
    BY <1>1, <2>1, OwnPriority DEF Known
  <2> QED BY <1>1, <1>3, <2>2 DEF Switched, sched
<1>5. /\ dev_queue' = [d \in DevQueues |-> IF d \in due THEN <<>> ELSE dev_queue[d]]
      /\ \A d \in Devices : left'[d] = IF left[d] <= 1 THEN Freq[d] ELSE left[d] - 1
  BY <1>0 DEF TickPlain
<1>6. \A d \in DevQueues : \A j \in DOMAIN dev_queue'[d] : d \notin due /\ dev_queue'[d] = dev_queue[d]
  BY <1>5, EmptySeq
<1> HIDE DEF due
<1>7. ASSUME NEW t \in 1 .. 4
      PROVE  /\ left[DeviceOf(t)] \in 1 .. Period(t) /\ Period(t) \in Nat \ {0}
             /\ IF left[DeviceOf(t)] = 1
                THEN ~Rested(t)' /\ left'[DeviceOf(t)] = Period(t)
                ELSE Rested(t)' /\ left'[DeviceOf(t)] = left[DeviceOf(t)] - 1
             /\ Asleep(t)' => Asleep(t)
  <2> DEFINE e == DeviceOf(t)
  <2>1. e \in Devices /\ e \in DevQueues /\ Period(t) \in Nat \ {0} /\ left[e] \in 1 .. Period(t)
    BY Periods DEF RoundsInPlace
  <2>2. left'[e] = IF left[e] = 1 THEN Period(t) ELSE left[e] - 1
    BY <1>5, <2>1 DEF Period
  <2>3. e \in due <=> left[e] = 1
    BY <2>1 DEF due
  <2>4. \A d \in DevQueues : \A j \in DOMAIN dev_queue[d] : dev_queue[d][j] = t => d = e
    BY <1>1
  <2>5. Asleep(t)' <=> e \notin due
    <3> HIDE DEF e
    <3>1. Asleep(t)' => e \notin due
      BY <1>6, <2>4 DEF Asleep
    <3>2. e \notin due => dev_queue'[e] = dev_queue[e]
      BY <1>5, <2>1
    <3>3. \E j \in DOMAIN dev_queue[e] : dev_queue[e][j] = t
      BY <1>2, <2>4 DEF Asleep
    <3> QED BY <2>1, <3>1, <3>2, <3>3 DEF Asleep
  <2>6. Rested(t)' <=> left[e] # 1
    BY <1>2, <1>3, <2>3, <2>5 DEF Rested
  <2> QED BY <1>2, <2>1, <2>2, <2>6
<1>8. TurnsInPlace'
  <2>1. ASSUME NEW t \in 1 .. 4
        PROVE  /\ at'[t] # "start"
               /\ Asleep(t)' => at'[t] = "loop" /\ pc'[t] = "dev_wait"
               /\ \A d \in DevQueues : \A j \in DOMAIN dev_queue'[d] : dev_queue'[d][j] = t => d = DeviceOf(t)
               /\ pc'[t] # "checked" /\ at'[t] \notin Inside \cup {"wait"}
    <3>1. \A d \in DevQueues : \A j \in DOMAIN dev_queue'[d] : dev_queue'[d][j] = t => d = DeviceOf(t)
      BY <1>1, <1>6
    <3> QED BY <1>2, <1>3, <3>1 DEF Inside
  <2> QED BY <1>1, <1>3, <1>4, <2>1 DEF TurnsInPlace, DeviceOf
<1>9. RoundsInPlace'
  <2>1. PICK n \in Nat : \A t \in 1 .. 4 : \E k \in Nat : InRound(t, n, k)
    BY DEF RoundsInPlace
  <2>2. ASSUME NEW t \in 1 .. 4 PROVE \E k \in Nat : InRound(t, n + 1, k)'
    <3>1. PICK k \in Nat : InRound(t, n, k)
      BY <2>1
    <3>2. n = k * Period(t) + Period(t) - left[DeviceOf(t)] /\ i[t] = Cap(k + 2)
      BY <1>2, <3>1 DEF InRound
    <3>3. Period(t)' = Period(t) /\ k + 1 \in Nat /\ (k + 1) + 1 = k + 2
      BY DEF Period
    <3>4. CASE left[DeviceOf(t)] = 1
      <4>1. ~Rested(t)' /\ left'[DeviceOf(t)] = Period(t) /\ Period(t) \in Nat
        BY <1>7, <3>4
      <4>2. (k + 1) * Period(t) = k * Period(t) + Period(t) /\ k * Period(t) \in Nat
        BY <4>1
      <4>3. n + 1 = (k + 1) * Period(t) + Period(t) - Period(t)
        BY <3>2, <3>4, <4>1, <4>2
      <4>4. InRound(t, n + 1, k + 1)'
        BY <3>2, <3>3, <4>1, <4>3 DEF InRound
      <4> QED BY <3>3, <4>4
    <3>5. CASE left[DeviceOf(t)] # 1
      <4>1. /\ Rested(t)' /\ left'[DeviceOf(t)] = left[DeviceOf(t)] - 1 /\ Period(t) \in Nat
            /\ left[DeviceOf(t)] \in Nat
        BY <1>7, <3>5
      <4>2. n + 1 = k * Period(t) + Period(t) - (left[DeviceOf(t)] - 1)
        <5>1. k * Period(t) \in Nat
          BY <4>1
        <5> QED BY <3>2, <4>1, <5>1
      <4>3. InRound(t, n + 1, k)'
        BY <3>2, <3>3, <4>1, <4>2 DEF InRound
      <4> QED BY <4>3
    <3> QED BY <3>4, <3>5
  <2>3. ASSUME NEW t \in 1 .. 4
        PROVE  /\ left'[DeviceOf(t)] \in 1 .. Period(t)'
               /\ ~Rested(t)' => left'[DeviceOf(t)] = Period(t)'
               /\ \A s \in 1 .. t : Rested(t)' /\ left'[DeviceOf(t)] = Period(t)' => Rested(s)'
    <3>1. Period(t)' = Period(t)
      BY DEF Period
    <3>2. CASE left[DeviceOf(t)] = 1
      BY <1>7, <3>1, <3>2
    <3>3. CASE left[DeviceOf(t)] # 1
      <4>1. /\ Rested(t)' /\ left'[DeviceOf(t)] \in 1 .. Period(t) /\ left'[DeviceOf(t)] # Period(t)
        BY <1>7, <3>3
      <4> QED BY <3>1, <4>1
    <3> QED BY <3>2, <3>3
  <2>4. n + 1 \in Nat
    OBVIOUS
  <2> QED BY <2>2, <2>3, <2>4 DEF RoundsInPlace
<1> QED BY <1>8, <1>9

LEMMA InitOrder == ProgramsInit => OrderInPlace
PROOF
  BY DEF ProgramsInit, Init, Globals, OrderInPlace, Created

\* No step of mutex_chaser, of the kernel under it or of the timer breaks the order.
LEMMA OrderKept ==
  ASSUME Base, KernelInPlace, ChaserInPlace, OrderInPlace, [ProgramsNext]_pvars
  PROVE  OrderInPlace'
PROOF
<1> USE Sizes
<1> SUFFICES ASSUME prog' = "mutex_chaser" PROVE OrderInPlace'
  BY DEF OrderInPlace
<1>1. prog = "mutex_chaser" /\ prog' = prog
  BY DEF ProgramsNext, Works, KernelWorks, Ticks, pvars, mains
<1>2. InPlace
  BY <1>1 DEF KernelInPlace
<1>3. CASE chaser_main
  BY <1>1, <1>2, <1>3, StartInOrder
<1>4. ASSUME ~Created, ~Created', mem' = mem, failed' = failed PROVE OrderInPlace'
  BY <1>1, <1>4 DEF OrderInPlace
<1>5. CASE KernelWorks \/ Ticks
  <2>1. UNCHANGED <<at, i, mem, failed, num_tasks>>
    BY <1>2, <1>5, KernelCall DEF KernelWorks, Ticks, locals, creation
  <2>2. CASE ~Created
    BY <1>4, <2>1, <2>2 DEF Created
  <2>3. ASSUME Created, ~late' PROVE TurnsInPlace' /\ RoundsInPlace' /\ NumbersInPlace'
    <3>1. /\ ~late
          /\ KernelWorks \/ (timer_tick /\ cur_tcb = IDLE_PRIO /\ pc[IDLE_PRIO] = "user")
      <4>1. CASE KernelWorks
        BY <2>3, <4>1 DEF KernelWorks
      <4>2. CASE Ticks
        <5>1. late' = (late \/ (prog = "mutex_chaser" /\ num_tasks > 0
                               /\ ~(cur_tcb = IDLE_PRIO /\ pc[IDLE_PRIO] = "user")))
          BY <4>2 DEF Ticks
        <5>2. ~late /\ ~(prog = "mutex_chaser" /\ num_tasks > 0
                         /\ ~(cur_tcb = IDLE_PRIO /\ pc[IDLE_PRIO] = "user"))
          BY <2>3, <5>1, Zenon
        <5>3. cur_tcb = IDLE_PRIO /\ pc[IDLE_PRIO] = "user"
          BY <1>1, <2>3, <5>2, Zenon DEF Created
        <5>4. timer_tick
          BY <4>2 DEF Ticks
        <5> QED BY <5>2, <5>3, <5>4, Zenon
      <4> QED BY <1>5, <4>1, <4>2
    <3>2. TurnsInPlace /\ RoundsInPlace /\ NumbersInPlace
      BY <1>1, <2>3, <3>1 DEF OrderInPlace
    <3> QED BY <1>2, <1>5, <2>1, <3>1, <3>2, KernelInOrder, TickInOrder, NumbersKept DEF KernelWorks
  <2> QED BY <1>1, <2>1, <2>2, <2>3 DEF OrderInPlace, Created
<1>6. CASE UNCHANGED pvars
  <2>1. UNCHANGED <<at, i, mem, failed, late, num_tasks, cur_tcb, run_list, pc, arg, dev_queue, left>>
    BY <1>6 DEF pvars, vars, locals, sched, devices, places, creation
  <2>2. \A t \in 1 .. 4 : (Asleep(t)' <=> Asleep(t)) /\ (Rested(t)' <=> Rested(t))
    BY <2>1 DEF Rested, Asleep
  <2>3. TurnsInPlace => TurnsInPlace'
    BY <2>1, <2>2 DEF TurnsInPlace, DeviceOf
  <2>4. RoundsInPlace => RoundsInPlace'
    BY <2>1, <2>2, RoundsKept
  <2> QED BY <1>1, <2>1, <2>3, <2>4, NumbersKept DEF OrderInPlace, Created
<1>7. CASE Works /\ ~chaser_main
  <2>1. chaser_fun1 \/ chaser_fun2 \/ chaser_fun3 \/ chaser_fun4
    BY <1>1, <1>7 DEF Works, simple_fun1, simple_fun2, simple_fun3, simple_main, sys_err_fun1, sys_err_main,
      stress_fun1, stress_main, cyclone_fun1, cyclone_main, dagger_fun1, dagger_fun2, dagger_main, Runs
  <2>2. late' = late /\ cur_tcb \in 1 .. 4 /\ InUser
    BY <1>7, <2>1 DEF Works, chaser_fun1, chaser_fun2, chaser_fun3, chaser_fun4, Runs
  <2>3. pc[cur_tcb] = "user" /\ Created
    BY <1>2, <2>2 DEF InUser, InMain, Main, InTask, InPlace, RunningInPlace, NULL
  <2>4. /\ \/ locks \/ reads \/ writes(Apply(cur_tcb, reg[cur_tcb])) \/ unlocks
           \/ waits(DeviceOf(cur_tcb)) \/ finishes
        /\ \/ failed' = failed
           \/ /\ at[cur_tcb] = "loop" /\ at'[cur_tcb] = "wait" /\ cur_tcb = 4
              /\ failed' = {m \in Mutexes : mem[m] # result_val}
    <3>0. \A v : locks \/ reads \/ writes(v) \/ unlocks => failed' = failed
      BY DEF locks, reads, writes, unlocks
    <3>1. \A d : waits(d) => failed' = failed
      BY DEF waits
    <3>2. CASE chaser_fun1
      BY <3>0, <3>1, <3>2 DEF chaser_fun1, Runs, Apply, DeviceOf
    <3>3. CASE chaser_fun2
      BY <3>0, <3>1, <3>3 DEF chaser_fun2, Runs, Apply, DeviceOf
    <3>4. CASE chaser_fun3
      BY <3>0, <3>1, <3>4 DEF chaser_fun3, Runs, Apply, DeviceOf
    <3>5. CASE chaser_fun4
      <4>1. finishes => at[cur_tcb] = "loop" /\ at'[cur_tcb] = "wait"
        <5>1. at \in [Tcbs \cup {NULL} -> Labels] /\ cur_tcb \in Tcbs \cup {NULL}
          BY <2>2 DEF Base, LocalsInPlace, ProgramsTypeOK, Labels
        <5> QED BY <5>1 DEF finishes, Goes
      <4> QED BY <3>0, <3>1, <3>5, <4>1 DEF chaser_fun4, Runs, Apply, DeviceOf
    <3> QED BY <2>1, <3>2, <3>3, <3>4, <3>5
  <2>5. ASSUME ~late PROVE TurnsInPlace' /\ RoundsInPlace' /\ NumbersInPlace'
    <3>1. TurnsInPlace /\ RoundsInPlace /\ NumbersInPlace
      BY <1>1, <2>3, <2>5 DEF OrderInPlace
    <3> QED BY <1>1, <1>2, <2>2, <2>3, <2>4, <3>1, TaskInOrder
  <2>6. Created'
    <3>1. UNCHANGED creation
      BY <1>1, <1>2, <2>2, <2>3, <2>4, ChaserStep
    <3> QED BY <2>3, <3>1 DEF creation, Created
  <2> QED BY <1>1, <2>2, <2>5, <2>6 DEF OrderInPlace
<1> QED BY <1>3, <1>5, <1>6, <1>7 DEF ProgramsNext

\* What fun4 and a reader of the numbers see follows from the order.
LEMMA OrderShows == OrderInPlace => ChaserInOrder
PROOF
<1> USE Sizes
<1> SUFFICES ASSUME OrderInPlace, prog = "mutex_chaser", ~late
             PROVE  (\A m \in Mutexes : mem[m] \in {2, 5, 55, 48, 624}) /\ failed \subseteq {0}
  BY DEF ChaserInOrder
<1>1. CASE ~Created
  BY <1>1 DEF OrderInPlace
<1>2. CASE Created
  <2>1. NumbersInPlace
    BY <1>2 DEF OrderInPlace
  <2>2. \A q \in 0 .. 4 : Made(q) \in {2, 5, 55, 48, 624}
    BY DEF Made
  <2> QED BY <2>1, <2>2 DEF NumbersInPlace
<1> QED BY <1>1, <1>2

-----------------------------------------------------------------------------
(* The inductive invariant of the programs *)

ProgramsInPlace ==
  /\ Base
  /\ KernelInPlace
  /\ ChaserInPlace
  /\ OrderInPlace
  /\ SysErrInPlace
  /\ SimpleInPlace
  /\ NobodyLocks
  /\ StressInPlace
  /\ OnlyNotedPanic

LEMMA InitProgramsInPlace == ProgramsInit => ProgramsInPlace
PROOF
<1> SUFFICES ASSUME ProgramsInit PROVE ProgramsInPlace
  OBVIOUS
<1>1. OnlyNotedPanic
  BY DEF ProgramsInit, OnlyNotedPanic
<1> QED
  BY <1>1, InitBase, InitKernel, InitChaser, InitOrder, InitSysErr, InitSimple, InitStress DEF ProgramsInPlace

LEMMA ProgramsInPlaceKept == ProgramsInPlace /\ [ProgramsNext]_pvars => ProgramsInPlace'
PROOF
<1> SUFFICES ASSUME ProgramsInPlace, [ProgramsNext]_pvars PROVE ProgramsInPlace'
  OBVIOUS
<1>1. /\ Base /\ KernelInPlace /\ ChaserInPlace /\ OrderInPlace /\ SysErrInPlace /\ SimpleInPlace
      /\ NobodyLocks /\ StressInPlace /\ OnlyNotedPanic
  BY DEF ProgramsInPlace
<1>2. Base' /\ KernelInPlace'
  BY <1>1, BaseKept, KernelKept
<1>3. ChaserInPlace' /\ OrderInPlace' /\ SysErrInPlace' /\ SimpleInPlace'
  BY <1>1, ChaserKept, OrderKept, SysErrKept, SimpleKept
<1>4. NobodyLocks' /\ StressInPlace' /\ OnlyNotedPanic'
  BY <1>1, NobodyLocksKept, StressKept, PanicKept
<1> QED BY <1>2, <1>3, <1>4 DEF ProgramsInPlace

\* Whichever program is loaded, its tasks, its globals and the kernel under them are in
\* place from the first call of main on.
THEOREM ProgramsAlwaysInPlace == ProgramsSpec => []ProgramsInPlace
PROOF
  BY InitProgramsInPlace, ProgramsInPlaceKept, PTL DEF ProgramsSpec

\* The variables of the programs have their types, and a task counts no further
\* than the array it works on (mutex_chaser.c:33-55) or its last call (sys_err.c).
THEOREM ProgramsTypesKept == ProgramsSpec => []ProgramsTypeOK
PROOF
<1>1. ProgramsInPlace => ProgramsTypeOK
  BY DEF ProgramsInPlace, Base, LocalsInPlace
<1> QED BY <1>1, ProgramsAlwaysInPlace, PTL

\* What the programs do is something that the kernel's module lets tasks do: what is
\* proved of the kernel for all tasks holds for them.
THEOREM ProgramsUseKernel == ProgramsSpec => Spec
PROOF
<1>1. ProgramsInit => Init
  BY DEF ProgramsInit
<1>2. ProgramsInPlace /\ [ProgramsNext]_pvars => [Next]_vars
  BY StepIsKernels DEF ProgramsInPlace, Base
<1> QED BY <1>1, <1>2, ProgramsAlwaysInPlace, PTL DEF ProgramsSpec, Spec

\* mutex_chaser: wherever its tasks are switched and however late they are, no
\* operation is lost; and as long as every task sleeps again before the next tick,
\* each number goes through the operations in the order of the priorities
\* (mutex_chaser.c:29), and fun4 finds none wrong but that of mutex 0.
THEOREM ChaserAlwaysWorks == ProgramsSpec => []ChaserWorks
PROOF
<1>1. ProgramsInPlace => ChaserWorks
  BY OrderShows DEF ProgramsInPlace, ChaserInPlace, ChaserWorks, NothingLost
<1> QED BY <1>1, ProgramsAlwaysInPlace, PTL

\* sys_err finds every error it expects; no task of any program but those that must
\* is refused a wait or a mutex; and the judge of stress never runs.
THEOREM RefusalsAlwaysExpected == ProgramsSpec => []RefusalsExpected
PROOF
<1>1. ProgramsInPlace => ErrnoAsExpected /\ OnlyNotedPanic
  BY DEF ProgramsInPlace, SysErrInPlace, ErrnoAsExpected
<1>2. ProgramsInPlace => NeverJudged
  <2> SUFFICES ASSUME ProgramsInPlace, prog = "stress", cur_tcb = NUM_TASK PROVE FALSE
    BY DEF NeverJudged
  <2>1. Created
    BY Sizes DEF ProgramsInPlace, KernelInPlace, InPlace, RunningInPlace, NULL
  <2>2. NUM_TASK <= NumDevices + 2 \/ NUM_TASK = IDLE_PRIO
    BY <2>1 DEF ProgramsInPlace, StressInPlace, Spinner
  <2> QED BY <2>2, Sizes
<1>3. ProgramsInPlace => RefusalsExpected
  BY <1>1, <1>2 DEF RefusalsExpected
<1> QED BY <1>3, ProgramsAlwaysInPlace, PTL
-----------------------------------------------------------------------------
(* What the programs find under them *)

\* cyclone creates tasks from a task, which is refused in the end.
NotCyclone == prog # "cyclone"
NotRefused == at[1] # "never"

\* What holds of it until then.
CycloneInPlace ==
  ~NotCyclone /\ NotRefused =>
    InPlace /\ num_tasks <= 1 /\ \A m \in Mutexes : pHolding_Tcb[m] = NULL

LEMMA InitCyclone == ProgramsInit => CycloneInPlace
PROOF
<1> SUFFICES ASSUME ProgramsInit
             PROVE  InPlace /\ num_tasks <= 1 /\ \A m \in Mutexes : pHolding_Tcb[m] = NULL
  BY DEF CycloneInPlace
<1>1. InPlace
  BY InitInPlace DEF ProgramsInit
<1> QED BY <1>1 DEF ProgramsInit, Init

\* Once refused, cyclone does nothing more.
LEMMA NeverIsFinal ==
  ASSUME Base, prog = "cyclone", at[1] = "never", [ProgramsNext]_pvars
  PROVE  at'[1] = "never"
PROOF
<1>1. CASE cyclone_fun1
  <2>1. cur_tcb = 1 /\ at[1] \in {"loop", "sleep", "create"}
    BY <1>1 DEF cyclone_fun1, Runs, Goes
  <2> QED BY <2>1
<1>2. CASE cyclone_main
  <2>1. num_tasks = 0
    BY <1>2, Sizes DEF cyclone_main, Runs, InUser, InMain, InTask, Main
  <2>2. at[1] = "start"
    BY <2>1, Sizes DEF Base, NoneBegun
  <2> QED BY <2>2
<1>3. CASE KernelWorks \/ Ticks \/ UNCHANGED pvars
  BY <1>3 DEF KernelWorks, Ticks, pvars, locals
<1>4. Works => cyclone_fun1 \/ cyclone_main
  BY DEF Works, chaser_fun1, chaser_fun2, chaser_fun3, chaser_fun4, chaser_main,
    simple_fun1, simple_fun2, simple_fun3, simple_main, sys_err_fun1, sys_err_main,
    stress_fun1, stress_main, dagger_fun1, dagger_fun2, dagger_main, Runs
<1> QED BY <1>1, <1>2, <1>3, <1>4 DEF ProgramsNext

\* Until then it uses the kernel as intended: it has no mutex when it creates tasks,
\* and it is the only task.
LEMMA CycloneIsIntended ==
  ASSUME Base, InPlace, prog = "cyclone", num_tasks <= 1,
         \A m \in Mutexes : pHolding_Tcb[m] = NULL, at'[1] # "never", [ProgramsNext]_pvars
  PROVE  [IntendedNext]_vars /\ UNCHANGED pHolding_Tcb /\ num_tasks' \in {num_tasks, 1}
PROOF
<1> USE Sizes
<1>1. CASE cyclone_fun1
  <2>1. CASE Own
    BY <2>1 DEF Own, vars, mutexes, creation
  <2>2. CASE ~Own
    <3>1. PICK r \in {ok, "ESCHED"} :
            task_create_stub(1, r) /\ at' = [at EXCEPT ![1] = IF r = ok THEN "loop" ELSE "never"]
      BY <1>1, <2>2 DEF cyclone_fun1
    <3>2. r = ok
      BY <3>1 DEF Base, LocalsInPlace, ProgramsTypeOK
    <3>3. CreatePlain(1) /\ task_create(1) /\ KeptQueuesEmpty
      <4>1. cur_tcb = 1
        BY <1>1 DEF cyclone_fun1, Runs
      <4>2. num_tasks \in Nat
        BY DEF InPlace, TypeOK
      <4>3. Live \subseteq {cur_tcb}
        BY <4>1, <4>2 DEF Live
      <4>4. KeptQueuesEmpty
        BY <4>3, NobodyElse
      <4>5. task_create(1)
        BY <3>1, <3>2 DEF task_create_stub, ok
      <4> QED BY <4>4, <4>5, CreateIsPlain DEF InPlace
    <3>4. ~(InTask /\ holds_lock[cur_tcb] > 0)
      <4>1. cur_tcb = 1
        BY <1>1 DEF cyclone_fun1, Runs
      <4>2. Held(1) = {}
        BY DEF Held, NULL, Mutexes
      <4>3. Cardinality({}) = 0
        BY FS_EmptySet
      <4>4. holds_lock[1] = Cardinality(Held(1))
        BY DEF InPlace, CountersInPlace
      <4> QED BY <4>1, <4>2, <4>3, <4>4
    <3> QED BY <3>3, <3>4 DEF IntendedNext, CreatePlain, mutexes
  <2> QED BY <2>1, <2>2
<1>2. CASE cyclone_main
  <2>1. starts(1) /\ cur_tcb = NULL
    BY <1>2 DEF cyclone_main, Runs
  <2>2. [IntendedNext]_vars
    BY <2>1, StartIsIntended, IntendedWhere DEF starts
  <2>3. UNCHANGED mutexes /\ (CreatePlain(1) \/ task_create_unschedulable)
    BY <2>1, StartCall
  <2> QED BY <2>2, <2>3 DEF CreatePlain, task_create_unschedulable, mutexes, creation
<1>3. CASE KernelWorks \/ Ticks
  BY <1>3, KernelCall DEF KernelWorks, Ticks, IntendedNext, mutexes, creation
<1>4. CASE UNCHANGED pvars
  BY <1>4 DEF pvars, vars, mutexes, creation
<1>5. Works => cyclone_fun1 \/ cyclone_main
  BY DEF Works, chaser_fun1, chaser_fun2, chaser_fun3, chaser_fun4, chaser_main,
    simple_fun1, simple_fun2, simple_fun3, simple_main, sys_err_fun1, sys_err_main,
    stress_fun1, stress_main, dagger_fun1, dagger_fun2, dagger_main, Runs
<1> QED BY <1>1, <1>2, <1>3, <1>4, <1>5 DEF ProgramsNext

LEMMA CycloneKept == Base /\ CycloneInPlace /\ [ProgramsNext]_pvars => CycloneInPlace'
PROOF
<1> SUFFICES ASSUME Base, CycloneInPlace, [ProgramsNext]_pvars, prog = "cyclone", at'[1] # "never"
             PROVE  InPlace' /\ num_tasks' <= 1 /\ \A m \in Mutexes : pHolding_Tcb'[m] = NULL
  BY DEF CycloneInPlace, NotCyclone, NotRefused, ProgramsNext, Works, KernelWorks, Ticks, pvars, mains
<1>1. InPlace /\ num_tasks <= 1 /\ \A m \in Mutexes : pHolding_Tcb[m] = NULL
  BY NeverIsFinal DEF CycloneInPlace, NotCyclone, NotRefused
<1>2. [IntendedNext]_vars /\ UNCHANGED pHolding_Tcb /\ num_tasks' \in {num_tasks, 1}
  BY <1>1, CycloneIsIntended
<1>3. TypeOK'
  BY BaseKept DEF Base
<1> QED BY <1>1, <1>2, <1>3, IntendedIsPlain, NextInPlace

\* The programs never see the slots, queues, ticks and switches of the kernel, only
\* the scheduler of module Scheduler (mutex_chaser.c, simple_mutex.c, sys_err.c,
\* stress.c and dagger.c).  cyclone has it until it is refused a creation:
\* then its kernel has no ready task left, not even the idle one.
THEOREM ProgramsFindScheduler ==
  ProgramsSpec /\ (NotCyclone \/ []NotRefused) => ImplementsScheduler
PROOF
<1>1. ProgramsInit => ProgramsInPlace /\ CycloneInPlace /\ Tasks!Init
  BY InitProgramsInPlace, InitCyclone, InitRefines DEF ProgramsInit
<1>2. CycloneInPlace /\ ProgramsInPlace /\ [ProgramsNext]_pvars => CycloneInPlace'
  BY CycloneKept DEF ProgramsInPlace
<1>3. NotCyclone /\ [ProgramsNext]_pvars => NotCyclone'
  BY DEF NotCyclone, ProgramsNext, Works, KernelWorks, Ticks, pvars, mains
<1>4. ProgramsInPlace /\ NotCyclone /\ [ProgramsNext]_pvars => [Tasks!Next]_(Tasks!vars)
  BY StepIsIntended, IntendedWhere, IntendedIsPlain, NextRefines
  DEF ProgramsInPlace, Base, KernelInPlace, NotCyclone
<1>5. /\ ProgramsInPlace /\ CycloneInPlace /\ ~NotCyclone /\ NotRefused /\ NotRefused'
      /\ [ProgramsNext]_pvars
      => [Tasks!Next]_(Tasks!vars)
  BY CycloneIsIntended, IntendedIsPlain, NextRefines
  DEF ProgramsInPlace, CycloneInPlace, NotCyclone, NotRefused
<1> QED
  BY <1>1, <1>2, <1>3, <1>4, <1>5, ProgramsAlwaysInPlace, PTL
  DEF ProgramsSpec, ImplementsScheduler, Tasks!Spec
=============================================================================
