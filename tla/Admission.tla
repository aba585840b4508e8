----------------------------- MODULE Admission -----------------------------
(***************************************************************************)
(* How task_create of lab 4 orders the tasks it is given and whether it    *)
(* admits them, and the kernel's math.c.  A task is [C, B, T]; fractions   *)
(* are counted in units of 1 / Unit, which every period divides.           *)
(***************************************************************************)
EXTENDS Integers, Sequences, SequencesExt

CONSTANTS
  Unit,
  WordBits   \* of an unsigned int: 32

ASSUME AdmissionAssumption == Unit \in Nat \ {0} /\ WordBits \in Nat \ {0}

Swapped(s, a, b) == [k \in DOMAIN s |-> IF k = a THEN s[b] ELSE IF k = b THEN s[a] ELSE s[k]]

\* Mutant of selected: the last of the shortest periods, and not before i.
SelectedFromAll(s, i) ==
  CHOOSE m \in DOMAIN s : \A k \in DOMAIN s : s[m].T < s[k].T \/ (s[m].T = s[k].T /\ k <= m)

\* The first of the shortest periods from i on.
selected(s, i) ==
  CHOOSE m \in i .. Len(s) : \A k \in i .. Len(s) : s[m].T < s[k].T \/ (s[m].T = s[k].T /\ m <= k)

task_order(tasks) ==
  FoldLeft(LAMBDA s, i : Swapped(s, i, selected(s, i)), tasks, [i \in DOMAIN tasks |-> i])

\* Millionths; the first of the 63 bounds of ub_test.c.
bounds == <<1000000, 828427, 779763, 756828, 743492, 734772, 728627, 724062, 720538, 717735>>

\* 0.0 / 0: no comparison with it is true, and sums with it remain it.
NaN == -1
Infinity == -2
Share(c, T) == IF T # 0 THEN c * (Unit \div T) ELSE IF c = 0 THEN NaN ELSE Infinity
Sum2(x, y) == IF NaN \in {x, y} THEN NaN ELSE IF Infinity \in {x, y} THEN Infinity ELSE x + y
Exceeds(x, bound) == x = Infinity \/ (x >= 0 /\ x * 1000000 > bound * Unit)

\* Mutant of assign_schedule: the blocking of a task is left out.
ScheduleWithoutB(tasks) ==
  LET before(i) == FoldLeft(Sum2, 0, [k \in 1 .. i - 1 |-> Share(tasks[k].C, tasks[k].T)])
  IN  \A i \in DOMAIN tasks : ~Exceeds(Sum2(before(i), Share(tasks[i].C, tasks[i].T)), bounds[i])

assign_schedule(tasks) ==
  LET before(i) == FoldLeft(Sum2, 0, [k \in 1 .. i - 1 |-> Share(tasks[k].C, tasks[k].T)])
  IN  \A i \in DOMAIN tasks :
        ~Exceeds(Sum2(before(i), Share(tasks[i].C + tasks[i].B, tasks[i].T)), bounds[i])

-----------------------------------------------------------------------------
Words == 2 ^ WordBits
sum_region(buf) == FoldLeft(LAMBDA result, w : (result + w) % Words, 0, buf)

\* The number of shifts that leave something.
ilog2(x) == CHOOSE r \in 0 .. WordBits : x \div 2 ^ r <= 1 /\ \A q \in 0 .. r - 1 : x \div 2 ^ q > 1

\* Mutant of ilog2_fast: the halves are looked at from the narrowest on.
IlogNarrowFirst(v) ==
  LET step(st, k) == IF st.v >= 2 ^ k THEN [v |-> st.v \div 2 ^ k, r |-> st.r + k] ELSE st
  IN  FoldLeft(step, [v |-> v, r |-> 0], <<1, 2, 4>>).r

\* NDEBUG: v & b[i] asks whether one of the next S[i] bits or a higher one is set
\* (bound: three halvings, for words of eight bits).
ilog2_fast(v) ==
  LET step(st, k) ==
        IF (st.v \div 2 ^ k) % 2 ^ k # 0 THEN [v |-> st.v \div 2 ^ k, r |-> st.r + k] ELSE st
  IN  FoldLeft(step, [v |-> v, r |-> 0], <<4, 2, 1>>).r
=============================================================================
