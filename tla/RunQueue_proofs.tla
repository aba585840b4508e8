-------------------------- MODULE RunQueue_proofs --------------------------
(***************************************************************************)
(* The bitmaps of run_queue.c agree with the list of slots, for every set  *)
(* of tasks and of slots used, and so the module implements ReadyQueue.    *)
(***************************************************************************)
EXTENDS RunQueue, RunList_proofs

Inv == TypeOK /\ BitmapsAgree

\* The group and the position of a priority determine it (run_queue.c:100-101).
LEMMA Split ==
  ASSUME NEW p \in Slots
  PROVE  /\ group(p) \in Groups
         /\ position(p) \in Bits
         /\ p = 8 * group(p) + position(p)
PROOF
  BY DEF Slots, Groups, Bits, OS_MAX_TASKS, group, position

LEMMA Join ==
  ASSUME NEW g \in Groups, NEW b \in Bits
  PROVE  /\ 8 * g + b \in Slots
         /\ group(8 * g + b) = g
         /\ position(8 * g + b) = b
PROOF
  BY DEF Slots, Groups, Bits, OS_MAX_TASKS, group, position

\* There are eight groups: the group bits are a byte too.
LEMMA Bytes == Groups = Bits
PROOF
  BY DEF Groups, Bits, OS_MAX_TASKS

\* What prio_unmap_table answers (run_queue.c:32-33).
LEMMA LowestBitInByte ==
  ASSUME NEW S \in SUBSET Bits
  PROVE  /\ LowestBit(S) \in Bits
         /\ S # {} => LowestBit(S) \in S /\ \A b \in S : LowestBit(S) <= b
PROOF
<1>1. CASE S = {}
  BY <1>1 DEF LowestBit, Bits
<1>2. CASE S # {}
  <2>1. S \in SUBSET Nat
    BY DEF Bits
  <2>2. Min(S) \in S /\ \A b \in S : Min(S) <= b
    BY <1>2, <2>1, MinOfNaturals
  <2> QED BY <1>2, <2>2 DEF LowestBit
<1> QED BY <1>1, <1>2

LEMMA InitInv == Init => Inv
PROOF
<1> SUFFICES ASSUME Init
             PROVE  Inv
  OBVIOUS
<1> USE DEF Init, NoTasks, NoBits
<1>1. TypeOK
  BY DEF TypeOK, NULL
<1>2. BitmapsAgree
  <2>1. \A p \in Slots : run_list[p] # NULL <=> position(p) \in run_bits[group(p)]
    BY Split
  <2>2. \A g \in Groups : g \in group_run_bits <=> run_bits[g] # {}
    OBVIOUS
  <2> QED BY <2>1, <2>2 DEF BitmapsAgree
<1> QED BY <1>1, <1>2 DEF Inv

LEMMA NextInv == Inv /\ [Next]_vars => Inv'
PROOF
<1> SUFFICES ASSUME Inv, [Next]_vars
             PROVE  Inv'
  OBVIOUS
<1> USE DEF Inv
<1>1. CASE runqueue_init
  <2>1. TypeOK'
    BY <1>1 DEF runqueue_init, NoTasks, NoBits, TypeOK, NULL
  <2>2. BitmapsAgree'
    BY <1>1, Split DEF runqueue_init, NoTasks, NoBits, BitmapsAgree
  <2> QED BY <2>1, <2>2
<1>2. ASSUME NEW tcb \in Tcbs, NEW prio \in Prios, runqueue_add(tcb, prio)
      PROVE  Inv'
  <2>1. /\ prio \in Slots /\ tcb # NULL
        /\ group(prio) \in Groups /\ position(prio) \in Bits
    BY RunQueueAssumption, Split
  <2>2. TypeOK'
    BY <1>2, <2>1, RunQueueAssumption DEF runqueue_add, TypeOK, NULL
  <2>3. \A p \in Slots : run_list'[p] # NULL <=> position(p) \in run_bits'[group(p)]
    <3> TAKE p \in Slots
    <3>1. CASE p = prio
      BY <1>2, <2>1, <3>1 DEF runqueue_add, TypeOK
    <3>2. CASE p # prio
      <4>1. group(p) # group(prio) \/ position(p) # position(prio)
        BY <2>1, <3>2, Split
      <4>2. group(p) \in Groups
        BY Split
      <4> QED
        BY <1>2, <2>1, <3>2, <4>1, <4>2 DEF runqueue_add, TypeOK, BitmapsAgree
    <3> QED BY <3>1, <3>2
  <2>4. \A g \in Groups : g \in group_run_bits' <=> run_bits'[g] # {}
    BY <1>2, <2>1 DEF runqueue_add, TypeOK, BitmapsAgree
  <2> QED BY <2>2, <2>3, <2>4 DEF BitmapsAgree
<1>3. CASE RemoveIdle
  <2>1. ret' \in Nat
    BY <1>3, RunQueueAssumption DEF RemoveIdle, TypeOK, NULL
  <2> QED
    BY <1>3, <2>1 DEF RemoveIdle, TypeOK, BitmapsAgree
<1>4. ASSUME NEW prio \in Prios, runqueue_remove(prio)
      PROVE  Inv'
  <2>1. /\ prio \in Slots
        /\ group(prio) \in Groups /\ position(prio) \in Bits
    BY RunQueueAssumption, Split
  <2>2. TypeOK'
    BY <1>4, <2>1, RunQueueAssumption DEF runqueue_remove, TypeOK, NULL
  <2>3. \A p \in Slots : run_list'[p] # NULL <=> position(p) \in run_bits'[group(p)]
    <3> TAKE p \in Slots
    <3>1. CASE p = prio
      BY <1>4, <2>1, <3>1 DEF runqueue_remove, TypeOK
    <3>2. CASE p # prio
      <4>1. group(p) # group(prio) \/ position(p) # position(prio)
        BY <2>1, <3>2, Split
      <4>2. group(p) \in Groups
        BY Split
      <4> QED
        BY <1>4, <2>1, <3>2, <4>1, <4>2 DEF runqueue_remove, TypeOK, BitmapsAgree
    <3> QED BY <3>1, <3>2
  <2>4. \A g \in Groups : g \in group_run_bits' <=> run_bits'[g] # {}
    BY <1>4, <2>1 DEF runqueue_remove, TypeOK, BitmapsAgree
  <2> QED BY <2>2, <2>3, <2>4 DEF BitmapsAgree
<1>5. CASE Search
  <2>1. LowestBit(group_run_bits) \in Groups
    BY LowestBitInByte, Bytes DEF TypeOK
  <2>2. LowestBit(run_bits[LowestBit(group_run_bits)]) \in Bits
    BY <2>1, LowestBitInByte DEF TypeOK
  <2>3. highest_prio \in Nat
    BY <2>1, <2>2, Bytes DEF highest_prio, Bits
  <2> QED
    BY <1>5, <2>3 DEF Search, TypeOK, BitmapsAgree
<1>6. CASE UNCHANGED vars
  BY <1>6 DEF vars, TypeOK, BitmapsAgree
<1> QED
  BY <1>1, <1>2, <1>3, <1>4, <1>5, <1>6 DEF Next

\* The types of the run queue hold in every state.
THEOREM TypesAreKept == Spec => []TypeOK
PROOF
  BY InitInv, NextInv, PTL DEF Spec, Inv

\* In every state a run bit is high exactly when its slot holds a task, and a
\* group bit exactly when a bit of its group is (run_queue.c:103-104,133-138).
THEOREM BitmapsAlwaysAgree == Spec => []BitmapsAgree
PROOF
  BY InitInv, NextInv, PTL DEF Spec, Inv

\* The two lookups of highest_prio (run_queue.c:149-151) find what a search of
\* all slots would.
LEMMA SearchIsHighest ==
  ASSUME Inv
  PROVE  highest_prio = HighestPrio(run_list)
PROOF
<1> USE DEF Inv
<1> DEFINE y == LowestBit(group_run_bits)
<1> DEFINE x == LowestBit(run_bits[y])
<1>0. highest_prio = 8 * y + x /\ DOMAIN run_list = Slots /\ Slots \subseteq Nat
  BY DEF highest_prio, TypeOK, Slots
<1>1. CASE group_run_bits = {}
  <2>1. \A p \in Slots : run_list[p] = NULL
    BY <1>1, Split DEF BitmapsAgree
  <2>2. y = 0 /\ 0 \in Groups
    BY <1>1 DEF LowestBit, Groups, OS_MAX_TASKS
  <2>3. run_bits[0] = {}
    BY <1>1, <2>2 DEF BitmapsAgree
  <2>4. highest_prio = 0
    BY <1>0, <2>2, <2>3 DEF LowestBit
  <2>5. HighestPrio(run_list) = 0
    BY <2>1, <1>0 DEF HighestPrio, Occupied
  <2> QED BY <2>4, <2>5
<1>2. CASE group_run_bits # {}
  <2>1. y \in group_run_bits /\ \A g \in group_run_bits : y <= g
    BY <1>2, LowestBitInByte, Bytes DEF TypeOK
  <2>2. y \in Groups /\ run_bits[y] # {} /\ run_bits[y] \in SUBSET Bits
    BY <2>1 DEF TypeOK, BitmapsAgree
  <2>3. x \in run_bits[y] /\ \A b \in run_bits[y] : x <= b
    BY <2>2, LowestBitInByte
  <2>4. x \in Bits
    BY <2>2, <2>3
  <2> HIDE DEF y, x
  <2> DEFINE q == 8 * y + x
  <2>5. q \in Slots /\ group(q) = y /\ position(q) = x
    BY <2>2, <2>4, Join
  <2>6. run_list[q] # NULL
    BY <2>3, <2>5 DEF BitmapsAgree
  <2>7. ASSUME NEW p \in Slots, run_list[p] # NULL
        PROVE  q <= p
    <3>1. /\ group(p) \in Groups /\ position(p) \in Bits
          /\ p = 8 * group(p) + position(p)
      BY Split
    <3>2. position(p) \in run_bits[group(p)]
      BY <2>7 DEF BitmapsAgree
    <3>3. group(p) \in group_run_bits
      BY <3>1, <3>2 DEF BitmapsAgree
    <3>4. y <= group(p)
      BY <2>1, <3>3
    <3>5. y = group(p) => x <= position(p)
      BY <2>3, <3>2
    <3> QED
      BY <2>2, <2>4, <3>1, <3>4, <3>5 DEF Groups, Bits, OS_MAX_TASKS
  <2> HIDE DEF q
  <2>8. HighestPrio(run_list) = q
    BY <1>0, <2>5, <2>6, <2>7, HighestPrioUnique
  <2> QED BY <1>0, <2>8 DEF q
<1> QED BY <1>1, <1>2

\* The run queue with its bitmaps implements the list of slots that is searched
\* from the most urgent one: every call does the same to the slots and returns
\* the same.
THEOREM RunQueueImplements == Spec => ImplementsReadyQueue
PROOF
<1> USE DEF NULL, Abstract!NULL, Abstract!Put, Abstract!Take
<1>1. Init => Abstract!Init
  BY DEF Init, NoTasks, Abstract!Init
<1>2. ASSUME Inv, [Next]_vars
      PROVE  [Abstract!Next]_(Abstract!vars)
  <2>1. CASE runqueue_init
    BY <2>1 DEF runqueue_init, NoTasks, Abstract!Clear, Abstract!Next
  <2>2. ASSUME NEW tcb \in Tcbs, NEW prio \in Prios, runqueue_add(tcb, prio)
        PROVE  Abstract!Next
    BY <2>2 DEF runqueue_add, Abstract!Add, Abstract!Next
  <2>3. CASE RemoveIdle
    <3>1. Abstract!Remove(IDLE_PRIO)
      BY <2>3 DEF RemoveIdle, Abstract!Remove
    <3> QED BY <2>3, <3>1 DEF RemoveIdle, Abstract!Next
  <2>4. ASSUME NEW prio \in Prios, runqueue_remove(prio)
        PROVE  Abstract!Next
    <3>1. Abstract!Remove(prio)
      BY <2>4 DEF runqueue_remove, Abstract!Remove
    <3> QED BY <3>1 DEF Abstract!Next
  <2>5. CASE Search
    <3>1. highest_prio = Abstract!HighestPrio(run_list)
      BY <1>2, SearchIsHighest DEF HighestPrio, Occupied, Min,
         Abstract!HighestPrio, Abstract!Occupied, Abstract!Min
    <3>2. Abstract!Search
      BY <2>5, <3>1 DEF Search, Abstract!Search
    <3> QED BY <3>2 DEF Abstract!Next
  <2>6. CASE UNCHANGED vars
    BY <2>6 DEF vars, Abstract!vars
  <2> QED
    BY <1>2, <2>1, <2>2, <2>3, <2>4, <2>5, <2>6 DEF Next
<1> QED
  BY <1>1, <1>2, InitInv, NextInv, PTL DEF Spec, ImplementsReadyQueue, Abstract!Spec
=============================================================================
