--------------------------- MODULE RunList_proofs ---------------------------
(***************************************************************************)
(* What the search of the ready list returns, for a list of any length.    *)
(***************************************************************************)
EXTENDS RunList, WellFoundedInduction, TLAPS

\* A nonempty set of natural numbers has a least element, and Min is it.
LEMMA MinOfNaturals ==
  ASSUME NEW S \in SUBSET Nat, S # {}
  PROVE  Min(S) \in S /\ \A y \in S : Min(S) <= y
PROOF
<1> DEFINE Less == {ss \in Nat \X Nat : ss[1] < ss[2]}
<1>1. IsWellFoundedOn(Less, Nat)
  BY NatLessThanWellFounded DEF OpToRel
<1>2. \E x \in S : \A y \in S : ~(<<y, x>> \in Less)
  <2> HIDE DEF Less
  <2> QED BY <1>1, WFMin
<1>3. PICK x \in S : \A y \in S : ~(<<y, x>> \in Less)
  BY <1>2
<1>4. \A y \in S : x <= y
  <2> TAKE y \in S
  <2>1. x \in Nat /\ y \in Nat
    OBVIOUS
  <2>2. ~(y < x)
    BY <1>3, <2>1
  <2> QED BY <2>1, <2>2
<1> QED
  BY <1>4 DEF Min

\* highest_prio (run_queue.c:147-152) answers with an occupied slot that no
\* other occupied slot precedes, whenever there is one.
LEMMA HighestPrioLeast ==
  ASSUME NEW list, DOMAIN list \subseteq Nat, Occupied(list) # {}
  PROVE  /\ HighestPrio(list) \in DOMAIN list
         /\ list[HighestPrio(list)] # NULL
         /\ \A p \in DOMAIN list : list[p] # NULL => HighestPrio(list) <= p
PROOF
<1>1. Occupied(list) \in SUBSET Nat
  BY DEF Occupied
<1>2. HighestPrio(list) \in Occupied(list) /\ \A p \in Occupied(list) : HighestPrio(list) <= p
  BY <1>1, MinOfNaturals DEF HighestPrio
<1> QED
  BY <1>2 DEF Occupied

\* An answer that is occupied and precedes every occupied slot is the answer.
LEMMA HighestPrioUnique ==
  ASSUME NEW list, DOMAIN list \subseteq Nat,
         NEW q \in DOMAIN list, list[q] # NULL,
         \A p \in DOMAIN list : list[p] # NULL => q <= p
  PROVE  HighestPrio(list) = q
PROOF
<1>1. q \in Occupied(list)
  BY DEF Occupied
<1>2. /\ HighestPrio(list) \in DOMAIN list
      /\ list[HighestPrio(list)] # NULL
      /\ HighestPrio(list) <= q
  BY <1>1, HighestPrioLeast
<1>3. q <= HighestPrio(list)
  BY <1>2
<1>4. q \in Nat /\ HighestPrio(list) \in Nat
  BY <1>2
<1> QED
  BY <1>2, <1>3, <1>4
=============================================================================
