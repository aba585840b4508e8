------------------------------- MODULE MCBoot -------------------------------
(***************************************************************************)
(* Nineteen words of memory: the vectors at 2 and 6, the words that an LDR *)
(* in them loads at 5, 7, 11 and 1, and four handlers of two words.        *)
(***************************************************************************)
EXTENDS Boot

MCInst == [v \in Vectors |-> [up \in BOOLEAN |-> (IF up THEN 12 ELSE 16) + (IF v = SWI_VECTOR THEN 0 ELSE 2)]]
=============================================================================
