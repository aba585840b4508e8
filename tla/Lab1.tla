-------------------------------- MODULE Lab1 --------------------------------
(***************************************************************************)
(* The programs of lab 1: the search for the number that has no partner,   *)
(* the table of strTable in two versions of assembly, and the calculator.  *)
(***************************************************************************)
EXTENDS Integers, Sequences, SequencesExt

CONSTANT TableSize  \* 23: the places of the table of strTable

(* part2c.c *)

\* Mutant of Partnered: an element is taken for its own partner at the front.
PartneredByFirst(arr, i) == \E j \in DOMAIN arr : (j # i \/ j = 1) /\ arr[j] = arr[i]
Partnered(arr, i) == \E j \in DOMAIN arr : j # i /\ arr[j] = arr[i]

\* The last one without a partner.
oddball(arr) ==
  FoldLeft(LAMBDA result, i : IF Partnered(arr, i) THEN result ELSE arr[i], 0,
           [i \in DOMAIN arr |-> i])
\* OPTIMIZE1: the first one from the end.
oddball_optimize1(arr) ==
  LET alone == {i \in DOMAIN arr : ~Partnered(arr, i)}
  IN  IF alone = {} THEN 0 ELSE arr[CHOOSE i \in alone : \A j \in alone : j <= i]

\* Mutant of taken: a number may come a third time.
TakenThrice(arr, r) == Cardinality({j \in DOMAIN arr : arr[j] = r}) > 2
taken(arr, r) == Cardinality({j \in DOMAIN arr : arr[j] = r}) >= 2

\* rands: what rand returns, call by call (enough of them, or the array is short).
randGenerator(len, rands) ==
  LET value(r) == (r % (len \div 2 + 1)) + 1
      step(arr, r) == IF Len(arr) = len \/ taken(arr, value(r)) THEN arr ELSE Append(arr, value(r))
  IN  FoldLeft(step, <<>>, rands)

-----------------------------------------------------------------------------
(* strTable: a character goes to the place that is its remainder. *)

\* Three conditional subtractions, then one conditional addition.
place(c) ==
  LET less(x) == IF x >= 0 THEN x - TableSize ELSE x
      x == less(less(less(c)))
  IN  IF x < 0 THEN x + TableSize ELSE x

\* Mutant of place2: the remainder that is 0 is the whole table's size.
PlaceOneShort(c) == IF c % TableSize = 0 THEN TableSize ELSE c % TableSize
\* Subtract, and again while it is greater than 22.
place2(c) == IF c < TableSize THEN c - TableSize ELSE c % TableSize

Entered(table, string, limit, P(_)) ==
  FoldLeft(LAMBDA t, c : IF P(c) > limit THEN t ELSE [t EXCEPT ![P(c)] = c], table, string)
strTable(table, string, limit) == Entered(table, string, limit, place)
strTable2(table, string, limit) == Entered(table, string, limit, place2)

-----------------------------------------------------------------------------
(* calc.c, with math.c: division rounds towards zero, and by zero is 0. *)

Abs(x) == IF x < 0 THEN -x ELSE x
cdiv(x, y) ==
  IF y = 0 THEN 0
  ELSE IF (x < 0) = (y < 0) THEN Abs(x) \div Abs(y) ELSE -(Abs(x) \div Abs(y))
mod(x, y) == IF y = 0 THEN 0 ELSE x - y * cdiv(x, y)
answer(l) ==
  CASE l.ch = "+" -> l.a + l.b [] l.ch = "-" -> l.a - l.b [] l.ch = "*" -> l.a * l.b
    [] l.ch = "/" -> cdiv(l.a, l.b) [] OTHER -> mod(l.a, l.b)
\* The answers up to the first line that is no calculation.
calc(lines) ==
  LET bad == {k \in DOMAIN lines : lines[k].ch \notin {"+", "-", "*", "/", "%"}}
  IN  [k \in 1 .. (IF bad = {} THEN Len(lines) ELSE (CHOOSE k \in bad : \A j \in bad : k <= j) - 1) |->
         answer(lines[k])]
=============================================================================
