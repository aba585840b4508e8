------------------------------ MODULE Numbers ------------------------------
(***************************************************************************)
(* libc/stdlib: numbers out of strings, and pseudo-random ones.  A string  *)
(* is the sequence of its characters' codes, without the 0 at its end.     *)
(***************************************************************************)
EXTENDS Strings

CONSTANTS
  Bits,    \* of a long: 32
  Inc,     \* of rand: 0xa859c317
  Turn     \* of rand: the bits by which it turns a word, 13

Full == 2 ^ Bits
Half == 2 ^ (Bits - 1)
Unsigned(v) == v % Full
Signed(v) == ((v + Half) % Full) - Half

CharOf(s, p) == IF p <= Len(s) THEN s[p] ELSE 0
\* The first place from p on where the string has no character of that kind.
Past(s, p, Is(_)) ==
  CHOOSE q \in p .. Len(s) + 1 : ~Is(CharOf(s, q)) /\ \A r \in p .. q - 1 : Is(CharOf(s, r))

minus == 45
plus == 43
zero == 48

atol(s) ==
  FoldLeft(LAMBDA n, c : Signed(n * 10 + c - zero), 0, SubSeq(s, 1, Past(s, 1, isdigit) - 1))
atoi(s) == atol(s)

\* What a character is worth as a digit; every base is below 37.
Worth(c) ==
  IF isdigit(c) THEN c - 48
  ELSE IF islower(c) THEN c - 87
  ELSE IF isupper(c) THEN c - 55
  ELSE 99

\* 0x may stand before a number of base 16, and tells base 0 what it is.
Hex(s, p, base) == base \in {0, 16} /\ CharOf(s, p) = zero /\ CharOf(s, p + 1) \in {88, 120}

\* Mutant of Radix: a number with a 0 in front is decimal too.
RadixTenOnly(s, p, base) == IF Hex(s, p, base) THEN 16 ELSE IF base = 0 THEN 10 ELSE base
Radix(s, p, base) ==
  IF Hex(s, p, base) THEN 16
  ELSE IF base # 0 THEN base
  ELSE IF CharOf(s, p) = zero THEN 8 ELSE 10

\* The digits from p on, and where they end.
Digits(s, p, base) ==
  LET radix == Radix(s, p, base)
      start == IF Hex(s, p, base) THEN p + 2 ELSE p
      end == Past(s, start, LAMBDA c : Worth(c) < radix)
  IN  [v |-> FoldLeft(LAMBDA v, c : Unsigned(v * radix + Worth(c)), 0, SubSeq(s, start, end - 1)),
       end |-> end]

\* A plus sign is recognised and not passed over.
strtol(s, base) ==
  LET p == Past(s, 1, isspace)
      is_neg == CharOf(s, p) = minus
      n == Digits(s, IF is_neg THEN p + 1 ELSE p, base)
  IN  [n EXCEPT !.v = Signed(IF is_neg THEN -n.v ELSE n.v)]

strtoul(s, base) == Digits(s, Past(s, 1, isspace), base)

-----------------------------------------------------------------------------
turned(w) == (w * 2 ^ Turn + w \div 2 ^ (Bits - Turn)) % Full

\* Mutant of rand: the second word is not mixed in.
RandOneWord(seed) ==
  LET first == Unsigned(seed[1] + Inc)
  IN  [seed |-> <<first, Unsigned(first + first)>>, out |-> first % Half]

rand(seed) ==
  LET first == Unsigned(seed[1] + Inc + turned(seed[2]))
  IN  [seed |-> <<first, Unsigned(seed[2] + first)>>, out |-> first % Half]
srand(new_seed) == <<new_seed, new_seed>>
=============================================================================
