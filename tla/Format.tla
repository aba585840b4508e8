------------------------------- MODULE Format -------------------------------
(***************************************************************************)
(* libc/stdio: _doprnt and the printf that are built on it, _doscan and    *)
(* sscanf, and hexdump.  A format is a sequence of items, each an ordinary *)
(* character or what a % introduces; text is a sequence of ASCII codes.    *)
(***************************************************************************)
EXTENDS Numbers

CONSTANT PRINTF_BUFMAX  \* 128

Percent == 37
blank == 32
newline == 10
Star == -2  \* the width or the precision is in the arguments

Char(c) == [lit |-> c]
Directive(conv, flags, padc, width, prec, longopt) ==
  [lit |-> Percent, conv |-> conv, flags |-> flags, padc |-> padc, width |-> width,
   prec |-> prec, longopt |-> longopt]

Pad(c, k) == [j \in 1 .. (IF k > 0 THEN k ELSE 0) |-> c]
When(cond, text) == IF cond THEN text ELSE <<>>

digs(d) == IF d < 10 THEN d + 48 ELSE d + 87
RECURSIVE printnum(_, _)
printnum(u, base) ==
  IF u < base THEN <<digs(u)>> ELSE Append(printnum(u \div base, base), digs(u % base))
\* All the digits of a word: eight where a long has 32 bits.
printnum_16(u) == [k \in 1 .. Bits \div 4 |-> digs((u \div 2 ^ (Bits - 4 * k)) % 16)]

\* The flags, the width and the precision of a directive, and the arguments left.
\* A negative width from the arguments turns the adjustment round.
Settings(d, args) ==
  LET asks == d.width = Star
      given == IF asks THEN Head(args) ELSE d.width
      rest == IF asks THEN Tail(args) ELSE args
  IN  [altfmt |-> 35 \in ToSet(d.flags),
       ladjust |-> (minus \in ToSet(d.flags)) # (asks /\ given < 0),
       plus_sign |-> IF plus \in ToSet(d.flags) THEN <<plus>>
                     ELSE When(blank \in ToSet(d.flags), <<blank>>),
       padc |-> d.padc,
       length |-> IF given < 0 THEN -given ELSE given,
       prec |-> IF d.prec = Star THEN Head(rest) ELSE d.prec,
       longopt |-> d.longopt,
       args |-> IF d.prec = Star THEN Tail(rest) ELSE rest]

\* Mutant of print_num: the sign takes no room.
PrintNumSignFree(f, sign, u, base) ==
  LET num == printnum(u, base)
      prefix == IF u = 0 \/ ~f.altfmt THEN <<>>
                ELSE IF base = 8 THEN <<zero>> ELSE When(base = 16, <<zero, 120>>)
      room == f.length - Len(num) - Len(prefix)
  IN  When(f.padc = blank /\ ~f.ladjust, Pad(blank, room)) \o sign \o prefix
        \o When(f.padc = zero, Pad(zero, room)) \o num
        \o When(f.padc = blank /\ f.ladjust, Pad(blank, room))

\* Zeros come after the sign and the prefix, whatever the adjustment.
print_num(f, sign, u, base) ==
  LET num == printnum(u, base)
      prefix == IF u = 0 \/ ~f.altfmt THEN <<>>
                ELSE IF base = 8 THEN <<zero>> ELSE When(base = 16, <<zero, 120>>)
      room == f.length - Len(num) - Len(prefix) - Len(sign)
  IN  When(f.padc = blank /\ ~f.ladjust, Pad(blank, room)) \o sign \o prefix
        \o When(f.padc = zero, Pad(zero, room)) \o num
        \o When(f.padc = blank /\ f.ladjust, Pad(blank, room))

\* A long, or a long long of twice its bits.
Word(f) == IF f.longopt > 1 THEN Full * Full ELSE Full

print_signed(f, arg, base) ==
  LET w == Word(f)
      n == ((arg + w \div 2) % w) - w \div 2
  IN  IF n >= 0 THEN print_num(f, f.plus_sign, n, base)
      ELSE print_num(f, <<minus>>, -n, base)
print_unsigned(f, arg, base) == print_num(f, <<>>, arg % Word(f), base)

\* %s.  The loop that copies counts one character more where the precision
\* stops it.
print_string(f, p) ==
  LET shown == IF f.prec = -1 \/ Len(p) <= f.prec THEN p
               ELSE SubSeq(p, 1, f.prec)
      counted == IF Len(shown) < Len(p) THEN Len(shown) + 1 ELSE Len(shown)
  IN  When(~f.ladjust, Pad(blank, f.length - Len(shown))) \o shown
        \o When(f.ladjust, Pad(blank, f.length - counted))

\* %b: the names of the bits that are set, and of fields with their values.
RECURSIVE names(_, _, _, _, _)
names(u, base, p, at, any) ==
  LET i == CharOf(p, at)
      field == CharOf(p, at + 1) <= blank
      j == CharOf(p, at + 1)
      start == IF field THEN at + 2 ELSE at + 1
      end == Past(p, start, LAMBDA c : c > blank)
      name == <<IF any THEN 44 ELSE 60>> \o SubSeq(p, start, end - 1)
      set == (u \div 2 ^ (i - 1)) % 2 = 1
  IN  IF i = 0 THEN When(any, <<62>>)
      ELSE IF field
      THEN name \o printnum((u \div 2 ^ (j - 1)) % 2 ^ (i - j + 1), base)
             \o names(u, base, p, end, TRUE)
      ELSE When(set, name) \o names(u, base, p, end, any \/ set)

\* Mutant of print_bits: a comma in front of the first name too.
BitsOpenLate(u, p) == printnum(u, p[1]) \o When(u # 0, names(u, p[1], p, 2, TRUE))
print_bits(u, p) == printnum(u, p[1]) \o When(u # 0, names(u, p[1], p, 2, FALSE))

\* %t, an L4 thread: [task, lthread, high, low].
print_thread(f, tid) ==
  LET brackets == IF f.altfmt THEN 2 ELSE 0
      open == When(f.altfmt, <<91>>)
      close == When(f.altfmt, <<93>>)
      task == printnum(tid.task, 16)
      lthread == printnum(tid.lthread, 16)
      m == Len(lthread)
      n == brackets + Len(task) + 1
      front == IF f.ladjust THEN 0 ELSE f.length - n - 2
      rest == f.length - m - n - (IF front > 0 THEN front ELSE 0)
      long == open \o printnum_16(tid.high) \o <<58>> \o printnum_16(tid.low) \o close
      room == f.length - Len(long)
  IN  IF f.longopt > 0
      THEN When(~f.ladjust, Pad(blank, room)) \o long \o When(f.ladjust, Pad(blank, room))
      ELSE When(f.padc = blank, Pad(blank, front)) \o open \o When(f.padc = zero, Pad(zero, front))
             \o task \o <<46>> \o When(~f.ladjust, Pad(f.padc, rest)) \o lthread \o close
             \o When(f.ladjust, Pad(blank, rest))

\* The upper-case letters differ only where _doprnt_truncates is set: never.
Radices == 111 :> 8 @@ 79 :> 8 @@ 100 :> 10 @@ 68 :> 10 @@ 117 :> 10 @@ 85 :> 10
             @@ 120 :> 16 @@ 88 :> 16 @@ 122 :> 16 @@ 90 :> 16
SignedConvs == {100, 68, 122, 90, 114, 82}
RadixConvs == {114, 82, 110, 78}

\* What one directive prints, and the arguments it leaves.
convert(d, args, radix) ==
  LET f == Settings(d, args)
      arg == Head(f.args)
      numeric == d.conv \in DOMAIN Radices \cup RadixConvs
      base == IF d.conv \in RadixConvs THEN radix ELSE Radices[d.conv]
      text == CASE numeric /\ d.conv \in SignedConvs -> print_signed(f, arg, base)
                [] numeric /\ d.conv \notin SignedConvs -> print_unsigned(f, arg, base)
                [] d.conv \in {98, 66} -> print_bits(arg, f.args[2])
                [] d.conv = 99  -> <<arg>>
                [] d.conv = 116 -> print_thread(f, arg)
                [] d.conv = 115 -> print_string(f, arg)
                [] d.conv = 112 -> <<zero, 120>> \o
                     print_unsigned([f EXCEPT !.padc = zero, !.length = Bits \div 4], arg, 16)
                [] d.conv = 0   -> <<>>
                [] OTHER        -> <<d.conv>>
      taken == IF d.conv \in {98, 66} THEN 2
               ELSE IF numeric \/ d.conv \in {99, 112, 115, 116} THEN 1 ELSE 0
  IN  [out |-> text, args |-> SubSeq(f.args, taken + 1, Len(f.args))]

doprnt(fmt, args, radix) ==
  FoldLeft(LAMBDA acc, item :
             IF item.lit # Percent THEN [acc EXCEPT !.out = Append(@, item.lit)]
             ELSE LET r == convert(item, acc.args, radix)
                  IN  [out |-> acc.out \o r.out, args |-> r.args],
           [out |-> <<>>, args |-> args], fmt).out
=============================================================================
