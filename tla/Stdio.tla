------------------------------- MODULE Stdio -------------------------------
(***************************************************************************)
(* libc/stdio on top of _doprnt: what printf makes the console show, what  *)
(* sprintf leaves in memory, _doscan with sscanf, and hexdump.             *)
(***************************************************************************)
EXTENDS Format

(* printf.c: st has the characters kept back in buf, and those shown. *)

\* putchar writes the whole int c is in.
putchar(c) == <<c, 0, 0, 0>>
puts(s) == s \o <<newline>>

flush(st) == [buf |-> <<>>, shown |-> st.shown \o st.buf]

\* Mutant of printf_char: a full buffer is shown and the character forgotten.
CharForgotten(st, c) ==
  IF c = newline THEN [buf |-> <<>>, shown |-> st.shown \o puts(st.buf)]
  ELSE IF c = 0 THEN [buf |-> <<>>, shown |-> flush(st).shown \o putchar(c)]
  ELSE IF Len(st.buf) >= PRINTF_BUFMAX - 1 THEN flush(st)
  ELSE [st EXCEPT !.buf = Append(@, c)]

printf_char(st, c) ==
  IF c = newline THEN [buf |-> <<>>, shown |-> st.shown \o puts(st.buf)]
  ELSE IF c = 0 \/ Len(st.buf) >= PRINTF_BUFMAX - 1
  THEN [buf |-> <<>>, shown |-> flush(st).shown \o putchar(c)]
  ELSE [st EXCEPT !.buf = Append(@, c)]

vprintf(fmt, args) ==
  flush(FoldLeft(printf_char, [buf |-> <<>>, shown |-> <<>>], doprnt(fmt, args, 0))).shown
printf(fmt, args) == vprintf(fmt, args)

(* sprintf.c: what is written, with the 0 after it, and the result. *)

SPRINTF_UNLIMITED == -1
\* A character that finds the maximum reached is dropped.
savechar(st, max, c) == IF max # SPRINTF_UNLIMITED /\ Len(st) = max THEN st ELSE Append(st, c)
saved(max, text) == FoldLeft(LAMBDA st, c : savechar(st, max, c), <<>>, text)

vsprintf(fmt, args) ==
  LET s == saved(SPRINTF_UNLIMITED, doprnt(fmt, args, 0))
  IN  [written |-> Append(s, 0), ret |-> Len(s)]
vsnprintf(size, fmt, args) ==
  LET s == saved(size, doprnt(fmt, args, 0)) IN [written |-> Append(s, 0), ret |-> Len(s)]
sprintf(fmt, args) == vsprintf(fmt, args)
snprintf(size, fmt, args) == vsnprintf(size, fmt, args)

-----------------------------------------------------------------------------
(* doscan.c.  An item is a character, or a directive with its letter and     *)
(* whether a * discards what it reads.                                       *)

Scans(conv, discard) == [lit |-> Percent, conv |-> conv, discard |-> discard]

\* Mutant of scan_number: the character after the number is taken too.
NumberWithoutUnget(s, p, base) ==
  LET neg == CharOf(s, p) = minus
      start == IF neg THEN p + 1 ELSE p
      end == Past(s, start, LAMBDA c : Worth(c) < base)
      n == FoldLeft(LAMBDA v, c : Signed(v * base + Worth(c)), 0, SubSeq(s, start, end - 1))
  IN  [v |-> Signed(IF neg THEN -n ELSE n), p |-> end + 1]

\* %d and %x: no blank is passed over, and no digit at all is the number 0.
scan_number(s, p, base) ==
  LET neg == CharOf(s, p) = minus
      start == IF neg THEN p + 1 ELSE p
      end == Past(s, start, LAMBDA c : Worth(c) < base)
      n == FoldLeft(LAMBDA v, c : Signed(v * base + Worth(c)), 0, SubSeq(s, start, end - 1))
  IN  [v |-> Signed(IF neg THEN -n ELSE n), p |-> end]

\* %s ends at a white-space character, and the 0 after the string is none: then
\* what follows the string is read (bound: just up to that place).
scan_string(s, p) ==
  LET spaces == {q \in p .. Len(s) : isspace(s[q])}
      end == IF spaces = {} THEN Len(s) + 2 ELSE Min(spaces)
  IN  [v |-> [q \in 1 .. end - p |-> CharOf(s, p + q - 1)], p |-> end]

\* st: the place in the string, the count, what was stored, and a mismatch.
scan_item(st, s, item) ==
  LET r == CASE item.conv = 100 -> scan_number(s, st.p, 10)
             [] item.conv = 120 -> scan_number(s, st.p, 16)
             [] OTHER           -> scan_string(s, st.p)
      reads == item.conv \in {100, 120, 115}
  IN  IF st.stopped THEN st
      ELSE IF isspace(item.lit)
      THEN [st EXCEPT !.p = Past(s, st.p, isspace)]
      ELSE IF item.lit # Percent
      THEN [st EXCEPT !.p = @ + 1, !.stopped = CharOf(s, st.p) # item.lit]
      ELSE [st EXCEPT !.p = IF reads THEN r.p ELSE @,
                      !.stored = IF reads /\ ~item.discard THEN Append(@, r.v) ELSE @,
                      !.vals = IF item.discard THEN @ ELSE @ + 1]

doscan(s, fmt) ==
  FoldLeft(LAMBDA st, item : scan_item(st, s, item),
           [p |-> 1, vals |-> 0, stored |-> <<>>, stopped |-> FALSE], fmt)
sscanf(s, fmt) == doscan(s, fmt)

-----------------------------------------------------------------------------
(* hexdump.c: the lines of the dump of b. *)

frame(corner) == <<corner>> \o Pad(minus, 75) \o <<corner, newline>>

\* One byte: two digits, with a blank in front of each fourth.
dumped(b, j) ==
  When(j % 4 = 0, <<blank>>)
    \o IF j >= Len(b) THEN Pad(blank, 2) ELSE doprnt(<<Directive(120, <<>>, zero, 2, -1, 0)>>, <<b[j + 1]>>, 0)
shown_as(b, j) == IF j >= Len(b) THEN blank ELSE IF isgraph(b[j + 1]) THEN b[j + 1] ELSE 46

row(b, i) ==
  <<124, blank>> \o doprnt(<<Directive(120, <<>>, zero, 8, -1, 1)>>, <<i>>, 0) \o Pad(blank, 6)
    \o FlattenSeq([k \in 1 .. 16 |-> dumped(b, i + k - 1)])
    \o Pad(blank, 7) \o [k \in 1 .. 16 |-> shown_as(b, i + k - 1)] \o <<blank, 124, newline>>

hexdump(b) ==
  <<frame(46)>> \o [k \in 1 .. (Len(b) + 15) \div 16 |-> row(b, 16 * (k - 1))] \o <<frame(96)>>
=============================================================================
