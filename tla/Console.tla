------------------------------ MODULE Console ------------------------------
(***************************************************************************)
(* The system calls read and write of the three kernels, on the keyboard   *)
(* and the console of U-Boot, and the tasks of labs 2 and 3 that use them. *)
(* A buffer is the memory from an address on: a function of the offset.    *)
(***************************************************************************)
EXTENDS Stdio

CONSTANTS
  START_SDRAM,  \* 0xa0000000
  END_SDRAM,    \* 0xa3ffffff
  END_STRATA    \* 0x00ffffff; the flash begins at 0

STDIN_FILENO == 0
STDOUT_FILENO == 1
EBADF == 9
EFAULT == 14

\* Ending a line, erasing its last character, ending the input.
NEW_LINES == {10, 13}
ERASERS == {8, 127}
ENDS == {0, 4}

PutAt(buf, k, c) == [buf EXCEPT ![k] = c]

\* Mutant of erased: it stays on the screen.
ErasedUnseen(st) == [st EXCEPT !.count = @ - 1, !.buf = PutAt(@, st.count - 1, 0)]
erased(st) == [st EXCEPT !.count = @ - 1, !.buf = PutAt(@, st.count - 1, 0), !.echo = @ \o <<8, 32, 8>>]

\* Mutant of line_ended: the end of the line is not counted.
LineUncounted(st) ==
  [st EXCEPT !.echo = Append(@, newline), !.done = TRUE,
             !.buf = PutAt(PutAt(@, st.count, newline), st.count + 1, 0)]
\* The 0 after the line may be the byte after len.
line_ended(st) ==
  [st EXCEPT !.count = @ + 1, !.echo = Append(@, newline), !.done = TRUE,
             !.buf = PutAt(PutAt(@, st.count, newline), st.count + 1, 0)]

\* Mutant of filled: one more is taken.
FilledLate(st, len) == st.count > len
filled(st, len) == st.count >= len

\* One turn of the loop in read.
key(st, ch, len) ==
  LET next == [st EXCEPT !.used = @ + 1]
  IN  IF st.done \/ filled(st, len) THEN st
      ELSE IF ch \in ENDS THEN [next EXCEPT !.done = TRUE]
      ELSE IF ch \in ERASERS THEN (IF st.count = 0 THEN next ELSE erased(next))
      ELSE IF ch \in NEW_LINES THEN line_ended(next)
      ELSE [next EXCEPT !.count = @ + 1, !.buf = PutAt(@, st.count, ch), !.echo = Append(@, ch)]

\* The address is looked at after the bytes have been written to it.
READ(fd, addr, len, keys, buf) ==
  LET start == [used |-> 0, count |-> 0, buf |-> buf, echo |-> <<>>, done |-> FALSE]
      st == IF fd = STDIN_FILENO THEN FoldLeft(LAMBDA s, ch : key(s, ch, len), start, keys)
            ELSE start
      ret == IF addr + st.count >= END_SDRAM \/ addr < START_SDRAM THEN -EFAULT
             ELSE IF fd = STDIN_FILENO THEN st.count ELSE -EBADF
  IN  [ret |-> ret, buf |-> st.buf, echo |-> st.echo, count |-> st.count, used |-> st.used]

\* len is a size_t, so that a negative one is no bound (here: that of all keys).
read_syscall(fd, addr, len, keys, buf) ==
  READ(fd, addr, IF len < 0 THEN Len(keys) + 1 ELSE len, keys, buf)

lab2_READ(fd, addr, len, keys, buf) == READ(fd, addr, len, keys, buf)

\* The characters of buf that the console shows.
shows(buf, count) == [k \in 1 .. (IF count > 0 THEN count ELSE 0) |-> buf[k - 1]]
Writable(addr) == (addr < END_SDRAM /\ addr >= START_SDRAM) \/ addr < END_STRATA

\* Mutant of write_syscall: as lab 3 does.
WriteAnywhere(fd, addr, len, buf) ==
  IF fd = STDOUT_FILENO THEN [ret |-> len, shown |-> shows(buf, len)]
  ELSE [ret |-> -EBADF, shown |-> <<>>]

write_syscall(fd, addr, len, buf) ==
  IF ~Writable(addr) THEN [ret |-> -EFAULT, shown |-> <<>>]
  ELSE IF fd = STDOUT_FILENO THEN [ret |-> len, shown |-> shows(buf, len)]
  ELSE [ret |-> -EBADF, shown |-> <<>>]

\* The result -EFAULT is overwritten.
WRITE(fd, addr, len, buf) ==
  IF fd = STDOUT_FILENO THEN [ret |-> IF len > 0 THEN len ELSE 0, shown |-> shows(buf, len)]
  ELSE [ret |-> -EBADF, shown |-> <<>>]

\* The loop goes on while count <= len, and every address passes the test.
lab2_WRITE(fd, addr, len, buf) ==
  LET count == IF len > 0 THEN len + 1 ELSE 0
  IN  IF fd = STDOUT_FILENO THEN [ret |-> count, shown |-> shows(buf, count)]
      ELSE [ret |-> -EBADF, shown |-> <<>>]

\* libc/swi: a negative result becomes -1, and errno its absolute value.
Stubbed(r, errno) == IF r < 0 THEN [ret |-> -1, errno |-> -r] ELSE [ret |-> r, errno |-> errno]
read(r, errno) == Stubbed(r, errno)
write(r, errno) == Stubbed(r, errno)
lab2_read(r, errno) == Stubbed(r, errno)
lab2_write(r, errno) == Stubbed(r, errno)

\* Mutant of valid_addr: a region may wrap round.
AddrMayWrap(start, count, base, bound) ==
  start >= base /\ start < bound /\ Unsigned(start + count) <= bound

\* memcheck.c: the addresses are words of Bits bits.
valid_addr(start, count, base, bound) ==
  LET mem_end == Unsigned(start + count)
  IN  start >= base /\ start < bound /\ mem_end >= start /\ mem_end <= bound

-----------------------------------------------------------------------------
(* The tasks *)

\* Mutant of rot: the last letter of the first half is left out.
RotShort(c) ==
  IF c \in 65 .. 76 \cup 97 .. 108 THEN c + 13
  ELSE IF c \in 78 .. 90 \cup 110 .. 122 THEN c - 13 ELSE c

rot(c) ==
  IF c \in 65 .. 77 \cup 97 .. 109 THEN c + 13
  ELSE IF c \in 78 .. 90 \cup 110 .. 122 THEN c - 13 ELSE c

\* A round of rot13: what read and the two writes of the cipher return.
\* lab 2 tries a second time and then looks at the first result.
lab2_rot13(len, errcheck, again) ==
  IF len = 0 THEN "exit 0" ELSE IF len = -1 THEN "exit 1"
  ELSE IF errcheck = -1 THEN "exit 1" ELSE "next"
\* lab 3 tries until everything is written.
rot13(len, errcheck, again) ==
  IF len = 0 THEN "exit 0" ELSE IF len = -1 THEN "exit 1"
  ELSE IF errcheck < len /\ again < len THEN "retries" ELSE "next"

Texts(buf, from) == {k \in DOMAIN buf : k >= from /\ buf[k] = 0}
\* The string at the front of a buffer; without a 0 in it, more than the buffer.
AsString(buf) == IF Texts(buf, 0) = {} THEN shows(buf, Cardinality(DOMAIN buf))
              ELSE shows(buf, Min(Texts(buf, 0)))

\* Mutant of typo: the buffer is not cleared.
TypoUncleared(buf, len, keys) ==
  LET k == IF Texts(buf, 0) = {} THEN len ELSE Min(Texts(buf, 0))
      r == READ(STDIN_FILENO, START_SDRAM, len, keys, buf)
  IN  [printed |-> AsString(r.buf), count |-> r.count, cleared |-> k, buf |-> r.buf]

\* typo: the buffer is cleared up to its first 0 only.
typo(buf, len, keys) ==
  LET k == IF Texts(buf, 0) = {} THEN len ELSE Min(Texts(buf, 0))
      cleared == [j \in DOMAIN buf |-> IF j < k THEN 0 ELSE buf[j]]
      r == READ(STDIN_FILENO, START_SDRAM, len, keys, cleared)
  IN  [printed |-> AsString(r.buf), count |-> r.count, cleared |-> k, buf |-> r.buf]

\* test: the number typed, in milliseconds.
alarm(buf, len, keys) ==
  Unsigned(atol(AsString(READ(STDIN_FILENO, START_SDRAM, len, keys, buf).buf)) * 1000)
=============================================================================
