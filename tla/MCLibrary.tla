----------------------------- MODULE MCLibrary -----------------------------
(***************************************************************************)
(* The routines that keep no state, called with every input of small sets: *)
(* a state is a call with its result, and the properties compare it with   *)
(* what the routine is for.                                                *)
(***************************************************************************)
EXTENDS Console, Admission, Lab1, PrioUnmap

VARIABLE call

idle == [of |-> "none"]
Calls(f, Inputs, Result(_)) ==
  \E in \in Inputs : call' = [of |-> f, in |-> in, out |-> Result(in)]

UpTo(S, n) == SeqOf(S, n)
Words2 == UpTo({1, 2}, 3)  \* strings of the two characters 1 and 2

\* x, y, each with its 0, and then bytes 3; the second string begins behind the first.
Memory(x, y) ==
  LET s == Append(x, 0) \o Append(y, 0)
  IN  [p \in 0 .. Top |-> IF p < Len(s) THEN s[p + 1] ELSE 3]
Behind(x) == Len(x) + 1

Readers(in) ==
  LET m == Memory(in.x, in.y)
      b == Behind(in.x)
  IN  [strlen |-> strlen(m, 0), strchr |-> strchr(m, 0, in.n), strrchr |-> strrchr(m, 0, in.n),
       strspn |-> strspn(m, 0, b), strcspn |-> strcspn(m, 0, b), strpbrk |-> strpbrk(m, 0, b),
       strcmp |-> strcmp(m, 0, b), strncmp |-> strncmp(m, 0, b, in.n), strstr |-> strstr(m, 0, b)]

\* y is the source, and x stands where it is written to.
Writers(in) ==
  LET m == Memory(in.y, in.x)
      to == Behind(in.y)
  IN  [strcpy |-> strcpy(m, to, 0), strcat |-> strcat(m, to, 0),
       strncpy |-> strncpy(m, to, 0, in.n), strncat |-> strncat(m, to, 0, in.n),
       memset |-> memset(m, to, 9, in.n)]

Numbered == [p \in 0 .. Top |-> p + 10]

Items(in) == <<Directive(in.conv, in.flags, in.padc, in.width, in.prec, in.longopt)>>
Arguments(in) == IF in.width = Star THEN <<-6, in.arg>> ELSE <<in.arg>>
Prints(in) == doprnt(Items(in), Arguments(in), 10)

FlagSets == {<<>>, <<35>>, <<minus>>, <<plus>>, <<blank>>, <<blank, plus>>, <<35, minus>>}
Numerals ==
  [conv : {100, 117, 111, 120, 122}, flags : FlagSets, padc : {blank, zero}, width : {0, 3, 6, Star},
   prec : {-1}, longopt : {0, 2}, arg : {-128, -127, -10, -1, 0, 1, 7, 8, 100, 127}]
Texts2 ==
  [conv : {115}, flags : {<<>>, <<minus>>}, padc : {blank, zero}, width : {0, 2, 5, Star},
   prec : {-1, 0, 2}, longopt : {0}, arg : UpTo({97}, 4)]
Threads ==
  [conv : {116}, flags : {<<>>, <<35>>, <<minus>>, <<35, minus>>}, padc : {blank, zero},
   width : {0, 5, 9, 12}, prec : {-1}, longopt : {0, 1},
   arg : [task : {0, 15, 16, 256}, lthread : {1, 15, 16}, high : {3}, low : {200}]]

\* Two bits by the names A and B; a field of bits 4 and 3 by the name F, and A and B.
BitNames == {<<8, 2, 65, 1, 66>>, <<16, 4, 3, 70, 2, 65, 1, 66>>}

Pairs(in) ==
  LET s == sprintf(<<Directive(100, <<>>, blank, 0, -1, 0), Char(44), Directive(122, <<>>, blank, 3, -1, 1)>>,
                   <<in.a, in.b>>)
  IN  sscanf(SubSeq(s.written, 1, s.ret), <<Scans(100, FALSE), Char(44), Char(blank), Scans(120, FALSE)>>)

Typed == [keys : {Append(k, 4) : k \in UpTo({97, 98, 8, 10}, 5)}, len : 0 .. 3]
Untouched == [k \in 0 .. 6 |-> -1]
Garbage == [0 .. 3 -> {0, 55}]

TaskSets == UpTo([C : 0 .. 2, B : 0 .. 1, T : {0, 2, 3, 6}], 2)
             \cup [1 .. 3 -> [C : {1, 2}, B : {0, 1}, T : {3, 6, 12}]]

-----------------------------------------------------------------------------
Init == call = idle

Return == call # idle /\ call' = idle

LibraryCall ==
  \/ Calls("ctype", -1 .. 128, LAMBDA c : [upper |-> toupper(c), lower |-> tolower(c)])
  \/ Calls("readers", [x : Words2, y : Words2, n : 0 .. 4], Readers)
  \/ Calls("writers", [x : Words2, y : Words2, n : 0 .. 4], Writers)
  \/ Calls("memcpy", [dest : 0 .. 5, src : 0 .. 5, n : 0 .. 4],
           LAMBDA in : memcpy(Numbered, in.dest, in.src, in.n))
  \/ Calls("printf", UpTo({97, 0, newline}, 5),
           LAMBDA text : printf([k \in DOMAIN text |-> Char(text[k])], <<>>))
  \/ Calls("snprintf", [text : UpTo({97, 98}, 4), size : 0 .. 5],
           LAMBDA in : snprintf(in.size, <<Directive(115, <<>>, blank, 0, -1, 0)>>, <<in.text>>))
  \/ Calls("numeral", Numerals, Prints)
  \/ Calls("text", Texts2, Prints)
  \/ Calls("thread", Threads, Prints)
  \/ Calls("bits", [u : 0 .. 15, names : BitNames],
           LAMBDA in : doprnt(<<Directive(98, <<>>, blank, 0, -1, 0)>>, <<in.u, in.names>>, 10))
  \/ Calls("sscanf", [a : -20 .. 20, b : {-128, -30, -1, 0, 5, 31, 127}], Pairs)
  \/ Calls("hexdump", {[k \in 1 .. n |-> 7 * k] : n \in 0 .. 33}, hexdump)
  \/ Calls("rand", (0 .. Full - 1) \X (0 .. 15), rand)
  \/ Calls("srand", 0 .. 9, LAMBDA n : rand(srand(n)))

ConsoleCall ==
  \/ Calls("read", Typed, LAMBDA in : read_syscall(0, START_SDRAM, in.len, in.keys, Untouched))
  \/ Calls("READ", [fd : 0 .. 1, addr : 0 .. 16, len : {-1, 2}, keys : {<<97, 98>>}],
           LAMBDA in : LET r == lab2_READ(in.fd, in.addr, in.len, in.keys, Untouched)
                       IN  [stub |-> lab2_read(r.ret, 0), buf |-> r.buf])
  \/ Calls("write", [fd : 0 .. 2, addr : 0 .. 16, len : 0 .. 3],
           LAMBDA in : LET buf == [k \in 0 .. 6 |-> 65 + k]
                       IN  [lab4 |-> write_syscall(in.fd, in.addr, in.len, buf),
                            lab3 |-> WRITE(in.fd, in.addr, in.len, buf),
                            lab2 |-> lab2_WRITE(in.fd, in.addr, in.len, buf)])
  \/ Calls("valid_addr", [start : {0, 1, 100, 109, 119, 254, 255}, count : {0, 1, 2, 10, 156, 255},
                          base : {0, 100}, bound : {110, 120, 255}],
           LAMBDA in : valid_addr(in.start, in.count, in.base, in.bound))
  \/ Calls("rot13", [len : -1 .. 2, errcheck : -1 .. 2, again : -1 .. 2],
           LAMBDA in : [lab2 |-> lab2_rot13(in.len, in.errcheck, in.again),
                        lab3 |-> rot13(in.len, in.errcheck, in.again)])
  \/ Calls("rot", 0 .. 127, rot)
  \/ Calls("typo", [buf : Garbage, keys : {Append(k, 4) : k \in UpTo({97, 8, newline}, 4)}],
           LAMBDA in : typo([k \in 0 .. 6 |-> IF k < 4 THEN in.buf[k] ELSE 99], 3, in.keys))
  \/ Calls("alarm", [buf : Garbage, digits : UpTo({48, 50, 57}, 2)],
           LAMBDA in : alarm(in.buf, 3, Append(in.digits, newline)))

KernelCall ==
  \/ Calls("task_create", TaskSets,
           LAMBDA tasks : LET s == task_order(tasks) IN [order |-> s, ok |-> assign_schedule(s)])
  \/ Calls("ilog2", 0 .. 255, LAMBDA x : <<ilog2(x), ilog2_fast(x)>>)
  \/ Calls("sum_region", [1 .. 3 -> {0, 1, 200}], sum_region)
  \/ Calls("prio_unmap", 0 .. 255, Lookup)

Lab1Call ==
  \/ Calls("oddball", [len : {3, 5}, rands : [1 .. 7 -> 0 .. 2]],
           LAMBDA in : LET arr == randGenerator(in.len, in.rands)
                       IN  [arr |-> arr, one |-> oddball(arr), two |-> oddball_optimize1(arr)])
  \/ Calls("strTable", [string : UpTo({65, 69, 70, 90, 97}, 3), limit : {0, 10, 22}],
           LAMBDA in : LET empty == [k \in 0 .. TableSize - 1 |-> 0]
                       IN  <<strTable(empty, in.string, in.limit), strTable2(empty, in.string, in.limit)>>)
  \/ Calls("calc", UpTo([a : {-7, 6}, ch : {"+", "/", "%", "?"}, b : {-2, 0, 3}], 2), calc)

Next == (call = idle /\ (LibraryCall \/ ConsoleCall \/ KernelCall \/ Lab1Call)) \/ Return

Spec == Init /\ [][Next]_call

Is(f) == call.of = f
in == call.in
out == call.out

-----------------------------------------------------------------------------
(* The properties.  Each compares what the code computes with a definition   *)
(* that does not follow its steps.                                           *)

\* ctype.h: every ASCII character is of exactly one of six kinds, and toupper
\* and tolower undo each other on the letters and leave the rest alone.
CharClasses ==
  Is("ctype") =>
    LET kinds == <<iscntrl(in), in = blank, ispunct(in), isdigit(in), isupper(in), islower(in)>>
    IN  /\ isascii(in) => Cardinality({k \in DOMAIN kinds : kinds[k]}) = 1
        /\ out.upper # in <=> islower(in)
        /\ out.lower # in <=> isupper(in)
        /\ {toupper(out.lower), tolower(out.upper)} \subseteq {in, out.upper, out.lower}
        /\ isalpha(in) => toupper(out.lower) = out.upper /\ tolower(out.upper) = out.lower

\* The sign of a comparison of two strings, as the order of words in a dictionary.
Before(x, y) ==
  \/ IsStrictPrefix(x, y)
  \/ \E k \in DOMAIN x \cap DOMAIN y : x[k] < y[k] /\ SubSeq(x, 1, k - 1) = SubSeq(y, 1, k - 1)
Sign(r, x, y) == (r < 0 <=> Before(x, y)) /\ (r > 0 <=> Before(y, x))
Cut(x, n) == SubSeq(x, 1, IF n < Len(x) THEN n ELSE Len(x))
\* The length of the longest front of x with characters of S only.
Span(x, S) == CHOOSE k \in 0 .. Len(x) :
  /\ ToSet(Cut(x, k)) \subseteq S
  /\ k < Len(x) => x[k + 1] \notin S
Occurs(x, y) == {k \in 0 .. Len(x) - Len(y) : SubSeq(x, k + 1, k + Len(y)) = y}

\* The routines of libc/string that read find, for every two strings, the place,
\* the length or the order that their strings have.
ReadersRight ==
  Is("readers") =>
    LET x == in.x
        y == in.y
        n == in.n
        places == {k \in DOMAIN x : x[k] = n}
    IN  /\ out.strlen = Len(x)
        /\ out.strchr = IF n = 0 THEN Len(x) ELSE IF places = {} THEN Null ELSE Min(places) - 1
        /\ out.strrchr = IF places = {} THEN Null ELSE Max(places) - 1
        /\ out.strspn = Span(x, ToSet(y))
        /\ out.strcspn = Span(x, {1, 2} \ ToSet(y))
        /\ out.strpbrk = IF out.strcspn = Len(x) THEN Null ELSE out.strcspn
        /\ Sign(out.strcmp, x, y) /\ Sign(out.strncmp, Cut(x, n), Cut(y, n))
        /\ out.strstr = IF Occurs(x, y) = {} THEN Null ELSE Min(Occurs(x, y))

\* The memory where s stands at the front of the destination of "writers", and
\* all else is as it was.
With(s) ==
  LET to == Behind(in.y)
      old == Memory(in.y, in.x)
  IN  [p \in 0 .. Top |-> IF p \in to .. to + Len(s) - 1 THEN s[p - to + 1] ELSE old[p]]
\* The routines that write leave the string they are to make, ended by a 0, and
\* touch no byte behind it; but strncpy (strncpy.c:51) clears the whole memory
\* behind the destination where the source is not shorter than count.
WritersRight ==
  Is("writers") =>
    /\ out.strcpy = With(Append(in.y, 0))
    /\ out.strcat = With(Append(in.x \o in.y, 0))
    /\ out.strncat = IF in.n = 0 THEN With(<<>>) ELSE With(Append(in.x \o Cut(in.y, in.n), 0))
    /\ out.memset = With(Pad(9, in.n))
    /\ out.strncpy = IF Len(in.y) < in.n THEN With(in.y \o Pad(0, in.n - Len(in.y)))
                     ELSE With(Cut(in.y, in.n) \o Pad(0, Top + 1 - Behind(in.y) - in.n))

\* memcpy, which is memmove: for every overlap of the two regions the destination
\* gets what the source held, and no other byte changes.
MovesKeep ==
  Is("memcpy") =>
    \A p \in 0 .. Top :
      out[p] = Numbered[IF p \in in.dest .. in.dest + in.n - 1 THEN p - in.dest + in.src ELSE p]

\* _doprnt: a field is as wide as its width asks, or as what it shows needs; but
\* a string that the precision cuts and that is adjusted to the left comes out one
\* short (doprnt.c:470).  The lines of hexdump.c are as wide as their frame.
FieldsFit ==
  /\ call.of \in {"numeral", "text", "thread"} =>
       LET natural == Len(Prints([in EXCEPT !.width = 0]))
           width == IF in.width = Star THEN 6 ELSE in.width
           left == (minus \in ToSet(in.flags)) # (in.width = Star)
           cut == call.of = "text" /\ left /\ in.prec >= 0 /\ Len(in.arg) > in.prec
       IN  Len(out) = Max({natural, IF cut THEN width - 1 ELSE width})
  /\ Is("hexdump") => \A k \in DOMAIN out : Len(out[k]) = 78 /\ Len(out) = 2 + (Len(in) + 15) \div 16

\* strtol and sscanf read back what printf and sprintf show of a number: with the
\* base given, and with base 0 where the text tells the base.  What strtol.c:35
\* finds behind a plus sign is 0.
ReadBack ==
  /\ Is("numeral") =>
       LET base == Radices[in.conv]
           signed == plus \in ToSet(in.flags) /\ in.conv \in SignedConvs /\ minus \notin ToSet(out)
           told == IF base = 10 THEN in.padc = blank ELSE 35 \in ToSet(in.flags)
           back(b) == Unsigned(strtol(out, b).v)
       IN  /\ back(base) = IF signed THEN 0 ELSE Unsigned(in.arg)
           /\ told /\ ~signed => back(0) = Unsigned(in.arg)
           /\ in.conv \notin SignedConvs => strtoul(out, base).v = Unsigned(in.arg)
  /\ Is("sscanf") => out.vals = 2 /\ out.stored = <<in.a, in.b>>

\* %b names exactly the bits that are set and every field with its value, between
\* angle brackets and with commas.
\* (The example of doprnt.c:101-103 leaves out BITTWO, whose bit is set in its 0xb: the
\* code shows b<FIELD1=2,BITTWO,BITONE>.)
BitsNamed ==
  Is("bits") =>
    LET bit(k) == (in.u \div 2 ^ (k - 1)) % 2 = 1
        all == IF in.names[2] = 4
               THEN <<<<70>> \o printnum(in.u \div 4, 16)>> \o When(bit(2), <<<<65>>>>) \o When(bit(1), <<<<66>>>>)
               ELSE When(bit(2), <<<<65>>>>) \o When(bit(1), <<<<66>>>>)
        listed == FlattenSeq([k \in DOMAIN all |-> <<IF k = 1 THEN 60 ELSE 44>> \o all[k]])
    IN  out = printnum(in.u, in.names[1]) \o When(in.u # 0 /\ all # <<>>, listed \o <<62>>)

Letters(s) == SelectSeq(s, LAMBDA c : c # 0)

\* printf shows every character it is given, in order, whatever the moments at which
\* its buffer is full (what goes through putchar is shown with three 0 behind it, the
\* rest of its int); snprintf leaves the
\* front of the text with a 0 behind it, and writes size + 1 bytes where the text is
\* longer than size (sprintf.c:74).
PrintedAll ==
  /\ Is("printf") => Letters(out) = Letters(in)
  /\ Is("snprintf") => out = [written |-> Append(Cut(in.text, in.size), 0), ret |-> Len(Cut(in.text, in.size))]

\* The keys that read took of those typed, and what they leave: a key stays unless
\* more are erased than typed at some time after it.
Taken == SubSeq(in.keys, 1, out.used)
Count(s, S) == Len(SelectSeq(s, LAMBDA c : c \in S))
Stays(k) ==
  /\ Taken[k] \notin ERASERS \cup ENDS
  /\ \A j \in k .. out.used :
       LET after == SubSeq(Taken, k + 1, j) IN 2 * Count(after, ERASERS) <= Len(after)
TheLine ==
  [k \in 1 .. Cardinality({j \in DOMAIN Taken : Stays(j)}) |->
     Taken[CHOOSE j \in DOMAIN Taken : Stays(j) /\ Cardinality({i \in 1 .. j : Stays(i)}) = k]]

\* read returns the number of characters of the line as it was edited, and they are
\* the front of the buffer: it stops at the end of the line or of the input, or when
\* the buffer is full, and not before the keys are all taken.
LineAsEdited ==
  Is("read") =>
    /\ out.ret = Len(TheLine) /\ shows(out.buf, out.ret) = TheLine
    /\ out.used = Len(in.keys) \/ out.ret = in.len \/ Taken[out.used] \in NEW_LINES \cup ENDS

\* A terminal: 8 moves back, any other character is written at the cursor.
Terminal(echo) ==
  FoldLeft(LAMBDA t, c : IF c = 8 THEN [t EXCEPT !.at = @ - 1]
                         ELSE [at |-> t.at + 1, line |-> (t.at :> c) @@ t.line],
           [at |-> 0, line |-> <<>>], echo)
\* What stands on the screen before the cursor is the line that read returns, with
\* blanks behind it.
ScreenShowsLine ==
  Is("read") =>
    LET t == Terminal(out.echo)
    IN  /\ t.at = out.ret
        /\ \A k \in DOMAIN t.line : t.line[k] = IF k < t.at THEN TheLine[k + 1] ELSE blank

\* read writes no byte behind its buffer, but for the 0 after a line that fills it
\* (io.c:63).
LineWithin ==
  Is("read") =>
    /\ \A k \in in.len + 1 .. 6 : out.buf[k] = Untouched[k]
    /\ out.buf[in.len] # Untouched[in.len] => out.buf[in.len] = 0 /\ Last(TheLine) = newline
    /\ out.ret <= in.len

\* What tasks may show: their memory and the flash.
TaskMemory == START_SDRAM .. END_SDRAM - 1 \cup 0 .. END_STRATA - 1

\* write of lab 4 shows bytes of the memory that tasks have, as many as it returns, and
\* tells the errors apart, with one exception: it looks at the address of the first byte
\* only, with the count at 0 (io.c:93-99), so that a buffer that begins in that memory is
\* shown to its end wherever that is.  The result that lab 3 has for an address outside is
\* overwritten (WRITE), and lab 2 shows one byte more than it is asked for.  A stub hands
\* every failure on as -1 with the number of the error.
WriteChecked ==
  Is("write") =>
    LET first == in.addr \in TaskMemory
        buffer == in.addr .. in.addr + in.len - 1
        shown == in.addr .. in.addr + Len(out.lab4.shown) - 1
        error == IF ~first THEN EFAULT ELSE IF in.fd # STDOUT_FILENO THEN EBADF ELSE 0
    IN  /\ write(out.lab4.ret, 0) = IF error = 0 THEN [ret |-> in.len, errno |-> 0]
                                    ELSE [ret |-> -1, errno |-> error]
        /\ shown = IF error = 0 THEN buffer ELSE {}
        /\ shown \subseteq TaskMemory \/ (first /\ ~(buffer \subseteq TaskMemory))
        /\ in.fd = STDOUT_FILENO => Len(out.lab3.shown) = in.len /\ out.lab3.ret = in.len
        /\ in.fd = STDOUT_FILENO /\ in.len > 0 => lab2_write(out.lab2.ret, 0).ret = in.len + 1

\* read refuses a buffer that does not lie in memory (the flash is not for reading into),
\* but only when it has written the line there: the address is looked at with the count
\* that the loop ends with (io.c:74-77), so that what is refused is written all the same.
ReadChecked ==
  Is("READ") =>
    LET n == IF in.fd = STDIN_FILENO /\ in.len > 0 THEN in.len ELSE 0
        outside == in.addr < START_SDRAM \/ in.addr + n >= END_SDRAM
    IN  /\ out.stub.errno = IF outside THEN EFAULT ELSE IF in.fd = STDIN_FILENO THEN 0 ELSE EBADF
        /\ out.buf = [k \in DOMAIN Untouched |-> IF k < n THEN in.keys[k + 1] ELSE Untouched[k]]

\* valid_addr accepts a region if and only if it begins within the bounds and all of
\* its bytes are within, for a count that wraps the address round too.
AddressesChecked ==
  Is("valid_addr") =>
    (out <=> in.start \in in.base .. in.bound - 1 /\ in.start + in.count <= in.bound)

\* The cipher is its own inverse, permutes the letters and keeps their case; a round
\* of lab 3 ends with all of the line written, and one of lab 2 may end without.
RotBack ==
  /\ Is("rot") => /\ rot(out) = in
                  /\ isupper(out) = isupper(in) /\ islower(out) = islower(in)
                  /\ isalpha(in) <=> out # in
  /\ Is("rot13") => /\ out.lab3 = "next" => in.errcheck >= in.len \/ in.again >= in.len
                    /\ out.lab2 = "exit 1" <=> in.len = -1 \/ (in.len > 0 /\ in.errcheck = -1)

\* typo prints the line it read: where that line is ended by a new line before the
\* buffer is full, or the buffer was cleared as far as the line goes (typo.c:25 and
\* :28); otherwise what the stack held there follows.  test takes the number typed.
TasksReadLines ==
  /\ Is("typo") =>
       LET line == shows(out.buf, out.count)
           ended == out.count > 0 /\ Last(line) = newline
       IN  /\ IsPrefix(line, out.printed)
           /\ ended \/ out.count < out.cleared => out.printed = line
  /\ Is("alarm") => out = Unsigned(1000 * (IF in.digits = <<>> THEN 0
                                          ELSE IF Len(in.digits) = 1 THEN in.digits[1] - 48
                                          ELSE 10 * in.digits[1] + in.digits[2] - 528))

\* The generator never merges two states: the state before is told by the one after;
\* and the numbers are below the largest.
RandReversible ==
  Is("rand") =>
    LET second == Unsigned(out.seed[2] - out.seed[1])
    IN  /\ in = <<Unsigned(out.seed[1] - Inc - turned(second)), second>>
        /\ out.out \in 0 .. Half - 1

\* Response-time analysis: with the blocking B once and every shorter task's C each
\* period, task i of the order is done by some time t within its own period.
Meets(s, i) ==
  \E t \in 1 .. s[i].T :
    s[i].C + s[i].B + FoldLeft(+, 0, [k \in 1 .. i - 1 |-> s[k].C * ((t + s[k].T - 1) \div s[k].T)]) <= t
\* task_create orders the tasks by their periods, loses none, and a set it admits
\* meets every deadline, with the time that lower tasks may block; of a set with a
\* period of zero nothing is said (ub_test.c:44: 0.0 / 0 passes every test).
AdmittedMeetDeadlines ==
  Is("task_create") =>
    LET s == out.order
    IN  /\ \A i, j \in DOMAIN s : i < j => s[i].T <= s[j].T
        /\ \A t \in Range(in) : Cardinality({k \in DOMAIN s : s[k] = t}) = Cardinality({k \in DOMAIN in : in[k] = t})
        /\ out.ok /\ (\A i \in DOMAIN s : s[i].T > 0) => \A i \in DOMAIN s : Meets(s, i)

\* Both versions of ilog2 give the place of the highest bit, and the sum of a region
\* tells any change of a single word of it.
KernelMath ==
  /\ Is("ilog2") => /\ out[1] = out[2]
                    /\ in > 0 => 2 ^ out[1] <= in /\ in < 2 ^ (out[1] + 1)
  /\ Is("sum_region") => \A k \in DOMAIN in, w \in 0 .. Words - 1 :
                           w # in[k] => sum_region([in EXCEPT ![k] = w]) # out

\* An entry of prio_unmap_table is the number of the lowest bit that is set (0 for
\* none), as highest_prio of run_queue.c needs it.
EntryIsLowestBit ==
  Is("prio_unmap") =>
    IF in = 0 THEN out = 0
    ELSE (in \div 2 ^ out) % 2 = 1 /\ in % 2 ^ out = 0

\* Whatever the random numbers, randGenerator makes an array of pairs and one number
\* more (where rands has enough of them), and both versions of oddball find that one.
OddballFound ==
  Is("oddball") /\ Len(out.arr) = in.len =>
    LET times(v) == Cardinality({k \in DOMAIN out.arr : out.arr[k] = v})
    IN  /\ \A v \in Range(out.arr) : times(v) = IF v = out.one THEN 1 ELSE 2
        /\ out.one \in Range(out.arr) /\ out.two = out.one

\* The table of strTable2 has at each place up to the limit the last character that
\* belongs there; strTable has the same, without the characters over 91 for which
\* its three subtractions are not enough.  The calculator divides with remainder.
TablesAgree ==
  /\ Is("strTable") =>
       LET lastAt(string, p) ==
             LET there == {k \in DOMAIN string : string[k] % TableSize = p}
             IN  IF p > in.limit \/ there = {} THEN 0 ELSE string[Max(there)]
           capitals == SelectSeq(in.string, LAMBDA c : c < 92)
       IN  \A p \in 0 .. TableSize - 1 :
             out[1][p] = lastAt(capitals, p) /\ out[2][p] = lastAt(in.string, p)
  /\ Is("calc") => \A k \in DOMAIN out :
       in[k].ch = "%" /\ in[k].b # 0 => out[k] + in[k].b * cdiv(in[k].a, in[k].b) = in[k].a

\* What the groups of routines are checked for in the run: libc/string with ctype.h,
StringsRight == CharClasses /\ ReadersRight /\ WritersRight /\ MovesKeep
\* printing, scanning, and the numbers of libc/stdlib,
StdioRight == FieldsFit /\ ReadBack /\ BitsNamed /\ PrintedAll /\ RandReversible
\* the system calls read and write,
ConsoleRight == LineAsEdited /\ ScreenShowsLine /\ LineWithin /\ WriteChecked /\ ReadChecked
                  /\ AddressesChecked
\* math.c and the table of run_queue.c,
KernelTablesRight == KernelMath /\ EntryIsLowestBit
\* and the programs of labs 1 to 3.
EarlyProgramsRight == RotBack /\ TasksReadLines /\ OddballFound /\ TablesAgree
=============================================================================
