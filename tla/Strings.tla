------------------------------ MODULE Strings ------------------------------
(***************************************************************************)
(* The library the tasks of labs 3 and 4 are linked with: ctype.h and the  *)
(* routines of libc/string, on a memory of bytes.  A string is the address *)
(* of its first byte and goes on to the next 0.                            *)
(***************************************************************************)
EXTENDS Integers, Sequences, SequencesExt

CONSTANT Top  \* the last address of the memory

Null == -1    \* the pointer 0

(* ctype.h, on ASCII codes *)

isascii(c) == c >= 0 /\ c <= 127
iscntrl(c) == c < 32 \/ c > 126
isdigit(c) == c >= 48 /\ c <= 57
isgraph(c) == c > 32 /\ c <= 126
islower(c) == c >= 97 /\ c <= 122
isprint(c) == c >= 32 /\ c <= 126
isspace(c) == c \in {32} \cup 9 .. 13
isupper(c) == c >= 65 /\ c <= 90
isxdigit(c) == isdigit(c) \/ c \in 65 .. 70 \cup 97 .. 102
isalpha(c) == islower(c) \/ isupper(c)
isalnum(c) == isalpha(c) \/ isdigit(c)

\* Mutant of ispunct: the blank is one.
PunctOrBlank(c) == isprint(c) /\ ~isalnum(c)
ispunct(c) == isgraph(c) /\ ~isalnum(c)
toupper(c) == IF islower(c) THEN c - 32 ELSE c
tolower(c) == IF isupper(c) THEN c + 32 ELSE c

-----------------------------------------------------------------------------
(* Routines that read.  A loop that moves a pointer on is the search for the *)
(* first place where it stops.                                               *)

First(from, Stop(_)) ==
  CHOOSE p \in from .. Top : Stop(p) /\ \A q \in from .. p - 1 : ~Stop(q)

strlen(m, s) == First(s, LAMBDA p : m[p] = 0) - s
CharsAt(m, s) == {m[p] : p \in s .. s + strlen(m, s)}  \* with the 0

strchr(m, s, c) ==
  LET p == First(s, LAMBDA q : m[q] \in {c, 0})
  IN  IF m[p] = c THEN p ELSE Null

\* The 0 at the end of s is not looked at.
strrchr(m, s, c) ==
  LET there == {p \in s .. s + strlen(m, s) - 1 : m[p] = c}
  IN  IF there = {} THEN Null ELSE CHOOSE p \in there : \A q \in there : q <= p

\* Mutant of strspn: the 0 that ends s2 counts as a character of it.
SpanPastEnd(m, s1, s2) ==
  First(s1, LAMBDA p : p = Top \/ m[p] \notin CharsAt(m, s2)) - s1

strspn(m, s1, s2) == First(s1, LAMBDA p : m[p] \notin CharsAt(m, s2) \ {0}) - s1
strcspn(m, s1, s2) == First(s1, LAMBDA p : m[p] \in CharsAt(m, s2)) - s1
strpbrk(m, s1, s2) ==
  LET p == First(s1, LAMBDA q : m[q] \in CharsAt(m, s2))
  IN  IF m[p] = 0 THEN Null ELSE p

\* a and b are unsigned int, the result is their difference as an int.
strcmp(m, s1, s2) ==
  LET k == First(0, LAMBDA j : m[s1 + j] = 0 \/ m[s2 + j] = 0 \/ m[s1 + j] # m[s2 + j])
  IN  m[s1 + k] - m[s2 + k]

strncmp(m, s1, s2, n) ==
  LET k == First(0, LAMBDA j : j = n \/ m[s1 + j] # m[s2 + j] \/ m[s1 + j] = 0)
  IN  IF k = n THEN 0 ELSE m[s1 + k] - m[s2 + k]

memcmp(m, s1, s2, size) ==
  LET k == First(0, LAMBDA j : j = size \/ m[s1 + j] # m[s2 + j])
  IN  IF k = size THEN 0 ELSE m[s1 + k] - m[s2 + k]

strstr(m, haystack, needle) ==
  LET hlen == strlen(m, haystack)
      nlen == strlen(m, needle)
      fits(p) == hlen - (p - haystack) >= nlen
      p == First(haystack, LAMBDA q : ~fits(q) \/ memcmp(m, q, needle, nlen) = 0)
  IN  IF fits(p) THEN p ELSE Null

-----------------------------------------------------------------------------
(* Routines that write: each gives the memory it leaves. *)

Write(m, p, c) == [m EXCEPT ![p] = c]

\* Byte by byte in the order given.
Copy(m, dest, src, order) ==
  FoldLeft(LAMBDA mem, i : Write(mem, dest + i, mem[src + i]), m, order)
Upwards(count) == [k \in 1 .. count |-> k - 1]
Downwards(count) == [k \in 1 .. count |-> count - k]
Fill(m, to, c, count) == [p \in 0 .. Top |-> IF p \in to .. to + count - 1 THEN c ELSE m[p]]

\* Mutant of memmove: always upwards.
MoveUpwards(m, dest, src, count) == Copy(m, dest, src, Upwards(count))
memmove(m, dest, src, count) ==
  Copy(m, dest, src, IF dest < src THEN Upwards(count) ELSE Downwards(count))
memcpy(m, dest, src, count) == memmove(m, dest, src, count)
memset(m, to, c, len) == Fill(m, to, c, len)

strcpy(m, to, from) == Copy(m, to, from, Upwards(strlen(m, from) + 1))
strcat(m, s, add) == strcpy(m, s + strlen(m, s), add)

\* Mutant of strncat: the 0 is written only if it is copied.
CatWithoutEnd(m, dst, src, n) ==
  Copy(m, dst + strlen(m, dst), src,
       Upwards(IF n <= strlen(m, src) THEN n ELSE strlen(m, src) + 1))

strncat(m, dst, src, n) ==
  LET d == dst + strlen(m, dst)
      k == IF n <= strlen(m, src) THEN n ELSE strlen(m, src)
  IN  IF n = 0 THEN m ELSE Write(Copy(m, d, src, Upwards(k)), d + k, 0)

\* The first loop tests count-- > 0 before it looks at the character: where it
\* ends by the count, the count is the largest size_t and the second loop fills
\* the memory with zeros.
strncpy(m, to, from, count) ==
  LET k == strlen(m, from) + 1
  IN  IF k <= count
      THEN Fill(Copy(m, to, from, Upwards(k)), to + k, 0, count - k)
      ELSE Fill(Copy(m, to, from, Upwards(count)), to + count, 0, Top + 1)
=============================================================================
