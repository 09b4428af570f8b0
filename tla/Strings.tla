-------------------------------- MODULE Strings --------------------------------
(***************************************************************************)
(* kernel/string.c and user/ulib.c: the functions on bytes and strings of  *)
(* the kernel and of the programs. Memory is a function from addresses to  *)
(* bytes, a string starts at its address and ends at the first 0. A loop   *)
(* is a recursive operator, one round a call of it.                        *)
(***************************************************************************)
EXTENDS Integers, Sequences

CONSTANTS
  MemSize,   \* the number of bytes of the small memory
  Chars,     \* the bytes other than 0 in it
  Inputs     \* what the user may type before gets()

Mem == 0 .. MemSize - 1

RECURSIVE CopyUp(_, _, _, _), CopyDown(_, _, _, _), CopyString(_, _, _),
          CopyCounted(_, _, _, _), Zero(_, _, _), strlen(_, _), strchr(_, _, _),
          strcmp(_, _, _), strncmp(_, _, _, _), memcmp(_, _, _, _), gets(_, _)

\* while(n-- > 0) *d++ = *s++;
CopyUp(m, d, s, n) ==
  IF n = 0 THEN m ELSE CopyUp([m EXCEPT ![d] = m[s]], d + 1, s + 1, n - 1)

\* while(n-- > 0) *--d = *--s;
CopyDown(m, d, s, n) ==
  IF n = 0 THEN m ELSE CopyDown([m EXCEPT ![d - 1] = m[s - 1]], d - 1, s - 1, n - 1)

\* memmove() of the programs, and of the kernel.
memmove(m, d, s, n) ==
  IF s > d THEN CopyUp(m, d, s, n) ELSE CopyDown(m, d + n, s + n, n)

kmemmove(m, d, s, n) ==
  IF n = 0 THEN m
  ELSE IF s < d /\ s + n > d THEN CopyDown(m, d + n, s + n, n)
  ELSE CopyUp(m, d, s, n)

memset(m, d, c, n) == [a \in Mem |-> IF a \in d .. d + n - 1 THEN c ELSE m[a]]

\* strcpy(): as far as the 0, which is copied too.
CopyString(m, d, s) ==
  IF m[s] = 0 THEN [m EXCEPT ![d] = 0]
  ELSE CopyString([m EXCEPT ![d] = m[s]], d + 1, s + 1)
strcpy(m, d, s) == CopyString(m, d, s)

\* strncpy(): n bytes, zeros once the string has ended, and no 0 if it has not.
Zero(m, d, n) == IF n <= 0 THEN m ELSE Zero([m EXCEPT ![d] = 0], d + 1, n - 1)
CopyCounted(m, d, s, n) ==
  IF n <= 0 THEN m
  ELSE IF m[s] = 0 THEN Zero(m, d, n)
  ELSE CopyCounted([m EXCEPT ![d] = m[s]], d + 1, s + 1, n - 1)
strncpy(m, d, s, n) == CopyCounted(m, d, s, n)

\* safestrcpy(): at most n - 1 bytes, and a 0 in any case.
RECURSIVE CopySafe(_, _, _, _)
CopySafe(m, d, s, n) ==
  IF n = 1 \/ m[s] = 0 THEN [m EXCEPT ![d] = 0]
  ELSE CopySafe([m EXCEPT ![d] = m[s]], d + 1, s + 1, n - 1)
safestrcpy(m, d, s, n) == IF n <= 0 THEN m ELSE CopySafe(m, d, s, n)

strlen(m, s) == IF m[s] = 0 THEN 0 ELSE 1 + strlen(m, s + 1)

\* The address of the first c, or -1 for a null pointer.
strchr(m, s, c) ==
  IF m[s] = 0 THEN -1 ELSE IF m[s] = c THEN s ELSE strchr(m, s + 1, c)

strcmp(m, p, q) ==
  IF m[p] # 0 /\ m[p] = m[q] THEN strcmp(m, p + 1, q + 1) ELSE m[p] - m[q]

strncmp(m, p, q, n) ==
  IF n > 0 /\ m[p] # 0 /\ m[p] = m[q] THEN strncmp(m, p + 1, q + 1, n - 1)
  ELSE IF n = 0 THEN 0 ELSE m[p] - m[q]

memcmp(m, p, q, n) ==
  IF n = 0 THEN 0
  ELSE IF m[p] # m[q] THEN m[p] - m[q]
  ELSE memcmp(m, p + 1, q + 1, n - 1)

\* gets(): a line with its end, or what there is room for, one less than max.
gets(input, max) ==
  IF max <= 1 \/ input = <<>> THEN <<>>
  ELSE IF input[1] \in {"nl", "cr"} THEN <<input[1]>>
  ELSE <<input[1]>> \o gets(Tail(input), max - 1)

-----------------------------------------------------------------------------
(* What they are for, without loops.                                        *)

Length(m, s) == CHOOSE n \in 0 .. MemSize : m[s + n] = 0 /\ \A i \in 0 .. n - 1 : m[s + i] # 0
HasEnd(m, s) == \E a \in s .. MemSize - 1 : m[a] = 0
Moved(m, d, s, n) == [a \in Mem |-> IF a \in d .. d + n - 1 THEN m[s + (a - d)] ELSE m[a]]

\* The sign of a comparison of n bytes: that of the first difference.
Sign(k) == IF k > 0 THEN 1 ELSE IF k < 0 THEN -1 ELSE 0
Compared(m, p, q, n) ==
  LET differ == {i \in 0 .. n - 1 : m[p + i] # m[q + i]}
      i == CHOOSE i \in differ : \A j \in differ : i <= j
  IN  IF differ = {} THEN 0 ELSE Sign(m[p + i] - m[q + i])

Least(a, b) == IF a < b THEN a ELSE b

\* The copies between two regions of the memory, with any n that fits.
CopiesRight(m, d, s, n) ==
  /\ memmove(m, d, s, n) = Moved(m, d, s, n)
  /\ kmemmove(m, d, s, n) = Moved(m, d, s, n)
  /\ HasEnd(m, s) /\ (d + n <= s \/ s + Length(m, s) < d) =>
       LET k == Length(m, s)
           cut == Least(n, k)
           short == Least(n - 1, k)
       IN  /\ strncpy(m, d, s, n) = memset(Moved(m, d, s, cut), d + cut, 0, n - cut)
           /\ n > 0 => safestrcpy(m, d, s, n) = memset(Moved(m, d, s, short), d + short, 0, 1)
           /\ n = k + 1 => strcpy(m, d, s) = Moved(m, d, s, k + 1)

\* The comparisons of two strings, or of n bytes.
ComparisonsRight(m, p, q, n) ==
  /\ Sign(memcmp(m, p, q, n)) = Compared(m, p, q, n)
  /\ HasEnd(m, p) /\ HasEnd(m, q) =>
       LET k == Least(Length(m, p), Length(m, q)) + 1
       IN  /\ Sign(strcmp(m, p, q)) = Compared(m, p, q, k)
           /\ Sign(strncmp(m, p, q, n)) = Compared(m, p, q, Least(n, k))
           /\ strlen(m, p) = Length(m, p)
           /\ \A c \in Chars :
                strchr(m, p, c) =
                  IF \E a \in p .. p + Length(m, p) : m[a] = c
                    THEN CHOOSE a \in p .. p + Length(m, p) :
                           m[a] = c /\ \A b \in p .. a - 1 : m[b] # c
                    ELSE -1

\* gets() returns a line at a time: a prefix of the input that ends with the
\* first end of line, if there is room for it.
LineRight(input, max) ==
  LET line == gets(input, max)
      stops == {i \in 1 .. Len(input) : input[i] \in {"nl", "cr"}}
      end == IF stops = {} THEN Len(input) ELSE CHOOSE i \in stops : \A j \in stops : i <= j
  IN  line = SubSeq(input, 1, Least(end, max - 1))
=============================================================================
