------------------------------- MODULE TextTools -------------------------------
(***************************************************************************)
(* user/grep.c and user/wc.c: the two programs that read a file in pieces. *)
(* read() may return fewer bytes than asked, down to one, which is what it *)
(* does on a pipe or at the console; what is left over of a line stays in  *)
(* buf for the next round. The characters are letters, "nl" and " ", and   *)
(* in a pattern also the operators ^ . * and $.                            *)
(***************************************************************************)
EXTENDS Integers, Sequences, FiniteSets

CONSTANTS
  BufSize,    \* sizeof(buf)
  Files,      \* the contents of the files to read
  Patterns    \* the patterns to look for

VARIABLES
  tool,     \* the program that runs: "grep", "wc", or "none"
  file,     \* what it reads, for reference
  re,       \* the pattern
  rest,     \* what read() has not returned yet
  buf,      \* buf[0 .. m-1]
  out,      \* grep: the lines written to fd 1
  count,    \* wc: the variables l, w and c
  inword,   \* wc: inside a word
  eof       \* read() has returned 0

textVars == <<tool, file, re, rest, buf, out, count, inword, eof>>

Ready(t, f, p) ==
  /\ tool = t /\ file = f /\ rest = f /\ re = p
  /\ buf = <<>> /\ out = <<>> /\ eof = FALSE
  /\ count = [l |-> 0, w |-> 0, c |-> 0] /\ inword = FALSE

TextInit ==
  \/ \E f \in Files, p \in Patterns : Ready("grep", f, p)
  \/ \E f \in Files : Ready("wc", f, <<>>)

TextIdle == Ready("none", <<>>, <<>>)

-----------------------------------------------------------------------------
(* The matcher: match(), matchhere() and matchstar().                       *)

RECURSIVE matchhere(_, _)

\* c* at the beginning of the text, then p: it may take k characters.
matchstar(c, p, text) ==
  \E k \in 0 .. Len(text) :
    /\ \A i \in 1 .. k : text[i] = c \/ c = "."
    /\ matchhere(p, SubSeq(text, k + 1, Len(text)))

matchhere(p, text) ==
  IF p = <<>> THEN TRUE
  ELSE IF Len(p) > 1 /\ p[2] = "*" THEN matchstar(p[1], SubSeq(p, 3, Len(p)), text)
  ELSE IF p = <<"$">> THEN text = <<>>
  ELSE /\ text # <<>>
       /\ p[1] = "." \/ p[1] = text[1]
       /\ matchhere(Tail(p), Tail(text))

match(p, text) ==
  IF p # <<>> /\ p[1] = "^" THEN matchhere(Tail(p), text)
  ELSE \E i \in 1 .. Len(text) + 1 : matchhere(p, SubSeq(text, i, Len(text)))

-----------------------------------------------------------------------------
\* The complete lines of t, and what follows the last of them.
Ends(t) == {i \in 1 .. Len(t) : t[i] = "nl"}
LineEnd(t, k) == CHOOSE i \in Ends(t) \cup {0} : Cardinality({j \in Ends(t) : j <= i}) = k
Lines(t) ==
  [k \in 1 .. Cardinality(Ends(t)) |->
     SubSeq(t, LineEnd(t, k - 1) + 1, LineEnd(t, k) - 1)]
Remainder(t) == SubSeq(t, LineEnd(t, Cardinality(Ends(t))) + 1, Len(t))

\* grep(): the lines that have become complete are matched, one by one.
Grep(n) ==
  LET b == buf \o SubSeq(rest, 1, n)
      Hit(line) == match(re, line)
  IN  /\ n \in 1 .. BufSize - Len(buf) - 1
      /\ n <= Len(rest)
      /\ out' = out \o SelectSeq(Lines(b), Hit)
      /\ buf' = Remainder(b)
      /\ rest' = SubSeq(rest, n + 1, Len(rest))
      /\ UNCHANGED <<tool, file, re, count, inword, eof>>

\* There is nothing more to read, or no room to read it to.
GrepEnd ==
  /\ rest = <<>> \/ BufSize - Len(buf) - 1 = 0
  /\ eof' = TRUE
  /\ UNCHANGED <<tool, file, re, rest, buf, out, count, inword>>

-----------------------------------------------------------------------------
(* wc()                                                                     *)

Space == {" ", "nl"}

\* Mutant: the loop starts outside of a word for every buffer.
Counted_Restarts(ch, s) ==
  [l |-> s.l + IF ch = "nl" THEN 1 ELSE 0,
   w |-> s.w + IF ch \notin Space THEN 1 ELSE 0,
   c |-> s.c + 1,
   inword |-> ch \notin Space]

\* The body of the loop, for one character.
Counted(ch, s) ==
  [l |-> s.l + IF ch = "nl" THEN 1 ELSE 0,
   w |-> s.w + IF ch \notin Space /\ ~s.inword THEN 1 ELSE 0,
   c |-> s.c + 1,
   inword |-> ch \notin Space]

Wc(n) ==
  LET start == [l |-> count.l, w |-> count.w, c |-> count.c, inword |-> inword]
      after[i \in 0 .. n] == IF i = 0 THEN start ELSE Counted(rest[i], after[i - 1])
  IN  /\ n \in 1 .. BufSize
      /\ n <= Len(rest)
      /\ count' = [l |-> after[n].l, w |-> after[n].w, c |-> after[n].c]
      /\ inword' = after[n].inword
      /\ rest' = SubSeq(rest, n + 1, Len(rest))
      /\ UNCHANGED <<tool, file, re, buf, out, eof>>

WcEnd ==
  /\ rest = <<>>
  /\ eof' = TRUE
  /\ UNCHANGED <<tool, file, re, rest, buf, out, count, inword>>

TextNext ==
  /\ ~eof
  /\ \/ tool = "grep" /\ (GrepEnd \/ \E n \in 1 .. BufSize : Grep(n))
     \/ tool = "wc" /\ (WcEnd \/ \E n \in 1 .. BufSize : Wc(n))

-----------------------------------------------------------------------------
(* What the two programs are for.                                           *)

\* A pattern without its anchors is a sequence of items: a character or "."
\* and whether a star follows.
RECURSIVE PatternItems(_)
PatternItems(p) ==
  IF p = <<>> THEN <<>>
  ELSE IF Len(p) > 1 /\ p[2] = "*"
    THEN <<[ch |-> p[1], star |-> TRUE]>> \o PatternItems(SubSeq(p, 3, Len(p)))
    ELSE <<[ch |-> p[1], star |-> FALSE]>> \o PatternItems(Tail(p))

\* The text has a match if it can be cut so that item i covers the characters
\* from cut[i-1] + 1 to cut[i], at the ends of the text where an anchor says so.
HasMatch(p, text) ==
  LET left == p # <<>> /\ p[1] = "^"
      q == IF left THEN Tail(p) ELSE p
      all == PatternItems(q)
      right == all # <<>> /\ all[Len(all)] = [ch |-> "$", star |-> FALSE]
      items == IF right THEN SubSeq(all, 1, Len(all) - 1) ELSE all
  IN  \E cut \in [0 .. Len(items) -> 0 .. Len(text)] :
        /\ left => cut[0] = 0
        /\ right => cut[Len(items)] = Len(text)
        /\ \A i \in 1 .. Len(items) :
             /\ cut[i] >= cut[i - 1]
             /\ ~items[i].star => cut[i] = cut[i - 1] + 1
             /\ \A j \in cut[i - 1] + 1 .. cut[i] : items[i].ch \in {".", text[j]}

\* A line that does not fit into buf ends grep: nothing of it is ever matched,
\* nor anything after it.
Reached(f) ==
  LET long == {k \in 1 .. Len(Lines(f)) : Len(Lines(f)[k]) > BufSize - 2}
      last == IF long = {} THEN Len(Lines(f))
              ELSE (CHOOSE k \in long : \A j \in long : k <= j) - 1
  IN  SubSeq(Lines(f), 1, last)

\* However read() cuts the file into pieces, grep writes the complete lines
\* that match, each once and in their order, up to the first line that is too
\* long for its buffer; and wc counts the lines, the words and the characters
\* of the whole file, a word that lies across two pieces once (grep.c:10-34,
\* wc.c:7-33).
TextRight ==
  eof =>
    IF tool = "grep"
      THEN LET Hit(line) == HasMatch(re, line) IN out = SelectSeq(Reached(file), Hit)
      ELSE count = [l |-> Cardinality(Ends(file)),
                    w |-> Cardinality({i \in 1 .. Len(file) :
                            file[i] \notin Space /\ (i = 1 \/ file[i - 1] \in Space)}),
                    c |-> Len(file)]
=============================================================================
