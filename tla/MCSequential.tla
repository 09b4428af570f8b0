----------------------------- MODULE MCSequential -----------------------------
(* The inputs that the sequential parts are checked on.                     *)
EXTENDS Sequential

Seqs(S, n) == UNION {[1 .. k -> S] : k \in 0 .. n}

\* For grep and wc: every file of three characters, and some longer ones whose
\* lines just fit into the buffer, do not fit, or follow one that does not.
MCFiles ==
  Seqs({"a", "b", "nl"}, 3) \cup
  {<<"a", "a", "b", "nl">>, <<"a", "b", "a", "nl", "b", "nl">>,
   <<"a", " ", "b", "nl", "a", "nl">>,
   <<"b", "nl", "a", "a", "a", "a", "nl", "b", "nl">>}
MCPatterns ==
  Seqs({"a", "b", ".", "*", "^", "$"}, 2) \cup
  {<<"^", "a", "*", "$">>, <<".", "*", "b">>, <<"a", "*", "a">>}

\* For gets() and printf(): an int has six bits here, from -32 to 31.
MCInputs == Seqs({"a", "nl", "cr"}, 4)
Item(c, a) == [c |-> c, arg |-> a]
MCItems ==
  <<Item("text", "a"), Item("d", 0), Item("d", -1), Item("d", 31), Item("d", -32),
    Item("l", 63), Item("l", 64), Item("l", 4095), Item("x", -1), Item("x", 31),
    Item("p", 2748), Item("p", 1), Item("s", <<>>), Item("s", <<<<"h", "i">>>>),
    Item("s", <<<<>>>>), Item("c", "z"), Item("%", 0), Item("q", 0)>>

\* For the shell's tokens and for paths.
MCTexts == Seqs({"a", " ", "|", ">", "&"}, 5)
MCPaths == Seqs({"a", "b", "/"}, 7)

\* For the copies: pages that follow each other in memory, in the other order,
\* with one missing, or one that is not the program's.
Pte(v, u, page) == [v |-> v, u |-> u, page |-> page]
MCTables ==
  {[i \in 0 .. 2 |-> Pte(TRUE, TRUE, i)], [i \in 0 .. 2 |-> Pte(TRUE, TRUE, 2 - i)]}
    \cup {[i \in 0 .. 2 |-> IF i = j THEN Pte(v, FALSE, 0) ELSE Pte(TRUE, TRUE, (i + 1) % 3)] :
            j \in 0 .. 2, v \in BOOLEAN}
MCMemories == {[a \in 0 .. 5 |-> IF a \in Z THEN 0 ELSE a + 1] : Z \in SUBSET {0, 2, 5}}

\* For mkfs: files that are empty, that end with a block or within one, and
\* that need the indirect block.
MCImageFiles == {[j \in 1 .. n |-> 10 * n + j] : n \in {0, 1, 2, 3, 5, 6, 7, 8}}

\* For mybash: every line of five tokens, alone or before another line, and
\* every input of four tokens without an end of line.
MCTyped ==
  {t \o <<"nl">> \o u : t \in Seqs(Words \cup Operators, 5), u \in {<<>>, <<"w", "nl">>}}
    \cup Seqs(Words \cup Operators, 4)

\* For exec(): programs with one segment, and with two of which the second ends
\* inside a page; for sbrk(): less and more than a page.
Seg(va, sz) == [vaddr |-> va, memsz |-> sz]
MCPrograms == {<<Seg(0, 2)>>, <<Seg(0, 1), Seg(2, 3)>>}
MCIncrements == {1, 3, -1, -3}
=============================================================================
