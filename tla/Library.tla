-------------------------------- MODULE Library --------------------------------
(***************************************************************************)
(* The calls of the library that are checked: the functions of Strings on  *)
(* every small memory and every region in it, gets() on every input, the   *)
(* two printf() on every sequence of a few items, atoi() on what %d        *)
(* prints, gettoken() on lines, skipelem() and fmtname() on paths, and the *)
(* copies between kernel and program on page tables, addresses and         *)
(* lengths. They have no state: a call is an initial state.                *)
(***************************************************************************)
EXTENDS Strings, Printf, Words, UserCopy

CONSTANTS
  Items,     \* a sequence of items that formats are made of
  Texts,     \* lines for the shell
  Paths,     \* path names
  Tables,    \* page tables of a program
  Memories   \* contents of the physical memory

VARIABLE call
libVars == <<call>>

Regions == {r \in Mem \X Mem \X (0 .. MemSize) : r[1] + r[3] <= MemSize /\ r[2] + r[3] <= MemSize}

LibIdle == call = [of |-> "nothing"]

LibInit ==
  \/ \E m \in [Mem -> Chars \cup {0}], r \in Regions :
       call = [of |-> "memory", m |-> m, d |-> r[1], s |-> r[2], n |-> r[3]]
  \/ \E i \in Inputs, max \in 1 .. MemSize : call = [of |-> "gets", input |-> i, max |-> max]
  \/ \E n \in Ints : call = [of |-> "atoi", n |-> n]
  \/ \E k \in 0 .. 3 : \E f \in [1 .. k -> 1 .. Len(Items)] : call = [of |-> "printf", f |-> f]
  \/ \E s \in Texts : call = [of |-> "gettoken", s |-> s]
  \/ \E s \in Paths : call = [of |-> "skipelem", s |-> s]
  \/ \E pt \in Tables, m \in Memories, va \in 0 .. 4 * MAXVA - 1, n \in 0 .. MAXVA + 1 :
       call = [of |-> "copy", pt |-> pt, m |-> m, va |-> va, n |-> n]

\* Whatever the regions, overlapping ones included, the functions on memory
\* and strings copy, fill and compare what they should (string.c, ulib.c);
\* gets() returns one line; printf() prints and atoi() reads the numbers at
\* either end of an int, the least one included (printf.c:15-95); a line or a
\* path is cut into its tokens or elements; and the copies between the kernel
\* and a program move what is the program's and nothing else.
LibraryRight ==
  CASE call.of = "memory" -> /\ CopiesRight(call.m, call.d, call.s, call.n)
                             /\ ComparisonsRight(call.m, call.d, call.s, call.n)
    [] call.of = "gets"   -> LineRight(call.input, call.max)
    [] call.of = "atoi"   -> ReadsBack(call.n)
    [] call.of = "printf" -> PrintsRight([i \in DOMAIN call.f |-> Items[call.f[i]]])
    [] call.of = "gettoken" -> TokensRight(call.s)
    [] call.of = "skipelem" -> PathRight(call.s)
    [] call.of = "copy"   -> UserCopyRight(call.pt, call.m, call.va, call.n)
    [] OTHER              -> TRUE
=============================================================================
