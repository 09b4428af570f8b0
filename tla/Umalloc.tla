-------------------------------- MODULE Umalloc --------------------------------
(***************************************************************************)
(* user/umalloc.c: the allocator that programs (and the shell, for its     *)
(* parse trees) are linked with. Memory is counted in units of one Header; *)
(* a pointer is the number of a unit. base is unit 0, below the heap, and  *)
(* a block is its header and the units after it. The free list is a ring   *)
(* in address order that free() searches from where it left off.           *)
(*                                                                         *)
(* A program is one thread, so each call is one step. sbrk() fails when    *)
(* the kernel has no memory, and the program may call it too, so what      *)
(* morecore() gets need not follow what it got before. The bound on the    *)
(* heap stands for the memory of the machine.                              *)
(***************************************************************************)
EXTENDS Integers, FiniteSets

CONSTANTS
  HeapMax,    \* the number of units of memory
  Chunk,      \* what morecore() asks for at least: 4096 units
  Requests    \* the sizes that are asked for, in units

Base == 0
NULL == -1
Units == 1 .. HeapMax

VARIABLES
  freep,      \* the static freep, NULL before the first malloc()
  ptr,        \* s.ptr of the headers
  size,       \* s.size of the headers
  brk,        \* the break: units below it belong to the process
  got,        \* ghost: the units that sbrk() gave to morecore()
  inUse       \* ghost: the headers of the blocks the program holds

mallocVars == <<freep, ptr, size, brk, got, inUse>>

MallocIdle ==
  /\ freep = NULL
  /\ ptr = [a \in Units \cup {Base} |-> NULL]
  /\ size = [a \in Units \cup {Base} |-> 0]
  /\ brk = 1
  /\ got = {}
  /\ inUse = {}

-----------------------------------------------------------------------------
(* The heap h is [freep, ptr, size]; what a call makes of it.               *)

\* The i-th header that a search that starts at freep looks at.
Ring(h) ==
  LET at[i \in 0 .. HeapMax] == IF i = 0 THEN h.freep ELSE h.ptr[at[i - 1]]
  IN  at

\* The number of headers of the free list.
Around(h) ==
  CHOOSE k \in 1 .. HeapMax :
    Ring(h)[k] = h.freep /\ \A j \in 1 .. k - 1 : Ring(h)[j] # h.freep

First(h, S) == Ring(h)[CHOOSE i \in S : \A j \in S : i <= j]

\* Where the loop of free() stops: the free blocks around bp, or the end of
\* the ring if bp is beyond its first or last block.
Before(h, bp) ==
  First(h, {i \in 0 .. Around(h) - 1 :
              LET p == Ring(h)[i]
                  q == h.ptr[p]
              IN  \/ bp > p /\ bp < q
                  \/ p >= q /\ (bp > p \/ bp < q)})

\* Mutant: the block below is joined without asking whether it ends at bp.
JoinBelow_Always(h, p, bp) ==
  IF p # Base
    THEN [h EXCEPT !.size[p] = @ + h.size[bp], !.ptr[p] = h.ptr[bp]]
    ELSE [h EXCEPT !.ptr[p] = bp]

JoinBelow(h, p, bp) ==
  IF p + h.size[p] = bp
    THEN [h EXCEPT !.size[p] = @ + h.size[bp], !.ptr[p] = h.ptr[bp]]
    ELSE [h EXCEPT !.ptr[p] = bp]

JoinAbove(h, bp, q) ==
  IF bp + h.size[bp] = q
    THEN [h EXCEPT !.size[bp] = @ + h.size[q], !.ptr[bp] = h.ptr[q]]
    ELSE [h EXCEPT !.ptr[bp] = q]

Freed(h, bp) ==
  LET p == Before(h, bp)
  IN  [JoinBelow(JoinAbove(h, bp, h.ptr[p]), p, bp) EXCEPT !.freep = p]

\* The blocks that are large enough, in the order of the search.
Fits(h, n) == {i \in 1 .. Around(h) : h.size[Ring(h)[i]] >= n}

\* The first of them, of which the tail is taken: the heap and the header.
Taken(h, n) ==
  LET i == CHOOSE i \in Fits(h, n) : \A j \in Fits(h, n) : i <= j
      prevp == Ring(h)[i - 1]
      p == Ring(h)[i]
      tail == p + h.size[p] - n
  IN  IF h.size[p] = n
        THEN [at |-> p, heap |-> [h EXCEPT !.ptr[prevp] = h.ptr[p], !.freep = prevp]]
        ELSE [at |-> tail,
              heap |-> [h EXCEPT !.size[p] = @ - n, !.size[tail] = n, !.freep = prevp]]

Heap == [freep |-> freep, ptr |-> ptr, size |-> size]

\* The first call makes a ring of base alone.
Started ==
  IF freep # NULL THEN Heap
  ELSE [freep |-> Base, ptr |-> [ptr EXCEPT ![Base] = Base],
        size |-> [size EXCEPT ![Base] = 0]]

\* Only headers count: what a joined block leaves behind is the program's.
Set(h, used) ==
  LET list == {Ring(h)[i] : i \in 1 .. Around(h)}
  IN  /\ freep' = h.freep
      /\ ptr' = [a \in DOMAIN ptr |-> IF a \in list THEN h.ptr[a] ELSE NULL]
      /\ size' = [a \in DOMAIN size |-> IF a \in list \cup used THEN h.size[a] ELSE 0]
      /\ inUse' = used

Asked(n) == IF n < Chunk THEN Chunk ELSE n

-----------------------------------------------------------------------------
(* The calls of the program.                                                *)

\* malloc() of n units, its header included, that finds a block on the list.
MallocHit(n) ==
  /\ Fits(Started, n) # {}
  /\ LET t == Taken(Started, n)
     IN  Set(t.heap, inUse \cup {t.at})
  /\ UNCHANGED <<brk, got>>

\* morecore() frees what sbrk() gave, and the search goes on at the new freep.
MallocMore(n) ==
  /\ Fits(Started, n) = {}
  /\ brk + Asked(n) <= HeapMax + 1
  /\ LET h == Freed([Started EXCEPT !.size[brk] = Asked(n)], brk)
         t == Taken(h, n)
     IN  Set(t.heap, inUse \cup {t.at})
  /\ brk' = brk + Asked(n)
  /\ got' = got \cup brk .. brk + Asked(n) - 1

\* sbrk() fails: malloc() returns 0.
MallocFail(n) ==
  /\ Fits(Started, n) = {}
  /\ brk + Asked(n) > HeapMax + 1
  /\ Set(Started, inUse)
  /\ UNCHANGED <<brk, got>>

Free(a) ==
  /\ a \in inUse
  /\ Set(Freed(Heap, a), inUse \ {a})
  /\ UNCHANGED <<brk, got>>

\* The program calls sbrk() itself.
OwnSbrk ==
  /\ brk <= HeapMax
  /\ brk' = brk + 1
  /\ UNCHANGED <<freep, ptr, size, got, inUse>>

MallocNext ==
  \/ \E n \in Requests : MallocHit(n) \/ MallocMore(n) \/ MallocFail(n)
  \/ \E a \in Units : Free(a)
  \/ OwnSbrk

-----------------------------------------------------------------------------
Block(a) == a .. a + size[a] - 1
FreeList == {Ring(Heap)[i] : i \in 1 .. Around(Heap)}

\* Whatever is allocated and freed in whatever order, every unit that the
\* kernel gave is in exactly one block, held by the program or free; the free
\* list is a ring in address order, from which nothing is missing; and no two
\* free blocks lie side by side, so that what was freed can be used for a
\* larger request (umalloc.c:24-44, 63-90).
HeapRight ==
  freep # NULL =>
    LET blocks == inUse \cup FreeList
    IN  /\ Base \in FreeList /\ freep \in FreeList
        /\ UNION {Block(a) : a \in blocks} = got
        /\ \A a, b \in blocks : a # b => Block(a) \cap Block(b) = {}
        /\ \A a \in inUse : size[a] \in Requests
        /\ \A a \in FreeList :
             /\ ptr[a] > a \/ ptr[a] = Base
             /\ size[a] > 0 => a + size[a] \notin FreeList
=============================================================================
