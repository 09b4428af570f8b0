-------------------------------- MODULE Memory --------------------------------
(***************************************************************************)
(* Physical pages and the page tables of processes: kernel/kalloc.c,       *)
(* kernel/vm.c, kernel/exec.c, and what allocates and frees in             *)
(* kernel/proc.c. kalloc() may fail at any point of any of them.           *)
(*                                                                         *)
(* A call is one step: two calls have nothing in common but the free list, *)
(* which has a lock of its own, and what one finds on it depends on what   *)
(* all the processes hold, which may be anything. A page table has the     *)
(* levels of Sv39: a root, and on the way to an address two more tables,   *)
(* the second of which serves PerTable pages. Which page is taken for what *)
(* makes no difference: pages are counted. One that is leaked is missing   *)
(* in the count for ever, and one that is freed twice is counted twice.    *)
(***************************************************************************)
EXTENDS Integers, SequencesExt

CONSTANTS
  NPROC,
  NPAGES,      \* pages between end and PHYSTOP
  PGSIZE,      \* bytes of a page
  PerTable,
  MaxPages,    \* a process has no more pages (the bound of sbrk() in the runs)
  Programs,    \* the files to exec(): sequences of segments, [vaddr, memsz]
  Increments   \* the arguments of sbrk()

ASSUME MemoryAssumption == {NPROC, NPAGES, PGSIZE, PerTable, MaxPages} \subseteq Nat \ {0}

Proc == 1 .. NPROC
User == 0 .. MaxPages - 1
TRAMPOLINE == MaxPages + 1
TRAPFRAME == MaxPages
Va == User \cup {TRAMPOLINE, TRAPFRAME}
Tab == {<<"high", 1>>, <<"high", 0>>, <<"low", 1>>} \cup {<<"at", va \div PerTable>> : va \in User}

Pages(sz) == (sz + PGSIZE - 1) \div PGSIZE
Upto(n) == 0 .. n - 1

VARIABLES
  free,        \* how many pages are on kmem.freelist
  proc,        \* proc[]: its trapframe, page table and size
  failed,      \* the last call has returned -1
  panicked

vars == <<free, proc, failed, panicked>>

\* A page table: whether it has a root, the other tables, and who may use the page
\* that is mapped at an address.
NoTable == [root |-> FALSE, tab |-> {}, map |-> [va \in Va |-> "none"]]
Unused == [used |-> FALSE, tf |-> FALSE, pt |-> NoTable, sz |-> 0]

-----------------------------------------------------------------------------
(* The operators work on m: the free pages, a page table, whether all went  *)
(* well so far, where it did not, and whether there was a panic.            *)

M(pt) == [free |-> free, pt |-> pt, ok |-> TRUE, at |-> 0, panic |-> panicked]

kalloc(m) == IF m.free = 0 THEN [m EXCEPT !.ok = FALSE] ELSE [m EXCEPT !.free = @ - 1]
kfree(m) == [m EXCEPT !.free = @ + 1]

\* Page-table pages that are made on the way stay, whatever comes of the rest.
NewTable(m, t) == IF m.ok THEN [m EXCEPT !.pt.tab = @ \cup {t}] ELSE m
Table(m, t) == IF m.ok /\ t \notin m.pt.tab THEN NewTable(kalloc(m), t) ELSE m
Path(va) == IF va \in User THEN <<<<"low", 1>>, <<"at", va \div PerTable>>>>
            ELSE <<<<"high", 1>>, <<"high", 0>>>>
walk(m, va) == Table(Table(m, Path(va)[1]), Path(va)[2])

\* "mappages: remap"
Mapped(m, va, who) ==
  IF m.ok THEN [m EXCEPT !.pt.map[va] = who, !.panic = @ \/ m.pt.map[va] # "none"] ELSE m
mappages(m, va, who) == Mapped(walk(m, va), va, who)

\* "uvmunmap: not mapped"
uvmunmap(m, vas, do_free) ==
  LET there == {va \in vas : m.pt.map[va] # "none"}
  IN  [m EXCEPT !.panic = @ \/ there # vas,
                !.free = IF do_free THEN @ + Cardinality(there) ELSE @,
                !.pt.map = [va \in Va |-> IF va \in vas THEN "none" ELSE @[va]]]

Created(m) == IF m.ok THEN [m EXCEPT !.pt = [NoTable EXCEPT !.root = TRUE]] ELSE m
uvmcreate(m) == Created(kalloc(m))

\* "freewalk: leaf"
freewalk(m) ==
  [m EXCEPT !.panic = @ \/ \E va \in Va : m.pt.map[va] # "none",
            !.free = @ + Cardinality(m.pt.tab) + 1,
            !.pt = NoTable]
uvmfree(m, sz) == freewalk(uvmunmap(m, Upto(Pages(sz)), TRUE))

uvmdealloc(m, oldsz, newsz) ==
  IF newsz >= oldsz THEN m
  ELSE uvmunmap(m, {va \in Upto(Pages(oldsz)) : va >= Pages(newsz)}, TRUE)

\* One page more at va, of uvmalloc() and of uvmcopy().
NoPage(m, va) == [m EXCEPT !.ok = FALSE, !.at = va]
PageMapped(m, va) == IF m.ok THEN m ELSE NoPage(kfree(m), va)
PageGot(m, va, who) == IF m.ok THEN PageMapped(mappages(m, va, who), va) ELSE NoPage(m, va)
AddPage(m, va, who) == IF m.ok THEN PageGot(kalloc(m), va, who) ELSE m

\* Mutant: what has been allocated is not given back.
Undo_Leaves(m, first) == m

\* The pages from first to the one that failed are given back.
Undo(m, first) == IF m.ok THEN m ELSE uvmunmap(m, {va \in Upto(m.at) : va >= first}, TRUE)

uvmalloc(m, oldsz, newsz) ==
  IF newsz < oldsz THEN m
  ELSE Undo(FoldLeft(LAMBDA x, k : AddPage(x, Pages(oldsz) + k - 1, "user"), m,
                     [k \in 1 .. Pages(newsz) - Pages(oldsz) |-> k]),
            Pages(oldsz))

uvmcopy(old, m, sz) ==
  Undo(FoldLeft(LAMBDA x, k : AddPage(x, k - 1, old.map[k - 1]), m, [k \in 1 .. Pages(sz) |-> k]), 0)

-----------------------------------------------------------------------------
\* With trampoline and trapframe; or nothing is left of it.
TrapframeMapped(m) ==
  IF m.ok THEN m ELSE [uvmfree(uvmunmap(m, {TRAMPOLINE}, FALSE), 0) EXCEPT !.ok = FALSE]
TrampolineMapped(m) ==
  IF m.ok THEN TrapframeMapped(mappages(m, TRAPFRAME, "kernel")) ELSE uvmfree(m, 0)
TableCreated(m) == IF m.ok THEN TrampolineMapped(mappages(m, TRAMPOLINE, "kernel")) ELSE m
proc_pagetable(m) == TableCreated(uvmcreate(m))

proc_freepagetable(m, sz) == uvmfree(uvmunmap(m, {TRAMPOLINE, TRAPFRAME}, FALSE), sz)

\* An entry of proc[] may have a trapframe and no page table.
PageTableFreed(m, e) == IF e.pt.root THEN proc_freepagetable(m, e.sz) ELSE m
freeproc(m, e) == PageTableFreed(IF e.tf THEN kfree(m) ELSE m, e)

\* The entry, and what has become of the rest.
Entry(m) == [m |-> m, e |-> IF m.ok THEN [Unused EXCEPT !.used = TRUE, !.tf = TRUE, !.pt = m.pt] ELSE Unused]
TableMade(m) == Entry(IF m.ok THEN m ELSE freeproc(m, [Unused EXCEPT !.tf = TRUE]))
FrameMade(m) == IF m.ok THEN TableMade(proc_pagetable(m)) ELSE Entry(m)
allocproc == FrameMade(kalloc(M(NoTable)))

\* The call returns, with what it has made of the memory and of entry p.
Return(m, p, e, fails) ==
  /\ free' = m.free
  /\ panicked' = m.panic
  /\ proc' = [proc EXCEPT ![p] = e]
  /\ failed' = fails

-----------------------------------------------------------------------------
\* userinit()
userinit(p) ==
  /\ \A q \in Proc : ~proc[q].used
  /\ \E r \in {allocproc} :
       \E m \in {AddPage(r.m, 0, "user")} : Return(m, p, [r.e EXCEPT !.pt = m.pt, !.sz = PGSIZE], FALSE)

\* Mutant: the size is set also when there was no memory.
Grow_Size(p, n) ==
  /\ n > 0
  /\ \E m \in {uvmalloc(M(proc[p].pt), proc[p].sz, proc[p].sz + n)} :
       Return(m, p, [proc[p] EXCEPT !.pt = m.pt, !.sz = @ + n], ~m.ok)

\* growproc(): n more bytes, or fewer. A size below zero wraps around, and is
\* not less than the old one.
Grow(p, n) ==
  /\ n > 0
  /\ \E m \in {uvmalloc(M(proc[p].pt), proc[p].sz, proc[p].sz + n)} :
       Return(m, p, [proc[p] EXCEPT !.pt = m.pt, !.sz = IF m.ok THEN @ + n ELSE @], ~m.ok)

Shrink(p, n) ==
  /\ n < 0
  /\ LET sz == IF proc[p].sz + n < 0 THEN proc[p].sz ELSE proc[p].sz + n
     IN  \E m \in {uvmdealloc(M(proc[p].pt), proc[p].sz, sz)} :
           Return(m, p, [proc[p] EXCEPT !.pt = m.pt, !.sz = sz], FALSE)
sys_sbrk(p, n) ==
  /\ proc[p].used
  /\ proc[p].sz + n <= MaxPages * PGSIZE
  /\ Grow(p, n) \/ Shrink(p, n)

\* fork(): the child's size is set when the copy is complete.
ForkFails(p, np) ==
  \E r \in {allocproc} :
    /\ ~r.m.ok
    /\ Return(r.m, np, Unused, TRUE)
ForkCopy(p, np) ==
  \E r \in {allocproc} :
    /\ r.m.ok
    /\ \E m \in {uvmcopy(proc[p].pt, r.m, proc[p].sz)} :
         IF m.ok THEN Return(m, np, [r.e EXCEPT !.pt = m.pt, !.sz = proc[p].sz], FALSE)
                 ELSE Return(freeproc(m, r.e), np, Unused, TRUE)
fork(p, np) ==
  /\ proc[p].used
  /\ ~proc[np].used
  /\ ForkFails(p, np) \/ ForkCopy(p, np)

\* The end of a process, as its parent waits for it; init has no end.
wait(p) ==
  /\ proc[p].used
  /\ \E q \in Proc \ {p} : proc[q].used
  /\ \E m \in {freeproc(M(proc[p].pt), proc[p])} : Return(m, p, Unused, FALSE)

-----------------------------------------------------------------------------
(* exec(): the new image is made beside the old one.                        *)

Sized(m, sz, newsz) == [m |-> m, sz |-> IF m.ok THEN newsz ELSE sz]

\* The image as far as it went: m, and its size.
Segment(x, s) ==
  IF ~x.m.ok THEN x
  ELSE LET end == IF s.vaddr + s.memsz < x.sz THEN x.sz ELSE s.vaddr + s.memsz
       IN  Sized(uvmalloc(x.m, x.sz, end), x.sz, end)
Segments(m, segments) == FoldLeft(Segment, [m |-> m, sz |-> 0], segments)

\* Two pages more; the first of them is not for the user.
Guarded(x) ==
  IF x.m.ok THEN [x EXCEPT !.m.pt.map[Pages(x.sz) - 2] = "kernel"] ELSE x
Stack(x) ==
  IF ~x.m.ok THEN x
  ELSE LET sz == PGSIZE * Pages(x.sz)
       IN  Guarded(Sized(uvmalloc(x.m, sz, sz + 2 * PGSIZE), sz, sz + 2 * PGSIZE))

\* Mutant: the size of the new image is used to free the old one.
Commit_NewSize(p, x) ==
  \E m \in {proc_freepagetable([x.m EXCEPT !.pt = proc[p].pt], x.sz)} :
    Return(m, p, [proc[p] EXCEPT !.pt = x.m.pt, !.sz = x.sz], FALSE)

\* The old image is freed.
Commit(p, x) ==
  \E m \in {proc_freepagetable([x.m EXCEPT !.pt = proc[p].pt], proc[p].sz)} :
    Return(m, p, [proc[p] EXCEPT !.pt = x.m.pt, !.sz = x.sz], FALSE)
\* bad:
Bad(p, x) ==
  \E m \in {proc_freepagetable(x.m, x.sz)} : Return(m, p, proc[p], TRUE)

\* The file is wrong, or cannot be read, after stop - 1 segments; or the arguments
\* are too long for the stack; or nothing of this.
exec(p, program, stop) ==
  /\ proc[p].used
  /\ \E t \in {proc_pagetable(M(NoTable))} :
       IF stop = 0 THEN Return(M(NoTable), p, proc[p], TRUE)
       ELSE IF ~t.ok THEN Return(t, p, proc[p], TRUE)
       ELSE \E x \in {Segments(t, IF stop <= Len(program) THEN SubSeq(program, 1, stop) ELSE program)} :
              IF stop <= Len(program) THEN Bad(p, x)
              ELSE \E y \in {Stack(x)} :
                     IF y.m.ok /\ stop = Len(program) + 2 THEN Commit(p, y) ELSE Bad(p, y)

-----------------------------------------------------------------------------
Init ==
  /\ free = NPAGES
  /\ proc = [p \in Proc |-> Unused]
  /\ failed = FALSE
  /\ panicked = FALSE

Next ==
  \/ userinit(1)
  \/ \E p \in Proc :
       \/ \E n \in Increments : sys_sbrk(p, n)
       \/ \E np \in Proc : fork(p, np)
       \/ wait(p)
       \/ \E program \in Programs : \E stop \in 0 .. Len(program) + 2 : exec(p, program, stop)

Spec == Init /\ [][Next]_vars

-----------------------------------------------------------------------------
TypeOK ==
  /\ free \in 0 .. NPAGES
  /\ proc \in [Proc -> [used : BOOLEAN, tf : BOOLEAN, sz : 0 .. MaxPages * PGSIZE,
                        pt : [root : BOOLEAN, tab : SUBSET Tab,
                              map : [Va -> {"none", "user", "kernel"}]]]]
  /\ failed \in BOOLEAN

\* The pages that a process holds: trapframe, root, tables, and those of the user.
One(b) == IF b THEN 1 ELSE 0
Mapping(e) == {va \in User : e.pt.map[va] # "none"}
Held(e) == One(e.tf) + One(e.pt.root) + Cardinality(e.pt.tab) + Cardinality(Mapping(e))

\* Whatever call runs out of memory, and wherever in it: no page is lost, and none
\* is given back twice.
PagesConserved == free = NPAGES - FoldFunction(LAMBDA e, n : n + Held(e), 0, proc)

\* A process has the pages that its size says, and the two that the kernel enters
\* it by; no entry of proc[] has half of that; and what maps, unmaps or frees pages
\* finds what it expects ("remap", "not mapped", "freewalk: leaf").
ImageRight ==
  /\ TypeOK
  /\ ~panicked
  /\ \A p \in Proc :
       IF proc[p].used
         THEN /\ Mapping(proc[p]) = Upto(Pages(proc[p].sz))
              /\ proc[p].tf
              /\ {proc[p].pt.map[va] : va \in {TRAMPOLINE, TRAPFRAME}} = {"kernel"}
         ELSE proc[p] = Unused

\* A call that fails leaves every process the memory it had (though a table made
\* for it may stay).
FailureChangesNothing ==
  [][failed' => \A p \in Proc :
       /\ proc[p]'.pt.map = proc[p].pt.map
       /\ proc[p]'.sz = proc[p].sz
       /\ proc[p]'.used = proc[p].used]_vars
=============================================================================
