----------------------------- MODULE InodesProofs -----------------------------
(***************************************************************************)
(* Theorems about inodes, blocks and directories, for any number of        *)
(* processes, inodes and blocks, any calls and any starting trees: an      *)
(* entry of the inode table counts exactly the references to it and agrees *)
(* with the disk, and a block of the disk belongs to one inode at most.    *)
(*                                                                         *)
(* The argument is one inductive invariant, TableInv.  The steps of the    *)
(* calls are grouped by what they do to the table and the disk (Moves,     *)
(* Looks, Writes, Makes, Opens, Relinks, Cleared ...), each group has a    *)
(* lemma that says that it preserves TableInv, and the proof about an      *)
(* action shows which group it is of.  A lemma that is named XOK is about  *)
(* the group, action or operator X.                                        *)
(***************************************************************************)
EXTENDS Inodes, FiniteSetTheorems, NaturalsInduction, SequenceTheorems, TLAPS

\* Where a process is, but for the inodes that it puts first.
Putting == {"put", "free", "unref"}
At(p) == IF pc[p] \in Putting THEN after[p] ELSE pc[p]

Returns == {"user", "walk", "existing", "opened", "unlink3", "linkbad"}
PutsRight ==
  \A p \in Procs :
    /\ Len(puts[p]) <= 2
    /\ puts[p] # <<>> <=> pc[p] \in Putting
    /\ pc[p] \in Putting => after[p] \in Returns
    /\ pc[p] = "free" /\ after[p] \in {"opened", "unlink3"} => Head(puts[p]) # ip[p]

\* The local variables of a call that are in use there.
Walked == {"walk", "open", "opened", "existing", "create2", "unlink2", "unlink3", "link", "chdir"}
Parented == {"create", "create2", "unlink", "unlink2", "link2"}
LocalsAt(l, c, i, d, o, f) ==
  /\ l # "user" => c \in Calls
  /\ l = "walk" => c.k \notin {"read", "write", "close"}
  /\ i # None <=> l \in Walked
  /\ d # None <=> l \in Parented
  /\ o # None => l \in {"walk", "link2", "linkbad"} /\ c.k = "link"
  /\ l \in {"link2", "linkbad"} => o # None
  /\ l \in {"create", "existing", "create2"} => c.k \in {"create", "mkdir"}
  /\ l \in {"open", "link"} => c.k = l
  /\ l = "opened" => c.k \in {"open", "create"}
  /\ l \in {"read", "write"} => f # None
  /\ l # "user" /\ c.k \in {"open", "create"} => f = None
LocalsRight == \A p \in Procs : LocalsAt(At(p), call[p], ip[p], dp[p], old[p], fd[p])

\* The entries that a process has locked from one step to the next.
HeldAt(l, at, ps, i, d) ==
  (IF at \in {"opened", "unlink3"} THEN {i} ELSE {})
    \cup (IF l \in {"create2", "unlink2"} THEN {d} ELSE {})
    \cup (IF l = "free" THEN {Head(ps)} ELSE {})
Held(p) == HeldAt(pc[p], At(p), puts[p], ip[p], dp[p])
LocksRight ==
  \A p \in Procs : \A s \in Slot :
    /\ itable[s].lock = p <=> s \in Held(p)
    /\ itable[s].lock = p => itable[s].valid

Counted == \A s \in Slot : itable[s].ref = Total([p \in Procs |-> Pointers(p, s)])

TableOK(it, D) ==
  /\ it \in [Slot -> TableEntry]
  /\ OneEntry(it)
  /\ CopiesRight(it, D)
  /\ \A s \in Slot : it[s].ref > 0 =>
       /\ it[s].inum # None
       /\ it[s].valid => it[s].ino.type # "none"

FreeInodes == \A i \in Inum : dinode[i].type = "none" => dinode[i].addrs = NoInode.addrs

TableInv ==
  /\ TypeOK
  /\ PutsRight
  /\ LocalsRight
  /\ LocksRight
  /\ Counted
  /\ TableOK(itable, dinode)
  /\ FreeInodes
  /\ BlocksOwned

-----------------------------------------------------------------------------
(* Numbers and counting.                                                    *)

LEMMA Constants ==
  /\ NINODES \in Nat /\ NBLOCKS \in Nat /\ NDIRECT \in Nat /\ NINDIRECT \in Nat /\ PerBlock \in Nat
  /\ NINODES >= 1 /\ PerBlock >= 2 /\ NDIRECT >= 1
  /\ Inum = Slot /\ Inum \subseteq Nat /\ Block \subseteq Nat /\ ROOTINO \in Inum
  /\ None \notin Inum /\ None \notin Slot /\ None \notin Block /\ None \notin Procs
  /\ None \notin OpenFile
BY InodesAssumption DEF Inum, Slot, Block, ROOTINO, OpenFile

Less == {r \in Nat \X Nat : r[1] < r[2]}

LEMMA LessDef == ASSUME NEW x \in Nat, NEW y \in Nat, x < y PROVE <<x, y>> \in Less
BY DEF Less

\* A set of numbers has a lowest one.
LEMMA LowestIn ==
  ASSUME NEW S, S \subseteq Nat, S # {}
  PROVE  Lowest(S) \in S
<1>1. IsWellFoundedOn(Less, Nat)  BY NatLessThanWellFounded DEF OpToRel, Less
<1>2. PICK x \in S : \A y \in S : ~(<<y, x>> \in Less)  BY <1>1, WFMin, Zenon
<1>3. ASSUME NEW y \in S PROVE x <= y
  <2>1. x \in Nat /\ y \in Nat  OBVIOUS
  <2>2. ~(y < x)  BY <1>2, <2>1, LessDef
  <2> QED BY <2>1, <2>2
<1>4. \E z \in S : \A y \in S : z <= y  BY <1>3
<1> QED BY <1>4 DEF Lowest

\* The pairs that Total counts.
Pairs(n) == {x \in Procs \X (1 .. MaxPointers) : x[2] <= n[x[1]]}

LEMMA PairsFinite ==
  ASSUME NEW n
  PROVE  IsFiniteSet(Pairs(n)) /\ Total(n) = Cardinality(Pairs(n)) /\ Total(n) \in Nat
<1>1. IsFiniteSet(1 .. MaxPointers)
  <2>1. 1 \in Int /\ MaxPointers \in Int  BY DEF MaxPointers
  <2> QED BY <2>1, FS_Interval
<1>2. IsFiniteSet(Procs \X (1 .. MaxPointers))  BY <1>1, FS_Product, InodesAssumption
<1>3. Pairs(n) \subseteq Procs \X (1 .. MaxPointers)  BY DEF Pairs
<1>4. IsFiniteSet(Pairs(n))  BY <1>2, <1>3, FS_Subset
<1>5. Total(n) = Cardinality(Pairs(n))  BY DEF Total, Pairs
<1> QED BY <1>4, <1>5, FS_CardinalityType

LEMMA InPairs ==
  ASSUME NEW n, NEW q \in Procs, NEW k
  PROVE  <<q, k>> \in Pairs(n) <=> k \in 1 .. MaxPointers /\ k <= n[q]
BY DEF Pairs

\* One pointer more, of one process, is one more in all.
LEMMA OneMore ==
  ASSUME NEW m \in [Procs -> 0 .. MaxPointers], NEW n \in [Procs -> 0 .. MaxPointers], NEW p \in Procs,
         n[p] = m[p] + 1, \A q \in Procs : q # p => n[q] = m[q]
  PROVE  Total(n) = Total(m) + 1
<1>1. n[p] \in 1 .. MaxPointers /\ m[p] \in 0 .. MaxPointers  BY DEF MaxPointers
<1>2. <<p, n[p]>> \notin Pairs(m)  BY <1>1, InPairs DEF MaxPointers
<1>3. ASSUME NEW x PROVE x \in Pairs(n) <=> x \in Pairs(m) \cup {<<p, n[p]>>}
  <2>1. CASE x \in Procs \X (1 .. MaxPointers)
    <3>1. PICK q \in Procs, k \in 1 .. MaxPointers : x = <<q, k>>  BY <2>1
    <3>2. <<q, k>> \in Pairs(n) <=> k <= n[q]  BY <3>1, InPairs
    <3>3. <<q, k>> \in Pairs(m) <=> k <= m[q]  BY <3>1, InPairs
    <3>4. m[q] \in 0 .. MaxPointers /\ k \in Nat /\ m[p] \in Nat  BY <3>1, <1>1 DEF MaxPointers
    <3>5. q = p => (k <= n[q] <=> k <= m[q] \/ k = n[p])  BY <3>4, <1>1 DEF MaxPointers
    <3>6. q # p => (k <= n[q] <=> k <= m[q])  BY <3>1
    <3> QED BY <3>1, <3>2, <3>3, <3>5, <3>6
  <2>2. CASE x \notin Procs \X (1 .. MaxPointers)
    <3>1. x # <<p, n[p]>>  BY <2>2, <1>1
    <3> QED BY <2>2, <3>1 DEF Pairs
  <2> QED BY <2>1, <2>2
<1>4. Pairs(n) = Pairs(m) \cup {<<p, n[p]>>}  BY <1>3
<1>5. Cardinality(Pairs(n)) = Cardinality(Pairs(m)) + 1  BY <1>2, <1>4, PairsFinite, FS_AddElement
<1> QED BY <1>5, PairsFinite

LEMMA SameTotal ==
  ASSUME NEW m, NEW n, \A q \in Procs : n[q] = m[q]
  PROVE  Total(n) = Total(m)
<1>1. ASSUME NEW x \in Procs \X (1 .. MaxPointers) PROVE n[x[1]] = m[x[1]]  OBVIOUS
<1> QED BY <1>1 DEF Total

\* Who points to an entry is counted.
LEMMA CountedOnce ==
  ASSUME NEW n \in [Procs -> 0 .. MaxPointers], NEW p \in Procs, n[p] >= 1
  PROVE  Total(n) >= 1
<1>1. 1 <= n[p] /\ 1 \in 1 .. MaxPointers  BY DEF MaxPointers
<1>2. <<p, 1>> \in Pairs(n)  BY <1>1, InPairs
<1>3. Cardinality(Pairs(n)) # 0  BY <1>2, PairsFinite, FS_EmptySet
<1> QED BY <1>3, PairsFinite

LEMMA CountedTwice ==
  ASSUME NEW n \in [Procs -> 0 .. MaxPointers], NEW p \in Procs, NEW q \in Procs,
         n[p] >= 1, n[q] >= 1, p = q => n[p] >= 2
  PROVE  Total(n) >= 2
<1> DEFINE y == IF p = q THEN <<p, 2>> ELSE <<q, 1>>
<1>1. 1 <= n[p] /\ 1 \in 1 .. MaxPointers /\ 2 \in 1 .. MaxPointers  BY DEF MaxPointers
<1>2. <<p, 1>> \in Pairs(n) /\ y \in Pairs(n) /\ y # <<p, 1>>  BY <1>1, InPairs
<1> HIDE DEF y
<1>3. /\ IsFiniteSet(Pairs(n) \ {y})
      /\ Cardinality(Pairs(n) \ {y}) = Cardinality(Pairs(n)) - 1
  BY <1>2, PairsFinite, FS_RemoveElement
<1>4. <<p, 1>> \in Pairs(n) \ {y}  BY <1>2
<1>5. Cardinality(Pairs(n) \ {y}) # 0  BY <1>3, <1>4, FS_EmptySet
<1>6. Cardinality(Pairs(n)) \in Nat /\ Cardinality(Pairs(n) \ {y}) \in Nat
  BY <1>3, PairsFinite, FS_CardinalityType
<1> QED BY <1>3, <1>5, <1>6, PairsFinite

-----------------------------------------------------------------------------
(* The inode table.                                                         *)

\* it2 is it with one reference more to entry s, which may have been a free one.
Bumped(it, it2, s) ==
  /\ s \in Slot
  /\ \A k \in Slot : k # s => it2[k] = it[k]
  /\ it2[s].ref = it[s].ref + 1
  /\ it2[s].lock = it[s].lock
  /\ it[s].ref > 0 => it2[s].inum = it[s].inum /\ it2[s].valid = it[s].valid /\ it2[s].ino = it[s].ino

LEMMA EntryTypes ==
  ASSUME NEW it \in [Slot -> TableEntry], NEW s \in Slot
  PROVE  /\ it[s] \in TableEntry
         /\ it[s].inum \in Inum \cup {None} /\ it[s].ref \in Nat /\ it[s].valid \in BOOLEAN
         /\ it[s].lock \in Procs \cup {None} /\ it[s].ino \in Dinode
<1>1. it[s] \in TableEntry  OBVIOUS
<1> QED BY <1>1 DEF TableEntry

LEMMA IdupOK ==
  ASSUME NEW it, NEW D, TableOK(it, D), NEW s \in Slot, it[s].ref > 0
  PROVE  TableOK(idup(it, s), D) /\ Bumped(it, idup(it, s), s)
<1> DEFINE j == idup(it, s)
<1>1. it \in [Slot -> TableEntry]  BY DEF TableOK
<1>2. it[s] \in TableEntry /\ it[s].ref \in Nat  BY <1>1, EntryTypes
<1>3. j = [it EXCEPT ![s] = [it[s] EXCEPT !.ref = it[s].ref + 1]]  BY DEF idup
<1>4. [it[s] EXCEPT !.ref = it[s].ref + 1] \in TableEntry  BY <1>2 DEF TableEntry
<1>5. j \in [Slot -> TableEntry]  BY <1>1, <1>3, <1>4
<1>6. /\ \A k \in Slot : k # s => j[k] = it[k]
      /\ j[s].ref = it[s].ref + 1 /\ j[s].lock = it[s].lock /\ j[s].inum = it[s].inum
      /\ j[s].valid = it[s].valid /\ j[s].ino = it[s].ino
  <2>1. j[s] = [it[s] EXCEPT !.ref = it[s].ref + 1]  BY <1>1, <1>3
  <2>2. \A k \in Slot : k # s => j[k] = it[k]  BY <1>1, <1>3
  <2> QED BY <2>1, <2>2, <1>2 DEF TableEntry
<1> HIDE DEF j
<1>7. \A k \in Slot : /\ (j[k].ref > 0 <=> it[k].ref > 0)
                      /\ j[k].inum = it[k].inum /\ j[k].valid = it[k].valid /\ j[k].ino = it[k].ino
  BY <1>6, <1>2
<1>8. OneEntry(j)  BY <1>7 DEF OneEntry, TableOK
<1>9. CopiesRight(j, D)  BY <1>7 DEF CopiesRight, TableOK
<1>10. TableOK(j, D)  BY <1>5, <1>7, <1>8, <1>9 DEF TableOK
<1>11. Bumped(it, j, s)  BY <1>6 DEF Bumped
<1> QED BY <1>10, <1>11 DEF j

\* As there are as many entries as inodes, one is free for an inode that has none.
LEMMA EntryFree ==
  ASSUME NEW it, NEW D, TableOK(it, D), NEW i \in Inum,
         \A k \in Slot : ~(it[k].ref > 0 /\ it[k].inum = i)
  PROVE  \E k \in Slot : it[k].ref = 0
<1> SUFFICES ASSUME \A k \in Slot : it[k].ref # 0 PROVE FALSE  OBVIOUS
<1> DEFINE f == [k \in Slot |-> it[k].inum]
<1>1. \A k \in Slot : it[k].ref > 0 /\ it[k].inum \in Inum /\ it[k].inum # i
  <2> SUFFICES ASSUME NEW k \in Slot PROVE it[k].ref > 0 /\ it[k].inum \in Inum /\ it[k].inum # i
    OBVIOUS
  <2>1. it \in [Slot -> TableEntry]  BY DEF TableOK
  <2>2. it[k].ref \in Nat /\ it[k].inum \in Inum \cup {None}  BY <2>1, EntryTypes
  <2>3. it[k].ref > 0  BY <2>2
  <2> QED BY <2>2, <2>3 DEF TableOK
<1>2. f \in [Slot -> Inum \ {i}]  BY <1>1
<1>3. /\ IsFiniteSet(Slot) /\ IsFiniteSet(Inum) /\ Cardinality(Slot) = NINODES
      /\ Cardinality(Inum) = NINODES
  <2>1. 1 \in Int /\ NINODES \in Int /\ NINODES >= 1  BY Constants
  <2>2. IsFiniteSet(1 .. NINODES) /\ Cardinality(1 .. NINODES) = NINODES - 1 + 1  BY <2>1, FS_Interval
  <2> QED BY <2>1, <2>2 DEF Slot, Inum
<1>4. IsFiniteSet(Inum \ {i}) /\ Cardinality(Inum \ {i}) = NINODES - 1  BY <1>3, FS_RemoveElement
<1>5. Cardinality(Inum \ {i}) < Cardinality(Slot)  BY <1>3, <1>4, Constants
<1> HIDE DEF f
<1>6. \E x, y \in Slot : x # y /\ f[x] = f[y]  BY <1>2, <1>3, <1>4, <1>5, FS_PigeonHole
<1>7. PICK x, y \in Slot : x # y /\ f[x] = f[y]  BY <1>6
<1>8. it[x].inum = it[y].inum  BY <1>7 DEF f
<1> QED BY <1>1, <1>7, <1>8 DEF OneEntry, TableOK

LEMMA IgetOK ==
  ASSUME NEW it, NEW D, TableOK(it, D), NEW i \in Inum
  PROVE  /\ TableOK(iget(it, i).it, D)
         /\ Bumped(it, iget(it, i).it, iget(it, i).s)
         /\ iget(it, i).it[iget(it, i).s].inum = i
<1> DEFINE same == {k \in Slot : it[k].ref > 0 /\ it[k].inum = i}
           none == {k \in Slot : it[k].ref = 0}
           s == iget(it, i).s
           j == iget(it, i).it
<1>1. it \in [Slot -> TableEntry]  BY DEF TableOK
<1>2. CASE same # {}
  <2>1. s = Lowest(same) /\ j = idup(it, s)  BY <1>2 DEF iget, idup
  <2>2. same \subseteq Nat  BY Constants
  <2>3. s \in same  BY <1>2, <2>1, <2>2, LowestIn
  <2>4. s \in Slot /\ it[s].ref > 0 /\ it[s].inum = i  BY <2>3
  <2> HIDE DEF s, j
  <2>5. TableOK(j, D) /\ Bumped(it, j, s)  BY <2>1, <2>4, IdupOK
  <2> QED BY <2>4, <2>5 DEF Bumped, s, j
<1>3. CASE same = {}
  <2> DEFINE e == [it[s] EXCEPT !.inum = i, !.ref = 1, !.valid = FALSE]
  <2>1. s = Lowest(none) /\ j = [it EXCEPT ![s] = e]  BY <1>3 DEF iget
  <2>2. none \subseteq Nat  BY Constants
  <2>3. none # {}  BY <1>3, EntryFree
  <2>4. s \in none  BY <2>1, <2>2, <2>3, LowestIn
  <2>5. s \in Slot /\ it[s].ref = 0  BY <2>4
  <2> HIDE DEF s, j
  <2>6. it[s] \in TableEntry  BY <1>1, <2>5
  <2>7. e \in TableEntry  BY <2>6 DEF TableEntry
  <2>8. j \in [Slot -> TableEntry]  BY <1>1, <2>1, <2>7
  <2>9. j[s].inum = i /\ j[s].ref = 1 /\ j[s].valid = FALSE /\ j[s].lock = it[s].lock
    <3>1. j[s] = e  BY <1>1, <2>1, <2>5
    <3> QED BY <3>1, <2>6 DEF TableEntry
  <2>10. \A k \in Slot : k # s => j[k] = it[k]  BY <1>1, <2>1
  <2>11. OneEntry(j)
    <3> SUFFICES ASSUME NEW x \in Slot, NEW y \in Slot, j[x].ref > 0, j[y].ref > 0, j[x].inum = j[y].inum
                 PROVE  x = y
      BY DEF OneEntry
    <3>1. \A k \in Slot : ~(it[k].ref > 0 /\ it[k].inum = i)  BY <1>3
    <3>2. CASE x # s /\ y # s  BY <3>2, <2>10 DEF OneEntry, TableOK
    <3>3. CASE x = s /\ y # s  BY <3>1, <3>3, <2>9, <2>10
    <3>4. CASE x # s /\ y = s  BY <3>1, <3>4, <2>9, <2>10
    <3> QED BY <3>2, <3>3, <3>4
  <2>12. CopiesRight(j, D)  BY <2>9, <2>10 DEF CopiesRight, TableOK
  <2>13. \A k \in Slot : j[k].ref > 0 => /\ j[k].inum # None
                                         /\ j[k].valid => j[k].ino.type # "none"
    BY <2>9, <2>10, Constants DEF TableOK
  <2>14. TableOK(j, D)  BY <2>8, <2>11, <2>12, <2>13 DEF TableOK
  <2>15. Bumped(it, j, s)  BY <2>5, <2>9, <2>10 DEF Bumped
  <2> QED BY <2>9, <2>14, <2>15 DEF s, j
<1> QED BY <1>2, <1>3

\* One reference less.
LEMMA UnrefOK ==
  ASSUME NEW it, NEW D, TableOK(it, D), NEW s \in Slot, it[s].ref >= 1
  PROVE  LET j == [it EXCEPT ![s].ref = @ - 1]
         IN  /\ TableOK(j, D)
             /\ \A k \in Slot : k # s => j[k] = it[k]
             /\ j[s].ref = it[s].ref - 1 /\ j[s].lock = it[s].lock /\ j[s].inum = it[s].inum
             /\ j[s].valid = it[s].valid /\ j[s].ino = it[s].ino
<1> DEFINE j == [it EXCEPT ![s].ref = @ - 1]
<1>1. it \in [Slot -> TableEntry]  BY DEF TableOK
<1>2. it[s] \in TableEntry /\ it[s].ref \in Nat  BY <1>1, EntryTypes
<1>3. j = [it EXCEPT ![s] = [it[s] EXCEPT !.ref = it[s].ref - 1]]  OBVIOUS
<1>4. [it[s] EXCEPT !.ref = it[s].ref - 1] \in TableEntry
  <2>1. it[s].ref - 1 \in Nat  BY <1>2
  <2> QED BY <1>2, <2>1 DEF TableEntry
<1>5. j \in [Slot -> TableEntry]  BY <1>1, <1>3, <1>4
<1>6. /\ \A k \in Slot : k # s => j[k] = it[k]
      /\ j[s].ref = it[s].ref - 1 /\ j[s].lock = it[s].lock /\ j[s].inum = it[s].inum
      /\ j[s].valid = it[s].valid /\ j[s].ino = it[s].ino
  <2>1. j[s] = [it[s] EXCEPT !.ref = it[s].ref - 1]  BY <1>1, <1>3
  <2>2. \A k \in Slot : k # s => j[k] = it[k]  BY <1>1, <1>3
  <2> QED BY <2>1, <2>2, <1>2 DEF TableEntry
<1> HIDE DEF j
<1>7. \A k \in Slot : /\ (j[k].ref > 0 => it[k].ref > 0)
                      /\ j[k].inum = it[k].inum /\ j[k].valid = it[k].valid /\ j[k].ino = it[k].ino
  BY <1>6, <1>2
<1>8. OneEntry(j)  BY <1>7 DEF OneEntry, TableOK
<1>9. CopiesRight(j, D)  BY <1>7 DEF CopiesRight, TableOK
<1>10. TableOK(j, D)  BY <1>5, <1>7, <1>8, <1>9 DEF TableOK
<1> QED BY <1>6, <1>10 DEF j

\* An entry is changed, and so may be the inode that it is for.
LEMMA EntryPutOK ==
  ASSUME NEW it, NEW D, NEW D2, TableOK(it, D), NEW s \in Slot, it[s].ref > 0,
         NEW e \in TableEntry, e.ref = it[s].ref, e.inum = it[s].inum,
         e.valid => e.ino = D2[e.inum] /\ e.ino.type # "none",
         \A i \in Inum : i # e.inum => D2[i] = D[i]
  PROVE  TableOK([it EXCEPT ![s] = e], D2)
<1> DEFINE j == [it EXCEPT ![s] = e]
<1>1. it \in [Slot -> TableEntry]  BY DEF TableOK
<1>2. j \in [Slot -> TableEntry] /\ j[s] = e /\ \A k \in Slot : k # s => j[k] = it[k]  BY <1>1
<1> HIDE DEF j
<1>3. \A k \in Slot : j[k].ref = it[k].ref /\ j[k].inum = it[k].inum  BY <1>2
<1>4. OneEntry(j)  BY <1>3 DEF OneEntry, TableOK
<1>5. ASSUME NEW k \in Slot, j[k].ref > 0
      PROVE  j[k].inum # None /\ (j[k].valid => j[k].ino = D2[j[k].inum] /\ j[k].ino.type # "none")
  <2>1. CASE k = s  BY <1>2, <1>5, <2>1 DEF TableOK
  <2>2. CASE k # s
    <3>1. j[k] = it[k] /\ it[k].ref > 0  BY <1>2, <1>5, <2>2
    <3>2. it[k].inum # e.inum  BY <2>2, <3>1 DEF TableOK, OneEntry
    <3>3. it[k].inum # None /\ it[k].inum \in Inum \cup {None}  BY <1>1, <3>1, EntryTypes DEF TableOK
    <3>4. D2[it[k].inum] = D[it[k].inum]  BY <3>2, <3>3
    <3>5. it[k].valid => it[k].ino = D[it[k].inum] /\ it[k].ino.type # "none"
      BY <3>1 DEF TableOK, CopiesRight
    <3> QED BY <3>1, <3>3, <3>4, <3>5
  <2> QED BY <2>1, <2>2
<1>6. CopiesRight(j, D2)  BY <1>5 DEF CopiesRight
<1>7. TableOK(j, D2)  BY <1>2, <1>4, <1>5, <1>6 DEF TableOK
<1> QED BY <1>7 DEF j

LEMMA EntrySameOK ==
  ASSUME NEW it, NEW D, TableOK(it, D), NEW s \in Slot, it[s].ref >= 1,
         NEW e \in TableEntry, e.ref = it[s].ref, e.inum = it[s].inum,
         e.valid => e.ino = D[e.inum] /\ e.ino.type # "none"
  PROVE  TableOK([it EXCEPT ![s] = e], D)
<1>1. it[s].ref > 0
  <2>1. it[s].ref \in Nat  BY EntryTypes DEF TableOK
  <2> QED BY <2>1
<1>2. \A i \in Inum : i # e.inum => D[i] = D[i]  OBVIOUS
<1> QED BY <1>1, <1>2, EntryPutOK

\* A free inode has no valid copy.
LEMMA AllocatedOK ==
  ASSUME NEW it, NEW D, NEW D2, TableOK(it, D), NEW i \in Inum, D[i].type = "none",
         \A k \in Inum : k # i => D2[k] = D[k]
  PROVE  TableOK(it, D2)
<1>1. it \in [Slot -> TableEntry]  BY DEF TableOK
<1>2. ASSUME NEW k \in Slot, it[k].ref > 0, it[k].valid PROVE it[k].ino = D2[it[k].inum]
  <2>1. it[k].ino = D[it[k].inum] /\ it[k].ino.type # "none" /\ it[k].inum # None
    BY <1>2 DEF TableOK, CopiesRight
  <2>2. it[k].inum \in Inum  BY <1>1, <2>1, EntryTypes
  <2> QED BY <2>1, <2>2
<1>3. CopiesRight(it, D2)  BY <1>2 DEF CopiesRight
<1> QED BY <1>3 DEF TableOK

-----------------------------------------------------------------------------
(* Blocks.                                                                  *)

Spaces == [used : SUBSET Block, ind : [Block -> [1 .. NINDIRECT -> Block \cup {None}]]]
LastAddr == NDIRECT + 1

LEMMA AddrFacts == LastAddr \in Addr /\ \A n \in Nat : n >= 1 /\ n <= NDIRECT => n \in Addr /\ n # LastAddr
BY Constants DEF Addr, LastAddr

LEMMA InodeFacts ==
  ASSUME NEW ino \in Dinode
  PROVE  /\ ino.type \in Types /\ ino.nlink \in Int /\ ino.size \in Nat
         /\ ino.addrs \in [Addr -> Block \cup {None}]
         /\ \A a \in Addr : ino.addrs[a] \in Block \cup {None}
BY DEF Dinode

LEMMA SpaceFacts ==
  ASSUME NEW sp \in Spaces
  PROVE  /\ sp.used \subseteq Block
         /\ sp.ind \in [Block -> [1 .. NINDIRECT -> Block \cup {None}]]
         /\ \A b \in Block : sp.ind[b] \in [1 .. NINDIRECT -> Block \cup {None}]
         /\ \A b \in Block : \A j \in 1 .. NINDIRECT : sp.ind[b][j] \in Block \cup {None}
BY DEF Spaces

LEMMA ZerosFacts ==
  Zeros \in [1 .. NINDIRECT -> Block \cup {None}] /\ \A j \in 1 .. NINDIRECT : Zeros[j] = None
BY DEF Zeros

LEMMA InBlocks ==
  ASSUME NEW ino \in Dinode, NEW sp \in Spaces, NEW b
  PROVE  b \in BlocksOf(ino, sp.ind) <=>
           /\ b \in Block
           /\ \/ \E a \in Addr : ino.addrs[a] = b
              \/ /\ ino.addrs[LastAddr] \in Block
                 /\ \E j \in 1 .. NINDIRECT : sp.ind[ino.addrs[LastAddr]][j] = b
<1> DEFINE i == ino.addrs[LastAddr]
<1>1. /\ ino.addrs \in [Addr -> Block \cup {None}] /\ i \in Block \cup {None}
  BY InodeFacts, AddrFacts
<1>2. i \in Block => sp.ind[i] \in [1 .. NINDIRECT -> Block \cup {None}]  BY SpaceFacts
<1>3. BlocksOf(ino, sp.ind) =
        (Range(ino.addrs) \cup (IF i = None THEN {} ELSE Range(sp.ind[i]))) \ {None}
  BY DEF BlocksOf, LastAddr
<1>4. Range(ino.addrs) = {ino.addrs[a] : a \in Addr}  BY <1>1 DEF Range
<1>5. i \in Block => Range(sp.ind[i]) = {sp.ind[i][j] : j \in 1 .. NINDIRECT}  BY <1>2 DEF Range
<1>6. None \notin Block  BY Constants
<1>7. \A a \in Addr : ino.addrs[a] \in Block \cup {None}  BY <1>1
<1>8. i \in Block => \A j \in 1 .. NINDIRECT : sp.ind[i][j] \in Block \cup {None}  BY <1>2
<1> HIDE DEF i
<1> QED BY <1>1, <1>3, <1>4, <1>5, <1>6, <1>7, <1>8 DEF i

\* What an allocation does to an inode: the blocks taken are new to the disk, and are
\* its own; no block of others is written.
Grows(ino, sp, ino2, sp2) ==
  /\ sp.used \subseteq sp2.used
  /\ BlocksOf(ino2, sp2.ind) = BlocksOf(ino, sp.ind) \cup (sp2.used \ sp.used)
  /\ \A b \in sp.used \ BlocksOf(ino, sp.ind) : sp2.ind[b] = sp.ind[b]

LEMMA GrowsNot == ASSUME NEW ino, NEW sp PROVE Grows(ino, sp, ino, sp)
BY DEF Grows

LEMMA GrowsTwice ==
  ASSUME NEW ino, NEW sp, NEW ino2, NEW sp2, NEW ino3, NEW sp3,
         Grows(ino, sp, ino2, sp2), Grows(ino2, sp2, ino3, sp3)
  PROVE  Grows(ino, sp, ino3, sp3)
<1>1. sp.used \subseteq sp3.used  BY DEF Grows
<1>2. BlocksOf(ino3, sp3.ind) = BlocksOf(ino, sp.ind) \cup (sp3.used \ sp.used)  BY DEF Grows
<1>3. ASSUME NEW b \in sp.used \ BlocksOf(ino, sp.ind) PROVE sp3.ind[b] = sp.ind[b]
  <2>1. b \in sp2.used \ BlocksOf(ino2, sp2.ind)  BY DEF Grows
  <2> QED BY <2>1 DEF Grows
<1> QED BY <1>1, <1>2, <1>3 DEF Grows

LEMMA BallocOK ==
  ASSUME NEW sp \in Spaces
  PROVE  /\ balloc(sp).sp \in Spaces
         /\ balloc(sp).addr \in Block \cup {None}
         /\ balloc(sp).addr = None => balloc(sp).sp = sp
         /\ balloc(sp).addr # None =>
              /\ balloc(sp).addr \notin sp.used
              /\ balloc(sp).sp.used = sp.used \cup {balloc(sp).addr}
              /\ balloc(sp).sp.ind = [sp.ind EXCEPT ![balloc(sp).addr] = Zeros]
<1> DEFINE b == Lowest(Block \ sp.used)
<1>1. CASE Block \subseteq sp.used  BY <1>1 DEF balloc
<1>2. CASE ~(Block \subseteq sp.used)
  <2>1. Block \ sp.used # {} /\ Block \ sp.used \subseteq Nat  BY <1>2, Constants
  <2>2. b \in Block \ sp.used  BY <2>1, LowestIn
  <2> HIDE DEF b
  <2>3. balloc(sp) = [addr |-> b,
                      sp |-> [used |-> sp.used \cup {b}, ind |-> [sp.ind EXCEPT ![b] = Zeros]]]
    BY <1>2 DEF balloc, b
  <2>4. sp.used \cup {b} \subseteq Block  BY <2>2, SpaceFacts
  <2>5. [sp.ind EXCEPT ![b] = Zeros] \in [Block -> [1 .. NINDIRECT -> Block \cup {None}]]
    BY <2>2, SpaceFacts, ZerosFacts
  <2>6. balloc(sp).sp \in Spaces  BY <2>3, <2>4, <2>5 DEF Spaces
  <2>7. b # None  BY <2>2, Constants
  <2> QED BY <2>2, <2>3, <2>6, <2>7
<1> QED BY <1>1, <1>2

\* Inodes with blocks of their own, one of which grows.
LEMMA GrowsOwner ==
  ASSUME NEW D \in [Inum -> Dinode], NEW sp \in Spaces, OneOwner(D, sp), NEW i \in Inum,
         D[i].type # "none", NEW ino2 \in Dinode, ino2.type # "none", NEW sp2 \in Spaces,
         Grows(D[i], sp, ino2, sp2)
  PROVE  OneOwner([D EXCEPT ![i] = ino2], sp2)
<1> DEFINE E == [D EXCEPT ![i] = ino2]
           Of(j) == IF D[j].type = "none" THEN {} ELSE BlocksOf(D[j], sp.ind)
           Of2(j) == IF E[j].type = "none" THEN {} ELSE BlocksOf(E[j], sp2.ind)
<1>1. E[i] = ino2 /\ \A j \in Inum : j # i => E[j] = D[j]  OBVIOUS
<1>2. /\ \A j, k \in Inum : j # k => Of(j) \cap Of(k) = {}
      /\ sp.used = UNION {Of(j) : j \in Inum}
  BY DEF OneOwner
<1>3. Of(i) = BlocksOf(D[i], sp.ind) /\ Of2(i) = BlocksOf(ino2, sp2.ind)  BY <1>1
<1>4. Of2(i) = Of(i) \cup (sp2.used \ sp.used) /\ sp.used \subseteq sp2.used  BY <1>3 DEF Grows
<1>5. ASSUME NEW j \in Inum, j # i PROVE Of2(j) = Of(j)
  <2>1. CASE D[j].type = "none"  BY <1>1, <1>5, <2>1
  <2>2. CASE D[j].type # "none"
    <3> DEFINE a == D[j].addrs[LastAddr]
    <3>1. D[j] \in Dinode  OBVIOUS
    <3>2. a \in Block => sp2.ind[a] = sp.ind[a]
      <4>1. SUFFICES ASSUME a \in Block PROVE sp2.ind[a] = sp.ind[a]  OBVIOUS
      <4>2. a \in BlocksOf(D[j], sp.ind)  BY <3>1, <4>1, AddrFacts, InBlocks
      <4>3. a \in Of(j)  BY <2>2, <4>2
      <4>4. a \in sp.used /\ a \notin Of(i)  BY <1>2, <1>5, <4>3
      <4> QED BY <1>3, <4>4 DEF Grows
    <3>3. \A b : b \in BlocksOf(D[j], sp.ind) <=> b \in BlocksOf(D[j], sp2.ind)
      <4> SUFFICES ASSUME NEW b PROVE b \in BlocksOf(D[j], sp.ind) <=> b \in BlocksOf(D[j], sp2.ind)
        OBVIOUS
      <4>1. b \in BlocksOf(D[j], sp.ind) <=>
              /\ b \in Block
              /\ \/ \E x \in Addr : D[j].addrs[x] = b
                 \/ a \in Block /\ \E y \in 1 .. NINDIRECT : sp.ind[a][y] = b
        BY <3>1, InBlocks
      <4>2. b \in BlocksOf(D[j], sp2.ind) <=>
              /\ b \in Block
              /\ \/ \E x \in Addr : D[j].addrs[x] = b
                 \/ a \in Block /\ \E y \in 1 .. NINDIRECT : sp2.ind[a][y] = b
        BY <3>1, InBlocks
      <4> HIDE DEF a
      <4> QED BY <3>2, <4>1, <4>2
    <3>4. BlocksOf(D[j], sp.ind) = BlocksOf(D[j], sp2.ind)  BY <3>3
    <3> QED BY <1>1, <1>5, <3>4
  <2> QED BY <2>1, <2>2
<1>6. \A j \in Inum : Of(j) \subseteq sp.used  BY <1>2
<1> HIDE DEF E, Of, Of2
<1>7. \A j, k \in Inum : j # k => Of2(j) \cap Of2(k) = {}
  <2> SUFFICES ASSUME NEW j \in Inum, NEW k \in Inum, j # k, NEW b, b \in Of2(j), b \in Of2(k)
               PROVE  FALSE
    OBVIOUS
  <2>1. CASE j # i /\ k # i  BY <1>2, <1>5, <2>1
  <2>2. CASE j = i  BY <1>2, <1>4, <1>5, <1>6, <2>2
  <2>3. CASE k = i  BY <1>2, <1>4, <1>5, <1>6, <2>3
  <2> QED BY <2>1, <2>2, <2>3
<1>8. sp2.used = UNION {Of2(j) : j \in Inum}
  <2>1. ASSUME NEW b PROVE b \in sp2.used <=> \E j \in Inum : b \in Of2(j)
    <3>1. b \in sp.used <=> \E j \in Inum : b \in Of(j)  BY <1>2
    <3>2. b \in sp2.used <=> b \in sp.used \/ b \in sp2.used \ sp.used  BY <1>4
    <3>3. \A j \in Inum : b \in Of(j) => b \in Of2(j)  BY <1>4, <1>5
    <3>4. \A j \in Inum : b \in Of2(j) => b \in Of(j) \/ b \in sp2.used \ sp.used  BY <1>4, <1>5
    <3>5. b \in sp2.used \ sp.used => b \in Of2(i)  BY <1>4
    <3> QED BY <3>1, <3>2, <3>3, <3>4, <3>5
  <2> QED BY <2>1
<1> QED BY <1>7, <1>8 DEF OneOwner, E, Of2

\* The blocks of an inode are all given back.
LEMMA FreesOwner ==
  ASSUME NEW D \in [Inum -> Dinode], NEW sp \in Spaces, OneOwner(D, sp), NEW i \in Inum,
         D[i].type # "none", NEW ino2 \in Dinode, ino2.addrs = NoInode.addrs
  PROVE  OneOwner([D EXCEPT ![i] = ino2], [sp EXCEPT !.used = @ \ BlocksOf(D[i], sp.ind)])
<1> DEFINE E == [D EXCEPT ![i] = ino2]
           sp2 == [sp EXCEPT !.used = @ \ BlocksOf(D[i], sp.ind)]
           Of(j) == IF D[j].type = "none" THEN {} ELSE BlocksOf(D[j], sp.ind)
           Of2(j) == IF E[j].type = "none" THEN {} ELSE BlocksOf(E[j], sp2.ind)
<1>1. E[i] = ino2 /\ \A j \in Inum : j # i => E[j] = D[j]  OBVIOUS
<1>2. /\ \A j, k \in Inum : j # k => Of(j) \cap Of(k) = {}
      /\ sp.used = UNION {Of(j) : j \in Inum}
  BY DEF OneOwner
<1>3. sp2 \in Spaces /\ sp2.ind = sp.ind /\ sp2.used = sp.used \ Of(i)
  BY DEF Spaces
<1>4. Of2(i) = {}
  <2>1. \A a \in Addr : ino2.addrs[a] = None  BY DEF NoInode
  <2>2. \A b : b \notin BlocksOf(ino2, sp2.ind)  BY <1>3, <2>1, InBlocks, AddrFacts, Constants
  <2>3. BlocksOf(ino2, sp2.ind) = {}  BY <2>2
  <2> QED BY <1>1, <2>3
<1>5. \A j \in Inum : j # i => Of2(j) = Of(j)  BY <1>1, <1>3
<1> HIDE DEF E, Of, Of2, sp2
<1>6. \A j, k \in Inum : j # k => Of2(j) \cap Of2(k) = {}  BY <1>2, <1>4, <1>5
<1>7. sp2.used = UNION {Of2(j) : j \in Inum}
  <2>1. ASSUME NEW b PROVE b \in sp2.used <=> \E j \in Inum : b \in Of2(j)
    <3>1. b \in sp.used <=> \E j \in Inum : b \in Of(j)  BY <1>2
    <3>2. \A j \in Inum : j # i /\ b \in Of(j) => b \notin Of(i)  BY <1>2
    <3> QED BY <1>3, <1>4, <1>5, <3>1, <3>2
  <2> QED BY <2>1
<1> QED BY <1>6, <1>7 DEF OneOwner, E, Of2, sp2

\* Types and addresses are what counts.
LEMMA SameOwner ==
  ASSUME NEW D, NEW E, NEW sp, OneOwner(D, sp),
         \A i \in Inum : E[i].type = D[i].type /\ E[i].addrs = D[i].addrs
  PROVE  OneOwner(E, sp)
<1>1. \A i \in Inum : BlocksOf(E[i], sp.ind) = BlocksOf(D[i], sp.ind)  BY DEF BlocksOf
<1> QED BY <1>1 DEF OneOwner

\* A free inode has no blocks before it is used.
LEMMA NewOwner ==
  ASSUME NEW D \in [Inum -> Dinode], NEW sp \in Spaces, OneOwner(D, sp), NEW i \in Inum,
         D[i].type = "none", NEW ino2 \in Dinode, ino2.addrs = NoInode.addrs
  PROVE  OneOwner([D EXCEPT ![i] = ino2], sp)
<1> DEFINE E == [D EXCEPT ![i] = ino2]
           Of(j) == IF D[j].type = "none" THEN {} ELSE BlocksOf(D[j], sp.ind)
           Of2(j) == IF E[j].type = "none" THEN {} ELSE BlocksOf(E[j], sp.ind)
<1>1. E[i] = ino2 /\ \A j \in Inum : j # i => E[j] = D[j]  OBVIOUS
<1>2. /\ \A j, k \in Inum : j # k => Of(j) \cap Of(k) = {}
      /\ sp.used = UNION {Of(j) : j \in Inum}
  BY DEF OneOwner
<1>3. Of2(i) = {}
  <2>1. \A a \in Addr : ino2.addrs[a] = None  BY DEF NoInode
  <2>2. \A b : b \notin BlocksOf(ino2, sp.ind)  BY <2>1, InBlocks, AddrFacts, Constants
  <2> QED BY <1>1, <2>2
<1>4. \A j \in Inum : Of2(j) = Of(j)  BY <1>1, <1>3
<1> HIDE DEF E, Of, Of2
<1> QED
  <2>1. \A j, k \in Inum : j # k => Of2(j) \cap Of2(k) = {}  BY <1>2, <1>4
  <2>2. sp.used = UNION {Of2(j) : j \in Inum}  BY <1>2, <1>4
  <2> QED BY <2>1, <2>2 DEF OneOwner, E, Of2

\* What writing to an inode, or making an entry of it, leaves of it.
Kind(ino, ino2) == ino2 \in Dinode /\ ino2.type = ino.type /\ ino2.nlink = ino.nlink

\* One address of an inode.
LEMMA InInodeOK ==
  ASSUME NEW ino \in Dinode, NEW sp \in Spaces, BlocksOf(ino, sp.ind) \subseteq sp.used, NEW k \in Addr
  PROVE  LET r == InInode(ino, k, IF ino.addrs[k] # None THEN Kept(ino.addrs[k], sp) ELSE balloc(sp))
         IN  /\ r.sp \in Spaces /\ Kind(ino, r.ino) /\ r.ino.size = ino.size
             /\ Grows(ino, sp, r.ino, r.sp)
             /\ r.addr \in Block \cup {None} /\ r.addr = r.ino.addrs[k]
<1> DEFINE new == IF ino.addrs[k] # None THEN Kept(ino.addrs[k], sp) ELSE balloc(sp)
           r == InInode(ino, k, new)
<1>1. /\ ino.addrs \in [Addr -> Block \cup {None}] /\ ino.addrs[k] \in Block \cup {None}
  BY InodeFacts
<1>2. r.addr = new.addr /\ r.sp = new.sp /\ r.ino = [ino EXCEPT !.addrs = [ino.addrs EXCEPT ![k] = new.addr]]
  BY DEF InInode
<1>3. new.addr \in Block \cup {None} /\ new.sp \in Spaces  BY <1>1, BallocOK DEF Kept
<1>4. new.addr = ino.addrs[k] => new.sp = sp  BY <1>1, BallocOK DEF Kept
<1>5. new.addr # ino.addrs[k] =>
        /\ ino.addrs[k] = None /\ new.addr \in Block /\ new.addr \notin sp.used
        /\ new.sp.used = sp.used \cup {new.addr}
        /\ new.sp.ind = [sp.ind EXCEPT ![new.addr] = Zeros]
  BY <1>1, <1>3, BallocOK DEF Kept
<1> HIDE DEF new, r
<1>6. [ino.addrs EXCEPT ![k] = new.addr] \in [Addr -> Block \cup {None}]  BY <1>1, <1>3
<1>7. Kind(ino, r.ino) /\ r.ino.size = ino.size
  BY <1>2, <1>6 DEF Kind, Dinode
<1>8. r.ino.addrs = [ino.addrs EXCEPT ![k] = new.addr]  BY <1>2 DEF Dinode
<1>9. r.ino.addrs[k] = new.addr /\ \A a \in Addr : a # k => r.ino.addrs[a] = ino.addrs[a]
  BY <1>1, <1>8
<1>10. r.ino \in Dinode  BY <1>7 DEF Kind
<1>11. Grows(ino, sp, r.ino, r.sp)
  <2>1. CASE new.addr = ino.addrs[k]
    <3>1. r.ino.addrs = ino.addrs  BY <1>1, <1>8, <2>1
    <3>2. r.sp = sp  BY <1>2, <1>4, <2>1
    <3>3. BlocksOf(r.ino, r.sp.ind) = BlocksOf(ino, sp.ind)  BY <3>1, <3>2 DEF BlocksOf
    <3> QED BY <3>2, <3>3 DEF Grows
  <2>2. CASE new.addr # ino.addrs[k]
    <3> DEFINE b == new.addr
               a == ino.addrs[LastAddr]
    <3>1. /\ ino.addrs[k] = None /\ b \in Block /\ b \notin sp.used
          /\ r.sp.used = sp.used \cup {b} /\ r.sp.ind = [sp.ind EXCEPT ![b] = Zeros]
      BY <1>2, <1>5, <2>2
    <3>2. sp.ind \in [Block -> [1 .. NINDIRECT -> Block \cup {None}]]  BY SpaceFacts
    <3>3. \A x \in Block : r.sp.ind[x] = IF x = b THEN Zeros ELSE sp.ind[x]  BY <3>1, <3>2
    <3>4. a \in Block => a # b
      <4>1. a \in Block => a \in BlocksOf(ino, sp.ind)  BY AddrFacts, InBlocks
      <4> QED BY <3>1, <4>1
    <3>5. r.sp \in Spaces  BY <1>2, <1>3
    <3>6. ASSUME NEW x PROVE x \in BlocksOf(r.ino, r.sp.ind) <=> x \in BlocksOf(ino, sp.ind) \/ x = b
      <4>1. x \in BlocksOf(ino, sp.ind) <=>
              /\ x \in Block
              /\ \/ \E y \in Addr : ino.addrs[y] = x
                 \/ a \in Block /\ \E j \in 1 .. NINDIRECT : sp.ind[a][j] = x
        BY InBlocks
      <4>2. x \in BlocksOf(r.ino, r.sp.ind) <=>
              /\ x \in Block
              /\ \/ \E y \in Addr : r.ino.addrs[y] = x
                 \/ r.ino.addrs[LastAddr] \in Block /\ \E j \in 1 .. NINDIRECT : r.sp.ind[r.ino.addrs[LastAddr]][j] = x
        <5> DEFINE inode == r.ino
                   space == r.sp
        <5>1. inode \in Dinode /\ space \in Spaces  BY <1>10, <3>5
        <5> HIDE DEF inode, space, a, b
        <5>2. x \in BlocksOf(inode, space.ind) <=>
                /\ x \in Block
                /\ \/ \E y \in Addr : inode.addrs[y] = x
                   \/ /\ inode.addrs[LastAddr] \in Block
                      /\ \E j \in 1 .. NINDIRECT : space.ind[inode.addrs[LastAddr]][j] = x
          BY <5>1, InBlocks
        <5> QED BY <5>2 DEF inode, space
      <4>3. None \notin Block /\ LastAddr \in Addr  BY Constants, AddrFacts
      <4>4. x \in Block => ((\E y \in Addr : r.ino.addrs[y] = x) <=> (\E y \in Addr : ino.addrs[y] = x) \/ x = b)
        BY <1>9, <3>1, <4>3
      <4>5. CASE k = LastAddr
        <5>1. r.ino.addrs[LastAddr] = b /\ a = None  BY <1>9, <3>1, <4>5
        <5>2. \A j \in 1 .. NINDIRECT : r.sp.ind[b][j] = None
          <6>1. r.sp.ind[b] = Zeros  BY <3>1, <3>3
          <6> QED BY <6>1, ZerosFacts
        <5> HIDE DEF a, b
        <5> QED BY <3>1, <4>1, <4>2, <4>3, <4>4, <5>1, <5>2
      <4>6. CASE k # LastAddr
        <5>1. r.ino.addrs[LastAddr] = a  BY <1>9, <4>3, <4>6
        <5>2. a \in Block => r.sp.ind[a] = sp.ind[a]  BY <3>3, <3>4
        <5> HIDE DEF a, b
        <5> QED BY <3>1, <4>1, <4>2, <4>4, <5>1, <5>2
      <4> QED BY <4>5, <4>6
    <3>7. BlocksOf(r.ino, r.sp.ind) = BlocksOf(ino, sp.ind) \cup {b}  BY <3>6
    <3>8. r.sp.used \ sp.used = {b}  BY <3>1
    <3>9. \A x \in sp.used : r.sp.ind[x] = sp.ind[x]  BY <3>1, <3>3, SpaceFacts
    <3> HIDE DEF b
    <3> QED BY <3>1, <3>7, <3>8, <3>9 DEF Grows
  <2> QED BY <2>1, <2>2
<1>12. r.sp \in Spaces /\ r.addr \in Block \cup {None} /\ r.addr = r.ino.addrs[k]  BY <1>2, <1>3, <1>9
<1> QED BY <1>7, <1>11, <1>12 DEF r, new

\* One address in an indirect block.
LEMMA IndirectlyOK ==
  ASSUME NEW ino \in Dinode, NEW sp \in Spaces, BlocksOf(ino, sp.ind) \subseteq sp.used,
         NEW a \in Block, ino.addrs[LastAddr] = a, NEW k \in 1 .. NINDIRECT
  PROVE  LET r == InIndirect(ino, a, k, IF sp.ind[a][k] # None THEN Kept(sp.ind[a][k], sp) ELSE balloc(sp))
         IN  /\ r.sp \in Spaces /\ r.ino = ino
             /\ Grows(ino, sp, r.ino, r.sp)
             /\ r.addr \in Block \cup {None}
<1> DEFINE new == IF sp.ind[a][k] # None THEN Kept(sp.ind[a][k], sp) ELSE balloc(sp)
           r == InIndirect(ino, a, k, new)
           b == new.addr
<1>1. sp.ind \in [Block -> [1 .. NINDIRECT -> Block \cup {None}]] /\ sp.ind[a][k] \in Block \cup {None}
      /\ sp.ind[a] \in [1 .. NINDIRECT -> Block \cup {None}]
  BY SpaceFacts
<1>2. /\ r.addr = new.addr /\ r.ino = ino
      /\ r.sp = IF new.addr = None THEN new.sp
                ELSE [new.sp EXCEPT !.ind = [new.sp.ind EXCEPT ![a] = [new.sp.ind[a] EXCEPT ![k] = new.addr]]]
  BY DEF InIndirect
<1>3. new.addr \in Block \cup {None} /\ new.sp \in Spaces  BY <1>1, BallocOK DEF Kept
<1>4. sp.ind[a][k] # None => new.addr = sp.ind[a][k] /\ new.sp = sp  BY DEF Kept
<1>5. sp.ind[a][k] = None => new = balloc(sp)  OBVIOUS
<1>6. None \notin Block  BY Constants
<1> HIDE DEF new, r
<1>7. CASE new.addr = None
  <2>1. sp.ind[a][k] = None  BY <1>4, <1>7
  <2>2. new.sp = sp  BY <1>5, <1>7, <2>1, BallocOK
  <2>3. r.sp = sp /\ r.ino = ino /\ r.addr = None  BY <1>2, <1>7, <2>2
  <2> QED BY <2>3, GrowsNot DEF r, new
<1>8. CASE new.addr # None
  <2> DEFINE row == [new.sp.ind[a] EXCEPT ![k] = b]
  <2>1. b \in Block  BY <1>3, <1>8
  <2>2. new.sp.ind \in [Block -> [1 .. NINDIRECT -> Block \cup {None}]]
        /\ new.sp.ind[a] \in [1 .. NINDIRECT -> Block \cup {None}]
    BY <1>3, SpaceFacts
  <2>3. row \in [1 .. NINDIRECT -> Block \cup {None}]  BY <2>1, <2>2
  <2>4. r.sp = [new.sp EXCEPT !.ind = [new.sp.ind EXCEPT ![a] = row]]  BY <1>2, <1>8
  <2>5. r.sp.used = new.sp.used /\ r.sp.ind = [new.sp.ind EXCEPT ![a] = row]
    BY <1>3, <2>4 DEF Spaces
  <2>6. r.sp \in Spaces
    <3>1. [new.sp.ind EXCEPT ![a] = row] \in [Block -> [1 .. NINDIRECT -> Block \cup {None}]]
      BY <2>2, <2>3
    <3> HIDE DEF row
    <3> QED BY <1>3, <2>4, <3>1 DEF Spaces
  <2>7. a \in BlocksOf(ino, sp.ind)  BY AddrFacts, InBlocks
  <2>8. a \in sp.used  BY <2>7
  <2>9. sp.ind[a][k] = None => b \notin sp.used /\ new.sp.used = sp.used \cup {b}
                               /\ new.sp.ind = [sp.ind EXCEPT ![b] = Zeros]
    BY <1>5, <1>8, BallocOK
  <2>10. new.sp.ind[a] = sp.ind[a] /\ new.sp.used = sp.used \cup {b}
         /\ \A x \in sp.used : new.sp.ind[x] = sp.ind[x]
    <3>1. CASE sp.ind[a][k] = None
      <4>1. \A x \in sp.used : x \in Block /\ x # b  BY <2>9, <3>1, SpaceFacts
      <4>2. \A x \in sp.used : new.sp.ind[x] = sp.ind[x]  BY <1>1, <2>9, <3>1, <4>1
      <4> QED BY <2>8, <2>9, <3>1, <4>2
    <3>2. CASE sp.ind[a][k] # None
      <4>1. new.sp = sp /\ b = sp.ind[a][k]  BY <1>4, <3>2
      <4>2. b \in BlocksOf(ino, sp.ind)  BY <2>1, <4>1, InBlocks
      <4> QED BY <4>1, <4>2
    <3> QED BY <3>1, <3>2
  <2>11. row[k] = b /\ \A j \in 1 .. NINDIRECT : j # k => row[j] = sp.ind[a][j]  BY <2>2, <2>10
  <2>12. sp.ind[a][k] \in {None, b}  BY <1>4
  <2>13. r.sp.ind[a] = row /\ \A x \in Block : x # a => r.sp.ind[x] = new.sp.ind[x]  BY <2>2, <2>5
  <2> HIDE DEF row, b
  <2>14. ASSUME NEW x PROVE x \in BlocksOf(ino, r.sp.ind) <=> x \in BlocksOf(ino, sp.ind) \/ x = b
    <3>1. x \in BlocksOf(ino, sp.ind) <=>
            /\ x \in Block
            /\ \/ \E y \in Addr : ino.addrs[y] = x
               \/ \E j \in 1 .. NINDIRECT : sp.ind[a][j] = x
      BY InBlocks
    <3>2. x \in BlocksOf(ino, r.sp.ind) <=>
            /\ x \in Block
            /\ \/ \E y \in Addr : ino.addrs[y] = x
               \/ \E j \in 1 .. NINDIRECT : row[j] = x
      BY <2>6, <2>13, InBlocks
    <3>3. x \in Block => ((\E j \in 1 .. NINDIRECT : row[j] = x) <=>
                          (\E j \in 1 .. NINDIRECT : sp.ind[a][j] = x) \/ x = b)
      BY <1>6, <2>11, <2>12
    <3> QED BY <2>1, <3>1, <3>2, <3>3
  <2>15. BlocksOf(ino, r.sp.ind) = BlocksOf(ino, sp.ind) \cup {b}  BY <2>14
  <2>16. r.sp.used = sp.used \cup {b}  BY <2>5, <2>10
  <2>17. b \in sp.used => b \in BlocksOf(ino, sp.ind)
    <3>1. b \in sp.used => b = sp.ind[a][k]  BY <2>9, <2>12
    <3> QED BY <2>1, <3>1, InBlocks
  <2>18. BlocksOf(ino, r.sp.ind) = BlocksOf(ino, sp.ind) \cup (r.sp.used \ sp.used)
    BY <2>15, <2>16, <2>17
  <2>19. \A x \in sp.used \ BlocksOf(ino, sp.ind) : r.sp.ind[x] = sp.ind[x]
    BY <2>7, <2>10, <2>13, SpaceFacts
  <2>20. Grows(ino, sp, ino, r.sp)  BY <2>16, <2>18, <2>19 DEF Grows
  <2> QED BY <1>2, <1>3, <2>6, <2>20 DEF r, new
<1> QED BY <1>7, <1>8

\* The n-th block.
LEMMA BmapOK ==
  ASSUME NEW ino \in Dinode, NEW sp \in Spaces, BlocksOf(ino, sp.ind) \subseteq sp.used,
         NEW n \in Nat, n >= 1, n <= NDIRECT + NINDIRECT
  PROVE  LET r == bmap(ino, sp, n)
         IN  /\ r.sp \in Spaces /\ Kind(ino, r.ino) /\ r.ino.size = ino.size
             /\ Grows(ino, sp, r.ino, r.sp)
             /\ r.addr \in Block \cup {None}
<1> DEFINE k == IF n <= NDIRECT THEN n ELSE NDIRECT + 1
           r == InInode(ino, k, IF ino.addrs[k] # None THEN Kept(ino.addrs[k], sp) ELSE balloc(sp))
           t == InIndirect(r.ino, r.addr, n - NDIRECT,
                           IF r.sp.ind[r.addr][n - NDIRECT] # None
                             THEN Kept(r.sp.ind[r.addr][n - NDIRECT], r.sp) ELSE balloc(r.sp))
<1>1. k \in Addr /\ (~(n <= NDIRECT) => k = LastAddr)  BY AddrFacts, Constants DEF LastAddr, Addr
<1>2. bmap(ino, sp, n) = IF n <= NDIRECT \/ r.addr = None THEN r ELSE t
  BY DEF bmap, Indirectly
<1> HIDE DEF k
<1>3. /\ r.sp \in Spaces /\ Kind(ino, r.ino) /\ r.ino.size = ino.size
      /\ Grows(ino, sp, r.ino, r.sp)
      /\ r.addr \in Block \cup {None} /\ r.addr = r.ino.addrs[k]
  BY <1>1, InInodeOK
<1> HIDE DEF r
<1>4. CASE n <= NDIRECT \/ r.addr = None  BY <1>2, <1>3, <1>4
<1>5. CASE ~(n <= NDIRECT) /\ r.addr # None
  <2>1. r.ino \in Dinode  BY <1>3 DEF Kind
  <2>2. BlocksOf(r.ino, r.sp.ind) \subseteq r.sp.used  BY <1>3 DEF Grows
  <2>3. r.addr \in Block /\ r.ino.addrs[LastAddr] = r.addr  BY <1>1, <1>3, <1>5
  <2>4. n - NDIRECT \in 1 .. NINDIRECT  BY <1>5, Constants
  <2>5. /\ t.sp \in Spaces /\ t.ino = r.ino
        /\ Grows(r.ino, r.sp, t.ino, t.sp)
        /\ t.addr \in Block \cup {None}
    BY <1>3, <2>1, <2>2, <2>3, <2>4, IndirectlyOK
  <2> HIDE DEF t
  <2>6. Grows(ino, sp, t.ino, t.sp)  BY <1>3, <2>5, GrowsTwice
  <2> QED BY <1>2, <1>3, <1>5, <2>5, <2>6
<1> QED BY <1>4, <1>5

LEMMA WriteiOK ==
  ASSUME NEW ino \in Dinode, NEW sp \in Spaces, BlocksOf(ino, sp.ind) \subseteq sp.used, NEW off \in Nat
  PROVE  LET w == writei(ino, sp, off)
         IN  /\ w.ok \in BOOLEAN /\ w.sp \in Spaces /\ Kind(ino, w.ino)
             /\ Grows(ino, sp, w.ino, w.sp)
<1> DEFINE m == IF ino.type = "dir" THEN off \div PerBlock ELSE off
           r == bmap(ino, sp, m + 1)
           w == writei(ino, sp, off)
<1>1. m \in Nat
  <2>1. PerBlock \in Nat /\ PerBlock > 0  BY Constants
  <2>2. off \div PerBlock \in Nat  BY <2>1
  <2> QED BY <2>2
<1>2. w = IF off > ino.size \/ m + 1 > NDIRECT + NINDIRECT THEN [ok |-> FALSE, ino |-> ino, sp |-> sp]
          ELSE Written(r, off)
  BY DEF writei
<1> HIDE DEF w, m
<1>3. CASE off > ino.size \/ m + 1 > NDIRECT + NINDIRECT
  <2>1. w.ok = FALSE /\ w.ino = ino /\ w.sp = sp  BY <1>2, <1>3
  <2> QED BY <2>1, GrowsNot DEF Kind, w
<1>4. CASE ~(off > ino.size \/ m + 1 > NDIRECT + NINDIRECT)
  <2>1. m + 1 \in Nat /\ m + 1 >= 1 /\ m + 1 <= NDIRECT + NINDIRECT  BY <1>1, <1>4, Constants
  <2>2. /\ r.sp \in Spaces /\ Kind(ino, r.ino) /\ r.ino.size = ino.size
        /\ Grows(ino, sp, r.ino, r.sp)
        /\ r.addr \in Block \cup {None}
    BY <2>1, BmapOK
  <2> HIDE DEF r
  <2>3. /\ w.ok = (r.addr # None) /\ w.sp = r.sp
        /\ w.ino = IF r.addr # None /\ off = r.ino.size THEN [r.ino EXCEPT !.size = off + 1] ELSE r.ino
    BY <1>2, <1>4 DEF Written
  <2>4. r.ino \in Dinode  BY <2>2 DEF Kind
  <2>5. w.ino \in Dinode /\ w.ino.type = r.ino.type /\ w.ino.nlink = r.ino.nlink /\ w.ino.addrs = r.ino.addrs
    BY <2>3, <2>4 DEF Dinode
  <2>6. Kind(ino, w.ino)  BY <2>2, <2>5 DEF Kind
  <2>7. BlocksOf(w.ino, w.sp.ind) = BlocksOf(r.ino, r.sp.ind)  BY <2>3, <2>5 DEF BlocksOf
  <2>8. Grows(ino, sp, w.ino, w.sp)  BY <2>2, <2>3, <2>7 DEF Grows
  <2> QED BY <2>2, <2>3, <2>6, <2>8 DEF w
<1> QED BY <1>3, <1>4

\* A directory that is written to.
Dirs == [ok : BOOLEAN, d : Seq(DirEntry), ino : Dinode, sp : Spaces]
Own1(dir) == BlocksOf(dir.ino, dir.sp.ind) \subseteq dir.sp.used

LEMMA DirlookupOK ==
  ASSUME NEW d \in Seq(DirEntry), NEW n
  PROVE  /\ dirlookup(d, n) \in Inum \cup {None}
         /\ Found(d, n) \subseteq DOMAIN d
         /\ dirlookup(d, n) # None => Found(d, n) # {} /\ Lowest(Found(d, n)) \in DOMAIN d
<1>1. DOMAIN d = 1 .. Len(d) /\ Len(d) \in Nat /\ \A k \in DOMAIN d : d[k] \in DirEntry
  BY LenProperties, ElementOfSeq
<1>2. Found(d, n) \subseteq DOMAIN d /\ Found(d, n) \subseteq Nat  BY <1>1 DEF Found
<1>3. Found(d, n) # {} => Lowest(Found(d, n)) \in DOMAIN d  BY <1>2, LowestIn
<1> DEFINE l == Lowest(Found(d, n))
<1>4. dirlookup(d, n) = IF Found(d, n) = {} THEN None ELSE d[l].inum  BY DEF dirlookup
<1> HIDE DEF l
<1>5. Found(d, n) # {} => d[l].inum \in Inum \cup {None}  BY <1>1, <1>3 DEF DirEntry, l
<1> QED BY <1>2, <1>3, <1>4, <1>5

LEMMA DirlinkOK ==
  ASSUME NEW dir \in Dirs, Own1(dir), NEW n \in Name, NEW i \in Inum
  PROVE  LET r == dirlink(dir, n, i)
         IN  /\ r \in Dirs /\ Own1(r)
             /\ Kind(dir.ino, r.ino)
             /\ Grows(dir.ino, dir.sp, r.ino, r.sp)
<1> DEFINE d == dir.d
           k == IF Empties(d) = {} THEN Len(d) + 1 ELSE Lowest(Empties(d))
           w == writei(dir.ino, dir.sp, k - 1)
           r == dirlink(dir, n, i)
<1>1. dir.ok \in BOOLEAN /\ d \in Seq(DirEntry) /\ dir.ino \in Dinode /\ dir.sp \in Spaces  BY DEF Dirs
<1>2. r = IF ~dir.ok \/ dirlookup(d, n) # None THEN [dir EXCEPT !.ok = FALSE]
          ELSE Linked(d, k, Entry(n, i), w)
  BY DEF dirlink, LinkedAt
<1> HIDE DEF r
<1>3. CASE ~dir.ok \/ dirlookup(d, n) # None
  <2>1. r = [dir EXCEPT !.ok = FALSE]  BY <1>2, <1>3
  <2>2. r \in Dirs /\ r.ino = dir.ino /\ r.sp = dir.sp  BY <2>1 DEF Dirs
  <2> QED BY <1>1, <2>2, GrowsNot DEF Own1, Kind, r
<1>4. CASE ~(~dir.ok \/ dirlookup(d, n) # None)
  <2>1. DOMAIN d = 1 .. Len(d) /\ Len(d) \in Nat  BY <1>1, LenProperties
  <2>2. k \in 1 .. Len(d) + 1
    <3>1. Empties(d) \subseteq 1 .. Len(d) /\ Empties(d) \subseteq Nat  BY <2>1 DEF Empties
    <3>2. Empties(d) # {} => Lowest(Empties(d)) \in 1 .. Len(d)  BY <3>1, LowestIn
    <3> QED BY <2>1, <3>2
  <2> HIDE DEF k, d
  <2>3. k - 1 \in Nat  BY <2>1, <2>2
  <2>4. /\ w.ok \in BOOLEAN /\ w.sp \in Spaces /\ Kind(dir.ino, w.ino)
        /\ Grows(dir.ino, dir.sp, w.ino, w.sp)
    BY <1>1, <2>3, WriteiOK DEF Own1
  <2> HIDE DEF w
  <2>5. Entry(n, i) \in DirEntry  BY DEF Entry, DirEntry, Name
  <2> DEFINE e == Entry(n, i)
  <2>6. /\ r.ok = w.ok /\ r.ino = w.ino /\ r.sp = w.sp
        /\ r.d = (IF ~w.ok THEN d ELSE IF k <= Len(d) THEN [d EXCEPT ![k] = e] ELSE Append(d, e))
        /\ r = [ok |-> r.ok, ino |-> r.ino, sp |-> r.sp, d |-> r.d]
    BY <1>2, <1>4 DEF Linked
  <2>7. k <= Len(d) => [d EXCEPT ![k] = e] \in Seq(DirEntry)
    <3>1. k <= Len(d) => k \in 1 .. Len(d)  BY <2>1, <2>2
    <3> QED BY <1>1, <2>5, <3>1, ExceptSeq
  <2>8. Append(d, e) \in Seq(DirEntry)  BY <1>1, <2>5
  <2>9. r.d \in Seq(DirEntry)  BY <1>1, <2>6, <2>7, <2>8
  <2>10. w.ino \in Dinode  BY <2>4 DEF Kind
  <2>11. r \in Dirs  BY <2>4, <2>6, <2>9, <2>10 DEF Dirs
  <2>12. Own1(r)  BY <2>4, <2>6 DEF Own1, Grows
  <2> QED BY <2>4, <2>6, <2>11, <2>12 DEF r
<1> QED BY <1>3, <1>4

-----------------------------------------------------------------------------
(* What a process does to its variables, and nobody else.                   *)

LocalTypes ==
  /\ cwd \in [Procs -> Slot]
  /\ fd \in [Procs -> OpenFile \cup {None}]
  /\ call \in [Procs -> Calls \cup {None}]
  /\ pc \in [Procs -> Labels]
  /\ path \in [Procs -> Seq(STRING)]
  /\ ip \in [Procs -> Slot \cup {None}]
  /\ dp \in [Procs -> Slot \cup {None}]
  /\ name \in [Procs -> STRING \cup {None}]
  /\ old \in [Procs -> Slot \cup {None}]
  /\ puts \in [Procs -> Seq(Slot)]
  /\ after \in [Procs -> Labels]
  /\ calls \in 0 .. MaxCalls
  /\ lost \subseteq Inum

DiskTypes ==
  /\ dinode \in [Inum -> Dinode]
  /\ dirent \in [Inum -> Seq(DirEntry)]
  /\ Space \in Spaces

LEMMA TypesSplit ==
  /\ TypeOK => LocalTypes /\ DiskTypes /\ itable \in [Slot -> TableEntry]
  /\ LocalTypes /\ DiskTypes /\ itable \in [Slot -> TableEntry] => TypeOK
<1>1. Space \in Spaces <=> /\ bitmap \subseteq Block
                           /\ indirect \in [Block -> [1 .. NINDIRECT -> Block \cup {None}]]
  BY DEF Space, Spaces
<1> QED BY <1>1 DEF TypeOK, LocalTypes, DiskTypes

\* The variables of p after a step: where it is, what it puts and where it goes on;
\* its call, ip, dp and old; its directory and its file.
Now(p, l, ps, a, c, i, d, o, w, f) ==
  /\ pc' = [pc EXCEPT ![p] = l]
  /\ puts' = [puts EXCEPT ![p] = ps]
  /\ after' = [after EXCEPT ![p] = a]
  /\ call' = [call EXCEPT ![p] = c]
  /\ ip' = [ip EXCEPT ![p] = i]
  /\ dp' = [dp EXCEPT ![p] = d]
  /\ old' = [old EXCEPT ![p] = o]
  /\ cwd' = [cwd EXCEPT ![p] = w]
  /\ fd' = [fd EXCEPT ![p] = f]

OtherTypes ==
  /\ path \in [Procs -> Seq(STRING)]
  /\ name \in [Procs -> STRING \cup {None}]
  /\ calls \in 0 .. MaxCalls
  /\ lost \subseteq Inum

Place(l, a) == IF l \in Putting THEN a ELSE l
Points(s, ps, i, d, o, w, f) ==
  One(w = s) + One(i = s) + One(d = s) + One(o = s) + One(f # None /\ f.ip = s)
    + One(Len(ps) >= 1 /\ ps[1] = s) + One(Len(ps) >= 2 /\ ps[2] = s)

LEMMA PointersPoints ==
  ASSUME NEW p, NEW s
  PROVE  Pointers(p, s) = Points(s, puts[p], ip[p], dp[p], old[p], cwd[p], fd[p])
BY DEF Pointers, Points

LEMMA PointsType ==
  ASSUME NEW s, NEW ps, NEW i, NEW d, NEW o, NEW w, NEW f
  PROVE  Points(s, ps, i, d, o, w, f) \in 0 .. MaxPointers
<1> DEFINE a1 == One(w = s)
           a2 == One(i = s)
           a3 == One(d = s)
           a4 == One(o = s)
           a5 == One(f # None /\ f.ip = s)
           a6 == One(Len(ps) >= 1 /\ ps[1] = s)
           a7 == One(Len(ps) >= 2 /\ ps[2] = s)
<1>1. a1 \in 0 .. 1 /\ a2 \in 0 .. 1 /\ a3 \in 0 .. 1 /\ a4 \in 0 .. 1 /\ a5 \in 0 .. 1
      /\ a6 \in 0 .. 1 /\ a7 \in 0 .. 1
  BY DEF One
<1>2. Points(s, ps, i, d, o, w, f) = a1 + a2 + a3 + a4 + a5 + a6 + a7  BY DEF Points
<1> HIDE DEF a1, a2, a3, a4, a5, a6, a7
<1> QED BY <1>1, <1>2 DEF MaxPointers

LEMMA NowOK ==
  ASSUME TypeOK, PutsRight, LocalsRight, NEW p \in Procs,
         NEW l \in Labels, NEW ps \in Seq(Slot), NEW a \in Labels, NEW c \in Calls \cup {None},
         NEW i \in Slot \cup {None}, NEW d \in Slot \cup {None}, NEW o \in Slot \cup {None},
         NEW w \in Slot, NEW f \in OpenFile \cup {None},
         Now(p, l, ps, a, c, i, d, o, w, f), OtherTypes',
         Len(ps) <= 2, ps # <<>> <=> l \in Putting, l \in Putting => a \in Returns,
         l = "free" /\ a \in {"opened", "unlink3"} => Head(ps) # i,
         LocalsAt(Place(l, a), c, i, d, o, f)
  PROVE  /\ LocalTypes' /\ PutsRight' /\ LocalsRight'
         /\ Held(p)' = HeldAt(l, Place(l, a), ps, i, d)
         /\ \A s : Pointers(p, s)' = Points(s, ps, i, d, o, w, f)
         /\ \A q \in Procs : q # p => Held(q)' = Held(q) /\ \A s : Pointers(q, s)' = Pointers(q, s)
<1>1. LocalTypes  BY TypesSplit
<1>2. LocalTypes'
  <2>1. /\ cwd' \in [Procs -> Slot]
        /\ fd' \in [Procs -> OpenFile \cup {None}]
        /\ call' \in [Procs -> Calls \cup {None}]
        /\ pc' \in [Procs -> Labels]
        /\ ip' \in [Procs -> Slot \cup {None}]
    BY <1>1 DEF LocalTypes, Now
  <2>2. /\ dp' \in [Procs -> Slot \cup {None}]
        /\ old' \in [Procs -> Slot \cup {None}]
        /\ puts' \in [Procs -> Seq(Slot)]
        /\ after' \in [Procs -> Labels]
    BY <1>1 DEF LocalTypes, Now
  <2> QED BY <2>1, <2>2 DEF LocalTypes, OtherTypes
<1>3. /\ pc'[p] = l /\ puts'[p] = ps /\ after'[p] = a /\ call'[p] = c /\ ip'[p] = i
      /\ dp'[p] = d /\ old'[p] = o /\ cwd'[p] = w /\ fd'[p] = f
  BY <1>1 DEF LocalTypes, Now
<1>4. ASSUME NEW q \in Procs, q # p
      PROVE  /\ pc'[q] = pc[q] /\ puts'[q] = puts[q] /\ after'[q] = after[q] /\ call'[q] = call[q]
             /\ ip'[q] = ip[q] /\ dp'[q] = dp[q] /\ old'[q] = old[q] /\ cwd'[q] = cwd[q]
             /\ fd'[q] = fd[q]
  BY <1>1, <1>4 DEF LocalTypes, Now
<1>5. At(p)' = Place(l, a)  BY <1>3 DEF At, Place
<1>6. \A q \in Procs : q # p => At(q)' = At(q)  BY <1>4 DEF At
<1>7. PutsRight'
  <2> SUFFICES ASSUME NEW q \in Procs
               PROVE  /\ Len(puts'[q]) <= 2
                      /\ puts'[q] # <<>> <=> pc'[q] \in Putting
                      /\ pc'[q] \in Putting => after'[q] \in Returns
                      /\ pc'[q] = "free" /\ after'[q] \in {"opened", "unlink3"} => Head(puts'[q]) # ip'[q]
    BY DEF PutsRight
  <2>1. CASE q = p  BY <1>3, <2>1
  <2>2. CASE q # p  BY <1>4, <2>2 DEF PutsRight
  <2> QED BY <2>1, <2>2
<1>8. LocalsRight'
  <2> SUFFICES ASSUME NEW q \in Procs
               PROVE  LocalsAt(At(q)', call'[q], ip'[q], dp'[q], old'[q], fd'[q])
    BY DEF LocalsRight
  <2>1. CASE q = p  BY <1>3, <1>5, <2>1
  <2>2. CASE q # p
    <3>1. LocalsAt(At(q), call[q], ip[q], dp[q], old[q], fd[q])  BY DEF LocalsRight
    <3> QED BY <1>4, <1>6, <2>2, <3>1
  <2> QED BY <2>1, <2>2
<1>9. Held(p)' = HeldAt(l, Place(l, a), ps, i, d)  BY <1>3, <1>5 DEF Held
<1>10. \A s : Pointers(p, s)' = Points(s, ps, i, d, o, w, f)  BY <1>3 DEF Pointers, Points
<1>11. \A q \in Procs : q # p => Held(q)' = Held(q)  BY <1>4, <1>6 DEF Held
<1>12. \A q \in Procs : q # p => \A s : Pointers(q, s)' = Pointers(q, s)  BY <1>4 DEF Pointers
<1> QED BY <1>2, <1>7, <1>8, <1>9, <1>10, <1>11, <1>12

-----------------------------------------------------------------------------
(* What a step does to references and locks.                                *)

Alone(p) ==
  \A q \in Procs : q # p => Held(q)' = Held(q) /\ \A s : Pointers(q, s)' = Pointers(q, s)

\* An entry's count follows the pointers of p.
Follows(p) ==
  \A s \in Slot :
    \/ itable'[s].ref = itable[s].ref /\ Pointers(p, s)' = Pointers(p, s)
    \/ itable'[s].ref = itable[s].ref + 1 /\ Pointers(p, s)' = Pointers(p, s) + 1
    \/ itable'[s].ref = itable[s].ref - 1 /\ Pointers(p, s)' = Pointers(p, s) - 1

LEMMA PointersType ==
  \A p, s : Pointers(p, s) \in 0 .. MaxPointers /\ Pointers(p, s)' \in 0 .. MaxPointers
<1> SUFFICES ASSUME NEW p, NEW s
             PROVE  Pointers(p, s) \in 0 .. MaxPointers /\ Pointers(p, s)' \in 0 .. MaxPointers
  OBVIOUS
<1>1. Pointers(p, s) \in 0 .. MaxPointers  BY PointersPoints, PointsType
<1>2. Pointers(p, s)' = Points(s, puts'[p], ip'[p], dp'[p], old'[p], cwd'[p], fd'[p])
  BY DEF Pointers, Points
<1>3. Pointers(p, s)' \in 0 .. MaxPointers  BY <1>2, PointsType
<1> QED BY <1>1, <1>3

LEMMA CountedOK ==
  ASSUME Counted, NEW p \in Procs, Alone(p), Follows(p), itable \in [Slot -> TableEntry]
  PROVE  Counted'
<1> SUFFICES ASSUME NEW s \in Slot
             PROVE  itable'[s].ref = Total([q \in Procs |-> Pointers(q, s)'])
  BY DEF Counted
<1> DEFINE m == [q \in Procs |-> Pointers(q, s)]
           n == [q \in Procs |-> Pointers(q, s)']
<1>1. m \in [Procs -> 0 .. MaxPointers] /\ n \in [Procs -> 0 .. MaxPointers]  BY PointersType
<1>2. \A q \in Procs : q # p => n[q] = m[q]  BY DEF Alone
<1>3. itable[s].ref = Total(m)  BY DEF Counted
<1>4. Total(m) \in Nat /\ Total(n) \in Nat  BY PairsFinite
<1>5. n[p] = Pointers(p, s)' /\ m[p] = Pointers(p, s)  OBVIOUS
<1>6. n[p] \in Nat /\ m[p] \in Nat  BY <1>1 DEF MaxPointers
<1> HIDE DEF m, n
<1>7. CASE itable'[s].ref = itable[s].ref /\ n[p] = m[p]
  <2>1. \A q \in Procs : n[q] = m[q]  BY <1>2, <1>7
  <2>2. Total(n) = Total(m)  BY <2>1, SameTotal
  <2> QED BY <1>3, <1>7, <2>2 DEF n
<1>8. CASE itable'[s].ref = itable[s].ref + 1 /\ n[p] = m[p] + 1
  <2>1. Total(n) = Total(m) + 1  BY <1>1, <1>2, <1>8, OneMore
  <2> QED BY <1>3, <1>8, <2>1 DEF n
<1>9. CASE itable'[s].ref = itable[s].ref - 1 /\ n[p] = m[p] - 1
  <2>1. m[p] = n[p] + 1  BY <1>6, <1>9
  <2>2. \A q \in Procs : q # p => m[q] = n[q]  BY <1>2
  <2>3. Total(m) = Total(n) + 1  BY <1>1, <2>1, <2>2, OneMore
  <2>4. itable'[s].ref = Total(n)  BY <1>3, <1>4, <1>9, <2>3
  <2> QED BY <2>4 DEF n
<1> QED BY <1>5, <1>7, <1>8, <1>9 DEF Follows

\* An entry that is pointed to is in use.
LEMMA PointedUsed ==
  ASSUME Counted, NEW p \in Procs, NEW s \in Slot, Pointers(p, s) >= 1
  PROVE  itable[s].ref >= 1 /\ itable[s].ref \in Nat
<1> DEFINE m == [q \in Procs |-> Pointers(q, s)]
<1>1. m \in [Procs -> 0 .. MaxPointers] /\ m[p] >= 1  BY PointersType
<1>2. itable[s].ref = Total(m)  BY DEF Counted
<1> HIDE DEF m
<1> QED BY <1>1, <1>2, CountedOnce, PairsFinite

LEMMA UsedBy ==
  ASSUME Counted, LocalTypes, NEW p \in Procs, NEW s \in Slot,
         s \in {cwd[p], ip[p], dp[p], old[p]} \/ (fd[p] # None /\ fd[p].ip = s)
           \/ (puts[p] # <<>> /\ (s = puts[p][1] \/ (Len(puts[p]) >= 2 /\ s = puts[p][2])))
  PROVE  Pointers(p, s) >= 1 /\ itable[s].ref >= 1 /\ itable[s].ref \in Nat
<1>1. puts[p] # <<>> => Len(puts[p]) >= 1
  <2>1. puts[p] \in Seq(Slot)  BY DEF LocalTypes
  <2> QED BY <2>1, EmptySeq
<1>2. Pointers(p, s) >= 1
  <2> DEFINE a1 == One(cwd[p] = s)
             a2 == One(ip[p] = s)
             a3 == One(dp[p] = s)
             a4 == One(old[p] = s)
             a5 == One(fd[p] # None /\ fd[p].ip = s)
             a6 == One(Len(puts[p]) >= 1 /\ puts[p][1] = s)
             a7 == One(Len(puts[p]) >= 2 /\ puts[p][2] = s)
  <2>1. a1 \in 0 .. 1 /\ a2 \in 0 .. 1 /\ a3 \in 0 .. 1 /\ a4 \in 0 .. 1 /\ a5 \in 0 .. 1
        /\ a6 \in 0 .. 1 /\ a7 \in 0 .. 1
    BY DEF One
  <2>2. a1 = 1 \/ a2 = 1 \/ a3 = 1 \/ a4 = 1 \/ a5 = 1 \/ a6 = 1 \/ a7 = 1  BY <1>1 DEF One
  <2>3. Pointers(p, s) = a1 + a2 + a3 + a4 + a5 + a6 + a7  BY DEF Pointers
  <2> HIDE DEF a1, a2, a3, a4, a5, a6, a7
  <2> QED BY <2>1, <2>2, <2>3
<1> QED BY <1>2, PointedUsed

\* The locks that p does not have are left alone, and so is what they protect.
Lockings(p) ==
  \A s \in Slot :
    /\ itable'[s].lock = itable[s].lock \/ {itable[s].lock, itable'[s].lock} \subseteq {p, None}
    /\ itable'[s].lock = p <=> s \in Held(p)'
    /\ itable'[s].lock # None => \/ itable'[s].valid
                                 \/ itable'[s].lock = itable[s].lock /\ itable'[s].valid = itable[s].valid

LEMMA LocksOK ==
  ASSUME LocksRight, NEW p \in Procs, Alone(p), Lockings(p)
  PROVE  LocksRight'
<1> SUFFICES ASSUME NEW q \in Procs, NEW s \in Slot
             PROVE  /\ itable'[s].lock = q <=> s \in Held(q)'
                    /\ itable'[s].lock = q => itable'[s].valid
  BY DEF LocksRight
<1>1. None \notin Procs  BY Constants
<1>2. CASE q = p  BY <1>1, <1>2 DEF LocksRight, Lockings
<1>3. CASE q # p
  <2>1. Held(q)' = Held(q)  BY <1>3 DEF Alone
  <2>2. itable'[s].lock = q <=> itable[s].lock = q  BY <1>1, <1>3 DEF Lockings
  <2>3. itable[s].lock = q <=> s \in Held(q)  BY DEF LocksRight
  <2>4. itable'[s].lock = q => itable'[s].valid  BY <1>1, <2>2 DEF LocksRight, Lockings
  <2> QED BY <2>1, <2>2, <2>3, <2>4
<1> QED BY <1>2, <1>3

\* A locked entry is in use, by the one who has the lock.
LEMMA LockedUsed ==
  ASSUME TableInv, NEW s \in Slot, itable[s].lock # None
  PROVE  /\ itable[s].lock \in Procs /\ itable[s].ref >= 1 /\ Pointers(itable[s].lock, s) >= 1
         /\ itable[s].valid
<1> DEFINE q == itable[s].lock
<1>1. q \in Procs
  <2>1. itable \in [Slot -> TableEntry]  BY TypesSplit DEF TableInv
  <2> QED BY <2>1, EntryTypes
<1>2. s \in Held(q)  BY <1>1 DEF TableInv, LocksRight
<1>3. LocalTypes /\ Counted /\ itable[s].valid  BY <1>1, TypesSplit DEF TableInv, LocksRight
<1> HIDE DEF q
<1>4. s = ip[q] \/ s = dp[q] \/ (pc[q] = "free" /\ s = Head(puts[q]))  BY <1>2 DEF Held, HeldAt
<1>5. pc[q] = "free" => puts[q] # <<>>  BY <1>1 DEF TableInv, PutsRight, Putting
<1>6. puts[q] # <<>> => Head(puts[q]) = puts[q][1]
  <2>1. puts[q] \in Seq(Slot)  BY <1>1, <1>3 DEF LocalTypes
  <2> QED BY <2>1
<1>7. Pointers(q, s) >= 1 /\ itable[s].ref >= 1  BY <1>1, <1>3, <1>4, <1>5, <1>6, UsedBy
<1> QED BY <1>1, <1>3, <1>7 DEF q

\* All that a step has to keep.
LEMMA StepOK ==
  ASSUME TableInv, NEW p \in Procs, Alone(p), Follows(p), Lockings(p),
         LocalTypes', PutsRight', LocalsRight', DiskTypes', TableOK(itable', dinode'),
         FreeInodes', OneOwner(dinode', Space')
  PROVE  TableInv'
<1>1. itable \in [Slot -> TableEntry] /\ Counted /\ LocksRight  BY TypesSplit DEF TableInv
<1>2. Counted' /\ LocksRight'  BY <1>1, CountedOK, LocksOK
<1>3. itable' \in [Slot -> TableEntry]  BY DEF TableOK
<1>4. TypeOK'
  <2>1. LocalTypes' /\ DiskTypes' /\ (itable \in [Slot -> TableEntry])' => TypeOK'  BY TypesSplit, PTL
  <2> QED BY <1>3, <2>1
<1>5. TableOK(itable, dinode)'  OBVIOUS
<1>6. BlocksOwned'  BY DEF BlocksOwned
<1> QED BY <1>2, <1>4, <1>5, <1>6 DEF TableInv

-----------------------------------------------------------------------------
(* The steps.                                                               *)

\* What the variables of a process tell, whose puts are done.
LEMMA AtPlace ==
  ASSUME TableInv, NEW p \in Procs, pc[p] \notin Putting
  PROVE  /\ puts[p] = <<>> /\ Len(puts[p]) = 0 /\ At(p) = pc[p] /\ Place(pc[p], after[p]) = pc[p]
         /\ LocalsAt(pc[p], call[p], ip[p], dp[p], old[p], fd[p])
         /\ Held(p) = HeldAt(pc[p], pc[p], <<>>, ip[p], dp[p])
         /\ \A s : Pointers(p, s) = Points(s, <<>>, ip[p], dp[p], old[p], cwd[p], fd[p])
<1>1. puts[p] = <<>> /\ At(p) = pc[p]  BY DEF TableInv, PutsRight, At
<1>2. LocalsAt(pc[p], call[p], ip[p], dp[p], old[p], fd[p])  BY <1>1 DEF TableInv, LocalsRight
<1>3. Held(p) = HeldAt(pc[p], pc[p], <<>>, ip[p], dp[p])  BY <1>1 DEF Held
<1>4. \A s : Pointers(p, s) = Points(s, <<>>, ip[p], dp[p], old[p], cwd[p], fd[p])
  BY <1>1, PointersPoints
<1> QED BY <1>1, <1>2, <1>3, <1>4, EmptySeq DEF Place

LEMMA LocalFacts ==
  ASSUME TableInv, NEW p \in Procs
  PROVE  /\ LocalTypes
         /\ cwd[p] \in Slot /\ fd[p] \in OpenFile \cup {None} /\ call[p] \in Calls \cup {None}
         /\ pc[p] \in Labels /\ after[p] \in Labels /\ puts[p] \in Seq(Slot)
         /\ ip[p] \in Slot \cup {None} /\ dp[p] \in Slot \cup {None} /\ old[p] \in Slot \cup {None}
         /\ path[p] \in Seq(STRING) /\ name[p] \in STRING \cup {None}
         /\ fd[p] # None => fd[p].ip \in Slot
         /\ calls \in 0 .. MaxCalls /\ lost \subseteq Inum
<1>1. LocalTypes  BY TypesSplit DEF TableInv
<1>2. fd[p] \in OpenFile \cup {None}  BY <1>1 DEF LocalTypes
<1>3. fd[p] # None => fd[p].ip \in Slot  BY <1>2 DEF OpenFile
<1> QED BY <1>1, <1>2, <1>3 DEF LocalTypes

\* What is left of a process when its call is over but for ss.
After(p, l, ps, i, d, o, w, f) ==
  /\ LocalTypes' /\ PutsRight' /\ LocalsRight' /\ Alone(p)
  /\ Held(p)' = HeldAt(IF ps = <<>> THEN l ELSE "put", l, ps, i, d)
  /\ \A s : Pointers(p, s)' = Points(s, ps, i, d, o, w, f)

LEMMA AfterGo ==
  ASSUME TableInv, NEW p \in Procs, pc[p] \notin Putting, NEW l \in Labels \ Putting, Go(p, l),
         NEW c \in Calls \cup {None},
         NEW i \in Slot \cup {None}, NEW d \in Slot \cup {None}, NEW o \in Slot \cup {None},
         NEW w \in Slot, NEW f \in OpenFile \cup {None},
         call' = [call EXCEPT ![p] = c],
         ip' = [ip EXCEPT ![p] = i], dp' = [dp EXCEPT ![p] = d], old' = [old EXCEPT ![p] = o],
         cwd' = [cwd EXCEPT ![p] = w], fd' = [fd EXCEPT ![p] = f],
         OtherTypes', LocalsAt(l, c, i, d, o, f)
  PROVE  After(p, l, <<>>, i, d, o, w, f)
<1>1. puts[p] = <<>> /\ LocalTypes /\ after[p] \in Labels  BY AtPlace, LocalFacts
<1>2. TypeOK /\ PutsRight /\ LocalsRight  BY DEF TableInv
<1>3. Now(p, l, <<>>, after[p], c, i, d, o, w, f)  BY <1>1 DEF Now, Go, LocalTypes
<1>4. <<>> \in Seq(Slot) /\ Len(<<>>) <= 2  BY EmptySeq
<1>5. Place(l, after[p]) = l  BY DEF Place
<1>6. /\ Len(<<>>) <= 2 /\ (<<>> # <<>> <=> l \in Putting) /\ (l \in Putting => after[p] \in Returns)
      /\ (l = "free" /\ after[p] \in {"opened", "unlink3"} => Head(<<>>) # i)
      /\ LocalsAt(Place(l, after[p]), c, i, d, o, f)
  BY <1>4, <1>5 DEF Putting
<1>7. /\ LocalTypes' /\ PutsRight' /\ LocalsRight'
      /\ Held(p)' = HeldAt(l, Place(l, after[p]), <<>>, i, d)
      /\ \A s : Pointers(p, s)' = Points(s, <<>>, i, d, o, w, f)
      /\ \A q \in Procs : q # p => Held(q)' = Held(q) /\ \A s : Pointers(q, s)' = Pointers(q, s)
  BY <1>1, <1>2, <1>3, <1>4, <1>6, NowOK
<1> QED BY <1>5, <1>7 DEF After, Alone

LEMMA AfterPut ==
  ASSUME TableInv, NEW p \in Procs, pc[p] \notin Putting, NEW l \in Returns,
         NEW ps \in Seq(Slot), ps # <<>>, Len(ps) <= 2, Put(p, ps, l),
         NEW c \in Calls \cup {None},
         NEW i \in Slot \cup {None}, NEW d \in Slot \cup {None}, NEW o \in Slot \cup {None},
         NEW w \in Slot, NEW f \in OpenFile \cup {None},
         call' = [call EXCEPT ![p] = c],
         ip' = [ip EXCEPT ![p] = i], dp' = [dp EXCEPT ![p] = d], old' = [old EXCEPT ![p] = o],
         cwd' = [cwd EXCEPT ![p] = w], fd' = [fd EXCEPT ![p] = f],
         OtherTypes', LocalsAt(l, c, i, d, o, f)
  PROVE  After(p, l, ps, i, d, o, w, f)
<1>1. TypeOK /\ PutsRight /\ LocalsRight  BY DEF TableInv
<1>2. Now(p, "put", ps, l, c, i, d, o, w, f)  BY DEF Now, Put
<1>3. /\ Place("put", l) = l /\ "put" \in Labels /\ "put" \in Putting /\ l \in Labels
  BY DEF Place, Putting, Labels, Returns
<1>4. /\ LocalsAt(Place("put", l), c, i, d, o, f)
      /\ "put" = "free" /\ l \in {"opened", "unlink3"} => Head(ps) # i
  BY <1>3
<1>5. /\ LocalTypes' /\ PutsRight' /\ LocalsRight'
      /\ Held(p)' = HeldAt("put", Place("put", l), ps, i, d)
      /\ \A s : Pointers(p, s)' = Points(s, ps, i, d, o, w, f)
      /\ \A q \in Procs : q # p => Held(q)' = Held(q) /\ \A s : Pointers(q, s)' = Pointers(q, s)
  BY <1>1, <1>2, <1>3, <1>4, NowOK
<1> QED BY <1>3, <1>5 DEF After, Alone

\* A call is over.
LEMMA AfterDone ==
  ASSUME TableInv, NEW p \in Procs, pc[p] \notin Putting,
         NEW ps \in Seq(Slot), Len(ps) <= 2, Done(p, ps),
         NEW w \in Slot, NEW f \in OpenFile \cup {None},
         cwd' = [cwd EXCEPT ![p] = w], fd' = [fd EXCEPT ![p] = f],
         calls' \in 0 .. MaxCalls, lost' \subseteq Inum
  PROVE  After(p, "user", ps, None, None, None, w, f)
<1>1. /\ call' = [call EXCEPT ![p] = None] /\ ip' = [ip EXCEPT ![p] = None]
      /\ dp' = [dp EXCEPT ![p] = None] /\ old' = [old EXCEPT ![p] = None]
      /\ path' = [path EXCEPT ![p] = <<>>] /\ name' = [name EXCEPT ![p] = None]
  BY DEF Done, Locals
<1>2. OtherTypes'
  <2>1. LocalTypes  BY LocalFacts
  <2>2. <<>> \in Seq(STRING)  BY EmptySeq
  <2>3. path' \in [Procs -> Seq(STRING)] /\ name' \in [Procs -> STRING \cup {None}]
    BY <1>1, <2>1, <2>2 DEF LocalTypes
  <2> QED BY <2>3 DEF OtherTypes
<1>3. "user" \in Labels \ Putting /\ "user" \in Returns  BY DEF Labels, Putting, Returns
<1>4. LocalsAt("user", None, None, None, None, f)  BY DEF LocalsAt, Walked, Parented
<1>5. CASE ps = <<>>
  <2>1. Go(p, "user")  BY <1>5 DEF Done
  <2> QED BY <1>1, <1>2, <1>3, <1>4, <1>5, <2>1, AfterGo
<1>6. CASE ps # <<>>
  <2>1. Put(p, ps, "user")  BY <1>6 DEF Done
  <2> QED BY <1>1, <1>2, <1>3, <1>4, <1>6, <2>1, AfterPut
<1> QED BY <1>5, <1>6

LEMMA OneOrTwo == ASSUME NEW n \in Nat, n # 0, n <= 2 PROVE n \in {1, 2}
OBVIOUS

\* What is known of an inode that is put.
LEMMA AtPut ==
  ASSUME TableInv, NEW p \in Procs, pc[p] \in Putting
  PROVE  /\ puts[p] # <<>> /\ Len(puts[p]) \in {1, 2} /\ Head(puts[p]) = puts[p][1]
         /\ Head(puts[p]) \in Slot /\ Tail(puts[p]) \in Seq(Slot)
         /\ Len(Tail(puts[p])) = Len(puts[p]) - 1
         /\ Len(puts[p]) = 2 => Tail(puts[p])[1] = puts[p][2]
         /\ At(p) = after[p] /\ after[p] \in Returns
         /\ LocalsAt(after[p], call[p], ip[p], dp[p], old[p], fd[p])
         /\ itable[Head(puts[p])].ref >= 1
         /\ Held(p) = HeldAt(pc[p], after[p], puts[p], ip[p], dp[p])
<1>1. puts[p] # <<>> /\ Len(puts[p]) <= 2 /\ At(p) = after[p] /\ after[p] \in Returns
  BY DEF TableInv, PutsRight, At
<1>2. puts[p] \in Seq(Slot) /\ LocalTypes /\ Counted  BY LocalFacts DEF TableInv
<1>3. Len(puts[p]) \in {1, 2}
  <2>1. Len(puts[p]) \in Nat \ {0}  BY <1>1, <1>2, EmptySeq
  <2>2. Len(puts[p]) \in Nat /\ Len(puts[p]) # 0 /\ Len(puts[p]) <= 2  BY <1>1, <2>1
  <2> QED BY <2>2, OneOrTwo
<1>4. /\ Head(puts[p]) \in Slot /\ Tail(puts[p]) \in Seq(Slot) /\ Len(Tail(puts[p])) = Len(puts[p]) - 1
      /\ \A i \in 1 .. Len(Tail(puts[p])) : Tail(puts[p])[i] = puts[p][i + 1]
  BY <1>1, <1>2, HeadTailProperties
<1>5. Head(puts[p]) = puts[p][1]  BY <1>2
<1>6. Len(puts[p]) = 2 => Tail(puts[p])[1] = puts[p][2]
  <2>1. Len(puts[p]) = 2 => Len(Tail(puts[p])) = 1  BY <1>4
  <2>2. \A i \in 1 .. Len(Tail(puts[p])) : Tail(puts[p])[i] = puts[p][i + 1]  BY <1>4
  <2> DEFINE rest == Tail(puts[p])
  <2> HIDE DEF rest
  <2>3. Len(rest) = 1 => rest[1] = puts[p][2]  BY <2>2 DEF rest
  <2> QED BY <2>1, <2>3 DEF rest
<1>7. itable[Head(puts[p])].ref >= 1  BY <1>1, <1>2, <1>4, <1>5, UsedBy
<1>8. LocalsAt(after[p], call[p], ip[p], dp[p], old[p], fd[p])  BY <1>1 DEF TableInv, LocalsRight
<1>9. Held(p) = HeldAt(pc[p], after[p], puts[p], ip[p], dp[p])  BY <1>1 DEF Held
<1> QED BY <1>1, <1>3, <1>4, <1>5, <1>6, <1>7, <1>8, <1>9

\* The disk is as it was.
LEMMA DiskSame ==
  ASSUME TableInv, UNCHANGED diskVars
  PROVE  DiskTypes' /\ FreeInodes' /\ OneOwner(dinode', Space') /\ dinode' = dinode
<1>1. dinode' = dinode /\ dirent' = dirent /\ Space' = Space  BY DEF diskVars, Space
<1>2. DiskTypes /\ FreeInodes /\ OneOwner(dinode, Space)  BY TypesSplit DEF TableInv, BlocksOwned
<1>3. DiskTypes'  BY <1>1, <1>2 DEF DiskTypes
<1>4. FreeInodes'  BY <1>1, <1>2 DEF FreeInodes
<1> QED BY <1>1, <1>2, <1>3, <1>4

LEMMA TableFacts ==
  ASSUME TableInv
  PROVE  TableOK(itable, dinode) /\ itable \in [Slot -> TableEntry] /\ Counted /\ LocalTypes /\ DiskTypes
BY TypesSplit DEF TableInv, TableOK

\* A reference is dropped, and the next inode put or the call gone on with.
LEMMA RestOK ==
  ASSUME TableInv, NEW p \in Procs, pc[p] \in {"put", "unref"}, Rest(p),
         itable' = [itable EXCEPT ![Head(puts[p])].ref = @ - 1],
         UNCHANGED <<diskVars, cwd, fd, localVars, calls>>, lost' \subseteq Inum
  PROVE  TableInv'
<1> DEFINE h == Head(puts[p])
           ps == IF Len(puts[p]) = 1 THEN <<>> ELSE Tail(puts[p])
           l == IF Len(puts[p]) = 1 THEN after[p] ELSE "put"
           a == IF Len(puts[p]) = 1 THEN "user" ELSE after[p]
<1>1. pc[p] \in Putting  BY DEF Putting
<1>2. /\ puts[p] # <<>> /\ Len(puts[p]) \in {1, 2} /\ h = puts[p][1]
      /\ h \in Slot /\ Tail(puts[p]) \in Seq(Slot)
      /\ Len(Tail(puts[p])) = Len(puts[p]) - 1
      /\ Len(puts[p]) = 2 => Tail(puts[p])[1] = puts[p][2]
      /\ At(p) = after[p] /\ after[p] \in Returns
      /\ LocalsAt(after[p], call[p], ip[p], dp[p], old[p], fd[p])
      /\ itable[h].ref >= 1
      /\ Held(p) = HeldAt(pc[p], after[p], puts[p], ip[p], dp[p])
  BY <1>1, AtPut
<1>3. /\ TableOK(itable, dinode) /\ itable \in [Slot -> TableEntry] /\ LocalTypes
      /\ TypeOK /\ PutsRight /\ LocalsRight
  BY TableFacts DEF TableInv
<1>4. /\ pc' = [pc EXCEPT ![p] = l] /\ puts' = [puts EXCEPT ![p] = ps] /\ after' = [after EXCEPT ![p] = a]
  BY <1>3 DEF Rest, LocalTypes
<1>5. ps \in Seq(Slot) /\ l \in Labels /\ a \in Labels /\ (ps # <<>> <=> l \in Putting)
      /\ Len(ps) = Len(puts[p]) - 1 /\ Place(l, a) = after[p] /\ (l \in Putting => a \in Returns)
  <2>1. CASE Len(puts[p]) = 1
    <3>1. after[p] \in Labels /\ after[p] \notin Putting  BY <1>2 DEF Returns, Labels, Putting
    <3> QED BY <1>2, <2>1, <3>1, EmptySeq DEF Place, Labels
  <2>2. CASE Len(puts[p]) = 2
    <3>1. after[p] \in Labels /\ "put" \in Labels /\ "put" \in Putting
      BY <1>2 DEF Returns, Labels, Putting
    <3>2. ps = Tail(puts[p]) /\ Len(ps) = 1  BY <1>2, <2>2
    <3>3. Len(<<>>) = 0  BY EmptySeq
    <3>4. ps # <<>>
      <4>1. ps = <<>> => Len(ps) = Len(<<>>)  OBVIOUS
      <4>2. 1 # 0  OBVIOUS
      <4> HIDE DEF ps
      <4> QED BY <3>2, <3>3, <4>1, <4>2, Zenon
    <3> QED BY <1>2, <2>2, <3>1, <3>2, <3>4 DEF Place
  <2> QED BY <1>2, <2>1, <2>2
<1>6. /\ \A s : Len(ps) >= 1 /\ ps[1] = s <=> Len(puts[p]) >= 2 /\ puts[p][2] = s
      /\ ~(Len(ps) >= 2)
  <2>1. CASE Len(puts[p]) = 1
    <3>1. ~(Len(ps) >= 1) /\ ~(Len(ps) >= 2) /\ ~(Len(puts[p]) >= 2)  BY <1>5, <2>1
    <3> QED BY <3>1
  <2>2. CASE Len(puts[p]) = 2
    <3>1. Len(ps) >= 1 /\ ~(Len(ps) >= 2) /\ Len(puts[p]) >= 2
      <4>1. Len(ps) = 2 - 1  BY <1>5, <2>2
      <4> HIDE DEF ps
      <4> QED BY <4>1, <2>2
    <3>2. ps[1] = puts[p][2]  BY <1>2, <2>2
    <3> QED BY <3>1, <3>2
  <2> QED BY <1>2, <2>1, <2>2
<1> HIDE DEF ps, l, a, h
<1>7. Now(p, l, ps, a, call[p], ip[p], dp[p], old[p], cwd[p], fd[p])
  BY <1>3, <1>4 DEF Now, LocalTypes, localVars
<1>8. OtherTypes'
  BY <1>3 DEF OtherTypes, LocalTypes, localVars
<1>9. /\ Len(ps) <= 2 /\ LocalsAt(Place(l, a), call[p], ip[p], dp[p], old[p], fd[p])
      /\ l = "free" /\ a \in {"opened", "unlink3"} => Head(ps) # ip[p]
  BY <1>2, <1>5 DEF Returns, l
<1>10. /\ LocalTypes' /\ PutsRight' /\ LocalsRight'
       /\ Held(p)' = HeldAt(l, Place(l, a), ps, ip[p], dp[p])
       /\ \A s : Pointers(p, s)' = Points(s, ps, ip[p], dp[p], old[p], cwd[p], fd[p])
       /\ \A q \in Procs : q # p => Held(q)' = Held(q) /\ \A s : Pointers(q, s)' = Pointers(q, s)
  BY <1>3, <1>5, <1>7, <1>8, <1>9, LocalFacts, NowOK
<1>11. Alone(p)  BY <1>10 DEF Alone
<1>12. Held(p)' = Held(p)
  <2>1. l \notin {"create2", "unlink2", "free"}
    BY <1>2, <1>5 DEF Returns, Place, Putting, l
  <2> QED BY <1>2, <1>5, <1>10, <2>1 DEF HeldAt
<1>13. /\ TableOK(itable', dinode)
       /\ \A k \in Slot : k # h => itable'[k] = itable[k]
       /\ itable'[h].ref = itable[h].ref - 1 /\ itable'[h].lock = itable[h].lock
       /\ itable'[h].valid = itable[h].valid
  BY <1>2, <1>3, UnrefOK DEF h
<1>14. \A s : Pointers(p, s) = Points(s, puts[p], ip[p], dp[p], old[p], cwd[p], fd[p])
  BY PointersPoints
<1>15. Follows(p)
  <2> SUFFICES ASSUME NEW s \in Slot
               PROVE  \/ itable'[s].ref = itable[s].ref /\ Pointers(p, s)' = Pointers(p, s)
                      \/ itable'[s].ref = itable[s].ref - 1 /\ Pointers(p, s)' = Pointers(p, s) - 1
    BY DEF Follows
  <2> DEFINE b == One(cwd[p] = s) + One(ip[p] = s) + One(dp[p] = s) + One(old[p] = s)
                    + One(fd[p] # None /\ fd[p].ip = s)
  <2>1. b \in Int  BY DEF One
  <2>2. Pointers(p, s) = b + One(h = s) + One(Len(puts[p]) >= 2 /\ puts[p][2] = s)
    <3>1. Pointers(p, s) = b + One(Len(puts[p]) >= 1 /\ puts[p][1] = s)
                             + One(Len(puts[p]) >= 2 /\ puts[p][2] = s)
      BY <1>14 DEF Points
    <3>2. Len(puts[p]) >= 1 /\ puts[p][1] = s <=> h = s  BY <1>2
    <3> QED BY <3>1, <3>2
  <2>3. Pointers(p, s)' = b + One(Len(puts[p]) >= 2 /\ puts[p][2] = s) + One(FALSE)
    <3>1. Pointers(p, s)' = b + One(Len(ps) >= 1 /\ ps[1] = s) + One(Len(ps) >= 2 /\ ps[2] = s)
      BY <1>10 DEF Points
    <3> HIDE DEF b
    <3> QED BY <1>6, <3>1 DEF One
  <2>4. One(FALSE) = 0 /\ One(h = s) \in {0, 1} /\ (One(h = s) = 1 <=> h = s)
        /\ One(Len(puts[p]) >= 2 /\ puts[p][2] = s) \in {0, 1}
    BY DEF One
  <2> DEFINE x == One(h = s)
             y == One(Len(puts[p]) >= 2 /\ puts[p][2] = s)
  <2> HIDE DEF b, x, y
  <2>5. Pointers(p, s) = b + x + y /\ Pointers(p, s)' = b + y + 0  BY <2>2, <2>3, <2>4 DEF x, y
  <2>6. x \in {0, 1} /\ y \in {0, 1} /\ (x = 1 <=> h = s)  BY <2>4 DEF x, y
  <2>7. CASE h = s  BY <1>13, <2>1, <2>5, <2>6, <2>7
  <2>8. CASE h # s
    <3>1. itable'[s] = itable[s]  BY <1>13, <2>8
    <3>2. x = 0  BY <2>6, <2>8
    <3>3. Pointers(p, s)' = Pointers(p, s)  BY <2>1, <2>5, <2>6, <3>2
    <3> QED BY <3>1, <3>3
  <2> QED BY <2>7, <2>8
<1>16. Lockings(p)
  <2>1. \A s \in Slot : itable'[s].lock = itable[s].lock /\ itable'[s].valid = itable[s].valid
    BY <1>13
  <2> QED BY <1>12, <2>1 DEF Lockings, TableInv, LocksRight
<1>17. DiskTypes' /\ FreeInodes' /\ OneOwner(dinode', Space') /\ dinode' = dinode  BY DiskSame
<1> QED BY <1>10, <1>11, <1>13, <1>15, <1>16, <1>17, StepOK

\* A process goes on with what it puts.
LEMMA StaysOK ==
  ASSUME TableInv, NEW p \in Procs, pc[p] \in Putting, NEW l \in Putting,
         l = "free" /\ after[p] \in {"opened", "unlink3"} => Head(puts[p]) # ip[p],
         pc' = [pc EXCEPT ![p] = l], UNCHANGED <<cwd, fd, localVars, puts, after, calls, lost>>
  PROVE  /\ LocalTypes' /\ PutsRight' /\ LocalsRight' /\ Alone(p)
         /\ Held(p)' = HeldAt(l, after[p], puts[p], ip[p], dp[p])
         /\ \A s : Pointers(p, s)' = Pointers(p, s)
<1>1. LocalTypes /\ TypeOK /\ PutsRight /\ LocalsRight  BY TableFacts DEF TableInv
<1>2. Now(p, l, puts[p], after[p], call[p], ip[p], dp[p], old[p], cwd[p], fd[p])
  BY <1>1 DEF Now, LocalTypes, localVars
<1>3. OtherTypes'  BY <1>1 DEF OtherTypes, LocalTypes, localVars
<1>4. l \in Labels  BY DEF Labels, Putting
<1>5. puts[p] # <<>> /\ after[p] \in Returns /\ Place(l, after[p]) = after[p]
      /\ LocalsAt(after[p], call[p], ip[p], dp[p], old[p], fd[p])
  BY AtPut DEF Place
<1>6. Len(puts[p]) <= 2 /\ (puts[p] # <<>> <=> l \in Putting) /\ (l \in Putting => after[p] \in Returns)
      /\ LocalsAt(Place(l, after[p]), call[p], ip[p], dp[p], old[p], fd[p])
  BY <1>5 DEF TableInv, PutsRight
<1>7. /\ LocalTypes' /\ PutsRight' /\ LocalsRight'
      /\ Held(p)' = HeldAt(l, Place(l, after[p]), puts[p], ip[p], dp[p])
      /\ \A s : Pointers(p, s)' = Points(s, puts[p], ip[p], dp[p], old[p], cwd[p], fd[p])
      /\ \A q \in Procs : q # p => Held(q)' = Held(q) /\ \A s : Pointers(q, s)' = Pointers(q, s)
  BY <1>1, <1>2, <1>3, <1>4, <1>6, LocalFacts, NowOK
<1> QED BY <1>5, <1>7, PointersPoints DEF Alone

LEMMA PutLastOK == ASSUME TableInv, NEW p \in Procs, PutLast(p) PROVE TableInv'
<1> DEFINE s == Head(puts[p])
           e == [itable[s] EXCEPT !.lock = p]
<1>1. /\ pc[p] = "put" /\ itable[s].ref = 1 /\ itable[s].valid /\ itable[s].lock = None
      /\ itable' = [itable EXCEPT ![s] = e]
      /\ pc' = [pc EXCEPT ![p] = "free"]
      /\ UNCHANGED <<diskVars, cwd, fd, localVars, puts, after, calls, lost>>
  BY DEF PutLast
<1>2. pc[p] \in Putting /\ "free" \in Putting  BY <1>1 DEF Putting
<1>3. s \in Slot /\ after[p] \in Returns /\ Held(p) = HeldAt(pc[p], after[p], puts[p], ip[p], dp[p])
  BY <1>2, AtPut
<1>4. TableOK(itable, dinode) /\ itable \in [Slot -> TableEntry]  BY TableFacts
<1> HIDE DEF s
<1>5. /\ e \in TableEntry /\ e.ref = itable[s].ref /\ e.inum = itable[s].inum
      /\ e.valid = itable[s].valid /\ e.ino = itable[s].ino /\ e.lock = p
  <2>1. itable[s] \in TableEntry  BY <1>3, <1>4
  <2> QED BY <2>1 DEF TableEntry
<1>6. e.valid => e.ino = dinode[e.inum] /\ e.ino.type # "none"
  BY <1>1, <1>3, <1>4, <1>5 DEF TableOK, CopiesRight
<1> HIDE DEF e
<1>7. TableOK(itable', dinode)
  <2>1. itable[s].ref >= 1  BY <1>1
  <2>2. TableOK([itable EXCEPT ![s] = e], dinode)  BY <1>3, <1>4, <1>5, <1>6, <2>1, EntrySameOK
  <2> QED BY <1>1, <2>2
<1>8. itable'[s] = e /\ \A k \in Slot : k # s => itable'[k] = itable[k]  BY <1>1, <1>3, <1>4
<1>9. /\ LocalTypes' /\ PutsRight' /\ LocalsRight' /\ Alone(p)
      /\ Held(p)' = HeldAt("free", after[p], puts[p], ip[p], dp[p])
      /\ \A k : Pointers(p, k)' = Pointers(p, k)
  <2>1. s \notin Held(p)  BY <1>1, <1>3, Constants DEF TableInv, LocksRight
  <2>2. "free" = "free" /\ after[p] \in {"opened", "unlink3"} => Head(puts[p]) # ip[p]
    BY <1>3, <2>1 DEF HeldAt, s
  <2> QED BY <1>1, <1>2, <2>2, StaysOK
<1>10. Follows(p)  BY <1>5, <1>8, <1>9 DEF Follows
<1>11. \A k : k \in Held(p)' <=> k \in Held(p) \/ k = s  BY <1>1, <1>3, <1>9 DEF HeldAt, s
<1>12. Lockings(p)
  <2> SUFFICES ASSUME NEW k \in Slot
               PROVE  /\ itable'[k].lock = itable[k].lock \/ {itable[k].lock, itable'[k].lock} \subseteq {p, None}
                      /\ itable'[k].lock = p <=> k \in Held(p)'
                      /\ itable'[k].lock # None =>
                           \/ itable'[k].valid
                           \/ itable'[k].lock = itable[k].lock /\ itable'[k].valid = itable[k].valid
    BY DEF Lockings
  <2>1. CASE k = s  BY <1>1, <1>5, <1>8, <1>11, <2>1
  <2>2. CASE k # s  BY <1>8, <1>11, <2>2 DEF TableInv, LocksRight
  <2> QED BY <2>1, <2>2
<1>13. DiskTypes' /\ FreeInodes' /\ OneOwner(dinode', Space') /\ dinode' = dinode  BY <1>1, DiskSame
<1> QED BY <1>7, <1>9, <1>10, <1>12, <1>13, StepOK

\* What iupdate() writes.
LEMMA IupdateOne ==
  ASSUME dinode \in [Inum -> Dinode], NEW it, NEW s, it[s].inum \in Inum, iupdate(it, {s})
  PROVE  dinode' = [dinode EXCEPT ![it[s].inum] = it[s].ino]
<1>1. dinode' = [i \in Inum |-> IF \E t \in {s} : it[t].inum = i
                                  THEN it[CHOOSE t \in {s} : it[t].inum = i].ino ELSE dinode[i]]
  BY DEF iupdate
<1>2. ASSUME NEW i \in Inum PROVE dinode'[i] = IF i = it[s].inum THEN it[s].ino ELSE dinode[i]
  <2>1. CASE i = it[s].inum
    <3>1. (CHOOSE t \in {s} : it[t].inum = i) = s  BY <2>1
    <3> QED BY <1>1, <2>1, <3>1
  <2>2. CASE i # it[s].inum  BY <1>1, <2>2
  <2> QED BY <2>1, <2>2
<1> QED BY <1>1, <1>2

LEMMA IupdateTwo ==
  ASSUME dinode \in [Inum -> Dinode], NEW it, NEW s, NEW t, it[s].inum \in Inum, it[t].inum \in Inum,
         it[s].inum # it[t].inum, iupdate(it, {s, t})
  PROVE  dinode' = [dinode EXCEPT ![it[s].inum] = it[s].ino, ![it[t].inum] = it[t].ino]
<1>1. dinode' = [i \in Inum |-> IF \E u \in {s, t} : it[u].inum = i
                                  THEN it[CHOOSE u \in {s, t} : it[u].inum = i].ino ELSE dinode[i]]
  BY DEF iupdate
<1>2. ASSUME NEW i \in Inum
      PROVE  dinode'[i] = IF i = it[s].inum THEN it[s].ino
                          ELSE IF i = it[t].inum THEN it[t].ino ELSE dinode[i]
  <2>1. CASE i = it[s].inum
    <3>1. (CHOOSE u \in {s, t} : it[u].inum = i) = s  BY <2>1
    <3> QED BY <1>1, <2>1, <3>1
  <2>2. CASE i = it[t].inum
    <3>1. (CHOOSE u \in {s, t} : it[u].inum = i) = t  BY <2>2
    <3> QED BY <1>1, <2>2, <3>1
  <2>3. CASE i # it[s].inum /\ i # it[t].inum  BY <1>1, <2>3
  <2> QED BY <2>1, <2>2, <2>3
<1> QED BY <1>1, <1>2


LEMMA EmptiedOK ==
  ASSUME NEW ino \in Dinode
  PROVE  LET e == [ino EXCEPT !.size = 0, !.addrs = NoInode.addrs]
         IN  e \in Dinode /\ e.addrs = NoInode.addrs /\ e.type = ino.type
<1>1. NoInode.addrs \in [Addr -> Block \cup {None}]  BY DEF NoInode
<1> QED BY <1>1 DEF Dinode

LEMMA PutFreeOK == ASSUME TableInv, NEW p \in Procs, PutFree(p) PROVE TableInv'
<1> DEFINE s == Head(puts[p])
           i == itable[s].inum
           r == itrunc(itable[s].ino, Space)
           ino2 == [r.ino EXCEPT !.type = "none"]
           e == [itable[s] EXCEPT !.valid = FALSE, !.lock = None, !.ino = ino2]
<1>1. /\ pc[p] = "free"
      /\ itable' = [itable EXCEPT ![s] = e]
      /\ iupdate(itable', {s})
      /\ dirent' = [dirent EXCEPT ![i] = <<>>]
      /\ bitmap' = r.sp.used /\ indirect' = r.sp.ind
      /\ pc' = [pc EXCEPT ![p] = "unref"]
      /\ UNCHANGED <<cwd, fd, localVars, puts, after, calls, lost>>
  BY DEF PutFree
<1>2. pc[p] \in Putting /\ "unref" \in Putting  BY <1>1 DEF Putting
<1>3. s \in Slot /\ itable[s].ref >= 1 /\ after[p] \in Returns
      /\ Held(p) = HeldAt(pc[p], after[p], puts[p], ip[p], dp[p])
  BY <1>2, AtPut
<1>4. /\ TableOK(itable, dinode) /\ itable \in [Slot -> TableEntry] /\ DiskTypes
      /\ FreeInodes /\ OneOwner(dinode, Space)
  BY TableFacts DEF TableInv, BlocksOwned
<1>5. itable[s].lock = p /\ itable[s].valid
  <2>1. s \in Held(p)  BY <1>1, <1>3 DEF HeldAt
  <2> QED BY <1>3, <2>1 DEF TableInv, LocksRight
<1>6. itable[s].ref > 0 /\ itable[s].ref \in Nat
  <2>1. itable[s].ref \in Nat  BY <1>3, <1>4, EntryTypes
  <2> QED BY <1>3, <2>1
<1>7. i \in Inum /\ itable[s].ino = dinode[i] /\ dinode[i].type # "none"
  BY <1>3, <1>4, <1>5, <1>6, EntryTypes DEF TableOK, CopiesRight
<1>8. itable[s] \in TableEntry /\ dinode \in [Inum -> Dinode] /\ dinode[i] \in Dinode
      /\ Space \in Spaces
  BY <1>3, <1>4, <1>7 DEF DiskTypes
<1>9. /\ r.sp = [Space EXCEPT !.used = @ \ BlocksOf(dinode[i], Space.ind)]
      /\ r.ino = [dinode[i] EXCEPT !.size = 0, !.addrs = NoInode.addrs]
  BY <1>7 DEF itrunc, NoInode
<1> HIDE DEF s, r
<1>11. ino2 \in Dinode /\ ino2.type = "none" /\ ino2.addrs = NoInode.addrs
  <2>1. r.ino \in Dinode /\ r.ino.addrs = NoInode.addrs  BY <1>8, <1>9, EmptiedOK
  <2>2. "none" \in Types  BY DEF Types
  <2> QED BY <2>1, <2>2 DEF Dinode
<1> HIDE DEF ino2
<1>12. /\ e \in TableEntry /\ e.ref = itable[s].ref /\ e.inum = i
       /\ e.valid = FALSE /\ e.lock = None /\ e.ino = ino2
  BY <1>8, <1>11 DEF TableEntry
<1> HIDE DEF e, i
<1>13. itable'[s] = e /\ \A k \in Slot : k # s => itable'[k] = itable[k]  BY <1>1, <1>3, <1>4
<1>14. dinode' = [dinode EXCEPT ![i] = ino2]
  <2>1. itable'[s].inum = i /\ itable'[s].ino = ino2  BY <1>12, <1>13
  <2>2. itable'[s].inum \in Inum  BY <1>7, <2>1
  <2>3. dinode' = [dinode EXCEPT ![itable'[s].inum] = itable'[s].ino]
    BY <1>1, <1>8, <2>2, IupdateOne
  <2> QED BY <2>1, <2>3
<1>15. dinode' \in [Inum -> Dinode] /\ dinode'[i] = ino2
       /\ \A k \in Inum : k # i => dinode'[k] = dinode[k]
  BY <1>7, <1>8, <1>11, <1>14
<1>16. TableOK(itable', dinode')
  <2>1. e.inum = itable[s].inum  BY <1>12 DEF i
  <2>2. \A k \in Inum : k # e.inum => dinode'[k] = dinode[k]  BY <1>12, <1>15
  <2>3. e.valid => e.ino = dinode'[e.inum] /\ e.ino.type # "none"  BY <1>12
  <2>4. /\ TableOK(itable, dinode) /\ s \in Slot /\ itable[s].ref > 0
        /\ e \in TableEntry /\ e.ref = itable[s].ref
    BY <1>3, <1>4, <1>6, <1>12
  <2> DEFINE D2 == dinode'
  <2>5. /\ \A k \in Inum : k # e.inum => D2[k] = dinode[k]
        /\ e.valid => e.ino = D2[e.inum] /\ e.ino.type # "none"
    BY <2>2, <2>3
  <2> HIDE DEF D2
  <2>6. TableOK([itable EXCEPT ![s] = e], D2)  BY <2>1, <2>4, <2>5, EntryPutOK
  <2> QED BY <1>1, <2>6 DEF D2
<1>17. Space' = r.sp
  <2>1. r.sp = [used |-> r.sp.used, ind |-> r.sp.ind]  BY <1>9 DEF Space
  <2> QED BY <1>1, <2>1 DEF Space
<1>18. OneOwner(dinode', Space')
  <2>1. OneOwner([dinode EXCEPT ![i] = ino2], [Space EXCEPT !.used = @ \ BlocksOf(dinode[i], Space.ind)])
    BY <1>4, <1>7, <1>8, <1>11, FreesOwner
  <2> QED BY <1>9, <1>14, <1>17, <2>1
<1>19. r.sp \in Spaces  BY <1>8, <1>9 DEF Spaces
<1>20. DiskTypes'
  <2>1. dirent \in [Inum -> Seq(DirEntry)] /\ <<>> \in Seq(DirEntry)  BY <1>4, EmptySeq DEF DiskTypes
  <2>2. dirent' \in [Inum -> Seq(DirEntry)]  BY <1>1, <2>1
  <2> QED BY <1>15, <1>17, <1>19, <2>2 DEF DiskTypes
<1>21. FreeInodes'  BY <1>4, <1>11, <1>15 DEF FreeInodes
<1>22. /\ LocalTypes' /\ PutsRight' /\ LocalsRight' /\ Alone(p)
       /\ Held(p)' = HeldAt("unref", after[p], puts[p], ip[p], dp[p])
       /\ \A k : Pointers(p, k)' = Pointers(p, k)
  BY <1>1, <1>2, StaysOK
<1>23. Follows(p)  BY <1>12, <1>13, <1>22 DEF Follows, i
<1>24. s # ip[p] \/ after[p] \notin {"opened", "unlink3"}
  BY <1>1 DEF TableInv, PutsRight, s
<1>25. \A k : k \in Held(p)' <=> k \in Held(p) /\ k # s
  BY <1>1, <1>3, <1>22, <1>24 DEF HeldAt, s
<1>26. Lockings(p)
  <2> SUFFICES ASSUME NEW k \in Slot
               PROVE  /\ itable'[k].lock = itable[k].lock \/ {itable[k].lock, itable'[k].lock} \subseteq {p, None}
                      /\ itable'[k].lock = p <=> k \in Held(p)'
                      /\ itable'[k].lock # None =>
                           \/ itable'[k].valid
                           \/ itable'[k].lock = itable[k].lock /\ itable'[k].valid = itable[k].valid
    BY DEF Lockings
  <2>1. CASE k = s  BY <1>5, <1>12, <1>13, <1>25, <2>1, Constants
  <2>2. CASE k # s  BY <1>13, <1>25, <2>2 DEF TableInv, LocksRight
  <2> QED BY <2>1, <2>2
<1> QED BY <1>16, <1>18, <1>20, <1>21, <1>22, <1>23, <1>26, StepOK

LEMMA IputOK == ASSUME TableInv, NEW p \in Procs, iput(p) PROVE TableInv'
<1>1. LocalTypes  BY TableFacts
<1>2. lost \subseteq Inum  BY <1>1 DEF LocalTypes
<1>3. CASE PutRef(p)
  <2>1. /\ pc[p] \in {"put", "unref"} /\ Rest(p)
        /\ itable' = [itable EXCEPT ![Head(puts[p])].ref = @ - 1]
        /\ UNCHANGED <<diskVars, cwd, fd, localVars, calls>> /\ lost' \subseteq Inum
    BY <1>2, <1>3 DEF PutRef
  <2> QED BY <2>1, RestOK
<1>4. CASE PutUnref(p)
  <2> DEFINE h == Head(puts[p])
  <2>1. /\ pc[p] = "unref" /\ Rest(p)
        /\ itable' = [itable EXCEPT ![h].ref = @ - 1]
        /\ UNCHANGED <<diskVars, cwd, fd, localVars, calls>>
        /\ lost' \in {lost, lost \cup {itable[h].inum}}
        /\ lost' # lost => itable[h].ref = 1
    BY <1>4 DEF PutUnref
  <2>2. h \in Slot  BY <2>1, AtPut DEF Putting
  <2>3. itable[h].ref = 1 => itable[h].inum \in Inum  BY <2>2, TableFacts, EntryTypes DEF TableOK
  <2>4. lost' \subseteq Inum  BY <1>2, <2>1, <2>3
  <2> QED BY <2>1, <2>4, RestOK
<1> QED BY <1>3, <1>4, PutLastOK, PutFreeOK DEF iput

\* An entry as ilock() leaves it, with the lock or, after iunlock(), without.
Take(s, l) == [Loaded(s) EXCEPT !.lock = l]

\* The entry that a process locks is in use, and has the inode as it is on the disk.
LEMMA TakeOK ==
  ASSUME TableInv, NEW s \in Slot, itable[s].ref >= 1, CanLock(s), NEW l \in Procs \cup {None}
  PROVE  /\ Take(s, l) \in TableEntry /\ Take(s, l).ref = itable[s].ref
         /\ Take(s, l).inum = itable[s].inum /\ itable[s].inum \in Inum
         /\ Take(s, l).valid = TRUE /\ Take(s, l).lock = l
         /\ Take(s, l).ino = dinode[itable[s].inum]
         /\ Take(s, l).ino \in Dinode /\ Take(s, l).ino.type # "none"
         /\ Loaded(s).ino = Take(s, l).ino /\ Loaded(s).inum = itable[s].inum
         /\ itable[s].lock = None /\ Loaded(s) = Take(s, None)
<1>1. TableOK(itable, dinode) /\ itable \in [Slot -> TableEntry] /\ dinode \in [Inum -> Dinode]
  BY TableFacts DEF DiskTypes
<1>2. itable[s] \in TableEntry /\ itable[s].ref \in Nat /\ itable[s].ref > 0  BY <1>1, EntryTypes
<1>3. itable[s].inum \in Inum  BY <1>1, <1>2, EntryTypes DEF TableOK
<1>4. itable[s].lock = None /\ Loaded(s).ino.type # "none"  BY DEF CanLock
<1>5. itable[s].valid => itable[s].ino = dinode[itable[s].inum]  BY <1>1, <1>2 DEF TableOK, CopiesRight
<1>6. /\ Loaded(s) \in TableEntry /\ Loaded(s).ref = itable[s].ref
      /\ Loaded(s).inum = itable[s].inum /\ Loaded(s).valid = TRUE /\ Loaded(s).lock = None
      /\ Loaded(s).ino = dinode[itable[s].inum]
  <2>1. CASE itable[s].valid  BY <1>2, <1>4, <1>5, <2>1 DEF Loaded, TableEntry
  <2>2. CASE ~itable[s].valid
    <3> DEFINE n == dinode[itable[s].inum]
    <3>1. n \in Dinode  BY <1>1, <1>3
    <3>2. Loaded(s) = [itable[s] EXCEPT !.valid = TRUE, !.ino = n]  BY <2>2 DEF Loaded
    <3> HIDE DEF n
    <3>3. /\ Loaded(s) \in TableEntry /\ Loaded(s).ref = itable[s].ref
          /\ Loaded(s).inum = itable[s].inum /\ Loaded(s).valid = TRUE
          /\ Loaded(s).lock = itable[s].lock /\ Loaded(s).ino = n
      BY <1>2, <3>1, <3>2 DEF TableEntry
    <3> QED BY <1>4, <3>3 DEF n
  <2> QED BY <2>1, <2>2
<1>7. /\ Take(s, l) \in TableEntry /\ Take(s, l).ref = itable[s].ref
      /\ Take(s, l).inum = itable[s].inum
      /\ Take(s, l).valid = TRUE /\ Take(s, l).lock = l /\ Take(s, l).ino = Loaded(s).ino
  BY <1>6 DEF TableEntry, Take
<1>8. Loaded(s) = Take(s, None)
  BY <1>6 DEF TableEntry, Take
<1>9. Take(s, l).ino \in Dinode /\ Take(s, l).ino.type # "none"
  BY <1>1, <1>3, <1>4, <1>6, <1>7
<1> QED BY <1>3, <1>4, <1>6, <1>7, <1>8, <1>9

LEMMA TakeLocks ==
  ASSUME NEW s, NEW p, Loaded(s) \in TableEntry
  PROVE  ilock(p, s) = Take(s, p) /\ iunlock(ilock(p, s)) = Take(s, None)
BY DEF ilock, iunlock, Take, TableEntry

\* The table with entry s taken.
Taken(s, l) == [itable EXCEPT ![s] = Take(s, l)]

\* j is the table but for the entries ss, which are p's to change: none is lost, none
\* is somebody else's.
Changed(p, j, ss) ==
  /\ j \in [Slot -> TableEntry]
  /\ \A k \in Slot \ ss : j[k] = itable[k]
  /\ \A k \in ss : /\ j[k].ref = itable[k].ref /\ itable[k].ref >= 1 /\ j[k].valid
                   /\ {itable[k].lock, j[k].lock} \subseteq {p, None}

LEMMA TakenOK ==
  ASSUME TableInv, NEW p \in Procs, NEW s \in Slot, itable[s].ref >= 1, CanLock(s), NEW l \in {p, None}
  PROVE  /\ TableOK(Taken(s, l), dinode) /\ Changed(p, Taken(s, l), {s})
         /\ Taken(s, l)[s] = Take(s, l) /\ \A k \in Slot : k # s => Taken(s, l)[k] = itable[k]
<1>1. TableOK(itable, dinode) /\ itable \in [Slot -> TableEntry]  BY TableFacts
<1>2. /\ Take(s, l) \in TableEntry /\ Take(s, l).ref = itable[s].ref
      /\ Take(s, l).inum = itable[s].inum
      /\ Take(s, l).valid = TRUE /\ Take(s, l).lock = l
      /\ Take(s, l).ino = dinode[itable[s].inum]
      /\ Take(s, l).ino.type # "none" /\ itable[s].lock = None
  <2>1. l \in Procs \cup {None}  OBVIOUS
  <2> QED BY <2>1, TakeOK
<1>3. Take(s, l).valid => Take(s, l).ino = dinode[Take(s, l).inum] /\ Take(s, l).ino.type # "none"
  BY <1>2
<1> DEFINE e == Take(s, l)
<1> HIDE DEF e
<1>4. TableOK([itable EXCEPT ![s] = e], dinode)
  <2>1. TableOK(itable, dinode) /\ e \in TableEntry /\ e.ref = itable[s].ref /\ e.inum = itable[s].inum
    BY <1>1, <1>2 DEF e
  <2>2. e.valid => e.ino = dinode[e.inum] /\ e.ino.type # "none"  BY <1>3 DEF e
  <2> QED BY <2>1, <2>2, EntrySameOK
<1>5. Taken(s, l) = [itable EXCEPT ![s] = e]  BY DEF Taken, e
<1>6. Taken(s, l)[s] = e /\ \A k \in Slot : k # s => Taken(s, l)[k] = itable[k]  BY <1>1, <1>5
<1>7. Taken(s, l) \in [Slot -> TableEntry]  BY <1>4, <1>5 DEF TableOK
<1>8. Changed(p, Taken(s, l), {s})  BY <1>2, <1>6, <1>7 DEF Changed, e
<1> QED BY <1>4, <1>5, <1>6, <1>8 DEF e

-----------------------------------------------------------------------------
(* Steps that take references, or pass them on.                             *)

Hit(x, s) == One(x = s)
HitFile(f, s) == One(f # None /\ f.ip = s)

LEMMA HitFacts ==
  /\ \A x, s : Hit(x, s) \in {0, 1}
  /\ \A s \in Slot : Hit(None, s) = 0
  /\ \A f, s : HitFile(f, s) \in {0, 1} /\ (f # None => HitFile(f, s) = Hit(f.ip, s))
  /\ \A s : HitFile(None, s) = 0
BY Constants DEF Hit, HitFile, One

LEMMA PointsNil ==
  ASSUME NEW s, NEW i, NEW d, NEW o, NEW w, NEW f
  PROVE  Points(s, <<>>, i, d, o, w, f) = Hit(w, s) + Hit(i, s) + Hit(d, s) + Hit(o, s) + HitFile(f, s)
<1> DEFINE b == Hit(w, s) + Hit(i, s) + Hit(d, s) + Hit(o, s) + HitFile(f, s)
<1>1. b \in Int  BY DEF Hit, HitFile, One
<1>2. Len(<<>>) = 0  BY EmptySeq
<1>3. One(Len(<<>>) >= 1 /\ <<>>[1] = s) = 0 /\ One(Len(<<>>) >= 2 /\ <<>>[2] = s) = 0
  BY <1>2 DEF One
<1>4. Points(s, <<>>, i, d, o, w, f) =
        b + One(Len(<<>>) >= 1 /\ <<>>[1] = s) + One(Len(<<>>) >= 2 /\ <<>>[2] = s)
  BY DEF Points, Hit, HitFile
<1> HIDE DEF b
<1> QED BY <1>1, <1>3, <1>4 DEF b

LEMMA PointsOne ==
  ASSUME NEW s, NEW x, NEW i, NEW d, NEW o, NEW w, NEW f
  PROVE  Points(s, <<x>>, i, d, o, w, f) =
           Hit(w, s) + Hit(i, s) + Hit(d, s) + Hit(o, s) + HitFile(f, s) + Hit(x, s)
<1> DEFINE b == Hit(w, s) + Hit(i, s) + Hit(d, s) + Hit(o, s) + HitFile(f, s)
<1>1. b \in Int /\ Hit(x, s) \in Int  BY DEF Hit, HitFile, One
<1>2. Len(<<x>>) = 1 /\ <<x>>[1] = x  OBVIOUS
<1>3. One(Len(<<x>>) >= 1 /\ <<x>>[1] = s) = Hit(x, s) /\ One(Len(<<x>>) >= 2 /\ <<x>>[2] = s) = 0
  BY <1>2 DEF One, Hit
<1>4. Points(s, <<x>>, i, d, o, w, f) =
        b + One(Len(<<x>>) >= 1 /\ <<x>>[1] = s) + One(Len(<<x>>) >= 2 /\ <<x>>[2] = s)
  BY DEF Points, Hit, HitFile
<1> HIDE DEF b
<1> QED BY <1>1, <1>3, <1>4 DEF b

LEMMA PointsTwo ==
  ASSUME NEW s, NEW x, NEW y, NEW i, NEW d, NEW o, NEW w, NEW f
  PROVE  Points(s, <<x, y>>, i, d, o, w, f) =
           Hit(w, s) + Hit(i, s) + Hit(d, s) + Hit(o, s) + HitFile(f, s) + Hit(x, s) + Hit(y, s)
<1> DEFINE b == Hit(w, s) + Hit(i, s) + Hit(d, s) + Hit(o, s) + HitFile(f, s)
<1>1. b \in Int /\ Hit(x, s) \in Int /\ Hit(y, s) \in Int  BY DEF Hit, HitFile, One
<1>2. Len(<<x, y>>) = 2 /\ <<x, y>>[1] = x /\ <<x, y>>[2] = y  OBVIOUS
<1>3. /\ One(Len(<<x, y>>) >= 1 /\ <<x, y>>[1] = s) = Hit(x, s)
      /\ One(Len(<<x, y>>) >= 2 /\ <<x, y>>[2] = s) = Hit(y, s)
  BY <1>2 DEF One, Hit
<1>4. Points(s, <<x, y>>, i, d, o, w, f) =
        b + One(Len(<<x, y>>) >= 1 /\ <<x, y>>[1] = s) + One(Len(<<x, y>>) >= 2 /\ <<x, y>>[2] = s)
  BY DEF Points, Hit, HitFile
<1> HIDE DEF b
<1> QED BY <1>1, <1>3, <1>4 DEF b

DiskGood ==
  /\ TableOK(itable, dinode)
  /\ DiskTypes
  /\ FreeInodes
  /\ OneOwner(dinode, Space)

\* A step of p that changes entries ss, as in j, takes a reference to t (to none, when
\* it is none), and goes to l with ps to put.
Moved(p, j, ss, t, l, ps, i, d, o, w, f) ==
  /\ ss \subseteq Slot /\ Changed(p, j, ss)
  /\ (t = None /\ itable' = j) \/ Bumped(j, itable', t)
  /\ After(p, l, ps, i, d, o, w, f)
  /\ \A k \in Slot : Points(k, ps, i, d, o, w, f) = Pointers(p, k) + Hit(t, k)
  /\ \A k \in Slot : k \in HeldAt(IF ps = <<>> THEN l ELSE "put", l, ps, i, d) <=>
                       IF k \in ss THEN j[k].lock = p ELSE k \in Held(p)

LEMMA MovedOK ==
  ASSUME TableInv, NEW p \in Procs, DiskGood', NEW j, NEW ss, NEW t, NEW l, NEW ps,
         NEW i, NEW d, NEW o, NEW w, NEW f, Moved(p, j, ss, t, l, ps, i, d, o, w, f)
  PROVE  TableInv'
<1>1. itable \in [Slot -> TableEntry] /\ j \in [Slot -> TableEntry]  BY TableFacts DEF Moved, Changed
<1>2. After(p, l, ps, i, d, o, w, f)  BY DEF Moved
<1>3. \A k \in Slot : itable[k].ref \in Nat /\ j[k].ref = itable[k].ref
  BY <1>1, EntryTypes DEF Moved, Changed
<1>4. \A k \in Slot : /\ itable'[k].ref = j[k].ref + Hit(t, k)
                      /\ itable'[k].lock = j[k].lock
                      /\ itable'[k].valid = j[k].valid \/ j[k].ref = 0
  <2>1. CASE t = None /\ itable' = j
    <3> SUFFICES ASSUME NEW k \in Slot PROVE itable'[k].ref = j[k].ref + Hit(t, k)
      BY <2>1
    <3>1. Hit(t, k) = 0 /\ j[k].ref \in Nat  BY <1>3, <2>1, HitFacts
    <3> QED BY <2>1, <3>1
  <2>2. CASE Bumped(j, itable', t)
    <3> SUFFICES ASSUME NEW k \in Slot
                 PROVE  /\ itable'[k].ref = j[k].ref + Hit(t, k)
                        /\ itable'[k].lock = j[k].lock
                        /\ itable'[k].valid = j[k].valid \/ j[k].ref = 0
      OBVIOUS
    <3>1. j[k].ref \in Nat  BY <1>3
    <3>2. CASE k = t
      <4>1. Hit(t, k) = 1  BY <3>2 DEF Hit, One
      <4> QED BY <2>2, <3>1, <3>2, <4>1 DEF Bumped
    <3>3. CASE k # t
      <4>1. Hit(t, k) = 0  BY <3>3 DEF Hit, One
      <4> QED BY <2>2, <3>1, <3>3, <4>1 DEF Bumped
    <3> QED BY <3>2, <3>3
  <2> QED BY <2>1, <2>2 DEF Moved
<1>5. Follows(p)
  <2> SUFFICES ASSUME NEW k \in Slot
               PROVE  \/ itable'[k].ref = itable[k].ref /\ Pointers(p, k)' = Pointers(p, k)
                      \/ itable'[k].ref = itable[k].ref + 1 /\ Pointers(p, k)' = Pointers(p, k) + 1
    BY DEF Follows
  <2>1. itable[k].ref \in Nat /\ Pointers(p, k) \in Nat /\ Hit(t, k) \in {0, 1}
    BY <1>3, PointersType, HitFacts DEF MaxPointers
  <2>2. itable'[k].ref = itable[k].ref + Hit(t, k)  BY <1>3, <1>4
  <2>3. Pointers(p, k)' = Pointers(p, k) + Hit(t, k)  BY <1>2 DEF After, Moved
  <2> QED BY <2>1, <2>2, <2>3
<1>6. \A k \in Slot : k \in Held(p)' <=> IF k \in ss THEN j[k].lock = p ELSE k \in Held(p)
  BY <1>2 DEF After, Moved
<1>7. Lockings(p)
  <2> SUFFICES ASSUME NEW k \in Slot
               PROVE  /\ itable'[k].lock = itable[k].lock \/ {itable[k].lock, itable'[k].lock} \subseteq {p, None}
                      /\ itable'[k].lock = p <=> k \in Held(p)'
                      /\ itable'[k].lock # None =>
                           \/ itable'[k].valid
                           \/ itable'[k].lock = itable[k].lock /\ itable'[k].valid = itable[k].valid
    BY DEF Lockings
  <2>1. CASE k \in ss
    <3>1. j[k].ref # 0 /\ j[k].valid /\ {itable[k].lock, j[k].lock} \subseteq {p, None}
      BY <1>3, <2>1 DEF Moved, Changed
    <3> QED BY <1>4, <1>6, <2>1, <3>1
  <2>2. CASE k \notin ss
    <3>1. j[k] = itable[k]  BY <2>2 DEF Moved, Changed
    <3>2. itable[k].lock = p <=> k \in Held(p)'  BY <1>6, <2>2 DEF TableInv, LocksRight
    <3>3. itable[k].lock # None => itable[k].ref # 0  BY LockedUsed
    <3> QED BY <1>4, <3>1, <3>2, <3>3
  <2> QED BY <2>1, <2>2
<1> QED BY <1>2, <1>5, <1>7, StepOK DEF After, DiskGood

\* A step of p that looks into entry s, and leaves it locked when m is p.
Looks(p, s, m, t, l, ps, i, d, o, w, f) ==
  /\ s \in Slot /\ itable[s].ref >= 1 /\ CanLock(s) /\ m \in {p, None}
  /\ \/ t = None /\ itable' = Taken(s, m)
     \/ Bumped(Taken(s, m), itable', t) /\ TableOK(itable', dinode)
  /\ UNCHANGED diskVars
  /\ After(p, l, ps, i, d, o, w, f)
  /\ \A k \in Slot : Points(k, ps, i, d, o, w, f) = Pointers(p, k) + Hit(t, k)
  /\ \A k \in Slot : k \in HeldAt(IF ps = <<>> THEN l ELSE "put", l, ps, i, d) <=>
                       (k = s /\ m = p) \/ k \in Held(p)

LEMMA LooksOK ==
  ASSUME TableInv, NEW p \in Procs, NEW s, NEW m, NEW t, NEW l, NEW ps,
         NEW i, NEW d, NEW o, NEW w, NEW f, Looks(p, s, m, t, l, ps, i, d, o, w, f)
  PROVE  TableInv'
<1>1. s \in Slot /\ itable[s].ref >= 1 /\ CanLock(s) /\ m \in {p, None} /\ itable[s].lock = None
  BY DEF Looks, CanLock
<1>2. /\ TableOK(Taken(s, m), dinode) /\ Changed(p, Taken(s, m), {s})
      /\ Taken(s, m)[s] = Take(s, m) /\ Take(s, m).lock = m
  <2>1. m \in Procs \cup {None}  BY <1>1
  <2>2. Take(s, m).lock = m  BY <1>1, <2>1, TakeOK
  <2>3. m \in {p, None}  BY <1>1
  <2>4. /\ TableOK(Taken(s, m), dinode) /\ Changed(p, Taken(s, m), {s})
        /\ Taken(s, m)[s] = Take(s, m)
    BY <1>1, <2>3, TakenOK
  <2> QED BY <2>2, <2>4
<1>3. s \notin Held(p)  BY <1>1, Constants DEF TableInv, LocksRight
<1> DEFINE j == Taken(s, m)
<1>4. \A k \in Slot : k \in HeldAt(IF ps = <<>> THEN l ELSE "put", l, ps, i, d) <=>
                        IF k \in {s} THEN j[k].lock = p ELSE k \in Held(p)
  BY <1>2, <1>3 DEF Looks
<1>5. (t = None /\ itable' = j) \/ Bumped(j, itable', t)  BY DEF Looks
<1>6. TableOK(itable', dinode)  BY <1>2 DEF Looks
<1>7. Changed(p, j, {s})  BY <1>2
<1> HIDE DEF j
<1>8. Moved(p, j, {s}, t, l, ps, i, d, o, w, f)
  BY <1>1, <1>4, <1>5, <1>7 DEF Moved, Looks
<1>9. DiskGood'
  <2>1. UNCHANGED diskVars  BY DEF Looks
  <2>2. DiskTypes' /\ FreeInodes' /\ OneOwner(dinode', Space') /\ dinode' = dinode  BY <2>1, DiskSame
  <2> QED BY <1>6, <2>2 DEF DiskGood
<1> QED BY <1>8, <1>9, MovedOK

\* Where nothing is locked.
Free == {"user", "walk", "open", "existing", "create", "unlink", "link", "link2", "linkbad", "chdir",
         "write", "read"}

LEMMA AtFree ==
  ASSUME TableInv, NEW p \in Procs, pc[p] \in Free
  PROVE  pc[p] \notin Putting /\ Held(p) = {}
<1>1. pc[p] \notin Putting  BY DEF Free, Putting
<1>2. Held(p) = HeldAt(pc[p], pc[p], <<>>, ip[p], dp[p])  BY <1>1, AtPlace
<1> QED BY <1>1, <1>2 DEF HeldAt, Free

LEMMA OneSlot == ASSUME NEW s \in Slot PROVE <<s>> \in Seq(Slot) /\ <<s>> # <<>> /\ Len(<<s>>) <= 2
OBVIOUS

LEMMA TwoSlots ==
  ASSUME NEW s \in Slot, NEW t \in Slot
  PROVE  <<s, t>> \in Seq(Slot) /\ <<s, t>> # <<>> /\ Len(<<s, t>>) <= 2
OBVIOUS

\* What p points to, whose puts are done.
LEMMA PointersNil ==
  ASSUME TableInv, NEW p \in Procs, pc[p] \notin Putting, NEW k
  PROVE  Pointers(p, k) = Hit(cwd[p], k) + Hit(ip[p], k) + Hit(dp[p], k) + Hit(old[p], k) + HitFile(fd[p], k)
BY AtPlace, PointsNil

\* The variables that a step leaves alone.
LEMMA KeepOK ==
  ASSUME TableInv, NEW p \in Procs
  PROVE  /\ cwd' = cwd => cwd' = [cwd EXCEPT ![p] = cwd[p]]
         /\ fd' = fd => fd' = [fd EXCEPT ![p] = fd[p]]
         /\ call' = call => call' = [call EXCEPT ![p] = call[p]]
         /\ ip' = ip => ip' = [ip EXCEPT ![p] = ip[p]]
         /\ dp' = dp => dp' = [dp EXCEPT ![p] = dp[p]]
         /\ old' = old => old' = [old EXCEPT ![p] = old[p]]
         /\ path' = path => path' \in [Procs -> Seq(STRING)]
         /\ name' = name => name' \in [Procs -> STRING \cup {None}]
         /\ calls' = calls => calls' \in 0 .. MaxCalls
         /\ lost' = lost => lost' \subseteq Inum
BY LocalFacts DEF LocalTypes

\* A call that is over, or that has failed and is to take back what it did.
LEMMA OverOK ==
  ASSUME TableInv, NEW p \in Procs, pc[p] \notin Putting, old[p] = None, NEW ps \in Seq(Slot), Len(ps) <= 2,
         Done(p, ps), UNCHANGED <<cwd, fd, calls, lost>>
  PROVE  After(p, "user", ps, None, None, old[p], cwd[p], fd[p])
<1>1. /\ cwd' = [cwd EXCEPT ![p] = cwd[p]] /\ fd' = [fd EXCEPT ![p] = fd[p]]
      /\ calls' \in 0 .. MaxCalls /\ lost' \subseteq Inum
      /\ cwd[p] \in Slot /\ fd[p] \in OpenFile \cup {None}
  BY KeepOK, LocalFacts
<1> QED BY <1>1, AfterDone

LEMMA FailsOK ==
  ASSUME TableInv, NEW p \in Procs, pc[p] \in {"walk", "link2"}, NEW ps \in Seq(Slot), ps # <<>>, Len(ps) <= 2,
         Fails(p, ps), UNCHANGED <<cwd, fd, calls, lost>>
  PROVE  \E l \in {"user", "linkbad"} : After(p, l, ps, None, None, old[p], cwd[p], fd[p])
<1>1. pc[p] \notin Putting /\ LocalsAt(pc[p], call[p], ip[p], dp[p], old[p], fd[p])
  BY AtPlace DEF Putting
<1>2. /\ cwd' = [cwd EXCEPT ![p] = cwd[p]] /\ fd' = [fd EXCEPT ![p] = fd[p]]
      /\ calls' \in 0 .. MaxCalls /\ lost' \subseteq Inum
      /\ cwd[p] \in Slot /\ fd[p] \in OpenFile \cup {None} /\ old[p] \in Slot \cup {None}
      /\ call[p] \in Calls \cup {None}
  BY KeepOK, LocalFacts
<1>3. CASE Second(p)
  <2>1. /\ Put(p, ps, "linkbad") /\ ip' = [ip EXCEPT ![p] = None] /\ dp' = [dp EXCEPT ![p] = None]
        /\ UNCHANGED <<call, path, name, old>>
    BY <1>3 DEF Fails
  <2>2. /\ call' = [call EXCEPT ![p] = call[p]] /\ old' = [old EXCEPT ![p] = old[p]]
        /\ path' \in [Procs -> Seq(STRING)] /\ name' \in [Procs -> STRING \cup {None}]
    BY <2>1, KeepOK
  <2>3. OtherTypes'  BY <1>2, <2>2 DEF OtherTypes
  <2>4. LocalsAt("linkbad", call[p], None, None, old[p], fd[p])
    <3>1. call[p].k = "link" /\ old[p] # None /\ call[p] \in Calls
      BY <1>1, <1>3 DEF Second, LocalsAt
    <3> QED BY <3>1 DEF LocalsAt, Walked, Parented
  <2>5. "linkbad" \in Returns /\ None \in Slot \cup {None}  BY DEF Returns
  <2>6. After(p, "linkbad", ps, None, None, old[p], cwd[p], fd[p])
    BY <1>1, <1>2, <2>1, <2>2, <2>3, <2>4, <2>5, AfterPut
  <2> QED BY <2>6
<1>4. CASE ~Second(p)
  <2>1. old[p] = None  BY <1>1, <1>4 DEF Second, LocalsAt
  <2>2. Done(p, ps)  BY <1>4 DEF Fails
  <2>3. After(p, "user", ps, None, None, old[p], cwd[p], fd[p])  BY <1>1, <2>1, <2>2, OverOK
  <2> QED BY <2>3
<1> QED BY <1>3, <1>4

\* An inode is looked into, and then put.
LEMMA LookPutOK ==
  ASSUME TableInv, NEW p \in Procs, pc[p] \in Free, NEW s \in Slot,
         (ip[p] = s /\ dp[p] = None) \/ (ip[p] = None /\ dp[p] = s),
         CanLock(s), itable' = Taken(s, None), UNCHANGED diskVars, NEW l \in {"user", "linkbad"},
         After(p, l, <<s>>, None, None, old[p], cwd[p], fd[p])
  PROVE  TableInv'
<1>1. pc[p] \notin Putting /\ Held(p) = {} /\ LocalTypes /\ Counted  BY AtFree, TableFacts
<1>2. itable[s].ref >= 1  BY <1>1, UsedBy
<1>3. ASSUME NEW k \in Slot
      PROVE  Points(k, <<s>>, None, None, old[p], cwd[p], fd[p]) = Pointers(p, k) + Hit(None, k)
  <2>1. Pointers(p, k) = Hit(cwd[p], k) + Hit(ip[p], k) + Hit(dp[p], k) + Hit(old[p], k) + HitFile(fd[p], k)
    BY <1>1, PointersNil
  <2>2. Points(k, <<s>>, None, None, old[p], cwd[p], fd[p]) =
          Hit(cwd[p], k) + Hit(None, k) + Hit(None, k) + Hit(old[p], k) + HitFile(fd[p], k) + Hit(s, k)
    BY PointsOne
  <2>3. /\ Hit(None, k) = 0 /\ Hit(s, k) \in {0, 1} /\ Hit(cwd[p], k) \in {0, 1}
        /\ Hit(old[p], k) \in {0, 1} /\ HitFile(fd[p], k) \in {0, 1}
    BY HitFacts
  <2> QED BY <2>1, <2>2, <2>3
<1>4. HeldAt(IF <<s>> = <<>> THEN l ELSE "put", l, <<s>>, None, None) = {}
  BY OneSlot DEF HeldAt
<1>5. None # p  BY Constants
<1>6. Looks(p, s, None, None, l, <<s>>, None, None, old[p], cwd[p], fd[p])
  BY <1>1, <1>2, <1>3, <1>4, <1>5 DEF Looks
<1> QED BY <1>6, LooksOK

LEMMA KeptOK ==
  ASSUME TableInv, NEW p \in Procs, pc[p] \notin Putting, NEW l \in Labels \ Putting, Go(p, l),
         UNCHANGED <<localVars, cwd, fd, calls, lost>>,
         LocalsAt(l, call[p], ip[p], dp[p], old[p], fd[p])
  PROVE  After(p, l, <<>>, ip[p], dp[p], old[p], cwd[p], fd[p])
<1>1. UNCHANGED <<call, path, ip, dp, name, old>>  BY DEF localVars
<1>2. /\ cwd' = [cwd EXCEPT ![p] = cwd[p]] /\ fd' = [fd EXCEPT ![p] = fd[p]]
      /\ call' = [call EXCEPT ![p] = call[p]] /\ ip' = [ip EXCEPT ![p] = ip[p]]
      /\ dp' = [dp EXCEPT ![p] = dp[p]] /\ old' = [old EXCEPT ![p] = old[p]]
      /\ OtherTypes'
  BY <1>1, KeepOK DEF OtherTypes
<1>3. /\ cwd[p] \in Slot /\ fd[p] \in OpenFile \cup {None} /\ call[p] \in Calls \cup {None}
      /\ ip[p] \in Slot \cup {None} /\ dp[p] \in Slot \cup {None} /\ old[p] \in Slot \cup {None}
  BY LocalFacts
<1> QED BY <1>2, <1>3, AfterGo

LEMMA SamePoints ==
  ASSUME TableInv, NEW p \in Procs, pc[p] \notin Putting, NEW k \in Slot
  PROVE  Points(k, <<>>, ip[p], dp[p], old[p], cwd[p], fd[p]) = Pointers(p, k) + Hit(None, k)
<1>1. Points(k, <<>>, ip[p], dp[p], old[p], cwd[p], fd[p]) = Pointers(p, k)  BY AtPlace
<1>2. Pointers(p, k) \in Nat /\ Hit(None, k) = 0  BY PointersType, HitFacts DEF MaxPointers
<1> QED BY <1>1, <1>2

\* A step that leaves the table as it is.
LEMMA StillOK ==
  ASSUME TableInv, NEW p \in Procs, itable' = itable, UNCHANGED diskVars,
         NEW l, NEW ps, NEW i, NEW d, NEW o, NEW w, NEW f, After(p, l, ps, i, d, o, w, f),
         \A k \in Slot : Points(k, ps, i, d, o, w, f) = Pointers(p, k) + Hit(None, k),
         \A k \in Slot : k \in HeldAt(IF ps = <<>> THEN l ELSE "put", l, ps, i, d) <=> k \in Held(p)
  PROVE  TableInv'
<1>1. itable \in [Slot -> TableEntry] /\ TableOK(itable, dinode)  BY TableFacts
<1>2. Changed(p, itable, {})  BY <1>1 DEF Changed
<1>3. Moved(p, itable, {}, None, l, ps, i, d, o, w, f)  BY <1>2 DEF Moved
<1>4. DiskTypes' /\ FreeInodes' /\ OneOwner(dinode', Space') /\ dinode' = dinode  BY DiskSame
<1>5. DiskGood'
  <2>1. TableOK(itable', dinode')  BY <1>1, <1>4
  <2> QED BY <1>4, <2>1 DEF DiskGood
<1> QED BY <1>3, <1>5, MovedOK

\* The path names an inode, which goes to the call.
LEMMA WalkEndOK == ASSUME TableInv, NEW p \in Procs, WalkEnd(p) PROVE TableInv'
<1>1. /\ pc[p] = "walk" /\ itable' = itable /\ UNCHANGED <<diskVars, cwd, fd, calls, lost>>
  BY DEF WalkEnd
<1>2. pc[p] \notin Putting /\ Held(p) = {} /\ pc[p] \in Free  BY <1>1, AtFree DEF Free
<1>3. LocalsAt("walk", call[p], ip[p], dp[p], old[p], fd[p])  BY <1>1, <1>2, AtPlace
<1>4. ip[p] \in Slot /\ dp[p] = None /\ call[p] \in Calls
  BY <1>3, LocalFacts DEF LocalsAt, Walked, Parented
<1>5. CASE Parent(p)
  <2> DEFINE s == ip[p]
  <2>1. Fails(p, <<s>>)  BY <1>5 DEF WalkEnd
  <2>2. <<s>> \in Seq(Slot) /\ <<s>> # <<>> /\ Len(<<s>>) <= 2  BY <1>4, OneSlot
  <2>3. pc[p] \in {"walk", "link2"}  BY <1>1
  <2>4. PICK l \in {"user", "linkbad"} : After(p, l, <<s>>, None, None, old[p], cwd[p], fd[p])
    BY <1>1, <2>1, <2>2, <2>3, FailsOK
  <2>5. ASSUME NEW k \in Slot
        PROVE  Points(k, <<s>>, None, None, old[p], cwd[p], fd[p]) = Pointers(p, k) + Hit(None, k)
    <3>1. Pointers(p, k) = Hit(cwd[p], k) + Hit(ip[p], k) + Hit(dp[p], k) + Hit(old[p], k) + HitFile(fd[p], k)
      BY <1>2, PointersNil
    <3>2. Points(k, <<s>>, None, None, old[p], cwd[p], fd[p]) =
            Hit(cwd[p], k) + Hit(None, k) + Hit(None, k) + Hit(old[p], k) + HitFile(fd[p], k) + Hit(s, k)
      BY PointsOne
    <3>3. /\ Hit(None, k) = 0 /\ Hit(s, k) \in {0, 1} /\ Hit(cwd[p], k) \in {0, 1}
          /\ Hit(old[p], k) \in {0, 1} /\ HitFile(fd[p], k) \in {0, 1}
      BY HitFacts
    <3> QED BY <1>4, <3>1, <3>2, <3>3
  <2>6. HeldAt(IF <<s>> = <<>> THEN l ELSE "put", l, <<s>>, None, None) = {}  BY <2>2, <2>4 DEF HeldAt
  <2>7. \A k \in Slot : k \in HeldAt(IF <<s>> = <<>> THEN l ELSE "put", l, <<s>>, None, None) <=> k \in Held(p)
    BY <1>2, <2>6
  <2> DEFINE ps == <<s>>
  <2>8. /\ After(p, l, ps, None, None, old[p], cwd[p], fd[p])
        /\ \A k \in Slot : Points(k, ps, None, None, old[p], cwd[p], fd[p]) = Pointers(p, k) + Hit(None, k)
        /\ \A k \in Slot : k \in HeldAt(IF ps = <<>> THEN l ELSE "put", l, ps, None, None) <=> k \in Held(p)
    BY <2>4, <2>5, <2>7
  <2> HIDE DEF ps
  <2> QED BY <1>1, <2>8, StillOK
<1>6. CASE ~Parent(p)
  <2> DEFINE l == Resolved(p)
  <2>1. Go(p, l) /\ UNCHANGED localVars  BY <1>6 DEF WalkEnd
  <2>2. l = call[p].k /\ l \in {"open", "link", "chdir"}
    <3>1. call[p].k \in Kinds  BY <1>4, CallsAssumption
    <3> QED BY <1>3, <1>6, <3>1 DEF Parent, Resolved, LocalsAt, Kinds
  <2>3. l \in Labels \ Putting  BY <2>2 DEF Labels, Putting
  <2>4. old[p] = None  BY <1>3, <1>6 DEF LocalsAt, Parent, Second
  <2>5. LocalsAt(l, call[p], ip[p], dp[p], old[p], fd[p])
    BY <1>3, <1>4, <2>2, <2>4 DEF LocalsAt, Walked, Parented
  <2> HIDE DEF l
  <2>6. After(p, l, <<>>, ip[p], dp[p], old[p], cwd[p], fd[p])
    BY <1>1, <1>2, <2>1, <2>3, <2>5, KeptOK
  <2>7. \A k \in Slot : k \in HeldAt(IF <<>> = <<>> THEN l ELSE "put", l, <<>>, ip[p], dp[p]) <=> k \in Held(p)
    BY <1>2, <2>2 DEF HeldAt
  <2>8. \A k \in Slot : Points(k, <<>>, ip[p], dp[p], old[p], cwd[p], fd[p]) = Pointers(p, k) + Hit(None, k)
    BY <1>2, SamePoints
  <2> QED BY <1>1, <2>6, <2>7, <2>8, StillOK
<1> QED BY <1>5, <1>6

\* The table as ilock() and iunlock() leave it.
LEMMA LockedOK ==
  ASSUME TableInv, NEW p \in Procs, NEW s \in Slot, itable[s].ref >= 1, CanLock(s)
  PROVE  /\ [itable EXCEPT ![s] = ilock(p, s)] = Taken(s, p)
         /\ [itable EXCEPT ![s] = iunlock(ilock(p, s))] = Taken(s, None)
         /\ [itable EXCEPT ![s] = Loaded(s)] = Taken(s, None)
         /\ [[itable EXCEPT ![s] = ilock(p, s)] EXCEPT ![s] = iunlock(@)] = Taken(s, None)
<1>1. Loaded(s) = Take(s, None) /\ Take(s, None) \in TableEntry  BY TakeOK
<1>2. ilock(p, s) = Take(s, p) /\ iunlock(ilock(p, s)) = Take(s, None)  BY <1>1, TakeLocks
<1>3. itable \in [Slot -> TableEntry]  BY TableFacts
<1>4. [[itable EXCEPT ![s] = Take(s, p)] EXCEPT ![s] = iunlock(@)] = [itable EXCEPT ![s] = iunlock(Take(s, p))]
  BY <1>3
<1> QED BY <1>1, <1>2, <1>4 DEF Taken

LEMMA OpenedNextOK ==
  ASSUME TableInv, NEW p \in Procs, pc[p] \in {"open", "existing"}, call[p].k \in {"open", "create"},
         CanLock(ip[p]), itable' = [itable EXCEPT ![ip[p]] = ilock(p, ip[p])], Go(p, "opened"),
         UNCHANGED <<localVars, diskVars, cwd, fd, calls, lost>>
  PROVE  TableInv'
<1> DEFINE s == ip[p]
<1>1. pc[p] \notin Putting /\ Held(p) = {} /\ LocalTypes /\ Counted  BY AtFree, TableFacts DEF Free
<1>2. LocalsAt(pc[p], call[p], ip[p], dp[p], old[p], fd[p])  BY <1>1, AtPlace
<1>3. s \in Slot /\ dp[p] = None /\ old[p] = None /\ call[p] \in Calls
  BY <1>2, LocalFacts DEF LocalsAt, Walked, Parented
<1>4. itable[s].ref >= 1  BY <1>1, <1>3, UsedBy
<1>5. itable' = Taken(s, p)  BY <1>3, <1>4, LockedOK
<1>6. LocalsAt("opened", call[p], ip[p], dp[p], old[p], fd[p])
  BY <1>2, <1>3 DEF LocalsAt, Walked, Parented
<1>7. After(p, "opened", <<>>, ip[p], dp[p], old[p], cwd[p], fd[p])
  <2>1. "opened" \in Labels \ Putting  BY DEF Labels, Putting
  <2> QED BY <1>1, <1>6, <2>1, KeptOK
<1>8. \A k \in Slot : k \in HeldAt(IF <<>> = <<>> THEN "opened" ELSE "put", "opened", <<>>, ip[p], dp[p])
                        <=> (k = s /\ p = p) \/ k \in Held(p)
  BY <1>1 DEF HeldAt
<1>9. \A k \in Slot : Points(k, <<>>, ip[p], dp[p], old[p], cwd[p], fd[p]) = Pointers(p, k) + Hit(None, k)
  BY <1>1, SamePoints
<1>10. Looks(p, s, p, None, "opened", <<>>, ip[p], dp[p], old[p], cwd[p], fd[p])
  BY <1>3, <1>4, <1>5, <1>7, <1>8, <1>9 DEF Looks
<1> QED BY <1>10, LooksOK

\* An inode is looked into and put, and the call is over.
LEMMA LookDoneOK ==
  ASSUME TableInv, NEW p \in Procs, pc[p] \in Free, NEW s \in Slot,
         (ip[p] = s /\ dp[p] = None) \/ (ip[p] = None /\ dp[p] = s), old[p] = None,
         CanLock(s), itable' = Taken(s, None), Done(p, <<s>>), UNCHANGED <<diskVars, cwd, fd, calls, lost>>
  PROVE  TableInv'
<1>1. pc[p] \notin Putting  BY AtFree
<1>2. <<s>> \in Seq(Slot) /\ Len(<<s>>) <= 2  BY OneSlot
<1>3. After(p, "user", <<s>>, None, None, old[p], cwd[p], fd[p])  BY <1>1, <1>2, OverOK
<1> QED BY <1>3, LookPutOK

LEMMA OpenLockOK == ASSUME TableInv, NEW p \in Procs, OpenLock(p) PROVE TableInv'
<1> DEFINE s == ip[p]
           e == ilock(p, s)
<1>1. pc[p] = "open" /\ CanLock(s) /\ UNCHANGED <<diskVars, cwd, fd, calls, lost>>  BY DEF OpenLock
<1>2. pc[p] \notin Putting /\ pc[p] \in Free /\ LocalTypes /\ Counted
  BY <1>1, AtFree, TableFacts DEF Free
<1>3. LocalsAt("open", call[p], ip[p], dp[p], old[p], fd[p])  BY <1>1, <1>2, AtPlace
<1>4. s \in Slot /\ dp[p] = None /\ old[p] = None /\ call[p].k = "open"
  BY <1>3, LocalFacts DEF LocalsAt, Walked, Parented
<1>5. itable[s].ref >= 1  BY <1>2, <1>4, UsedBy
<1>6. CASE itable' = [itable EXCEPT ![s] = iunlock(e)] /\ Done(p, <<s>>)
  <2>1. itable' = Taken(s, None)  BY <1>1, <1>4, <1>5, <1>6, LockedOK
  <2> QED BY <1>1, <1>2, <1>4, <1>6, <2>1, LookDoneOK
<1>7. CASE itable' = [itable EXCEPT ![s] = e] /\ Go(p, "opened") /\ UNCHANGED localVars
  BY <1>1, <1>4, <1>7, OpenedNextOK
<1> QED BY <1>6, <1>7 DEF OpenLock

LEMMA CreateExistingOK == ASSUME TableInv, NEW p \in Procs, CreateExisting(p) PROVE TableInv'
<1> DEFINE s == ip[p]
           e == ilock(p, s)
<1>1. pc[p] = "existing" /\ CanLock(s) /\ UNCHANGED <<diskVars, cwd, fd, calls, lost>>
  BY DEF CreateExisting
<1>2. pc[p] \notin Putting /\ pc[p] \in Free /\ LocalTypes /\ Counted
  BY <1>1, AtFree, TableFacts DEF Free
<1>3. LocalsAt("existing", call[p], ip[p], dp[p], old[p], fd[p])  BY <1>1, <1>2, AtPlace
<1>4. s \in Slot /\ dp[p] = None /\ old[p] = None
  BY <1>3, LocalFacts DEF LocalsAt, Walked, Parented
<1>5. itable[s].ref >= 1  BY <1>2, <1>4, UsedBy
<1>6. CASE itable' = [itable EXCEPT ![s] = iunlock(e)] /\ Done(p, <<s>>)
  <2>1. itable' = Taken(s, None)  BY <1>1, <1>4, <1>5, <1>6, LockedOK
  <2> QED BY <1>1, <1>2, <1>4, <1>6, <2>1, LookDoneOK
<1>7. CASE call[p].k = "create" /\ itable' = [itable EXCEPT ![s] = e] /\ Go(p, "opened") /\ UNCHANGED localVars
  BY <1>1, <1>7, OpenedNextOK
<1> QED BY <1>6, <1>7 DEF CreateExisting

LEMMA FilereadOK == ASSUME TableInv, NEW p \in Procs, fileread(p) PROVE TableInv'
<1> DEFINE s == fd[p].ip
           f == [fd[p] EXCEPT !.off = IF @ < Loaded(s).ino.size THEN @ + 1 ELSE @]
<1>1. /\ pc[p] = "read" /\ CanLock(s) /\ itable' = [itable EXCEPT ![s] = Loaded(s)]
      /\ fd' = [fd EXCEPT ![p] = f]
      /\ Done(p, <<>>) /\ UNCHANGED <<diskVars, cwd, calls, lost>>
  BY DEF fileread
<1>2. pc[p] \notin Putting /\ Held(p) = {} /\ LocalTypes /\ Counted
  BY <1>1, AtFree, TableFacts DEF Free
<1>3. LocalsAt("read", call[p], ip[p], dp[p], old[p], fd[p])  BY <1>1, <1>2, AtPlace
<1>4. s \in Slot /\ ip[p] = None /\ dp[p] = None /\ old[p] = None /\ fd[p] # None /\ fd[p] \in OpenFile
  BY <1>3, LocalFacts DEF LocalsAt, Walked, Parented
<1>5. itable[s].ref >= 1  BY <1>2, <1>4, UsedBy
<1>6. itable' = Taken(s, None)  BY <1>1, <1>4, <1>5, LockedOK
<1>7. f \in OpenFile /\ f # None /\ f.ip = s
  <2>1. f.ip = s /\ f \in OpenFile  BY <1>4 DEF OpenFile
  <2> QED BY <2>1, Constants
<1> HIDE DEF f, s
<1>8. After(p, "user", <<>>, None, None, None, cwd[p], f)
  <2>1. /\ cwd' = [cwd EXCEPT ![p] = cwd[p]] /\ calls' \in 0 .. MaxCalls /\ lost' \subseteq Inum
        /\ cwd[p] \in Slot
    BY <1>1, KeepOK, LocalFacts
  <2>2. <<>> \in Seq(Slot) /\ Len(<<>>) <= 2  BY EmptySeq
  <2> QED BY <1>1, <1>2, <1>7, <2>1, <2>2, AfterDone
<1>9. ASSUME NEW k \in Slot
      PROVE  Points(k, <<>>, None, None, None, cwd[p], f) = Pointers(p, k) + Hit(None, k)
  <2>1. Pointers(p, k) = Hit(cwd[p], k) + Hit(ip[p], k) + Hit(dp[p], k) + Hit(old[p], k) + HitFile(fd[p], k)
    BY <1>2, PointersNil
  <2>2. Points(k, <<>>, None, None, None, cwd[p], f) =
          Hit(cwd[p], k) + Hit(None, k) + Hit(None, k) + Hit(None, k) + HitFile(f, k)
    BY PointsNil
  <2>3. HitFile(f, k) = Hit(s, k) /\ HitFile(fd[p], k) = Hit(s, k)  BY <1>4, <1>7, HitFacts DEF s
  <2>4. Hit(None, k) = 0 /\ Hit(s, k) \in {0, 1} /\ Hit(cwd[p], k) \in {0, 1}  BY HitFacts
  <2> QED BY <1>4, <2>1, <2>2, <2>3, <2>4
<1>10. \A k \in Slot : k \in HeldAt(IF <<>> = <<>> THEN "user" ELSE "put", "user", <<>>, None, None)
                         <=> (k = s /\ None = p) \/ k \in Held(p)
  BY <1>2, Constants DEF HeldAt
<1>11. Looks(p, s, None, None, "user", <<>>, None, None, None, cwd[p], f)
  BY <1>1, <1>4, <1>5, <1>6, <1>8, <1>9, <1>10 DEF Looks, s
<1> QED BY <1>11, LooksOK

LEMMA ChdirOK == ASSUME TableInv, NEW p \in Procs, sys_chdir(p) PROVE TableInv'
<1> DEFINE s == ip[p]
<1>1. /\ pc[p] = "chdir" /\ CanLock(s) /\ itable' = [itable EXCEPT ![s] = Loaded(s)]
      /\ UNCHANGED <<diskVars, fd, calls, lost>>
  BY DEF sys_chdir
<1>2. pc[p] \notin Putting /\ Held(p) = {} /\ LocalTypes /\ Counted /\ pc[p] \in Free
  BY <1>1, AtFree, TableFacts DEF Free
<1>3. LocalsAt("chdir", call[p], ip[p], dp[p], old[p], fd[p])  BY <1>1, <1>2, AtPlace
<1>4. s \in Slot /\ dp[p] = None /\ old[p] = None  BY <1>3, LocalFacts DEF LocalsAt, Walked, Parented
<1>5. itable[s].ref >= 1  BY <1>2, <1>4, UsedBy
<1>6. itable' = Taken(s, None)  BY <1>1, <1>4, <1>5, LockedOK
<1>7. CASE Done(p, <<s>>) /\ cwd' = cwd
  BY <1>1, <1>2, <1>4, <1>6, <1>7, LookDoneOK
<1>8. CASE Done(p, <<cwd[p]>>) /\ cwd' = [cwd EXCEPT ![p] = s]
  <2> DEFINE c == cwd[p]
             ps == <<c>>
  <2>1. /\ fd' = [fd EXCEPT ![p] = fd[p]] /\ calls' \in 0 .. MaxCalls /\ lost' \subseteq Inum
        /\ fd[p] \in OpenFile \cup {None} /\ c \in Slot
    BY <1>1, KeepOK, LocalFacts
  <2>2. ps \in Seq(Slot) /\ Len(ps) <= 2 /\ ps # <<>>  BY <2>1, OneSlot
  <2>3. Done(p, ps)  BY <1>8
  <2>4. ASSUME NEW k \in Slot
        PROVE  Points(k, ps, None, None, None, s, fd[p]) = Pointers(p, k) + Hit(None, k)
    <3>1. Pointers(p, k) = Hit(cwd[p], k) + Hit(ip[p], k) + Hit(dp[p], k) + Hit(old[p], k) + HitFile(fd[p], k)
      BY <1>2, PointersNil
    <3>2. Points(k, ps, None, None, None, s, fd[p]) =
            Hit(s, k) + Hit(None, k) + Hit(None, k) + Hit(None, k) + HitFile(fd[p], k) + Hit(c, k)
      BY PointsOne
    <3>3. Hit(None, k) = 0 /\ Hit(s, k) \in {0, 1} /\ Hit(c, k) \in {0, 1} /\ HitFile(fd[p], k) \in {0, 1}
      BY HitFacts
    <3> QED BY <1>4, <3>1, <3>2, <3>3
  <2> HIDE DEF ps
  <2>5. After(p, "user", ps, None, None, None, s, fd[p])
    BY <1>2, <1>4, <1>8, <2>1, <2>2, <2>3, AfterDone
  <2>6. \A k \in Slot : k \in HeldAt(IF ps = <<>> THEN "user" ELSE "put", "user", ps, None, None)
                          <=> (k = s /\ None = p) \/ k \in Held(p)
    BY <1>2, <2>2, Constants DEF HeldAt
  <2>7. Looks(p, s, None, None, "user", ps, None, None, None, s, fd[p])
    BY <1>1, <1>4, <1>5, <1>6, <2>4, <2>5, <2>6 DEF Looks
  <2> QED BY <2>7, LooksOK
<1> QED BY <1>7, <1>8 DEF sys_chdir

\* An inode that is looked up in a directory gets a reference.
LEMMA GetOK ==
  ASSUME TableInv, NEW p \in Procs, NEW s \in Slot, itable[s].ref >= 1, CanLock(s), NEW l \in {p, None},
         NEW i \in Inum
  PROVE  LET g == iget(Taken(s, l), i)
         IN  g.s \in Slot /\ TableOK(g.it, dinode) /\ Bumped(Taken(s, l), g.it, g.s) /\ g.it[g.s].inum = i
<1>1. TableOK(Taken(s, l), dinode)  BY TakenOK
<1> DEFINE j == Taken(s, l)
<1> HIDE DEF j
<1>2. TableOK(iget(j, i).it, dinode) /\ Bumped(j, iget(j, i).it, iget(j, i).s)
      /\ iget(j, i).it[iget(j, i).s].inum = i
  BY <1>1, IgetOK DEF j
<1> QED BY <1>2 DEF Bumped, j

LEMMA UnlinkLookupOK == ASSUME TableInv, NEW p \in Procs, UnlinkLookup(p) PROVE TableInv'
<1> DEFINE s == dp[p]
           it == [itable EXCEPT ![s] = ilock(p, s)]
           n == dirlookup(dirent[it[s].inum], name[p])
           g == iget(it, n)
<1>1. pc[p] = "unlink" /\ CanLock(s) /\ UNCHANGED <<diskVars, cwd, fd, calls, lost>>
  BY DEF UnlinkLookup
<1>2. pc[p] \notin Putting /\ Held(p) = {} /\ LocalTypes /\ DiskTypes /\ Counted /\ pc[p] \in Free
  BY <1>1, AtFree, TableFacts DEF Free
<1>3. LocalsAt("unlink", call[p], ip[p], dp[p], old[p], fd[p])  BY <1>1, <1>2, AtPlace
<1>4. s \in Slot /\ ip[p] = None /\ old[p] = None  BY <1>3, LocalFacts DEF LocalsAt, Walked, Parented
<1>5. itable[s].ref >= 1  BY <1>2, <1>4, UsedBy
<1>6. it = Taken(s, p)  BY <1>1, <1>4, <1>5, LockedOK
<1>7. it[s].inum \in Inum
  <2>1. Taken(s, p)[s] = Take(s, p)  BY <1>1, <1>4, <1>5, TakenOK
  <2>2. Take(s, p).inum \in Inum
    <3>1. p \in Procs \cup {None}  OBVIOUS
    <3> QED BY <1>1, <1>4, <1>5, <3>1, TakeOK
  <2> HIDE DEF s
  <2> QED BY <1>6, <2>1, <2>2
<1>8. n \in Inum \cup {None}  BY <1>2, <1>7, DirlookupOK DEF DiskTypes
<1>9. CASE itable' = [it EXCEPT ![s] = iunlock(@)] /\ Done(p, <<s>>)
  <2>1. itable' = Taken(s, None)  BY <1>1, <1>4, <1>5, <1>9, LockedOK
  <2> QED BY <1>1, <1>2, <1>4, <1>9, <2>1, LookDoneOK
<1>10. CASE /\ n # None /\ itable' = g.it /\ ip' = [ip EXCEPT ![p] = g.s] /\ Go(p, "unlink2")
            /\ UNCHANGED <<call, path, dp, name, old>>
  <2> HIDE DEF n
  <2>1. g = iget(Taken(s, p), n) /\ n \in Inum  BY <1>6, <1>8, <1>10
  <2>2. /\ g.s \in Slot /\ TableOK(itable', dinode)
        /\ Bumped(Taken(s, p), itable', g.s)
    BY <1>1, <1>4, <1>5, <1>10, <2>1, GetOK
  <2> DEFINE t == g.s
  <2>3. t \in Slot /\ ip' = [ip EXCEPT ![p] = t] /\ Bumped(Taken(s, p), itable', t)  BY <1>10, <2>2
  <2> HIDE DEF g, t, it
  <2>4. LocalsAt("unlink2", call[p], t, dp[p], old[p], fd[p])
    BY <1>3, <1>4, <2>3, Constants DEF LocalsAt, Walked, Parented
  <2>5. After(p, "unlink2", <<>>, t, dp[p], old[p], cwd[p], fd[p])
    <3>1. /\ cwd' = [cwd EXCEPT ![p] = cwd[p]] /\ fd' = [fd EXCEPT ![p] = fd[p]]
          /\ call' = [call EXCEPT ![p] = call[p]] /\ dp' = [dp EXCEPT ![p] = dp[p]]
          /\ old' = [old EXCEPT ![p] = old[p]] /\ OtherTypes'
      BY <1>1, <1>10, KeepOK DEF OtherTypes
    <3>2. /\ cwd[p] \in Slot /\ fd[p] \in OpenFile \cup {None} /\ call[p] \in Calls \cup {None}
          /\ dp[p] \in Slot \cup {None} /\ old[p] \in Slot \cup {None}
      BY LocalFacts
    <3>3. "unlink2" \in Labels \ Putting /\ t \in Slot \cup {None}  BY <2>3 DEF Labels, Putting
    <3> QED BY <1>2, <1>10, <2>3, <2>4, <3>1, <3>2, <3>3, AfterGo
  <2>6. ASSUME NEW k \in Slot
        PROVE  Points(k, <<>>, t, dp[p], old[p], cwd[p], fd[p]) = Pointers(p, k) + Hit(t, k)
    <3>1. Pointers(p, k) = Hit(cwd[p], k) + Hit(ip[p], k) + Hit(dp[p], k) + Hit(old[p], k) + HitFile(fd[p], k)
      BY <1>2, PointersNil
    <3>2. Points(k, <<>>, t, dp[p], old[p], cwd[p], fd[p]) =
            Hit(cwd[p], k) + Hit(t, k) + Hit(dp[p], k) + Hit(old[p], k) + HitFile(fd[p], k)
      BY PointsNil
    <3>3. /\ Hit(None, k) = 0 /\ Hit(t, k) \in {0, 1} /\ Hit(cwd[p], k) \in {0, 1}
          /\ Hit(dp[p], k) \in {0, 1} /\ Hit(old[p], k) \in {0, 1} /\ HitFile(fd[p], k) \in {0, 1}
      BY HitFacts
    <3> QED BY <1>4, <3>1, <3>2, <3>3
  <2>7. \A k \in Slot : k \in HeldAt(IF <<>> = <<>> THEN "unlink2" ELSE "put", "unlink2", <<>>, t, dp[p])
                          <=> (k = s /\ p = p) \/ k \in Held(p)
    BY <1>2 DEF HeldAt
  <2>8. Looks(p, s, p, t, "unlink2", <<>>, t, dp[p], old[p], cwd[p], fd[p])
    BY <1>1, <1>4, <1>5, <2>2, <2>3, <2>5, <2>6, <2>7 DEF Looks
  <2> QED BY <2>8, LooksOK
<1> QED BY <1>9, <1>10 DEF UnlinkLookup

LEMMA WalkOK == ASSUME TableInv, NEW p \in Procs, Walk(p) PROVE TableInv'
<1> DEFINE s == ip[p]
           e == Loaded(s)
           it == [itable EXCEPT ![s] = e]
           n == Head(path[p])
           rest == Tail(path[p])
           m == dirlookup(dirent[e.inum], n)
           g == iget(it, m)
<1>1. pc[p] = "walk" /\ path[p] # <<>> /\ CanLock(s) /\ UNCHANGED <<diskVars, cwd, fd, calls, lost>>
  BY DEF Walk
<1>2. pc[p] \notin Putting /\ Held(p) = {} /\ LocalTypes /\ DiskTypes /\ Counted /\ pc[p] \in Free
  BY <1>1, AtFree, TableFacts DEF Free
<1>3. LocalsAt("walk", call[p], ip[p], dp[p], old[p], fd[p])  BY <1>1, <1>2, AtPlace
<1>4. s \in Slot /\ dp[p] = None /\ call[p] \in Calls
  BY <1>3, LocalFacts DEF LocalsAt, Walked, Parented
<1>5. itable[s].ref >= 1  BY <1>2, <1>4, UsedBy
<1>6. it = Taken(s, None)  BY <1>1, <1>4, <1>5, LockedOK
<1>7. e.inum \in Inum
  <2>1. None \in Procs \cup {None}  OBVIOUS
  <2> HIDE DEF s
  <2> QED BY <1>1, <1>4, <1>5, <2>1, TakeOK
<1>8. m \in Inum \cup {None}  BY <1>2, <1>7, DirlookupOK DEF DiskTypes
<1>9. n \in STRING /\ rest \in Seq(STRING)
  <2>1. path[p] \in Seq(STRING)  BY LocalFacts
  <2> QED BY <1>1, <2>1, HeadTailProperties
<1>10. \/ itable' = it /\ Fails(p, <<s>>)
       \/ /\ Parent(p)
          /\ itable' = it
          /\ dp' = [dp EXCEPT ![p] = s]
          /\ name' = [name EXCEPT ![p] = n]
          /\ ip' = [ip EXCEPT ![p] = None]
          /\ path' = [path EXCEPT ![p] = <<>>]
          /\ Go(p, Resolved(p))
          /\ UNCHANGED <<call, old>>
       \/ /\ m # None
          /\ itable' = g.it
          /\ ip' = [ip EXCEPT ![p] = g.s]
          /\ path' = [path EXCEPT ![p] = rest]
          /\ Put(p, <<s>>, "walk")
          /\ UNCHANGED <<call, dp, name, old>>
  <2> HIDE DEF s, e, it, n, rest, m, g
  <2> QED BY DEF Walk, s, e, it, n, rest, m, g
<1> HIDE DEF n, rest, m
<1>11. CASE itable' = it /\ Fails(p, <<s>>)
  <2>1. <<s>> \in Seq(Slot) /\ <<s>> # <<>> /\ Len(<<s>>) <= 2 /\ pc[p] \in {"walk", "link2"}
    BY <1>1, <1>4, OneSlot
  <2>2. PICK l \in {"user", "linkbad"} : After(p, l, <<s>>, None, None, old[p], cwd[p], fd[p])
    BY <1>1, <1>11, <2>1, FailsOK
  <2> QED BY <1>1, <1>2, <1>4, <1>6, <1>11, <2>2, LookPutOK
<1>12. CASE /\ Parent(p)
            /\ itable' = it
            /\ dp' = [dp EXCEPT ![p] = s]
            /\ name' = [name EXCEPT ![p] = n]
            /\ ip' = [ip EXCEPT ![p] = None]
            /\ path' = [path EXCEPT ![p] = <<>>]
            /\ Go(p, Resolved(p))
            /\ UNCHANGED <<call, old>>
  <2> DEFINE l == Resolved(p)
  <2>1. /\ l \in {"create", "unlink", "link2"}
        /\ l = "create" => call[p].k \in {"create", "mkdir"}
        /\ l = "link2" => call[p].k = "link" /\ old[p] # None
        /\ old[p] # None => l = "link2"
    BY <1>3, <1>12 DEF Parent, Resolved, Second, LocalsAt
  <2>2. Go(p, l)  BY <1>12
  <2> HIDE DEF l
  <2>3. LocalsAt(l, call[p], None, s, old[p], fd[p])
    BY <1>3, <1>4, <2>1, Constants DEF LocalsAt, Walked, Parented
  <2>4. After(p, l, <<>>, None, s, old[p], cwd[p], fd[p])
    <3>1. /\ cwd' = [cwd EXCEPT ![p] = cwd[p]] /\ fd' = [fd EXCEPT ![p] = fd[p]]
          /\ call' = [call EXCEPT ![p] = call[p]] /\ old' = [old EXCEPT ![p] = old[p]]
          /\ calls' \in 0 .. MaxCalls /\ lost' \subseteq Inum
      BY <1>1, <1>12, KeepOK
    <3>2. /\ cwd[p] \in Slot /\ fd[p] \in OpenFile \cup {None} /\ call[p] \in Calls \cup {None}
          /\ old[p] \in Slot \cup {None}
      BY LocalFacts
    <3>3. l \in Labels \ Putting  BY <2>1 DEF Labels, Putting
    <3>4. OtherTypes'
      <4>1. <<>> \in Seq(STRING)  BY EmptySeq
      <4>2. path' \in [Procs -> Seq(STRING)] /\ name' \in [Procs -> STRING \cup {None}]
        BY <1>2, <1>9, <1>12, <4>1 DEF LocalTypes
      <4> QED BY <3>1, <4>2 DEF OtherTypes
    <3>5. s \in Slot \cup {None} /\ None \in Slot \cup {None}  BY <1>4
    <3> HIDE DEF s
    <3> QED BY <1>2, <1>12, <2>2, <2>3, <3>1, <3>2, <3>3, <3>4, <3>5, AfterGo
  <2>5. ASSUME NEW k \in Slot
        PROVE  Points(k, <<>>, None, s, old[p], cwd[p], fd[p]) = Pointers(p, k) + Hit(None, k)
    <3>1. Pointers(p, k) = Hit(cwd[p], k) + Hit(ip[p], k) + Hit(dp[p], k) + Hit(old[p], k) + HitFile(fd[p], k)
      BY <1>2, PointersNil
    <3>2. Points(k, <<>>, None, s, old[p], cwd[p], fd[p]) =
            Hit(cwd[p], k) + Hit(None, k) + Hit(s, k) + Hit(old[p], k) + HitFile(fd[p], k)
      BY PointsNil
    <3>3. /\ Hit(None, k) = 0 /\ Hit(s, k) \in {0, 1} /\ Hit(cwd[p], k) \in {0, 1}
          /\ Hit(old[p], k) \in {0, 1} /\ HitFile(fd[p], k) \in {0, 1}
      BY HitFacts
    <3> QED BY <1>4, <3>1, <3>2, <3>3
  <2>6. \A k \in Slot : k \in HeldAt(IF <<>> = <<>> THEN l ELSE "put", l, <<>>, None, s)
                          <=> (k = s /\ None = p) \/ k \in Held(p)
    BY <1>2, <2>1, Constants DEF HeldAt
  <2>7. Looks(p, s, None, None, l, <<>>, None, s, old[p], cwd[p], fd[p])
    BY <1>1, <1>4, <1>5, <1>6, <1>12, <2>4, <2>5, <2>6 DEF Looks
  <2> QED BY <2>7, LooksOK
<1>13. CASE /\ m # None
            /\ itable' = g.it
            /\ ip' = [ip EXCEPT ![p] = g.s]
            /\ path' = [path EXCEPT ![p] = rest]
            /\ Put(p, <<s>>, "walk")
            /\ UNCHANGED <<call, dp, name, old>>
  <2> DEFINE t == g.s
             ps == <<s>>
  <2>1. g = iget(Taken(s, None), m) /\ m \in Inum /\ None \in {p, None}  BY <1>6, <1>8, <1>13
  <2>2. /\ t \in Slot /\ TableOK(itable', dinode)
        /\ Bumped(Taken(s, None), itable', t)
    BY <1>1, <1>4, <1>5, <1>13, <2>1, GetOK
  <2>3. ip' = [ip EXCEPT ![p] = t] /\ Put(p, ps, "walk")  BY <1>13
  <2>4. ps \in Seq(Slot) /\ Len(ps) <= 2 /\ ps # <<>>  BY <1>4, OneSlot
  <2>5. ASSUME NEW k \in Slot
        PROVE  Points(k, ps, t, dp[p], old[p], cwd[p], fd[p]) = Pointers(p, k) + Hit(t, k)
    <3>1. Pointers(p, k) = Hit(cwd[p], k) + Hit(s, k) + Hit(dp[p], k) + Hit(old[p], k) + HitFile(fd[p], k)
      BY <1>2, PointersNil
    <3> HIDE DEF t, s
    <3>2. Points(k, ps, t, dp[p], old[p], cwd[p], fd[p]) =
            Hit(cwd[p], k) + Hit(t, k) + Hit(dp[p], k) + Hit(old[p], k) + HitFile(fd[p], k) + Hit(s, k)
      BY PointsOne
    <3>3. /\ Hit(s, k) \in {0, 1} /\ Hit(t, k) \in {0, 1} /\ Hit(cwd[p], k) \in {0, 1}
          /\ Hit(dp[p], k) \in {0, 1} /\ Hit(old[p], k) \in {0, 1} /\ HitFile(fd[p], k) \in {0, 1}
      BY HitFacts
    <3> QED BY <3>1, <3>2, <3>3
  <2> HIDE DEF g, t, it, ps
  <2>6. LocalsAt("walk", call[p], t, dp[p], old[p], fd[p])
    BY <1>3, <1>4, <2>2, Constants DEF LocalsAt, Walked, Parented
  <2>7. After(p, "walk", ps, t, dp[p], old[p], cwd[p], fd[p])
    <3>1. /\ cwd' = [cwd EXCEPT ![p] = cwd[p]] /\ fd' = [fd EXCEPT ![p] = fd[p]]
          /\ call' = [call EXCEPT ![p] = call[p]] /\ dp' = [dp EXCEPT ![p] = dp[p]]
          /\ old' = [old EXCEPT ![p] = old[p]]
          /\ name' \in [Procs -> STRING \cup {None}] /\ calls' \in 0 .. MaxCalls /\ lost' \subseteq Inum
      BY <1>1, <1>13, KeepOK
    <3>2. /\ cwd[p] \in Slot /\ fd[p] \in OpenFile \cup {None} /\ call[p] \in Calls \cup {None}
          /\ dp[p] \in Slot \cup {None} /\ old[p] \in Slot \cup {None}
      BY LocalFacts
    <3>3. "walk" \in Returns /\ t \in Slot \cup {None}  BY <2>2 DEF Returns
    <3>4. path' \in [Procs -> Seq(STRING)]  BY <1>2, <1>9, <1>13 DEF LocalTypes
    <3>5. OtherTypes'  BY <3>1, <3>4 DEF OtherTypes
    <3> QED BY <1>2, <1>13, <2>3, <2>4, <2>6, <3>1, <3>2, <3>3, <3>5, AfterPut
  <2>8. \A k \in Slot : k \in HeldAt(IF ps = <<>> THEN "walk" ELSE "put", "walk", ps, t, dp[p])
                          <=> (k = s /\ None = p) \/ k \in Held(p)
    BY <1>2, <2>4, Constants DEF HeldAt
  <2>9. Looks(p, s, None, t, "walk", ps, t, dp[p], old[p], cwd[p], fd[p])
    BY <1>1, <1>4, <1>5, <2>2, <2>5, <2>7, <2>8 DEF Looks
  <2> QED BY <2>9, LooksOK
<1> QED BY <1>10, <1>11, <1>12, <1>13

LEMMA CreateLookupOK == ASSUME TableInv, NEW p \in Procs, CreateLookup(p) PROVE TableInv'
<1> DEFINE s == dp[p]
           it == [itable EXCEPT ![s] = ilock(p, s)]
           n == dirlookup(dirent[it[s].inum], name[p])
           g == iget(it, n)
           t == g.s
           ps == <<s>>
<1>1. /\ pc[p] = "create" /\ CanLock(s) /\ n # None
      /\ itable' = [g.it EXCEPT ![s] = iunlock(@)]
      /\ ip' = [ip EXCEPT ![p] = t] /\ dp' = [dp EXCEPT ![p] = None]
      /\ Put(p, ps, "existing")
      /\ UNCHANGED <<diskVars, cwd, fd, call, path, name, old, calls, lost>>
  BY DEF CreateLookup
<1>2. pc[p] \notin Putting /\ Held(p) = {} /\ LocalTypes /\ DiskTypes /\ Counted /\ pc[p] \in Free
  BY <1>1, AtFree, TableFacts DEF Free
<1>3. LocalsAt("create", call[p], ip[p], dp[p], old[p], fd[p])  BY <1>1, <1>2, AtPlace
<1>4. s \in Slot /\ ip[p] = None /\ old[p] = None  BY <1>3, LocalFacts DEF LocalsAt, Walked, Parented
<1>5. itable[s].ref >= 1  BY <1>2, <1>4, UsedBy
<1>6. it = Taken(s, p)  BY <1>1, <1>4, <1>5, LockedOK
<1>7. /\ Taken(s, p)[s] = Take(s, p) /\ Take(s, p).inum \in Inum
      /\ Take(s, p).lock = p /\ Take(s, p) \in TableEntry /\ Take(s, p).valid /\ Take(s, p).ref >= 1
      /\ Taken(s, None)[s] = Take(s, None) /\ Take(s, None) = [Take(s, p) EXCEPT !.lock = None]
      /\ \A k \in Slot : k # s => Taken(s, p)[k] = Taken(s, None)[k]
  <2>1. p \in Procs \cup {None} /\ p \in {p, None} /\ None \in {p, None} /\ None \in Procs \cup {None}
    OBVIOUS
  <2> HIDE DEF s
  <2>2. Taken(s, p)[s] = Take(s, p) /\ Taken(s, None)[s] = Take(s, None)
        /\ \A k \in Slot : k # s => Taken(s, p)[k] = Taken(s, None)[k]
    <3>1. Taken(s, p)[s] = Take(s, p) /\ \A k \in Slot : k # s => Taken(s, p)[k] = itable[k]
      BY <1>1, <1>4, <1>5, <2>1, TakenOK
    <3>2. Taken(s, None)[s] = Take(s, None) /\ \A k \in Slot : k # s => Taken(s, None)[k] = itable[k]
      BY <1>1, <1>4, <1>5, <2>1, TakenOK
    <3> QED BY <3>1, <3>2
  <2>3. Take(s, p).inum \in Inum /\ Take(s, p).lock = p /\ Take(s, p) \in TableEntry /\ Take(s, p).valid
        /\ Take(s, p).ref >= 1
    BY <1>1, <1>4, <1>5, <2>1, TakeOK
  <2>4. Take(s, None) = [Take(s, p) EXCEPT !.lock = None]
    <3>1. Loaded(s) = Take(s, None) /\ Take(s, None) \in TableEntry  BY <1>1, <1>4, <1>5, <2>1, TakeOK
    <3> QED BY <3>1 DEF Take, TableEntry
  <2> QED BY <2>2, <2>3, <2>4
<1>8. n \in Inum
  <2>1. it[s].inum \in Inum
    <3> HIDE DEF s
    <3> QED BY <1>6, <1>7
  <2> QED BY <1>1, <1>2, <2>1, DirlookupOK DEF DiskTypes
<1> HIDE DEF n
<1>9. /\ t \in Slot /\ TableOK(g.it, dinode) /\ Bumped(Taken(s, p), g.it, t)
  <2>1. g = iget(Taken(s, p), n) /\ p \in {p, None}  BY <1>6
  <2> QED BY <1>1, <1>4, <1>5, <1>8, <2>1, GetOK
<1>10. ASSUME NEW k \in Slot
       PROVE  Points(k, ps, t, None, old[p], cwd[p], fd[p]) = Pointers(p, k) + Hit(t, k)
  <2>1. Pointers(p, k) = Hit(cwd[p], k) + Hit(ip[p], k) + Hit(s, k) + Hit(old[p], k) + HitFile(fd[p], k)
    BY <1>2, PointersNil
  <2> HIDE DEF t, s
  <2>2. Points(k, ps, t, None, old[p], cwd[p], fd[p]) =
          Hit(cwd[p], k) + Hit(t, k) + Hit(None, k) + Hit(old[p], k) + HitFile(fd[p], k) + Hit(s, k)
    BY PointsOne
  <2>3. /\ Hit(s, k) \in {0, 1} /\ Hit(t, k) \in {0, 1} /\ Hit(cwd[p], k) \in {0, 1} /\ Hit(None, k) = 0
        /\ Hit(old[p], k) \in {0, 1} /\ HitFile(fd[p], k) \in {0, 1}
    BY HitFacts
  <2> QED BY <1>4, <2>1, <2>2, <2>3
<1>11. ps \in Seq(Slot) /\ Len(ps) <= 2 /\ ps # <<>>  BY <1>4, OneSlot
<1> DEFINE j == g.it
<1>12. itable' = [j EXCEPT ![s] = iunlock(@)] /\ TableOK(j, dinode) /\ Bumped(Taken(s, p), j, t) /\ t \in Slot
  BY <1>1, <1>9
<1> HIDE DEF g, t, it, ps, j
<1>13. TableOK(itable', dinode) /\ Bumped(Taken(s, None), itable', t)
  <2> HIDE DEF s
  <2>1. j \in [Slot -> TableEntry] /\ j[s] \in TableEntry  BY <1>4, <1>12 DEF TableOK
  <2> DEFINE e == [j[s] EXCEPT !.lock = None]
  <2>2. /\ e \in TableEntry /\ e.ref = j[s].ref /\ e.inum = j[s].inum /\ e.valid = j[s].valid
        /\ e.ino = j[s].ino /\ e.lock = None
    BY <2>1 DEF TableEntry
  <2>3. itable' = [j EXCEPT ![s] = e]  BY <1>12 DEF iunlock
  <2>4. j[s].ref >= 1 /\ j[s].ref > 0 /\ j[s].ref \in Nat
    <3>1. j[s].ref = Take(s, p).ref \/ j[s].ref = Take(s, p).ref + 1  BY <1>4, <1>7, <1>12 DEF Bumped
    <3>2. Take(s, p).ref \in Nat  BY <1>7 DEF TableEntry
    <3> QED BY <1>7, <3>1, <3>2
  <2> HIDE DEF e
  <2>5. e.valid => e.ino = dinode[e.inum] /\ e.ino.type # "none"
    BY <1>4, <1>12, <2>2, <2>4 DEF TableOK, CopiesRight
  <2>6. TableOK([j EXCEPT ![s] = e], dinode)  BY <1>4, <1>12, <2>2, <2>4, <2>5, EntrySameOK
  <2>7. itable'[s] = e /\ \A k \in Slot : k # s => itable'[k] = j[k]  BY <1>4, <2>1, <2>3
  <2>8. /\ Take(s, None).ref = Take(s, p).ref /\ Take(s, None).inum = Take(s, p).inum
        /\ Take(s, None).valid = Take(s, p).valid /\ Take(s, None).ino = Take(s, p).ino
        /\ Take(s, None).lock = None
    BY <1>7 DEF TableEntry
  <2>9. Take(s, p).ref > 0
    <3>1. Take(s, p).ref \in Nat  BY <1>7 DEF TableEntry
    <3> QED BY <1>7, <3>1
  <2>10. CASE t = s
    <3>1. \A k \in Slot : k # t => itable'[k] = Taken(s, None)[k]  BY <1>7, <1>12, <2>7, <2>10 DEF Bumped
    <3>2. /\ e.ref = Take(s, None).ref + 1 /\ e.inum = Take(s, None).inum /\ e.valid = Take(s, None).valid
          /\ e.ino = Take(s, None).ino
      BY <1>7, <1>12, <2>2, <2>8, <2>9, <2>10 DEF Bumped
    <3> QED BY <1>7, <1>12, <2>2, <2>3, <2>6, <2>7, <2>8, <2>10, <3>1, <3>2 DEF Bumped
  <2>11. CASE t # s
    <3>1. j[s] = Take(s, p)  BY <1>4, <1>7, <1>12, <2>11 DEF Bumped
    <3>2. itable'[s] = Take(s, None)  BY <1>7, <2>7, <3>1 DEF e
    <3>3. itable'[t] = j[t] /\ Taken(s, None)[t] = Taken(s, p)[t]  BY <1>7, <1>12, <2>7, <2>11
    <3>4. \A k \in Slot : k # t => itable'[k] = Taken(s, None)[k]  BY <1>7, <1>12, <2>7, <3>2 DEF Bumped
    <3> QED BY <1>12, <2>3, <2>6, <3>3, <3>4 DEF Bumped
  <2> QED BY <2>10, <2>11
<1>14. LocalsAt("existing", call[p], t, None, old[p], fd[p])
  BY <1>3, <1>4, <1>12, Constants DEF LocalsAt, Walked, Parented
<1>15. After(p, "existing", ps, t, None, old[p], cwd[p], fd[p])
  <2>1. /\ cwd' = [cwd EXCEPT ![p] = cwd[p]] /\ fd' = [fd EXCEPT ![p] = fd[p]]
        /\ call' = [call EXCEPT ![p] = call[p]] /\ old' = [old EXCEPT ![p] = old[p]] /\ OtherTypes'
    BY <1>1, KeepOK DEF OtherTypes
  <2>2. /\ cwd[p] \in Slot /\ fd[p] \in OpenFile \cup {None} /\ call[p] \in Calls \cup {None}
        /\ old[p] \in Slot \cup {None}
    BY LocalFacts
  <2>3. "existing" \in Returns /\ t \in Slot \cup {None} /\ None \in Slot \cup {None}  BY <1>12 DEF Returns
  <2> QED BY <1>1, <1>2, <1>11, <1>14, <2>1, <2>2, <2>3, AfterPut
<1>16. \A k \in Slot : k \in HeldAt(IF ps = <<>> THEN "existing" ELSE "put", "existing", ps, t, None)
                        <=> (k = s /\ None = p) \/ k \in Held(p)
  BY <1>2, <1>11, Constants DEF HeldAt
<1>17. Looks(p, s, None, t, "existing", ps, t, None, old[p], cwd[p], fd[p])
  BY <1>1, <1>4, <1>5, <1>10, <1>13, <1>15, <1>16 DEF Looks
<1> QED BY <1>17, LooksOK

-----------------------------------------------------------------------------
(* Steps that write an inode.                                               *)

\* An entry that p has locked has the inode as it is on the disk.
LEMMA HeldFacts ==
  ASSUME TableInv, NEW p \in Procs, NEW s \in Slot, s \in Held(p)
  PROVE  /\ itable[s].lock = p /\ itable[s].valid /\ itable[s].ref >= 1 /\ itable[s] \in TableEntry
         /\ itable[s].inum \in Inum /\ itable[s].ino = dinode[itable[s].inum]
         /\ itable[s].ino \in Dinode /\ itable[s].ino.type # "none"
<1>1. /\ TableOK(itable, dinode) /\ itable \in [Slot -> TableEntry] /\ dinode \in [Inum -> Dinode]
  BY TableFacts DEF DiskTypes
<1>2. itable[s].lock = p /\ itable[s].valid  BY DEF TableInv, LocksRight
<1>3. itable[s].ref >= 1 /\ itable[s].ref > 0
  <2>1. itable[s].lock # None  BY <1>2, Constants
  <2>2. itable[s].ref >= 1  BY <2>1, LockedUsed
  <2>3. itable[s].ref \in Nat  BY <1>1, EntryTypes
  <2> QED BY <2>2, <2>3
<1>4. itable[s].inum \in Inum /\ itable[s] \in TableEntry  BY <1>1, <1>3, EntryTypes DEF TableOK
<1>5. itable[s].ino = dinode[itable[s].inum] /\ itable[s].ino.type # "none"
  BY <1>1, <1>2, <1>3 DEF TableOK, CopiesRight
<1> QED BY <1>1, <1>2, <1>3, <1>4, <1>5

LEMMA OwnUsed ==
  ASSUME TableInv, NEW i \in Inum, dinode[i].type # "none"
  PROVE  /\ dinode \in [Inum -> Dinode] /\ dinode[i] \in Dinode /\ Space \in Spaces
         /\ BlocksOf(dinode[i], Space.ind) \subseteq Space.used /\ OneOwner(dinode, Space)
<1>1. dinode \in [Inum -> Dinode] /\ Space \in Spaces  BY TableFacts DEF DiskTypes
<1>2. OneOwner(dinode, Space)  BY DEF TableInv, BlocksOwned
<1> QED BY <1>1, <1>2 DEF OneOwner

LEMMA LinksOwner ==
  ASSUME TableInv, NEW i \in Inum, dinode[i].type # "none", NEW n \in Int
  PROVE  LET ino2 == [dinode[i] EXCEPT !.nlink = n]
         IN  /\ ino2 \in Dinode /\ ino2.type = dinode[i].type
             /\ OneOwner([dinode EXCEPT ![i] = ino2], Space)
<1> DEFINE ino2 == [dinode[i] EXCEPT !.nlink = n]
<1>1. dinode \in [Inum -> Dinode] /\ dinode[i] \in Dinode /\ OneOwner(dinode, Space)  BY OwnUsed
<1>2. ino2 \in Dinode /\ ino2.type = dinode[i].type /\ ino2.addrs = dinode[i].addrs  BY <1>1 DEF Dinode
<1> HIDE DEF ino2
<1> DEFINE E == [dinode EXCEPT ![i] = ino2]
<1>3. \A k \in Inum : E[k].type = dinode[k].type /\ E[k].addrs = dinode[k].addrs  BY <1>1, <1>2
<1> HIDE DEF E
<1>4. OneOwner(E, Space)  BY <1>1, <1>3, SameOwner
<1> QED BY <1>2, <1>4 DEF E, ino2

\* Entry s, which is p's, is written, and so are its inode and the blocks.
Writes(p, s, e, j, sp) ==
  /\ s \in Slot /\ itable[s].ref >= 1 /\ itable[s].lock \in {p, None}
  /\ e \in TableEntry /\ e.ref = itable[s].ref /\ e.inum = itable[s].inum /\ e.valid
  /\ e.lock \in {p, None} /\ e.ino.type # "none"
  /\ j = [itable EXCEPT ![s] = e] /\ iupdate(j, {s})
  /\ dirent' \in [Inum -> Seq(DirEntry)]
  /\ sp \in Spaces /\ Space' = sp /\ OneOwner([dinode EXCEPT ![e.inum] = e.ino], sp)

LEMMA WrittenOK ==
  ASSUME TableInv, NEW p \in Procs, NEW s, NEW e, NEW j, NEW sp, Writes(p, s, e, j, sp)
  PROVE  /\ Changed(p, j, {s}) /\ j[s] = e /\ TableOK(j, dinode')
         /\ DiskTypes' /\ FreeInodes' /\ OneOwner(dinode', Space')
<1>0. /\ s \in Slot /\ itable[s].ref >= 1 /\ itable[s].lock \in {p, None}
      /\ e \in TableEntry /\ e.ref = itable[s].ref /\ e.inum = itable[s].inum /\ e.valid
      /\ e.lock \in {p, None} /\ e.ino.type # "none"
      /\ j = [itable EXCEPT ![s] = e] /\ iupdate(j, {s})
      /\ dirent' \in [Inum -> Seq(DirEntry)]
      /\ sp \in Spaces /\ Space' = sp /\ OneOwner([dinode EXCEPT ![e.inum] = e.ino], sp)
  BY DEF Writes
<1>1. /\ TableOK(itable, dinode) /\ itable \in [Slot -> TableEntry] /\ dinode \in [Inum -> Dinode]
      /\ FreeInodes
  BY TableFacts DEF DiskTypes, TableInv
<1>2. itable[s].ref \in Nat /\ itable[s].ref > 0
  <2>1. itable[s].ref \in Nat  BY <1>0, <1>1, EntryTypes
  <2> QED BY <1>0, <2>1
<1>3. e.inum \in Inum  BY <1>0, <1>1, <1>2, EntryTypes DEF TableOK
<1>4. j[s] = e /\ (\A k \in Slot : k # s => j[k] = itable[k]) /\ j \in [Slot -> TableEntry]
  BY <1>0, <1>1
<1>5. e.ino \in Dinode  BY <1>0 DEF TableEntry
<1>6. dinode' = [dinode EXCEPT ![e.inum] = e.ino]
  <2>1. j[s].inum = e.inum /\ j[s].ino = e.ino /\ j[s].inum \in Inum  BY <1>3, <1>4
  <2>2. dinode' = [dinode EXCEPT ![j[s].inum] = j[s].ino]  BY <1>0, <1>1, <2>1, IupdateOne
  <2> QED BY <2>1, <2>2
<1> DEFINE D2 == dinode'
<1>7. D2 \in [Inum -> Dinode] /\ D2[e.inum] = e.ino /\ \A i \in Inum : i # e.inum => D2[i] = dinode[i]
  BY <1>1, <1>3, <1>5, <1>6
<1> HIDE DEF D2
<1>8. TableOK(j, D2)
  <2>1. /\ TableOK(itable, dinode) /\ s \in Slot /\ itable[s].ref > 0
        /\ e \in TableEntry /\ e.ref = itable[s].ref /\ e.inum = itable[s].inum
    BY <1>0, <1>1, <1>2
  <2>2. /\ \A i \in Inum : i # e.inum => D2[i] = dinode[i]
        /\ e.valid => e.ino = D2[e.inum] /\ e.ino.type # "none"
    BY <1>0, <1>7
  <2>3. TableOK([itable EXCEPT ![s] = e], D2)  BY <2>1, <2>2, EntryPutOK
  <2> QED BY <1>0, <2>3
<1>9. Changed(p, j, {s})  BY <1>0, <1>4 DEF Changed
<1>10. DiskTypes'  BY <1>0, <1>7 DEF DiskTypes, D2
<1>11. FreeInodes'  BY <1>0, <1>1, <1>7 DEF FreeInodes, D2
<1>12. OneOwner(dinode', Space')  BY <1>0, <1>6
<1> QED BY <1>4, <1>8, <1>9, <1>10, <1>11, <1>12 DEF D2

\* An entry whose inode has another number of links.
LEMMA RelinkOK ==
  ASSUME NEW x \in TableEntry, NEW n \in Int
  PROVE  LET y == relink(x, n)
             ino2 == [x.ino EXCEPT !.nlink = x.ino.nlink + n]
         IN  /\ y \in TableEntry /\ y.ref = x.ref /\ y.inum = x.inum /\ y.valid = x.valid /\ y.lock = x.lock
             /\ y.ino = ino2
             /\ iunlock(y) \in TableEntry /\ iunlock(y).ref = x.ref /\ iunlock(y).inum = x.inum
             /\ iunlock(y).valid = x.valid /\ iunlock(y).lock = None /\ iunlock(y).ino = ino2
<1> DEFINE ino2 == [x.ino EXCEPT !.nlink = x.ino.nlink + n]
           y == [x EXCEPT !.ino = ino2]
<1>1. ino2 \in Dinode
  <2>1. x.ino \in Dinode  BY DEF TableEntry
  <2>2. x.ino.nlink + n \in Int  BY <2>1 DEF Dinode
  <2> QED BY <2>1, <2>2 DEF Dinode
<1> HIDE DEF ino2
<1>2. /\ y \in TableEntry /\ y.ref = x.ref /\ y.inum = x.inum /\ y.valid = x.valid /\ y.lock = x.lock
      /\ y.ino = ino2
  BY <1>1 DEF TableEntry
<1> HIDE DEF y
<1>3. /\ iunlock(y) \in TableEntry /\ iunlock(y).ref = x.ref /\ iunlock(y).inum = x.inum
      /\ iunlock(y).valid = x.valid /\ iunlock(y).lock = None /\ iunlock(y).ino = ino2
  BY <1>2 DEF TableEntry, iunlock
<1>4. relink(x, n) = y  BY DEF y, ino2, relink
<1> QED BY <1>2, <1>3, <1>4 DEF ino2

LEMMA UnlinkInodeOK == ASSUME TableInv, NEW p \in Procs, UnlinkInode(p) PROVE TableInv'
<1> DEFINE s == ip[p]
           n == itable[s].ino.nlink - 1
           e == iunlock(relink(itable[s], -1))
           ps == <<s>>
<1>1. /\ pc[p] = "unlink3" /\ itable' = [itable EXCEPT ![s] = e] /\ iupdate(itable', {s})
      /\ Done(p, ps) /\ UNCHANGED <<dirent, bitmap, indirect, cwd, fd, calls, lost>>
  BY DEF UnlinkInode
<1>2. pc[p] \notin Putting /\ LocalTypes /\ DiskTypes  BY <1>1, TableFacts DEF Putting
<1>3. LocalsAt("unlink3", call[p], ip[p], dp[p], old[p], fd[p]) /\ Held(p) = {s}
  BY <1>1, <1>2, AtPlace DEF HeldAt
<1>4. s \in Slot /\ dp[p] = None /\ old[p] = None  BY <1>3, LocalFacts DEF LocalsAt, Walked, Parented
<1>5. /\ itable[s].lock = p /\ itable[s].valid /\ itable[s].ref >= 1 /\ itable[s] \in TableEntry
      /\ itable[s].inum \in Inum /\ itable[s].ino = dinode[itable[s].inum]
      /\ itable[s].ino \in Dinode /\ itable[s].ino.type # "none"
  BY <1>3, <1>4, HeldFacts
<1> HIDE DEF s
<1>6. n \in Int /\ itable[s].ino.nlink + (-1) = n  BY <1>5 DEF Dinode
<1> HIDE DEF n
<1>7. /\ e \in TableEntry /\ e.ref = itable[s].ref /\ e.inum = itable[s].inum /\ e.valid
      /\ e.lock = None /\ e.ino = [dinode[itable[s].inum] EXCEPT !.nlink = n]
  BY <1>5, <1>6, RelinkOK
<1> HIDE DEF e
<1>8. e.ino.type # "none" /\ OneOwner([dinode EXCEPT ![e.inum] = e.ino], Space) /\ Space \in Spaces
  <2> DEFINE i == itable[s].inum
             ino2 == [dinode[i] EXCEPT !.nlink = n]
  <2> HIDE DEF i
  <2>1. i \in Inum /\ dinode[i].type # "none"  BY <1>5 DEF i
  <2>2. ino2.type = dinode[i].type /\ OneOwner([dinode EXCEPT ![i] = ino2], Space)
    BY <1>6, <2>1, LinksOwner
  <2>3. e.inum = i /\ e.ino = ino2  BY <1>7 DEF i
  <2> QED BY <1>2, <2>1, <2>2, <2>3 DEF DiskTypes
<1> DEFINE j == itable'
<1>9. /\ Changed(p, j, {s}) /\ j[s] = e /\ TableOK(j, dinode')
      /\ DiskTypes' /\ FreeInodes' /\ OneOwner(dinode', Space')
  <2>1. Space' = Space /\ dirent' \in [Inum -> Seq(DirEntry)]  BY <1>1, <1>2 DEF Space, DiskTypes
  <2>2. j = [itable EXCEPT ![s] = e] /\ iupdate(j, {s})  BY <1>1
  <2>3. itable[s].lock \in {p, None} /\ e.lock \in {p, None}  BY <1>5, <1>7
  <2> HIDE DEF j
  <2>4. Writes(p, s, e, j, Space)  BY <1>4, <1>5, <1>7, <1>8, <2>1, <2>2, <2>3 DEF Writes
  <2> QED BY <2>4, WrittenOK
<1>10. DiskGood'  BY <1>9 DEF DiskGood
<1>11. ps \in Seq(Slot) /\ Len(ps) <= 2 /\ ps # <<>>  BY <1>4, OneSlot
<1>12. ASSUME NEW k \in Slot
       PROVE  Points(k, ps, None, None, old[p], cwd[p], fd[p]) = Pointers(p, k) + Hit(None, k)
  <2>1. Pointers(p, k) = Hit(cwd[p], k) + Hit(s, k) + Hit(dp[p], k) + Hit(old[p], k) + HitFile(fd[p], k)
    BY <1>2, PointersNil DEF s
  <2>2. Points(k, ps, None, None, old[p], cwd[p], fd[p]) =
          Hit(cwd[p], k) + Hit(None, k) + Hit(None, k) + Hit(old[p], k) + HitFile(fd[p], k) + Hit(s, k)
    BY PointsOne
  <2>3. /\ Hit(None, k) = 0 /\ Hit(s, k) \in {0, 1} /\ Hit(cwd[p], k) \in {0, 1}
        /\ Hit(old[p], k) \in {0, 1} /\ HitFile(fd[p], k) \in {0, 1}
    BY HitFacts
  <2> QED BY <1>4, <2>1, <2>2, <2>3
<1> HIDE DEF ps
<1>13. After(p, "user", ps, None, None, old[p], cwd[p], fd[p])  BY <1>1, <1>2, <1>4, <1>11, OverOK
<1>14. \A k \in Slot : k \in HeldAt(IF ps = <<>> THEN "user" ELSE "put", "user", ps, None, None)
                         <=> IF k \in {s} THEN j[k].lock = p ELSE k \in Held(p)
  BY <1>3, <1>7, <1>9, <1>11, Constants DEF HeldAt
<1>15. Moved(p, j, {s}, None, "user", ps, None, None, old[p], cwd[p], fd[p])
  BY <1>4, <1>9, <1>12, <1>13, <1>14 DEF Moved
<1> QED BY <1>10, <1>15, MovedOK

\* An inode that is taken is written with other links.
Relinks(s, n, j) ==
  /\ itable[s].ref >= 1 /\ CanLock(s)
  /\ j = [itable EXCEPT ![s] = relink(Loaded(s), n)] /\ iupdate(j, {s})
  /\ UNCHANGED <<dirent, bitmap, indirect>>

LEMMA LinksWritten ==
  ASSUME TableInv, NEW p \in Procs, NEW s \in Slot, NEW n \in Int, NEW j, Relinks(s, n, j)
  PROVE  /\ Changed(p, j, {s}) /\ j[s].lock = None /\ TableOK(j, dinode')
         /\ DiskTypes' /\ FreeInodes' /\ OneOwner(dinode', Space')
<1> DEFINE x == Loaded(s)
           e == relink(x, n)
           i == itable[s].inum
           m == dinode[i].nlink + n
           ino2 == [dinode[i] EXCEPT !.nlink = m]
<1>0. /\ itable[s].ref >= 1 /\ CanLock(s)
      /\ j = [itable EXCEPT ![s] = relink(Loaded(s), n)] /\ iupdate(j, {s})
      /\ UNCHANGED <<dirent, bitmap, indirect>>
  BY DEF Relinks
<1>1. /\ x \in TableEntry /\ x.ref = itable[s].ref /\ x.inum = i /\ i \in Inum /\ x.valid = TRUE
      /\ x.lock = None /\ x.ino = dinode[i] /\ x.ino.type # "none" /\ x.ino \in Dinode
      /\ itable[s].lock = None
  <2>1. None \in Procs \cup {None}  OBVIOUS
  <2>2. /\ Take(s, None) \in TableEntry /\ Take(s, None).ref = itable[s].ref
        /\ Take(s, None).inum = i /\ i \in Inum
        /\ Take(s, None).valid = TRUE /\ Take(s, None).lock = None
        /\ Take(s, None).ino = dinode[i]
        /\ Take(s, None).ino \in Dinode /\ Take(s, None).ino.type # "none"
        /\ itable[s].lock = None /\ Loaded(s) = Take(s, None)
    BY <1>0, <2>1, TakeOK
  <2> QED BY <2>2
<1> HIDE DEF x, i
<1>2. m \in Int /\ dinode[i].type # "none"  BY <1>1 DEF Dinode
<1>3. /\ e \in TableEntry /\ e.ref = itable[s].ref /\ e.inum = i /\ e.valid /\ e.lock = None /\ e.ino = ino2
  BY <1>1, RelinkOK
<1> HIDE DEF e, m
<1>4. ino2.type = dinode[i].type /\ OneOwner([dinode EXCEPT ![i] = ino2], Space)  BY <1>1, <1>2, LinksOwner
<1> HIDE DEF ino2
<1>5. OneOwner([dinode EXCEPT ![e.inum] = e.ino], Space) /\ e.ino.type # "none"  BY <1>2, <1>3, <1>4
<1>6. Space' = Space /\ dirent' \in [Inum -> Seq(DirEntry)] /\ Space \in Spaces
  BY <1>0, TableFacts DEF Space, DiskTypes
<1>7. j = [itable EXCEPT ![s] = e]  BY <1>0 DEF e, x
<1>8. e.inum = itable[s].inum /\ itable[s].lock \in {p, None} /\ e.lock \in {p, None}  BY <1>1, <1>3 DEF i
<1>9. Writes(p, s, e, j, Space)  BY <1>0, <1>3, <1>5, <1>6, <1>7, <1>8 DEF Writes
<1>10. /\ Changed(p, j, {s}) /\ j[s] = e /\ TableOK(j, dinode')
       /\ DiskTypes' /\ FreeInodes' /\ OneOwner(dinode', Space')
  BY <1>9, WrittenOK
<1> QED BY <1>3, <1>10

LEMMA LinkBadOK == ASSUME TableInv, NEW p \in Procs, LinkBad(p) PROVE TableInv'
<1> DEFINE s == old[p]
           ps == <<s>>
           j == itable'
<1>1. /\ pc[p] = "linkbad" /\ CanLock(s) /\ j = [itable EXCEPT ![s] = relink(Loaded(s), -1)]
      /\ iupdate(j, {s}) /\ Done(p, ps) /\ UNCHANGED <<dirent, bitmap, indirect, cwd, fd, calls, lost>>
  BY DEF LinkBad
<1>2. pc[p] \notin Putting /\ Held(p) = {} /\ LocalTypes /\ Counted /\ pc[p] \in Free
  BY <1>1, AtFree, TableFacts DEF Free
<1>3. LocalsAt("linkbad", call[p], ip[p], dp[p], old[p], fd[p])  BY <1>1, <1>2, AtPlace
<1>4. s \in Slot /\ ip[p] = None /\ dp[p] = None  BY <1>3, LocalFacts DEF LocalsAt, Walked, Parented
<1>5. itable[s].ref >= 1  BY <1>2, <1>4, UsedBy
<1> HIDE DEF s
<1>6. /\ Changed(p, j, {s}) /\ j[s].lock = None /\ TableOK(j, dinode')
      /\ DiskTypes' /\ FreeInodes' /\ OneOwner(dinode', Space')
  <2>1. -1 \in Int /\ UNCHANGED <<dirent, bitmap, indirect>>  BY <1>1
  <2>2. j = [itable EXCEPT ![s] = relink(Loaded(s), -1)] /\ iupdate(j, {s})  BY <1>1
  <2> HIDE DEF j
  <2>3. Relinks(s, -1, j)  BY <1>1, <1>5, <2>1, <2>2 DEF Relinks
  <2> QED BY <1>4, <2>1, <2>3, LinksWritten
<1>7. DiskGood'  BY <1>6 DEF DiskGood
<1>8. ps \in Seq(Slot) /\ Len(ps) <= 2 /\ ps # <<>>  BY <1>4, OneSlot
<1>9. ASSUME NEW k \in Slot
      PROVE  Points(k, ps, None, None, None, cwd[p], fd[p]) = Pointers(p, k) + Hit(None, k)
  <2>1. Pointers(p, k) = Hit(cwd[p], k) + Hit(ip[p], k) + Hit(dp[p], k) + Hit(s, k) + HitFile(fd[p], k)
    BY <1>2, PointersNil DEF s
  <2>2. Points(k, ps, None, None, None, cwd[p], fd[p]) =
          Hit(cwd[p], k) + Hit(None, k) + Hit(None, k) + Hit(None, k) + HitFile(fd[p], k) + Hit(s, k)
    BY PointsOne
  <2>3. /\ Hit(None, k) = 0 /\ Hit(s, k) \in {0, 1} /\ Hit(cwd[p], k) \in {0, 1}
        /\ HitFile(fd[p], k) \in {0, 1}
    BY HitFacts
  <2> QED BY <1>4, <2>1, <2>2, <2>3
<1> HIDE DEF ps
<1>10. After(p, "user", ps, None, None, None, cwd[p], fd[p])
  <2>1. /\ cwd' = [cwd EXCEPT ![p] = cwd[p]] /\ fd' = [fd EXCEPT ![p] = fd[p]]
        /\ calls' \in 0 .. MaxCalls /\ lost' \subseteq Inum
        /\ cwd[p] \in Slot /\ fd[p] \in OpenFile \cup {None}
    BY <1>1, KeepOK, LocalFacts
  <2> QED BY <1>1, <1>2, <1>8, <2>1, AfterDone
<1>11. \A k \in Slot : k \in HeldAt(IF ps = <<>> THEN "user" ELSE "put", "user", ps, None, None)
                         <=> IF k \in {s} THEN j[k].lock = p ELSE k \in Held(p)
  BY <1>2, <1>6, <1>8, Constants DEF HeldAt
<1>12. Moved(p, j, {s}, None, "user", ps, None, None, None, cwd[p], fd[p])
  BY <1>4, <1>6, <1>9, <1>10, <1>11 DEF Moved
<1> QED BY <1>7, <1>12, MovedOK

\* A block that is written is the file's own.
LEMMA FilewriteOK == ASSUME TableInv, NEW p \in Procs, filewrite(p) PROVE TableInv'
<1> DEFINE s == fd[p].ip
           x == Loaded(s)
           w == writei(x.ino, Space, fd[p].off)
           e == [x EXCEPT !.ino = w.ino]
           f == [fd[p] EXCEPT !.off = IF w.ok THEN @ + 1 ELSE @]
           j == itable'
           i == itable[s].inum
<1>1. /\ pc[p] = "write" /\ CanLock(s) /\ x.ino.type = "file"
      /\ j = [itable EXCEPT ![s] = e]
      /\ bitmap' = w.sp.used /\ indirect' = w.sp.ind
      /\ fd' = [fd EXCEPT ![p] = f]
      /\ iupdate(j, {s}) /\ Done(p, <<>>) /\ UNCHANGED <<dirent, cwd, calls, lost>>
  BY DEF filewrite
<1>2. pc[p] \notin Putting /\ Held(p) = {} /\ LocalTypes /\ DiskTypes /\ Counted
  BY <1>1, AtFree, TableFacts DEF Free
<1>3. LocalsAt("write", call[p], ip[p], dp[p], old[p], fd[p])  BY <1>1, <1>2, AtPlace
<1>4. s \in Slot /\ ip[p] = None /\ dp[p] = None /\ old[p] = None /\ fd[p] # None /\ fd[p] \in OpenFile
      /\ fd[p].off \in Nat
  <2>1. fd[p] # None /\ fd[p] \in OpenFile  BY <1>3, LocalFacts DEF LocalsAt
  <2>2. fd[p].ip \in Slot /\ fd[p].off \in Nat  BY <2>1 DEF OpenFile
  <2> QED BY <1>3, <2>1, <2>2 DEF LocalsAt, Walked, Parented
<1>5. itable[s].ref >= 1  BY <1>2, <1>4, UsedBy
<1>6. f \in OpenFile /\ f # None /\ f.ip = s
  <2>1. f.ip = s /\ f \in OpenFile  BY <1>4 DEF OpenFile
  <2> QED BY <2>1, Constants
<1>7. /\ x \in TableEntry /\ x.ref = itable[s].ref /\ x.inum = i /\ i \in Inum /\ x.valid = TRUE
      /\ x.lock = None /\ x.ino = dinode[i] /\ x.ino.type # "none" /\ x.ino \in Dinode
      /\ itable[s].lock = None
  <2>1. None \in Procs \cup {None}  OBVIOUS
  <2> HIDE DEF s
  <2>2. /\ Take(s, None) \in TableEntry /\ Take(s, None).ref = itable[s].ref
        /\ Take(s, None).inum = i /\ i \in Inum
        /\ Take(s, None).valid = TRUE /\ Take(s, None).lock = None
        /\ Take(s, None).ino = dinode[i]
        /\ Take(s, None).ino \in Dinode /\ Take(s, None).ino.type # "none"
        /\ itable[s].lock = None /\ Loaded(s) = Take(s, None)
    BY <1>1, <1>4, <1>5, <2>1, TakeOK
  <2> QED BY <2>2
<1> HIDE DEF f
<1>8. /\ BlocksOf(x.ino, Space.ind) \subseteq Space.used /\ OneOwner(dinode, Space)
      /\ dinode \in [Inum -> Dinode] /\ Space \in Spaces
  <2>1. dinode[i].type # "none"  BY <1>7
  <2> HIDE DEF i, x
  <2> QED BY <1>7, <2>1, OwnUsed
<1> HIDE DEF x, i
<1>9. w.ok \in BOOLEAN /\ w.sp \in Spaces /\ Kind(x.ino, w.ino) /\ Grows(x.ino, Space, w.ino, w.sp)
  BY <1>4, <1>7, <1>8, WriteiOK
<1> HIDE DEF w
<1> DEFINE ino2 == w.ino
<1>10. ino2 \in Dinode /\ ino2.type = x.ino.type  BY <1>9 DEF Kind
<1> HIDE DEF ino2
<1>11. /\ e \in TableEntry /\ e.ref = x.ref /\ e.inum = i /\ e.valid /\ e.lock = None /\ e.ino = ino2
  BY <1>7, <1>10 DEF TableEntry, ino2
<1> HIDE DEF e
<1>12. OneOwner([dinode EXCEPT ![e.inum] = e.ino], w.sp) /\ e.ino.type # "none"
  <2>1. ino2.type # "none" /\ dinode[i].type # "none"  BY <1>7, <1>10
  <2>2. Grows(dinode[i], Space, ino2, w.sp)  BY <1>7, <1>9 DEF ino2
  <2>3. OneOwner([dinode EXCEPT ![i] = ino2], w.sp)  BY <1>7, <1>8, <1>9, <1>10, <2>1, <2>2, GrowsOwner
  <2> QED BY <1>11, <2>1, <2>3
<1>13. Space' = w.sp /\ dirent' \in [Inum -> Seq(DirEntry)]
  <2>1. w.sp = [used |-> w.sp.used, ind |-> w.sp.ind]  BY <1>9 DEF Spaces
  <2> QED BY <1>1, <1>2, <2>1 DEF Space, DiskTypes
<1>14. e.inum = itable[s].inum /\ itable[s].lock \in {p, None} /\ e.lock \in {p, None} /\ e.ref = itable[s].ref
  BY <1>7, <1>11 DEF i
<1>15. /\ Changed(p, j, {s}) /\ j[s] = e /\ TableOK(j, dinode')
       /\ DiskTypes' /\ FreeInodes' /\ OneOwner(dinode', Space')
  <2>1. j = [itable EXCEPT ![s] = e] /\ iupdate(j, {s})  BY <1>1
  <2> HIDE DEF j
  <2>2. Writes(p, s, e, j, w.sp)  BY <1>4, <1>5, <1>9, <1>11, <1>12, <1>13, <1>14, <2>1 DEF Writes
  <2> QED BY <2>2, WrittenOK
<1>16. DiskGood'  BY <1>15 DEF DiskGood
<1>17. After(p, "user", <<>>, None, None, None, cwd[p], f)
  <2>1. /\ cwd' = [cwd EXCEPT ![p] = cwd[p]] /\ calls' \in 0 .. MaxCalls /\ lost' \subseteq Inum
        /\ cwd[p] \in Slot
    BY <1>1, KeepOK, LocalFacts
  <2>2. <<>> \in Seq(Slot) /\ Len(<<>>) <= 2  BY EmptySeq
  <2> QED BY <1>1, <1>2, <1>6, <2>1, <2>2, AfterDone
<1>18. ASSUME NEW k \in Slot
       PROVE  Points(k, <<>>, None, None, None, cwd[p], f) = Pointers(p, k) + Hit(None, k)
  <2>1. Pointers(p, k) = Hit(cwd[p], k) + Hit(ip[p], k) + Hit(dp[p], k) + Hit(old[p], k) + HitFile(fd[p], k)
    BY <1>2, PointersNil
  <2>2. Points(k, <<>>, None, None, None, cwd[p], f) =
          Hit(cwd[p], k) + Hit(None, k) + Hit(None, k) + Hit(None, k) + HitFile(f, k)
    BY PointsNil
  <2>3. HitFile(f, k) = Hit(s, k) /\ HitFile(fd[p], k) = Hit(s, k)  BY <1>4, <1>6, HitFacts
  <2>4. Hit(None, k) = 0 /\ Hit(s, k) \in {0, 1} /\ Hit(cwd[p], k) \in {0, 1}  BY HitFacts
  <2> QED BY <1>4, <2>1, <2>2, <2>3, <2>4
<1>19. \A k \in Slot : k \in HeldAt(IF <<>> = <<>> THEN "user" ELSE "put", "user", <<>>, None, None)
                         <=> IF k \in {s} THEN j[k].lock = p ELSE k \in Held(p)
  BY <1>2, <1>11, <1>15, Constants DEF HeldAt
<1>20. Moved(p, j, {s}, None, "user", <<>>, None, None, None, cwd[p], f)
  BY <1>4, <1>15, <1>17, <1>18, <1>19 DEF Moved
<1> QED BY <1>16, <1>20, MovedOK


\* An entry that p has locked is given back.
LEMMA UnlockOK ==
  ASSUME TableInv, NEW p \in Procs, NEW s \in Slot, s \in Held(p)
  PROVE  LET j == [itable EXCEPT ![s] = iunlock(itable[s])]
         IN  TableOK(j, dinode) /\ Changed(p, j, {s}) /\ j[s].lock = None
<1> DEFINE e == iunlock(itable[s])
           j == [itable EXCEPT ![s] = e]
<1>1. /\ itable[s].lock = p /\ itable[s].valid /\ itable[s].ref >= 1 /\ itable[s] \in TableEntry
      /\ itable[s].inum \in Inum /\ itable[s].ino = dinode[itable[s].inum]
      /\ itable[s].ino \in Dinode /\ itable[s].ino.type # "none"
  BY HeldFacts
<1>2. TableOK(itable, dinode) /\ itable \in [Slot -> TableEntry]  BY TableFacts
<1>3. /\ e \in TableEntry /\ e.ref = itable[s].ref /\ e.inum = itable[s].inum /\ e.valid = itable[s].valid
      /\ e.ino = itable[s].ino /\ e.lock = None
  BY <1>1 DEF iunlock, TableEntry
<1> HIDE DEF e
<1>4. e.ino = dinode[e.inum] /\ e.ino.type # "none"  BY <1>1, <1>3
<1>5. TableOK(j, dinode)  BY <1>1, <1>2, <1>3, <1>4, EntrySameOK
<1>6. /\ j \in [Slot -> TableEntry] /\ j[s] = e /\ \A k \in Slot : k # s => j[k] = itable[k]
  BY <1>2, <1>3
<1> HIDE DEF j
<1>7. Changed(p, j, {s})  BY <1>1, <1>3, <1>6 DEF Changed
<1> QED BY <1>3, <1>5, <1>6, <1>7 DEF e, j

\* There is no file left for it.
LEMMA OpenedNotOK ==
  ASSUME TableInv, NEW p \in Procs, pc[p] = "opened", Done(p, <<ip[p]>>),
         itable' = [itable EXCEPT ![ip[p]] = iunlock(@)], UNCHANGED <<diskVars, fd, cwd, calls, lost>>
  PROVE  TableInv'
<1> DEFINE s == ip[p]
           ps == <<s>>
           j == itable'
<1>2. pc[p] \notin Putting /\ LocalTypes /\ DiskTypes  BY TableFacts DEF Putting
<1>3. LocalsAt("opened", call[p], ip[p], dp[p], old[p], fd[p]) /\ Held(p) = {s}
  BY <1>2, AtPlace DEF HeldAt
<1>4. s \in Slot /\ dp[p] = None /\ old[p] = None  BY <1>3, LocalFacts DEF LocalsAt, Walked, Parented
<1>5. Done(p, ps) /\ j = [itable EXCEPT ![s] = iunlock(itable[s])]  OBVIOUS
<1> HIDE DEF j, s
<1>6. TableOK(j, dinode) /\ Changed(p, j, {s}) /\ j[s].lock = None
  <2>1. s \in Held(p)  BY <1>3
  <2> QED BY <1>4, <1>5, <2>1, UnlockOK
<1>7. DiskGood'
  <2>1. DiskTypes' /\ FreeInodes' /\ OneOwner(dinode', Space') /\ dinode' = dinode  BY DiskSame
  <2> QED BY <1>6, <2>1 DEF DiskGood, j
<1>8. ps \in Seq(Slot) /\ Len(ps) <= 2 /\ ps # <<>>  BY <1>4, OneSlot
<1>9. ASSUME NEW k \in Slot
      PROVE  Points(k, ps, None, None, old[p], cwd[p], fd[p]) = Pointers(p, k) + Hit(None, k)
  <2>1. Pointers(p, k) = Hit(cwd[p], k) + Hit(s, k) + Hit(dp[p], k) + Hit(old[p], k) + HitFile(fd[p], k)
    BY <1>2, PointersNil DEF s
  <2>2. Points(k, ps, None, None, old[p], cwd[p], fd[p]) =
          Hit(cwd[p], k) + Hit(None, k) + Hit(None, k) + Hit(old[p], k) + HitFile(fd[p], k) + Hit(s, k)
    BY PointsOne
  <2>3. /\ Hit(None, k) = 0 /\ Hit(s, k) \in {0, 1} /\ Hit(cwd[p], k) \in {0, 1}
        /\ Hit(old[p], k) \in {0, 1} /\ HitFile(fd[p], k) \in {0, 1}
    BY HitFacts
  <2> QED BY <1>4, <2>1, <2>2, <2>3
<1> HIDE DEF ps
<1>10. After(p, "user", ps, None, None, old[p], cwd[p], fd[p])  BY <1>2, <1>4, <1>5, <1>8, OverOK
<1>11. \A k \in Slot : k \in HeldAt(IF ps = <<>> THEN "user" ELSE "put", "user", ps, None, None)
                         <=> IF k \in {s} THEN j[k].lock = p ELSE k \in Held(p)
  BY <1>3, <1>6, <1>8, Constants DEF HeldAt
<1>12. Moved(p, j, {s}, None, "user", ps, None, None, old[p], cwd[p], fd[p])
  BY <1>4, <1>6, <1>9, <1>10, <1>11 DEF Moved, j
<1> QED BY <1>7, <1>12, MovedOK


\* The entry of a file that is opened: what it has is the same, or is given back.
OpenEntry(s, cut) ==
  IF cut THEN iunlock([itable[s] EXCEPT !.ino = itrunc(itable[s].ino, Space).ino]) ELSE iunlock(itable[s])

Opens(s, cut, sp, j) ==
  /\ sp = IF cut THEN [Space EXCEPT !.used = Space.used \ BlocksOf(itable[s].ino, Space.ind)] ELSE Space
  /\ Space' = sp /\ UNCHANGED dirent
  /\ j = [itable EXCEPT ![s] = OpenEntry(s, cut)] /\ iupdate(j, {s})

LEMMA OpenEntryOK ==
  ASSUME TableInv, NEW p \in Procs, NEW s \in Slot, s \in Held(p), NEW cut \in BOOLEAN, NEW sp, NEW j,
         Opens(s, cut, sp, j)
  PROVE  /\ Changed(p, j, {s}) /\ j[s].lock = None /\ TableOK(j, dinode')
         /\ DiskTypes' /\ FreeInodes' /\ OneOwner(dinode', Space')
<1> DEFINE x == itable[s]
           i == x.inum
           e == OpenEntry(s, cut)
           ino2 == IF cut THEN [x.ino EXCEPT !.size = 0, !.addrs = NoInode.addrs] ELSE x.ino
<1>0. /\ sp = IF cut THEN [Space EXCEPT !.used = Space.used \ BlocksOf(itable[s].ino, Space.ind)] ELSE Space
      /\ Space' = sp /\ UNCHANGED dirent
      /\ j = [itable EXCEPT ![s] = OpenEntry(s, cut)] /\ iupdate(j, {s})
  BY DEF Opens
<1>1. /\ x.lock = p /\ x.valid /\ x.ref >= 1 /\ x \in TableEntry
      /\ i \in Inum /\ x.ino = dinode[i] /\ x.ino \in Dinode /\ x.ino.type # "none"
  BY HeldFacts
<1>2. TableOK(itable, dinode) /\ DiskTypes /\ OneOwner(dinode, Space) /\ Space \in Spaces
      /\ dinode \in [Inum -> Dinode]
  BY TableFacts DEF DiskTypes, TableInv, BlocksOwned
<1> HIDE DEF x, i
<1>3. ino2 \in Dinode /\ ino2.type = x.ino.type /\ (cut => ino2.addrs = NoInode.addrs)  BY <1>1, EmptiedOK
<1>4. e = iunlock([x EXCEPT !.ino = ino2])
  <2>1. CASE cut
    <3>1. itrunc(x.ino, Space).ino = ino2  BY <2>1 DEF itrunc, NoInode
    <3> HIDE DEF ino2
    <3> QED BY <2>1, <3>1 DEF OpenEntry, x
  <2>2. CASE ~cut
    <3>1. ino2 = x.ino /\ [x EXCEPT !.ino = ino2] = x  BY <1>1, <2>2 DEF TableEntry
    <3> HIDE DEF ino2
    <3> QED BY <2>2, <3>1 DEF OpenEntry, x
  <2> QED BY <2>1, <2>2
<1> HIDE DEF e
<1>5. OneOwner([dinode EXCEPT ![i] = ino2], sp) /\ sp \in Spaces
  <2>1. CASE cut
    <3>1. OneOwner([dinode EXCEPT ![i] = ino2], [Space EXCEPT !.used = @ \ BlocksOf(dinode[i], Space.ind)])
      <4>1. ino2 \in Dinode /\ ino2.addrs = NoInode.addrs /\ dinode[i].type # "none"  BY <1>1, <1>3, <2>1
      <4> HIDE DEF ino2
      <4> QED BY <1>1, <1>2, <4>1, FreesOwner
    <3>2. sp = [Space EXCEPT !.used = Space.used \ BlocksOf(dinode[i], Space.ind)]  BY <1>0, <1>1, <2>1 DEF x
    <3>3. sp \in Spaces  BY <1>2, <3>2 DEF Spaces
    <3> QED BY <3>1, <3>2, <3>3
  <2>2. CASE ~cut
    <3>1. [dinode EXCEPT ![i] = ino2] = dinode  BY <1>1, <1>2, <2>2
    <3> QED BY <1>0, <1>2, <2>2, <3>1
  <2> QED BY <2>1, <2>2
<1> HIDE DEF ino2
<1>6. /\ e \in TableEntry /\ e.ref = x.ref /\ e.inum = i /\ e.valid /\ e.lock = None /\ e.ino = ino2
  BY <1>1, <1>3, <1>4 DEF TableEntry, iunlock, i
<1>7. /\ OneOwner([dinode EXCEPT ![e.inum] = e.ino], sp) /\ e.ino.type # "none"
      /\ e.ref = itable[s].ref /\ e.inum = itable[s].inum
  BY <1>1, <1>3, <1>5, <1>6 DEF x, i
<1>8. dirent' \in [Inum -> Seq(DirEntry)]  BY <1>0, <1>2 DEF DiskTypes
<1>9. s \in Slot /\ itable[s].ref >= 1 /\ itable[s].lock \in {p, None} /\ e.lock \in {p, None}
  BY <1>1, <1>6 DEF x
<1>10. j = [itable EXCEPT ![s] = e] /\ iupdate(j, {s})  BY <1>0 DEF e
<1>11. Writes(p, s, e, j, sp)  BY <1>0, <1>5, <1>6, <1>7, <1>8, <1>9, <1>10 DEF Writes
<1>12. /\ Changed(p, j, {s}) /\ j[s] = e /\ TableOK(j, dinode')
       /\ DiskTypes' /\ FreeInodes' /\ OneOwner(dinode', Space')
  BY <1>11, WrittenOK
<1> QED BY <1>6, <1>12

LEMMA OpenedOK == ASSUME TableInv, NEW p \in Procs, Opened(p) PROVE TableInv'
<1> DEFINE s == ip[p]
           cut == call[p].trunc /\ itable[s].ino.type = "file"
           sp == itrunc(itable[s].ino, Space).sp
           j == itable'
           f == [ip |-> s, off |-> 0]
<1>1. pc[p] = "opened" /\ UNCHANGED <<cwd, calls, lost>>  BY DEF Opened
<1>2. pc[p] \notin Putting /\ LocalTypes /\ DiskTypes  BY <1>1, TableFacts DEF Putting
<1>3. LocalsAt("opened", call[p], ip[p], dp[p], old[p], fd[p]) /\ Held(p) = {s}
  BY <1>1, <1>2, AtPlace DEF HeldAt
<1>4. s \in Slot /\ dp[p] = None /\ old[p] = None /\ fd[p] = None
  BY <1>3, LocalFacts DEF LocalsAt, Walked, Parented
<1>5. CASE Done(p, <<s>>) /\ itable' = [itable EXCEPT ![s] = iunlock(@)] /\ UNCHANGED <<diskVars, fd>>
  BY <1>1, <1>5, OpenedNotOK
<1>6. CASE /\ Done(p, <<>>)
           /\ fd' = [fd EXCEPT ![p] = [ip |-> s, off |-> 0]]
           /\ itable' = [itable EXCEPT ![s] =
                iunlock(IF cut THEN [@ EXCEPT !.ino = itrunc(itable[s].ino, Space).ino] ELSE @)]
           /\ iupdate(itable', {s})
           /\ bitmap' = IF cut THEN sp.used ELSE bitmap
           /\ UNCHANGED <<dirent, indirect>>
  <2>1. f \in OpenFile /\ f # None /\ f.ip = s
    <3>1. f.ip = s /\ f \in OpenFile  BY <1>4 DEF OpenFile
    <3> QED BY <3>1, Constants
  <2>2. cut \in BOOLEAN
    <3>1. call[p] \in Calls  BY <1>3 DEF LocalsAt
    <3>2. call[p].trunc \in BOOLEAN  BY <3>1, CallsAssumption
    <3> QED BY <3>2
  <2>3. fd' = [fd EXCEPT ![p] = f] /\ Done(p, <<>>) /\ iupdate(j, {s})  BY <1>6
  <2>4. j = [itable EXCEPT ![s] = OpenEntry(s, cut)]  BY <1>6 DEF OpenEntry
  <2>5. Space' = IF cut THEN [Space EXCEPT !.used = Space.used \ BlocksOf(itable[s].ino, Space.ind)] ELSE Space
    BY <1>6 DEF Space, itrunc
  <2>6. UNCHANGED dirent  BY <1>6
  <2> DEFINE sp2 == Space'
  <2> HIDE DEF j, cut, sp2, f
  <2>7. Opens(s, cut, sp2, j)  BY <2>3, <2>4, <2>5, <2>6 DEF Opens, sp2
  <2> HIDE DEF s
  <2>8. /\ Changed(p, j, {s}) /\ j[s].lock = None /\ TableOK(j, dinode')
        /\ DiskTypes' /\ FreeInodes' /\ OneOwner(dinode', Space')
    <3>1. s \in Held(p)  BY <1>3
    <3> QED BY <1>4, <2>2, <2>7, <3>1, OpenEntryOK
  <2>9. DiskGood'  BY <2>8 DEF DiskGood, j
  <2>10. After(p, "user", <<>>, None, None, None, cwd[p], f)
    <3>1. /\ cwd' = [cwd EXCEPT ![p] = cwd[p]] /\ calls' \in 0 .. MaxCalls /\ lost' \subseteq Inum
          /\ cwd[p] \in Slot
      BY <1>1, KeepOK, LocalFacts
    <3>2. <<>> \in Seq(Slot) /\ Len(<<>>) <= 2  BY EmptySeq
    <3> QED BY <1>2, <2>1, <2>3, <3>1, <3>2, AfterDone
  <2>11. ASSUME NEW k \in Slot
         PROVE  Points(k, <<>>, None, None, None, cwd[p], f) = Pointers(p, k) + Hit(None, k)
    <3>1. Pointers(p, k) = Hit(cwd[p], k) + Hit(s, k) + Hit(dp[p], k) + Hit(old[p], k) + HitFile(fd[p], k)
      BY <1>2, PointersNil DEF s
    <3>2. Points(k, <<>>, None, None, None, cwd[p], f) =
            Hit(cwd[p], k) + Hit(None, k) + Hit(None, k) + Hit(None, k) + HitFile(f, k)
      BY PointsNil
    <3>3. HitFile(f, k) = Hit(s, k) /\ HitFile(fd[p], k) = 0  BY <1>4, <2>1, HitFacts
    <3>4. Hit(None, k) = 0 /\ Hit(s, k) \in {0, 1} /\ Hit(cwd[p], k) \in {0, 1}  BY HitFacts
    <3> QED BY <1>4, <3>1, <3>2, <3>3, <3>4
  <2>12. \A k \in Slot : k \in HeldAt(IF <<>> = <<>> THEN "user" ELSE "put", "user", <<>>, None, None)
                           <=> IF k \in {s} THEN j[k].lock = p ELSE k \in Held(p)
    BY <1>3, <2>8, Constants DEF HeldAt
  <2>13. Moved(p, j, {s}, None, "user", <<>>, None, None, None, cwd[p], f)
    BY <1>4, <2>8, <2>10, <2>11, <2>12 DEF Moved, j
  <2> QED BY <2>9, <2>13, MovedOK
<1> QED BY <1>5, <1>6 DEF Opened


\* One entry is taken and another one, which p has, is changed.
Pair(p, s, l, d, e, D2, j) ==
  /\ s \in Slot /\ d \in Slot /\ s # d /\ itable[s].ref >= 1 /\ CanLock(s) /\ l \in {p, None}
  /\ d \in Held(p)
  /\ e \in TableEntry /\ e.ref = itable[d].ref /\ e.inum = itable[d].inum /\ e.valid /\ e.lock \in {p, None}
  /\ e.ino = D2[e.inum] /\ e.ino.type # "none"
  /\ \A i \in Inum : i # e.inum => D2[i] = dinode[i]
  /\ j = [Taken(s, l) EXCEPT ![d] = e]

LEMMA PairOK ==
  ASSUME TableInv, NEW p \in Procs, NEW s, NEW l, NEW d, NEW e, NEW D2, NEW j, Pair(p, s, l, d, e, D2, j)
  PROVE  /\ TableOK(j, D2) /\ Changed(p, j, {s, d}) /\ j[s] = Take(s, l) /\ j[d] = e
         /\ j[s].lock = l
<1> DEFINE T == Taken(s, l)
<1>0. /\ s \in Slot /\ d \in Slot /\ s # d /\ itable[s].ref >= 1 /\ CanLock(s) /\ l \in {p, None}
      /\ d \in Held(p)
      /\ e \in TableEntry /\ e.ref = itable[d].ref /\ e.inum = itable[d].inum /\ e.valid /\ e.lock \in {p, None}
      /\ e.ino = D2[e.inum] /\ e.ino.type # "none"
      /\ \A i \in Inum : i # e.inum => D2[i] = dinode[i]
      /\ j = [T EXCEPT ![d] = e]
  BY DEF Pair
<1>1. /\ itable[d].lock = p /\ itable[d].valid /\ itable[d].ref >= 1  BY <1>0, HeldFacts
<1>2. /\ TableOK(T, dinode) /\ Changed(p, T, {s})
      /\ T[s] = Take(s, l) /\ \A k \in Slot : k # s => T[k] = itable[k]
  BY <1>0, TakenOK
<1>3. T[s].lock = l
  <2>1. l \in Procs \cup {None}  BY <1>0
  <2>2. Take(s, l).lock = l  BY <1>0, <2>1, TakeOK
  <2> QED BY <1>2, <2>2
<1>4. itable[d].ref \in Nat /\ itable[d].ref > 0
  <2>1. itable \in [Slot -> TableEntry]  BY TableFacts
  <2>2. itable[d].ref \in Nat  BY <1>0, <2>1, EntryTypes
  <2> QED BY <1>1, <2>2
<1> HIDE DEF T
<1>5. T[d] = itable[d] /\ T \in [Slot -> TableEntry]  BY <1>0, <1>2 DEF Changed
<1>6. TableOK([T EXCEPT ![d] = e], D2)
  <2>1. T[d].ref > 0 /\ e.ref = T[d].ref /\ e.inum = T[d].inum  BY <1>0, <1>4, <1>5
  <2>2. /\ e.valid => e.ino = D2[e.inum] /\ e.ino.type # "none"
        /\ d \in Slot /\ e \in TableEntry /\ \A i \in Inum : i # e.inum => D2[i] = dinode[i]
    BY <1>0
  <2> QED BY <1>2, <2>1, <2>2, EntryPutOK
<1>7. j = [T EXCEPT ![d] = e]  BY <1>0
<1>8. j \in [Slot -> TableEntry] /\ j[d] = e /\ \A k \in Slot : k # d => j[k] = T[k]
  BY <1>0, <1>5, <1>7
<1>9. /\ \A k \in Slot \ {s, d} : j[k] = itable[k]
      /\ j[s].ref = itable[s].ref /\ j[s].valid /\ {itable[s].lock, j[s].lock} \subseteq {p, None}
  BY <1>0, <1>2, <1>8 DEF Changed
<1>10. j[d].ref = itable[d].ref /\ j[d].valid /\ {itable[d].lock, j[d].lock} \subseteq {p, None}
  BY <1>0, <1>1, <1>8
<1>11. Changed(p, j, {s, d})  BY <1>0, <1>1, <1>8, <1>9, <1>10 DEF Changed
<1> QED BY <1>0, <1>2, <1>3, <1>6, <1>7, <1>8, <1>11

\* Two entries are given back.
LEMMA UnlinkNotOK ==
  ASSUME TableInv, NEW p \in Procs, pc[p] = "unlink2", CanLock(ip[p]), Done(p, <<ip[p], dp[p]>>),
         itable' = [itable EXCEPT ![ip[p]] = iunlock(ilock(p, ip[p])), ![dp[p]] = iunlock(@)],
         UNCHANGED <<diskVars, cwd, fd, calls, lost>>
  PROVE  TableInv'
<1> DEFINE s == ip[p]
           d == dp[p]
           ps == <<s, d>>
           j == itable'
           e == iunlock(itable[d])
<1>1. pc[p] \notin Putting /\ LocalTypes /\ Counted  BY TableFacts DEF Putting
<1>2. LocalsAt("unlink2", call[p], ip[p], dp[p], old[p], fd[p]) /\ Held(p) = {d}
  BY <1>1, AtPlace DEF HeldAt
<1>3. s \in Slot /\ d \in Slot /\ old[p] = None  BY <1>2, LocalFacts DEF LocalsAt, Walked, Parented
<1>4. itable[s].ref >= 1  BY <1>1, <1>3, UsedBy
<1>5. /\ itable[d].lock = p /\ itable[d].valid /\ itable[d].ref >= 1 /\ itable[d] \in TableEntry
      /\ itable[d].inum \in Inum /\ itable[d].ino = dinode[itable[d].inum]
      /\ itable[d].ino \in Dinode /\ itable[d].ino.type # "none"
  <2>1. d \in Held(p)  BY <1>2
  <2> QED BY <1>3, <2>1, HeldFacts
<1>6. s # d  BY <1>5, Constants DEF CanLock
<1>7. /\ e \in TableEntry /\ e.ref = itable[d].ref /\ e.inum = itable[d].inum /\ e.valid = itable[d].valid
      /\ e.ino = itable[d].ino /\ e.lock = None
  BY <1>5 DEF iunlock, TableEntry
<1>8. j = [Taken(s, None) EXCEPT ![d] = e]
  <2>1. [itable EXCEPT ![s] = iunlock(ilock(p, s))] = Taken(s, None)  BY <1>3, <1>4, LockedOK
  <2>2. Taken(s, None)[d] = itable[d]  BY <1>3, <1>6 DEF Taken
  <2> DEFINE x == iunlock(ilock(p, s))
  <2>3. j = [itable EXCEPT ![s] = x, ![d] = iunlock(@)] /\ s # d /\ itable \in [Slot -> TableEntry]
    BY <1>6, TableFacts
  <2> HIDE DEF s, d, j, x
  <2>4. j = [[itable EXCEPT ![s] = x] EXCEPT ![d] = iunlock(itable[d])]  BY <1>3, <2>3
  <2> QED BY <2>1, <2>4 DEF x
<1>9. Done(p, ps)  OBVIOUS
<1>10. CanLock(s) /\ ip[p] = s /\ dp[p] = d  OBVIOUS
<1> HIDE DEF e, j, s, d
<1>11. Pair(p, s, None, d, e, dinode, j)  BY <1>2, <1>3, <1>4, <1>5, <1>6, <1>7, <1>8, <1>10 DEF Pair
<1>12. TableOK(j, dinode) /\ Changed(p, j, {s, d}) /\ j[d].lock = None /\ j[s].lock = None
  <2>1. TableOK(j, dinode) /\ Changed(p, j, {s, d}) /\ j[d] = e /\ j[s].lock = None  BY <1>11, PairOK
  <2> QED BY <1>7, <2>1
<1>13. DiskGood'
  <2>1. DiskTypes' /\ FreeInodes' /\ OneOwner(dinode', Space') /\ dinode' = dinode  BY DiskSame
  <2> QED BY <1>12, <2>1 DEF DiskGood, j
<1>14. ps \in Seq(Slot) /\ Len(ps) <= 2 /\ ps # <<>>  BY <1>3, TwoSlots
<1>15. ASSUME NEW k \in Slot
       PROVE  Points(k, ps, None, None, old[p], cwd[p], fd[p]) = Pointers(p, k) + Hit(None, k)
  <2>1. Pointers(p, k) = Hit(cwd[p], k) + Hit(s, k) + Hit(d, k) + Hit(old[p], k) + HitFile(fd[p], k)
    BY <1>1, PointersNil DEF s, d
  <2>2. Points(k, ps, None, None, old[p], cwd[p], fd[p]) =
          Hit(cwd[p], k) + Hit(None, k) + Hit(None, k) + Hit(old[p], k) + HitFile(fd[p], k) + Hit(s, k) + Hit(d, k)
    BY PointsTwo
  <2>3. /\ Hit(None, k) = 0 /\ Hit(s, k) \in {0, 1} /\ Hit(d, k) \in {0, 1} /\ Hit(cwd[p], k) \in {0, 1}
        /\ Hit(old[p], k) \in {0, 1} /\ HitFile(fd[p], k) \in {0, 1}
    BY HitFacts
  <2> QED BY <2>1, <2>2, <2>3
<1> HIDE DEF ps
<1>16. After(p, "user", ps, None, None, old[p], cwd[p], fd[p])  BY <1>1, <1>3, <1>9, <1>14, OverOK
<1>17. \A k \in Slot : k \in HeldAt(IF ps = <<>> THEN "user" ELSE "put", "user", ps, None, None)
                         <=> IF k \in {s, d} THEN j[k].lock = p ELSE k \in Held(p)
  BY <1>2, <1>12, <1>14, Constants DEF HeldAt
<1>18. Moved(p, j, {s, d}, None, "user", ps, None, None, old[p], cwd[p], fd[p])
  BY <1>3, <1>12, <1>15, <1>16, <1>17 DEF Moved, j
<1> QED BY <1>13, <1>18, MovedOK


\* An entry of a directory is cleared.
Cleared(i, k, e) == dirent' = [dirent EXCEPT ![i][k] = e]

LEMMA ClearedOK ==
  ASSUME dirent \in [Inum -> Seq(DirEntry)], NEW i \in Inum, NEW k, NEW e \in DirEntry, Cleared(i, k, e)
  PROVE  dirent' \in [Inum -> Seq(DirEntry)]
<1> DEFINE q == dirent[i]
           r == [q EXCEPT ![k] = e]
<1>1. q \in Seq(DirEntry)  OBVIOUS
<1> HIDE DEF q
<1>2. r \in Seq(DirEntry)
  <2>1. CASE k \in 1 .. Len(q)  BY <1>1, <2>1
  <2>2. CASE k \notin 1 .. Len(q)
    <3>1. r = q  BY <1>1, <2>2
    <3> QED BY <1>1, <3>1
  <2> QED BY <2>1, <2>2
<1>3. dirent' = [dirent EXCEPT ![i] = r]  BY DEF q, Cleared
<1> HIDE DEF r
<1> QED BY <1>2, <1>3

LEMMA UnlinkedOK ==
  ASSUME TableInv, NEW p \in Procs, pc[p] = "unlink2", CanLock(ip[p]), NEW k, NEW m \in Int,
         dirent' = [dirent EXCEPT ![itable[dp[p]].inum][k] = Entry(None, None)],
         itable' = [itable EXCEPT ![ip[p]] = ilock(p, ip[p]), ![dp[p]] = iunlock(relink(@, m))],
         iupdate(itable', {dp[p]}), dp' = [dp EXCEPT ![p] = None], Put(p, <<dp[p]>>, "unlink3"),
         UNCHANGED <<call, path, ip, name, old, bitmap, indirect, cwd, fd, calls, lost>>
  PROVE  TableInv'
<1> DEFINE s == ip[p]
           d == dp[p]
           ps == <<d>>
           j == itable'
           i == itable[d].inum
           n == itable[d].ino.nlink + m
           ino2 == [dinode[i] EXCEPT !.nlink = n]
           e == iunlock(relink(itable[d], m))
           D2 == dinode'
<1>1. pc[p] \notin Putting /\ LocalTypes /\ Counted /\ DiskTypes  BY TableFacts DEF Putting
<1>2. LocalsAt("unlink2", call[p], ip[p], dp[p], old[p], fd[p]) /\ Held(p) = {d}
  BY <1>1, AtPlace DEF HeldAt
<1>3. s \in Slot /\ d \in Slot /\ old[p] = None  BY <1>2, LocalFacts DEF LocalsAt, Walked, Parented
<1>4. itable[s].ref >= 1  BY <1>1, <1>3, UsedBy
<1>5. /\ itable[d].lock = p /\ itable[d].valid /\ itable[d].ref >= 1 /\ itable[d] \in TableEntry
      /\ i \in Inum /\ itable[d].ino = dinode[i]
      /\ itable[d].ino \in Dinode /\ itable[d].ino.type # "none"
  <2>1. d \in Held(p)  BY <1>2
  <2> QED BY <1>3, <2>1, HeldFacts
<1>6. s # d  BY <1>5, Constants DEF CanLock
<1>7. n \in Int  BY <1>5 DEF Dinode
<1>8. /\ e \in TableEntry /\ e.ref = itable[d].ref /\ e.inum = i /\ e.valid = itable[d].valid
      /\ e.ino = [itable[d].ino EXCEPT !.nlink = n] /\ e.lock = None
  <2> HIDE DEF d
  <2> QED BY <1>5, RelinkOK
<1>9. e.ino = ino2  BY <1>5, <1>8
<1>10. j = [Taken(s, p) EXCEPT ![d] = e]
  <2>1. [itable EXCEPT ![s] = ilock(p, s)] = Taken(s, p)  BY <1>3, <1>4, LockedOK
  <2> DEFINE x == ilock(p, s)
             U(y) == iunlock(relink(y, m))
  <2>2. j = [itable EXCEPT ![s] = x, ![d] = U(@)] /\ s # d /\ itable \in [Slot -> TableEntry]
    BY <1>6, TableFacts
  <2>3. e = U(itable[d])  OBVIOUS
  <2> HIDE DEF s, d, j, x, U, e
  <2>4. j = [[itable EXCEPT ![s] = x] EXCEPT ![d] = U(itable[d])]  BY <1>3, <2>2
  <2> QED BY <2>1, <2>3, <2>4 DEF x
<1>11. CanLock(s) /\ ip[p] = s /\ dp[p] = d /\ iupdate(j, {d}) /\ Put(p, ps, "unlink3")  OBVIOUS
<1> HIDE DEF e, n
<1>12. ino2.type = dinode[i].type /\ OneOwner([dinode EXCEPT ![i] = ino2], Space) /\ ino2 \in Dinode
       /\ ino2.addrs = dinode[i].addrs
  <2>1. dinode[i].type # "none" /\ dinode[i] \in Dinode  BY <1>5
  <2> HIDE DEF i
  <2> QED BY <1>5, <1>7, <2>1, LinksOwner DEF Dinode
<1> HIDE DEF ino2
<1>13. D2 = [dinode EXCEPT ![i] = ino2]
  <2>1. j[d] = e
    <3>1. Taken(s, p) \in [Slot -> TableEntry]  BY <1>3, <1>4, TakenOK DEF Changed
    <3> QED BY <1>3, <1>10, <3>1
  <2>2. j[d].inum = i /\ j[d].ino = ino2  BY <1>8, <1>9, <2>1
  <2> HIDE DEF i, d, j
  <2>3. j[d].inum \in Inum /\ dinode \in [Inum -> Dinode]  BY <1>1, <1>5, <2>2 DEF DiskTypes
  <2>4. D2 = [dinode EXCEPT ![j[d].inum] = j[d].ino]  BY <1>11, <2>3, IupdateOne
  <2> QED BY <2>2, <2>4
<1>14. dirent' \in [Inum -> Seq(DirEntry)]
  <2>1. Entry(None, None) \in DirEntry  BY DEF Entry, DirEntry, Name
  <2>2. dirent \in [Inum -> Seq(DirEntry)]  BY <1>1 DEF DiskTypes
  <2>3. Cleared(i, k, Entry(None, None))  BY DEF Cleared
  <2> HIDE DEF i
  <2> DEFINE z == Entry(None, None)
  <2> HIDE DEF z
  <2> QED BY <1>5, <2>1, <2>2, <2>3, ClearedOK DEF z
<1>15. Space' = Space  BY DEF Space
<1> HIDE DEF j, s, d, i, D2
<1>16. D2 \in [Inum -> Dinode] /\ D2[i] = ino2 /\ \A y \in Inum : y # i => D2[y] = dinode[y]
  BY <1>1, <1>5, <1>12, <1>13 DEF DiskTypes
<1>17. Pair(p, s, p, d, e, D2, j)
  <2>1. d \in Held(p) /\ p \in {p, None} /\ e.lock \in {p, None}  BY <1>2, <1>8
  <2>2. e.inum = itable[d].inum /\ e.valid  BY <1>5, <1>8 DEF i
  <2>3. e.ino = D2[e.inum] /\ e.ino.type # "none" /\ \A y \in Inum : y # e.inum => D2[y] = dinode[y]
    BY <1>5, <1>8, <1>9, <1>12, <1>16
  <2> QED BY <1>3, <1>4, <1>6, <1>8, <1>10, <1>11, <2>1, <2>2, <2>3 DEF Pair
<1>18. TableOK(j, D2) /\ Changed(p, j, {s, d}) /\ j[d].lock = None /\ j[s].lock = p
  <2>1. TableOK(j, D2) /\ Changed(p, j, {s, d}) /\ j[d] = e /\ j[s].lock = p  BY <1>17, PairOK
  <2> QED BY <1>8, <2>1
<1>19. DiskGood'
  <2>1. DiskTypes'  BY <1>1, <1>14, <1>15, <1>16 DEF DiskTypes, D2
  <2>2. FreeInodes'
    <3>1. FreeInodes  BY DEF TableInv
    <3> QED BY <1>5, <1>12, <1>16, <3>1 DEF FreeInodes, D2
  <2>3. OneOwner(D2, Space')  BY <1>12, <1>13, <1>15
  <2> QED BY <1>18, <2>1, <2>2, <2>3 DEF DiskGood, j, D2
<1>20. ps \in Seq(Slot) /\ Len(ps) <= 2 /\ ps # <<>>  BY <1>3, OneSlot
<1>21. ASSUME NEW y \in Slot
       PROVE  Points(y, ps, s, None, old[p], cwd[p], fd[p]) = Pointers(p, y) + Hit(None, y)
  <2>1. Pointers(p, y) = Hit(cwd[p], y) + Hit(s, y) + Hit(d, y) + Hit(old[p], y) + HitFile(fd[p], y)
    BY <1>1, PointersNil DEF s, d
  <2>2. Points(y, ps, s, None, old[p], cwd[p], fd[p]) =
          Hit(cwd[p], y) + Hit(s, y) + Hit(None, y) + Hit(old[p], y) + HitFile(fd[p], y) + Hit(d, y)
    BY PointsOne
  <2>3. /\ Hit(None, y) = 0 /\ Hit(s, y) \in {0, 1} /\ Hit(d, y) \in {0, 1} /\ Hit(cwd[p], y) \in {0, 1}
        /\ Hit(old[p], y) \in {0, 1} /\ HitFile(fd[p], y) \in {0, 1}
    BY HitFacts
  <2> QED BY <2>1, <2>2, <2>3
<1> HIDE DEF ps
<1>22. After(p, "unlink3", ps, s, None, old[p], cwd[p], fd[p])
  <2>1. /\ cwd' = [cwd EXCEPT ![p] = cwd[p]] /\ fd' = [fd EXCEPT ![p] = fd[p]]
        /\ call' = [call EXCEPT ![p] = call[p]] /\ ip' = [ip EXCEPT ![p] = s]
        /\ old' = [old EXCEPT ![p] = old[p]] /\ dp' = [dp EXCEPT ![p] = None] /\ OtherTypes'
    BY KeepOK DEF OtherTypes, s
  <2>2. /\ cwd[p] \in Slot /\ fd[p] \in OpenFile \cup {None} /\ call[p] \in Calls \cup {None}
        /\ s \in Slot \cup {None} /\ None \in Slot \cup {None} /\ old[p] \in Slot \cup {None}
    BY <1>3, LocalFacts
  <2>3. "unlink3" \in Returns  BY DEF Returns
  <2>4. LocalsAt("unlink3", call[p], s, None, old[p], fd[p])
    BY <1>2, <1>3, <1>11, Constants DEF LocalsAt, Walked, Parented
  <2> QED BY <1>1, <1>11, <1>20, <2>1, <2>2, <2>3, <2>4, AfterPut
<1>23. \A y \in Slot : y \in HeldAt(IF ps = <<>> THEN "unlink3" ELSE "put", "unlink3", ps, s, None)
                         <=> IF y \in {s, d} THEN j[y].lock = p ELSE y \in Held(p)
  BY <1>2, <1>6, <1>18, <1>20, Constants DEF HeldAt
<1>24. Moved(p, j, {s, d}, None, "unlink3", ps, s, None, old[p], cwd[p], fd[p])
  BY <1>3, <1>18, <1>21, <1>22, <1>23 DEF Moved, j
<1> QED BY <1>19, <1>24, MovedOK

LEMMA UnlinkEntryOK == ASSUME TableInv, NEW p \in Procs, UnlinkEntry(p) PROVE TableInv'
<1> DEFINE s == ip[p]
           d == dp[p]
           k == Lowest(Found(dirent[itable[d].inum], name[p]))
           dir == ilock(p, s).ino.type = "dir"
           m == IF dir THEN -1 ELSE 0
<1>1. pc[p] = "unlink2" /\ CanLock(s) /\ UNCHANGED <<bitmap, indirect, cwd, fd, calls, lost>>
  BY DEF UnlinkEntry
<1>2. CASE /\ itable' = [itable EXCEPT ![s] = iunlock(ilock(p, s)), ![d] = iunlock(@)]
           /\ Done(p, <<s, d>>) /\ UNCHANGED <<dirent, dinode>>
  <2>1. UNCHANGED <<diskVars, cwd, fd, calls, lost>>  BY <1>1, <1>2 DEF diskVars
  <2> QED BY <1>1, <1>2, <2>1, UnlinkNotOK
<1>3. CASE /\ dirent' = [dirent EXCEPT ![itable[d].inum][k] = Entry(None, None)]
           /\ itable' = [itable EXCEPT ![s] = ilock(p, s), ![d] = iunlock(relink(@, m))]
           /\ iupdate(itable', {d}) /\ dp' = [dp EXCEPT ![p] = None] /\ Put(p, <<d>>, "unlink3")
           /\ UNCHANGED <<call, path, ip, name, old>>
  <2>1. m \in Int  OBVIOUS
  <2> HIDE DEF m, k
  <2>2. UNCHANGED <<call, path, ip, name, old, bitmap, indirect, cwd, fd, calls, lost>>  BY <1>1, <1>3
  <2> QED BY <1>1, <1>3, <2>1, <2>2, UnlinkedOK
<1> QED BY <1>2, <1>3 DEF UnlinkEntry


\* The entry of a link is made, or not: the directory is written.
LEMMA LinkEntryOK == ASSUME TableInv, NEW p \in Procs, LinkEntry(p) PROVE TableInv'
<1> DEFINE s == dp[p]
           o == old[p]
           x == Loaded(s)
           i == itable[s].inum
           r == dirlink(Dir(dirent[x.inum], x.ino, Space), name[p], itable[o].inum)
           e == [x EXCEPT !.ino = r.ino]
           j == itable'
           bad == <<s>>
           two == <<s, o>>
<1>1. /\ pc[p] = "link2" /\ CanLock(s)
      /\ j = [itable EXCEPT ![s] = e]
      /\ dirent' = [dirent EXCEPT ![x.inum] = r.d]
      /\ bitmap' = r.sp.used /\ indirect' = r.sp.ind
      /\ iupdate(j, {s}) /\ UNCHANGED <<cwd, fd, calls, lost>>
      /\ Done(p, two) \/ Fails(p, bad)
  BY DEF LinkEntry
<1>2. pc[p] \notin Putting /\ Held(p) = {} /\ LocalTypes /\ DiskTypes /\ Counted
  BY <1>1, AtFree, TableFacts DEF Free
<1>3. LocalsAt("link2", call[p], ip[p], dp[p], old[p], fd[p])  BY <1>1, <1>2, AtPlace
<1>4. s \in Slot /\ ip[p] = None /\ o \in Slot
  BY <1>3, LocalFacts DEF LocalsAt, Walked, Parented
<1>5. itable[s].ref >= 1 /\ itable[o].ref >= 1
  <2>1. itable[s].ref >= 1  BY <1>2, <1>4, UsedBy
  <2>2. itable[o].ref >= 1  BY <1>2, <1>4, UsedBy
  <2> QED BY <2>1, <2>2
<1>6. itable[o].inum \in Inum
  <2>1. TableOK(itable, dinode) /\ itable \in [Slot -> TableEntry]  BY TableFacts
  <2>2. itable[o].ref \in Nat /\ itable[o].inum \in Inum \cup {None}  BY <1>4, <2>1, EntryTypes
  <2> HIDE DEF o
  <2> QED BY <1>4, <1>5, <2>1, <2>2 DEF TableOK
<1>7. /\ x \in TableEntry /\ x.ref = itable[s].ref /\ x.inum = i /\ i \in Inum /\ x.valid = TRUE
      /\ x.lock = None /\ x.ino = dinode[i] /\ x.ino.type # "none" /\ x.ino \in Dinode
      /\ itable[s].lock = None
  <2>1. None \in Procs \cup {None}  OBVIOUS
  <2> HIDE DEF s
  <2>2. /\ Take(s, None) \in TableEntry /\ Take(s, None).ref = itable[s].ref
        /\ Take(s, None).inum = i /\ i \in Inum
        /\ Take(s, None).valid = TRUE /\ Take(s, None).lock = None
        /\ Take(s, None).ino = dinode[i]
        /\ Take(s, None).ino \in Dinode /\ Take(s, None).ino.type # "none"
        /\ itable[s].lock = None /\ Loaded(s) = Take(s, None)
    BY <1>1, <1>4, <1>5, <2>1, TakeOK
  <2> QED BY <2>2
<1>8. /\ BlocksOf(x.ino, Space.ind) \subseteq Space.used /\ OneOwner(dinode, Space)
      /\ dinode \in [Inum -> Dinode] /\ Space \in Spaces
  <2>1. dinode[i].type # "none"  BY <1>7
  <2> HIDE DEF i, x
  <2> QED BY <1>7, <2>1, OwnUsed
<1> HIDE DEF x, i
<1>9. r.sp \in Spaces /\ Kind(x.ino, r.ino) /\ Grows(x.ino, Space, r.ino, r.sp) /\ r.d \in Seq(DirEntry)
  <2> DEFINE dir == Dir(dirent[x.inum], x.ino, Space)
  <2>1. dir \in Dirs /\ Own1(dir) /\ dir.ino = x.ino /\ dir.sp = Space
    BY <1>2, <1>7, <1>8 DEF Dir, Dirs, Own1, DiskTypes
  <2>2. name[p] \in Name  BY LocalFacts DEF Name
  <2> HIDE DEF dir
  <2>3. r \in Dirs /\ Kind(dir.ino, r.ino) /\ Grows(dir.ino, dir.sp, r.ino, r.sp)
    <3>1. r = dirlink(dir, name[p], itable[o].inum)  BY DEF dir
    <3> DEFINE n == itable[o].inum
    <3> HIDE DEF r, n
    <3> QED BY <1>6, <2>1, <2>2, <3>1, DirlinkOK DEF n
  <2> HIDE DEF r
  <2> QED BY <2>1, <2>3 DEF Dirs
<1> HIDE DEF r
<1> DEFINE ino2 == r.ino
<1>10. ino2 \in Dinode /\ ino2.type = x.ino.type  BY <1>9 DEF Kind
<1> HIDE DEF ino2
<1>11. /\ e \in TableEntry /\ e.ref = x.ref /\ e.inum = i /\ e.valid /\ e.lock = None /\ e.ino = ino2
  BY <1>7, <1>10 DEF TableEntry, ino2
<1> HIDE DEF e
<1>12. OneOwner([dinode EXCEPT ![e.inum] = e.ino], r.sp) /\ e.ino.type # "none"
  <2>1. ino2.type # "none" /\ dinode[i].type # "none"  BY <1>7, <1>10
  <2>2. Grows(dinode[i], Space, ino2, r.sp)  BY <1>7, <1>9 DEF ino2
  <2>3. OneOwner([dinode EXCEPT ![i] = ino2], r.sp)  BY <1>7, <1>8, <1>9, <1>10, <2>1, <2>2, GrowsOwner
  <2> QED BY <1>11, <2>1, <2>3
<1>13. Space' = r.sp /\ dirent' \in [Inum -> Seq(DirEntry)]
  <2>1. r.sp = [used |-> r.sp.used, ind |-> r.sp.ind]  BY <1>9 DEF Spaces
  <2> QED BY <1>1, <1>2, <1>9, <2>1 DEF Space, DiskTypes
<1>14. e.inum = itable[s].inum /\ itable[s].lock \in {p, None} /\ e.lock \in {p, None} /\ e.ref = itable[s].ref
  BY <1>7, <1>11 DEF i
<1>15. /\ Changed(p, j, {s}) /\ j[s] = e /\ TableOK(j, dinode')
       /\ DiskTypes' /\ FreeInodes' /\ OneOwner(dinode', Space')
  <2>1. j = [itable EXCEPT ![s] = e] /\ iupdate(j, {s})  BY <1>1
  <2> HIDE DEF j
  <2>2. Writes(p, s, e, j, r.sp)  BY <1>4, <1>5, <1>9, <1>11, <1>12, <1>13, <1>14, <2>1 DEF Writes
  <2> QED BY <2>2, WrittenOK
<1>16. DiskGood'  BY <1>15 DEF DiskGood
<1>17. ip[p] = None /\ dp[p] = s /\ old[p] = o  BY <1>4
<1> HIDE DEF s, o
<1>18. ASSUME NEW k \in Slot
       PROVE  /\ Points(k, two, None, None, None, cwd[p], fd[p]) = Pointers(p, k) + Hit(None, k)
              /\ Points(k, bad, None, None, o, cwd[p], fd[p]) = Pointers(p, k) + Hit(None, k)
  <2>1. Pointers(p, k) = Hit(cwd[p], k) + Hit(None, k) + Hit(s, k) + Hit(o, k) + HitFile(fd[p], k)
    BY <1>2, <1>17, PointersNil
  <2>2. Points(k, two, None, None, None, cwd[p], fd[p]) =
          Hit(cwd[p], k) + Hit(None, k) + Hit(None, k) + Hit(None, k) + HitFile(fd[p], k) + Hit(s, k) + Hit(o, k)
    BY PointsTwo
  <2>3. Points(k, bad, None, None, o, cwd[p], fd[p]) =
          Hit(cwd[p], k) + Hit(None, k) + Hit(None, k) + Hit(o, k) + HitFile(fd[p], k) + Hit(s, k)
    BY PointsOne
  <2>4. /\ Hit(None, k) = 0 /\ Hit(s, k) \in {0, 1} /\ Hit(o, k) \in {0, 1} /\ Hit(cwd[p], k) \in {0, 1}
        /\ HitFile(fd[p], k) \in {0, 1}
    BY HitFacts
  <2> QED BY <2>1, <2>2, <2>3, <2>4
<1>19. /\ bad \in Seq(Slot) /\ bad # <<>> /\ Len(bad) <= 2  BY <1>4, OneSlot
<1>20. /\ two \in Seq(Slot) /\ two # <<>> /\ Len(two) <= 2  BY <1>4, TwoSlots
<1> HIDE DEF bad, two
<1>21. CASE Done(p, two)
  <2>1. After(p, "user", two, None, None, None, cwd[p], fd[p])
    <3>1. /\ cwd' = [cwd EXCEPT ![p] = cwd[p]] /\ fd' = [fd EXCEPT ![p] = fd[p]]
          /\ calls' \in 0 .. MaxCalls /\ lost' \subseteq Inum
          /\ cwd[p] \in Slot /\ fd[p] \in OpenFile \cup {None}
      BY <1>1, KeepOK, LocalFacts
    <3> QED BY <1>2, <1>20, <1>21, <3>1, AfterDone
  <2>2. \A k \in Slot : k \in HeldAt(IF two = <<>> THEN "user" ELSE "put", "user", two, None, None)
                          <=> IF k \in {s} THEN j[k].lock = p ELSE k \in Held(p)
    BY <1>2, <1>11, <1>15, <1>20, Constants DEF HeldAt
  <2> HIDE DEF j
  <2>3. Moved(p, j, {s}, None, "user", two, None, None, None, cwd[p], fd[p])
    BY <1>4, <1>15, <1>18, <2>1, <2>2 DEF Moved, j
  <2> QED BY <1>16, <2>3, MovedOK
<1>22. CASE Fails(p, bad)
  <2>1. PICK l \in {"user", "linkbad"} : After(p, l, bad, None, None, o, cwd[p], fd[p])
    <3>1. pc[p] \in {"walk", "link2"}  BY <1>1
    <3> QED BY <1>1, <1>17, <1>19, <1>22, <3>1, FailsOK
  <2>2. \A k \in Slot : k \in HeldAt(IF bad = <<>> THEN l ELSE "put", l, bad, None, None)
                          <=> IF k \in {s} THEN j[k].lock = p ELSE k \in Held(p)
    BY <1>2, <1>11, <1>15, <1>19, <2>1, Constants DEF HeldAt
  <2> HIDE DEF j
  <2>3. Moved(p, j, {s}, None, l, bad, None, None, o, cwd[p], fd[p])
    BY <1>4, <1>15, <1>18, <2>1, <2>2 DEF Moved, j
  <2> QED BY <1>16, <2>3, MovedOK
<1> QED BY <1>1, <1>21, <1>22


\* The inode that a path starts from gets a reference.
LEMMA RootOK ==
  ASSUME NEW it, NEW D, TableOK(it, D), NEW p \in Procs, cwd[p] \in Slot, it[cwd[p]].ref > 0, NEW w
  PROVE  /\ Root(p, it, w).s \in Slot /\ TableOK(Root(p, it, w).it, D)
         /\ Bumped(it, Root(p, it, w).it, Root(p, it, w).s)
<1>1. CASE w.abs
  <2> DEFINE i == ROOTINO
  <2>1. i \in Inum  BY Constants
  <2>2. Root(p, it, w) = iget(it, i)  BY <1>1 DEF Root
  <2> HIDE DEF i
  <2>3. TableOK(iget(it, i).it, D) /\ Bumped(it, iget(it, i).it, iget(it, i).s)  BY <2>1, IgetOK
  <2>4. iget(it, i).s \in Slot  BY <2>3 DEF Bumped
  <2> QED BY <2>2, <2>3, <2>4
<1>2. CASE ~w.abs
  <2> DEFINE s == cwd[p]
  <2>1. Root(p, it, w).s = s /\ Root(p, it, w).it = idup(it, s)  BY <1>2 DEF Root
  <2>2. s \in Slot /\ it[s].ref > 0  OBVIOUS
  <2> HIDE DEF s
  <2>3. TableOK(idup(it, s), D) /\ Bumped(it, idup(it, s), s)  BY <2>2, IdupOK
  <2> QED BY <2>1, <2>2, <2>3
<1> QED BY <1>1, <1>2

LEMMA LinkCountOK == ASSUME TableInv, NEW p \in Procs, LinkCount(p) PROVE TableInv'
<1> DEFINE s == ip[p]
           e == Loaded(s)
           j == [itable EXCEPT ![s] = relink(e, 1)]
           r == Root(p, j, call[p].new)
<1>1. /\ pc[p] = "link" /\ CanLock(s) /\ UNCHANGED <<dirent, bitmap, indirect, cwd, fd, calls, lost>>
  BY DEF LinkCount
<1>2. pc[p] \notin Putting /\ Held(p) = {} /\ LocalTypes /\ Counted /\ pc[p] \in Free
  BY <1>1, AtFree, TableFacts DEF Free
<1>3. LocalsAt("link", call[p], ip[p], dp[p], old[p], fd[p])  BY <1>1, <1>2, AtPlace
<1>4. s \in Slot /\ dp[p] = None /\ old[p] = None  BY <1>3, LocalFacts DEF LocalsAt, Walked, Parented
<1>5. itable[s].ref >= 1  BY <1>2, <1>4, UsedBy
<1>6. CASE itable' = [itable EXCEPT ![s] = e] /\ Done(p, <<s>>) /\ UNCHANGED dinode
  <2>1. itable' = Taken(s, None)  BY <1>1, <1>4, <1>5, <1>6, LockedOK
  <2>2. UNCHANGED <<diskVars, cwd, fd, calls, lost>>  BY <1>1, <1>6 DEF diskVars
  <2> QED BY <1>1, <1>2, <1>4, <1>6, <2>1, <2>2, LookDoneOK
<1>7. CASE /\ iupdate(j, {s}) /\ itable' = r.it /\ old' = [old EXCEPT ![p] = s]
           /\ ip' = [ip EXCEPT ![p] = r.s] /\ path' = [path EXCEPT ![p] = call[p].new.names]
           /\ Go(p, "walk") /\ UNCHANGED <<call, dp, name>>
  <2>1. ip[p] = s /\ CanLock(s) /\ iupdate(j, {s})  BY <1>1, <1>7
  <2>2. Relinks(s, 1, j)  BY <1>1, <1>5, <1>7 DEF Relinks
  <2> DEFINE t == r.s
             w == call[p].new
  <2>3. call[p] \in Calls /\ call[p].k = "link"  BY <1>3 DEF LocalsAt
  <2>4. path' \in [Procs -> Seq(STRING)]
    <3>1. w.names \in Seq(STRING)  BY <2>3, CallsAssumption DEF Path
    <3> QED BY <1>2, <1>7, <3>1 DEF LocalTypes
  <2> HIDE DEF s, j, w
  <2>5. /\ Changed(p, j, {s}) /\ j[s].lock = None /\ TableOK(j, dinode')
        /\ DiskTypes' /\ FreeInodes' /\ OneOwner(dinode', Space')
    <3>1. 1 \in Int  OBVIOUS
    <3> QED BY <1>4, <2>2, <3>1, LinksWritten
  <2>6. t \in Slot /\ TableOK(itable', dinode') /\ Bumped(j, itable', t)
    <3>1. cwd[p] \in Slot  BY LocalFacts
    <3>2. j[cwd[p]].ref > 0
      <4>1. itable[cwd[p]].ref >= 1 /\ itable[cwd[p]].ref \in Nat  BY <1>2, <3>1, UsedBy
      <4>2. j[cwd[p]].ref = itable[cwd[p]].ref  BY <2>5, <3>1 DEF Changed
      <4> QED BY <4>1, <4>2
    <3> DEFINE D2 == dinode'
    <3> HIDE DEF D2
    <3>3. r.s \in Slot /\ TableOK(r.it, D2) /\ Bumped(j, r.it, r.s)
      BY <2>5, <3>1, <3>2, RootOK DEF D2, w
    <3> QED BY <1>7, <3>3 DEF D2
  <2>7. ip' = [ip EXCEPT ![p] = t] /\ old' = [old EXCEPT ![p] = s]  BY <1>7
  <2> HIDE DEF t
  <2>8. DiskGood'  BY <2>5, <2>6 DEF DiskGood
  <2>9. LocalsAt("walk", call[p], t, dp[p], s, fd[p])
    BY <1>3, <1>4, <2>3, <2>6, Constants DEF LocalsAt, Walked, Parented
  <2>10. After(p, "walk", <<>>, t, dp[p], s, cwd[p], fd[p])
    <3>1. /\ cwd' = [cwd EXCEPT ![p] = cwd[p]] /\ fd' = [fd EXCEPT ![p] = fd[p]]
          /\ call' = [call EXCEPT ![p] = call[p]] /\ dp' = [dp EXCEPT ![p] = dp[p]]
          /\ OtherTypes'
      BY <1>1, <1>7, <2>4, KeepOK DEF OtherTypes
    <3>2. /\ cwd[p] \in Slot /\ fd[p] \in OpenFile \cup {None} /\ call[p] \in Calls \cup {None}
          /\ dp[p] \in Slot \cup {None} /\ s \in Slot \cup {None} /\ t \in Slot \cup {None}
      BY <1>4, <2>6, LocalFacts
    <3>3. "walk" \in Labels \ Putting /\ Go(p, "walk")  BY <1>7 DEF Labels, Putting
    <3> QED BY <1>2, <2>7, <2>9, <3>1, <3>2, <3>3, AfterGo
  <2>11. ASSUME NEW k \in Slot
         PROVE  Points(k, <<>>, t, dp[p], s, cwd[p], fd[p]) = Pointers(p, k) + Hit(t, k)
    <3>1. Pointers(p, k) = Hit(cwd[p], k) + Hit(s, k) + Hit(dp[p], k) + Hit(old[p], k) + HitFile(fd[p], k)
      BY <1>2, <2>1, PointersNil
    <3>2. Points(k, <<>>, t, dp[p], s, cwd[p], fd[p]) =
            Hit(cwd[p], k) + Hit(t, k) + Hit(dp[p], k) + Hit(s, k) + HitFile(fd[p], k)
      BY PointsNil
    <3>3. /\ Hit(None, k) = 0 /\ Hit(t, k) \in {0, 1} /\ Hit(cwd[p], k) \in {0, 1} /\ Hit(s, k) \in {0, 1}
          /\ Hit(dp[p], k) \in {0, 1} /\ HitFile(fd[p], k) \in {0, 1}
      BY HitFacts
    <3> QED BY <1>4, <3>1, <3>2, <3>3
  <2>12. \A k \in Slot : k \in HeldAt(IF <<>> = <<>> THEN "walk" ELSE "put", "walk", <<>>, t, dp[p])
                          <=> IF k \in {s} THEN j[k].lock = p ELSE k \in Held(p)
    BY <1>2, <2>5, Constants DEF HeldAt
  <2>13. Moved(p, j, {s}, t, "walk", <<>>, t, dp[p], s, cwd[p], fd[p])
    BY <1>4, <2>5, <2>6, <2>10, <2>11, <2>12 DEF Moved
  <2> QED BY <2>8, <2>13, MovedOK
<1> QED BY <1>6, <1>7 DEF LinkCount


-----------------------------------------------------------------------------
(* Steps that make an inode.                                                *)

LEMMA CreateAllocOK == ASSUME TableInv, NEW p \in Procs, CreateAlloc(p) PROVE TableInv'
<1> DEFINE s == dp[p]
           it == [itable EXCEPT ![s] = ilock(p, s)]
           unused == {i \in Inum : dinode[i].type = "none"}
           n == Lowest(unused)
           g == iget(it, n)
           new == [NoInode EXCEPT !.type = IF call[p].k = "mkdir" THEN "dir" ELSE "file"]
           T == Taken(s, p)
           D2 == dinode'
           t == g.s
<1>1. pc[p] = "create" /\ CanLock(s) /\ UNCHANGED <<dirent, bitmap, indirect, cwd, fd, calls, lost>>
  BY DEF CreateAlloc
<1>2. pc[p] \notin Putting /\ Held(p) = {} /\ LocalTypes /\ DiskTypes /\ Counted /\ pc[p] \in Free
  BY <1>1, AtFree, TableFacts DEF Free
<1>3. LocalsAt("create", call[p], ip[p], dp[p], old[p], fd[p])  BY <1>1, <1>2, AtPlace
<1>4. s \in Slot /\ ip[p] = None /\ old[p] = None  BY <1>3, LocalFacts DEF LocalsAt, Walked, Parented
<1>5. itable[s].ref >= 1  BY <1>2, <1>4, UsedBy
<1>6. it = T  BY <1>1, <1>4, <1>5, LockedOK
<1>7. CASE itable' = [it EXCEPT ![s] = iunlock(@)] /\ Done(p, <<s>>) /\ UNCHANGED dinode
  <2>1. itable' = Taken(s, None)  BY <1>1, <1>4, <1>5, <1>7, LockedOK
  <2>2. UNCHANGED <<diskVars, cwd, fd, calls, lost>>  BY <1>1, <1>7 DEF diskVars
  <2> QED BY <1>1, <1>2, <1>4, <1>7, <2>1, <2>2, LookDoneOK
<1>8. CASE /\ unused # {} /\ dinode' = [dinode EXCEPT ![n] = new]
           /\ itable' = g.it /\ ip' = [ip EXCEPT ![p] = g.s] /\ Go(p, "create2")
           /\ UNCHANGED <<call, path, dp, name, old>>
  <2>1. n \in Inum /\ dinode[n].type = "none"
    <3>1. unused \subseteq Nat  BY Constants
    <3> HIDE DEF unused
    <3>2. n \in unused  BY <1>8, <3>1, LowestIn
    <3> QED BY <3>2 DEF unused
  <2> HIDE DEF n
  <2>2. new \in Dinode /\ new.addrs = NoInode.addrs /\ new.type # "none"  BY DEF NoInode, Dinode, Types
  <2>3. D2 = [dinode EXCEPT ![n] = new] /\ ip' = [ip EXCEPT ![p] = t] /\ dp[p] = s /\ itable' = g.it
    BY <1>8
  <2> HIDE DEF new
  <2>4. dinode \in [Inum -> Dinode] /\ Space \in Spaces /\ OneOwner(dinode, Space) /\ FreeInodes
    BY <1>2 DEF DiskTypes, TableInv, BlocksOwned
  <2>5. /\ D2 \in [Inum -> Dinode] /\ D2[n] = new /\ \A k \in Inum : k # n => D2[k] = dinode[k]
    BY <2>1, <2>2, <2>3, <2>4
  <2>6. OneOwner(D2, Space)  BY <2>1, <2>2, <2>3, <2>4, NewOwner
  <2>7. TableOK(T, dinode) /\ Changed(p, T, {s}) /\ T[s] = Take(s, p) /\ T[s].lock = p
    <3>1. TableOK(T, dinode) /\ Changed(p, T, {s}) /\ T[s] = Take(s, p)  BY <1>1, <1>4, <1>5, TakenOK
    <3>2. p \in Procs \cup {None}  OBVIOUS
    <3> HIDE DEF T
    <3>3. Take(s, p).lock = p  BY <1>1, <1>4, <1>5, <3>2, TakeOK
    <3> QED BY <3>1, <3>3
  <2> HIDE DEF D2, T, it
  <2>8. TableOK(T, D2)  BY <2>1, <2>5, <2>7, AllocatedOK
  <2>9. t \in Slot /\ TableOK(itable', D2) /\ Bumped(T, itable', t)
    <3>1. TableOK(iget(T, n).it, D2) /\ Bumped(T, iget(T, n).it, iget(T, n).s)  BY <2>1, <2>8, IgetOK
    <3>2. g = iget(T, n)  BY <1>6
    <3> HIDE DEF g
    <3> QED BY <2>3, <3>1, <3>2 DEF Bumped
  <2> HIDE DEF t, s
  <2>10. DiskGood'
    <3>1. Space' = Space  BY <1>1 DEF Space
    <3>2. DiskTypes'  BY <1>1, <1>2, <2>5, <3>1 DEF DiskTypes, D2
    <3>3. FreeInodes'  BY <2>2, <2>4, <2>5 DEF FreeInodes, D2
    <3> QED BY <2>6, <2>9, <3>1, <3>2, <3>3 DEF DiskGood, D2
  <2>11. LocalsAt("create2", call[p], t, dp[p], old[p], fd[p])
    BY <1>3, <1>4, <2>9, Constants DEF LocalsAt, Walked, Parented
  <2>12. After(p, "create2", <<>>, t, dp[p], old[p], cwd[p], fd[p])
    <3>1. /\ cwd' = [cwd EXCEPT ![p] = cwd[p]] /\ fd' = [fd EXCEPT ![p] = fd[p]]
          /\ call' = [call EXCEPT ![p] = call[p]] /\ dp' = [dp EXCEPT ![p] = dp[p]]
          /\ old' = [old EXCEPT ![p] = old[p]] /\ OtherTypes'
      BY <1>1, <1>8, KeepOK DEF OtherTypes
    <3>2. /\ cwd[p] \in Slot /\ fd[p] \in OpenFile \cup {None} /\ call[p] \in Calls \cup {None}
          /\ dp[p] \in Slot \cup {None} /\ old[p] \in Slot \cup {None}
      BY LocalFacts
    <3>3. "create2" \in Labels \ Putting /\ t \in Slot \cup {None} /\ Go(p, "create2")
      BY <1>8, <2>9 DEF Labels, Putting
    <3> QED BY <1>2, <2>3, <2>11, <3>1, <3>2, <3>3, AfterGo
  <2>13. ASSUME NEW k \in Slot
         PROVE  Points(k, <<>>, t, dp[p], old[p], cwd[p], fd[p]) = Pointers(p, k) + Hit(t, k)
    <3>1. Pointers(p, k) = Hit(cwd[p], k) + Hit(ip[p], k) + Hit(dp[p], k) + Hit(old[p], k) + HitFile(fd[p], k)
      BY <1>2, PointersNil
    <3>2. Points(k, <<>>, t, dp[p], old[p], cwd[p], fd[p]) =
            Hit(cwd[p], k) + Hit(t, k) + Hit(dp[p], k) + Hit(old[p], k) + HitFile(fd[p], k)
      BY PointsNil
    <3>3. /\ Hit(None, k) = 0 /\ Hit(t, k) \in {0, 1} /\ Hit(cwd[p], k) \in {0, 1}
          /\ Hit(dp[p], k) \in {0, 1} /\ Hit(old[p], k) \in {0, 1} /\ HitFile(fd[p], k) \in {0, 1}
      BY HitFacts
    <3> QED BY <1>4, <3>1, <3>2, <3>3
  <2>14. \A k \in Slot : k \in HeldAt(IF <<>> = <<>> THEN "create2" ELSE "put", "create2", <<>>, t, dp[p])
                           <=> IF k \in {s} THEN T[k].lock = p ELSE k \in Held(p)
    BY <1>2, <2>3, <2>7 DEF HeldAt
  <2>15. Moved(p, T, {s}, t, "create2", <<>>, t, dp[p], old[p], cwd[p], fd[p])
    BY <1>4, <2>7, <2>9, <2>12, <2>13, <2>14 DEF Moved
  <2> QED BY <2>10, <2>15, MovedOK
<1> QED BY <1>7, <1>8 DEF CreateAlloc


\* Two entries, and their inodes, are written; it is the table they are written from.
Makes(p, s, e, d, f, j, it, sp) ==
  /\ s \in Slot /\ d \in Slot /\ s # d /\ itable[s].inum # itable[d].inum
  /\ itable[s].ref >= 1 /\ itable[s].lock \in {p, None} /\ itable[d].ref >= 1 /\ itable[d].lock \in {p, None}
  /\ e \in TableEntry /\ e.ref = itable[s].ref /\ e.inum = itable[s].inum /\ e.valid
  /\ e.lock \in {p, None} /\ e.ino.type # "none"
  /\ f \in TableEntry /\ f.ref = itable[d].ref /\ f.inum = itable[d].inum /\ f.valid
  /\ f.lock \in {p, None} /\ f.ino.type # "none"
  /\ j \in [Slot -> TableEntry] /\ j[s] = e /\ j[d] = f /\ \A k \in Slot \ {s, d} : j[k] = itable[k]
  /\ iupdate(it, {s, d}) /\ it[s].inum = e.inum /\ it[s].ino = e.ino /\ it[d].inum = f.inum /\ it[d].ino = f.ino
  /\ dirent' \in [Inum -> Seq(DirEntry)]
  /\ sp \in Spaces /\ Space' = sp
  /\ OneOwner([dinode EXCEPT ![e.inum] = e.ino, ![f.inum] = f.ino], sp)

LEMMA MakesOK ==
  ASSUME TableInv, NEW p \in Procs, NEW s, NEW e, NEW d, NEW f, NEW j, NEW it, NEW sp,
         Makes(p, s, e, d, f, j, it, sp)
  PROVE  /\ Changed(p, j, {s, d}) /\ TableOK(j, dinode')
         /\ DiskTypes' /\ FreeInodes' /\ OneOwner(dinode', Space')
<1>0. /\ s \in Slot /\ d \in Slot /\ s # d /\ itable[s].inum # itable[d].inum
      /\ itable[s].ref >= 1 /\ itable[s].lock \in {p, None} /\ itable[d].ref >= 1 /\ itable[d].lock \in {p, None}
      /\ e \in TableEntry /\ e.ref = itable[s].ref /\ e.inum = itable[s].inum /\ e.valid
      /\ e.lock \in {p, None} /\ e.ino.type # "none"
      /\ f \in TableEntry /\ f.ref = itable[d].ref /\ f.inum = itable[d].inum /\ f.valid
      /\ f.lock \in {p, None} /\ f.ino.type # "none"
      /\ j \in [Slot -> TableEntry] /\ j[s] = e /\ j[d] = f /\ \A k \in Slot \ {s, d} : j[k] = itable[k]
      /\ iupdate(it, {s, d}) /\ it[s].inum = e.inum /\ it[s].ino = e.ino /\ it[d].inum = f.inum /\ it[d].ino = f.ino
      /\ dirent' \in [Inum -> Seq(DirEntry)]
      /\ sp \in Spaces /\ Space' = sp
      /\ OneOwner([dinode EXCEPT ![e.inum] = e.ino, ![f.inum] = f.ino], sp)
  BY DEF Makes
<1>1. /\ TableOK(itable, dinode) /\ itable \in [Slot -> TableEntry] /\ dinode \in [Inum -> Dinode]
      /\ FreeInodes
  BY TableFacts DEF DiskTypes, TableInv
<1>2. itable[s].ref > 0 /\ itable[d].ref > 0
  <2>1. itable[s].ref \in Nat  BY <1>0, <1>1, EntryTypes
  <2>2. itable[d].ref \in Nat  BY <1>0, <1>1, EntryTypes
  <2> QED BY <1>0, <2>1, <2>2
<1>3. e.inum \in Inum /\ f.inum \in Inum /\ e.inum # f.inum
  BY <1>0, <1>1, <1>2, EntryTypes DEF TableOK
<1>4. e.ino \in Dinode /\ f.ino \in Dinode  BY <1>0 DEF TableEntry
<1> DEFINE D1 == [dinode EXCEPT ![e.inum] = e.ino]
           D2 == dinode'
           j1 == [itable EXCEPT ![s] = e]
<1>5. D2 = [dinode EXCEPT ![e.inum] = e.ino, ![f.inum] = f.ino]
  <2>1. it[s].inum \in Inum /\ it[d].inum \in Inum /\ it[s].inum # it[d].inum /\ iupdate(it, {s, d})
    BY <1>0, <1>3
  <2>2. D2 = [dinode EXCEPT ![it[s].inum] = it[s].ino, ![it[d].inum] = it[d].ino]
    BY <1>1, <2>1, IupdateTwo
  <2> HIDE DEF D2
  <2>3. it[s].inum = e.inum /\ it[s].ino = e.ino /\ it[d].inum = f.inum /\ it[d].ino = f.ino  BY <1>0
  <2> QED BY <2>2, <2>3
<1>6. D1 \in [Inum -> Dinode] /\ D1[e.inum] = e.ino /\ \A i \in Inum : i # e.inum => D1[i] = dinode[i]
  BY <1>1, <1>3, <1>4
<1>7. /\ D2 \in [Inum -> Dinode] /\ D2[e.inum] = e.ino /\ D2[f.inum] = f.ino
      /\ \A i \in Inum : i # e.inum /\ i # f.inum => D2[i] = dinode[i]
  BY <1>1, <1>3, <1>4, <1>5
<1>8. j1 \in [Slot -> TableEntry] /\ j1[s] = e /\ \A k \in Slot : k # s => j1[k] = itable[k]
  BY <1>0, <1>1
<1>9. j = [j1 EXCEPT ![d] = f]
  <2> HIDE DEF j1
  <2>1. \A k \in Slot : j[k] = [j1 EXCEPT ![d] = f][k]  BY <1>0, <1>8
  <2> QED BY <1>0, <1>8, <2>1
<1> HIDE DEF D1, D2
<1>10. TableOK(j1, D1)
  <2>1. /\ \A i \in Inum : i # e.inum => D1[i] = dinode[i]
        /\ e.valid => e.ino = D1[e.inum] /\ e.ino.type # "none"
    BY <1>0, <1>6
  <2>2. /\ TableOK(itable, dinode) /\ s \in Slot /\ itable[s].ref > 0
        /\ e \in TableEntry /\ e.ref = itable[s].ref /\ e.inum = itable[s].inum
    BY <1>0, <1>1, <1>2
  <2>3. TableOK([itable EXCEPT ![s] = e], D1)  BY <2>1, <2>2, EntryPutOK
  <2> QED BY <2>3
<1> HIDE DEF j1
<1>11. TableOK([j1 EXCEPT ![d] = f], D2)
  <2>1. \A i \in Inum : i # f.inum => D2[i] = D1[i]  BY <1>6, <1>7
  <2>2. f.valid => f.ino = D2[f.inum] /\ f.ino.type # "none"  BY <1>0, <1>7
  <2>3. /\ d \in Slot /\ f \in TableEntry /\ f.ref = j1[d].ref /\ f.inum = j1[d].inum /\ j1[d].ref > 0
    BY <1>0, <1>2, <1>8
  <2> QED BY <1>10, <2>1, <2>2, <2>3, EntryPutOK
<1>12. TableOK(j, D2)  BY <1>9, <1>11
<1>13. Changed(p, j, {s, d})
  <2>1. \A k \in Slot \ {s, d} : j[k] = itable[k]  BY <1>0
  <2>2. /\ j[s].ref = itable[s].ref /\ itable[s].ref >= 1 /\ j[s].valid
        /\ {itable[s].lock, j[s].lock} \subseteq {p, None}
    BY <1>0
  <2>3. /\ j[d].ref = itable[d].ref /\ itable[d].ref >= 1 /\ j[d].valid
        /\ {itable[d].lock, j[d].lock} \subseteq {p, None}
    BY <1>0
  <2>4. j \in [Slot -> TableEntry]  BY <1>0
  <2> QED BY <2>1, <2>2, <2>3, <2>4 DEF Changed
<1>14. DiskTypes'
  <2>1. dirent' \in [Inum -> Seq(DirEntry)] /\ Space' \in Spaces  BY <1>0
  <2> QED BY <1>7, <2>1 DEF DiskTypes, D2
<1>15. FreeInodes'
  <2>1. e.ino.type # "none" /\ f.ino.type # "none"  BY <1>0
  <2> QED BY <1>1, <1>7, <2>1 DEF FreeInodes, D2
<1>16. OneOwner(D2, Space')
  <2>1. OneOwner([dinode EXCEPT ![e.inum] = e.ino, ![f.inum] = f.ino], sp) /\ Space' = sp  BY <1>0
  <2> QED BY <1>5, <2>1
<1> QED BY <1>12, <1>13, <1>14, <1>15, <1>16 DEF D2


\* An inode that is new, and the directory that it is made in.
LEMMA NewFacts ==
  ASSUME TableInv, NEW p \in Procs, pc[p] = "create2", CanLock(ip[p])
  PROVE  LET s == ip[p]
             d == dp[p]
             i == itable[s].inum
             n == itable[d].inum
         IN  /\ s \in Slot /\ d \in Slot /\ s # d /\ i \in Inum /\ n \in Inum /\ i # n
             /\ Held(p) = {d} /\ old[p] = None /\ call[p] \in Calls /\ call[p].k \in {"create", "mkdir"}
             /\ (call[p].k = "create" => fd[p] = None)
             /\ itable[s].ref >= 1 /\ itable[s].lock = None
             /\ Loaded(s) \in TableEntry /\ Loaded(s).ref = itable[s].ref /\ Loaded(s).inum = i
             /\ Loaded(s).valid /\ Loaded(s).lock = None /\ Loaded(s).ino = dinode[i]
             /\ itable[d].ref >= 1 /\ itable[d] \in TableEntry /\ itable[d].lock = p /\ itable[d].valid
             /\ itable[d].ino = dinode[n]
             /\ dinode[i] \in Dinode /\ dinode[i].type # "none"
             /\ dinode[n] \in Dinode /\ dinode[n].type # "none"
<1> DEFINE s == ip[p]
           d == dp[p]
           i == itable[s].inum
           n == itable[d].inum
<1>1. pc[p] \notin Putting /\ LocalTypes /\ Counted  BY TableFacts DEF Putting
<1>2. LocalsAt("create2", call[p], ip[p], dp[p], old[p], fd[p]) /\ Held(p) = {d}
  BY <1>1, AtPlace DEF HeldAt
<1>3. /\ s \in Slot /\ d \in Slot /\ old[p] = None /\ call[p] \in Calls /\ call[p].k \in {"create", "mkdir"}
      /\ (call[p].k = "create" => fd[p] = None)
  BY <1>2, LocalFacts DEF LocalsAt, Walked, Parented
<1>4. itable[s].ref >= 1  BY <1>1, <1>3, UsedBy
<1>5. /\ itable[d].lock = p /\ itable[d].valid /\ itable[d].ref >= 1 /\ itable[d] \in TableEntry
      /\ n \in Inum /\ itable[d].ino = dinode[n]
      /\ itable[d].ino \in Dinode /\ itable[d].ino.type # "none"
  <2>1. d \in Held(p)  BY <1>2
  <2> QED BY <1>3, <2>1, HeldFacts
<1>6. CanLock(s)  OBVIOUS
<1> HIDE DEF s, d
<1>7. /\ Loaded(s) \in TableEntry /\ Loaded(s).ref = itable[s].ref /\ Loaded(s).inum = i /\ i \in Inum
      /\ Loaded(s).valid /\ Loaded(s).lock = None /\ Loaded(s).ino = dinode[i]
      /\ dinode[i] \in Dinode /\ dinode[i].type # "none" /\ itable[s].lock = None
  <2>1. None \in Procs \cup {None}  OBVIOUS
  <2>2. /\ Take(s, None) \in TableEntry /\ Take(s, None).ref = itable[s].ref
        /\ Take(s, None).inum = i /\ i \in Inum
        /\ Take(s, None).valid = TRUE /\ Take(s, None).lock = None
        /\ Take(s, None).ino = dinode[i]
        /\ Take(s, None).ino \in Dinode /\ Take(s, None).ino.type # "none"
        /\ itable[s].lock = None /\ Loaded(s) = Take(s, None)
    BY <1>3, <1>4, <1>6, <2>1, TakeOK
  <2> QED BY <2>2
<1>8. s # d  BY <1>5, <1>7, Constants
<1>9. i # n
  <2>1. OneEntry(itable) /\ itable \in [Slot -> TableEntry]  BY TableFacts DEF TableOK
  <2>2. itable[s].ref \in Nat  BY <1>3, <2>1, EntryTypes
  <2>3. itable[d].ref \in Nat  BY <1>3, <2>1, EntryTypes
  <2>4. itable[s].ref > 0 /\ itable[d].ref > 0  BY <1>4, <1>5, <2>2, <2>3
  <2> QED BY <1>3, <1>8, <2>1, <2>4 DEF OneEntry
<1> QED BY <1>2, <1>3, <1>4, <1>5, <1>7, <1>8, <1>9 DEF s, d

\* What becomes of it, and of the blocks, when it gets "." and "..".
LEMMA OwnOK ==
  ASSUME TableInv, NEW p \in Procs, NEW e \in TableEntry, e.inum \in Inum, itable[dp[p]].inum \in Inum,
         BlocksOf(e.ino, Space.ind) \subseteq Space.used
  PROVE  /\ Own(p, e) \in Dirs /\ Own1(Own(p, e)) /\ Kind(e.ino, Own(p, e).ino)
         /\ Grows(e.ino, Space, Own(p, e).ino, Own(p, e).sp)
<1> DEFINE z == Dir(<<>>, e.ino, Space)
           a == dirlink(z, ".", e.inum)
           n == itable[dp[p]].inum
           b == dirlink(a, "..", n)
<1>1. e.ino \in Dinode /\ Space \in Spaces  BY TableFacts DEF DiskTypes, TableEntry
<1>2. z \in Dirs /\ Own1(z) /\ z.ino = e.ino /\ z.sp = Space
  <2>1. <<>> \in Seq(DirEntry)  BY EmptySeq
  <2> QED BY <1>1, <2>1 DEF Dir, Dirs, Own1
<1>3. Kind(z.ino, z.ino) /\ Grows(z.ino, z.sp, z.ino, z.sp)  BY <1>1, <1>2, GrowsNot DEF Kind
<1> HIDE DEF z, n
<1>4. a \in Dirs /\ Own1(a) /\ Kind(z.ino, a.ino) /\ Grows(z.ino, z.sp, a.ino, a.sp)
  <2>1. "." \in Name /\ e.inum \in Inum  BY DEF Name
  <2> QED BY <1>2, <2>1, DirlinkOK
<1> HIDE DEF a
<1>5. b \in Dirs /\ Own1(b) /\ Kind(a.ino, b.ino) /\ Grows(a.ino, a.sp, b.ino, b.sp)
  <2>1. ".." \in Name /\ n \in Inum  BY DEF n, Name
  <2> QED BY <1>4, <2>1, DirlinkOK
<1> HIDE DEF b
<1>6. Grows(z.ino, z.sp, b.ino, b.sp) /\ Kind(z.ino, b.ino)  BY <1>4, <1>5, GrowsTwice DEF Kind
<1>7. Own(p, e) \in {z, b}  BY DEF Own, z, a, b, n
<1> QED BY <1>2, <1>3, <1>5, <1>6, <1>7


\* An inode with other addresses, or another number of links, has the same blocks when
\* its addresses are the same.
LEMMA SameBlocks ==
  ASSUME NEW a, NEW b, b.addrs = a.addrs
  PROVE  \A ind : BlocksOf(b, ind) = BlocksOf(a, ind)
BY DEF BlocksOf

\* What the directory gets.
LEMMA InOK ==
  ASSUME TableInv, NEW p \in Procs, NEW own \in Dirs, NEW D \in [Inum -> Dinode], OneOwner(D, own.sp),
         itable[ip[p]].inum \in Inum, itable[dp[p]].inum \in Inum,
         itable[dp[p]].ino \in Dinode, itable[dp[p]].ino.type # "none",
         D[itable[dp[p]].inum] = itable[dp[p]].ino
  PROVE  LET r == In(p, own)
         IN  /\ r \in Dirs /\ Kind(itable[dp[p]].ino, r.ino)
             /\ OneOwner([D EXCEPT ![itable[dp[p]].inum] = r.ino], r.sp)
<1> DEFINE n == itable[dp[p]].inum
           y == itable[dp[p]].ino
           i == itable[ip[p]].inum
           z == [Dir(dirent[n], y, own.sp) EXCEPT !.ok = own.ok]
           r == In(p, own)
<1>1. i \in Inum /\ n \in Inum /\ y \in Dinode /\ y.type # "none" /\ D[n] = y  OBVIOUS
<1>2. dirent[n] \in Seq(DirEntry)  BY <1>1, TableFacts DEF DiskTypes
<1>3. own.ok \in BOOLEAN /\ own.sp \in Spaces  BY DEF Dirs
<1>4. r = dirlink(z, name[p], i)  BY DEF In
<1> HIDE DEF r, i, n, y
<1>5. BlocksOf(y, own.sp.ind) \subseteq own.sp.used  BY <1>1 DEF OneOwner
<1>6. z \in Dirs /\ z.ino = y /\ z.sp = own.sp  BY <1>1, <1>2, <1>3 DEF Dir, Dirs
<1>7. Own1(z)  BY <1>5, <1>6 DEF Own1
<1> HIDE DEF z
<1>8. r \in Dirs /\ Kind(z.ino, r.ino) /\ Grows(z.ino, z.sp, r.ino, r.sp)
  <2>1. name[p] \in Name  BY LocalFacts DEF Name
  <2> QED BY <1>1, <1>4, <1>6, <1>7, <2>1, DirlinkOK
<1>9. r \in Dirs /\ Kind(y, r.ino) /\ Grows(D[n], own.sp, r.ino, r.sp)  BY <1>1, <1>6, <1>8
<1>10. OneOwner([D EXCEPT ![n] = r.ino], r.sp)
  <2> DEFINE ino2 == r.ino
             sp2 == r.sp
  <2>1. ino2 \in Dinode /\ ino2.type # "none" /\ sp2 \in Spaces  BY <1>1, <1>9 DEF Kind, Dirs
  <2>2. Grows(D[n], own.sp, ino2, sp2) /\ D[n].type # "none"  BY <1>1, <1>9
  <2> HIDE DEF ino2, sp2
  <2>3. OneOwner([D EXCEPT ![n] = ino2], sp2)  BY <1>1, <1>3, <2>1, <2>2, GrowsOwner
  <2> QED BY <2>3 DEF ino2, sp2
<1> QED BY <1>9, <1>10 DEF r, n, y

\* The links of two inodes are not what their blocks depend on.
LEMMA LinksTwo ==
  ASSUME NEW D \in [Inum -> Dinode], NEW sp, NEW i \in Inum, NEW n \in Inum, i # n,
         NEW a \in Dinode, NEW b \in Dinode, NEW a2 \in Dinode, NEW b2 \in Dinode,
         OneOwner([[D EXCEPT ![i] = a] EXCEPT ![n] = b], sp),
         a2.type = a.type, a2.addrs = a.addrs, b2.type = b.type, b2.addrs = b.addrs
  PROVE  OneOwner([D EXCEPT ![i] = a2, ![n] = b2], sp)
<1> DEFINE D1 == [[D EXCEPT ![i] = a] EXCEPT ![n] = b]
           D2 == [D EXCEPT ![i] = a2, ![n] = b2]
<1>1. D1[i] = a /\ D1[n] = b /\ \A k \in Inum : k # i /\ k # n => D1[k] = D[k]  OBVIOUS
<1>2. D2[i] = a2 /\ D2[n] = b2 /\ \A k \in Inum : k # i /\ k # n => D2[k] = D[k]  OBVIOUS
<1>3. OneOwner(D1, sp)  OBVIOUS
<1> HIDE DEF D1, D2
<1>4. \A k \in Inum : D2[k].type = D1[k].type /\ D2[k].addrs = D1[k].addrs  BY <1>1, <1>2
<1>5. OneOwner(D2, sp)  BY <1>3, <1>4, SameOwner
<1> QED BY <1>5 DEF D2


\* What create() makes of both.
MadeFacts(p, m) ==
  /\ m.sp \in Spaces /\ m.dirent \in [Inum -> Seq(DirEntry)]
  /\ m.it \in [Slot -> TableEntry] /\ \A k \in Slot \ {ip[p], dp[p]} : m.it[k] = itable[k]
  /\ m.it[ip[p]].ref = itable[ip[p]].ref /\ m.it[ip[p]].inum = itable[ip[p]].inum
  /\ m.it[ip[p]].valid /\ m.it[ip[p]].lock = None /\ m.it[ip[p]].ino.type # "none"
  /\ m.it[dp[p]].ref = itable[dp[p]].ref /\ m.it[dp[p]].inum = itable[dp[p]].inum
  /\ m.it[dp[p]].valid /\ m.it[dp[p]].lock = p /\ m.it[dp[p]].ino.type # "none"
  /\ OneOwner([dinode EXCEPT ![itable[ip[p]].inum] = m.it[ip[p]].ino,
                             ![itable[dp[p]].inum] = m.it[dp[p]].ino], m.sp)

LEMMA MadeOK ==
  ASSUME TableInv, NEW p \in Procs, pc[p] = "create2", CanLock(ip[p])
  PROVE  MadeFacts(p, Made(p))
<1> DEFINE s == ip[p]
           d == dp[p]
           i == itable[s].inum
           n == itable[d].inum
           x == Loaded(s)
           y == itable[d]
           x1 == [x EXCEPT !.ino.nlink = 1]
           ino1 == [dinode[i] EXCEPT !.nlink = 1]
           own == Own(p, x1)
           in == In(p, own)
           k == IF in.ok /\ call[p].k = "mkdir" THEN 1 ELSE 0
           a == IF in.ok THEN own.ino ELSE [own.ino EXCEPT !.nlink = 0]
           b == [in.ino EXCEPT !.nlink = in.ino.nlink + k]
           U(z) == relink([z EXCEPT !.ino = in.ino], k)
           e == [x EXCEPT !.ino = a]
           f == U(y)
           it == [itable EXCEPT ![s] = e, ![d] = U(@)]
           D1 == [dinode EXCEPT ![i] = own.ino]
<1>1. /\ s \in Slot /\ d \in Slot /\ s # d /\ i \in Inum /\ n \in Inum /\ i # n
      /\ x \in TableEntry /\ x.ref = itable[s].ref /\ x.inum = i /\ x.valid /\ x.lock = None /\ x.ino = dinode[i]
      /\ y \in TableEntry /\ y.lock = p /\ y.valid /\ y.ino = dinode[n]
      /\ dinode[i] \in Dinode /\ dinode[i].type # "none"
      /\ dinode[n] \in Dinode /\ dinode[n].type # "none"
  BY NewFacts
<1>2. /\ dinode \in [Inum -> Dinode] /\ Space \in Spaces /\ OneOwner(dinode, Space)
      /\ BlocksOf(dinode[i], Space.ind) \subseteq Space.used
  <2> HIDE DEF i
  <2> QED BY <1>1, OwnUsed
<1>3. itable \in [Slot -> TableEntry] /\ dirent \in [Inum -> Seq(DirEntry)]  BY TableFacts DEF DiskTypes
<1>4. Made(p) = [ok |-> in.ok, sp |-> in.sp, it |-> it,
                 dirent |-> [dirent EXCEPT ![i] = own.d, ![n] = in.d]]
  BY DEF Made, Both, Result
<1>5. /\ ino1 \in Dinode /\ ino1.type = dinode[i].type /\ ino1.addrs = dinode[i].addrs
  BY <1>1 DEF Dinode
<1>6. x1 \in TableEntry /\ x1.ino = ino1 /\ x1.inum = i
  <2>1. x1 = [x EXCEPT !.ino = ino1]  BY <1>1
  <2> HIDE DEF x1, ino1
  <2> QED BY <1>1, <1>5, <2>1 DEF TableEntry
<1>7. /\ own \in Dirs /\ Kind(ino1, own.ino) /\ Grows(ino1, Space, own.ino, own.sp)
  <2>1. BlocksOf(ino1, Space.ind) = BlocksOf(dinode[i], Space.ind)
    <3> HIDE DEF ino1, i
    <3>1. \A ind : BlocksOf(ino1, ind) = BlocksOf(dinode[i], ind)  BY <1>5, SameBlocks
    <3> QED BY <3>1
  <2>2. BlocksOf(x1.ino, Space.ind) \subseteq Space.used /\ x1.inum \in Inum /\ itable[dp[p]].inum \in Inum
    BY <1>1, <1>2, <1>6, <2>1
  <2> HIDE DEF x1
  <2>3. own \in Dirs /\ Kind(x1.ino, own.ino) /\ Grows(x1.ino, Space, own.ino, own.sp)
    BY <1>6, <2>2, OwnOK
  <2> QED BY <1>6, <2>3
<1> HIDE DEF own, x1
<1>8. D1 \in [Inum -> Dinode] /\ OneOwner(D1, own.sp) /\ D1[n] = dinode[n] /\ own.ino \in Dinode
      /\ own.ino.type # "none" /\ own.sp \in Spaces /\ own.d \in Seq(DirEntry)
  <2> DEFINE o == own.ino
             sp2 == own.sp
  <2>1. o \in Dinode /\ o.type # "none" /\ sp2 \in Spaces /\ own.d \in Seq(DirEntry)
    BY <1>1, <1>5, <1>7 DEF Kind, Dirs
  <2>2. Grows(dinode[i], Space, o, sp2)
    <3>1. \A ind : BlocksOf(ino1, ind) = BlocksOf(dinode[i], ind)  BY <1>5, SameBlocks
    <3> QED BY <1>7, <3>1 DEF Grows
  <2> HIDE DEF o, sp2, i
  <2>3. OneOwner([dinode EXCEPT ![i] = o], sp2)  BY <1>1, <1>2, <2>1, <2>2, GrowsOwner
  <2>4. [dinode EXCEPT ![i] = o] \in [Inum -> Dinode] /\ [dinode EXCEPT ![i] = o][n] = dinode[n]
    BY <1>1, <1>2, <2>1
  <2> QED BY <2>1, <2>3, <2>4 DEF o, sp2
<1>9. /\ in \in Dirs /\ Kind(dinode[n], in.ino) /\ OneOwner([D1 EXCEPT ![n] = in.ino], in.sp)
  <2> HIDE DEF D1
  <2>1. /\ itable[ip[p]].inum \in Inum /\ itable[dp[p]].inum \in Inum
        /\ itable[dp[p]].ino \in Dinode /\ itable[dp[p]].ino.type # "none"
        /\ D1[itable[dp[p]].inum] = itable[dp[p]].ino
    BY <1>1, <1>8
  <2> HIDE DEF in
  <2>2. /\ In(p, own) \in Dirs /\ Kind(itable[dp[p]].ino, In(p, own).ino)
        /\ OneOwner([D1 EXCEPT ![itable[dp[p]].inum] = In(p, own).ino], In(p, own).sp)
    BY <1>7, <1>8, <2>1, InOK
  <2> QED BY <1>1, <2>2 DEF in
<1> HIDE DEF in
<1>10. /\ in.ino \in Dinode /\ in.ino.type # "none" /\ in.ino.nlink \in Int /\ in.sp \in Spaces
       /\ in.d \in Seq(DirEntry) /\ k \in Int
  BY <1>1, <1>9 DEF Kind, Dirs, Dinode
<1> HIDE DEF k
<1>11. /\ a \in Dinode /\ a.type = own.ino.type /\ a.addrs = own.ino.addrs
       /\ b \in Dinode /\ b.type = in.ino.type /\ b.addrs = in.ino.addrs
  <2>1. in.ino.nlink + k \in Int  BY <1>10
  <2> QED BY <1>8, <1>10, <2>1 DEF Dinode
<1>12. e \in TableEntry /\ e.ref = x.ref /\ e.inum = i /\ e.valid /\ e.lock = None /\ e.ino = a
  <2> HIDE DEF a
  <2> QED BY <1>1, <1>11 DEF TableEntry
<1>13. f \in TableEntry /\ f.ref = y.ref /\ f.inum = n /\ f.valid /\ f.lock = p /\ f.ino = b
  <2> DEFINE z == [y EXCEPT !.ino = in.ino]
  <2>1. /\ z \in TableEntry /\ z.ref = y.ref /\ z.inum = n /\ z.valid /\ z.lock = p /\ z.ino = in.ino
    BY <1>1, <1>10 DEF TableEntry
  <2>2. f = relink(z, k)  OBVIOUS
  <2> HIDE DEF z, f
  <2>3. /\ relink(z, k) \in TableEntry /\ relink(z, k).ref = z.ref /\ relink(z, k).inum = z.inum
        /\ relink(z, k).valid = z.valid /\ relink(z, k).lock = z.lock
        /\ relink(z, k).ino = [z.ino EXCEPT !.nlink = z.ino.nlink + k]
    BY <1>10, <2>1, RelinkOK
  <2> QED BY <2>1, <2>2, <2>3
<1>14. it = [[itable EXCEPT ![s] = e] EXCEPT ![d] = f]
  <2> HIDE DEF s, d, e, U
  <2> QED BY <1>1, <1>3
<1> HIDE DEF e, f, a, b
<1>15. it \in [Slot -> TableEntry] /\ it[s] = e /\ it[d] = f /\ \A z \in Slot \ {s, d} : it[z] = itable[z]
  <2> HIDE DEF it
  <2> QED BY <1>1, <1>3, <1>12, <1>13, <1>14
<1>16. OneOwner([dinode EXCEPT ![i] = a, ![n] = b], in.sp)
  <2> DEFINE o == own.ino
             c == in.ino
  <2>1. OneOwner([[dinode EXCEPT ![i] = o] EXCEPT ![n] = c], in.sp)  BY <1>9
  <2>2. /\ a \in Dinode /\ a.type = o.type /\ a.addrs = o.addrs /\ o \in Dinode
        /\ b \in Dinode /\ b.type = c.type /\ b.addrs = c.addrs /\ c \in Dinode
    BY <1>8, <1>10, <1>11
  <2> HIDE DEF o, c, i, n
  <2> QED BY <1>1, <1>2, <2>1, <2>2, LinksTwo
<1>17. [dirent EXCEPT ![i] = own.d, ![n] = in.d] \in [Inum -> Seq(DirEntry)]
  BY <1>1, <1>3, <1>8, <1>10
<1>18. e.ino.type # "none" /\ f.ino.type # "none"  BY <1>8, <1>10, <1>11, <1>12, <1>13
<1> DEFINE m == Made(p)
<1>19. /\ m.sp = in.sp /\ m.it = it /\ m.dirent = [dirent EXCEPT ![i] = own.d, ![n] = in.d]  BY <1>4
<1> HIDE DEF m, it
<1>20. /\ m.sp \in Spaces /\ m.dirent \in [Inum -> Seq(DirEntry)] /\ m.it \in [Slot -> TableEntry]
       /\ \A z \in Slot \ {s, d} : m.it[z] = itable[z]
       /\ m.it[s] = e /\ m.it[d] = f
       /\ OneOwner([dinode EXCEPT ![i] = m.it[s].ino, ![n] = m.it[d].ino], m.sp)
  BY <1>10, <1>12, <1>13, <1>15, <1>16, <1>17, <1>19
<1>21. MadeFacts(p, m)  BY <1>1, <1>12, <1>13, <1>18, <1>20 DEF MadeFacts
<1> QED BY <1>21 DEF m


\* The call is over, and both are put.
LEMMA NewPutOK ==
  ASSUME TableInv, NEW p \in Procs, pc[p] = "create2", CanLock(ip[p]),
         NEW e, NEW f, NEW it, NEW sp, e.lock = None, f.lock = None,
         Makes(p, ip[p], e, dp[p], f, itable', it, sp),
         NEW ps, ps \in {<<ip[p], dp[p]>>, <<dp[p], ip[p]>>}, Done(p, ps), UNCHANGED <<cwd, fd, calls, lost>>
  PROVE  TableInv'
<1> DEFINE s == ip[p]
           d == dp[p]
           j == itable'
<1>1. s \in Slot /\ d \in Slot /\ s # d /\ Held(p) = {d} /\ old[p] = None  BY NewFacts
<1>2. pc[p] \notin Putting  BY DEF Putting
<1>3. ps \in {<<s, d>>, <<d, s>>} /\ Done(p, ps) /\ Makes(p, s, e, d, f, j, it, sp)  OBVIOUS
<1> HIDE DEF j, s, d
<1>4. /\ Changed(p, j, {s, d}) /\ TableOK(j, dinode')
      /\ DiskTypes' /\ FreeInodes' /\ OneOwner(dinode', Space')
  BY <1>3, MakesOK
<1>5. j[s].lock = None /\ j[d].lock = None
  <2>1. j[s] = e /\ j[d] = f  BY <1>3 DEF Makes
  <2> QED BY <2>1
<1>6. DiskGood'  BY <1>4 DEF DiskGood, j
<1>7. ps \in Seq(Slot) /\ Len(ps) <= 2 /\ ps # <<>>
  <2>1. <<s, d>> \in Seq(Slot) /\ <<s, d>> # <<>> /\ Len(<<s, d>>) <= 2  BY <1>1, TwoSlots
  <2>2. <<d, s>> \in Seq(Slot) /\ <<d, s>> # <<>> /\ Len(<<d, s>>) <= 2  BY <1>1, TwoSlots
  <2> QED BY <1>3, <2>1, <2>2
<1>8. ASSUME NEW k \in Slot
      PROVE  Points(k, ps, None, None, old[p], cwd[p], fd[p]) = Pointers(p, k) + Hit(None, k)
  <2>1. Pointers(p, k) = Hit(cwd[p], k) + Hit(s, k) + Hit(d, k) + Hit(old[p], k) + HitFile(fd[p], k)
    BY <1>2, PointersNil DEF s, d
  <2>2. Points(k, <<s, d>>, None, None, old[p], cwd[p], fd[p]) =
          Hit(cwd[p], k) + Hit(None, k) + Hit(None, k) + Hit(old[p], k) + HitFile(fd[p], k) + Hit(s, k) + Hit(d, k)
    BY PointsTwo
  <2>3. Points(k, <<d, s>>, None, None, old[p], cwd[p], fd[p]) =
          Hit(cwd[p], k) + Hit(None, k) + Hit(None, k) + Hit(old[p], k) + HitFile(fd[p], k) + Hit(d, k) + Hit(s, k)
    BY PointsTwo
  <2>4. /\ Hit(None, k) = 0 /\ Hit(s, k) \in {0, 1} /\ Hit(d, k) \in {0, 1} /\ Hit(cwd[p], k) \in {0, 1}
        /\ Hit(old[p], k) \in {0, 1} /\ HitFile(fd[p], k) \in {0, 1}
    BY HitFacts
  <2> DEFINE o == old[p]
             w == cwd[p]
             h == fd[p]
             P(q) == Points(k, q, None, None, o, w, h)
             R == Pointers(p, k) + Hit(None, k)
  <2>5. P(<<s, d>>) = R  BY <2>1, <2>2, <2>4
  <2>6. P(<<d, s>>) = R  BY <2>1, <2>3, <2>4
  <2>7. P(ps) = R
    <3> HIDE DEF P, R
    <3> QED BY <1>3, <2>5, <2>6
  <2> QED BY <2>7
<1>9. After(p, "user", ps, None, None, old[p], cwd[p], fd[p])  BY <1>1, <1>2, <1>3, <1>7, OverOK
<1>10. \A k \in Slot : k \in HeldAt(IF ps = <<>> THEN "user" ELSE "put", "user", ps, None, None)
                         <=> IF k \in {s, d} THEN j[k].lock = p ELSE k \in Held(p)
  BY <1>1, <1>5, <1>7, Constants DEF HeldAt
<1>11. Moved(p, j, {s, d}, None, "user", ps, None, None, old[p], cwd[p], fd[p])
  BY <1>1, <1>4, <1>8, <1>9, <1>10 DEF Moved, j
<1> QED BY <1>6, <1>11, MovedOK

\* A file is made, and is still locked: open() goes on with it.
LEMMA NewAfterOK ==
  ASSUME TableInv, NEW p \in Procs, pc[p] = "create2", CanLock(ip[p]), call[p].k # "mkdir",
         dp' = [dp EXCEPT ![p] = None], Put(p, <<dp[p]>>, "opened"),
         UNCHANGED <<call, path, ip, name, old, cwd, fd, calls, lost>>
  PROVE  After(p, "opened", <<dp[p]>>, ip[p], None, old[p], cwd[p], fd[p])
<1> DEFINE s == ip[p]
           d == dp[p]
           ps == <<d>>
<1>1. /\ s \in Slot /\ d \in Slot /\ old[p] = None
      /\ call[p] \in Calls /\ call[p].k = "create" /\ fd[p] = None
  BY NewFacts
<1>2. pc[p] \notin Putting  BY DEF Putting
<1>3. Put(p, ps, "opened") /\ ip[p] = s  OBVIOUS
<1>4. ps \in Seq(Slot) /\ Len(ps) <= 2 /\ ps # <<>>  BY <1>1, OneSlot
<1>5. /\ cwd' = [cwd EXCEPT ![p] = cwd[p]] /\ fd' = [fd EXCEPT ![p] = fd[p]]
      /\ call' = [call EXCEPT ![p] = call[p]] /\ ip' = [ip EXCEPT ![p] = s]
      /\ old' = [old EXCEPT ![p] = old[p]] /\ dp' = [dp EXCEPT ![p] = None] /\ OtherTypes'
  BY KeepOK DEF OtherTypes
<1> HIDE DEF s, ps
<1>6. /\ cwd[p] \in Slot /\ fd[p] \in OpenFile \cup {None} /\ call[p] \in Calls \cup {None}
      /\ s \in Slot \cup {None} /\ None \in Slot \cup {None} /\ old[p] \in Slot \cup {None}
  BY <1>1, LocalFacts
<1>7. "opened" \in Returns  BY DEF Returns
<1>8. LocalsAt("opened", call[p], s, None, old[p], fd[p])
  BY <1>1, Constants DEF LocalsAt, Walked, Parented
<1>9. After(p, "opened", ps, s, None, old[p], cwd[p], fd[p])
  BY <1>2, <1>3, <1>4, <1>5, <1>6, <1>7, <1>8, AfterPut
<1> QED BY <1>9 DEF s, ps

LEMMA NewOpenOK ==
  ASSUME TableInv, NEW p \in Procs, pc[p] = "create2", CanLock(ip[p]), call[p].k # "mkdir",
         NEW e, NEW f, NEW it, NEW sp, e.lock = p, f.lock = None,
         Makes(p, ip[p], e, dp[p], f, itable', it, sp),
         dp' = [dp EXCEPT ![p] = None], Put(p, <<dp[p]>>, "opened"),
         UNCHANGED <<call, path, ip, name, old, cwd, fd, calls, lost>>
  PROVE  TableInv'
<1> DEFINE s == ip[p]
           d == dp[p]
           j == itable'
           ps == <<d>>
<1>1. /\ s \in Slot /\ d \in Slot /\ s # d /\ Held(p) = {d} /\ old[p] = None
      /\ call[p] \in Calls /\ call[p].k = "create" /\ fd[p] = None
  BY NewFacts
<1>2. pc[p] \notin Putting  BY DEF Putting
<1>3. Put(p, ps, "opened") /\ Makes(p, s, e, d, f, j, it, sp) /\ ip[p] = s  OBVIOUS
<1> HIDE DEF j, s, d
<1>4. /\ Changed(p, j, {s, d}) /\ TableOK(j, dinode')
      /\ DiskTypes' /\ FreeInodes' /\ OneOwner(dinode', Space')
  BY <1>3, MakesOK
<1>5. j[s].lock = p /\ j[d].lock = None
  <2>1. j[s] = e /\ j[d] = f  BY <1>3 DEF Makes
  <2> QED BY <2>1
<1>6. DiskGood'  BY <1>4 DEF DiskGood, j
<1>7. ps \in Seq(Slot) /\ Len(ps) <= 2 /\ ps # <<>>  BY <1>1, OneSlot
<1>8. ASSUME NEW k \in Slot
      PROVE  Points(k, ps, s, None, old[p], cwd[p], fd[p]) = Pointers(p, k) + Hit(None, k)
  <2>1. Pointers(p, k) = Hit(cwd[p], k) + Hit(s, k) + Hit(d, k) + Hit(old[p], k) + HitFile(fd[p], k)
    BY <1>2, PointersNil DEF s, d
  <2>2. Points(k, ps, s, None, old[p], cwd[p], fd[p]) =
          Hit(cwd[p], k) + Hit(s, k) + Hit(None, k) + Hit(old[p], k) + HitFile(fd[p], k) + Hit(d, k)
    BY PointsOne
  <2>3. /\ Hit(None, k) = 0 /\ Hit(s, k) \in {0, 1} /\ Hit(d, k) \in {0, 1} /\ Hit(cwd[p], k) \in {0, 1}
        /\ Hit(old[p], k) \in {0, 1} /\ HitFile(fd[p], k) \in {0, 1}
    BY HitFacts
  <2> QED BY <2>1, <2>2, <2>3
<1> HIDE DEF ps
<1>9. After(p, "opened", ps, s, None, old[p], cwd[p], fd[p])  BY NewAfterOK DEF ps, s, d
<1>10. \A k \in Slot : k \in HeldAt(IF ps = <<>> THEN "opened" ELSE "put", "opened", ps, s, None)
                         <=> IF k \in {s, d} THEN j[k].lock = p ELSE k \in Held(p)
  BY <1>1, <1>5, <1>7, Constants DEF HeldAt
<1>11. Moved(p, j, {s, d}, None, "opened", ps, s, None, old[p], cwd[p], fd[p])
  BY <1>1, <1>4, <1>8, <1>9, <1>10 DEF Moved, j
<1> QED BY <1>6, <1>11, MovedOK


\* What a step of create() that makes m does to the table and to the disk.
MakesFrom(p, m, l, it) ==
  /\ MadeFacts(p, m)
  /\ dirent' = m.dirent /\ bitmap' = m.sp.used /\ indirect' = m.sp.ind
  /\ l \in {p, None} /\ it \in {m.it, itable'} /\ iupdate(it, {ip[p], dp[p]})
  /\ itable' = [m.it EXCEPT ![dp[p]] = iunlock(m.it[dp[p]]), ![ip[p]] = [m.it[ip[p]] EXCEPT !.lock = l]]

LEMMA MakesMade ==
  ASSUME TableInv, NEW p \in Procs, pc[p] = "create2", CanLock(ip[p]), NEW m, NEW l, NEW it,
         MakesFrom(p, m, l, it)
  PROVE  \E e, f : /\ e.lock = l /\ f.lock = None
                   /\ Makes(p, ip[p], e, dp[p], f, itable', it, m.sp)
<1> DEFINE s == ip[p]
           d == dp[p]
           a == m.it[s]
           b == m.it[d]
           e == [a EXCEPT !.lock = l]
           f == iunlock(b)
           j == itable'
<1>0. /\ MadeFacts(p, m)
      /\ dirent' = m.dirent /\ bitmap' = m.sp.used /\ indirect' = m.sp.ind
      /\ l \in {p, None} /\ it \in {m.it, itable'} /\ iupdate(it, {ip[p], dp[p]})
      /\ itable' = [m.it EXCEPT ![dp[p]] = iunlock(m.it[dp[p]]), ![ip[p]] = [m.it[ip[p]] EXCEPT !.lock = l]]
  BY DEF MakesFrom
<1>1. /\ s \in Slot /\ d \in Slot /\ s # d /\ itable[s].inum # itable[d].inum
      /\ itable[s].ref >= 1 /\ itable[s].lock \in {p, None} /\ itable[d].ref >= 1 /\ itable[d].lock \in {p, None}
  BY NewFacts
<1>2. /\ m.sp \in Spaces /\ m.dirent \in [Inum -> Seq(DirEntry)]
      /\ m.it \in [Slot -> TableEntry] /\ \A k \in Slot \ {s, d} : m.it[k] = itable[k]
      /\ a.ref = itable[s].ref /\ a.inum = itable[s].inum
      /\ a.valid /\ a.lock = None /\ a.ino.type # "none"
      /\ b.ref = itable[d].ref /\ b.inum = itable[d].inum
      /\ b.valid /\ b.lock = p /\ b.ino.type # "none"
      /\ OneOwner([dinode EXCEPT ![itable[s].inum] = a.ino, ![itable[d].inum] = b.ino], m.sp)
  BY <1>0 DEF MadeFacts
<1>3. a \in TableEntry /\ b \in TableEntry  BY <1>1, <1>2
<1>4. j = [m.it EXCEPT ![d] = f, ![s] = e]  BY <1>0
<1>5. iupdate(it, {s, d}) /\ it \in {m.it, j}  BY <1>0
<1> HIDE DEF s, d, j
<1>6. /\ e \in TableEntry /\ e.ref = a.ref /\ e.inum = a.inum /\ e.valid = a.valid /\ e.lock = l /\ e.ino = a.ino
      /\ f \in TableEntry /\ f.ref = b.ref /\ f.inum = b.inum /\ f.valid = b.valid /\ f.lock = None /\ f.ino = b.ino
  <2> HIDE DEF a, b
  <2>1. l \in Procs \cup {None}  BY <1>0
  <2> QED BY <1>3, <2>1 DEF iunlock, TableEntry
<1> HIDE DEF e, f
<1>7. j \in [Slot -> TableEntry] /\ j[s] = e /\ j[d] = f /\ \A k \in Slot \ {s, d} : j[k] = m.it[k]
  BY <1>1, <1>2, <1>4, <1>6
<1>8. it[s].inum = e.inum /\ it[s].ino = e.ino /\ it[d].inum = f.inum /\ it[d].ino = f.ino
  BY <1>5, <1>6, <1>7
<1>9. dirent' \in [Inum -> Seq(DirEntry)] /\ Space' = m.sp
  <2>1. m.sp = [used |-> m.sp.used, ind |-> m.sp.ind]  BY <1>2 DEF Spaces
  <2> QED BY <1>0, <1>2, <2>1 DEF Space
<1>10. OneOwner([dinode EXCEPT ![e.inum] = e.ino, ![f.inum] = f.ino], m.sp)
  BY <1>2, <1>6
<1>11. /\ e.ref = itable[s].ref /\ e.inum = itable[s].inum /\ e.valid /\ e.lock \in {p, None} /\ e.ino.type # "none"
       /\ f.ref = itable[d].ref /\ f.inum = itable[d].inum /\ f.valid /\ f.lock \in {p, None} /\ f.ino.type # "none"
  BY <1>0, <1>2, <1>6
<1>12. \A k \in Slot \ {s, d} : j[k] = itable[k]  BY <1>2, <1>7
<1>13. Makes(p, s, e, d, f, j, it, m.sp)
  BY <1>1, <1>2, <1>5, <1>6, <1>7, <1>8, <1>9, <1>10, <1>11, <1>12 DEF Makes
<1> QED BY <1>6, <1>13 DEF s, d, j


LEMMA CreateMadeOK == ASSUME TableInv, NEW p \in Procs, CreateMade(p) PROVE TableInv'
<1> DEFINE s == ip[p]
           d == dp[p]
           l == IF call[p].k = "mkdir" THEN None ELSE p
<1>1. pc[p] = "create2" /\ CanLock(s) /\ UNCHANGED <<cwd, fd, calls, lost>>  BY DEF CreateMade
<1> DEFINE m == Made(p)
<1>2. /\ dirent' = m.dirent /\ bitmap' = m.sp.used /\ indirect' = m.sp.ind /\ iupdate(m.it, {s, d})
      /\ itable' = [m.it EXCEPT ![d] = iunlock(@), ![s].lock = l]
  BY DEF CreateMade
<1>3. MadeFacts(p, m)  BY <1>1, MadeOK
<1> HIDE DEF m
<1>4. s \in Slot /\ d \in Slot /\ s # d  BY <1>1, NewFacts
<1>5. itable' = [m.it EXCEPT ![d] = iunlock(m.it[d]), ![s] = [m.it[s] EXCEPT !.lock = l]]
  <2>1. m.it \in [Slot -> TableEntry]  BY <1>3 DEF MadeFacts
  <2>2. itable' = [m.it EXCEPT ![d] = iunlock(@), ![s].lock = l]  BY <1>2
  <2> HIDE DEF s, d, l
  <2> QED BY <1>4, <2>1, <2>2
<1>6. PICK e, f : /\ e.lock = l /\ f.lock = None
                  /\ Makes(p, s, e, d, f, itable', m.it, m.sp)
  <2> DEFINE it == m.it
  <2>1. l \in {p, None} /\ it \in {m.it, itable'} /\ iupdate(it, {ip[p], dp[p]})  BY <1>2
  <2> HIDE DEF it, l
  <2>2. MakesFrom(p, m, l, it)  BY <1>2, <1>3, <1>5, <2>1 DEF MakesFrom
  <2>3. \E e, f : /\ e.lock = l /\ f.lock = None
                  /\ Makes(p, ip[p], e, dp[p], f, itable', it, m.sp)
    BY <1>1, <2>2, MakesMade
  <2> QED BY <2>3 DEF it
<1>7. CASE call[p].k = "mkdir"
  <2>1. Done(p, <<d, s>>)  BY <1>7 DEF CreateMade
  <2>2. e.lock = None  BY <1>6, <1>7
  <2> DEFINE ps == <<d, s>>
  <2>3. ps \in {<<s, d>>, <<d, s>>}  OBVIOUS
  <2> HIDE DEF ps
  <2> QED BY <1>1, <1>6, <2>1, <2>2, <2>3, NewPutOK DEF ps
<1>8. CASE call[p].k # "mkdir"
  <2>1. /\ dp' = [dp EXCEPT ![p] = None] /\ Put(p, <<d>>, "opened")
        /\ UNCHANGED <<call, path, ip, name, old>>
    BY <1>8 DEF CreateMade
  <2>2. e.lock = p  BY <1>6, <1>8
  <2>3. UNCHANGED <<call, path, ip, name, old, cwd, fd, calls, lost>>  BY <1>1, <2>1
  <2> QED BY <1>1, <1>6, <1>8, <2>1, <2>2, <2>3, NewOpenOK
<1> QED BY <1>7, <1>8

LEMMA CreateFailsOK == ASSUME TableInv, NEW p \in Procs, CreateFails(p) PROVE TableInv'
<1> DEFINE s == ip[p]
           d == dp[p]
<1>1. pc[p] = "create2" /\ CanLock(s) /\ UNCHANGED <<cwd, fd, calls, lost>>  BY DEF CreateFails
<1> DEFINE m == Made(p)
<1>2. /\ dirent' = m.dirent /\ bitmap' = m.sp.used /\ indirect' = m.sp.ind /\ iupdate(itable', {s, d})
      /\ itable' = [m.it EXCEPT ![d] = iunlock(@)] /\ Done(p, <<s, d>>)
  BY DEF CreateFails
<1>3. MadeFacts(p, m)  BY <1>1, MadeOK
<1> HIDE DEF m
<1>4. s \in Slot /\ d \in Slot /\ s # d  BY <1>1, NewFacts
<1>5. itable' = [m.it EXCEPT ![d] = iunlock(m.it[d]), ![s] = [m.it[s] EXCEPT !.lock = None]]
  <2>1. m.it \in [Slot -> TableEntry] /\ m.it[s].lock = None  BY <1>3 DEF MadeFacts
  <2>2. itable' = [m.it EXCEPT ![d] = iunlock(m.it[d])]  BY <1>2
  <2> DEFINE x == m.it[s]
             y == [x EXCEPT !.lock = None]
  <2>3. x \in TableEntry /\ x.lock = None  BY <1>4, <2>1
  <2> HIDE DEF x
  <2>4. y = x  BY <2>3 DEF TableEntry
  <2> HIDE DEF y
  <2>5. itable' = [m.it EXCEPT ![d] = iunlock(m.it[d]), ![s] = y]
    <3> HIDE DEF s, d
    <3> QED BY <1>4, <2>1, <2>2, <2>4 DEF x
  <2> QED BY <2>5 DEF x, y
<1>6. PICK e, f : /\ e.lock = None /\ f.lock = None
                  /\ Makes(p, s, e, d, f, itable', itable', m.sp)
  <2> DEFINE it == itable'
             l == None
  <2>1. l \in {p, None} /\ it \in {m.it, itable'} /\ iupdate(it, {ip[p], dp[p]})  BY <1>2
  <2>2. itable' = [m.it EXCEPT ![d] = iunlock(m.it[d]), ![s] = [m.it[s] EXCEPT !.lock = l]]  BY <1>5
  <2> HIDE DEF it, l
  <2>3. MakesFrom(p, m, l, it)  BY <1>2, <1>3, <2>1, <2>2 DEF MakesFrom
  <2>4. \E e, f : /\ e.lock = l /\ f.lock = None
                  /\ Makes(p, ip[p], e, dp[p], f, itable', it, m.sp)
    BY <1>1, <2>3, MakesMade
  <2> QED BY <2>4 DEF it, l
<1> DEFINE ps == <<s, d>>
<1>7. ps \in {<<s, d>>, <<d, s>>} /\ Done(p, ps)  BY <1>2
<1> HIDE DEF ps
<1> QED BY <1>1, <1>6, <1>7, NewPutOK


-----------------------------------------------------------------------------
(* A call begins.                                                           *)

LEMMA BeginFacts ==
  ASSUME TableInv, NEW p \in Procs, NEW c \in Calls, Begin(p, c)
  PROVE  /\ pc[p] = "user" /\ UNCHANGED <<diskVars, cwd, lost>> /\ calls' \in 0 .. MaxCalls
         /\ c.k \in Kinds /\ c.path.names \in Seq(STRING)
         /\ pc[p] \notin Putting /\ LocalTypes /\ Counted /\ Held(p) = {}
         /\ ip[p] = None /\ dp[p] = None /\ old[p] = None
         /\ \/ /\ c.k = "close" /\ fd[p] # None /\ fd' = [fd EXCEPT ![p] = None]
               /\ Done(p, <<fd[p].ip>>) /\ UNCHANGED itable
            \/ /\ c.k \in {"read", "write"} /\ fd[p] # None /\ call' = [call EXCEPT ![p] = c] /\ Go(p, c.k)
               /\ UNCHANGED <<path, ip, dp, name, old, itable, fd>>
            \/ /\ c.k \notin {"close", "read", "write"} /\ (c.k \in {"open", "create"} => fd[p] = None)
               /\ call' = [call EXCEPT ![p] = c]
               /\ itable' = Root(p, itable, c.path).it /\ ip' = [ip EXCEPT ![p] = Root(p, itable, c.path).s]
               /\ path' = [path EXCEPT ![p] = c.path.names]
               /\ Go(p, "walk") /\ UNCHANGED <<dp, name, old, fd>>
<1>1. pc[p] = "user" /\ UNCHANGED <<diskVars, cwd, lost>> /\ calls > 0 /\ calls' = calls - 1  BY DEF Begin
<1>2. calls' \in 0 .. MaxCalls
  <2>1. calls \in 0 .. MaxCalls  BY LocalFacts
  <2>2. MaxCalls \in Nat  BY InodesAssumption
  <2> QED BY <1>1, <2>1, <2>2
<1>3. c.k \in Kinds /\ c.path.names \in Seq(STRING)  BY CallsAssumption DEF Path
<1>4. pc[p] \notin Putting /\ LocalTypes /\ Counted /\ Held(p) = {}  BY <1>1, AtFree, TableFacts DEF Free
<1>5. LocalsAt("user", call[p], ip[p], dp[p], old[p], fd[p])  BY <1>1, <1>4, AtPlace
<1>6. ip[p] = None /\ dp[p] = None /\ old[p] = None  BY <1>5 DEF LocalsAt, Walked, Parented
<1>7. \/ /\ c.k = "close" /\ fd[p] # None /\ fd' = [fd EXCEPT ![p] = None]
         /\ Done(p, <<fd[p].ip>>) /\ UNCHANGED itable
      \/ /\ c.k \in {"read", "write"} /\ fd[p] # None /\ call' = [call EXCEPT ![p] = c] /\ Go(p, c.k)
         /\ UNCHANGED <<path, ip, dp, name, old, itable, fd>>
      \/ /\ c.k \notin {"close", "read", "write"} /\ (c.k \in {"open", "create"} => fd[p] = None)
         /\ call' = [call EXCEPT ![p] = c]
         /\ itable' = Root(p, itable, c.path).it /\ ip' = [ip EXCEPT ![p] = Root(p, itable, c.path).s]
         /\ path' = [path EXCEPT ![p] = c.path.names]
         /\ Go(p, "walk") /\ UNCHANGED <<dp, name, old, fd>>
  <2>1. CASE c.k = "close"  BY <2>1 DEF Begin
  <2>2. CASE c.k \in {"read", "write"}  BY <2>2 DEF Begin
  <2>3. CASE c.k \notin {"close", "read", "write"}  BY <2>3 DEF Begin
  <2> QED BY <2>1, <2>2, <2>3
<1> QED BY <1>1, <1>2, <1>3, <1>4, <1>6, <1>7

LEMMA BeginOK == ASSUME TableInv, NEW p \in Procs, NEW c \in Calls, Begin(p, c) PROVE TableInv'
<1>1. /\ pc[p] = "user" /\ UNCHANGED <<diskVars, cwd, lost>> /\ calls' \in 0 .. MaxCalls
      /\ c.k \in Kinds /\ c.path.names \in Seq(STRING)
      /\ pc[p] \notin Putting /\ LocalTypes /\ Counted /\ Held(p) = {}
      /\ ip[p] = None /\ dp[p] = None /\ old[p] = None
  BY BeginFacts
<1>2. /\ cwd[p] \in Slot /\ fd[p] \in OpenFile \cup {None} /\ (fd[p] # None => fd[p].ip \in Slot)
      /\ cwd' = [cwd EXCEPT ![p] = cwd[p]] /\ lost' \subseteq Inum
  BY <1>1, KeepOK, LocalFacts
<1>3. CASE /\ c.k = "close" /\ fd[p] # None /\ fd' = [fd EXCEPT ![p] = None]
           /\ Done(p, <<fd[p].ip>>) /\ UNCHANGED itable
  <2> DEFINE s == fd[p].ip
             ps == <<s>>
  <2>1. s \in Slot /\ ps \in Seq(Slot) /\ Len(ps) <= 2 /\ ps # <<>> /\ Done(p, ps)  BY <1>2, <1>3, OneSlot
  <2>2. ASSUME NEW k \in Slot
        PROVE  Points(k, ps, None, None, None, cwd[p], None) = Pointers(p, k) + Hit(None, k)
    <3>1. Pointers(p, k) = Hit(cwd[p], k) + Hit(ip[p], k) + Hit(dp[p], k) + Hit(old[p], k) + HitFile(fd[p], k)
      BY <1>1, PointersNil
    <3>2. Points(k, ps, None, None, None, cwd[p], None) =
            Hit(cwd[p], k) + Hit(None, k) + Hit(None, k) + Hit(None, k) + HitFile(None, k) + Hit(s, k)
      BY PointsOne
    <3>3. HitFile(fd[p], k) = Hit(s, k) /\ HitFile(None, k) = 0  BY <1>3, HitFacts
    <3>4. Hit(None, k) = 0 /\ Hit(s, k) \in {0, 1} /\ Hit(cwd[p], k) \in {0, 1}  BY HitFacts
    <3> QED BY <1>1, <3>1, <3>2, <3>3, <3>4
  <2> HIDE DEF ps
  <2>3. After(p, "user", ps, None, None, None, cwd[p], None)
    <3>1. None \in OpenFile \cup {None}  OBVIOUS
    <3> QED BY <1>1, <1>2, <1>3, <2>1, <3>1, AfterDone
  <2>4. \A k \in Slot : k \in HeldAt(IF ps = <<>> THEN "user" ELSE "put", "user", ps, None, None)
                          <=> k \in Held(p)
    BY <1>1, <2>1 DEF HeldAt
  <2> QED BY <1>1, <1>3, <2>2, <2>3, <2>4, StillOK
<1>4. CASE /\ c.k \in {"read", "write"} /\ fd[p] # None /\ call' = [call EXCEPT ![p] = c] /\ Go(p, c.k)
           /\ UNCHANGED <<path, ip, dp, name, old, itable, fd>>
  <2> DEFINE l == c.k
  <2>1. LocalsAt(l, c, ip[p], dp[p], old[p], fd[p])
    BY <1>1, <1>4 DEF LocalsAt, Walked, Parented
  <2>2. After(p, l, <<>>, ip[p], dp[p], old[p], cwd[p], fd[p])
    <3>1. /\ ip' = [ip EXCEPT ![p] = ip[p]] /\ dp' = [dp EXCEPT ![p] = dp[p]]
          /\ old' = [old EXCEPT ![p] = old[p]] /\ fd' = [fd EXCEPT ![p] = fd[p]]
          /\ path' \in [Procs -> Seq(STRING)] /\ name' \in [Procs -> STRING \cup {None}]
      BY <1>4, KeepOK
    <3>2. /\ c \in Calls \cup {None} /\ ip[p] \in Slot \cup {None}
          /\ dp[p] \in Slot \cup {None} /\ old[p] \in Slot \cup {None}
      BY LocalFacts
    <3>3. OtherTypes'  BY <1>1, <1>2, <3>1 DEF OtherTypes
    <3>4. l \in Labels \ Putting /\ Go(p, l) /\ call' = [call EXCEPT ![p] = c]
      BY <1>4 DEF Labels, Putting
    <3> HIDE DEF l
    <3> QED BY <1>1, <1>2, <2>1, <3>1, <3>2, <3>3, <3>4, AfterGo
  <2>3. \A k \in Slot : Points(k, <<>>, ip[p], dp[p], old[p], cwd[p], fd[p]) = Pointers(p, k) + Hit(None, k)
    BY <1>1, SamePoints
  <2>4. \A k \in Slot : k \in HeldAt(IF <<>> = <<>> THEN l ELSE "put", l, <<>>, ip[p], dp[p]) <=> k \in Held(p)
    BY <1>1, <1>4 DEF HeldAt
  <2>5. itable' = itable  BY <1>4
  <2> HIDE DEF l
  <2> QED BY <1>1, <2>2, <2>3, <2>4, <2>5, StillOK
<1>5. CASE /\ c.k \notin {"close", "read", "write"} /\ (c.k \in {"open", "create"} => fd[p] = None)
           /\ call' = [call EXCEPT ![p] = c]
           /\ itable' = Root(p, itable, c.path).it /\ ip' = [ip EXCEPT ![p] = Root(p, itable, c.path).s]
           /\ path' = [path EXCEPT ![p] = c.path.names]
           /\ Go(p, "walk") /\ UNCHANGED <<dp, name, old, fd>>
  <2> DEFINE w == c.path
             r == Root(p, itable, w)
             t == r.s
  <2> HIDE DEF w
  <2>1. t \in Slot /\ TableOK(r.it, dinode) /\ Bumped(itable, r.it, t)
    <3>1. cwd[p] \in Slot /\ itable[cwd[p]].ref >= 1 /\ itable[cwd[p]].ref \in Nat  BY <1>1, <1>2, UsedBy
    <3>2. itable[cwd[p]].ref > 0 /\ TableOK(itable, dinode)  BY <3>1, TableFacts
    <3> QED BY <3>1, <3>2, RootOK
  <2>2. itable' = r.it /\ ip' = [ip EXCEPT ![p] = t]  BY <1>5 DEF w
  <2> HIDE DEF r, t
  <2>3. DiskGood'
    <3>1. DiskTypes' /\ FreeInodes' /\ OneOwner(dinode', Space') /\ dinode' = dinode  BY <1>1, DiskSame
    <3> QED BY <2>1, <2>2, <3>1 DEF DiskGood
  <2>4. LocalsAt("walk", c, t, dp[p], old[p], fd[p])
    BY <1>1, <1>5, <2>1, Constants DEF LocalsAt, Walked, Parented
  <2>5. After(p, "walk", <<>>, t, dp[p], old[p], cwd[p], fd[p])
    <3>1. /\ fd' = [fd EXCEPT ![p] = fd[p]] /\ dp' = [dp EXCEPT ![p] = dp[p]]
          /\ old' = [old EXCEPT ![p] = old[p]] /\ name' \in [Procs -> STRING \cup {None}]
      BY <1>5, KeepOK
    <3>2. path' \in [Procs -> Seq(STRING)]  BY <1>1, <1>5 DEF LocalTypes
    <3>3. OtherTypes'  BY <1>1, <1>2, <3>1, <3>2 DEF OtherTypes
    <3>4. /\ c \in Calls \cup {None} /\ t \in Slot \cup {None}
          /\ dp[p] \in Slot \cup {None} /\ old[p] \in Slot \cup {None}
      BY <2>1, LocalFacts
    <3>5. "walk" \in Labels \ Putting /\ Go(p, "walk") /\ call' = [call EXCEPT ![p] = c]
      BY <1>5 DEF Labels, Putting
    <3> QED BY <1>1, <1>2, <2>2, <2>4, <3>1, <3>3, <3>4, <3>5, AfterGo
  <2>6. ASSUME NEW k \in Slot
        PROVE  Points(k, <<>>, t, dp[p], old[p], cwd[p], fd[p]) = Pointers(p, k) + Hit(t, k)
    <3>1. Pointers(p, k) = Hit(cwd[p], k) + Hit(ip[p], k) + Hit(dp[p], k) + Hit(old[p], k) + HitFile(fd[p], k)
      BY <1>1, PointersNil
    <3>2. Points(k, <<>>, t, dp[p], old[p], cwd[p], fd[p]) =
            Hit(cwd[p], k) + Hit(t, k) + Hit(dp[p], k) + Hit(old[p], k) + HitFile(fd[p], k)
      BY PointsNil
    <3>3. /\ Hit(None, k) = 0 /\ Hit(t, k) \in {0, 1} /\ Hit(cwd[p], k) \in {0, 1}
          /\ Hit(dp[p], k) \in {0, 1} /\ Hit(old[p], k) \in {0, 1} /\ HitFile(fd[p], k) \in {0, 1}
      BY HitFacts
    <3> QED BY <1>1, <3>1, <3>2, <3>3
  <2>7. \A k \in Slot : k \in HeldAt(IF <<>> = <<>> THEN "walk" ELSE "put", "walk", <<>>, t, dp[p])
                          <=> IF k \in {} THEN itable[k].lock = p ELSE k \in Held(p)
    BY <1>1 DEF HeldAt
  <2>8. Changed(p, itable, {})  BY TableFacts DEF Changed
  <2>9. Moved(p, itable, {}, t, "walk", <<>>, t, dp[p], old[p], cwd[p], fd[p])
    BY <2>1, <2>2, <2>5, <2>6, <2>7, <2>8 DEF Moved
  <2> QED BY <2>3, <2>9, MovedOK
<1>6. \/ /\ c.k = "close" /\ fd[p] # None /\ fd' = [fd EXCEPT ![p] = None]
         /\ Done(p, <<fd[p].ip>>) /\ UNCHANGED itable
      \/ /\ c.k \in {"read", "write"} /\ fd[p] # None /\ call' = [call EXCEPT ![p] = c] /\ Go(p, c.k)
         /\ UNCHANGED <<path, ip, dp, name, old, itable, fd>>
      \/ /\ c.k \notin {"close", "read", "write"} /\ (c.k \in {"open", "create"} => fd[p] = None)
         /\ call' = [call EXCEPT ![p] = c]
         /\ itable' = Root(p, itable, c.path).it /\ ip' = [ip EXCEPT ![p] = Root(p, itable, c.path).s]
         /\ path' = [path EXCEPT ![p] = c.path.names]
         /\ Go(p, "walk") /\ UNCHANGED <<dp, name, old, fd>>
  BY BeginFacts
<1> QED BY <1>3, <1>4, <1>5, <1>6


-----------------------------------------------------------------------------
(* The theorems.                                                            *)

LEMMA InitTable == Init => TableInv
<1> SUFFICES ASSUME Init PROVE TableInv  OBVIOUS
<1>1. PICK t \in Trees : /\ dinode = t.dinode /\ dirent = t.dirent /\ bitmap = t.bitmap
                         /\ itable = t.itable /\ cwd = t.cwd /\ fd = t.fd
  BY DEF Init
<1>2. Sane(t)  BY <1>1, TreesAssumption
<1>3. /\ indirect = [b \in Block |-> Zeros] /\ call = [p \in Procs |-> None] /\ pc = [p \in Procs |-> "user"]
      /\ path = [p \in Procs |-> <<>>] /\ ip = [p \in Procs |-> None] /\ dp = [p \in Procs |-> None]
      /\ name = [p \in Procs |-> None] /\ old = [p \in Procs |-> None] /\ puts = [p \in Procs |-> <<>>]
      /\ after = [p \in Procs |-> "user"] /\ calls = MaxCalls /\ lost = {}
  BY DEF Init
<1>4. /\ dinode \in [Inum -> Dinode] /\ dirent \in [Inum -> Seq(DirEntry)] /\ bitmap \subseteq Block
      /\ itable \in [Slot -> TableEntry] /\ cwd \in [Procs -> Slot] /\ fd \in [Procs -> OpenFile \cup {None}]
      /\ OneOwner(dinode, [used |-> bitmap, ind |-> [b \in Block |-> Zeros]])
      /\ FreeInodes /\ OneEntry(itable) /\ CopiesRight(itable, dinode)
      /\ \A s \in Slot :
           LET e == itable[s]
           IN  /\ e.ref = Total([p \in Procs |-> One(cwd[p] = s) + One(fd[p] # None /\ fd[p].ip = s)])
               /\ e.ref > 0 => e.inum # None
               /\ e.valid => e.ino.type # "none"
               /\ e.lock = None
  BY <1>1, <1>2 DEF Sane, FreeInodes
<1>5. TypeOK
  <2>1. <<>> \in Seq(STRING) /\ <<>> \in Seq(Slot)  BY EmptySeq
  <2>2. "user" \in Labels  BY DEF Labels
  <2>3. indirect \in [Block -> [1 .. NINDIRECT -> Block \cup {None}]]  BY <1>3, ZerosFacts
  <2>4. MaxCalls \in 0 .. MaxCalls  BY InodesAssumption
  <2> QED BY <1>3, <1>4, <2>1, <2>2, <2>3, <2>4 DEF TypeOK
<1>6. \A p \in Procs : At(p) = "user" /\ pc[p] = "user" /\ puts[p] = <<>> /\ Len(puts[p]) = 0
  BY <1>3 DEF At, Putting
<1>7. PutsRight  BY <1>3, <1>6 DEF PutsRight, Putting
<1>8. LocalsRight  BY <1>3, <1>6 DEF LocalsRight, LocalsAt, Walked, Parented
<1>9. LocksRight
  <2>1. \A p \in Procs : Held(p) = {}  BY <1>6 DEF Held, HeldAt
  <2>2. \A s \in Slot : itable[s].lock = None  BY <1>4
  <2> QED BY <2>1, <2>2, Constants DEF LocksRight
<1>10. Counted
  <2> SUFFICES ASSUME NEW s \in Slot PROVE itable[s].ref = Total([p \in Procs |-> Pointers(p, s)])
    BY DEF Counted
  <2> DEFINE m == [p \in Procs |-> One(cwd[p] = s) + One(fd[p] # None /\ fd[p].ip = s)]
             n == [p \in Procs |-> Pointers(p, s)]
  <2>1. itable[s].ref = Total(m)  BY <1>4
  <2>2. ASSUME NEW p \in Procs PROVE n[p] = m[p]
    <3>1. Pointers(p, s) = Points(s, <<>>, None, None, None, cwd[p], fd[p])
      BY <1>3, <1>6, PointersPoints
    <3>2. Points(s, <<>>, None, None, None, cwd[p], fd[p]) =
            Hit(cwd[p], s) + Hit(None, s) + Hit(None, s) + Hit(None, s) + HitFile(fd[p], s)
      BY PointsNil
    <3>3. Hit(None, s) = 0 /\ Hit(cwd[p], s) \in {0, 1} /\ HitFile(fd[p], s) \in {0, 1}  BY HitFacts
    <3>4. Pointers(p, s) = Hit(cwd[p], s) + HitFile(fd[p], s)  BY <3>1, <3>2, <3>3
    <3> QED BY <3>4 DEF Hit, HitFile
  <2> HIDE DEF m, n
  <2>3. Total(n) = Total(m)  BY <2>2, SameTotal
  <2> QED BY <2>1, <2>3 DEF n
<1>11. TableOK(itable, dinode)  BY <1>4 DEF TableOK
<1>12. BlocksOwned  BY <1>3, <1>4 DEF BlocksOwned, Space
<1> QED BY <1>4, <1>5, <1>7, <1>8, <1>9, <1>10, <1>11, <1>12 DEF TableInv

LEMMA SameTable == ASSUME TableInv, UNCHANGED vars PROVE TableInv'
<1>1. /\ UNCHANGED diskVars /\ itable' = itable /\ pc' = pc /\ puts' = puts /\ after' = after /\ call' = call
      /\ ip' = ip /\ dp' = dp /\ old' = old /\ cwd' = cwd /\ fd' = fd /\ path' = path /\ name' = name
      /\ calls' = calls /\ lost' = lost
  BY DEF vars, localVars
<1>2. DiskTypes' /\ FreeInodes' /\ OneOwner(dinode', Space') /\ dinode' = dinode  BY <1>1, DiskSame
<1>3. TypeOK'  BY <1>1 DEF TableInv, TypeOK, diskVars
<1>4. PutsRight'  BY <1>1 DEF TableInv, PutsRight
<1>5. \A p : At(p)' = At(p) /\ Held(p)' = Held(p) /\ \A s : Pointers(p, s)' = Pointers(p, s)
  BY <1>1 DEF At, Held, Pointers
<1>6. LocalsRight'  BY <1>1, <1>5 DEF TableInv, LocalsRight
<1>7. LocksRight'  BY <1>1, <1>5 DEF TableInv, LocksRight
<1>8. Counted'  BY <1>1, <1>5 DEF TableInv, Counted
<1>9. TableOK(itable, dinode)'  BY <1>1, <1>2, TableFacts
<1> QED BY <1>2, <1>3, <1>4, <1>6, <1>7, <1>8, <1>9 DEF TableInv, BlocksOwned

LEMMA NextTable == TableInv /\ [Next]_vars => TableInv'
<1> SUFFICES ASSUME TableInv, [Next]_vars PROVE TableInv'  OBVIOUS
<1>1. ASSUME NEW p \in Procs, Step(p) PROVE TableInv'
  <2>1. CASE namex(p)  BY <2>1, WalkOK, WalkEndOK DEF namex
  <2>2. CASE create(p)
    BY <2>2, CreateLookupOK, CreateExistingOK, CreateAllocOK, CreateMadeOK, CreateFailsOK DEF create
  <2>3. CASE sys_open(p)  BY <2>3, OpenLockOK, OpenedOK DEF sys_open
  <2>4. CASE filewrite(p)  BY <2>4, FilewriteOK
  <2>5. CASE fileread(p)  BY <2>5, FilereadOK
  <2>6. CASE sys_chdir(p)  BY <2>6, ChdirOK
  <2>7. CASE sys_unlink(p)  BY <2>7, UnlinkLookupOK, UnlinkEntryOK, UnlinkInodeOK DEF sys_unlink
  <2>8. CASE sys_link(p)  BY <2>8, LinkCountOK, LinkEntryOK, LinkBadOK DEF sys_link
  <2>9. CASE iput(p)  BY <2>9, IputOK
  <2> QED BY <1>1, <2>1, <2>2, <2>3, <2>4, <2>5, <2>6, <2>7, <2>8, <2>9 DEF Step
<1>2. ASSUME NEW p \in Procs, NEW c \in Calls, Begin(p, c) PROVE TableInv'  BY <1>2, BeginOK
<1>3. CASE Finished  BY <1>3, SameTable DEF Finished
<1>4. CASE UNCHANGED vars  BY <1>4, SameTable
<1> QED BY <1>1, <1>2, <1>3, <1>4 DEF Next

\* What holds between any two steps of any calls: the types, what each label of a call
\* has in its local variables and locked, the counts of the inode table and what is in
\* it, and whose the blocks are.
THEOREM TableIsInvariant == Spec => []TableInv
BY InitTable, NextTable, PTL DEF Spec

\* The lock that iput() takes when it has the last reference is free: who has locked an
\* entry points to it, and the reference that is put is another pointer.
LEMMA LastUnlocked ==
  ASSUME TableInv, NEW p \in Procs, pc[p] = "put", itable[Head(puts[p])].ref = 1
  PROVE  itable[Head(puts[p])].lock = None
<1> DEFINE s == Head(puts[p])
           q == itable[s].lock
           n == [x \in Procs |-> Pointers(x, s)]
<1>1. s \in Slot /\ puts[p] # <<>> /\ Len(puts[p]) \in {1, 2} /\ s = puts[p][1]
      /\ Held(p) = HeldAt("put", after[p], puts[p], ip[p], dp[p])
      /\ LocalsAt(after[p], call[p], ip[p], dp[p], old[p], fd[p])
  BY AtPut DEF Putting
<1>2. SUFFICES ASSUME q # None PROVE FALSE  OBVIOUS
<1>3. q \in Procs /\ Pointers(q, s) >= 1  BY <1>1, <1>2, LockedUsed
<1>4. Counted /\ LocalTypes /\ LocksRight  BY TableFacts DEF TableInv
<1>5. n \in [Procs -> 0 .. MaxPointers]  BY PointersType
<1>6. Pointers(p, s) >= 1  BY <1>1, <1>4, UsedBy
<1>7. q = p => Pointers(p, s) >= 2
  <2> SUFFICES ASSUME q = p PROVE Pointers(p, s) >= 2  OBVIOUS
  <2>1. s \in Held(p)  BY <1>1, <1>4 DEF LocksRight
  <2>2. ip[p] = s  BY <1>1, <2>1 DEF HeldAt
  <2>3. Pointers(p, s) = One(cwd[p] = s) + One(ip[p] = s) + One(dp[p] = s) + One(old[p] = s)
          + One(fd[p] # None /\ fd[p].ip = s)
          + One(Len(puts[p]) >= 1 /\ puts[p][1] = s) + One(Len(puts[p]) >= 2 /\ puts[p][2] = s)
    BY DEF Pointers
  <2>4. One(ip[p] = s) = 1 /\ One(Len(puts[p]) >= 1 /\ puts[p][1] = s) = 1  BY <1>1, <2>2 DEF One
  <2>5. \A b : One(b) \in {0, 1}  BY DEF One
  <2> HIDE DEF s
  <2> QED BY <2>3, <2>4, <2>5
<1>8. Total(n) >= 2
  <2>1. n[p] = Pointers(p, s) /\ n[q] = Pointers(q, s)  BY <1>3
  <2> HIDE DEF n, q, s
  <2>2. n[p] >= 1 /\ n[q] >= 1 /\ (p = q => n[p] >= 2)  BY <1>3, <1>6, <1>7, <2>1
  <2> QED BY <1>3, <1>5, <2>2, CountedTwice
<1>9. itable[s].ref = Total(n)  BY <1>1, <1>4 DEF Counted
<1>10. itable[s].ref = 1  OBVIOUS
<1> HIDE DEF s, n, q
<1>11. Total(n) = 1  BY <1>9, <1>10
<1> QED BY <1>8, <1>11

\* The inode table: an entry is counted as often as it is pointed to, an inode has one
\* entry at most, and a valid copy is what is on the disk; and the lock that iput() takes
\* for the last reference is free.
THEOREM ReferencesAreCounted == Spec => []TableRight
<1>1. TableInv => TableRight
  <2> SUFFICES ASSUME TableInv PROVE TableRight  OBVIOUS
  <2>1. TypeOK /\ Counted /\ TableOK(itable, dinode)  BY DEF TableInv
  <2>2. ASSUME NEW p \in Procs, pc[p] = "put"
        PROVE  LET e == itable[Head(puts[p])]
               IN  e.ref = 1 /\ e.valid /\ e.ino.nlink = 0 => e.lock = None
    BY <2>2, LastUnlocked
  <2> QED BY <2>1, <2>2 DEF TableRight, Counted, TableOK
<1> QED BY <1>1, TableIsInvariant, PTL

\* A block of the disk is in use by one inode at most, and only then marked so.
THEOREM BlocksHaveOneOwner == Spec => []BlocksOwned
<1>1. TableInv => BlocksOwned  BY DEF TableInv
<1> QED BY <1>1, TableIsInvariant, PTL

=============================================================================
