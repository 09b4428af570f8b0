----------------------------- MODULE BcacheProofs -----------------------------
(***************************************************************************)
(* Theorems about the buffer cache and the disk driver under it, for any   *)
(* number of processes, buffers, blocks and descriptors, and any contents: *)
(* a block is in one buffer, no descriptor is lost or shared, no sleeper   *)
(* misses its wake-up, and the cache is an array of blocks, each of which  *)
(* one process has at a time (BlockStore).                                 *)
(***************************************************************************)
EXTENDS Bcache, FiniteSetTheorems, TLAPS

Disking == {"rw", "desc_sleep", "disk_sleep", "disk_wait"}
Waits(p) == pc[p] \in {"disk_sleep", "disk_wait"}

\* A process uses the buffer of the block it asked for; a valid one has a block;
\* every buffer is on the list.
Uses ==
  /\ \A p \in Procs : pc[p] = "idle" <=> buf[p] = None
  /\ \A p \in Procs : buf[p] # None => want[p] = blockno[buf[p]] /\ want[p] # None
  /\ \A b \in Bufs : valid[b] => blockno[b] # None
  /\ \A b \in Bufs : \E i \in DOMAIN lru : lru[i] = b

Once == \A b, c \in Bufs : blockno[b] = blockno[c] /\ blockno[b] # None => b = c

Users(b) == {p \in Procs : buf[p] = b}
Counted == \A b \in Bufs : refcnt[b] = Cardinality(Users(b)) + (IF b \in pinned THEN 1 ELSE 0)

\* Who reads, writes or has a buffer holds its sleep lock; it is read while it is
\* not valid, and written while it is.
Locks ==
  /\ \A p \in Procs : pc[p] \in Disking \cup {"own"} => locked[buf[p]] /\ pid[buf[p]] = p
  /\ \A p \in Procs : pc[p] \in Disking => (valid[buf[p]] <=> write[p])
  /\ \A p \in Procs : pc[p] = "own" => valid[buf[p]]
  /\ \A p \in Procs : write[p] => pc[p] \in Disking

\* The three descriptors of a request that waits.
IsChain(p) ==
  LET i == idx[p][1]
      j == idx[p][2]
      k == idx[p][3]
  IN  /\ {i, j, k} \subseteq Desc
      /\ i # j /\ i # k /\ j # k
      /\ idx[p] = <<i, j, k>>
      /\ desc[i] = [addr |-> i, next |-> j]
      /\ desc[j] = [addr |-> buf[p], next |-> k]
      /\ desc[k] = [addr |-> i, next |-> None]
      /\ info[i].b = buf[p]
      /\ ops[i] = [write |-> write[p], sector |-> blockno[buf[p]]]

Chains ==
  /\ \A p \in Procs : Waits(p) => IsChain(p)
  /\ \A p \in Procs : ~Waits(p) => idx[p] = <<>>

\* A request is told to the device, or answered and not yet seen by the handler,
\* as long as its buffer is marked, and is in one of the rings only once.
Asked(p) == idx[p][1] \in avail
Answered(p) == \E n \in 1 .. Len(used) : used[n] = idx[p][1]

Queues ==
  /\ \A i \in avail : \E p \in Procs : Waits(p) /\ idx[p][1] = i
  /\ \A n \in 1 .. Len(used) : \E p \in Procs : Waits(p) /\ idx[p][1] = used[n]
  /\ \A n \in 1 .. Len(used) : used[n] \notin avail
  /\ \A m, n \in 1 .. Len(used) : used[m] = used[n] => m = n
  /\ \A p \in Procs : Waits(p) => (disk[buf[p]] <=> Asked(p) \/ Answered(p))

\* A buffer that is not pinned is in its place; and so is one whose request the
\* device has carried out.
Contents ==
  /\ \A b \in Bufs : valid[b] /\ b \notin pinned => data[b] = home[blockno[b]]
  /\ \A p \in Procs : Waits(p) /\ ~Asked(p) => data[buf[p]] = home[blockno[buf[p]]]

CacheInv ==
  /\ TypeOK
  /\ NUM \in Sizes
  /\ Uses
  /\ Once
  /\ Counted
  /\ Locks
  /\ Chains
  /\ OwnedOnce
  /\ Queues
  /\ Contents
  /\ NobodyForgotten

-----------------------------------------------------------------------------
(* The operators.                                                           *)

Less == {r \in Nat \X Nat : r[1] < r[2]}

LEMMA LessDef == ASSUME NEW x \in Nat, NEW y \in Nat, x < y PROVE <<x, y>> \in Less
BY DEF Less

\* A set of numbers has a lowest one, so alloc_desc() finds it.
LEMMA LowestIn ==
  ASSUME NEW S, S \subseteq Nat, S # {}
  PROVE  Lowest(S) \in S
<1>1. IsWellFoundedOn(Less, Nat)  BY NatLessThanWellFounded DEF OpToRel, Less
<1>2. PICK x \in S : \A y \in S : ~(<<y, x>> \in Less)  BY <1>1, WFMin, Zenon
<1>3. ASSUME NEW y \in S PROVE x <= y
  <2>1. x \in Nat /\ y \in Nat  OBVIOUS
  <2>2. ~(y < x)  BY <1>2, <2>1, LessDef
  <2> QED BY <2>1, <2>2
<1>4. \E z \in S : \A y \in S : z <= y  BY <1>3
<1> QED BY <1>4 DEF Lowest

LEMMA SizesNat == NUM \in Sizes => NUM \in Nat /\ Desc \subseteq Nat /\ IsFiniteSet(Desc)
<1> SUFFICES ASSUME NUM \in Sizes PROVE NUM \in Nat /\ Desc \subseteq Nat /\ IsFiniteSet(Desc)
  OBVIOUS
<1>1. NUM \in Nat  BY VirtioAssumption
<1>2. Desc \subseteq Nat  BY <1>1 DEF Desc
<1>3. IsFiniteSet(Desc)  BY <1>1, FS_Interval DEF Desc
<1> QED BY <1>1, <1>2, <1>3

LEMMA LessOne ==
  ASSUME NEW S, NEW x, IsFiniteSet(S)
  PROVE  /\ IsFiniteSet(S \ {x}) /\ Cardinality(S \ {x}) \in Nat
         /\ Cardinality(S \ {x}) >= Cardinality(S) - 1
<1>1. IsFiniteSet(S \ {x}) /\ Cardinality(S) \in Nat /\ Cardinality(S \ {x}) \in Nat
  BY FS_RemoveElement, FS_CardinalityType
<1>2. Cardinality(S \ {x}) = IF x \in S THEN Cardinality(S) - 1 ELSE Cardinality(S)
  BY FS_RemoveElement
<1> QED BY <1>1, <1>2

\* Where there are three free descriptors, alloc3_desc() gets three.
LEMMA ThreeFree ==
  ASSUME TypeOK, NUM \in Sizes, Cardinality(free) >= 3
  PROVE  \E i, j, k \in free : Three = <<i, j, k>> /\ i # j /\ i # k /\ j # k
<1> DEFINE i == Lowest(free)
           j == Lowest(free \ {i})
           k == Lowest(free \ {i, j})
<1>1. free \subseteq Desc /\ Desc \subseteq Nat /\ IsFiniteSet(Desc)
  BY SizesNat DEF TypeOK, DiskTypeOK
<1>2. IsFiniteSet(free) /\ Cardinality(free) \in Nat  BY <1>1, FS_Subset, FS_CardinalityType
<1>3. /\ IsFiniteSet(free \ {i}) /\ Cardinality(free \ {i}) \in Nat
      /\ Cardinality(free \ {i}) >= Cardinality(free) - 1
  BY <1>2, LessOne
<1>4. free \ {i, j} = (free \ {i}) \ {j}  OBVIOUS
<1>5. /\ IsFiniteSet(free \ {i, j}) /\ Cardinality(free \ {i, j}) \in Nat
      /\ Cardinality(free \ {i, j}) >= Cardinality(free \ {i}) - 1
  BY <1>3, <1>4, LessOne
<1> HIDE DEF i, j, k
<1>6. free # {} /\ free \ {i} # {} /\ free \ {i, j} # {}
  <2>1. Cardinality(free \ {i, j}) # 0  BY <1>2, <1>3, <1>5
  <2>2. Cardinality(free \ {i}) # 0  BY <1>2, <1>3
  <2> QED BY <1>2, <1>3, <1>5, <2>1, <2>2, FS_EmptySet
<1>7. i \in free  BY <1>1, <1>6, LowestIn DEF i
<1>8. j \in free \ {i}
  <2>1. free \ {i} \subseteq Nat  BY <1>1
  <2> QED BY <2>1, <1>6, LowestIn DEF j
<1>9. k \in free \ {i, j}
  <2>1. free \ {i, j} \subseteq Nat  BY <1>1
  <2> QED BY <2>1, <1>6, LowestIn DEF k
<1>10. Three = <<i, j, k>>  BY DEF Three, i, j, k
<1> QED BY <1>7, <1>8, <1>9, <1>10

LEMMA Joined ==
  ASSUME NEW S, NEW s \in Seq(S), NEW t \in Seq(S)
  PROVE  /\ s \o t \in Seq(S) /\ Len(s \o t) = Len(s) + Len(t)
         /\ \A n \in 1 .. Len(s) : (s \o t)[n] = s[n]
         /\ \A n \in 1 .. Len(t) : (s \o t)[Len(s) + n] = t[n]
OBVIOUS

\* The list after brelse() has moved a buffer to its front: all are still on it.
LEMMA MoveToFrontKeeps ==
  ASSUME NEW b \in Bufs, lru \in Seq(Bufs), \A c \in Bufs : \E i \in DOMAIN lru : lru[i] = c
  PROVE  /\ MoveToFront(b) \in Seq(Bufs)
         /\ \A c \in Bufs : \E i \in DOMAIN MoveToFront(b) : MoveToFront(b)[i] = c
<1> DEFINE i == CHOOSE i \in DOMAIN lru : lru[i] = b
           s == SubSeq(lru, 1, i - 1)
           t == SubSeq(lru, i + 1, Len(lru))
<1>1. i \in 1 .. Len(lru) /\ lru[i] = b  OBVIOUS
<1>2. MoveToFront(b) = <<b>> \o (s \o t)  BY DEF MoveToFront, RemoveAt
<1> HIDE DEF i
<1>3. s \in Seq(Bufs) /\ Len(s) = i - 1 /\ \A n \in 1 .. i - 1 : s[n] = lru[n]
  BY <1>1
<1>4. /\ t \in Seq(Bufs) /\ Len(t) = Len(lru) - i
      /\ \A n \in 1 .. Len(lru) - i : t[n] = lru[i + n]
  BY <1>1
<1> HIDE DEF s, t
<1> DEFINE u == s \o t
           m == <<b>> \o u
<1>5. /\ u \in Seq(Bufs) /\ Len(u) = Len(s) + Len(t)
      /\ \A n \in 1 .. Len(s) : u[n] = s[n]
      /\ \A n \in 1 .. Len(t) : u[Len(s) + n] = t[n]
  <2>1. s \in Seq(Bufs) /\ t \in Seq(Bufs)  BY <1>3, <1>4
  <2> QED BY <2>1, Joined, SMTT(30)
<1> HIDE DEF u
<1>6. m \in Seq(Bufs) /\ m[1] = b /\ Len(m) = 1 + Len(u) /\ \A n \in 1 .. Len(u) : m[1 + n] = u[n]
  <2>1. u \in Seq(Bufs)  BY <1>5
  <2>2. <<b>> \in Seq(Bufs) /\ Len(<<b>>) = 1 /\ <<b>>[1] = b  OBVIOUS
  <2> QED BY <2>1, <2>2, Joined
<1> HIDE DEF m
<1>7. Len(m) = Len(lru)  BY <1>1, <1>3, <1>4, <1>5, <1>6
<1>8. ASSUME NEW n \in 1 .. Len(s) PROVE m[n + 1] = s[n]
  <2>1. n \in 1 .. Len(u) /\ 1 + n = n + 1  BY <1>3, <1>4, <1>5
  <2> QED BY <1>5, <1>6, <2>1
<1>9. ASSUME NEW n \in 1 .. Len(t) PROVE m[Len(s) + n + 1] = t[n]
  <2>1. Len(s) + n \in 1 .. Len(u)  BY <1>3, <1>4, <1>5, SMTT(30)
  <2>2. m[1 + (Len(s) + n)] = u[Len(s) + n]  BY <1>6, <2>1
  <2>3. 1 + (Len(s) + n) = Len(s) + n + 1  BY <1>3, <1>4
  <2> QED BY <1>5, <2>2, <2>3
<1>10. ASSUME NEW c \in Bufs PROVE \E n \in DOMAIN m : m[n] = c
  <2>0. DOMAIN m = 1 .. Len(lru)  BY <1>6, <1>7
  <2>1. PICK n \in 1 .. Len(lru) : lru[n] = c  OBVIOUS
  <2>2. CASE n < i
    <3>1. n \in 1 .. Len(s) /\ n + 1 \in 1 .. Len(lru)  BY <1>1, <1>3, <2>2
    <3>2. m[n + 1] = c  BY <1>3, <1>8, <2>1, <3>1
    <3> QED BY <2>0, <3>1, <3>2
  <2>3. CASE n = i
    <3>1. m[1] = c /\ 1 \in 1 .. Len(lru)  BY <2>1, <2>3, <1>1, <1>6
    <3> QED BY <2>0, <3>1
  <2>4. CASE n > i
    <3> DEFINE l == n - i
    <3>1. l \in 1 .. Len(t) /\ i + l = n /\ Len(s) + l + 1 = n  BY <1>1, <1>3, <1>4, <2>4
    <3>2. t[l] = lru[n]  BY <1>4, <3>1
    <3>3. m[n] = t[l]  BY <1>9, <3>1
    <3> QED BY <2>0, <2>1, <3>2, <3>3
  <2> QED BY <1>1, <2>1, <2>2, <2>3, <2>4
<1> QED BY <1>2, <1>6, <1>10 DEF m, u

\* The list that binit() makes has every buffer.
LEMMA ListInit ==
  ASSUME Init
  PROVE  lru \in Seq(Bufs) /\ \A b \in Bufs : \E i \in DOMAIN lru : lru[i] = b
<1> DEFINE n == Cardinality(Bufs)
<1>1. n \in Nat /\ ExistsBijection(1 .. n, Bufs)  BY VirtioAssumption, FS_CardinalityType
<1>2. PICK f \in [1 .. n -> Bufs] : IsInjective(f)
  BY <1>1 DEF ExistsBijection, Bijection, Injection, IsInjective
<1>3. lru \in [1 .. n -> Bufs] /\ IsInjective(lru)  BY <1>2 DEF Init, SetToSeq
<1> HIDE DEF n
<1>4. lru \in Seq(Bufs)  BY <1>1, <1>3
<1>5. lru \in Injection(1 .. n, Bufs)  BY <1>3 DEF Injection, IsInjective
<1>6. lru \in Surjection(1 .. n, Bufs)
  <2>1. IsFiniteSet(1 .. n) /\ Cardinality(1 .. n) = n  BY <1>1, FS_Interval
  <2>2. IsFiniteSet(Bufs)  BY VirtioAssumption
  <2> QED BY <1>5, <2>1, <2>2, FS_Injection DEF n
<1>7. \A b \in Bufs : \E i \in DOMAIN lru : lru[i] = b  BY <1>3, <1>6 DEF Surjection
<1> QED BY <1>4, <1>7

-----------------------------------------------------------------------------
(* Every variable keeps its type.                                           *)

LEMMA TypeInit == Init => TypeOK
<1> SUFFICES ASSUME Init PROVE TypeOK  OBVIOUS
<1> USE DEF Init, VirtioInit
<1>1. DiskTypeOK
  <2>1. NUM \in Nat /\ IsFiniteSet(Desc)  BY SizesNat
  <2>2. desc \in [Desc -> [addr : Desc \cup Bufs \cup {None}, next : Desc \cup {None}]]
    BY DEF NoDesc
  <2>3. info \in [Desc -> [b : Bufs \cup {None}, status : {0, 255}]]  OBVIOUS
  <2>4. ops \in [Desc -> [write : BOOLEAN, sector : Blocks \cup {None}]]  BY DEF NoReq
  <2>5. /\ write \in [Procs -> BOOLEAN] /\ idx \in [Procs -> Seq(Desc)]
        /\ disk \in [Bufs -> BOOLEAN] /\ data \in [Bufs -> Vals]
    OBVIOUS
  <2>6. free \in SUBSET Desc /\ avail \in SUBSET Desc /\ used \in Seq(Desc)  OBVIOUS
  <2>7. intr \in BOOLEAN /\ irq \in BOOLEAN /\ home \in [Blocks -> Vals]  OBVIOUS
  <2> QED BY <2>2, <2>3, <2>4, <2>5, <2>6, <2>7 DEF DiskTypeOK
<1>2. lru \in Seq(Bufs)  BY ListInit
<1>3. /\ pc \in [Procs -> Labels] /\ buf \in [Procs -> Bufs \cup {None}]
      /\ want \in [Procs -> Blocks \cup {None}]
  BY DEF Labels
<1>4. /\ blockno \in [Bufs -> Blocks \cup {None}] /\ valid \in [Bufs -> BOOLEAN]
      /\ refcnt \in [Bufs -> Nat] /\ locked \in [Bufs -> BOOLEAN]
      /\ pid \in [Bufs -> Procs \cup {None}]
  OBVIOUS
<1>5. pinned \in SUBSET Bufs /\ panicked \in BOOLEAN  OBVIOUS
<1> QED BY <1>1, <1>2, <1>3, <1>4, <1>5 DEF TypeOK

\* What Wake does: it moves some sleepers on, and nobody else.
LEMMA WakeType ==
  ASSUME NEW l \in Labels, NEW to \in Labels, NEW ps, pc \in [Procs -> Labels]
  PROVE  Wake(l, ps, to) \in [Procs -> Labels]
BY DEF Wake

LEMMA HasBuf ==
  ASSUME CacheInv, NEW p \in Procs, pc[p] # "idle"
  PROVE  buf[p] \in Bufs /\ blockno[buf[p]] \in Blocks /\ want[p] = blockno[buf[p]]
<1>1. buf[p] # None  BY DEF CacheInv, Uses
<1>2. buf[p] \in Bufs  BY <1>1 DEF CacheInv, TypeOK
<1>3. want[p] = blockno[buf[p]] /\ want[p] # None  BY <1>1 DEF CacheInv, Uses
<1>4. want[p] \in Blocks  BY <1>3 DEF CacheInv, TypeOK
<1> QED BY <1>2, <1>3, <1>4

LEMMA UsersFinite ==
  ASSUME NEW b
  PROVE  IsFiniteSet(Users(b)) /\ Cardinality(Users(b)) \in Nat
<1>1. Users(b) \subseteq Procs  BY DEF Users
<1> QED BY <1>1, VirtioAssumption, FS_Subset, FS_CardinalityType

\* Each user of a buffer is counted, and so is the pin.
LEMMA Referenced ==
  ASSUME CacheInv, NEW p \in Procs, pc[p] # "idle"
  PROVE  refcnt[buf[p]] - 1 \in Nat /\ (buf[p] \in pinned => refcnt[buf[p]] - 2 \in Nat)
<1> DEFINE b == buf[p]
<1>1. b \in Bufs  BY HasBuf
<1>2. p \in Users(b)  BY DEF Users
<1>3. IsFiniteSet(Users(b)) /\ Cardinality(Users(b)) \in Nat /\ Cardinality(Users(b)) # 0
  BY <1>2, UsersFinite, FS_EmptySet
<1>4. refcnt[b] = Cardinality(Users(b)) + (IF b \in pinned THEN 1 ELSE 0)
  BY <1>1 DEF CacheInv, Counted
<1> QED BY <1>3, <1>4

LEMMA Unreferenced ==
  ASSUME CacheInv, NEW b \in Bufs, refcnt[b] = 0
  PROVE  b \notin pinned /\ \A p \in Procs : buf[p] # b
<1>1. refcnt[b] = Cardinality(Users(b)) + (IF b \in pinned THEN 1 ELSE 0)
  BY DEF CacheInv, Counted
<1>2. b \notin pinned /\ Cardinality(Users(b)) = 0  BY <1>1, UsersFinite
<1>3. Users(b) = {}  BY <1>2, UsersFinite, FS_EmptySet
<1> QED BY <1>2, <1>3 DEF Users

\* What a waiting process finds in its descriptors.
LEMMA ChainOf ==
  ASSUME CacheInv, NEW p \in Procs, Waits(p)
  PROVE  /\ buf[p] \in Bufs
         /\ idx[p][1] \in Desc /\ idx[p][2] \in Desc /\ idx[p][3] \in Desc
         /\ idx[p][1] # idx[p][2] /\ idx[p][1] # idx[p][3] /\ idx[p][2] # idx[p][3]
         /\ Len(idx[p]) = 3
         /\ desc[idx[p][1]] = [addr |-> idx[p][1], next |-> idx[p][2]]
         /\ desc[idx[p][2]] = [addr |-> buf[p], next |-> idx[p][3]]
         /\ desc[idx[p][3]] = [addr |-> idx[p][1], next |-> None]
         /\ info[idx[p][1]].b = buf[p]
         /\ ops[idx[p][1]] = [write |-> write[p], sector |-> blockno[buf[p]]]
         /\ Chain(idx[p][1]) = {idx[p][1], idx[p][2], idx[p][3]}
<1>1. IsChain(p)  BY DEF CacheInv, Chains
<1>2. buf[p] \in Bufs  BY HasBuf DEF Waits
<1>3. Len(idx[p]) = 3  BY <1>1 DEF IsChain
<1>4. Chain(idx[p][1]) = {idx[p][1], idx[p][2], idx[p][3]}  BY <1>1 DEF IsChain, Chain
<1> QED BY <1>1, <1>2, <1>3, <1>4 DEF IsChain

\* What the device follows from a head it has been told of.
LEMMA AskedChain ==
  ASSUME CacheInv, NEW id \in avail
  PROVE  \E p \in Procs :
           /\ Waits(p) /\ idx[p][1] = id
           /\ ops[desc[id].addr] = [write |-> write[p], sector |-> blockno[buf[p]]]
           /\ desc[desc[id].next].addr = buf[p]
           /\ desc[desc[desc[id].next].next].addr = id
<1>1. PICK p \in Procs : Waits(p) /\ idx[p][1] = id  BY DEF CacheInv, Queues
<1>2. /\ desc[id] = [addr |-> id, next |-> idx[p][2]]
      /\ desc[idx[p][2]] = [addr |-> buf[p], next |-> idx[p][3]]
      /\ desc[idx[p][3]] = [addr |-> id, next |-> None]
      /\ ops[id] = [write |-> write[p], sector |-> blockno[buf[p]]]
  BY <1>1, ChainOf
<1> QED BY <1>1, <1>2

LEMMA InfoType ==
  ASSUME NEW S, NEW T, NEW r \in [b : S, status : T]
  PROVE  /\ \A x \in S : /\ [r EXCEPT !.b = x] \in [b : S, status : T]
                         /\ [r EXCEPT !.b = x].b = x
         /\ \A t \in T : /\ [r EXCEPT !.status = t] \in [b : S, status : T]
                         /\ [r EXCEPT !.status = t].b = r.b
OBVIOUS

\* The disk driver's part of it.
LEMMA DiskTypeStep ==
  ASSUME CacheInv, NEW p \in Procs, NUM' = NUM, valid' \in [Bufs -> BOOLEAN],
         UNCHANGED <<refcnt, lockVars, lru, want, pinned, panicked>>
  PROVE  /\ RwSubmit(p) => TypeOK'
         /\ RwNoDesc(p) => TypeOK'
         /\ RwDone(p) => TypeOK'
         /\ RwWait(p) => TypeOK'
<1>a. ASSUME Waits(p) PROVE idx[p][1] \in Desc /\ Chain(idx[p][1]) \subseteq Desc
  <2>1. Chain(idx[p][1]) = {idx[p][1], idx[p][2], idx[p][3]}  BY <1>a, ChainOf
  <2>2. idx[p][1] \in Desc /\ idx[p][2] \in Desc /\ idx[p][3] \in Desc  BY <1>a, ChainOf
  <2> QED BY <2>1, <2>2
<1> USE DEF CacheInv, TypeOK, DiskTypeOK, bufVars, driverVars, deviceVars, lockVars
<1>0. Desc' = Desc  BY DEF Desc
<1>1. ASSUME RwSubmit(p) PROVE TypeOK'
  <2>1. PICK i, j, k \in free : Three = <<i, j, k>>  BY <1>1, ThreeFree DEF RwSubmit
  <2>2. buf[p] \in Bufs /\ blockno[buf[p]] \in Blocks  BY <1>1, HasBuf DEF RwSubmit
  <2>3. idx' = [idx EXCEPT ![p] = <<i, j, k>>] /\ <<i, j, k>> \in Seq(Desc)
    BY <1>1, <2>1 DEF RwSubmit
  <2>4. idx' \in [Procs -> Seq(Desc)]  BY <2>3
  <2>5. desc' \in [Desc -> [addr : Desc \cup Bufs \cup {None}, next : Desc \cup {None}]]
    <3>1. desc' = [desc EXCEPT ![i] = [addr |-> i, next |-> j],
                               ![j] = [addr |-> buf[p], next |-> k],
                               ![k] = [addr |-> i, next |-> None]]
      BY <1>1, <2>1 DEF RwSubmit
    <3> QED BY <2>1, <2>2, <3>1
  <2>6. info' \in [Desc -> [b : Bufs \cup {None}, status : {0, 255}]]
    <3>1. info' = [info EXCEPT ![i] = [b |-> buf[p], status |-> 255]]
      BY <1>1, <2>1 DEF RwSubmit
    <3> QED BY <2>1, <2>2, <3>1
  <2>7. ops' \in [Desc -> [write : BOOLEAN, sector : Blocks \cup {None}]]
    <3>1. ops' = [ops EXCEPT ![i] = [write |-> write[p], sector |-> blockno[buf[p]]]]
      BY <1>1, <2>1 DEF RwSubmit
    <3> QED BY <2>1, <2>2, <3>1
  <2>8. free' \in SUBSET Desc /\ avail' \in SUBSET Desc
    <3>1. free' = free \ {i, j, k} /\ avail' = avail \cup {i}  BY <1>1, <2>1 DEF RwSubmit
    <3> QED BY <2>1, <3>1
  <2>9. pc' \in [Procs -> Labels] /\ disk' \in [Bufs -> BOOLEAN]
    BY <1>1, <2>2 DEF RwSubmit, Labels
  <2> QED BY <1>0, <1>1, <2>4, <2>5, <2>6, <2>7, <2>8, <2>9 DEF RwSubmit
<1>2. ASSUME RwNoDesc(p) PROVE TypeOK'
  <2>1. WakeFree \in [Procs -> Labels]  BY WakeType DEF WakeFree, Labels
  <2>2. pc' \in [Procs -> Labels]
    <3>1. "desc_sleep" \in Labels  BY DEF Labels
    <3>2. (IF free = {} THEN pc ELSE WakeFree) \in [Procs -> Labels]  BY <2>1
    <3> QED BY <1>2, <3>1, <3>2 DEF RwNoDesc
  <2> QED BY <1>0, <1>2, <2>2 DEF RwNoDesc
<1>3. ASSUME RwDone(p) PROVE TypeOK'
  <2>0. Waits(p)  BY <1>3 DEF RwDone, Waits
  <2>1. idx[p][1] \in Desc /\ Chain(idx[p][1]) \subseteq Desc  BY <1>a, <2>0
  <2>2. WakeFree \in [Procs -> Labels]  BY WakeType DEF WakeFree, Labels
  <2>3. pc' \in [Procs -> Labels]
    <3>1. "own" \in Labels  BY DEF Labels
    <3> QED BY <1>3, <2>2, <3>1 DEF RwDone
  <2>4. desc' \in [Desc -> [addr : Desc \cup Bufs \cup {None}, next : Desc \cup {None}]]
    <3>1. NoDesc \in [addr : Desc \cup Bufs \cup {None}, next : Desc \cup {None}]
      BY DEF NoDesc
    <3>2. desc' = [i \in Desc |-> IF i \in Chain(idx[p][1]) THEN NoDesc ELSE desc[i]]
      BY <1>3 DEF RwDone
    <3> QED BY <3>1, <3>2
  <2>5. info' \in [Desc -> [b : Bufs \cup {None}, status : {0, 255}]]
    <3> DEFINE i == idx[p][1]
    <3>1. info' = [info EXCEPT ![i] = [info[i] EXCEPT !.b = None]]  BY <1>3 DEF RwDone
    <3> HIDE DEF i
    <3>2. i \in Desc  BY <2>1 DEF i
    <3>3. info[i] \in [b : Bufs \cup {None}, status : {0, 255}]  BY <3>2
    <3>4. [info[i] EXCEPT !.b = None] \in [b : Bufs \cup {None}, status : {0, 255}]
      BY <3>3, InfoType
    <3> QED BY <3>1, <3>2, <3>4
  <2>6. ops' \in [Desc -> [write : BOOLEAN, sector : Blocks \cup {None}]]
    BY <1>3, <2>1 DEF RwDone, NoReq
  <2>7. free' \in SUBSET Desc  BY <1>3, <2>1 DEF RwDone
  <2>8. idx' \in [Procs -> Seq(Desc)] /\ write' \in [Procs -> BOOLEAN]  BY <1>3 DEF RwDone
  <2> QED BY <1>0, <1>3, <2>3, <2>4, <2>5, <2>6, <2>7, <2>8 DEF RwDone
<1>4. ASSUME RwWait(p) PROVE TypeOK'
  BY <1>0, <1>4 DEF RwWait, Labels
<1> QED BY <1>1, <1>2, <1>3, <1>4

LEMMA HandlerTypeStep ==
  ASSUME CacheInv, UNCHANGED cacheVars
  PROVE  /\ IntrAck => TypeOK'
         /\ IntrEntry => TypeOK'
         /\ IntrEnd => TypeOK'
         /\ \A id \in Desc : DevDone(id) => TypeOK'
<1>a. ASSUME NEW id \in Desc, DevDone(id)
      PROVE  \E p \in Procs :
               /\ Waits(p) /\ idx[p][1] = id /\ buf[p] \in Bufs /\ blockno[buf[p]] \in Blocks
               /\ ops[desc[id].addr] = [write |-> write[p], sector |-> blockno[buf[p]]]
               /\ desc[desc[id].next].addr = buf[p]
               /\ desc[desc[desc[id].next].next].addr = id
  <2>1. id \in avail  BY <1>a DEF DevDone
  <2>2. PICK p \in Procs :
          /\ Waits(p) /\ idx[p][1] = id
          /\ ops[desc[id].addr] = [write |-> write[p], sector |-> blockno[buf[p]]]
          /\ desc[desc[id].next].addr = buf[p]
          /\ desc[desc[desc[id].next].next].addr = id
    BY <2>1, AskedChain
  <2>3. buf[p] \in Bufs /\ blockno[buf[p]] \in Blocks  BY <2>2, HasBuf DEF Waits
  <2> QED BY <2>2, <2>3
<1> USE DEF CacheInv, TypeOK, DiskTypeOK, bufVars, driverVars, deviceVars, cacheVars, lockVars
<1>0. NUM' = NUM => Desc' = Desc  BY DEF Desc
<1>1. ASSUME IntrAck PROVE TypeOK'
  BY <1>0, <1>1 DEF IntrAck
<1>2. ASSUME IntrEntry PROVE TypeOK'
  <2>1. pc' \in [Procs -> Labels]
    <3>1. \A b : WakeBuf(b) \in [Procs -> Labels]  BY WakeType DEF WakeBuf, Labels
    <3> QED BY <1>2, <3>1 DEF IntrEntry
  <2>2. disk' \in [Bufs -> BOOLEAN]  BY <1>2 DEF IntrEntry
  <2>3. used' \in Seq(Desc)
    <3>1. used \in Seq(Desc) /\ used # <<>> /\ used' = Tail(used)  BY <1>2 DEF IntrEntry
    <3> QED BY ONLY <3>1
  <2> QED BY <1>0, <1>2, <2>1, <2>2, <2>3 DEF IntrEntry
<1>3. ASSUME IntrEnd PROVE TypeOK'
  BY <1>0, <1>3 DEF IntrEnd
<1>4. ASSUME NEW id \in Desc, DevDone(id) PROVE TypeOK'
  <2>1. PICK p \in Procs :
          /\ Waits(p) /\ idx[p][1] = id /\ buf[p] \in Bufs /\ blockno[buf[p]] \in Blocks
          /\ ops[desc[id].addr] = [write |-> write[p], sector |-> blockno[buf[p]]]
          /\ desc[desc[id].next].addr = buf[p]
          /\ desc[desc[desc[id].next].next].addr = id
    BY <1>a, <1>4
  <2>2. home' \in [Blocks -> Vals] /\ data' \in [Bufs -> Vals]
    <3>1. CASE write[p]
      <4>1. home' = [home EXCEPT ![blockno[buf[p]]] = data[buf[p]]] /\ data' = data
        BY <1>4, <2>1, <3>1 DEF DevDone
      <4> QED BY <2>1, <4>1
    <3>2. CASE ~write[p]
      <4>1. data' = [data EXCEPT ![buf[p]] = home[blockno[buf[p]]]] /\ home' = home
        BY <1>4, <2>1, <3>2 DEF DevDone
      <4> QED BY <2>1, <4>1
    <3> QED BY <3>1, <3>2
  <2>3. info' \in [Desc -> [b : Bufs \cup {None}, status : {0, 255}]]
    <3>1. info' = [info EXCEPT ![id] = [info[id] EXCEPT !.status = 0]]
      BY <1>4, <2>1 DEF DevDone
    <3>2. [info[id] EXCEPT !.status = 0] \in [b : Bufs \cup {None}, status : {0, 255}]
      <4>1. info[id] \in [b : Bufs \cup {None}, status : {0, 255}]  OBVIOUS
      <4> QED BY <4>1, InfoType
    <3> QED BY <3>1, <3>2
  <2>4. avail' \in SUBSET Desc /\ used' \in Seq(Desc) /\ irq' \in BOOLEAN
    <3>1. /\ avail \in SUBSET Desc /\ used \in Seq(Desc)
          /\ avail' = avail \ {id} /\ used' = Append(used, id) /\ irq' = TRUE
      BY <1>4 DEF DevDone
    <3> QED BY ONLY <3>1, id \in Desc
  <2> QED BY <1>0, <1>4, <2>2, <2>3, <2>4 DEF DevDone
<1> QED BY <1>1, <1>2, <1>3, <1>4

LEMMA TypeStep ==
  ASSUME CacheInv, [Next]_vars
  PROVE  TypeOK' /\ NUM' \in Sizes
<1>0. NUM \in Sizes /\ TypeOK  BY DEF CacheInv
<1>a. NUM' = NUM => Desc' = Desc  BY DEF Desc
<1> DEFINE D == TypeOK' /\ NUM' \in Sizes
<1> USE DEF bufVars, driverVars, deviceVars, lockVars, cacheVars, diskVars
<1>1. CASE UNCHANGED vars
  BY <1>0, <1>a, <1>1 DEF vars, TypeOK, DiskTypeOK
<1>2. ASSUME NEW p \in Procs, NEW k \in Blocks, BgetHit(p, k) PROVE D
  <2>1. PICK b \in Cached(k) : refcnt' = [refcnt EXCEPT ![b] = @ + 1] /\ buf' = [buf EXCEPT ![p] = b]
    BY <1>2 DEF BgetHit
  <2>2. b \in Bufs  BY DEF Cached
  <2> QED BY <1>0, <1>a, <1>2, <2>1, <2>2 DEF BgetHit, TypeOK, DiskTypeOK, Labels
<1>3. ASSUME NEW p \in Procs, NEW k \in Blocks, BgetRecycle(p, k) PROVE D
  <2>1. PICK b \in Bufs : /\ buf' = [buf EXCEPT ![p] = b]
                          /\ blockno' = [blockno EXCEPT ![b] = k]
                          /\ valid' = [valid EXCEPT ![b] = FALSE]
                          /\ refcnt' = [refcnt EXCEPT ![b] = 1]
    <3>1. PICK i \in Unused : /\ buf' = [buf EXCEPT ![p] = lru[i]]
                              /\ blockno' = [blockno EXCEPT ![lru[i]] = k]
                              /\ valid' = [valid EXCEPT ![lru[i]] = FALSE]
                              /\ refcnt' = [refcnt EXCEPT ![lru[i]] = 1]
      BY <1>3, Zenon DEF BgetRecycle
    <3>2. lru \in Seq(Bufs) /\ i \in DOMAIN lru  BY <1>0 DEF Unused, TypeOK
    <3>3. lru[i] \in Bufs  BY <3>2
    <3> QED BY <3>1, <3>3
  <2> QED BY <1>0, <1>a, <1>3, <2>1 DEF BgetRecycle, TypeOK, DiskTypeOK, Labels
<1>4. ASSUME NEW p \in Procs, NEW k \in Blocks, BgetPanic(p, k) PROVE D
  BY <1>0, <1>a, <1>4 DEF BgetPanic, TypeOK, DiskTypeOK
<1>5. ASSUME NEW p \in Procs, AcquireSleep(p) PROVE D
  <2>1. buf[p] \in Bufs  BY <1>5, HasBuf DEF AcquireSleep
  <2> QED BY <1>0, <1>a, <1>5, <2>1 DEF AcquireSleep, TypeOK, DiskTypeOK, Labels
<1>6. ASSUME NEW p \in Procs, SleepOnLock(p) PROVE D
  BY <1>0, <1>a, <1>6 DEF SleepOnLock, TypeOK, DiskTypeOK, Labels
<1>7. ASSUME NEW p \in Procs, Rw(p) PROVE D
  <2>1. valid' \in [Bufs -> BOOLEAN]
    <3>1. valid \in [Bufs -> BOOLEAN]  BY <1>0 DEF TypeOK
    <3> QED BY <1>7, <3>1 DEF Rw
  <2>2. NUM' = NUM
    BY <1>7 DEF Rw, virtio_disk_rw, RwSubmit, RwNoDesc, RwDone, RwWait
  <2>3. UNCHANGED <<refcnt, lockVars, lru, want, pinned, panicked>>  BY <1>7 DEF Rw
  <2>4. RwSubmit(p) \/ RwNoDesc(p) \/ RwDone(p) \/ RwWait(p)  BY <1>7 DEF Rw, virtio_disk_rw
  <2>5. TypeOK'  BY <2>1, <2>2, <2>3, <2>4, DiskTypeStep
  <2> QED BY <1>0, <2>2, <2>5
<1>8. ASSUME NEW p \in Procs, NEW v \in Vals, Modify(p, v) PROVE D
  <2>1. buf[p] \in Bufs  BY <1>8, HasBuf DEF Modify
  <2>2. refcnt' \in [Bufs -> Nat]  BY <1>0, <1>8, <2>1 DEF Modify, TypeOK
  <2>3. data' \in [Bufs -> Vals] /\ pinned' \in SUBSET Bufs
    BY <1>0, <1>8, <2>1 DEF Modify, TypeOK, DiskTypeOK
  <2> QED BY <1>0, <1>a, <1>8, <2>2, <2>3 DEF Modify, TypeOK, DiskTypeOK
<1>9. ASSUME NEW p \in Procs, Bunpin(p) PROVE D
  <2>1. buf[p] \in Bufs /\ refcnt[buf[p]] - 1 \in Nat  BY <1>9, HasBuf, Referenced DEF Bunpin
  <2> QED BY <1>0, <1>a, <1>9, <2>1 DEF Bunpin, TypeOK, DiskTypeOK
<1>10. ASSUME NEW p \in Procs, bwrite(p) PROVE D
  BY <1>0, <1>a, <1>10 DEF bwrite, TypeOK, DiskTypeOK, Labels
<1>11. ASSUME NEW p \in Procs, releasesleep(p) PROVE D
  <2>1. pc' \in [Procs -> Labels]
    <3>1. Wake("lock_sleep", {q \in Procs : buf[q] = buf[p]}, "lock") \in [Procs -> Labels]
      BY <1>0, WakeType DEF Labels, TypeOK
    <3>2. "unref" \in Labels  BY DEF Labels
    <3> QED BY <1>11, <3>1, <3>2 DEF releasesleep
  <2>2. locked' \in [Bufs -> BOOLEAN] /\ pid' \in [Bufs -> Procs \cup {None}]
    BY <1>0, <1>11 DEF releasesleep, TypeOK
  <2> QED BY <1>0, <1>a, <1>11, <2>1, <2>2 DEF releasesleep, TypeOK, DiskTypeOK
<1>12. ASSUME NEW p \in Procs, Unref(p) PROVE D
  <2>1. buf[p] \in Bufs /\ refcnt[buf[p]] - 1 \in Nat  BY <1>12, HasBuf, Referenced DEF Unref
  <2>2. MoveToFront(buf[p]) \in Seq(Bufs)
    BY <1>0, <2>1, MoveToFrontKeeps DEF TypeOK, CacheInv, Uses
  <2>3. lru' \in Seq(Bufs)  BY <1>0, <1>12, <2>2 DEF Unref, TypeOK
  <2> QED BY <1>0, <1>a, <1>12, <2>1, <2>3 DEF Unref, TypeOK, DiskTypeOK, Labels
<1>13. ASSUME NEW p \in Procs, kill(p) PROVE D
  <2>1. Woken(pc[p]) \in Labels  BY <1>0 DEF TypeOK, Woken, Labels
  <2> QED BY <1>0, <1>a, <1>13, <2>1 DEF kill, TypeOK, DiskTypeOK
<1>14. ASSUME DiskNext, UNCHANGED cacheVars PROVE D
  <2>1. NUM' = NUM
    BY <1>14 DEF DiskNext, virtio_disk_intr, IntrAck, IntrEntry, IntrEnd, DevDone
  <2>2. TypeOK'
    BY <1>14, HandlerTypeStep DEF DiskNext, virtio_disk_intr
  <2> QED BY <1>0, <2>1, <2>2
<1> QED
  BY <1>1, <1>2, <1>3, <1>4, <1>5, <1>6, <1>7, <1>8, <1>9, <1>10, <1>11, <1>12, <1>13, <1>14
  DEF Next, bget, bread, acquiresleep, brelse

-----------------------------------------------------------------------------
(* A block is in one buffer at most, and each use of a buffer is counted.   *)

Used == Uses /\ Once /\ Counted

LEMMA UsedFrame ==
  ASSUME CacheInv, UNCHANGED <<buf, want, blockno, refcnt, pinned, lru>>,
         \A q \in Procs : pc'[q] = "idle" <=> pc[q] = "idle",
         \A b \in Bufs : valid'[b] => blockno[b] # None
  PROVE  Used'
BY DEF CacheInv, Used, Uses, Once, Counted, Users

\* Wake-ups do not concern who is idle.
LEMMA WakeIdle ==
  ASSUME TypeOK, NEW l \in Labels, NEW to \in Labels, NEW ps, l # "idle", to # "idle",
         NEW q \in Procs
  PROVE  Wake(l, ps, to)[q] = "idle" <=> pc[q] = "idle"
BY DEF Wake

LEMMA UsedDisk ==
  ASSUME CacheInv, TypeOK', UNCHANGED <<buf, want, blockno, refcnt, pinned, lru>>
  PROVE  /\ \A p \in Procs : Rw(p) => Used'
         /\ DiskNext /\ UNCHANGED cacheVars => Used'
<1>0. TypeOK /\ TypeOK'  BY DEF CacheInv
<1>v. \A b \in Bufs : valid[b] => blockno[b] # None  BY DEF CacheInv, Uses
<1>1. ASSUME NEW p \in Procs, Rw(p) PROVE Used'
  <2>1. pc[p] # "idle"
    BY <1>1 DEF Rw, virtio_disk_rw, RwSubmit, RwNoDesc, RwDone, RwWait
  <2>2. buf[p] \in Bufs /\ blockno[buf[p]] # None  BY <2>1, HasBuf, VirtioAssumption
  <2>3. \A b \in Bufs : valid'[b] => blockno[b] # None
    <3>1. valid \in [Bufs -> BOOLEAN]  BY <1>0 DEF TypeOK
    <3>2. valid' = valid \/ valid' = [valid EXCEPT ![buf[p]] = TRUE]  BY <1>1 DEF Rw
    <3> QED BY <1>v, <2>2, <3>1, <3>2
  <2>4. ASSUME NEW q \in Procs PROVE pc'[q] = "idle" <=> pc[q] = "idle"
    <3>1. WakeFree[q] = "idle" <=> pc[q] = "idle"  BY <1>0, WakeIdle DEF WakeFree, Labels
    <3>2. pc \in [Procs -> Labels] /\ WakeFree \in [Procs -> Labels]
      BY <1>0, WakeType DEF TypeOK, WakeFree, Labels
    <3>3. \E f \in {pc, WakeFree}, l \in {"disk_sleep", "desc_sleep", "own"} : pc' = [f EXCEPT ![p] = l]
      BY <1>1 DEF Rw, virtio_disk_rw, RwSubmit, RwNoDesc, RwDone, RwWait
    <3> QED BY <2>1, <3>1, <3>2, <3>3
  <2> QED BY <2>3, <2>4, UsedFrame
<1>2. ASSUME DiskNext, UNCHANGED cacheVars PROVE Used'
  <2>1. valid' = valid  BY <1>2 DEF cacheVars
  <2>2. ASSUME NEW q \in Procs PROVE pc'[q] = "idle" <=> pc[q] = "idle"
    <3>1. \A b : WakeBuf(b)[q] = "idle" <=> pc[q] = "idle"  BY <1>0, WakeIdle DEF WakeBuf, Labels
    <3>2. pc' = pc \/ \E b : pc' = WakeBuf(b)
      BY <1>2 DEF DiskNext, virtio_disk_intr, IntrAck, IntrEntry, IntrEnd, DevDone
    <3> QED BY <3>1, <3>2
  <2> QED BY <1>v, <2>1, <2>2, UsedFrame
<1> QED BY <1>1, <1>2

\* The steps that take or give back a reference.
LEMMA UsedRefs ==
  ASSUME CacheInv, TypeOK', NEW p \in Procs
  PROVE  /\ \A k \in Blocks : BgetHit(p, k) \/ BgetRecycle(p, k) => Used'
         /\ Unref(p) \/ Bunpin(p) => Used'
         /\ \A v \in Vals : Modify(p, v) => Used'
<1>0. TypeOK /\ Uses /\ Once /\ Counted  BY DEF CacheInv
<1>t. /\ pc \in [Procs -> Labels] /\ buf \in [Procs -> Bufs \cup {None}]
      /\ want \in [Procs -> Blocks \cup {None}] /\ blockno \in [Bufs -> Blocks \cup {None}]
      /\ valid \in [Bufs -> BOOLEAN] /\ refcnt \in [Bufs -> Nat] /\ lru \in Seq(Bufs)
  BY <1>0 DEF TypeOK
<1>n. None \notin Bufs /\ None \notin Blocks  BY VirtioAssumption
<1>f. \A b : IsFiniteSet(Users(b)) /\ Cardinality(Users(b)) \in Nat  BY UsersFinite
<1>1. ASSUME NEW k \in Blocks, BgetHit(p, k) PROVE Used'
  <2>1. PICK b \in Cached(k) :
          refcnt' = [refcnt EXCEPT ![b] = @ + 1] /\ buf' = [buf EXCEPT ![p] = b]
    BY <1>1 DEF BgetHit
  <2>2. b \in Bufs /\ blockno[b] = k  BY DEF Cached
  <2>3. buf[p] = None  BY <1>0, <1>1 DEF Uses, BgetHit
  <2>4. /\ want' = [want EXCEPT ![p] = k] /\ pc' = [pc EXCEPT ![p] = "lock"]
        /\ UNCHANGED <<blockno, valid, lru, pinned>>
    BY <1>1 DEF BgetHit, bufVars
  <2>5. Uses'  BY <1>0, <1>t, <1>n, <2>1, <2>2, <2>4 DEF Uses
  <2>6. Once'  BY <1>0, <2>4 DEF Once
  <2>7. ASSUME NEW c \in Bufs
        PROVE  refcnt'[c] = Cardinality(Users(c)') + (IF c \in pinned' THEN 1 ELSE 0)
    <3>1. refcnt[c] = Cardinality(Users(c)) + (IF c \in pinned THEN 1 ELSE 0)
      BY <1>0 DEF Counted
    <3>2. CASE c = b
      <4>1. Users(c)' = Users(c) \cup {p} /\ p \notin Users(c)
        BY <1>t, <1>n, <2>1, <2>2, <2>3, <3>2 DEF Users
      <4>2. Cardinality(Users(c)') = Cardinality(Users(c)) + 1  BY <1>f, <4>1, FS_AddElement
      <4> QED BY <1>t, <1>f, <2>1, <2>2, <2>4, <3>1, <3>2, <4>2
    <3>3. CASE c # b
      <4>1. Users(c)' = Users(c)  BY <1>t, <1>n, <2>1, <2>2, <2>3, <3>3 DEF Users
      <4> QED BY <1>t, <2>1, <2>4, <3>1, <3>3, <4>1
    <3> QED BY <3>2, <3>3
  <2> QED BY <2>5, <2>6, <2>7 DEF Used, Counted
<1>2. ASSUME NEW k \in Blocks, BgetRecycle(p, k) PROVE Used'
  <2>1. PICK i \in Unused : /\ buf' = [buf EXCEPT ![p] = lru[i]]
                            /\ blockno' = [blockno EXCEPT ![lru[i]] = k]
                            /\ valid' = [valid EXCEPT ![lru[i]] = FALSE]
                            /\ refcnt' = [refcnt EXCEPT ![lru[i]] = 1]
    BY <1>2, Zenon DEF BgetRecycle
  <2> DEFINE b == lru[i]
  <2>2. b \in Bufs /\ refcnt[b] = 0  BY <1>t DEF Unused
  <2> HIDE DEF b
  <2>3. /\ want' = [want EXCEPT ![p] = k] /\ pc' = [pc EXCEPT ![p] = "lock"]
        /\ UNCHANGED <<lru, pinned>> /\ Cached(k) = {} /\ buf[p] = None
    BY <1>0, <1>2 DEF BgetRecycle, Uses
  <2>4. /\ buf' = [buf EXCEPT ![p] = b] /\ blockno' = [blockno EXCEPT ![b] = k]
        /\ valid' = [valid EXCEPT ![b] = FALSE] /\ refcnt' = [refcnt EXCEPT ![b] = 1]
    BY <2>1 DEF b
  <2>5. b \notin pinned /\ \A q \in Procs : buf[q] # b  BY <2>2, Unreferenced
  <2>6. Uses'  BY <1>0, <1>t, <1>n, <2>2, <2>3, <2>4, <2>5 DEF Uses
  <2>7. Once'  BY <1>0, <1>t, <2>2, <2>3, <2>4 DEF Once, Cached
  <2>8. ASSUME NEW c \in Bufs
        PROVE  refcnt'[c] = Cardinality(Users(c)') + (IF c \in pinned' THEN 1 ELSE 0)
    <3>1. CASE c = b
      <4>1. Users(c)' = {p}  BY <1>t, <1>n, <2>2, <2>4, <2>5, <3>1 DEF Users
      <4>2. Cardinality(Users(c)') = 1  BY <4>1, FS_Singleton
      <4> QED BY <1>t, <2>2, <2>3, <2>4, <2>5, <3>1, <4>2
    <3>2. CASE c # b
      <4>1. Users(c)' = Users(c)  BY <1>t, <1>n, <2>2, <2>3, <2>4, <3>2 DEF Users
      <4> QED BY <1>0, <1>t, <2>3, <2>4, <3>2, <4>1 DEF Counted
    <3> QED BY <3>1, <3>2
  <2> QED BY <2>6, <2>7, <2>8 DEF Used, Counted
<1>3. ASSUME Unref(p) PROVE Used'
  <2> DEFINE b == buf[p]
  <2>1. b \in Bufs /\ refcnt[b] - 1 \in Nat  BY <1>3, HasBuf, Referenced DEF Unref
  <2> HIDE DEF b
  <2>2. /\ refcnt' = [refcnt EXCEPT ![b] = @ - 1] /\ buf' = [buf EXCEPT ![p] = None]
        /\ want' = [want EXCEPT ![p] = None] /\ pc' = [pc EXCEPT ![p] = "idle"]
        /\ UNCHANGED <<blockno, valid, pinned>> /\ buf[p] = b
    BY <1>3 DEF Unref, bufVars, b
  <2>3. \A c \in Bufs : \E i \in DOMAIN lru' : lru'[i] = c
    <3>1. \A c \in Bufs : \E i \in DOMAIN lru : lru[i] = c  BY <1>0 DEF Uses
    <3>2. lru' = lru \/ lru' = MoveToFront(b)  BY <1>3 DEF Unref, b
    <3>3. \A c \in Bufs : \E i \in DOMAIN MoveToFront(b) : MoveToFront(b)[i] = c
      BY <1>t, <2>1, <3>1, MoveToFrontKeeps
    <3> QED BY <3>1, <3>2, <3>3
  <2>4. Uses'  BY <1>0, <1>t, <1>n, <2>1, <2>2, <2>3 DEF Uses
  <2>5. Once'  BY <1>0, <2>2 DEF Once
  <2>6. ASSUME NEW c \in Bufs
        PROVE  refcnt'[c] = Cardinality(Users(c)') + (IF c \in pinned' THEN 1 ELSE 0)
    <3>1. refcnt[c] = Cardinality(Users(c)) + (IF c \in pinned THEN 1 ELSE 0)
      BY <1>0 DEF Counted
    <3>2. CASE c = b
      <4>1. Users(c)' = Users(c) \ {p} /\ p \in Users(c)
        BY <1>t, <1>n, <2>1, <2>2, <3>2 DEF Users
      <4>2. Cardinality(Users(c)') = Cardinality(Users(c)) - 1
        BY <1>f, <4>1, FS_RemoveElement
      <4> QED BY <1>t, <1>f, <2>1, <2>2, <3>1, <3>2, <4>2
    <3>3. CASE c # b
      <4>1. Users(c)' = Users(c)  BY <1>t, <1>n, <2>1, <2>2, <3>3 DEF Users
      <4> QED BY <1>t, <2>2, <3>1, <3>3, <4>1
    <3> QED BY <3>2, <3>3
  <2> QED BY <2>4, <2>5, <2>6 DEF Used, Counted
<1>4. ASSUME NEW v \in Vals, Modify(p, v) PROVE Used'
  <2>1. buf[p] \in Bufs  BY <1>4, HasBuf DEF Modify
  <2>2. UNCHANGED <<buf, pc, want, blockno, valid, lru>>  BY <1>4 DEF Modify
  <2>3. Uses' /\ Once'  BY <1>0, <2>2 DEF Uses, Once
  <2>4. \A c : Users(c)' = Users(c)  BY <2>2 DEF Users
  <2>5. ASSUME NEW c \in Bufs
        PROVE  refcnt'[c] = Cardinality(Users(c)) + (IF c \in pinned' THEN 1 ELSE 0)
    <3>1. refcnt[c] = Cardinality(Users(c)) + (IF c \in pinned THEN 1 ELSE 0)
      BY <1>0 DEF Counted
    <3>2. /\ refcnt' = [refcnt EXCEPT ![buf[p]] = IF buf[p] \in pinned THEN @ ELSE @ + 1]
          /\ pinned' = pinned \cup {buf[p]}
      BY <1>4 DEF Modify
    <3> QED BY <1>t, <1>f, <2>1, <3>1, <3>2
  <2> QED BY <2>3, <2>4, <2>5 DEF Used, Counted
<1>5. ASSUME Bunpin(p) PROVE Used'
  <2>1. buf[p] \in Bufs  BY <1>5, HasBuf DEF Bunpin
  <2>2. UNCHANGED <<buf, pc, want, blockno, valid, lru>>  BY <1>5 DEF Bunpin, diskVars, bufVars
  <2>3. Uses' /\ Once'  BY <1>0, <2>2 DEF Uses, Once
  <2>4. \A c : Users(c)' = Users(c)  BY <2>2 DEF Users
  <2>5. ASSUME NEW c \in Bufs
        PROVE  refcnt'[c] = Cardinality(Users(c)) + (IF c \in pinned' THEN 1 ELSE 0)
    <3>1. refcnt[c] = Cardinality(Users(c)) + (IF c \in pinned THEN 1 ELSE 0)
      BY <1>0 DEF Counted
    <3>2. /\ refcnt' = [refcnt EXCEPT ![buf[p]] = @ - 1] /\ pinned' = pinned \ {buf[p]}
          /\ buf[p] \in pinned
      BY <1>5 DEF Bunpin
    <3> QED BY <1>t, <1>f, <2>1, <3>1, <3>2
  <2> QED BY <2>3, <2>4, <2>5 DEF Used, Counted
<1> QED BY <1>1, <1>2, <1>3, <1>4, <1>5

LEMMA UsedStep ==
  ASSUME CacheInv, TypeOK', [Next]_vars
  PROVE  Used'
<1>0. TypeOK /\ Used  BY DEF CacheInv, Used
<1>v. \A b \in Bufs : valid[b] => blockno[b] # None  BY DEF CacheInv, Uses
<1>t. pc \in [Procs -> Labels]  BY <1>0 DEF TypeOK
<1> USE DEF bufVars, cacheVars, diskVars, lockVars
<1>1. CASE UNCHANGED vars
  BY <1>v, <1>1, UsedFrame DEF vars
<1>2. ASSUME NEW p \in Procs, bget(p) PROVE Used'
  <2>1. ASSUME NEW k \in Blocks, BgetPanic(p, k) PROVE Used'
    BY <1>v, <2>1, UsedFrame DEF BgetPanic
  <2> QED BY <1>2, <2>1, UsedRefs DEF bget
<1>3. ASSUME NEW p \in Procs, acquiresleep(p) PROVE Used'
  BY <1>v, <1>t, <1>3, UsedFrame DEF acquiresleep, AcquireSleep, SleepOnLock
<1>4. ASSUME NEW p \in Procs, Rw(p) PROVE Used'
  <2>1. UNCHANGED <<buf, want, blockno, refcnt, pinned, lru>>
    BY <1>4 DEF Rw, virtio_disk_rw, RwSubmit, RwNoDesc, RwDone, RwWait
  <2> QED BY <1>4, <2>1, UsedDisk
<1>5. ASSUME NEW p \in Procs, bwrite(p) PROVE Used'
  BY <1>v, <1>t, <1>5, UsedFrame DEF bwrite
<1>6. ASSUME NEW p \in Procs, releasesleep(p) PROVE Used'
  <2> DEFINE W == Wake("lock_sleep", {q \in Procs : buf[q] = buf[p]}, "lock")
  <2>1. \A q \in Procs : W[q] = "idle" <=> pc[q] = "idle"  BY <1>0, WakeIdle DEF Labels
  <2>2. W \in [Procs -> Labels]  BY <1>t, WakeType DEF Labels
  <2>3. pc' = [W EXCEPT ![p] = "unref"] /\ pc[p] = "own"  BY <1>6 DEF releasesleep
  <2> HIDE DEF W
  <2>4. \A q \in Procs : pc'[q] = "idle" <=> pc[q] = "idle"  BY <2>1, <2>2, <2>3
  <2> QED BY <1>v, <1>6, <2>4, UsedFrame DEF releasesleep
<1>7. ASSUME NEW p \in Procs, kill(p) PROVE Used'
  <2>1. \A q \in Procs : pc'[q] = "idle" <=> pc[q] = "idle"
    <3>1. pc' = [pc EXCEPT ![p] = Woken(pc[p])] /\ pc[p] # Woken(pc[p])  BY <1>7 DEF kill
    <3>2. pc[p] # "idle" /\ Woken(pc[p]) # "idle"  BY <3>1 DEF Woken
    <3> QED BY <1>t, <3>1, <3>2
  <2> QED BY <1>v, <1>7, <2>1, UsedFrame DEF kill
<1>8. ASSUME DiskNext, UNCHANGED cacheVars PROVE Used'
  <2>1. UNCHANGED <<buf, want, blockno, refcnt, pinned, lru>>
    BY <1>8 DEF DiskNext, virtio_disk_intr, IntrAck, IntrEntry, IntrEnd, DevDone
  <2> QED BY <1>8, <2>1, UsedDisk
<1> QED
  BY <1>1, <1>2, <1>3, <1>4, <1>5, <1>6, <1>7, <1>8, UsedRefs
  DEF Next, bread, brelse

-----------------------------------------------------------------------------
(* Sleep locks.                                                             *)

\* Who a wake-up moves.
LEMMA WakeMoves ==
  ASSUME NEW q \in Procs, NEW b
  PROVE  /\ WakeFree[q] = pc[q] \/ (pc[q] = "desc_sleep" /\ WakeFree[q] = "rw")
         /\ WakeFree[q] # "desc_sleep"
         /\ \/ WakeBuf(b)[q] = pc[q]
            \/ pc[q] = "disk_sleep" /\ buf[q] = b /\ WakeBuf(b)[q] = "disk_wait"
         /\ WakeBuf(b)[q] = "disk_sleep" => buf[q] # b
BY DEF WakeFree, WakeBuf, Wake

LEMMA WokenMoves ==
  ASSUME NEW p \in Procs, kill(p), TypeOK
  PROVE  /\ pc' = [pc EXCEPT ![p] = Woken(pc[p])]
         /\ <<pc[p], Woken(pc[p])>> \in
               {<<"lock_sleep", "lock">>, <<"desc_sleep", "rw">>, <<"disk_sleep", "disk_wait">>}
<1>1. pc' = [pc EXCEPT ![p] = Woken(pc[p])] /\ pc[p] # Woken(pc[p])  BY DEF kill
<1> QED BY <1>1 DEF Woken

\* How a step of the driver moves the processes.
LEMMA DiskMoves ==
  ASSUME TypeOK, NEW q \in Procs
  PROVE  /\ \A p \in Procs : RwSubmit(p) =>
              pc'[q] = IF q = p THEN "disk_sleep" ELSE pc[q]
         /\ \A p \in Procs : RwWait(p) =>
              pc'[q] = IF q = p THEN "disk_sleep" ELSE pc[q]
         /\ \A p \in Procs : RwNoDesc(p) =>
              \/ q = p /\ pc'[q] = "desc_sleep"
              \/ q # p /\ (pc'[q] = pc[q] \/ (pc[q] = "desc_sleep" /\ pc'[q] = "rw"))
         /\ \A p \in Procs : RwDone(p) =>
              \/ q = p /\ pc'[q] = "own"
              \/ q # p /\ (pc'[q] = pc[q] \/ (pc[q] = "desc_sleep" /\ pc'[q] = "rw"))
         /\ DiskNext => pc'[q] = pc[q] \/ (pc[q] = "disk_sleep" /\ pc'[q] = "disk_wait")
<1>0. pc \in [Procs -> Labels]  BY DEF TypeOK
<1>1. WakeFree \in [Procs -> Labels]  BY <1>0, WakeType DEF WakeFree, Labels
<1>2. WakeFree[q] = pc[q] \/ (pc[q] = "desc_sleep" /\ WakeFree[q] = "rw")  BY WakeMoves
<1>3. ASSUME NEW p \in Procs, RwSubmit(p) PROVE pc'[q] = IF q = p THEN "disk_sleep" ELSE pc[q]
  BY <1>0, <1>3 DEF RwSubmit
<1>4. ASSUME NEW p \in Procs, RwWait(p) PROVE pc'[q] = IF q = p THEN "disk_sleep" ELSE pc[q]
  BY <1>0, <1>4 DEF RwWait
<1>5. ASSUME NEW p \in Procs, RwNoDesc(p)
      PROVE  \/ q = p /\ pc'[q] = "desc_sleep"
             \/ q # p /\ (pc'[q] = pc[q] \/ (pc[q] = "desc_sleep" /\ pc'[q] = "rw"))
  <2>1. pc' = [pc EXCEPT ![p] = "desc_sleep"] \/ pc' = [WakeFree EXCEPT ![p] = "desc_sleep"]
    BY <1>5 DEF RwNoDesc
  <2> QED BY <1>0, <1>1, <1>2, <2>1
<1>6. ASSUME NEW p \in Procs, RwDone(p)
      PROVE  \/ q = p /\ pc'[q] = "own"
             \/ q # p /\ (pc'[q] = pc[q] \/ (pc[q] = "desc_sleep" /\ pc'[q] = "rw"))
  <2>1. pc' = [WakeFree EXCEPT ![p] = "own"]  BY <1>6 DEF RwDone
  <2> QED BY <1>0, <1>1, <1>2, <2>1
<1>7. ASSUME DiskNext PROVE pc'[q] = pc[q] \/ (pc[q] = "disk_sleep" /\ pc'[q] = "disk_wait")
  <2>1. pc' = pc \/ pc' = WakeBuf(info[Head(used)].b)
    BY <1>7 DEF DiskNext, virtio_disk_intr, IntrAck, IntrEntry, IntrEnd, DevDone
  <2> QED BY <2>1, WakeMoves
<1> QED BY <1>3, <1>4, <1>5, <1>6, <1>7

Locked == Locks /\ NoLostRelease

LEMMA LockedFrame ==
  ASSUME CacheInv, UNCHANGED <<buf, locked, pid, valid, write>>,
         \A q \in Procs : /\ pc'[q] \in Disking <=> pc[q] \in Disking
                          /\ pc'[q] = "own" <=> pc[q] = "own"
                          /\ pc'[q] = "lock_sleep" => pc[q] = "lock_sleep"
  PROVE  Locked'
BY DEF CacheInv, NobodyForgotten, Locked, Locks, NoLostRelease

LEMMA LockedStep ==
  ASSUME CacheInv, TypeOK', [Next]_vars
  PROVE  Locked'
<1>0. TypeOK /\ Locks /\ NoLostRelease  BY DEF CacheInv, NobodyForgotten
<1>t. /\ pc \in [Procs -> Labels] /\ buf \in [Procs -> Bufs \cup {None}]
      /\ valid \in [Bufs -> BOOLEAN] /\ locked \in [Bufs -> BOOLEAN]
      /\ pid \in [Bufs -> Procs \cup {None}] /\ write \in [Procs -> BOOLEAN]
  BY <1>0 DEF TypeOK, DiskTypeOK
<1>n. None \notin Bufs /\ None \notin Procs  BY VirtioAssumption
<1>b. \A q \in Procs : pc[q] # "idle" => buf[q] \in Bufs  BY HasBuf
<1> USE DEF bufVars, cacheVars, diskVars, lockVars
<1>1. CASE UNCHANGED vars
  BY <1>1, LockedFrame DEF vars
<1>2. ASSUME NEW p \in Procs, NEW k \in Blocks, BgetHit(p, k) PROVE Locked'
  <2>1. PICK b \in Bufs : buf' = [buf EXCEPT ![p] = b]  BY <1>2 DEF BgetHit, Cached
  <2>2. pc' = [pc EXCEPT ![p] = "lock"] /\ UNCHANGED <<locked, pid, valid, write>> /\ pc[p] = "idle"
    BY <1>2 DEF BgetHit
  <2> QED BY <1>0, <1>t, <2>1, <2>2 DEF Locked, Locks, NoLostRelease, Disking
<1>3. ASSUME NEW p \in Procs, NEW k \in Blocks, BgetRecycle(p, k) PROVE Locked'
  <2>1. PICK i \in Unused : buf' = [buf EXCEPT ![p] = lru[i]] /\ valid' = [valid EXCEPT ![lru[i]] = FALSE]
    BY <1>3, Zenon DEF BgetRecycle
  <2>2. lru[i] \in Bufs /\ refcnt[lru[i]] = 0
    <3>1. lru \in Seq(Bufs)  BY <1>0 DEF TypeOK
    <3> QED BY <3>1 DEF Unused
  <2>3. \A q \in Procs : buf[q] # lru[i]  BY <2>2, Unreferenced
  <2>4. pc' = [pc EXCEPT ![p] = "lock"] /\ UNCHANGED <<locked, pid, write>> /\ pc[p] = "idle"
    BY <1>3 DEF BgetRecycle
  <2> QED
    BY <1>0, <1>t, <1>b, <2>1, <2>2, <2>3, <2>4 DEF Locked, Locks, NoLostRelease, Disking
<1>4. ASSUME NEW p \in Procs, NEW k \in Blocks, BgetPanic(p, k) PROVE Locked'
  BY <1>4, LockedFrame DEF BgetPanic
<1>5. ASSUME NEW p \in Procs, AcquireSleep(p) PROVE Locked'
  <2>1. /\ pc[p] = "lock" /\ ~locked[buf[p]]
        /\ locked' = [locked EXCEPT ![buf[p]] = TRUE] /\ pid' = [pid EXCEPT ![buf[p]] = p]
        /\ pc' = [pc EXCEPT ![p] = IF valid[buf[p]] THEN "own" ELSE "rw"]
        /\ UNCHANGED <<buf, write, valid>>
    BY <1>5 DEF AcquireSleep
  <2>2. buf[p] \in Bufs /\ ~write[p]  BY <1>0, <1>b, <1>t, <2>1 DEF Locks, Disking
  <2>3. \A q \in Procs : pc[q] \in Disking \cup {"own"} => buf[q] # buf[p]
    BY <1>0, <2>1 DEF Locks
  <2> QED BY <1>0, <1>t, <1>b, <2>1, <2>2, <2>3 DEF Locked, Locks, NoLostRelease, Disking
<1>6. ASSUME NEW p \in Procs, SleepOnLock(p) PROVE Locked'
  BY <1>0, <1>t, <1>6 DEF SleepOnLock, Locked, Locks, NoLostRelease, Disking
<1>7. ASSUME NEW p \in Procs, Rw(p) PROVE Locked'
  <2>1. CASE RwDone(p)
    <3>1. /\ pc[p] = "disk_wait" /\ pc'[p] = "own" /\ write' = [write EXCEPT ![p] = FALSE]
          /\ valid' = [valid EXCEPT ![buf[p]] = TRUE] /\ UNCHANGED <<buf, locked, pid>>
      BY <1>0, <1>7, <2>1, DiskMoves DEF RwDone, Rw
    <3>2. buf[p] \in Bufs /\ locked[buf[p]] /\ pid[buf[p]] = p
      BY <1>0, <1>b, <3>1 DEF Locks, Disking
    <3>3. ASSUME NEW q \in Procs, q # p
          PROVE  /\ pc'[q] \in Disking <=> pc[q] \in Disking
                 /\ pc'[q] = "own" <=> pc[q] = "own"
                 /\ pc'[q] = "lock_sleep" => pc[q] = "lock_sleep"
                 /\ pc[q] \in Disking => buf[q] # buf[p] /\ buf[q] \in Bufs
      <4>1. pc'[q] = pc[q] \/ (pc[q] = "desc_sleep" /\ pc'[q] = "rw")
        BY <1>0, <2>1, <3>3, DiskMoves
      <4>2. pc[q] \in Disking => pid[buf[q]] = q  BY <1>0 DEF Locks
      <4> QED BY <1>b, <3>2, <3>3, <4>1, <4>2 DEF Disking
    <3> QED BY <1>0, <1>t, <1>b, <3>1, <3>2, <3>3 DEF Locked, Locks, NoLostRelease, Disking
  <2>2. CASE ~RwDone(p)
    <3>1. RwSubmit(p) \/ RwNoDesc(p) \/ RwWait(p)  BY <1>7, <2>2 DEF Rw, virtio_disk_rw
    <3>2. ASSUME NEW q \in Procs
          PROVE  /\ pc'[q] \in Disking <=> pc[q] \in Disking
                 /\ pc'[q] = "own" <=> pc[q] = "own"
                 /\ pc'[q] = "lock_sleep" => pc[q] = "lock_sleep"
      <4>1. pc[p] \in Disking  BY <3>1 DEF RwSubmit, RwNoDesc, RwWait, Disking
      <4>2. \/ q = p /\ pc'[q] \in {"disk_sleep", "desc_sleep"}
            \/ pc'[q] = pc[q] \/ (pc[q] = "desc_sleep" /\ pc'[q] = "rw")
        <5>1. CASE RwSubmit(p)  BY <1>0, <5>1, DiskMoves
        <5>2. CASE RwNoDesc(p)  BY <1>0, <5>2, DiskMoves
        <5>3. CASE RwWait(p)  BY <1>0, <5>3, DiskMoves
        <5> QED BY <3>1, <5>1, <5>2, <5>3
      <4> QED BY <4>1, <4>2 DEF Disking
    <3>3. UNCHANGED <<buf, locked, pid, write>>  BY <1>7, <3>1 DEF Rw, RwSubmit, RwNoDesc, RwWait
    <3>4. valid' = valid
      <4>1. pc'[p] # "own"  BY <1>0, <3>1, DiskMoves
      <4> QED BY <1>7, <4>1 DEF Rw
    <3> QED BY <3>2, <3>3, <3>4, LockedFrame
  <2> QED BY <2>1, <2>2
<1>8. ASSUME NEW p \in Procs, NEW v \in Vals, Modify(p, v) PROVE Locked'
  BY <1>8, LockedFrame DEF Modify
<1>9. ASSUME NEW p \in Procs, Bunpin(p) PROVE Locked'
  BY <1>9, LockedFrame DEF Bunpin
<1>10. ASSUME NEW p \in Procs, bwrite(p) PROVE Locked'
  <2>1. buf[p] \in Bufs  BY <1>10, <1>b DEF bwrite
  <2> QED BY <1>0, <1>t, <1>10, <2>1 DEF bwrite, holdingsleep, Locked, Locks, NoLostRelease, Disking
<1>11. ASSUME NEW p \in Procs, releasesleep(p) PROVE Locked'
  <2>1. /\ pc[p] = "own" /\ locked[buf[p]] /\ pid[buf[p]] = p
        /\ locked' = [locked EXCEPT ![buf[p]] = FALSE] /\ pid' = [pid EXCEPT ![buf[p]] = None]
        /\ UNCHANGED <<buf, write, valid>>
    BY <1>11 DEF releasesleep, holdingsleep
  <2>2. pc'[p] = "unref" /\ buf[p] \in Bufs /\ ~write[p]
    <3>1. Wake("lock_sleep", {q \in Procs : buf[q] = buf[p]}, "lock") \in [Procs -> Labels]
      BY <1>t, WakeType DEF Labels
    <3>2. pc'[p] = "unref"  BY <1>11, <3>1 DEF releasesleep
    <3> QED BY <1>0, <1>b, <1>t, <2>1, <3>2 DEF Locks, Disking
  <2>3. ASSUME NEW q \in Procs, q # p
        PROVE  /\ pc'[q] = pc[q] \/ (pc[q] = "lock_sleep" /\ pc'[q] = "lock")
               /\ pc'[q] = "lock_sleep" => buf[q] # buf[p]
    <3> DEFINE W == Wake("lock_sleep", {x \in Procs : buf[x] = buf[p]}, "lock")
    <3>1. W[q] = IF pc[q] = "lock_sleep" /\ buf[q] = buf[p] THEN "lock" ELSE pc[q]  BY DEF Wake
    <3>2. W \in [Procs -> Labels]  BY <1>t, WakeType DEF Labels
    <3>3. pc' = [W EXCEPT ![p] = "unref"]  BY <1>11 DEF releasesleep
    <3> HIDE DEF W
    <3>4. pc'[q] = W[q]  BY <2>3, <3>2, <3>3
    <3> QED BY <3>1, <3>4
  <2>4. \A q \in Procs : q # p /\ pc[q] \in Disking \cup {"own"} => buf[q] # buf[p]
    BY <1>0, <2>1 DEF Locks
  <2>5. NoLostRelease'
    BY <1>0, <1>t, <1>b, <2>1, <2>2, <2>3 DEF NoLostRelease
  <2>6. Locks'
    BY <1>0, <1>t, <1>b, <2>1, <2>2, <2>3, <2>4 DEF Locks, Disking
  <2> QED BY <2>5, <2>6 DEF Locked
<1>12. ASSUME NEW p \in Procs, Unref(p) PROVE Locked'
  BY <1>0, <1>t, <1>12 DEF Unref, Locked, Locks, NoLostRelease, Disking
<1>13. ASSUME NEW p \in Procs, kill(p) PROVE Locked'
  <2>1. UNCHANGED <<buf, locked, pid, valid, write>>  BY <1>13 DEF kill
  <2>2. \A q \in Procs : /\ pc'[q] \in Disking <=> pc[q] \in Disking
                         /\ pc'[q] = "own" <=> pc[q] = "own"
                         /\ pc'[q] = "lock_sleep" => pc[q] = "lock_sleep"
    BY <1>0, <1>t, <1>13, WokenMoves DEF Disking
  <2> QED BY <2>1, <2>2, LockedFrame
<1>14. ASSUME DiskNext, UNCHANGED cacheVars PROVE Locked'
  <2>1. UNCHANGED <<buf, locked, pid, valid, write>>
    BY <1>14 DEF DiskNext, virtio_disk_intr, IntrAck, IntrEntry, IntrEnd, DevDone
  <2>2. \A q \in Procs : pc'[q] = pc[q] \/ (pc[q] = "disk_sleep" /\ pc'[q] = "disk_wait")
    BY <1>0, <1>14, DiskMoves
  <2> QED BY <2>1, <2>2, LockedFrame DEF Disking
<1> QED
  BY <1>1, <1>2, <1>3, <1>4, <1>5, <1>6, <1>7, <1>8, <1>9, <1>10, <1>11, <1>12, <1>13, <1>14
  DEF Next, bget, bread, acquiresleep, brelse

-----------------------------------------------------------------------------
(* Descriptors.                                                             *)

Owned == Chains /\ OwnedOnce
Of(p) == {idx[p][i] : i \in 1 .. Len(idx[p])}

LEMMA OwnedFrame ==
  ASSUME CacheInv, UNCHANGED <<NUM, free, desc, ops, idx>>,
         \A q \in Procs : Waits(q)' <=> Waits(q),
         \A q \in Procs : Waits(q) => /\ buf'[q] = buf[q] /\ write'[q] = write[q]
                                      /\ blockno'[buf[q]] = blockno[buf[q]]
                                      /\ info'[idx[q][1]].b = info[idx[q][1]].b
  PROVE  Owned'
<1>1. ASSUME NEW q \in Procs, Waits(q) PROVE IsChain(q)'
  <2>1. IsChain(q)  BY <1>1 DEF CacheInv, Chains
  <2> QED BY <1>1, <2>1 DEF IsChain, Desc
<1>2. Chains'  BY <1>1 DEF CacheInv, Chains
<1>3. OwnedOnce'  BY DEF CacheInv, OwnedOnce, Desc
<1> QED BY <1>2, <1>3 DEF Owned

\* A free descriptor is nobody's; and what is not free is somebody's.
LEMMA OfFree ==
  ASSUME CacheInv
  PROVE  /\ free = Desc \ UNION {Of(q) : q \in Procs}
         /\ \A q \in Procs : Waits(q) => Of(q) = {idx[q][1], idx[q][2], idx[q][3]}
         /\ \A q \in Procs : ~Waits(q) => Of(q) = {}
<1>1. free = Desc \ UNION {Of(q) : q \in Procs}  BY DEF CacheInv, OwnedOnce, Of
<1>2. ASSUME NEW q \in Procs, Waits(q) PROVE Of(q) = {idx[q][1], idx[q][2], idx[q][3]}
  <2>1. Len(idx[q]) = 3  BY <1>2, ChainOf
  <2> QED BY <2>1 DEF Of
<1>3. ASSUME NEW q \in Procs, ~Waits(q) PROVE Of(q) = {}
  <2>1. idx[q] = <<>>  BY <1>3 DEF CacheInv, Chains
  <2> QED BY <2>1 DEF Of
<1> QED BY <1>1, <1>2, <1>3

LEMMA Apart ==
  ASSUME CacheInv, NEW p \in Procs, NEW q \in Procs, p # q, Waits(p), Waits(q)
  PROVE  \A m, n \in 1 .. 3 : idx[p][m] # idx[q][n]
<1>1. idx[p] # <<>> /\ idx[q] # <<>>
  <2>1. Len(idx[p]) = 3 /\ Len(idx[q]) = 3  BY ChainOf
  <2> QED BY <2>1, SMTT(30)
<1> QED BY <1>1 DEF CacheInv, OwnedOnce

LEMMA NotFree ==
  ASSUME CacheInv, NEW q \in Procs, Waits(q)
  PROVE  idx[q][1] \notin free /\ idx[q][2] \notin free /\ idx[q][3] \notin free
<1>1. Of(q) = {idx[q][1], idx[q][2], idx[q][3]}  BY OfFree
<1>2. Of(q) \cap free = {}  BY OfFree
<1> QED BY <1>1, <1>2

LEMMA OwnedSubmit ==
  ASSUME CacheInv, TypeOK', NEW p \in Procs, RwSubmit(p)
  PROVE  Owned'
<1>0. TypeOK /\ NUM \in Sizes /\ pc[p] = "rw" /\ ~Waits(p)  BY DEF CacheInv, RwSubmit, Waits
<1>t. /\ idx \in [Procs -> Seq(Desc)] /\ free \subseteq Desc /\ pc \in [Procs -> Labels]
      /\ DOMAIN desc = Desc /\ DOMAIN info = Desc /\ DOMAIN ops = Desc
      /\ desc \in [Desc -> [addr : Desc \cup Bufs \cup {None}, next : Desc \cup {None}]]
      /\ info \in [Desc -> [b : Bufs \cup {None}, status : {0, 255}]]
      /\ ops \in [Desc -> [write : BOOLEAN, sector : Blocks \cup {None}]]
  BY <1>0 DEF TypeOK, DiskTypeOK
<1>1. PICK i, j, k \in free : Three = <<i, j, k>> /\ i # j /\ i # k /\ j # k
  BY <1>0, ThreeFree DEF RwSubmit
<1>2. /\ idx' = [idx EXCEPT ![p] = <<i, j, k>>]
      /\ free' = free \ {i, j, k}
      /\ desc' = [desc EXCEPT ![i] = [addr |-> i, next |-> j],
                              ![j] = [addr |-> buf[p], next |-> k],
                              ![k] = [addr |-> i, next |-> None]]
      /\ info' = [info EXCEPT ![i] = [b |-> buf[p], status |-> 255]]
      /\ ops' = [ops EXCEPT ![i] = [write |-> write[p], sector |-> blockno[buf[p]]]]
  BY <1>1 DEF RwSubmit
<1>3. UNCHANGED <<NUM, buf, write, blockno>> /\ pc' = [pc EXCEPT ![p] = "disk_sleep"] /\ Desc' = Desc
  BY DEF RwSubmit, Desc
<1>4. i \in Desc /\ j \in Desc /\ k \in Desc  BY <1>1, <1>t
<1>5. idx'[p] = <<i, j, k>> /\ Waits(p)'  BY <1>2, <1>3, <1>t DEF Waits
<1>6. ASSUME NEW q \in Procs, q # p PROVE idx'[q] = idx[q] /\ (Waits(q)' <=> Waits(q))
  BY <1>2, <1>3, <1>6, <1>t DEF Waits
<1>7. IsChain(p)'
  <2>1. desc'[i] = [addr |-> i, next |-> j]  BY <1>1, <1>2, <1>4, <1>t
  <2>2. desc'[j] = [addr |-> buf[p], next |-> k]  BY <1>1, <1>2, <1>4, <1>t
  <2>3. desc'[k] = [addr |-> i, next |-> None]  BY <1>1, <1>2, <1>4, <1>t
  <2>4. info'[i].b = buf[p]  BY <1>2, <1>4, <1>t
  <2>5. ops'[i] = [write |-> write[p], sector |-> blockno[buf[p]]]  BY <1>2, <1>4, <1>t
  <2> QED BY <1>1, <1>3, <1>4, <1>5, <2>1, <2>2, <2>3, <2>4, <2>5 DEF IsChain
<1>8. ASSUME NEW q \in Procs, q # p, Waits(q) PROVE IsChain(q)'
  <2>1. IsChain(q)  BY <1>8 DEF CacheInv, Chains
  <2>2. \A d \in {idx[q][1], idx[q][2], idx[q][3]} : d \in Desc /\ d \notin {i, j, k}
    <3>1. idx[q][1] \notin free /\ idx[q][2] \notin free /\ idx[q][3] \notin free
      BY <1>8, NotFree
    <3>2. idx[q][1] \in Desc /\ idx[q][2] \in Desc /\ idx[q][3] \in Desc  BY <1>8, ChainOf
    <3> QED BY <3>1, <3>2
  <2>3. \A d \in {idx[q][1], idx[q][2], idx[q][3]} :
          desc'[d] = desc[d] /\ info'[d] = info[d] /\ ops'[d] = ops[d]
    BY <1>2, <1>t, <2>2
  <2> QED BY <1>3, <1>6, <1>8, <2>1, <2>3 DEF IsChain
<1>9. Chains'
  <2>1. ASSUME NEW q \in Procs, ~Waits(q)' PROVE idx'[q] = <<>>
    BY <1>5, <1>6, <2>1 DEF CacheInv, Chains
  <2>2. ASSUME NEW q \in Procs, Waits(q)' PROVE IsChain(q)'
    BY <1>6, <1>7, <1>8, <2>2
  <2> QED BY <2>1, <2>2 DEF Chains
<1>10. \A q, r \in Procs, m, n \in 1 .. 3 :
         Waits(q)' /\ Waits(r)' /\ <<q, m>> # <<r, n>> => idx'[q][m] # idx'[r][n]
  <2> SUFFICES ASSUME NEW q \in Procs, NEW r \in Procs, NEW m \in 1 .. 3, NEW n \in 1 .. 3,
                      Waits(q)', Waits(r)', <<q, m>> # <<r, n>>
               PROVE  idx'[q][m] # idx'[r][n]
    OBVIOUS
  <2>1. idx'[p][1] = i /\ idx'[p][2] = j /\ idx'[p][3] = k  BY <1>5
  <2>2. \A x \in Procs, l \in 1 .. 3 : x # p /\ Waits(x) => idx[x][l] \notin {i, j, k}
    BY <1>1, NotFree
  <2>3. CASE q = p /\ r = p  BY <1>1, <2>1, <2>3
  <2>4. CASE q # p /\ r = p  BY <1>6, <2>1, <2>2, <2>4
  <2>5. CASE q = p /\ r # p  BY <1>6, <2>1, <2>2, <2>5
  <2>6. CASE q # p /\ r # p
    <3>1. Waits(q) /\ Waits(r) /\ idx'[q] = idx[q] /\ idx'[r] = idx[r]  BY <1>6, <2>6
    <3>2. CASE q = r
      <4>1. m # n  BY <3>2
      <4>2. idx[q][1] # idx[q][2] /\ idx[q][1] # idx[q][3] /\ idx[q][2] # idx[q][3]
        BY <3>1, ChainOf
      <4>3. m \in {1, 2, 3} /\ n \in {1, 2, 3}  OBVIOUS
      <4>4. idx[q][m] # idx[q][n]  BY <4>1, <4>2, <4>3
      <4> QED BY <3>1, <3>2, <4>4
    <3>3. CASE q # r  BY <3>1, <3>3, Apart
    <3> QED BY <3>2, <3>3
  <2> QED BY <2>3, <2>4, <2>5, <2>6
<1>11. free' = Desc \ UNION {Of(q)' : q \in Procs}
  <2>1. Of(p)' = {i, j, k} /\ Of(p) = {}
    <3>1. Len(idx'[p]) = 3 /\ idx'[p][1] = i /\ idx'[p][2] = j /\ idx'[p][3] = k  BY <1>5
    <3>2. Of(p)' = {i, j, k}  BY <3>1 DEF Of
    <3> QED BY <1>0, <3>2, OfFree
  <2>2. \A q \in Procs : q # p => Of(q)' = Of(q)  BY <1>6 DEF Of
  <2>3. \A d : d \in free' <=> d \in Desc /\ \A q \in Procs : d \notin Of(q)'
    <3>1. \A d : d \in free <=> d \in Desc /\ \A q \in Procs : d \notin Of(q)  BY OfFree
    <3>2. \A d : d \in free' <=> d \in free /\ d \notin {i, j, k}  BY <1>2
    <3> QED BY <2>1, <2>2, <3>1, <3>2
  <2> QED BY <2>3
<1>12. OwnedOnce'
  <2>1. \A q \in Procs : idx'[q] # <<>> => Waits(q)'  BY <1>9 DEF Chains
  <2> QED BY <1>3, <1>10, <1>11, <2>1 DEF OwnedOnce, Of
<1> QED BY <1>9, <1>12 DEF Owned

LEMMA OwnedDone ==
  ASSUME CacheInv, TypeOK', NEW p \in Procs, RwDone(p)
  PROVE  Owned'
<1>0. TypeOK /\ NUM \in Sizes /\ pc[p] = "disk_wait" /\ Waits(p)  BY DEF CacheInv, RwDone, Waits
<1>t. /\ idx \in [Procs -> Seq(Desc)] /\ free \subseteq Desc /\ pc \in [Procs -> Labels]
      /\ DOMAIN desc = Desc /\ DOMAIN info = Desc /\ DOMAIN ops = Desc
      /\ write \in [Procs -> BOOLEAN]
  BY <1>0 DEF TypeOK, DiskTypeOK
<1> DEFINE C == {idx[p][1], idx[p][2], idx[p][3]}
<1>1. Chain(idx[p][1]) = C /\ C \subseteq Desc  BY <1>0, ChainOf
<1>2. /\ idx' = [idx EXCEPT ![p] = <<>>]
      /\ free' = free \cup C
      /\ desc' = [i \in Desc |-> IF i \in C THEN NoDesc ELSE desc[i]]
      /\ info' = [info EXCEPT ![idx[p][1]].b = None]
      /\ ops' = [ops EXCEPT ![idx[p][1]] = NoReq]
      /\ write' = [write EXCEPT ![p] = FALSE]
  BY <1>1 DEF RwDone
<1>3. UNCHANGED <<NUM, buf, blockno>> /\ Desc' = Desc  BY DEF RwDone, Desc, bufVars
<1>5. idx'[p] = <<>> /\ ~Waits(p)'
  <2>1. pc'[p] = "own"  BY <1>0, DiskMoves
  <2> QED BY <1>2, <1>t, <2>1 DEF Waits
<1>6. ASSUME NEW q \in Procs, q # p
      PROVE  idx'[q] = idx[q] /\ write'[q] = write[q] /\ (Waits(q)' <=> Waits(q))
  <2>1. pc'[q] = pc[q] \/ (pc[q] = "desc_sleep" /\ pc'[q] = "rw")  BY <1>0, <1>6, DiskMoves
  <2> QED BY <1>2, <1>6, <1>t, <2>1 DEF Waits
<1>7. ASSUME NEW q \in Procs, q # p, Waits(q) PROVE IsChain(q)'
  <2>1. IsChain(q)  BY <1>7 DEF CacheInv, Chains
  <2>2. \A d \in {idx[q][1], idx[q][2], idx[q][3]} : d \in Desc /\ d \notin C
    <3>1. \A m, n \in 1 .. 3 : idx[p][m] # idx[q][n]  BY <1>0, <1>7, Apart
    <3>2. /\ \A d \in {idx[q][1], idx[q][2], idx[q][3]} : d \in Desc
      BY <1>7, ChainOf
    <3> QED BY <3>1, <3>2
  <2> HIDE DEF C
  <2>3. \A d \in {idx[q][1], idx[q][2], idx[q][3]} :
          desc'[d] = desc[d] /\ info'[d] = info[d] /\ ops'[d] = ops[d]
    <3>1. idx[p][1] \in C  BY DEF C
    <3> QED BY <1>2, <1>t, <2>2, <3>1
  <2> QED BY <1>3, <1>6, <1>7, <2>1, <2>3 DEF IsChain
<1>8. Chains'
  <2>1. ASSUME NEW q \in Procs, ~Waits(q)' PROVE idx'[q] = <<>>
    BY <1>5, <1>6, <2>1 DEF CacheInv, Chains
  <2>2. ASSUME NEW q \in Procs, Waits(q)' PROVE IsChain(q)'
    BY <1>5, <1>6, <1>7, <2>2
  <2> QED BY <2>1, <2>2 DEF Chains
<1>9. free' = Desc \ UNION {Of(q)' : q \in Procs}
  <2>1. Of(p) = C /\ Of(p)' = {}
    <3>1. Len(idx'[p]) = 0  BY <1>5
    <3>2. Of(p)' = {}  BY <3>1 DEF Of
    <3> QED BY <1>0, <3>2, OfFree
  <2>2. \A q \in Procs : q # p => Of(q)' = Of(q)  BY <1>6 DEF Of
  <2>3. \A q \in Procs : q # p => Of(q) \cap C = {}
    <3> SUFFICES ASSUME NEW q \in Procs, q # p, Waits(q) PROVE Of(q) \cap C = {}
      BY OfFree
    <3>1. Of(q) = {idx[q][1], idx[q][2], idx[q][3]}  BY OfFree
    <3>2. \A m, n \in 1 .. 3 : idx[p][m] # idx[q][n]  BY <1>0, Apart
    <3> QED BY <3>1, <3>2
  <2> HIDE DEF C
  <2>4. \A d : d \in free' <=> d \in Desc /\ \A q \in Procs : d \notin Of(q)'
    <3>1. \A d : d \in free <=> d \in Desc /\ \A q \in Procs : d \notin Of(q)  BY OfFree
    <3>2. \A d : d \in free' <=> d \in free \/ d \in C  BY <1>2
    <3>3. \A d \in C : d \in Desc /\ \A q \in Procs : d \notin Of(q)'  BY <1>1, <2>1, <2>2, <2>3
    <3>4. \A d : d \notin C => (\A q \in Procs : d \notin Of(q)') = (\A q \in Procs : d \notin Of(q))
      BY <2>1, <2>2
    <3> QED BY <3>1, <3>2, <3>3, <3>4
  <2> QED BY <2>4
<1>10. OwnedOnce'
  <2>1. \A q \in Procs : idx'[q] # <<>> => q # p /\ idx'[q] = idx[q]  BY <1>5, <1>6
  <2>2. \A q, r \in Procs, m, n \in 1 .. 3 :
          idx[q] # <<>> /\ idx[r] # <<>> /\ <<q, m>> # <<r, n>> => idx[q][m] # idx[r][n]
    BY DEF CacheInv, OwnedOnce
  <2> QED BY <1>3, <1>9, <2>1, <2>2 DEF OwnedOnce, Of
<1> QED BY <1>8, <1>10 DEF Owned

-----------------------------------------------------------------------------
(* The rings, and who sleeps on the disk.                                   *)

LEMMA OthersBuffer ==
  ASSUME CacheInv, NEW p \in Procs, NEW q \in Procs, p # q,
         pc[p] \in Disking \cup {"own"}, pc[q] \in Disking \cup {"own"}
  PROVE  buf[q] # buf[p]
BY DEF CacheInv, Locks

\* Nothing happens to the requests, but somebody may be woken.
Calm ==
  /\ UNCHANGED <<NUM, free, desc, info, ops, idx, avail, used, disk, irq, intr, home>>
  /\ \A q \in Procs : Waits(q)' <=> Waits(q)
  /\ \A q \in Procs : Waits(q) => /\ buf'[q] = buf[q] /\ write'[q] = write[q]
                                  /\ blockno'[buf[q]] = blockno[buf[q]]
                                  /\ data'[buf[q]] = data[buf[q]]
  /\ \A q \in Procs : /\ pc'[q] = "disk_sleep" => pc[q] = "disk_sleep"
                      /\ pc'[q] = "desc_sleep" => pc[q] = "desc_sleep"

Driven == Owned /\ Queues /\ NoLostCompletion /\ NoLostDescriptor

LEMMA CalmKeeps ==
  ASSUME CacheInv, Calm
  PROVE  Driven'
<1>1. Owned'  BY OwnedFrame DEF Calm
<1>2. Queues'  BY DEF CacheInv, Queues, Calm, Asked, Answered
<1>3. NoLostCompletion'
  <2>1. \A q \in Procs : pc'[q] = "disk_sleep" => Waits(q) /\ pc[q] = "disk_sleep"
    BY DEF Calm, Waits
  <2> QED BY <2>1 DEF CacheInv, NobodyForgotten, NoLostCompletion, Calm
<1>4. NoLostDescriptor'  BY DEF CacheInv, NobodyForgotten, NoLostDescriptor, Calm
<1> QED BY <1>1, <1>2, <1>3, <1>4 DEF Driven

\* What the cache does concerns no request.
LEMMA CacheCalm ==
  ASSUME CacheInv, NEW p \in Procs
  PROVE  /\ bget(p) => Calm
         /\ acquiresleep(p) => Calm
         /\ bwrite(p) => Calm
         /\ brelse(p) => Calm
         /\ kill(p) => Calm
         /\ Bunpin(p) => Calm
         /\ \A v \in Vals : Modify(p, v) => Calm
<1>0. TypeOK  BY DEF CacheInv
<1>t. /\ pc \in [Procs -> Labels] /\ buf \in [Procs -> Bufs \cup {None}]
      /\ blockno \in [Bufs -> Blocks \cup {None}] /\ data \in [Bufs -> Vals]
      /\ write \in [Procs -> BOOLEAN]
  BY <1>0 DEF TypeOK, DiskTypeOK
<1>b. \A q \in Procs : Waits(q) => buf[q] \in Bufs  BY HasBuf DEF Waits
<1> USE DEF bufVars, driverVars, deviceVars, diskVars, cacheVars, lockVars
<1>1. ASSUME NEW k \in Blocks, BgetHit(p, k) PROVE Calm
  <2>1. PICK b \in Bufs : buf' = [buf EXCEPT ![p] = b]  BY <1>1 DEF BgetHit, Cached
  <2> QED BY <1>1, <1>t, <2>1 DEF BgetHit, Calm, Waits
<1>2. ASSUME NEW k \in Blocks, BgetRecycle(p, k) PROVE Calm
  <2>1. PICK i \in Unused : /\ buf' = [buf EXCEPT ![p] = lru[i]]
                            /\ blockno' = [blockno EXCEPT ![lru[i]] = k]
    BY <1>2, Zenon DEF BgetRecycle
  <2>2. lru[i] \in Bufs /\ refcnt[lru[i]] = 0
    <3>1. lru \in Seq(Bufs)  BY <1>0 DEF TypeOK
    <3> QED BY <3>1 DEF Unused
  <2>3. \A q \in Procs : buf[q] # lru[i]  BY <2>2, Unreferenced
  <2> QED BY <1>2, <1>t, <1>b, <2>1, <2>2, <2>3 DEF BgetRecycle, Calm, Waits
<1>3. ASSUME NEW k \in Blocks, BgetPanic(p, k) PROVE Calm
  BY <1>3 DEF BgetPanic, Calm, Waits
<1>4. ASSUME acquiresleep(p) PROVE Calm
  BY <1>4, <1>t DEF acquiresleep, AcquireSleep, SleepOnLock, Calm, Waits
<1>5. ASSUME bwrite(p) PROVE Calm
  BY <1>5, <1>t DEF bwrite, Calm, Waits
<1>6. ASSUME releasesleep(p) PROVE Calm
  <2>1. pc[p] = "own" /\ pc'[p] = "unref"
    <3>1. Wake("lock_sleep", {q \in Procs : buf[q] = buf[p]}, "lock") \in [Procs -> Labels]
      BY <1>t, WakeType DEF Labels
    <3> QED BY <1>6, <3>1 DEF releasesleep
  <2>2. ASSUME NEW q \in Procs, q # p
        PROVE  pc'[q] = pc[q] \/ (pc[q] = "lock_sleep" /\ pc'[q] = "lock")
    <3> DEFINE W == Wake("lock_sleep", {x \in Procs : buf[x] = buf[p]}, "lock")
    <3>1. W[q] = IF pc[q] = "lock_sleep" /\ buf[q] = buf[p] THEN "lock" ELSE pc[q]  BY DEF Wake
    <3>2. W \in [Procs -> Labels]  BY <1>t, WakeType DEF Labels
    <3>3. pc' = [W EXCEPT ![p] = "unref"]  BY <1>6 DEF releasesleep
    <3> HIDE DEF W
    <3>4. pc'[q] = W[q]  BY <2>2, <3>2, <3>3
    <3> QED BY <3>1, <3>4
  <2>3. UNCHANGED <<NUM, free, desc, info, ops, idx, avail, used, disk, irq, intr, home,
                    buf, write, blockno, data>>
    BY <1>6 DEF releasesleep
  <2> QED BY <2>1, <2>2, <2>3 DEF Calm, Waits
<1>7. ASSUME Unref(p) PROVE Calm
  BY <1>7, <1>t DEF Unref, Calm, Waits
<1>8. ASSUME kill(p) PROVE Calm
  <2>1. \A q \in Procs : /\ Waits(q)' <=> Waits(q)
                         /\ pc'[q] = "disk_sleep" => pc[q] = "disk_sleep"
                         /\ pc'[q] = "desc_sleep" => pc[q] = "desc_sleep"
    BY <1>0, <1>t, <1>8, WokenMoves DEF Waits
  <2> QED BY <1>8, <2>1 DEF kill, Calm
<1>9. ASSUME Bunpin(p) PROVE Calm
  BY <1>9 DEF Bunpin, Calm, Waits
<1>10. ASSUME NEW v \in Vals, Modify(p, v) PROVE Calm
  <2>1. pc[p] = "own" /\ data' = [data EXCEPT ![buf[p]] = v]  BY <1>10 DEF Modify
  <2>2. \A q \in Procs : Waits(q) => buf[q] # buf[p]
    BY <2>1, OthersBuffer DEF Waits, Disking
  <2> QED BY <1>10, <1>t, <1>b, <2>1, <2>2 DEF Modify, Calm, Waits
<1> QED
  BY <1>1, <1>2, <1>3, <1>4, <1>5, <1>6, <1>7, <1>8, <1>9, <1>10 DEF bget, brelse

\* The device and the handler have only heads of requests that wait.
LEMMA Heads ==
  ASSUME CacheInv, NEW d, d \in avail \/ \E n \in 1 .. Len(used) : used[n] = d
  PROVE  d \notin free /\ \E q \in Procs : Waits(q) /\ idx[q][1] = d
<1>1. PICK q \in Procs : Waits(q) /\ idx[q][1] = d  BY DEF CacheInv, Queues
<1> QED BY <1>1, NotFree

LEMMA SameHead ==
  ASSUME CacheInv, NEW p \in Procs, NEW q \in Procs, Waits(p), Waits(q), idx[p][1] = idx[q][1]
  PROVE  p = q
BY Apart

LEMMA DrivenSubmit ==
  ASSUME CacheInv, TypeOK', NEW p \in Procs, RwSubmit(p)
  PROVE  Driven'
<1>0. TypeOK /\ NUM \in Sizes /\ pc[p] = "rw" /\ ~Waits(p)  BY DEF CacheInv, RwSubmit, Waits
<1>t. idx \in [Procs -> Seq(Desc)] /\ disk \in [Bufs -> BOOLEAN]
  BY <1>0 DEF TypeOK, DiskTypeOK
<1>b. buf[p] \in Bufs  BY <1>0, HasBuf
<1>1. PICK i, j, k \in free : Three = <<i, j, k>> /\ i # j /\ i # k /\ j # k
  BY <1>0, ThreeFree DEF RwSubmit
<1>2. /\ idx' = [idx EXCEPT ![p] = <<i, j, k>>]
      /\ disk' = [disk EXCEPT ![buf[p]] = TRUE]
      /\ avail' = avail \cup {i}
      /\ UNCHANGED <<used, irq, intr, buf>>
  BY <1>1 DEF RwSubmit
<1>3. Owned'  BY OwnedSubmit
<1>4. idx'[p][1] = i /\ Waits(p)' /\ pc'[p] = "disk_sleep"  BY <1>0, <1>2, <1>t, DiskMoves DEF Waits
<1>5. ASSUME NEW q \in Procs, q # p
      PROVE  /\ (Waits(q)' <=> Waits(q)) /\ idx'[q] = idx[q] /\ pc'[q] = pc[q]
             /\ Waits(q) => disk'[buf[q]] = disk[buf[q]] /\ idx[q][1] # i
  <2>1. pc'[q] = pc[q] /\ idx'[q] = idx[q]  BY <1>0, <1>2, <1>5, <1>t, DiskMoves
  <2>2. ASSUME Waits(q) PROVE disk'[buf[q]] = disk[buf[q]] /\ idx[q][1] # i
    <3>1. buf[q] # buf[p]  BY <1>0, <1>5, <2>2, OthersBuffer DEF Waits, Disking
    <3>2. idx[q][1] \notin free  BY <2>2, NotFree
    <3> QED BY <1>1, <1>2, <1>b, <1>t, <3>1, <3>2
  <2> QED BY <2>1, <2>2 DEF Waits
<1>6. i \notin avail /\ \A n \in 1 .. Len(used) : used[n] # i  BY <1>1, Heads
<1>7. Queues'
  <2>1. \A d \in avail' : \E q \in Procs : Waits(q)' /\ idx'[q][1] = d
    <3> TAKE d \in avail'
    <3>1. CASE d = i  BY <1>4, <3>1
    <3>2. CASE d \in avail
      <4>1. PICK q \in Procs : Waits(q) /\ idx[q][1] = d  BY <3>2 DEF CacheInv, Queues
      <4>2. q # p  BY <1>0, <4>1
      <4> QED BY <1>5, <4>1, <4>2
    <3> QED BY <1>2, <3>1, <3>2
  <2>2. \A n \in 1 .. Len(used) : \E q \in Procs : Waits(q)' /\ idx'[q][1] = used[n]
    BY <1>0, <1>5 DEF CacheInv, Queues
  <2>3. \A n \in 1 .. Len(used) : used[n] \notin avail'
    BY <1>2, <1>6 DEF CacheInv, Queues
  <2>4. \A m, n \in 1 .. Len(used) : used[m] = used[n] => m = n  BY DEF CacheInv, Queues
  <2>5. ASSUME NEW q \in Procs, Waits(q)'
        PROVE  disk'[buf[q]] <=> idx'[q][1] \in avail' \/ \E n \in 1 .. Len(used) : used[n] = idx'[q][1]
    <3>1. CASE q = p  BY <1>2, <1>4, <1>b, <1>t, <3>1
    <3>2. CASE q # p
      <4>1. disk[buf[q]] <=> idx[q][1] \in avail \/ \E n \in 1 .. Len(used) : used[n] = idx[q][1]
        BY <1>5, <2>5, <3>2 DEF CacheInv, Queues, Asked, Answered
      <4>2. disk'[buf[q]] = disk[buf[q]] /\ idx'[q] = idx[q] /\ idx[q][1] # i
        BY <1>5, <2>5, <3>2
      <4>3. idx[q][1] \in avail' <=> idx[q][1] \in avail  BY <1>2, <4>2
      <4> QED BY <4>1, <4>2, <4>3
    <3> QED BY <3>1, <3>2
  <2> QED BY <1>2, <2>1, <2>2, <2>3, <2>4, <2>5 DEF Queues, Asked, Answered
<1>8. NoLostCompletion'
  <2>1. used' # <<>> => irq' \/ intr'
    BY <1>2 DEF CacheInv, NobodyForgotten, NoLostCompletion
  <2>2. ASSUME NEW q \in Procs, pc'[q] = "disk_sleep"
        PROVE  disk'[buf'[q]] /\ info'[idx'[q][1]].b = buf'[q]
    <3>1. Waits(q)'  BY <2>2 DEF Waits
    <3>2. info'[idx'[q][1]].b = buf'[q]  BY <1>3, <3>1 DEF Owned, Chains, IsChain
    <3>3. disk'[buf'[q]]
      <4>1. CASE q = p  BY <1>2, <1>b, <1>t, <4>1
      <4>2. CASE q # p
        <5>1. Waits(q) /\ pc[q] = "disk_sleep"  BY <1>5, <2>2, <3>1, <4>2
        <5>2. disk[buf[q]]  BY <5>1 DEF CacheInv, NobodyForgotten, NoLostCompletion
        <5> QED BY <1>2, <1>5, <4>2, <5>1, <5>2
      <4> QED BY <4>1, <4>2
    <3> QED BY <3>2, <3>3
  <2> QED BY <2>1, <2>2 DEF NoLostCompletion
<1>9. NoLostDescriptor'
  <2>1. Cardinality(free) >= 3 /\ IsFiniteSet(free)
    <3>1. free \subseteq Desc /\ IsFiniteSet(Desc)  BY <1>0, SizesNat DEF TypeOK, DiskTypeOK
    <3> QED BY <3>1, FS_Subset DEF RwSubmit
  <2>2. Cardinality(free) \in Nat  BY <2>1, FS_CardinalityType
  <2>3. \A q \in Procs : pc[q] # "desc_sleep"
    <3>1. ~(Cardinality(free) < 3)  BY <2>1, <2>2
    <3> QED BY <3>1 DEF CacheInv, NobodyForgotten, NoLostDescriptor
  <2>4. \A q \in Procs : pc'[q] # "desc_sleep"  BY <1>4, <1>5, <2>3
  <2> QED BY <2>4 DEF NoLostDescriptor
<1> QED BY <1>3, <1>7, <1>8, <1>9 DEF Driven

LEMMA DrivenDone ==
  ASSUME CacheInv, TypeOK', NEW p \in Procs, RwDone(p)
  PROVE  Driven'
<1>0. TypeOK /\ pc[p] = "disk_wait" /\ Waits(p) /\ ~disk[buf[p]]
  BY DEF CacheInv, RwDone, Waits
<1>t. idx \in [Procs -> Seq(Desc)]  BY <1>0 DEF TypeOK, DiskTypeOK
<1>1. UNCHANGED <<disk, avail, used, irq, intr, buf>> /\ idx' = [idx EXCEPT ![p] = <<>>]
  BY DEF RwDone, bufVars, deviceVars
<1>2. Owned'  BY OwnedDone
<1>3. pc'[p] = "own" /\ ~Waits(p)'
  <2>1. pc'[p] = "own"  BY <1>0, DiskMoves
  <2> QED BY <2>1 DEF Waits
<1>4. ASSUME NEW q \in Procs, q # p
      PROVE  /\ (Waits(q)' <=> Waits(q)) /\ idx'[q] = idx[q]
             /\ pc'[q] = "disk_sleep" => pc[q] = "disk_sleep"
  <2>1. pc'[q] = pc[q] \/ (pc[q] = "desc_sleep" /\ pc'[q] = "rw")  BY <1>0, <1>4, DiskMoves
  <2> QED BY <1>1, <1>4, <1>t, <2>1 DEF Waits
<1>5. idx[p][1] \notin avail /\ \A n \in 1 .. Len(used) : used[n] # idx[p][1]
  BY <1>0 DEF CacheInv, Queues, Asked, Answered
<1>6. Queues'
  <2>1. \A d \in avail : \E q \in Procs : Waits(q)' /\ idx'[q][1] = d
    <3> TAKE d \in avail
    <3>1. PICK q \in Procs : Waits(q) /\ idx[q][1] = d  BY DEF CacheInv, Queues
    <3>2. q # p  BY <1>5, <3>1
    <3> QED BY <1>4, <3>1, <3>2
  <2>2. \A n \in 1 .. Len(used) : \E q \in Procs : Waits(q)' /\ idx'[q][1] = used[n]
    <3> TAKE n \in 1 .. Len(used)
    <3>1. PICK q \in Procs : Waits(q) /\ idx[q][1] = used[n]  BY DEF CacheInv, Queues
    <3>2. q # p  BY <1>5, <3>1
    <3> QED BY <1>4, <3>1, <3>2
  <2>3. \A q \in Procs : Waits(q)' => q # p /\ Waits(q) /\ idx'[q] = idx[q]  BY <1>3, <1>4
  <2> QED BY <1>1, <2>1, <2>2, <2>3 DEF CacheInv, Queues, Asked, Answered
<1>7. NoLostCompletion'
  <2>1. \A q \in Procs : pc'[q] = "disk_sleep" => pc[q] = "disk_sleep" /\ Waits(q)'
    BY <1>3, <1>4 DEF Waits
  <2>2. \A q \in Procs : Waits(q)' => info'[idx'[q][1]].b = buf'[q]
    BY <1>2 DEF Owned, Chains, IsChain
  <2> QED BY <1>1, <2>1, <2>2 DEF CacheInv, NobodyForgotten, NoLostCompletion
<1>8. NoLostDescriptor'
  <2>1. \A q \in Procs : pc'[q] # "desc_sleep"
    <3> TAKE q \in Procs
    <3>1. WakeFree[q] # "desc_sleep" /\ WakeFree \in [Procs -> Labels]
      BY <1>0, WakeMoves, WakeType DEF WakeFree, Labels, TypeOK
    <3>2. pc' = [WakeFree EXCEPT ![p] = "own"]  BY DEF RwDone
    <3> QED BY <3>1, <3>2
  <2> QED BY <2>1 DEF NoLostDescriptor
<1> QED BY <1>2, <1>6, <1>7, <1>8 DEF Driven

\* The two steps that only move who asks.
LEMMA DrivenWait ==
  ASSUME CacheInv, TypeOK', NEW p \in Procs, RwNoDesc(p) \/ RwWait(p)
  PROVE  Driven'
<1>0. TypeOK  BY DEF CacheInv
<1>1. UNCHANGED <<NUM, free, desc, info, ops, idx, avail, used, disk, irq, intr, buf, write, blockno>>
  BY DEF RwNoDesc, RwWait, bufVars, driverVars, deviceVars
<1>2. ASSUME NEW q \in Procs
      PROVE  (Waits(q)' <=> Waits(q)) /\ (q # p /\ pc'[q] = "disk_sleep" => pc[q] = "disk_sleep")
  <2>1. CASE RwNoDesc(p)
    <3>1. pc[p] = "rw"  BY <2>1 DEF RwNoDesc
    <3>2. \/ q = p /\ pc'[q] = "desc_sleep"
          \/ q # p /\ (pc'[q] = pc[q] \/ (pc[q] = "desc_sleep" /\ pc'[q] = "rw"))
      BY <1>0, <2>1, DiskMoves
    <3> QED BY <3>1, <3>2 DEF Waits
  <2>2. CASE RwWait(p)
    <3>1. pc[p] = "disk_wait"  BY <2>2 DEF RwWait
    <3>2. pc'[q] = IF q = p THEN "disk_sleep" ELSE pc[q]  BY <1>0, <2>2, DiskMoves
    <3> QED BY <3>1, <3>2 DEF Waits
  <2> QED BY <2>1, <2>2
<1>3. Owned'  BY <1>1, <1>2, OwnedFrame
<1>4. Queues'  BY <1>1, <1>2 DEF CacheInv, Queues, Asked, Answered
<1>5. NoLostCompletion'
  <2>1. ASSUME NEW q \in Procs, pc'[q] = "disk_sleep"
        PROVE  disk[buf[q]] /\ info[idx[q][1]].b = buf[q]
    <3>1. Waits(q)  BY <1>2, <2>1 DEF Waits
    <3>2. info[idx[q][1]].b = buf[q]  BY <3>1, ChainOf
    <3>3. disk[buf[q]]
      <4>1. CASE q = p
        <5>1. RwWait(p)
          <6>1. RwNoDesc(p) => pc[p] = "rw"  BY DEF RwNoDesc
          <6> QED BY <3>1, <4>1, <6>1 DEF Waits
        <5> QED BY <4>1, <5>1 DEF RwWait
      <4>2. CASE q # p  BY <1>2, <2>1, <4>2 DEF CacheInv, NobodyForgotten, NoLostCompletion
      <4> QED BY <4>1, <4>2
    <3> QED BY <3>2, <3>3
  <2> QED BY <1>1, <2>1 DEF CacheInv, NobodyForgotten, NoLostCompletion
<1>6. NoLostDescriptor'
  <2>1. CASE RwNoDesc(p)  BY <1>1, <2>1 DEF RwNoDesc, NoLostDescriptor
  <2>2. CASE RwWait(p)
    <3>1. \A q \in Procs : pc'[q] = IF q = p THEN "disk_sleep" ELSE pc[q]  BY <1>0, <2>2, DiskMoves
    <3> QED BY <1>1, <3>1 DEF CacheInv, NobodyForgotten, NoLostDescriptor
  <2> QED BY <2>1, <2>2
<1> QED BY <1>3, <1>4, <1>5, <1>6 DEF Driven

LEMMA TailOf ==
  ASSUME NEW S, NEW s \in Seq(S), s # <<>>
  PROVE  /\ Head(s) = s[1] /\ 1 \in 1 .. Len(s)
         /\ Len(Tail(s)) = Len(s) - 1
         /\ \A n \in 1 .. Len(Tail(s)) : Tail(s)[n] = s[n + 1] /\ n + 1 \in 1 .. Len(s)
         /\ \A n \in 1 .. Len(s) : n # 1 => n - 1 \in 1 .. Len(Tail(s))
OBVIOUS

\* The handler has taken the first answer: the buffer of its request is free.
LEMMA DrivenEntry ==
  ASSUME CacheInv, TypeOK', IntrEntry
  PROVE  Driven'
<1>0. TypeOK /\ intr /\ used # <<>>  BY DEF CacheInv, IntrEntry
<1>t. used \in Seq(Desc) /\ disk \in [Bufs -> BOOLEAN]  BY <1>0 DEF TypeOK, DiskTypeOK
<1> DEFINE h == Head(used)
<1>1. /\ h = used[1] /\ 1 \in 1 .. Len(used)
      /\ \A n \in 1 .. Len(Tail(used)) : Tail(used)[n] = used[n + 1] /\ n + 1 \in 1 .. Len(used)
      /\ \A n \in 1 .. Len(used) : n # 1 => n - 1 \in 1 .. Len(Tail(used))
      /\ Len(Tail(used)) = Len(used) - 1
  BY <1>0, <1>t, TailOf
<1>2. PICK p \in Procs : Waits(p) /\ idx[p][1] = h  BY <1>1 DEF CacheInv, Queues
<1>3. info[h].b = buf[p] /\ buf[p] \in Bufs  BY <1>2, ChainOf
<1>4. /\ disk' = [disk EXCEPT ![buf[p]] = FALSE] /\ pc' = WakeBuf(buf[p])
      /\ used' = Tail(used) /\ intr' = intr
      /\ UNCHANGED <<NUM, free, desc, info, ops, idx, avail, buf, write, blockno>>
  BY <1>3 DEF IntrEntry, driverVars
<1> HIDE DEF h
<1>5. ASSUME NEW q \in Procs
      PROVE  /\ pc'[q] = pc[q] \/ (pc[q] = "disk_sleep" /\ pc'[q] = "disk_wait")
             /\ pc'[q] = "disk_sleep" => pc[q] = "disk_sleep" /\ buf[q] # buf[p]
             /\ Waits(q)' <=> Waits(q)
  BY <1>4, WakeMoves DEF Waits
<1>6. Owned'  BY <1>4, <1>5, OwnedFrame
<1>7. h \notin avail /\ \A n \in 1 .. Len(Tail(used)) : Tail(used)[n] # h
  <2>1. h \notin avail  BY <1>1 DEF CacheInv, Queues
  <2>2. \A m, n \in 1 .. Len(used) : used[m] = used[n] => m = n  BY DEF CacheInv, Queues
  <2>3. ASSUME NEW n \in 1 .. Len(Tail(used)) PROVE Tail(used)[n] # h
    <3>1. Tail(used)[n] = used[n + 1] /\ n + 1 \in 1 .. Len(used) /\ n + 1 # 1  BY <1>1
    <3> QED BY <1>1, <2>2, <3>1
  <2> QED BY <2>1, <2>3
<1>8. Queues'
  <2>1. \A n \in 1 .. Len(used') : used'[n] \notin avail
    BY <1>1, <1>4 DEF CacheInv, Queues
  <2>2. \A n \in 1 .. Len(used') : \E q \in Procs : Waits(q)' /\ idx[q][1] = used'[n]
    <3> TAKE n \in 1 .. Len(used')
    <3>1. used'[n] = used[n + 1] /\ n + 1 \in 1 .. Len(used)  BY <1>1, <1>4
    <3>2. PICK q \in Procs : Waits(q) /\ idx[q][1] = used[n + 1]  BY <3>1 DEF CacheInv, Queues
    <3> QED BY <1>5, <3>1, <3>2
  <2>3. ASSUME NEW m \in 1 .. Len(used'), NEW n \in 1 .. Len(used'), used'[m] = used'[n]
        PROVE  m = n
    <3>1. used[m + 1] = used[n + 1] /\ m + 1 \in 1 .. Len(used) /\ n + 1 \in 1 .. Len(used)
      BY <1>1, <1>4, <2>3
    <3>2. m + 1 = n + 1  BY <3>1 DEF CacheInv, Queues
    <3> QED BY <3>2
  <2>4. \A d : d # h => ((\E n \in 1 .. Len(used') : used'[n] = d)
                           <=> \E n \in 1 .. Len(used) : used[n] = d)
    <3> TAKE d
    <3> HAVE d # h
    <3>1. ASSUME NEW n \in 1 .. Len(used), used[n] = d PROVE \E m \in 1 .. Len(used') : used'[m] = d
      <4>1. n # 1 /\ n - 1 \in 1 .. Len(used')  BY <1>1, <1>4, <3>1
      <4>2. used'[n - 1] = used[(n - 1) + 1] /\ (n - 1) + 1 = n  BY <1>1, <1>4, <4>1
      <4> QED BY <3>1, <4>1, <4>2
    <3>2. ASSUME NEW n \in 1 .. Len(used'), used'[n] = d PROVE \E m \in 1 .. Len(used) : used[m] = d
      BY <1>1, <1>4, <3>2
    <3> QED BY <3>1, <3>2
  <2>5. ASSUME NEW q \in Procs, Waits(q)
        PROVE  disk'[buf[q]] <=> idx[q][1] \in avail \/ \E n \in 1 .. Len(used') : used'[n] = idx[q][1]
    <3>1. CASE q = p  BY <1>2, <1>3, <1>4, <1>7, <1>t, <3>1
    <3>2. CASE q # p
      <4>1. buf[q] # buf[p]  BY <1>2, <2>5, <3>2, OthersBuffer DEF Waits, Disking
      <4>2. idx[q][1] # h  BY <1>2, <2>5, <3>2, SameHead
      <4>3. disk[buf[q]] <=> idx[q][1] \in avail \/ \E n \in 1 .. Len(used) : used[n] = idx[q][1]
        BY <2>5 DEF CacheInv, Queues, Asked, Answered
      <4>4. disk'[buf[q]] = disk[buf[q]]  BY <1>4, <1>t, <4>1
      <4> QED BY <2>4, <4>2, <4>3, <4>4
    <3> QED BY <3>1, <3>2
  <2>6. \A d \in avail : \E q \in Procs : Waits(q)' /\ idx[q][1] = d
    BY <1>5 DEF CacheInv, Queues
  <2> QED BY <1>4, <1>5, <2>1, <2>2, <2>3, <2>5, <2>6 DEF Queues, Asked, Answered
<1>9. NoLostCompletion'
  <2>1. \A q \in Procs : pc'[q] = "disk_sleep" => disk'[buf[q]] /\ info[idx[q][1]].b = buf[q]
    BY <1>3, <1>4, <1>5, <1>t DEF CacheInv, NobodyForgotten, NoLostCompletion
  <2> QED BY <1>0, <1>4, <2>1 DEF NoLostCompletion
<1>10. NoLostDescriptor'
  BY <1>4, <1>5 DEF CacheInv, NobodyForgotten, NoLostDescriptor
<1> QED BY <1>6, <1>8, <1>9, <1>10 DEF Driven

LEMMA AppendOf ==
  ASSUME NEW S, NEW s \in Seq(S), NEW x \in S
  PROVE  /\ Len(Append(s, x)) = Len(s) + 1
         /\ \A n \in 1 .. Len(s) : Append(s, x)[n] = s[n]
         /\ Append(s, x)[Len(s) + 1] = x
         /\ \A n \in 1 .. Len(s) + 1 : n \in 1 .. Len(s) \/ n = Len(s) + 1
OBVIOUS

\* The device has answered a request.
LEMMA DrivenDev ==
  ASSUME CacheInv, TypeOK', NEW id \in Desc, DevDone(id)
  PROVE  Driven'
<1>0. TypeOK /\ id \in avail  BY DEF CacheInv, DevDone
<1>t. /\ used \in Seq(Desc)
      /\ info \in [Desc -> [b : Bufs \cup {None}, status : {0, 255}]]
  BY <1>0 DEF TypeOK, DiskTypeOK
<1>1. PICK p \in Procs : /\ Waits(p) /\ idx[p][1] = id
                         /\ desc[desc[desc[id].next].next].addr = id
  BY <1>0, AskedChain
<1>2. /\ info' = [info EXCEPT ![id] = [info[id] EXCEPT !.status = 0]]
      /\ avail' = avail \ {id} /\ used' = Append(used, id) /\ irq'
      /\ UNCHANGED <<NUM, pc, buf, write, idx, blockno, disk, free, desc, ops, intr>>
  BY <1>1 DEF DevDone
<1>3. \A d \in Desc : info'[d].b = info[d].b
  <2>1. info[id] \in [b : Bufs \cup {None}, status : {0, 255}]  BY <1>t
  <2>2. [info[id] EXCEPT !.status = 0].b = info[id].b  BY <2>1, InfoType
  <2> QED BY <1>2, <1>t, <2>2
<1>4. Owned'
  <2>1. \A q \in Procs : Waits(q)' <=> Waits(q)  BY <1>2 DEF Waits
  <2>2. \A q \in Procs : Waits(q) => info'[idx[q][1]].b = info[idx[q][1]].b  BY <1>3, ChainOf
  <2> QED BY <1>2, <2>1, <2>2, OwnedFrame
<1>5. /\ Len(used') = Len(used) + 1
      /\ \A n \in 1 .. Len(used) : used'[n] = used[n]
      /\ used'[Len(used) + 1] = id
      /\ \A n \in 1 .. Len(used) + 1 : n \in 1 .. Len(used) \/ n = Len(used) + 1
      /\ Len(used) \in Nat
  BY <1>2, <1>t, AppendOf
<1>6. \A n \in 1 .. Len(used) : used[n] # id  BY <1>0 DEF CacheInv, Queues
<1>7. Queues'
  <2>1. \A n \in 1 .. Len(used') : used'[n] \notin avail'
    BY <1>2, <1>5 DEF CacheInv, Queues
  <2>2. \A n \in 1 .. Len(used') : \E q \in Procs : Waits(q) /\ idx[q][1] = used'[n]
    BY <1>1, <1>5 DEF CacheInv, Queues
  <2>3. ASSUME NEW m \in 1 .. Len(used'), NEW n \in 1 .. Len(used'), used'[m] = used'[n]
        PROVE  m = n
    <3>1. (m \in 1 .. Len(used) \/ m = Len(used) + 1) /\ (n \in 1 .. Len(used) \/ n = Len(used) + 1)
      BY <1>5
    <3>2. \A x, y \in 1 .. Len(used) : used[x] = used[y] => x = y  BY DEF CacheInv, Queues
    <3> QED BY <1>5, <1>6, <2>3, <3>1, <3>2
  <2>4. \A d : (d \in avail' \/ \E n \in 1 .. Len(used') : used'[n] = d)
                 <=> (d \in avail \/ \E n \in 1 .. Len(used) : used[n] = d)
    <3> TAKE d
    <3>1. (\E n \in 1 .. Len(used') : used'[n] = d)
             <=> (d = id \/ \E n \in 1 .. Len(used) : used[n] = d)
      <4>1. Len(used) + 1 \in 1 .. Len(used') /\ 1 .. Len(used) \subseteq 1 .. Len(used')  BY <1>5
      <4> QED BY <1>5, <4>1
    <3>2. d \in avail' <=> d \in avail /\ d # id  BY <1>2
    <3> QED BY <1>0, <3>1, <3>2
  <2>5. \A q \in Procs : Waits(q) => (disk[buf[q]] <=>
          (idx[q][1] \in avail \/ \E n \in 1 .. Len(used) : used[n] = idx[q][1]))
    BY DEF CacheInv, Queues, Asked, Answered
  <2>6. \A d \in avail' : \E q \in Procs : Waits(q) /\ idx[q][1] = d
    BY <1>2 DEF CacheInv, Queues
  <2>7. \A q \in Procs : Waits(q) => (disk[buf[q]] <=>
          (idx[q][1] \in avail' \/ \E n \in 1 .. Len(used') : used'[n] = idx[q][1]))
    BY <2>4, <2>5
  <2>8. \A q \in Procs : Waits(q)' <=> Waits(q)  BY <1>2 DEF Waits
  <2> QED BY <1>2, <2>1, <2>2, <2>3, <2>6, <2>7, <2>8 DEF Queues, Asked, Answered
<1>8. NoLostCompletion'
  <2>1. \A q \in Procs : pc[q] = "disk_sleep" => disk[buf[q]] /\ info'[idx[q][1]].b = buf[q]
    <3> TAKE q \in Procs
    <3> HAVE pc[q] = "disk_sleep"
    <3>1. Waits(q)  BY DEF Waits
    <3>2. idx[q][1] \in Desc /\ info[idx[q][1]].b = buf[q]  BY <3>1, ChainOf
    <3>3. disk[buf[q]]  BY DEF CacheInv, NobodyForgotten, NoLostCompletion
    <3> QED BY <1>3, <3>2, <3>3
  <2> QED BY <1>2, <2>1 DEF NoLostCompletion
<1>9. NoLostDescriptor'  BY <1>2 DEF CacheInv, NobodyForgotten, NoLostDescriptor
<1> QED BY <1>4, <1>7, <1>8, <1>9 DEF Driven

LEMMA DrivenStep ==
  ASSUME CacheInv, TypeOK', [Next]_vars
  PROVE  Driven'
<1>1. CASE UNCHANGED vars
  <2>1. Calm
    BY <1>1 DEF vars, diskVars, bufVars, driverVars, deviceVars, Calm, Waits
  <2> QED BY <2>1, CalmKeeps
<1>2. ASSUME NEW p \in Procs, bget(p) \/ acquiresleep(p) \/ bwrite(p) \/ brelse(p) \/ kill(p)
                              \/ Bunpin(p) \/ \E v \in Vals : Modify(p, v)
      PROVE  Driven'
  BY <1>2, CacheCalm, CalmKeeps
<1>3. ASSUME NEW p \in Procs, Rw(p) PROVE Driven'
  BY <1>3, DrivenSubmit, DrivenDone, DrivenWait DEF Rw, virtio_disk_rw
<1>4. ASSUME DiskNext PROVE Driven'
  <2>1. ASSUME IntrAck \/ IntrEnd PROVE Driven'
    <3>1. UNCHANGED <<NUM, pc, free, desc, info, ops, idx, avail, used, disk, buf, write, blockno>>
      BY <2>1 DEF IntrAck, IntrEnd, bufVars, deviceVars
    <3>2. Owned'  BY <3>1, OwnedFrame DEF Waits
    <3>3. Queues'  BY <3>1 DEF CacheInv, Queues, Asked, Answered, Waits
    <3>4. NoLostCompletion'
      <4>1. used' # <<>> => irq' \/ intr'  BY <2>1 DEF IntrAck, IntrEnd, deviceVars
      <4> QED BY <3>1, <4>1 DEF CacheInv, NobodyForgotten, NoLostCompletion
    <3>5. NoLostDescriptor'  BY <3>1 DEF CacheInv, NobodyForgotten, NoLostDescriptor
    <3> QED BY <3>2, <3>3, <3>4, <3>5 DEF Driven
  <2> QED BY <1>4, <2>1, DrivenEntry, DrivenDev DEF DiskNext, virtio_disk_intr
<1> QED BY <1>1, <1>2, <1>3, <1>4 DEF Next, bread

-----------------------------------------------------------------------------
(* What is in the buffers and on the disk.                                  *)

LEMMA ContentsFrame ==
  ASSUME CacheInv, UNCHANGED <<home, idx>>,
         \A b \in Bufs : valid'[b] /\ b \notin pinned' =>
           valid[b] /\ b \notin pinned /\ data'[b] = data[b] /\ blockno'[b] = blockno[b],
         \A q \in Procs : Waits(q)' /\ idx[q][1] \notin avail' =>
           /\ Waits(q) /\ ~Asked(q) /\ buf'[q] = buf[q]
           /\ blockno'[buf[q]] = blockno[buf[q]] /\ data'[buf[q]] = data[buf[q]]
  PROVE  Contents'
BY DEF CacheInv, Contents, Asked

LEMMA CalmContents ==
  ASSUME CacheInv, Calm,
         \A b \in Bufs : valid'[b] /\ b \notin pinned' =>
           valid[b] /\ b \notin pinned /\ data'[b] = data[b] /\ blockno'[b] = blockno[b]
  PROVE  Contents'
BY ContentsFrame DEF Calm, Asked

LEMMA ContentsDisk ==
  ASSUME CacheInv, TypeOK'
  PROVE  /\ \A p \in Procs : Rw(p) => Contents'
         /\ DiskNext /\ UNCHANGED cacheVars => Contents'
<1>0. TypeOK /\ NUM \in Sizes  BY DEF CacheInv
<1>t. /\ idx \in [Procs -> Seq(Desc)] /\ valid \in [Bufs -> BOOLEAN]
      /\ data \in [Bufs -> Vals] /\ home \in [Blocks -> Vals]
      /\ blockno \in [Bufs -> Blocks \cup {None}]
  BY <1>0 DEF TypeOK, DiskTypeOK
<1> USE DEF bufVars, driverVars, deviceVars, cacheVars
<1>1. ASSUME NEW p \in Procs, Rw(p), RwSubmit(p) PROVE Contents'
  <2>1. PICK i, j, k \in free : Three = <<i, j, k>>  BY <1>0, <1>1, ThreeFree DEF RwSubmit
  <2>2. /\ idx' = [idx EXCEPT ![p] = <<i, j, k>>] /\ avail' = avail \cup {i}
        /\ UNCHANGED <<home, data, blockno, buf, pinned>>
    BY <1>1, <2>1 DEF RwSubmit, Rw
  <2>3. idx'[p][1] \in avail'  BY <1>t, <2>2
  <2>4. valid' = valid
    <3>1. pc'[p] = "disk_sleep"  BY <1>0, <1>1, DiskMoves
    <3> QED BY <1>1, <3>1 DEF Rw
  <2>5. \A q \in Procs : q # p => idx'[q] = idx[q] /\ (Waits(q)' <=> Waits(q))
    <3> TAKE q \in Procs
    <3>1. q # p => pc'[q] = pc[q]  BY <1>0, <1>1, DiskMoves
    <3> QED BY <1>t, <2>2, <3>1 DEF Waits
  <2> QED BY <2>2, <2>3, <2>4, <2>5 DEF CacheInv, Contents, Asked
<1>2. ASSUME NEW p \in Procs, Rw(p), RwDone(p) PROVE Contents'
  <2>1. /\ pc[p] = "disk_wait" /\ ~disk[buf[p]]
        /\ idx' = [idx EXCEPT ![p] = <<>>]
        /\ UNCHANGED <<home, data, blockno, buf, pinned, avail>>
    BY <1>2 DEF RwDone, Rw
  <2>2. pc'[p] = "own"  BY <1>0, <1>2, DiskMoves
  <2>3. valid' = [valid EXCEPT ![buf[p]] = TRUE]  BY <1>2, <2>2 DEF Rw
  <2>4. Waits(p) /\ ~Asked(p)  BY <2>1 DEF CacheInv, Queues, Waits
  <2>5. data[buf[p]] = home[blockno[buf[p]]]  BY <2>4 DEF CacheInv, Contents
  <2>6. \A q \in Procs : Waits(q)' => q # p /\ idx'[q] = idx[q] /\ Waits(q)
    <3> TAKE q \in Procs
    <3>1. q # p => pc'[q] = pc[q] \/ (pc[q] = "desc_sleep" /\ pc'[q] = "rw")
      BY <1>0, <1>2, DiskMoves
    <3> QED BY <1>t, <2>1, <2>2, <3>1 DEF Waits
  <2>7. \A b \in Bufs : valid'[b] /\ b \notin pinned => data[b] = home[blockno[b]]
    BY <1>t, <2>3, <2>5 DEF CacheInv, Contents
  <2> QED BY <2>1, <2>6, <2>7 DEF CacheInv, Contents, Asked
<1>3. ASSUME NEW p \in Procs, Rw(p), RwNoDesc(p) \/ RwWait(p) PROVE Contents'
  <2>1. UNCHANGED <<home, data, blockno, buf, pinned, avail, idx>>
    BY <1>3 DEF RwNoDesc, RwWait, Rw
  <2>2. valid' = valid
    <3>1. pc'[p] # "own"
      <4>1. CASE RwNoDesc(p)  BY <1>0, <4>1, DiskMoves
      <4>2. CASE RwWait(p)
        <5>1. pc'[p] = "disk_sleep"  BY <1>0, <4>2, DiskMoves
        <5> QED BY <5>1
      <4> QED BY <1>3, <4>1, <4>2
    <3> QED BY <1>3, <3>1 DEF Rw
  <2>3. \A q \in Procs : Waits(q)' => Waits(q)
    <3> TAKE q \in Procs
    <3>1. CASE RwNoDesc(p)
      <4>1. \/ q = p /\ pc'[q] = "desc_sleep"
            \/ q # p /\ (pc'[q] = pc[q] \/ (pc[q] = "desc_sleep" /\ pc'[q] = "rw"))
        BY <1>0, <3>1, DiskMoves
      <4> QED BY <4>1 DEF Waits
    <3>2. CASE RwWait(p)
      <4>1. pc'[q] = IF q = p THEN "disk_sleep" ELSE pc[q]  BY <1>0, <3>2, DiskMoves
      <4> QED BY <3>2, <4>1 DEF Waits, RwWait
    <3> QED BY <1>3, <3>1, <3>2
  <2> QED BY <2>1, <2>2, <2>3, ContentsFrame DEF Asked
<1>4. ASSUME DiskNext, UNCHANGED cacheVars PROVE Contents'
  <2>1. ASSUME virtio_disk_intr PROVE Contents'
    <3>1. UNCHANGED <<home, data, blockno, buf, pinned, avail, idx, valid>>
      BY <1>4, <2>1 DEF virtio_disk_intr, IntrAck, IntrEntry, IntrEnd
    <3>2. \A q \in Procs : Waits(q)' => Waits(q)
      <4> TAKE q \in Procs
      <4>1. pc'[q] = pc[q] \/ (pc[q] = "disk_sleep" /\ pc'[q] = "disk_wait")
        BY <1>0, <1>4, DiskMoves
      <4> QED BY <4>1 DEF Waits
    <3> QED BY <3>1, <3>2, ContentsFrame DEF Asked
  <2>2. ASSUME NEW id \in Desc, DevDone(id) PROVE Contents'
    <3>1. id \in avail  BY <2>2 DEF DevDone
    <3>2. PICK p \in Procs :
            /\ Waits(p) /\ idx[p][1] = id
            /\ ops[desc[id].addr] = [write |-> write[p], sector |-> blockno[buf[p]]]
            /\ desc[desc[id].next].addr = buf[p]
      BY <3>1, AskedChain
    <3> DEFINE b == buf[p]
    <3>3. b \in Bufs /\ blockno[b] \in Blocks /\ (valid[b] <=> write[p])
      <4>1. pc[p] # "idle" /\ pc[p] \in Disking  BY <3>2 DEF Waits, Disking
      <4> QED BY <4>1, HasBuf DEF CacheInv, Locks
    <3>4. /\ avail' = avail \ {id}
          /\ UNCHANGED <<pc, buf, idx, blockno, valid, pinned>>
      BY <1>4, <2>2 DEF DevDone
    <3>5. \A q \in Procs : q # p /\ Waits(q) => buf[q] # b /\ buf[q] \in Bufs
      BY <3>2, OthersBuffer, HasBuf DEF Waits, Disking
    <3>6. \A c \in Bufs : c # b /\ blockno[c] # None => blockno[c] # blockno[b]
      BY <3>3 DEF CacheInv, Once
    <3>7. \A c \in Bufs : valid[c] => blockno[c] # None  BY DEF CacheInv, Uses
    <3>8. \A q \in Procs : Waits(q) => blockno[buf[q]] # None
      BY HasBuf, VirtioAssumption DEF Waits
    <3>9. \A q \in Procs : Waits(q)' <=> Waits(q)  BY <3>4 DEF Waits
    <3>10. IF ops[desc[id].addr].write
             THEN /\ home' = [home EXCEPT ![ops[desc[id].addr].sector] = data[desc[desc[id].next].addr]]
                  /\ data' = data
             ELSE /\ data' = [data EXCEPT ![desc[desc[id].next].addr] = home[ops[desc[id].addr].sector]]
                  /\ home' = home
      BY <2>2 DEF DevDone
    <3>11. CASE write[p]
      <4>1. home' = [home EXCEPT ![blockno[b]] = data[b]] /\ data' = data
        BY <3>2, <3>11, <3>10
      <4> HIDE DEF b
      <4>2. home'[blockno[b]] = data[b] /\ \A c \in Bufs : c # b /\ blockno[c] # None => home'[blockno[c]] = home[blockno[c]]
        BY <1>t, <3>3, <3>6, <4>1
      <4>3. \A c \in Bufs : valid'[c] /\ c \notin pinned' => data'[c] = home'[blockno'[c]]
        BY <3>4, <3>7, <4>1, <4>2 DEF CacheInv, Contents
      <4>4. ASSUME NEW q \in Procs, Waits(q), idx[q][1] \notin avail'
            PROVE  data[buf[q]] = home'[blockno[buf[q]]]
        <5>1. CASE q = p  BY <4>2, <5>1 DEF b
        <5>2. CASE q # p
          <6>1. idx[q][1] # id  BY <3>2, <4>4, <5>2, SameHead
          <6>2. ~Asked(q)  BY <3>4, <4>4, <6>1 DEF Asked
          <6>3. data[buf[q]] = home[blockno[buf[q]]]  BY <4>4, <6>2 DEF CacheInv, Contents
          <6> QED BY <3>5, <3>8, <4>2, <4>4, <5>2, <6>3
        <5> QED BY <5>1, <5>2
      <4> QED BY <3>4, <3>9, <4>1, <4>3, <4>4 DEF Contents, Asked
    <3>12. CASE ~write[p]
      <4>1. data' = [data EXCEPT ![b] = home[blockno[b]]] /\ home' = home
        BY <3>2, <3>12, <3>10
      <4> HIDE DEF b
      <4>2. data'[b] = home[blockno[b]] /\ \A c \in Bufs : c # b => data'[c] = data[c]
        BY <1>t, <3>3, <4>1
      <4>3. \A c \in Bufs : valid'[c] /\ c \notin pinned' => data'[c] = home'[blockno'[c]]
        BY <3>3, <3>4, <3>12, <4>1, <4>2 DEF CacheInv, Contents
      <4>4. ASSUME NEW q \in Procs, Waits(q), idx[q][1] \notin avail'
            PROVE  data'[buf[q]] = home[blockno[buf[q]]]
        <5>1. CASE q = p  BY <4>2, <5>1 DEF b
        <5>2. CASE q # p
          <6>1. idx[q][1] # id  BY <3>2, <4>4, <5>2, SameHead
          <6>2. ~Asked(q)  BY <3>4, <4>4, <6>1 DEF Asked
          <6>3. data[buf[q]] = home[blockno[buf[q]]]  BY <4>4, <6>2 DEF CacheInv, Contents
          <6> QED BY <3>5, <4>2, <4>4, <5>2, <6>3
        <5> QED BY <5>1, <5>2
      <4> QED BY <3>4, <3>9, <4>1, <4>3, <4>4 DEF Contents, Asked
    <3> QED BY <3>11, <3>12
  <2> QED BY <1>4, <2>1, <2>2 DEF DiskNext
<1> QED BY <1>1, <1>2, <1>3, <1>4 DEF Rw, virtio_disk_rw

LEMMA ContentsStep ==
  ASSUME CacheInv, TypeOK', [Next]_vars
  PROVE  Contents'
<1>0. TypeOK  BY DEF CacheInv
<1>t. /\ valid \in [Bufs -> BOOLEAN] /\ data \in [Bufs -> Vals]
      /\ blockno \in [Bufs -> Blocks \cup {None}]
  BY <1>0 DEF TypeOK, DiskTypeOK
<1> USE DEF bufVars, deviceVars, diskVars, cacheVars, lockVars
<1> DEFINE Same == UNCHANGED <<valid, pinned, data, blockno>>
<1>1. CASE UNCHANGED vars
  <2>1. Same /\ UNCHANGED <<home, idx, avail, buf, pc>>  BY <1>1 DEF vars
  <2> QED BY <2>1, ContentsFrame DEF Asked, Waits
<1>2. ASSUME NEW p \in Procs, NEW k \in Blocks, BgetRecycle(p, k) PROVE Contents'
  <2>1. Calm  BY <1>2, CacheCalm DEF bget
  <2>2. PICK i \in Unused : /\ blockno' = [blockno EXCEPT ![lru[i]] = k]
                            /\ valid' = [valid EXCEPT ![lru[i]] = FALSE]
    BY <1>2, Zenon DEF BgetRecycle
  <2>3. pinned' = pinned /\ data' = data  BY <1>2 DEF BgetRecycle
  <2>4. \A b \in Bufs : valid'[b] => valid[b] /\ blockno'[b] = blockno[b]
    BY <1>t, <2>2
  <2> QED BY <2>1, <2>3, <2>4, CalmContents
<1>3. ASSUME NEW p \in Procs,
             \/ \E k \in Blocks : BgetHit(p, k) \/ BgetPanic(p, k)
             \/ acquiresleep(p) \/ bwrite(p) \/ brelse(p) \/ kill(p)
      PROVE  Contents'
  <2>1. Calm  BY <1>3, CacheCalm DEF bget
  <2>2. Same
    BY <1>3 DEF BgetHit, BgetPanic, acquiresleep, AcquireSleep, SleepOnLock, bwrite, brelse,
                releasesleep, Unref, kill
  <2> QED BY <2>1, <2>2, CalmContents
<1>4. ASSUME NEW p \in Procs, NEW v \in Vals, Modify(p, v) PROVE Contents'
  <2>1. Calm  BY <1>4, CacheCalm
  <2>2. /\ data' = [data EXCEPT ![buf[p]] = v] /\ pinned' = pinned \cup {buf[p]}
        /\ UNCHANGED <<valid, blockno>>
    BY <1>4 DEF Modify
  <2>3. \A b \in Bufs : b \notin pinned' => b \notin pinned /\ data'[b] = data[b]  BY <1>t, <2>2
  <2> QED BY <2>1, <2>2, <2>3, CalmContents
<1>5. ASSUME NEW p \in Procs, Bunpin(p) PROVE Contents'
  <2>1. /\ data[buf[p]] = home[blockno[buf[p]]] /\ pinned' = pinned \ {buf[p]}
        /\ UNCHANGED <<valid, blockno, data, home, buf, idx, avail, pc>>
    BY <1>5 DEF Bunpin
  <2>2. \A q \in Procs : Waits(q)' <=> Waits(q)  BY <2>1 DEF Waits
  <2> QED BY <2>1, <2>2 DEF CacheInv, Contents, Asked
<1> QED
  BY <1>1, <1>2, <1>3, <1>4, <1>5, ContentsDisk DEF Next, bget, bread

-----------------------------------------------------------------------------
(* The theorems.                                                            *)

LEMMA CacheInit == Init => CacheInv
<1> SUFFICES ASSUME Init PROVE CacheInv  OBVIOUS
<1>0. TypeOK /\ NUM \in Sizes  BY TypeInit DEF Init, VirtioInit
<1> USE DEF Init, VirtioInit
<1>w. \A p \in Procs : ~Waits(p)  BY DEF Waits
<1>1. Uses  BY ListInit DEF Uses
<1>2. Once  BY DEF Once
<1>3. Counted
  <2> SUFFICES ASSUME NEW b \in Bufs PROVE Cardinality(Users(b)) = 0  BY DEF Counted
  <2>1. Users(b) = {}  BY VirtioAssumption DEF Users
  <2> QED BY <2>1, FS_EmptySet
<1>4. Locks  BY DEF Locks, Disking
<1>5. Chains  BY <1>w DEF Chains
<1>6. OwnedOnce
  <2>1. \A p \in Procs : {idx[p][i] : i \in 1 .. Len(idx[p])} = {}  OBVIOUS
  <2>2. UNION {{idx[p][i] : i \in 1 .. Len(idx[p])} : p \in Procs} = {}  BY <2>1
  <2> QED BY <2>2 DEF OwnedOnce
<1>7. Queues  BY <1>w DEF Queues
<1>8. Contents  BY <1>w DEF Contents
<1>9. NobodyForgotten
  BY DEF NobodyForgotten, NoLostRelease, NoLostCompletion, NoLostDescriptor
<1> QED BY <1>0, <1>1, <1>2, <1>3, <1>4, <1>5, <1>6, <1>7, <1>8, <1>9 DEF CacheInv

LEMMA CacheStep == CacheInv /\ [Next]_vars => CacheInv'
<1> SUFFICES ASSUME CacheInv, [Next]_vars PROVE CacheInv'  OBVIOUS
<1>1. TypeOK' /\ (NUM \in Sizes)'  BY TypeStep
<1>2. Used'  BY <1>1, UsedStep
<1>3. Locked'  BY <1>1, LockedStep
<1>4. Driven'  BY <1>1, DrivenStep
<1>5. Contents'  BY <1>1, ContentsStep
<1> QED BY <1>1, <1>2, <1>3, <1>4, <1>5
        DEF CacheInv, Used, Locked, Driven, Owned, NobodyForgotten

LEMMA CacheInvariant == Spec => []CacheInv
BY CacheInit, CacheStep, PTL DEF Spec

\* What has been answered keeps its status until the handler has seen it: a request
\* is given free descriptors, and none of these is the head of an answered one.
LEMMA AnswersStep == CacheInv /\ TypeOK' /\ Answers /\ [Next]_vars => Answers'
<1> SUFFICES ASSUME CacheInv, TypeOK', Answers, [Next]_vars PROVE Answers'  OBVIOUS
<1>t. /\ used \in Seq(Desc) /\ NUM \in Sizes
      /\ info \in [Desc -> [b : Bufs \cup {None}, status : {0, 255}]]
  BY DEF CacheInv, TypeOK, DiskTypeOK
<1>u. \A n \in 1 .. Len(used) : used[n] \in Desc  BY <1>t
<1>1. CASE UNCHANGED <<used, info>>  BY <1>1 DEF Answers
<1>2. ASSUME NEW p \in Procs, RwSubmit(p) PROVE Answers'
  <2>1. PICK i, j, k \in free : Three = <<i, j, k>> /\ i # j /\ i # k /\ j # k
    BY <1>2, ThreeFree DEF RwSubmit, CacheInv
  <2>2. info' = [info EXCEPT ![i] = [b |-> buf[p], status |-> 255]] /\ used' = used
    BY <1>2, <2>1 DEF RwSubmit
  <2>3. \A n \in 1 .. Len(used) : used[n] # i  BY <2>1, Heads
  <2> QED BY <1>t, <1>u, <2>2, <2>3 DEF Answers
<1>3. ASSUME NEW p \in Procs, RwDone(p) PROVE Answers'
  <2> DEFINE d == idx[p][1]
  <2>1. info' = [info EXCEPT ![d] = [info[d] EXCEPT !.b = None]] /\ used' = used
    BY <1>3 DEF RwDone, deviceVars
  <2>2. \A e \in Desc : info'[e].status = info[e].status
    <3> TAKE e \in Desc
    <3>1. info[e] \in [b : Bufs \cup {None}, status : {0, 255}]  BY <1>t
    <3>2. [info[e] EXCEPT !.b = None].status = info[e].status  BY <3>1, InfoType
    <3> QED BY <1>t, <2>1, <3>2
  <2> QED BY <1>u, <2>1, <2>2 DEF Answers
<1>4. ASSUME IntrEntry PROVE Answers'
  <2>1. used # <<>> /\ used' = Tail(used) /\ info' = info  BY <1>4 DEF IntrEntry, driverVars
  <2>2. \A n \in 1 .. Len(used') : n + 1 \in 1 .. Len(used) /\ used'[n] = used[n + 1]
    BY <1>t, <2>1, TailOf
  <2> QED BY <2>1, <2>2 DEF Answers
<1>5. ASSUME NEW id \in Desc, DevDone(id) PROVE Answers'
  <2>1. id \in avail  BY <1>5 DEF DevDone
  <2>2. desc[desc[desc[id].next].next].addr = id  BY <2>1, AskedChain
  <2>3. info' = [info EXCEPT ![id] = [info[id] EXCEPT !.status = 0]] /\ used' = Append(used, id)
    BY <1>5, <2>2 DEF DevDone
  <2>4. \A e \in Desc : info[e].status = 0 \/ e = id => info'[e].status = 0
    <3> TAKE e \in Desc
    <3>1. info[e] \in [b : Bufs \cup {None}, status : {0, 255}]  BY <1>t
    <3>2. [info[e] EXCEPT !.status = 0].status = 0  BY <3>1, InfoType
    <3> QED BY <1>t, <2>3, <3>2
  <2>5. \A n \in 1 .. Len(used') : used'[n] = id \/ (n \in 1 .. Len(used) /\ used'[n] = used[n])
    BY <1>t, <2>3, AppendOf
  <2> QED BY <1>u, <2>4, <2>5 DEF Answers
<1>6. ASSUME Next PROVE Answers'
  <2>1. CASE panicked  BY <1>1, <1>6, <2>1 DEF Next, vars, diskVars, deviceVars, driverVars
  <2>2. CASE \E p \in Procs : virtio_disk_rw(p)
    BY <1>1, <1>2, <1>3, <2>2
    DEF virtio_disk_rw, RwNoDesc, RwWait, deviceVars, driverVars
  <2>3. CASE DiskNext
    BY <1>1, <1>4, <1>5, <2>3 DEF DiskNext, virtio_disk_intr, IntrAck, IntrEnd, deviceVars
  <2>4. ASSUME NEW p \in Procs, bget(p) \/ acquiresleep(p) PROVE UNCHANGED <<used, info>>
    BY <2>4
    DEF bget, BgetHit, BgetRecycle, BgetPanic, acquiresleep, AcquireSleep, SleepOnLock,
        deviceVars, driverVars, diskVars
  <2>5. ASSUME NEW p \in Procs, bwrite(p) \/ brelse(p) \/ kill(p) \/ Bunpin(p)
        PROVE  UNCHANGED <<used, info>>
    BY <2>5
    DEF bwrite, brelse, releasesleep, Unref, kill, Bunpin, deviceVars, driverVars, diskVars
  <2>6. ASSUME NEW p \in Procs, NEW v \in Vals, Modify(p, v) PROVE UNCHANGED <<used, info>>
    BY <2>6 DEF Modify, deviceVars, driverVars
  <2> QED BY <1>1, <1>6, <2>1, <2>2, <2>3, <2>4, <2>5, <2>6 DEF Next, bread, Rw
<1> QED BY <1>1, <1>6 DEF vars, diskVars, deviceVars, driverVars

LEMMA AnswersInvariant == Spec => []Answers
<1>1. Init => Answers  BY DEF Init, VirtioInit, Answers
<1>2. CacheInv /\ CacheInv' /\ Answers /\ [Next]_vars => Answers'
  BY AnswersStep DEF CacheInv
<1> QED BY <1>1, <1>2, CacheInvariant, PTL DEF Spec

\* bget() gives a block one buffer, and counts each use of it (kernel/bio.c).
THEOREM BlocksHaveOneBuffer == Spec => []OneBuffer
<1>1. CacheInv => OneBuffer  BY DEF CacheInv, Once, Counted, Users, OneBuffer
<1> QED BY <1>1, CacheInvariant, PTL

\* virtio_disk_rw() loses no descriptor and gives none to two requests, and
\* free_chain() gives back what alloc3_desc() took; so virtio_disk_intr() never
\* finds 0xff in the status of an answered request (kernel/virtio_disk.c).
THEOREM DescriptorsAreOwned == Spec => []DescriptorsOwned
<1>1. CacheInv /\ Answers => DescriptorsOwned  BY DEF CacheInv, DescriptorsOwned
<1> QED BY <1>1, CacheInvariant, AnswersInvariant, PTL

\* releasesleep(), free_desc() and virtio_disk_intr() wake whoever waits for what
\* they give: nobody sleeps on what is there.
THEOREM NobodyIsForgotten == Spec => []NobodyForgotten
<1>1. CacheInv => NobodyForgotten  BY DEF CacheInv
<1> QED BY <1>1, CacheInvariant, PTL

-----------------------------------------------------------------------------
(* The cache is a block store: val, holds and sees of BlockStore.           *)

Here(b, k) == blockno[b] = k /\ valid[b]

AbsVal == [k \in Blocks |-> IF \E b \in Bufs : blockno[b] = k /\ valid[b]
                              THEN data[CHOOSE b \in Bufs : blockno[b] = k /\ valid[b]]
                              ELSE home[k]]
AbsHolds == [p \in Procs |-> IF Has(p) THEN want[p] ELSE None]
AbsSees == [p \in Procs |-> IF Has(p) THEN data[buf[p]] ELSE None]

\* The one valid buffer of a block has its contents; without one they are on disk.
LEMMA ValueOf ==
  ASSUME Once, NEW k \in Blocks
  PROVE  /\ \A b \in Bufs : Here(b, k) => AbsVal[k] = data[b]
         /\ (\A b \in Bufs : ~Here(b, k)) => AbsVal[k] = home[k]
<1>1. ASSUME NEW b \in Bufs, Here(b, k) PROVE AbsVal[k] = data[b]
  <2> DEFINE c == CHOOSE c \in Bufs : blockno[c] = k /\ valid[c]
  <2>1. c \in Bufs /\ blockno[c] = k /\ valid[c]  BY <1>1 DEF Here
  <2>2. AbsVal[k] = data[c]  BY <1>1 DEF AbsVal, Here
  <2> HIDE DEF c
  <2>3. b = c  BY <1>1, <2>1, VirtioAssumption DEF Once, Here
  <2> QED BY <2>2, <2>3
<1>2. ASSUME \A b \in Bufs : ~Here(b, k) PROVE AbsVal[k] = home[k]
  BY <1>2 DEF AbsVal, Here
<1> QED BY <1>1, <1>2

LEMMA ValueOfNext ==
  ASSUME Once', NEW k \in Blocks
  PROVE  /\ \A b \in Bufs : Here(b, k)' => AbsVal'[k] = data'[b]
         /\ (\A b \in Bufs : ~Here(b, k)') => AbsVal'[k] = home'[k]
<1>1. ASSUME NEW b \in Bufs, Here(b, k)' PROVE AbsVal'[k] = data'[b]
  <2> DEFINE c == CHOOSE c \in Bufs : blockno'[c] = k /\ valid'[c]
  <2>1. c \in Bufs /\ blockno'[c] = k /\ valid'[c]  BY <1>1 DEF Here
  <2>2. AbsVal'[k] = data'[c]  BY <1>1 DEF AbsVal, Here
  <2> HIDE DEF c
  <2>3. b = c  BY <1>1, <2>1, VirtioAssumption DEF Once, Here
  <2> QED BY <2>2, <2>3
<1>2. ASSUME \A b \in Bufs : ~Here(b, k)' PROVE AbsVal'[k] = home'[k]
  BY <1>2 DEF AbsVal, Here
<1> QED BY <1>1, <1>2

LEMMA HasIt ==
  ASSUME CacheInv, NEW p \in Procs, Has(p)
  PROVE  /\ pc[p] \in Disking \cup {"own"} /\ buf[p] \in Bufs
         /\ want[p] \in Blocks /\ want[p] = blockno[buf[p]] /\ valid[buf[p]]
<1>1. pc[p] \in Disking \cup {"own"}  BY DEF Has, CacheInv, Locks
<1>2. pc[p] # "idle"  BY <1>1 DEF Disking
<1>3. valid[buf[p]]  BY <1>1 DEF Has, CacheInv, Locks, Disking
<1> QED BY <1>1, <1>2, <1>3, HasBuf

\* Two processes never have the same block.
LEMMA HasAlone ==
  ASSUME CacheInv, NEW p \in Procs, NEW q \in Procs, p # q, Has(q),
         pc[p] \in Disking \cup {"own"}
  PROVE  buf[q] # buf[p]
BY HasIt, OthersBuffer

\* Nobody gets, changes or gives a block.
LEMMA HolderStutters ==
  ASSUME CacheInv,
         \A q \in Procs : Has(q)' <=> Has(q),
         \A q \in Procs : Has(q) =>
           want'[q] = want[q] /\ buf'[q] = buf[q] /\ data'[buf[q]] = data[buf[q]]
  PROVE  AbsHolds' = AbsHolds /\ AbsSees' = AbsSees
<1>1. ASSUME NEW q \in Procs PROVE AbsHolds'[q] = AbsHolds[q] /\ AbsSees'[q] = AbsSees[q]
  BY DEF AbsHolds, AbsSees
<1> QED BY <1>1 DEF AbsHolds, AbsSees

LEMMA ValueStutters ==
  ASSUME CacheInv, Once', UNCHANGED home,
         \A b \in Bufs : valid'[b] <=> valid[b],
         \A b \in Bufs : valid[b] => data'[b] = data[b] /\ blockno'[b] = blockno[b]
  PROVE  AbsVal' = AbsVal
<1>0. Once  BY DEF CacheInv
<1>1. ASSUME NEW k \in Blocks PROVE AbsVal'[k] = AbsVal[k]
  <2>1. CASE \E b \in Bufs : Here(b, k)
    <3>1. PICK b \in Bufs : Here(b, k)  BY <2>1
    <3>2. Here(b, k)'  BY <3>1 DEF Here
    <3>3. AbsVal[k] = data[b]  BY <1>0, <3>1, ValueOf
    <3>4. AbsVal'[k] = data'[b]  BY <3>2, ValueOfNext
    <3> QED BY <3>1, <3>3, <3>4 DEF Here
  <2>2. CASE \A b \in Bufs : ~Here(b, k)
    <3>1. \A b \in Bufs : ~Here(b, k)'  BY <2>2 DEF Here
    <3>2. AbsVal[k] = home[k]  BY <1>0, <2>2, ValueOf
    <3>3. AbsVal'[k] = home'[k]  BY <3>1, ValueOfNext
    <3> QED BY <3>2, <3>3
  <2> QED BY <2>1, <2>2
<1> QED BY <1>1 DEF AbsVal

AbsSame == AbsVal' = AbsVal /\ AbsHolds' = AbsHolds /\ AbsSees' = AbsSees

LEMMA BgetStutters ==
  ASSUME CacheInv, CacheInv', NEW p \in Procs, bget(p)
  PROVE  AbsSame
<1>0. TypeOK /\ Once'  BY DEF CacheInv
<1>t. /\ pc \in [Procs -> Labels] /\ buf \in [Procs -> Bufs \cup {None}]
      /\ want \in [Procs -> Blocks \cup {None}] /\ blockno \in [Bufs -> Blocks \cup {None}]
      /\ valid \in [Bufs -> BOOLEAN]
  BY <1>0 DEF TypeOK
<1>i. pc[p] = "idle" => ~Has(p)
  BY DEF Has, CacheInv, Locks, Disking
<1> USE DEF bufVars, driverVars, deviceVars, diskVars
<1>1. ASSUME NEW k \in Blocks, BgetHit(p, k) PROVE AbsSame
  <2>1. PICK b \in Bufs : buf' = [buf EXCEPT ![p] = b]  BY <1>1 DEF BgetHit, Cached
  <2>2. /\ pc[p] = "idle" /\ pc' = [pc EXCEPT ![p] = "lock"] /\ want' = [want EXCEPT ![p] = k]
        /\ UNCHANGED <<write, data, blockno, home, valid>>
    BY <1>1 DEF BgetHit
  <2>3. \A q \in Procs : (Has(q)' <=> Has(q)) /\ (Has(q) => q # p)
    BY <1>i, <1>t, <2>2 DEF Has
  <2>4. \A q \in Procs : Has(q) => want'[q] = want[q] /\ buf'[q] = buf[q]
    BY <1>t, <2>1, <2>2, <2>3
  <2>5. AbsVal' = AbsVal  BY <1>0, <2>2, ValueStutters
  <2> QED BY <2>2, <2>3, <2>4, <2>5, HolderStutters DEF AbsSame
<1>2. ASSUME NEW k \in Blocks, BgetRecycle(p, k) PROVE AbsSame
  <2>1. PICK i \in Unused : /\ buf' = [buf EXCEPT ![p] = lru[i]]
                            /\ blockno' = [blockno EXCEPT ![lru[i]] = k]
                            /\ valid' = [valid EXCEPT ![lru[i]] = FALSE]
    BY <1>2, Zenon DEF BgetRecycle
  <2> DEFINE b == lru[i]
  <2>2. b \in Bufs /\ refcnt[b] = 0
    <3>1. lru \in Seq(Bufs)  BY <1>0 DEF TypeOK
    <3> QED BY <3>1 DEF Unused
  <2>3. /\ buf' = [buf EXCEPT ![p] = b] /\ blockno' = [blockno EXCEPT ![b] = k]
        /\ valid' = [valid EXCEPT ![b] = FALSE]
    BY <2>1
  <2> HIDE DEF b
  <2>4. /\ pc[p] = "idle" /\ pc' = [pc EXCEPT ![p] = "lock"] /\ want' = [want EXCEPT ![p] = k]
        /\ UNCHANGED <<write, data, home>> /\ \A c \in Bufs : blockno[c] # k
    BY <1>2 DEF BgetRecycle, Cached
  <2>5. \A q \in Procs : (Has(q)' <=> Has(q)) /\ (Has(q) => q # p)
    BY <1>i, <1>t, <2>4 DEF Has
  <2>6. \A q \in Procs : Has(q) => want'[q] = want[q] /\ buf'[q] = buf[q]
    BY <1>t, <2>3, <2>4, <2>5
  <2>7. valid[b] => data[b] = home[blockno[b]]
    BY <2>2, Unreferenced DEF CacheInv, Contents
  <2>8. ASSUME NEW l \in Blocks PROVE AbsVal'[l] = AbsVal[l]
    <3>0. Once  BY DEF CacheInv
    <3>1. CASE Here(b, l)
      <4>1. \A c \in Bufs : c # b => ~Here(c, l)  BY <2>2, <3>0, <3>1, VirtioAssumption DEF Once, Here
      <4>2. \A c \in Bufs : ~Here(c, l)'  BY <1>t, <2>2, <2>3, <4>1 DEF Here
      <4>3. AbsVal'[l] = home'[l]  BY <1>0, <4>2, ValueOfNext
      <4>4. AbsVal[l] = data[b]  BY <2>2, <3>0, <3>1, ValueOf
      <4> QED BY <2>4, <2>7, <3>1, <4>3, <4>4 DEF Here
    <3>2. CASE \E c \in Bufs : c # b /\ Here(c, l)
      <4>1. PICK c \in Bufs : c # b /\ Here(c, l)  BY <3>2
      <4>2. Here(c, l)'  BY <1>t, <2>3, <4>1 DEF Here
      <4>3. AbsVal'[l] = data'[c] /\ AbsVal[l] = data[c]
        BY <1>0, <3>0, <4>1, <4>2, ValueOf, ValueOfNext
      <4> QED BY <2>4, <4>3
    <3>3. CASE \A c \in Bufs : ~Here(c, l)
      <4>1. \A c \in Bufs : ~Here(c, l)'  BY <1>t, <2>2, <2>3, <3>3 DEF Here
      <4>2. AbsVal'[l] = home'[l] /\ AbsVal[l] = home[l]
        BY <1>0, <3>0, <3>3, <4>1, ValueOf, ValueOfNext
      <4> QED BY <2>4, <4>2
    <3> QED BY <2>2, <3>1, <3>2, <3>3
  <2>9. AbsVal' = AbsVal  BY <2>8 DEF AbsVal
  <2> QED BY <2>4, <2>5, <2>6, <2>9, HolderStutters DEF AbsSame
<1>3. ASSUME NEW k \in Blocks, BgetPanic(p, k) PROVE AbsSame
  BY <1>3 DEF BgetPanic, AbsSame, AbsVal, AbsHolds, AbsSees, Has
<1> QED BY <1>1, <1>2, <1>3 DEF bget

\* Steps that change neither a block nor who has one.
LEMMA OtherStutters ==
  ASSUME CacheInv, CacheInv', NEW p \in Procs,
         SleepOnLock(p) \/ bwrite(p) \/ Unref(p) \/ kill(p) \/ Bunpin(p)
  PROVE  AbsSame
<1>0. TypeOK /\ Once'  BY DEF CacheInv
<1>t. /\ pc \in [Procs -> Labels] /\ buf \in [Procs -> Bufs \cup {None}]
      /\ want \in [Procs -> Blocks \cup {None}] /\ write \in [Procs -> BOOLEAN]
  BY <1>0 DEF TypeOK, DiskTypeOK
<1>w. \A q \in Procs : write[q] => pc[q] \in Disking  BY DEF CacheInv, Locks
<1> USE DEF bufVars, deviceVars, diskVars, cacheVars, lockVars
<1>1. UNCHANGED <<home, valid, data, blockno>>
  BY DEF SleepOnLock, bwrite, Unref, kill, Bunpin
<1>2. AbsVal' = AbsVal  BY <1>0, <1>1, ValueStutters
<1>3. \A q \in Procs : /\ Has(q)' <=> Has(q)
                       /\ Has(q) => want'[q] = want[q] /\ buf'[q] = buf[q]
  <2> TAKE q \in Procs
  <2>1. CASE SleepOnLock(p)  BY <1>t, <2>1 DEF SleepOnLock, Has
  <2>2. CASE bwrite(p)  BY <1>t, <2>2 DEF bwrite, Has
  <2>3. CASE Unref(p)  BY <1>t, <1>w, <2>3 DEF Unref, Has, Disking
  <2>4. CASE kill(p)
    <3>1. (pc'[q] = "own" <=> pc[q] = "own") /\ UNCHANGED <<write, want, buf>>
      <4>1. /\ pc' = [pc EXCEPT ![p] = Woken(pc[p])]
            /\ pc[p] # "own" /\ Woken(pc[p]) # "own"
        BY <1>0, <2>4, WokenMoves
      <4> QED BY <1>t, <2>4, <4>1 DEF kill
    <3> QED BY <3>1 DEF Has
  <2>5. CASE Bunpin(p)  BY <2>5 DEF Bunpin, Has
  <2> QED BY <2>1, <2>2, <2>3, <2>4, <2>5
<1>4. AbsHolds' = AbsHolds /\ AbsSees' = AbsSees  BY <1>1, <1>3, HolderStutters
<1> QED BY <1>2, <1>4 DEF AbsSame

\* bread() has got its block, from the cache or from the disk.
LEMMA Taken ==
  ASSUME CacheInv, CacheInv', NEW p \in Procs, pc[p] \in Disking \cup {"lock"}, ~Has(p),
         pc[p] = "lock" => ~locked[buf[p]],
         \A q \in Procs : Has(q)' <=> (Has(q) \/ q = p),
         UNCHANGED <<want, buf, data>>, AbsVal' = AbsVal,
         valid'[buf[p]], UNCHANGED blockno
  PROVE  \E k \in Blocks : Store!Take(p, k)
<1>1. /\ buf[p] \in Bufs /\ blockno[buf[p]] \in Blocks /\ want[p] = blockno[buf[p]]
      /\ want[p] \in Blocks
  <2>1. pc[p] # "idle"  BY DEF Disking
  <2> QED BY <2>1, HasBuf
<1>2. AbsVal[want[p]] = data[buf[p]]
  <2>1. Here(buf[p], want[p])'  BY <1>1 DEF Here
  <2>2. Once'  BY DEF CacheInv
  <2>3. AbsVal'[want[p]] = data'[buf[p]]  BY <1>1, <2>1, <2>2, ValueOfNext
  <2> QED BY <2>3
<1>3. ASSUME NEW q \in Procs PROVE AbsHolds[q] # want[p]
  <2>1. CASE ~Has(q)  BY <1>1, <2>1, VirtioAssumption DEF AbsHolds
  <2>2. CASE Has(q)
    <3>1. q # p /\ buf[q] \in Bufs /\ want[q] = blockno[buf[q]]  BY <2>2, HasIt
    <3>2. buf[q] # buf[p]
      <4>1. CASE pc[p] = "lock"
        <5>1. locked[buf[q]]  BY <2>2, HasIt DEF CacheInv, Locks
        <5> QED BY <4>1, <5>1
      <4>2. CASE pc[p] \in Disking  BY <2>2, <3>1, <4>2, HasAlone
      <4> QED BY <4>1, <4>2
    <3>3. want[q] # want[p]  BY <1>1, <3>1, <3>2, VirtioAssumption DEF CacheInv, Once
    <3> QED BY <2>2, <3>3 DEF AbsHolds
  <2> QED BY <2>1, <2>2
<1>4. AbsHolds[p] = None  BY DEF AbsHolds
<1>5. ASSUME NEW q \in Procs
      PROVE  /\ AbsHolds'[q] = IF q = p THEN want[p] ELSE AbsHolds[q]
             /\ AbsSees'[q] = IF q = p THEN AbsVal[want[p]] ELSE AbsSees[q]
  BY <1>2 DEF AbsHolds, AbsSees
<1>6. AbsHolds' = [AbsHolds EXCEPT ![p] = want[p]]  BY <1>5 DEF AbsHolds
<1>7. AbsSees' = [AbsSees EXCEPT ![p] = AbsVal[want[p]]]  BY <1>5 DEF AbsSees
<1>8. PICK k \in Blocks : k = want[p]  BY <1>1
<1>9. AbsHolds' = [AbsHolds EXCEPT ![p] = k] /\ AbsSees' = [AbsSees EXCEPT ![p] = AbsVal[k]]
  BY <1>6, <1>7, <1>8
<1>10. Store!Take(p, k)
  BY <1>3, <1>4, <1>8, <1>9 DEF Store!Take, AbsVal, AbsHolds, AbsSees
<1> QED BY <1>10

LEMMA AcquireTakes ==
  ASSUME CacheInv, CacheInv', NEW p \in Procs, AcquireSleep(p)
  PROVE  AbsSame \/ \E k \in Blocks : Store!Take(p, k)
<1>0. TypeOK /\ Once'  BY DEF CacheInv
<1>t. pc \in [Procs -> Labels] /\ valid \in [Bufs -> BOOLEAN]  BY <1>0 DEF TypeOK
<1>1. /\ pc[p] = "lock" /\ ~locked[buf[p]]
      /\ pc' = [pc EXCEPT ![p] = IF valid[buf[p]] THEN "own" ELSE "rw"]
      /\ UNCHANGED <<buf, want, write, data, blockno, home, valid>>
  BY DEF AcquireSleep, bufVars, deviceVars
<1>2. AbsVal' = AbsVal  BY <1>0, <1>1, ValueStutters
<1>3. ~Has(p)  BY <1>1 DEF Has, CacheInv, Locks, Disking
<1>4. CASE valid[buf[p]]
  <2>1. \A q \in Procs : Has(q)' <=> (Has(q) \/ q = p)  BY <1>t, <1>1, <1>4 DEF Has
  <2> QED BY <1>1, <1>2, <1>3, <1>4, <2>1, Taken
<1>5. CASE ~valid[buf[p]]
  <2>1. \A q \in Procs : Has(q)' <=> Has(q)  BY <1>t, <1>1, <1>5 DEF Has
  <2> QED BY <1>1, <1>2, <2>1, HolderStutters DEF AbsSame
<1> QED BY <1>4, <1>5

\* The buffer that a read has filled has what is on the disk.
LEMMA RwTakes ==
  ASSUME CacheInv, CacheInv', NEW p \in Procs, Rw(p)
  PROVE  AbsSame \/ \E k \in Blocks : Store!Take(p, k)
<1>0. TypeOK /\ Once' /\ Once  BY DEF CacheInv
<1>t. /\ pc \in [Procs -> Labels] /\ valid \in [Bufs -> BOOLEAN] /\ write \in [Procs -> BOOLEAN]
  BY <1>0 DEF TypeOK, DiskTypeOK
<1> USE DEF bufVars, driverVars, deviceVars
<1>1. UNCHANGED <<buf, want, data, blockno, home>>
  BY DEF Rw, virtio_disk_rw, RwSubmit, RwNoDesc, RwDone, RwWait
<1>2. CASE ~RwDone(p)
  <2>1. RwSubmit(p) \/ RwNoDesc(p) \/ RwWait(p)  BY <1>2 DEF Rw, virtio_disk_rw
  <2>2. \A q \in Procs : pc'[q] = "own" <=> pc[q] = "own"
    <3> TAKE q \in Procs
    <3>1. CASE RwSubmit(p)
      <4>1. pc'[q] = IF q = p THEN "disk_sleep" ELSE pc[q]  BY <1>0, <3>1, DiskMoves
      <4> QED BY <3>1, <4>1 DEF RwSubmit
    <3>2. CASE RwNoDesc(p)
      <4>1. \/ q = p /\ pc'[q] = "desc_sleep"
            \/ q # p /\ (pc'[q] = pc[q] \/ (pc[q] = "desc_sleep" /\ pc'[q] = "rw"))
        BY <1>0, <3>2, DiskMoves
      <4> QED BY <3>2, <4>1 DEF RwNoDesc
    <3>3. CASE RwWait(p)
      <4>1. pc'[q] = IF q = p THEN "disk_sleep" ELSE pc[q]  BY <1>0, <3>3, DiskMoves
      <4> QED BY <3>3, <4>1 DEF RwWait
    <3> QED BY <2>1, <3>1, <3>2, <3>3
  <2>3. write' = write  BY <2>1 DEF RwSubmit, RwNoDesc, RwWait
  <2>4. valid' = valid
    <3>1. pc[p] # "own"  BY <2>1 DEF RwSubmit, RwNoDesc, RwWait
    <3> QED BY <2>2, <3>1 DEF Rw
  <2>5. AbsVal' = AbsVal  BY <1>0, <1>1, <2>4, ValueStutters
  <2>6. \A q \in Procs : Has(q)' <=> Has(q)  BY <2>2, <2>3 DEF Has
  <2> QED BY <1>1, <2>5, <2>6, HolderStutters DEF AbsSame
<1>3. CASE RwDone(p)
  <2>1. /\ pc[p] = "disk_wait" /\ ~disk[buf[p]] /\ write' = [write EXCEPT ![p] = FALSE]
    BY <1>3 DEF RwDone
  <2>2. pc'[p] = "own"  BY <1>0, <1>3, DiskMoves
  <2>3. valid' = [valid EXCEPT ![buf[p]] = TRUE]  BY <2>2 DEF Rw
  <2>4. buf[p] \in Bufs /\ (valid[buf[p]] <=> write[p])
    BY <2>1, HasBuf DEF CacheInv, Locks, Disking
  <2>5. ASSUME NEW q \in Procs, q # p PROVE Has(q)' <=> Has(q)
    <3>1. pc'[q] = pc[q] \/ (pc[q] = "desc_sleep" /\ pc'[q] = "rw")
      BY <1>0, <1>3, <2>5, DiskMoves
    <3> QED BY <1>t, <2>1, <2>5, <3>1 DEF Has
  <2>6. Has(p)'  BY <2>2 DEF Has
  <2>7. CASE write[p]
    <3>1. \A b \in Bufs : valid'[b] <=> valid[b]  BY <1>t, <2>3, <2>4, <2>7
    <3>2. AbsVal' = AbsVal  BY <1>0, <1>1, <3>1, ValueStutters
    <3>3. \A q \in Procs : Has(q)' <=> Has(q)  BY <2>5, <2>6, <2>7 DEF Has
    <3> QED BY <1>1, <3>2, <3>3, HolderStutters DEF AbsSame
  <2>8. CASE ~write[p]
    <3>0. PICK b \in Bufs : b = buf[p]  BY <2>4
    <3>1. ~Has(p)  BY <2>1, <2>8 DEF Has
    <3>2. data[b] = home[blockno[b]]
      <4>1. Waits(p) /\ ~Asked(p)  BY <2>1 DEF CacheInv, Queues, Waits
      <4> QED BY <3>0, <4>1 DEF CacheInv, Contents
    <3>3. b \in Bufs /\ ~valid[b] /\ valid' = [valid EXCEPT ![b] = TRUE]
      BY <2>3, <2>4, <2>8, <3>0
    <3>4. ASSUME NEW k \in Blocks PROVE AbsVal'[k] = AbsVal[k]
      <4>1. CASE \E c \in Bufs : Here(c, k)
        <5>1. PICK c \in Bufs : Here(c, k)  BY <4>1
        <5>2. Here(c, k)'  BY <1>1, <1>t, <3>3, <5>1 DEF Here
        <5> QED BY <1>0, <1>1, <5>1, <5>2, ValueOf, ValueOfNext
      <4>2. CASE (\A c \in Bufs : ~Here(c, k)) /\ blockno[b] = k
        <5>1. Here(b, k)'  BY <1>1, <1>t, <3>3, <4>2 DEF Here
        <5>2. AbsVal'[k] = data'[b]  BY <1>0, <3>3, <5>1, ValueOfNext
        <5>3. AbsVal[k] = home[k]  BY <1>0, <4>2, ValueOf
        <5> QED BY <1>1, <3>2, <4>2, <5>2, <5>3
      <4>3. CASE (\A c \in Bufs : ~Here(c, k)) /\ blockno[b] # k
        <5>1. \A c \in Bufs : ~Here(c, k)'  BY <1>1, <1>t, <3>3, <4>3 DEF Here
        <5>2. AbsVal'[k] = home'[k]  BY <1>0, <5>1, ValueOfNext
        <5>3. AbsVal[k] = home[k]  BY <1>0, <4>3, ValueOf
        <5> QED BY <1>1, <5>2, <5>3
      <4> QED BY <4>1, <4>2, <4>3
    <3>5. AbsVal' = AbsVal  BY <3>4 DEF AbsVal
    <3>6. \A q \in Procs : Has(q)' <=> (Has(q) \/ q = p)  BY <2>5, <2>6
    <3>7. valid'[buf[p]]  BY <1>t, <3>0, <3>3
    <3>8. pc[p] \in Disking /\ pc[p] # "lock"  BY <2>1 DEF Disking
    <3> QED BY <1>1, <3>1, <3>5, <3>6, <3>7, <3>8, Taken
  <2> QED BY <2>7, <2>8
<1> QED BY <1>2, <1>3

LEMMA ReleaseGives ==
  ASSUME CacheInv, CacheInv', NEW p \in Procs, releasesleep(p)
  PROVE  Store!Give(p)
<1>0. TypeOK /\ Once'  BY DEF CacheInv
<1>t. pc \in [Procs -> Labels]  BY <1>0 DEF TypeOK
<1>1. pc[p] = "own" /\ UNCHANGED <<buf, want, write, data, blockno, home, valid>>
  BY DEF releasesleep, bufVars, deviceVars
<1>2. AbsVal' = AbsVal  BY <1>0, <1>1, ValueStutters
<1>3. pc'[p] = "unref" /\ \A q \in Procs : q # p => (pc'[q] = "own" <=> pc[q] = "own")
  <2> DEFINE W == Wake("lock_sleep", {x \in Procs : buf[x] = buf[p]}, "lock")
  <2>1. \A q \in Procs : W[q] = pc[q] \/ (pc[q] = "lock_sleep" /\ W[q] = "lock")  BY DEF Wake
  <2>2. W \in [Procs -> Labels]  BY <1>t, WakeType DEF Labels
  <2>3. pc' = [W EXCEPT ![p] = "unref"]  BY DEF releasesleep
  <2> HIDE DEF W
  <2> QED BY <2>1, <2>2, <2>3
<1>4. Has(p) /\ ~write[p]  BY <1>1 DEF Has, CacheInv, Locks, Disking
<1>5. \A q \in Procs : Has(q)' <=> (Has(q) /\ q # p)  BY <1>1, <1>3, <1>4 DEF Has
<1>6. ASSUME NEW q \in Procs
      PROVE  /\ AbsHolds'[q] = IF q = p THEN None ELSE AbsHolds[q]
             /\ AbsSees'[q] = IF q = p THEN None ELSE AbsSees[q]
  BY <1>1, <1>5 DEF AbsHolds, AbsSees
<1>7. AbsHolds' = [AbsHolds EXCEPT ![p] = None]  BY <1>6 DEF AbsHolds
<1>8. AbsSees' = [AbsSees EXCEPT ![p] = None]  BY <1>6 DEF AbsSees
<1>9. AbsHolds[p] # None  BY <1>4, HasIt, VirtioAssumption DEF AbsHolds
<1> QED BY <1>2, <1>7, <1>8, <1>9 DEF Store!Give, AbsVal, AbsHolds, AbsSees

LEMMA ModifyPuts ==
  ASSUME CacheInv, CacheInv', NEW p \in Procs, NEW v \in Vals, Modify(p, v)
  PROVE  Store!Put(p, v)
<1>0. TypeOK /\ Once /\ Once'  BY DEF CacheInv
<1>t. data \in [Bufs -> Vals]  BY <1>0 DEF TypeOK, DiskTypeOK
<1>1. /\ pc[p] = "own" /\ data' = [data EXCEPT ![buf[p]] = v]
      /\ UNCHANGED <<pc, buf, want, write, blockno, home, valid>>
  BY DEF Modify, deviceVars
<1>2. /\ Has(p) /\ buf[p] \in Bufs /\ want[p] \in Blocks /\ want[p] = blockno[buf[p]]
      /\ valid[buf[p]]
  <2>1. Has(p)  BY <1>1 DEF Has
  <2> QED BY <2>1, HasIt
<1>3. \A q \in Procs : Has(q)' <=> Has(q)  BY <1>1 DEF Has
<1>4. \A q \in Procs : q # p /\ Has(q) => buf[q] # buf[p] /\ buf[q] \in Bufs
  BY <1>1, HasAlone, HasIt
<1>5. AbsHolds[p] = want[p] /\ want[p] # None  BY <1>2, VirtioAssumption DEF AbsHolds
<1>6. AbsHolds' = AbsHolds
  <2>1. \A q \in Procs : AbsHolds'[q] = AbsHolds[q]  BY <1>1, <1>3 DEF AbsHolds
  <2> QED BY <2>1 DEF AbsHolds
<1>7. AbsSees' = [AbsSees EXCEPT ![p] = v]
  <2>1. \A q \in Procs : AbsSees'[q] = IF q = p THEN v ELSE AbsSees[q]
    BY <1>t, <1>1, <1>2, <1>3, <1>4 DEF AbsSees
  <2> QED BY <2>1 DEF AbsSees
<1>8. ASSUME NEW k \in Blocks PROVE AbsVal'[k] = IF k = want[p] THEN v ELSE AbsVal[k]
  <2>1. CASE k = want[p]
    <3>1. Here(buf[p], k)'  BY <1>1, <1>2, <2>1 DEF Here
    <3>2. \A b \in Bufs : Here(b, k)' => AbsVal'[k] = data'[b]  BY <1>0, ValueOfNext
    <3>3. \A b \in Bufs : Here(b, k)' <=> (blockno'[b] = k /\ valid'[b])  BY DEF Here
    <3>4. data'[buf[p]] = v  BY <1>t, <1>1, <1>2
    <3> QED BY <1>1, <1>2, <2>1, <3>2, <3>3, <3>4
  <2>2. CASE k # want[p] /\ \E c \in Bufs : Here(c, k)
    <3>1. PICK c \in Bufs : Here(c, k)  BY <2>2
    <3>2. Here(c, k)'  BY <1>1, <3>1 DEF Here
    <3>3. c # buf[p]  BY <1>2, <2>2, <3>1 DEF Here
    <3>4. AbsVal'[k] = data'[c] /\ AbsVal[k] = data[c]
      BY <1>0, <3>1, <3>2, ValueOf, ValueOfNext
    <3> QED BY <1>t, <1>1, <2>2, <3>3, <3>4
  <2>3. CASE k # want[p] /\ \A c \in Bufs : ~Here(c, k)
    <3>1. \A c \in Bufs : ~Here(c, k)'  BY <1>1, <2>3 DEF Here
    <3>2. AbsVal'[k] = home'[k] /\ AbsVal[k] = home[k]
      BY <1>0, <2>3, <3>1, ValueOf, ValueOfNext
    <3> QED BY <1>1, <2>3, <3>2
  <2> QED BY <2>1, <2>2, <2>3
<1>9. AbsVal' = [AbsVal EXCEPT ![want[p]] = v]  BY <1>8 DEF AbsVal
<1> QED BY <1>5, <1>6, <1>7, <1>9 DEF Store!Put, AbsVal, AbsHolds, AbsSees

\* The device moves contents between a buffer and its block, which the callers do
\* not see: it fills only what nobody has, and stores what the buffer has.
LEMMA DiskStutters ==
  ASSUME CacheInv, CacheInv', DiskNext, UNCHANGED cacheVars
  PROVE  AbsSame
<1>0. TypeOK /\ Once /\ Once'  BY DEF CacheInv
<1>t. data \in [Bufs -> Vals] /\ home \in [Blocks -> Vals]  BY <1>0 DEF TypeOK, DiskTypeOK
<1> USE DEF bufVars, driverVars, deviceVars, cacheVars
<1>1. UNCHANGED <<want, buf, write, valid, blockno>>
  BY DEF DiskNext, virtio_disk_intr, IntrAck, IntrEntry, IntrEnd, DevDone
<1>2. ASSUME NEW q \in Procs PROVE Has(q)' <=> Has(q)
  <2>1. pc'[q] = pc[q] \/ (pc[q] = "disk_sleep" /\ pc'[q] = "disk_wait")  BY <1>0, DiskMoves
  <2> QED BY <1>1, <2>1 DEF Has
<1>3. CASE virtio_disk_intr
  <2>1. UNCHANGED <<home, data>>
    BY <1>3 DEF virtio_disk_intr, IntrAck, IntrEntry, IntrEnd
  <2>2. AbsVal' = AbsVal  BY <1>0, <1>1, <2>1, ValueStutters
  <2> QED BY <1>1, <1>2, <2>1, <2>2, HolderStutters DEF AbsSame
<1>4. ASSUME NEW id \in Desc, DevDone(id) PROVE AbsSame
  <2>1. id \in avail  BY <1>4 DEF DevDone
  <2>2. PICK p \in Procs :
          /\ Waits(p) /\ idx[p][1] = id
          /\ ops[desc[id].addr] = [write |-> write[p], sector |-> blockno[buf[p]]]
          /\ desc[desc[id].next].addr = buf[p]
    BY <2>1, AskedChain
  <2>3. pc[p] \in Disking /\ pc[p] # "idle"  BY <2>2 DEF Waits, Disking
  <2>4. PICK b \in Bufs : b = buf[p] /\ blockno[b] \in Blocks /\ (valid[b] <=> write[p])
    BY <2>3, HasBuf DEF CacheInv, Locks
  <2>5. IF write[p]
          THEN home' = [home EXCEPT ![blockno[b]] = data[b]] /\ data' = data
          ELSE data' = [data EXCEPT ![b] = home[blockno[b]]] /\ home' = home
    <3>1. IF ops[desc[id].addr].write
            THEN /\ home' = [home EXCEPT ![ops[desc[id].addr].sector] = data[desc[desc[id].next].addr]]
                 /\ data' = data
            ELSE /\ data' = [data EXCEPT ![desc[desc[id].next].addr] = home[ops[desc[id].addr].sector]]
                 /\ home' = home
      BY <1>4 DEF DevDone
    <3> QED BY <2>2, <2>4, <3>1
  <2>6. CASE write[p]
    <3>1. home' = [home EXCEPT ![blockno[b]] = data[b]] /\ data' = data  BY <2>5, <2>6
    <3>2. ASSUME NEW k \in Blocks PROVE AbsVal'[k] = AbsVal[k]
      <4>1. CASE \E c \in Bufs : Here(c, k)
        <5>1. PICK c \in Bufs : Here(c, k)  BY <4>1
        <5>2. Here(c, k)'  BY <1>1, <5>1 DEF Here
        <5> QED BY <1>0, <3>1, <5>1, <5>2, ValueOf, ValueOfNext
      <4>2. CASE \A c \in Bufs : ~Here(c, k)
        <5>1. \A c \in Bufs : ~Here(c, k)'  BY <1>1, <4>2 DEF Here
        <5>2. AbsVal'[k] = home'[k] /\ AbsVal[k] = home[k]
          BY <1>0, <4>2, <5>1, ValueOf, ValueOfNext
        <5>3. blockno[b] # k  BY <2>4, <2>6, <4>2 DEF Here
        <5> QED BY <1>t, <3>1, <5>2, <5>3
      <4> QED BY <4>1, <4>2
    <3>3. AbsVal' = AbsVal  BY <3>2 DEF AbsVal
    <3> QED BY <1>1, <1>2, <3>1, <3>3, HolderStutters DEF AbsSame
  <2>7. CASE ~write[p]
    <3>1. data' = [data EXCEPT ![b] = home[blockno[b]]] /\ home' = home  BY <2>5, <2>7
    <3>2. \A c \in Bufs : c # b => data'[c] = data[c]  BY <1>t, <3>1
    <3>3. AbsVal' = AbsVal  BY <1>0, <1>1, <2>4, <2>7, <3>1, <3>2, ValueStutters
    <3>4. ASSUME NEW q \in Procs, Has(q) PROVE data'[buf[q]] = data[buf[q]]
      <4>1. ~Has(p)  BY <2>2, <2>7 DEF Has, Waits
      <4>2. buf[q] # b /\ buf[q] \in Bufs  BY <2>3, <2>4, <3>4, <4>1, HasAlone, HasIt
      <4> QED BY <3>2, <4>2
    <3> QED BY <1>1, <1>2, <3>3, <3>4, HolderStutters DEF AbsSame
  <2> QED BY <2>6, <2>7
<1> QED BY <1>3, <1>4 DEF DiskNext

LEMMA StoreStep ==
  ASSUME CacheInv, CacheInv', [Next]_vars
  PROVE  [Store!Next]_Store!vars
<1>1. ASSUME AbsSame PROVE UNCHANGED Store!vars
  BY <1>1 DEF AbsSame, Store!vars, AbsVal, AbsHolds, AbsSees
<1>2. CASE UNCHANGED vars
  <2>1. AbsSame
    BY <1>2 DEF vars, diskVars, cacheVars, bufVars, deviceVars, AbsSame, AbsVal, AbsHolds,
                AbsSees, Has
  <2> QED BY <1>1, <2>1
<1>3. ASSUME NEW p \in Procs,
             bget(p) \/ SleepOnLock(p) \/ bwrite(p) \/ Unref(p) \/ kill(p) \/ Bunpin(p)
      PROVE  [Store!Next]_Store!vars
  BY <1>1, <1>3, BgetStutters, OtherStutters
<1>4. ASSUME NEW p \in Procs, AcquireSleep(p) \/ Rw(p) PROVE [Store!Next]_Store!vars
  <2>1. AbsSame \/ \E k \in Blocks : Store!Take(p, k)  BY <1>4, AcquireTakes, RwTakes
  <2>2. (\E k \in Blocks : Store!Take(p, k)) => Store!Next  BY DEF Store!Next
  <2> QED BY <1>1, <2>1, <2>2
<1>5. ASSUME NEW p \in Procs, releasesleep(p) PROVE [Store!Next]_Store!vars
  BY <1>5, ReleaseGives DEF Store!Next
<1>6. ASSUME NEW p \in Procs, NEW v \in Vals, Modify(p, v) PROVE [Store!Next]_Store!vars
  BY <1>6, ModifyPuts DEF Store!Next
<1>7. CASE DiskNext /\ UNCHANGED cacheVars
  BY <1>1, <1>7, DiskStutters
<1> QED BY <1>2, <1>3, <1>4, <1>5, <1>6, <1>7 DEF Next, bread, acquiresleep, brelse

\* bread() gives a process its block alone, with what was last put into it, whatever
\* was recycled, pinned, written or woken in between; the disk and the cache
\* together are one array of blocks (kernel/bio.c).
THEOREM CacheIsABlockStore == Spec => ImplementsBlockStore
<1>1. Init => Store!Init
  <2> SUFFICES ASSUME Init PROVE Store!Init  OBVIOUS
  <2>1. \A p \in Procs : ~Has(p)  BY DEF Init, VirtioInit, Has
  <2>2. AbsHolds = [p \in Procs |-> None] /\ AbsSees = [p \in Procs |-> None]
    BY <2>1 DEF AbsHolds, AbsSees
  <2>3. AbsVal = [k \in Blocks |-> home[k]]  BY DEF AbsVal, Init
  <2>4. AbsVal \in [Blocks -> Vals]  BY <2>3 DEF Init, VirtioInit
  <2> QED BY <2>2, <2>4 DEF Store!Init, AbsVal, AbsHolds, AbsSees
<1>2. CacheInv /\ CacheInv' /\ [Next]_vars => [Store!Next]_Store!vars  BY StoreStep
<1> QED BY <1>1, <1>2, CacheInvariant, PTL DEF Spec, ImplementsBlockStore, Store!Spec

=============================================================================
