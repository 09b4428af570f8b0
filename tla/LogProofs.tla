------------------------------ MODULE LogProofs ------------------------------
(***************************************************************************)
(* Theorems about the log, for any number of processes and blocks, any     *)
(* contents, any size of the log and any share of it that begin_op()       *)
(* reserves: the log never overflows, nothing is lost from the cache, and  *)
(* a crash at any moment leaves all of a group of operations or nothing.   *)
(***************************************************************************)
EXTENDS Log, FiniteSetTheorems, TLAPS

Active == {p \in Procs : pc[p] = "in"}
Committers == {p \in Procs : pc[p] \in {"write_log", "install", "finish"}}

\* What the operations in flight may still write: entry k of the OpBlocks of p.
Spare == {x \in Procs \X (1 .. OpBlocks) : pc[x[1]] = "in" /\ x[2] > Cardinality(wrote[x[1]])}

\* The blocks of an operation are in the log; and there is room for those that
\* it may still write, and for two more.
Counting ==
  /\ outstanding = Cardinality(Active)
  /\ \A p \in Active : Cardinality(wrote[p]) <= OpBlocks /\ \A b \in wrote[p] : Logged(b)
  /\ Len(lh) + 2 * outstanding + Cardinality(Spare) <= LOGSIZE
  /\ Len(lh) <= LOGSIZE - 1
  /\ Len(head) <= LOGSIZE - 1

\* One process commits, when all operations have ended.
Phases ==
  /\ \A p, q \in Committers : p = q
  /\ committing <=> Committers # {}
  /\ committing => Active = {}
  /\ boot # "up" => ~committing /\ Active = {}
  /\ \A p \in Procs : pc[p] = "finish" => lh = <<>>
  /\ boot = "up" /\ ~committing /\ Active = {} => lh = <<>>

Distinct(s) == \A i, j \in 1 .. Len(s) : s[i] = s[j] => i = j
Installing == \E p \in Procs : pc[p] = "install"
Writing == \E p \in Procs : pc[p] = "write_log"

\* A block is pinned as long as it is in the log and not in its place.
Pinned(b) ==
  /\ boot = "up"
  /\ \E i \in 1 .. Len(lh) : lh[i] = b /\ (Installing => i >= tail)

\* How far the commit, or the recovery, has got.
Content ==
  /\ Distinct(lh) /\ Distinct(head)
  /\ \A b \in Blocks : pins[b] = IF Pinned(b) THEN 1 ELSE 0
  /\ boot = "up" /\ ~Installing => head = <<>>
  /\ Writing => \A i \in 1 .. Len(lh) : i < tail => logged[i] = buf[lh[i]]
  /\ Installing => /\ head = lh
                   /\ \A i \in 1 .. Len(lh) : logged[i] = buf[lh[i]]
                   /\ \A i \in 1 .. Len(lh) : i < tail => home[lh[i]] = logged[i]
  /\ boot = "read" => lh = <<>> /\ tail = 1
  /\ boot = "recover" => /\ head = lh
                         /\ \A i \in 1 .. Len(lh) : i < tail => home[lh[i]] = logged[i]

\* A buffer that may leave the cache is in its place.
Clean == \A b \in Blocks : pins[b] = 0 => buf[b] = home[b]

LogInv ==
  /\ TypeOK
  /\ Counting
  /\ Phases
  /\ Content
  /\ Clean

-----------------------------------------------------------------------------
LEMMA SizesType ==
  /\ LOGSIZE \in Nat /\ LOGSIZE >= 2
  /\ OpBlocks \in Nat /\ MAXOPBLOCKS \in Nat
  /\ OpBlocks + 2 <= MAXOPBLOCKS
<1> QED BY LogAssumption

LEMMA TypeInit == Init => TypeOK
<1> SUFFICES ASSUME Init PROVE TypeOK
  OBVIOUS
<1>1. home \in [Blocks -> Vals] /\ logged \in [Slots -> Vals]
  BY DEF Init
<1>2. pins \in [Blocks -> Nat] /\ pc \in [Procs -> Labels] /\ wrote \in [Procs -> SUBSET Blocks]
  BY DEF Init, Labels
<1>3. head \in Seq(Blocks) /\ lh \in Seq(Blocks) /\ outstanding \in Nat
  BY DEF Init
<1>5. committing \in BOOLEAN
  BY DEF Init
<1>4. buf \in [Blocks -> Vals] /\ tail \in 1 .. LOGSIZE /\ boot \in {"read", "recover", "up"}
  BY SizesType DEF Init
<1> QED BY <1>1, <1>2, <1>3, <1>4, <1>5 DEF TypeOK

LEMMA TypeStep ==
  ASSUME TypeOK, Counting, Phases, Content, Next
  PROVE  TypeOK'
<1> USE SizesType DEF TypeOK, Goto, At, WakeAll, Labels, diskVars, logVars, procVars
<1>1. ASSUME NEW p \in Procs, Call(p) PROVE TypeOK'
  BY <1>1 DEF Call
<1>2. ASSUME NEW p \in Procs, Begin(p) PROVE TypeOK'
  BY <1>2 DEF Begin
<1>3. ASSUME NEW p \in Procs, BeginSleep(p) PROVE TypeOK'
  BY <1>3 DEF BeginSleep
<1>4. ASSUME NEW p \in Procs, NEW b \in Blocks, NEW v \in Vals, LogWrite(p, b, v) PROVE TypeOK'
  <2>1. lh' \in Seq(Blocks) /\ pins' \in [Blocks -> Nat]
    <3>1. CASE Logged(b)
      BY <1>4, <3>1 DEF LogWrite
    <3>2. CASE ~Logged(b)
      <4>1. lh' = Append(lh, b) /\ pins' = [pins EXCEPT ![b] = @ + 1]
        BY <1>4, <3>2 DEF LogWrite
      <4> QED BY <4>1
    <3> QED BY <3>1, <3>2
  <2>2. buf' \in [Blocks -> Vals] /\ wrote' \in [Procs -> SUBSET Blocks]
    BY <1>4 DEF LogWrite
  <2> QED BY <1>4, <2>1, <2>2 DEF LogWrite
<1>5. ASSUME NEW p \in Procs, EndOp(p) PROVE TypeOK'
  BY <1>5 DEF EndOp
<1>6. ASSUME NEW p \in Procs, LastEndOp(p) PROVE TypeOK'
  BY <1>6 DEF LastEndOp
<1>7. ASSUME NEW p \in Procs, WriteLog(p) PROVE TypeOK'
  <2>1. lh[tail] \in Blocks /\ tail \in Slots /\ tail + 1 \in 1 .. LOGSIZE
    BY <1>7, SMTT(30) DEF WriteLog, Counting, Slots
  <2>2. Bread(lh[tail]) \subseteq Vals
    BY <2>1 DEF Bread
  <2> QED BY <1>7, <2>1, <2>2 DEF WriteLog
<1>8. ASSUME NEW p \in Procs, WriteHead(p) PROVE TypeOK'
  BY <1>8 DEF WriteHead
<1>9. ASSUME NEW p \in Procs, Install(p) PROVE TypeOK'
  <2>1. lh[tail] \in Blocks /\ tail \in Slots /\ tail + 1 \in 1 .. LOGSIZE
    BY <1>9 DEF Install, Counting, Slots
  <2>2. Pinned(lh[tail])
    BY <1>9 DEF Install, Pinned
  <2>3. pins[lh[tail]] - 1 \in Nat
    BY <2>1, <2>2 DEF Content
  <2>4. logged[tail] \in Vals
    BY <2>1
  <2> QED BY <1>9, <2>1, <2>3, <2>4 DEF Install
<1>10. ASSUME NEW p \in Procs, ClearHead(p) PROVE TypeOK'
  BY <1>10 DEF ClearHead
<1>11. ASSUME NEW p \in Procs, Finish(p) PROVE TypeOK'
  <2>1. committing' \in BOOLEAN
    BY <1>11 DEF Finish
  <2>2. pc' \in [Procs -> Labels] /\ tail' \in 1 .. LOGSIZE
    BY <1>11 DEF Finish
  <2> QED BY <1>11, <2>1, <2>2 DEF Finish
<1>12. CASE Crash
  <2>1. pins' \in [Blocks -> Nat] /\ pc' \in [Procs -> Labels] /\ wrote' \in [Procs -> SUBSET Blocks]
    BY <1>12 DEF Crash
  <2>2. lh' \in Seq(Blocks) /\ outstanding' \in Nat /\ tail' \in 1 .. LOGSIZE
    BY <1>12 DEF Crash
  <2>3. committing' \in BOOLEAN
    BY <1>12 DEF Crash
  <2> QED BY <1>12, <2>1, <2>2, <2>3 DEF Crash
<1>13. CASE ReadHead
  BY <1>13 DEF ReadHead
<1>14. CASE Recover
  <2>1. lh[tail] \in Blocks /\ tail \in Slots /\ tail + 1 \in 1 .. LOGSIZE
    BY <1>14 DEF Recover, Counting, Slots
  <2>2. logged[tail] \in Vals
    BY <2>1
  <2> QED BY <1>14, <2>1, <2>2 DEF Recover
<1>15. CASE Recovered
  BY <1>15 DEF Recovered
<1> QED BY <1>1, <1>2, <1>3, <1>4, <1>5, <1>6, <1>7, <1>8, <1>9, <1>10, <1>11, <1>12,
           <1>13, <1>14, <1>15 DEF Next, BeginStep, CommitStep, Boot

-----------------------------------------------------------------------------
(* The room in the log.                                                     *)

LEMMA Finiteness ==
  ASSUME TypeOK
  PROVE  /\ IsFiniteSet(Active) /\ Cardinality(Active) \in Nat
         /\ IsFiniteSet(Spare) /\ Cardinality(Spare) \in Nat
         /\ \A p \in Procs : IsFiniteSet(wrote[p]) /\ Cardinality(wrote[p]) \in Nat
<1>1. IsFiniteSet(Procs) /\ IsFiniteSet(Blocks)
  BY LogAssumption
<1>2. IsFiniteSet(Active)
  BY <1>1, FS_Subset DEF Active
<1>3. IsFiniteSet(1 .. OpBlocks)
  BY SizesType, FS_Interval
<1>4. IsFiniteSet(Procs \X (1 .. OpBlocks))
  BY <1>1, <1>3, FS_Product
<1>5. IsFiniteSet(Spare)
  BY <1>4, FS_Subset DEF Spare
<1>6. ASSUME NEW p \in Procs PROVE IsFiniteSet(wrote[p])
  <2>1. wrote[p] \in SUBSET Blocks
    BY DEF TypeOK
  <2> QED BY <1>1, <2>1, FS_Subset
<1> QED BY <1>2, <1>5, <1>6, FS_CardinalityType

\* All that a set of operations may still write.
LEMMA SpareBound ==
  ASSUME NEW A \in SUBSET Procs, NEW S \in SUBSET (A \X (1 .. OpBlocks))
  PROVE  Cardinality(S) \in Nat /\ Cardinality(S) <= Cardinality(A) * OpBlocks
<1>1. IsFiniteSet(1 .. OpBlocks) /\ Cardinality(1 .. OpBlocks) = OpBlocks
  BY SizesType, FS_Interval
<1>2. IsFiniteSet(A)
  BY LogAssumption, FS_Subset
<1>3. /\ IsFiniteSet(A \X (1 .. OpBlocks))
      /\ Cardinality(A \X (1 .. OpBlocks)) = Cardinality(A) * OpBlocks
  BY <1>1, <1>2, FS_Product
<1> QED BY <1>3, FS_Subset, FS_CardinalityType

\* A share leaves two entries over, and so do n shares twice as many.
LEMMA Shares ==
  ASSUME NEW n \in Nat
  PROVE  n * OpBlocks + 2 * n <= n * MAXOPBLOCKS
<1> DEFINE c == MAXOPBLOCKS - OpBlocks - 2
<1>1. c \in Nat /\ MAXOPBLOCKS = OpBlocks + 2 + c
  BY SizesType
<1> HIDE DEF c
<1>2. n * (OpBlocks + 2 + c) = n * OpBlocks + 2 * n + n * c
  BY <1>1, SizesType
<1>3. n * c \in Nat
  BY <1>1
<1> QED BY <1>1, <1>2, <1>3, SizesType

LEMMA SameActive ==
  ASSUME wrote' = wrote, \A p \in Procs : pc'[p] = "in" <=> pc[p] = "in"
  PROVE  Active' = Active /\ Spare' = Spare
<1> QED BY DEF Active, Spare

\* Steps that change neither the log in memory nor the operations.
LEMMA SameCounting ==
  ASSUME Counting, wrote' = wrote, lh' = lh, outstanding' = outstanding,
         \A p \in Procs : pc'[p] = "in" <=> pc[p] = "in",
         head' = head \/ head' = lh \/ head' = <<>>
  PROVE  Counting'
<1>1. Active' = Active /\ Spare' = Spare
  BY SameActive
<1>2. \A b : Logged(b)' = Logged(b)
  BY DEF Logged
<1>3. Len(head') <= LOGSIZE - 1
  BY SizesType DEF Counting
<1> QED BY <1>1, <1>2, <1>3 DEF Counting

\* The log is empty in memory, and nobody writes.
LEMMA EmptyCounting ==
  ASSUME TypeOK', Active' = {}, outstanding' = 0, Len(lh') <= LOGSIZE - 1, Len(head') <= LOGSIZE - 1
  PROVE  Counting'
<1>1. Spare' = {}
  BY DEF Spare, Active
<1>2. Cardinality(Active') = 0 /\ Cardinality(Spare') = 0
  BY <1>1, FS_EmptySet
<1>3. Len(lh') \in Nat
  BY DEF TypeOK
<1> QED BY <1>2, <1>3, SizesType DEF Counting

LEMMA CountingBegin ==
  ASSUME TypeOK, TypeOK', Counting, NEW p \in Procs, Begin(p)
  PROVE  Counting'
<1> DEFINE n == Cardinality(Active) + 1
<1>1. outstanding = Cardinality(Active) /\ n \in Nat /\ Len(lh) \in Nat
  BY Finiteness, SMTT(30) DEF Counting, TypeOK
<1>2. Active' = Active \cup {p} /\ p \notin Active
  BY DEF Begin, At, Goto, Active, TypeOK
<1>3. Cardinality(Active') = n
  BY <1>2, Finiteness, FS_AddElement
<1>4. outstanding' = n /\ lh' = lh /\ head' = head
  BY <1>1 DEF Begin, diskVars
<1>5. Len(lh) + n * MAXOPBLOCKS <= LOGSIZE
  BY <1>1 DEF Begin, Room
<1>6. Cardinality(Spare') <= n * OpBlocks /\ Cardinality(Spare') \in Nat
  <2>1. Active' \in SUBSET Procs /\ Spare' \in SUBSET (Active' \X (1 .. OpBlocks))
    BY DEF Active, Spare
  <2>2. Cardinality(Spare') \in Nat /\ Cardinality(Spare') <= Cardinality(Active') * OpBlocks
    BY <2>1, SpareBound
  <2> QED BY <1>3, <2>2
<1> HIDE DEF n
<1>7. n \in Nat /\ n * OpBlocks + 2 * n <= n * MAXOPBLOCKS
  BY <1>1, Shares
<1>a. n * OpBlocks \in Nat /\ n * MAXOPBLOCKS \in Nat /\ LOGSIZE \in Nat
  BY <1>1, SizesType
<1>8. ASSUME NEW q \in Active'
      PROVE  Cardinality(wrote'[q]) <= OpBlocks /\ \A b \in wrote'[q] : Logged(b)'
  <2>1. CASE q = p
    <3>1. wrote'[q] = {}
      BY <2>1 DEF Begin, TypeOK
    <3> QED BY <3>1, FS_EmptySet, SizesType
  <2>2. CASE q # p
    <3>1. q \in Active /\ wrote'[q] = wrote[q]
      BY <1>2, <1>8, <2>2 DEF Begin, TypeOK, Active
    <3>2. \A b : Logged(b)' = Logged(b)
      BY <1>4 DEF Logged
    <3> QED BY <3>1, <3>2 DEF Counting
  <2> QED BY <2>1, <2>2
<1>9. Len(lh) + 2 * n + Cardinality(Spare') <= LOGSIZE
  BY <1>1, <1>5, <1>6, <1>7, <1>a
<1> QED BY <1>3, <1>4, <1>8, <1>9 DEF Counting

LEMMA CountingLogWrite ==
  ASSUME TypeOK, TypeOK', Counting, NEW p \in Procs, NEW b \in Blocks, NEW v \in Vals, LogWrite(p, b, v)
  PROVE  Counting'
<1>1. Active' = Active /\ p \in Active /\ outstanding' = outstanding /\ head' = head
  BY DEF LogWrite, At, Active, diskVars
<1>2. wrote'[p] = wrote[p] \cup {b} /\ \A q \in Procs \ {p} : wrote'[q] = wrote[q]
  BY DEF LogWrite, TypeOK
<1>3. \A q \in Procs : IsFiniteSet(wrote[q]) /\ Cardinality(wrote[q]) \in Nat
  BY Finiteness
<1>4. Cardinality(wrote'[p]) = IF b \in wrote[p] THEN Cardinality(wrote[p]) ELSE Cardinality(wrote[p]) + 1
  BY <1>2, <1>3, FS_AddElement
<1>5. Cardinality(wrote'[p]) <= OpBlocks
  BY <1>2 DEF LogWrite
<1>6. Spare' \in SUBSET Spare
  <2>1. ASSUME NEW q \in Procs
        PROVE  Cardinality(wrote[q]) <= Cardinality(wrote'[q]) /\ Cardinality(wrote'[q]) \in Nat
    <3>1. Cardinality(wrote[q]) \in Nat
      BY <1>3
    <3>2. CASE q = p
      BY <1>4, <3>1, <3>2
    <3>3. CASE q # p
      <4>1. wrote'[q] = wrote[q]
        BY <1>2, <3>3
      <4> QED BY <3>1, <4>1
    <3> QED BY <3>2, <3>3
  <2>2. pc' = pc
    BY DEF LogWrite
  <2> QED BY <1>3, <2>1, <2>2 DEF Spare
<1>7. Cardinality(Spare') <= Cardinality(Spare) /\ Cardinality(Spare') \in Nat /\ Cardinality(Spare) \in Nat
  BY <1>6, Finiteness, FS_Subset, FS_CardinalityType
<1>8. Len(lh) \in Nat /\ lh \in Seq(Blocks) /\ outstanding \in Nat
  BY DEF TypeOK
<1>9. CASE Logged(b)
  <2>1. lh' = lh /\ \A c : Logged(c)' = Logged(c)
    BY <1>9 DEF LogWrite, Logged
  <2>2. Len(lh') + 2 * outstanding' + Cardinality(Spare') <= LOGSIZE
    BY <1>1, <1>7, <1>8, <2>1, SizesType, SMTT(30) DEF Counting
  <2>3. \A q \in Active : Cardinality(wrote'[q]) <= OpBlocks /\ \A c \in wrote'[q] : Logged(c)'
    <3>1. \A q \in Active : q \in Procs
      BY DEF Active
    <3> QED BY <1>2, <1>5, <1>9, <2>1, <3>1 DEF Counting
  <2> QED BY <1>1, <2>1, <2>2, <2>3 DEF Counting
<1>10. CASE ~Logged(b)
  <2>1. lh' = Append(lh, b) /\ Len(lh') = Len(lh) + 1
    BY <1>8, <1>10 DEF LogWrite
  <2>2. Logged(b)' /\ \A c \in Blocks : Logged(c) => Logged(c)'
    BY <1>8, <2>1 DEF Logged
  <2>3. b \notin wrote[p]
    BY <1>1, <1>10 DEF Counting
  <2> DEFINE x == <<p, Cardinality(wrote[p]) + 1>>
  <2>4. x \in Spare /\ x \notin Spare'
    BY <1>1, <1>3, <1>4, <1>5, <2>3, SizesType DEF Spare, Active
  <2>5. Cardinality(Spare') <= Cardinality(Spare) - 1
    <3>1. Spare' \in SUBSET (Spare \ {x})
      BY <1>6, <2>4
    <3>3. IsFiniteSet(Spare)
      BY Finiteness
    <3>2. IsFiniteSet(Spare \ {x}) /\ Cardinality(Spare \ {x}) = Cardinality(Spare) - 1
      BY <2>4, <3>3, FS_RemoveElement
    <3> QED BY <3>1, <3>2, FS_Subset
  <2>6. Len(lh') <= LOGSIZE - 1
    BY <1>8, <2>1, SizesType DEF LogWrite, Full
  <2>7. Len(lh') + 2 * outstanding' + Cardinality(Spare') <= LOGSIZE
    <3>1. Len(lh) + 2 * outstanding + Cardinality(Spare) <= LOGSIZE
      BY DEF Counting
    <3>2. LOGSIZE \in Nat
      BY SizesType
    <3> HIDE DEF x
    <3> QED BY <1>1, <1>7, <1>8, <2>1, <2>5, <3>1, <3>2
  <2>8. ASSUME NEW q \in Active'
        PROVE  Cardinality(wrote'[q]) <= OpBlocks /\ \A c \in wrote'[q] : Logged(c)'
    <3>1. q \in Active /\ q \in Procs /\ wrote[q] \subseteq Blocks
      BY <1>1, <2>8 DEF Active, TypeOK
    <3> QED BY <1>2, <1>5, <2>2, <3>1 DEF Counting
  <2> QED BY <1>1, <2>6, <2>7, <2>8 DEF Counting
<1> QED BY <1>9, <1>10

\* An operation ends.
LEMMA CountingEnd ==
  ASSUME TypeOK, TypeOK', Counting, NEW p \in Active,
         \A q \in Procs : pc'[q] = "in" <=> pc[q] = "in" /\ q # p,
         wrote' = [wrote EXCEPT ![p] = {}],
         outstanding' = outstanding - 1, lh' = lh, head' = head
  PROVE  Counting'
<1>1. Active' = Active \ {p}
  BY DEF Active
<1>2. Cardinality(Active') = Cardinality(Active) - 1
  BY <1>1, Finiteness, FS_RemoveElement
<1>3. \A q \in Procs \ {p} : wrote'[q] = wrote[q]
  BY DEF TypeOK
<1>4. Spare' \in SUBSET Spare
  BY <1>3 DEF Spare
<1>5. Cardinality(Spare') <= Cardinality(Spare) /\ Cardinality(Spare') \in Nat /\ Cardinality(Spare) \in Nat
  BY <1>4, Finiteness, FS_Subset, FS_CardinalityType
<1>6. \A b : Logged(b)' = Logged(b)
  BY DEF Logged
<1>7. Len(lh) \in Nat /\ outstanding \in Nat
  BY DEF TypeOK
<1>8. Len(lh') + 2 * outstanding' + Cardinality(Spare') <= LOGSIZE
  BY <1>5, <1>7, SizesType, SMTT(30) DEF Counting
<1>9. \A q \in Active' : q \in Active /\ wrote'[q] = wrote[q]
  BY <1>1, <1>3 DEF Active
<1> QED BY <1>2, <1>6, <1>8, <1>9 DEF Counting

LEMMA CountingStep ==
  ASSUME TypeOK, TypeOK', Counting, Phases, Content, Next
  PROVE  Counting'
<1> USE DEF At, Goto, WakeAll, diskVars, logVars, procVars
<1>1. ASSUME NEW p \in Procs, Call(p) \/ BeginSleep(p) \/ WriteLog(p) \/ WriteHead(p) \/ Install(p) \/ Finish(p)
      PROVE  Counting'
  <2>1. wrote' = wrote /\ lh' = lh /\ outstanding' = outstanding /\ (head' = head \/ head' = lh)
    BY <1>1 DEF Call, BeginSleep, WriteLog, WriteHead, Install, Finish
  <2>2. \A q \in Procs : pc'[q] = "in" <=> pc[q] = "in"
    BY <1>1 DEF Call, BeginSleep, WriteLog, WriteHead, Install, Finish, TypeOK
  <2> QED BY <2>1, <2>2, SameCounting
<1>2. ASSUME NEW p \in Procs, ClearHead(p) PROVE Counting'
  <2>1. committing /\ Active = {}
    BY <1>2 DEF ClearHead, Phases, Committers
  <2>2. Active' = {} /\ outstanding' = 0
    <3>1. \A q \in Procs : pc'[q] = "in" => pc[q] = "in"
      BY <1>2 DEF ClearHead, TypeOK
    <3>2. outstanding = 0
      BY <2>1, FS_EmptySet DEF Counting
    <3> QED BY <1>2, <2>1, <3>1, <3>2 DEF ClearHead, Active
  <2>3. lh' = <<>> /\ head' = <<>>
    BY <1>2 DEF ClearHead
  <2> QED BY <2>2, <2>3, EmptyCounting, SizesType
<1>3. CASE Crash
  <2>1. Active' = {} /\ outstanding' = 0 /\ lh' = <<>> /\ head' = head
    BY <1>3 DEF Crash, Active
  <2>2. Len(lh') = 0 /\ Len(head') <= LOGSIZE - 1
    BY <2>1 DEF Counting
  <2> QED BY <2>1, <2>2, EmptyCounting, SizesType
<1>4. CASE Boot
  <2>1. Active = {} /\ outstanding = 0
    <3>1. Active = {}
      BY <1>4 DEF Boot, ReadHead, Recover, Recovered, Phases
    <3> QED BY <3>1, FS_EmptySet DEF Counting
  <2>2. Active' = {} /\ outstanding' = 0
    BY <1>4, <2>1 DEF Boot, ReadHead, Recover, Recovered, Active
  <2>3. Len(lh') <= LOGSIZE - 1 /\ Len(head') <= LOGSIZE - 1
    <3>1. lh' \in {lh, head, <<>>} /\ head' \in {head, <<>>}
      BY <1>4 DEF Boot, ReadHead, Recover, Recovered
    <3> QED BY <3>1, SizesType DEF Counting
  <2> QED BY <2>2, <2>3, EmptyCounting
<1>5. ASSUME NEW p \in Procs, EndOp(p) \/ LastEndOp(p) PROVE Counting'
  <2>1. p \in Active
    BY <1>5 DEF EndOp, LastEndOp, Active
  <2>2. \A q \in Procs : pc'[q] = "in" <=> pc[q] = "in" /\ q # p
    BY <1>5 DEF EndOp, LastEndOp, TypeOK
  <2>3. outstanding' = outstanding - 1 /\ lh' = lh /\ head' = head
    BY <1>5 DEF EndOp, LastEndOp
  <2>4. wrote' = [wrote EXCEPT ![p] = {}]
    BY <1>5 DEF EndOp, LastEndOp
  <2> QED BY <2>1, <2>2, <2>3, <2>4, CountingEnd
<1>6. ASSUME NEW p \in Procs, Begin(p) PROVE Counting'
  BY <1>6, CountingBegin
<1>7. ASSUME NEW p \in Procs, NEW b \in Blocks, NEW v \in Vals, LogWrite(p, b, v) PROVE Counting'
  BY <1>7, CountingLogWrite
<1> QED BY <1>1, <1>2, <1>3, <1>4, <1>5, <1>6, <1>7 DEF Next, BeginStep, CommitStep

-----------------------------------------------------------------------------
(* One process commits.                                                     *)

LEMMA PhasesStep ==
  ASSUME TypeOK, TypeOK', Counting, Counting', Phases, Content, Next
  PROVE  Phases'
<1> USE DEF At, Goto, WakeAll, diskVars, logVars, procVars
<1>1. ASSUME NEW p \in Procs, Call(p) \/ BeginSleep(p) \/ WriteLog(p) \/ WriteHead(p) \/ Install(p)
      PROVE  Phases'
  <2>1. Active' = Active /\ Committers' = Committers
    BY <1>1 DEF Call, BeginSleep, WriteLog, WriteHead, Install, TypeOK, Active, Committers
  <2>2. committing' = committing /\ boot' = boot /\ lh' = lh
    BY <1>1 DEF Call, BeginSleep, WriteLog, WriteHead, Install
  <2>3. \A q \in Procs : pc'[q] = "finish" => pc[q] = "finish"
    BY <1>1 DEF Call, BeginSleep, WriteLog, WriteHead, Install, TypeOK
  <2> QED BY <2>1, <2>2, <2>3 DEF Phases
<1>2. ASSUME NEW p \in Procs, Begin(p) PROVE Phases'
  <2>1. Active' = Active \cup {p} /\ Committers' = Committers
    BY <1>2 DEF Begin, TypeOK, Active, Committers
  <2>2. ~committing /\ committing' = committing /\ boot' = boot /\ boot = "up" /\ lh' = lh
    BY <1>2 DEF Begin
  <2>3. \A q \in Procs : pc'[q] = "finish" => pc[q] = "finish"
    BY <1>2 DEF Begin, TypeOK
  <2> QED BY <2>1, <2>2, <2>3 DEF Phases
<1>3. ASSUME NEW p \in Procs, NEW b \in Blocks, NEW v \in Vals, LogWrite(p, b, v) PROVE Phases'
  <2>1. Active' = Active /\ Committers' = Committers /\ p \in Active /\ pc' = pc
    BY <1>3 DEF LogWrite, Active, Committers
  <2>2. committing' = committing /\ boot' = boot /\ boot = "up"
    BY <1>3 DEF LogWrite
  <2>3. ~committing
    BY <2>1 DEF Phases
  <2>4. \A q \in Procs : pc[q] # "finish"
    BY <2>3 DEF Phases, Committers
  <2> QED BY <2>1, <2>2, <2>3, <2>4 DEF Phases
<1>4. ASSUME NEW p \in Procs, EndOp(p) PROVE Phases'
  <2>1. Active # {}
    BY <1>4 DEF EndOp, Active
  <2>2. Committers' = Committers /\ boot' = boot /\ lh' = lh /\ committing' = committing /\ boot = "up"
    BY <1>4 DEF EndOp, TypeOK, Committers
  <2>3. ~committing
    BY <2>1 DEF Phases
  <2>4. Active' # {}
    <3>1. outstanding' \in Nat /\ outstanding' # 0
      BY <1>4 DEF EndOp, TypeOK
    <3>2. outstanding' = Cardinality(Active')
      BY DEF Counting
    <3> QED BY <3>1, <3>2, FS_EmptySet
  <2>5. \A q \in Procs : pc'[q] = "finish" => pc[q] = "finish"
    BY <1>4 DEF EndOp, TypeOK
  <2> QED BY <2>2, <2>3, <2>4, <2>5 DEF Phases
<1>5. ASSUME NEW p \in Procs, LastEndOp(p) PROVE Phases'
  <2>1. p \in Active /\ boot = "up" /\ boot' = boot /\ lh' = lh /\ committing'
    BY <1>5 DEF LastEndOp, Active
  <2>2. ~committing /\ Committers = {}
    BY <2>1 DEF Phases
  <2>3. Active' = {}
    <3>1. Cardinality(Active') = 0
      BY <1>5 DEF Counting, LastEndOp
    <3>2. IsFiniteSet(Active')
      BY LogAssumption, FS_Subset DEF Active
    <3> QED BY <3>1, <3>2, FS_EmptySet
  <2>4. pc' = [pc EXCEPT ![p] = IF lh = <<>> THEN "finish" ELSE "write_log"]
    BY <1>5 DEF LastEndOp
  <2>5. Committers' = {p}
    BY <2>2, <2>4 DEF Committers, TypeOK
  <2>6. \A q \in Procs : pc'[q] = "finish" => lh = <<>>
    <3>1. ASSUME NEW q \in Procs, pc'[q] = "finish" PROVE q = p
      BY <2>5, <3>1 DEF Committers
    <3> QED BY <2>4, <3>1 DEF TypeOK
  <2> QED BY <2>1, <2>3, <2>5, <2>6 DEF Phases
<1>6. ASSUME NEW p \in Procs, ClearHead(p) PROVE Phases'
  <2>1. Active' = Active /\ Committers' = Committers
    BY <1>6 DEF ClearHead, TypeOK, Active, Committers
  <2>2. committing' = committing /\ boot' = boot /\ lh' = <<>>
    BY <1>6 DEF ClearHead
  <2> QED BY <2>1, <2>2 DEF Phases
<1>7. ASSUME NEW p \in Procs, Finish(p) PROVE Phases'
  <2>1. p \in Committers /\ boot = "up" /\ boot' = boot /\ lh' = lh /\ lh = <<>>
    BY <1>7 DEF Finish, Committers, Phases
  <2>2. Committers = {p} /\ Active = {}
    BY <2>1 DEF Phases
  <2>3. ~committing'
    BY <1>7 DEF Finish
  <2>4. Committers' = {} /\ Active' = {}
    BY <1>7, <2>2 DEF Finish, Committers, Active, TypeOK
  <2> QED BY <2>1, <2>3, <2>4 DEF Phases, Committers
<1>8. CASE Crash
  <2>1. Committers' = {} /\ Active' = {} /\ boot' = "read" /\ lh' = <<>>
    BY <1>8 DEF Crash, Committers, Active
  <2>2. ~committing'
    BY <1>8 DEF Crash
  <2> QED BY <2>1, <2>2 DEF Phases, Committers
<1>9. CASE Boot
  <2>1. ~committing /\ Active = {} /\ Committers = {} /\ boot # "up"
    BY <1>9 DEF Boot, ReadHead, Recover, Recovered, Phases
  <2>2. ~committing' /\ Active' = {} /\ Committers' = {}
    BY <1>9, <2>1 DEF Boot, ReadHead, Recover, Recovered, Active, Committers
  <2>3. boot' = "up" => lh' = <<>>
    BY <1>9 DEF Boot, ReadHead, Recover, Recovered
  <2> QED BY <2>2, <2>3 DEF Phases, Committers
<1> QED BY <1>1, <1>2, <1>3, <1>4, <1>5, <1>6, <1>7, <1>8, <1>9 DEF Next, BeginStep, CommitStep

-----------------------------------------------------------------------------
(* What is in the log, in the cache and in its place.                       *)

LEMMA OneMode ==
  ASSUME Phases
  PROVE  /\ boot # "up" \/ Active # {} \/ ~committing => ~Installing /\ ~Writing
         /\ Writing => ~Installing
         /\ \A p \in Procs : pc[p] = "finish" => ~Installing /\ ~Writing
<1>1. boot # "up" \/ Active # {} \/ ~committing => Committers = {}
  BY DEF Phases
<1>2. \A p, q \in Committers : p = q
  BY DEF Phases
<1> QED BY <1>1, <1>2 DEF Installing, Writing, Committers

\* Steps that change no block, neither in memory nor on the disk.
LEMMA SameContent ==
  ASSUME Content, diskVars' = diskVars, buf' = buf, pins' = pins, lh' = lh, boot' = boot,
         Installing' = Installing, Writing' = Writing,
         tail' = tail \/ (~Installing /\ ~Writing /\ boot = "up")
  PROVE  Content'
<1>1. head' = head /\ logged' = logged /\ home' = home
  BY DEF diskVars
<1>2. Distinct(lh)' /\ Distinct(head)'
  BY <1>1 DEF Content, Distinct
<1>3. \A b \in Blocks : Pinned(b)' = Pinned(b)
  BY DEF Pinned
<1>4. CASE tail' = tail
  BY <1>1, <1>2, <1>3, <1>4 DEF Content
<1>5. CASE ~Installing /\ ~Writing /\ boot = "up"
  BY <1>1, <1>2, <1>3, <1>5 DEF Content
<1> QED BY <1>4, <1>5

LEMMA ContentLogWrite ==
  ASSUME TypeOK, TypeOK', Phases, Content, NEW p \in Procs, NEW b \in Blocks, NEW v \in Vals,
         LogWrite(p, b, v)
  PROVE  Content'
<1>1. boot = "up" /\ boot' = boot /\ pc' = pc /\ head' = head /\ p \in Active
  BY DEF LogWrite, At, Active, diskVars
<1>2. ~Installing /\ ~Writing /\ ~Installing' /\ ~Writing'
  BY <1>1, OneMode DEF Installing, Writing
<1>3. Distinct(head)' /\ head' = <<>>
  BY <1>1, <1>2 DEF Content, Distinct
<1>4. CASE Logged(b)
  <2>1. lh' = lh /\ pins' = pins
    BY <1>4 DEF LogWrite
  <2>2. Distinct(lh)' /\ \A c \in Blocks : Pinned(c)' = Pinned(c)
    BY <1>1, <1>2, <2>1 DEF Content, Distinct, Pinned
  <2> QED BY <1>1, <1>2, <1>3, <2>1, <2>2 DEF Content
<1>5. CASE ~Logged(b)
  <2>1. lh' = Append(lh, b) /\ pins' = [pins EXCEPT ![b] = @ + 1]
    BY <1>5 DEF LogWrite
  <2>2. lh \in Seq(Blocks) /\ Len(lh') = Len(lh) + 1 /\ Len(lh) \in Nat /\ lh'[Len(lh')] = b
        /\ \A i \in 1 .. Len(lh) : lh'[i] = lh[i]
    BY <2>1 DEF TypeOK
  <2>3. Distinct(lh)'
    BY <1>5, <2>2 DEF Content, Distinct, Logged
  <2>4. ASSUME NEW c \in Blocks PROVE Pinned(c)' <=> Pinned(c) \/ c = b
    BY <1>1, <1>2, <2>2 DEF Pinned
  <2>5. ~Pinned(b)
    BY <1>5 DEF Pinned, Logged
  <2>6. ASSUME NEW c \in Blocks PROVE pins'[c] = IF Pinned(c)' THEN 1 ELSE 0
    <3>1. CASE c = b
      BY <2>1, <2>4, <2>5, <3>1 DEF Content, TypeOK
    <3>2. CASE c # b
      BY <2>1, <2>4, <3>2 DEF Content, TypeOK
    <3> QED BY <3>1, <3>2
  <2> QED BY <1>1, <1>2, <1>3, <2>3, <2>6 DEF Content
<1> QED BY <1>4, <1>5

\* The block that write_log() or install_trans() is at.
LEMMA AtTail ==
  ASSUME TypeOK, Counting, tail <= Len(lh)
  PROVE  /\ tail \in 1 .. Len(lh) /\ tail \in Slots /\ lh[tail] \in Blocks
         /\ logged[tail] \in Vals
         /\ \A i \in 1 .. Len(lh) : i \in Slots /\ lh[i] \in Blocks
<1>1. \A i \in 1 .. Len(lh) : i \in Slots /\ lh[i] \in Blocks
  BY SizesType, SMTT(30) DEF TypeOK, Counting, Slots
<1>2. tail \in 1 .. Len(lh)
  BY SizesType DEF TypeOK
<1> QED BY <1>1, <1>2 DEF TypeOK

\* A block that is being logged cannot have left the cache.
LEMMA ContentWriteLog ==
  ASSUME TypeOK, Counting, Phases, Content, NEW p \in Procs, WriteLog(p)
  PROVE  Content' /\ logged' = [logged EXCEPT ![tail] = buf[lh[tail]]]
<1>1. boot = "up" /\ Writing /\ ~Installing
  BY OneMode DEF WriteLog, At, Writing
<1>2. tail \in 1 .. Len(lh) /\ tail \in Slots /\ lh[tail] \in Blocks
  BY AtTail DEF WriteLog
<1>3. Pinned(lh[tail])
  BY <1>1, <1>2 DEF Pinned
<1>4. pins[lh[tail]] = 1
  BY <1>2, <1>3 DEF Content
<1>5. logged' = [logged EXCEPT ![tail] = buf[lh[tail]]]
  <2>1. pins[lh[tail]] > 0
    BY <1>4
  <2>2. Bread(lh[tail]) = {buf[lh[tail]]}
    BY <2>1 DEF Bread
  <2> QED BY <2>2 DEF WriteLog
<1>6. /\ tail' = tail + 1 /\ lh' = lh /\ head' = head /\ buf' = buf /\ pins' = pins
      /\ boot' = boot /\ pc' = pc
  BY DEF WriteLog, diskVars, logVars, procVars
<1>7. ~Installing' /\ Writing'
  BY <1>1, <1>6 DEF Installing, Writing
<1>8. Distinct(lh)' /\ Distinct(head)' /\ \A b \in Blocks : Pinned(b)' = Pinned(b)
  BY <1>1, <1>6, <1>7 DEF Content, Distinct, Pinned
<1>9. ASSUME NEW i \in 1 .. Len(lh), i < tail + 1 PROVE logged'[i] = buf[lh[i]]
  <2>1. i \in Slots
    BY AtTail DEF WriteLog
  <2>2. CASE i = tail
    BY <1>2, <1>5, <2>2 DEF TypeOK
  <2>3. CASE i # tail
    <3>1. i < tail
      BY <1>2, <1>9, <2>3
    <3> QED BY <1>1, <1>5, <2>1, <2>3, <3>1 DEF TypeOK, Content
  <2> QED BY <2>2, <2>3
<1> QED BY <1>1, <1>5, <1>6, <1>7, <1>8, <1>9 DEF Content

LEMMA ContentWriteHead ==
  ASSUME TypeOK, Phases, Content, NEW p \in Procs, WriteHead(p)
  PROVE  Content'
<1>1. boot = "up" /\ Writing /\ ~Installing
  BY OneMode DEF WriteHead, At, Writing
<1>2. head' = lh /\ lh' = lh /\ logged' = logged /\ buf' = buf /\ pins' = pins /\ boot' = boot /\ tail' = 1
  BY DEF WriteHead, logVars
<1>3. Committers = {p}
  BY DEF Phases, Committers, WriteHead, At
<1>4. Installing' /\ ~Writing'
  BY <1>3 DEF Installing, Writing, WriteHead, Goto, TypeOK, Committers
<1>5. Distinct(lh)' /\ Distinct(head)'
  BY <1>2 DEF Content, Distinct
<1>6. \A b \in Blocks : Pinned(b)' = Pinned(b)
  BY <1>1, <1>2, <1>4 DEF Pinned
<1>7. \A i \in 1 .. Len(lh) : logged[i] = buf[lh[i]]
  <2>1. \A i \in 1 .. Len(lh) : i < tail
    BY DEF WriteHead, TypeOK
  <2> QED BY <1>1, <2>1 DEF Content
<1>8. \A i \in 1 .. Len(lh) : ~(i < 1)
  OBVIOUS
<1> QED BY <1>1, <1>2, <1>4, <1>5, <1>6, <1>7, <1>8 DEF Content

\* Installing a block does not change what the cache says of it.
LEMMA ContentInstall ==
  ASSUME TypeOK, Counting, Phases, Content, NEW p \in Procs, Install(p)
  PROVE  Content' /\ buf' = buf /\ home' = [home EXCEPT ![lh[tail]] = buf[lh[tail]]]
<1>1. boot = "up" /\ Installing /\ ~Writing
  BY OneMode DEF Install, At, Installing
<1>2. /\ tail \in 1 .. Len(lh) /\ lh[tail] \in Blocks /\ Len(lh) \in Nat
      /\ \A i \in 1 .. Len(lh) : lh[i] \in Blocks
  BY AtTail DEF Install, TypeOK
<1>3. logged[tail] = buf[lh[tail]]
  BY <1>1, <1>2 DEF Content
<1>4. buf' = buf
  BY <1>2, <1>3 DEF Install, TypeOK
<1>5. home' = [home EXCEPT ![lh[tail]] = logged[tail]]
  BY DEF Install
<1>6. /\ tail' = tail + 1 /\ lh' = lh /\ head' = head /\ logged' = logged
      /\ boot' = boot /\ pc' = pc /\ pins' = [pins EXCEPT ![lh[tail]] = @ - 1]
  BY DEF Install, diskVars, logVars, procVars
<1>7. Installing' /\ ~Writing'
  BY <1>1, <1>6 DEF Installing, Writing
<1>8. Distinct(lh)' /\ Distinct(head)' /\ Distinct(lh)
  BY <1>6 DEF Content, Distinct
<1>9. ASSUME NEW i \in 1 .. Len(lh), i < tail + 1 PROVE home'[lh[i]] = logged[i]
  <2>1. CASE i = tail
    BY <1>2, <1>5, <2>1 DEF TypeOK
  <2>2. CASE i # tail
    <3>1. lh[i] # lh[tail] /\ i < tail
      BY <1>2, <1>8, <1>9, <2>2 DEF Distinct
    <3> QED BY <1>1, <1>2, <1>5, <3>1 DEF TypeOK, Content
  <2> QED BY <2>1, <2>2
<1>10. ASSUME NEW b \in Blocks PROVE pins'[b] = IF Pinned(b)' THEN 1 ELSE 0
  <2>1. CASE b = lh[tail]
    <3>1. Pinned(b)
      BY <1>1, <1>2, <2>1 DEF Pinned
    <3>2. ~Pinned(b)'
      <4>1. \A i \in 1 .. Len(lh) : lh[i] = b => i = tail
        BY <1>2, <1>8, <2>1 DEF Distinct
      <4> QED BY <1>2, <1>6, <1>7, <4>1 DEF Pinned
    <3>3. pins[b] = 1
      BY <3>1 DEF Content
    <3> QED BY <1>6, <2>1, <3>2, <3>3 DEF TypeOK
  <2>2. CASE b # lh[tail]
    <3>1. Pinned(b)' = Pinned(b)
      <4>1. \A i \in 1 .. Len(lh) : lh[i] = b => (i >= tail <=> i >= tail + 1)
        BY <1>2, <2>2
      <4> QED BY <1>1, <1>6, <1>7, <4>1 DEF Pinned
    <3>2. pins'[b] = pins[b]
      BY <1>6, <2>2 DEF TypeOK
    <3> QED BY <3>1, <3>2 DEF Content
  <2> QED BY <2>1, <2>2
<1>11. head' = lh' /\ \A i \in 1 .. Len(lh) : logged'[i] = buf'[lh[i]]
  BY <1>1, <1>4, <1>6 DEF Content
<1> QED BY <1>1, <1>3, <1>4, <1>5, <1>6, <1>7, <1>8, <1>9, <1>10, <1>11 DEF Content

LEMMA ContentStep ==
  ASSUME TypeOK, TypeOK', Counting, Phases, Phases', Content, Next
  PROVE  Content'
<1> USE DEF At, Goto, WakeAll
<1>1. ASSUME NEW p \in Procs, Call(p) \/ BeginSleep(p) \/ Begin(p) \/ EndOp(p) \/ Finish(p)
      PROVE  Content'
  <2>1. /\ diskVars' = diskVars /\ buf' = buf /\ pins' = pins /\ lh' = lh /\ boot' = boot
        /\ boot = "up"
    BY <1>1 DEF Call, BeginSleep, Begin, EndOp, Finish, diskVars, logVars
  <2>2. \A q \in Procs : (pc'[q] = "install" <=> pc[q] = "install")
                         /\ (pc'[q] = "write_log" <=> pc[q] = "write_log")
    BY <1>1 DEF Call, BeginSleep, Begin, EndOp, Finish, TypeOK
  <2>3. Installing' = Installing /\ Writing' = Writing
    BY <2>2 DEF Installing, Writing
  <2>4. tail' = tail \/ pc[p] = "finish"
    BY <1>1 DEF Call, BeginSleep, Begin, EndOp, Finish
  <2> QED BY <2>1, <2>3, <2>4, OneMode, SameContent
<1>2. ASSUME NEW p \in Procs, LastEndOp(p) PROVE Content'
  <2>1. p \in Active /\ boot = "up" /\ tail' = 1
    BY <1>2 DEF LastEndOp, Active
  <2>2. ~Installing /\ ~Writing
    BY <2>1, OneMode
  <2>3. /\ head' = head /\ logged' = logged /\ home' = home /\ buf' = buf /\ pins' = pins
        /\ lh' = lh /\ boot' = boot
    BY <1>2 DEF LastEndOp, diskVars
  <2>4. ~Installing'
    BY <1>2, <2>2 DEF LastEndOp, Installing, TypeOK
  <2>5. Distinct(lh)' /\ Distinct(head)' /\ \A b \in Blocks : Pinned(b)' = Pinned(b)
    BY <2>2, <2>3, <2>4 DEF Content, Distinct, Pinned
  <2>6. \A i \in 1 .. Len(lh) : ~(i < 1)
    OBVIOUS
  <2> QED BY <2>1, <2>2, <2>3, <2>4, <2>5, <2>6 DEF Content
<1>3. ASSUME NEW p \in Procs, ClearHead(p) PROVE Content'
  <2>1. Installing /\ ~Writing /\ boot = "up"
    BY <1>3, OneMode DEF ClearHead, Installing
  <2>2. /\ lh' = <<>> /\ head' = <<>> /\ boot' = boot /\ pins' = pins
        /\ pc' = [pc EXCEPT ![p] = "finish"]
    BY <1>3 DEF ClearHead
  <2>3. ~Installing' /\ ~Writing'
    <3>1. Committers = {p}
      BY <1>3 DEF ClearHead, Phases, Committers
    <3> QED BY <2>2, <3>1 DEF Installing, Writing, Committers, TypeOK
  <2>4. \A b \in Blocks : ~Pinned(b)
    <3>1. \A i \in 1 .. Len(lh) : ~(i >= tail)
      BY <1>3 DEF ClearHead, TypeOK
    <3> QED BY <2>1, <3>1 DEF Pinned
  <2>5. \A b \in Blocks : ~Pinned(b)'
    BY <2>2 DEF Pinned
  <2>6. Distinct(lh)' /\ Distinct(head)'
    BY <2>2 DEF Distinct
  <2> QED BY <2>1, <2>2, <2>3, <2>4, <2>5, <2>6 DEF Content
<1>4. CASE Crash
  <2>1. boot' = "read" /\ lh' = <<>> /\ tail' = 1 /\ head' = head /\ pins' = [b \in Blocks |-> 0]
    BY <1>4 DEF Crash, diskVars
  <2>2. ~Installing' /\ ~Writing'
    BY <1>4 DEF Crash, Installing, Writing
  <2>3. Distinct(lh)' /\ Distinct(head)' /\ \A b \in Blocks : ~Pinned(b)'
    BY <2>1 DEF Content, Distinct, Pinned
  <2> QED BY <2>1, <2>2, <2>3 DEF Content
<1>5. CASE Boot
  <2>1. boot # "up" /\ ~Installing /\ ~Writing /\ ~Installing' /\ ~Writing' /\ pins' = pins
    <3>1. boot # "up" /\ pc' = pc /\ pins' = pins
      BY <1>5 DEF Boot, ReadHead, Recover, Recovered, procVars
    <3> QED BY <3>1, OneMode DEF Installing, Writing
  <2>2. \A b \in Blocks : pins'[b] = 0
    BY <2>1 DEF Content, Pinned
  <2>3. CASE ReadHead
    <3>1. lh' = head /\ head' = head /\ boot' = "recover" /\ tail' = 1
      BY <2>3 DEF ReadHead, Content, diskVars
    <3>2. Distinct(lh)' /\ Distinct(head)' /\ \A b \in Blocks : ~Pinned(b)'
      BY <3>1 DEF Content, Distinct, Pinned
    <3>3. \A i \in 1 .. Len(lh') : ~(i < 1)
      OBVIOUS
    <3> QED BY <2>1, <2>2, <3>1, <3>2, <3>3 DEF Content
  <2>4. CASE Recover
    <3>1. /\ tail' = tail + 1 /\ lh' = lh /\ head' = head /\ logged' = logged /\ boot' = boot
          /\ boot = "recover" /\ head = lh /\ home' = [home EXCEPT ![lh[tail]] = logged[tail]]
      BY <2>4 DEF Recover, Content, logVars
    <3>2. /\ tail \in 1 .. Len(lh) /\ lh[tail] \in Blocks
          /\ \A i \in 1 .. Len(lh) : lh[i] \in Blocks
      BY <2>4, AtTail DEF Recover
    <3>3. Distinct(lh) /\ Distinct(lh)' /\ Distinct(head)' /\ \A b \in Blocks : ~Pinned(b)'
      BY <3>1 DEF Content, Distinct, Pinned
    <3>4. ASSUME NEW i \in 1 .. Len(lh), i < tail + 1 PROVE home'[lh[i]] = logged[i]
      <4>1. CASE i = tail
        BY <3>1, <3>2, <4>1 DEF TypeOK
      <4>2. CASE i # tail
        <5>1. lh[i] # lh[tail] /\ i < tail
          BY <3>2, <3>3, <3>4, <4>2 DEF Distinct
        <5> QED BY <3>1, <3>2, <5>1 DEF TypeOK, Content
      <4> QED BY <4>1, <4>2
    <3> QED BY <2>1, <2>2, <3>1, <3>3, <3>4 DEF Content
  <2>5. CASE Recovered
    <3>1. lh' = <<>> /\ head' = <<>> /\ boot' = "up"
      BY <2>5 DEF Recovered
    <3>2. Distinct(lh)' /\ Distinct(head)' /\ \A b \in Blocks : ~Pinned(b)'
      BY <3>1 DEF Distinct, Pinned
    <3> QED BY <2>1, <2>2, <3>1, <3>2 DEF Content
  <2> QED BY <1>5, <2>3, <2>4, <2>5 DEF Boot
<1>6. ASSUME NEW p \in Procs, NEW b \in Blocks, NEW v \in Vals, LogWrite(p, b, v) PROVE Content'
  BY <1>6, ContentLogWrite
<1>7. ASSUME NEW p \in Procs, WriteLog(p) \/ WriteHead(p) \/ Install(p) PROVE Content'
  BY <1>7, ContentWriteLog, ContentWriteHead, ContentInstall
<1> QED BY <1>1, <1>2, <1>3, <1>4, <1>5, <1>6, <1>7 DEF Next, BeginStep, CommitStep

LEMMA CleanStep ==
  ASSUME TypeOK, TypeOK', Counting, Phases, Content, Clean, Next
  PROVE  Clean'
<1>1. ASSUME NEW p \in Procs,
             \/ Call(p) \/ BeginSleep(p) \/ Begin(p) \/ EndOp(p) \/ LastEndOp(p)
             \/ WriteLog(p) \/ WriteHead(p) \/ ClearHead(p) \/ Finish(p)
      PROVE  Clean'
  <2>1. pins' = pins /\ buf' = buf /\ home' = home
    BY <1>1 DEF Call, BeginSleep, Begin, EndOp, LastEndOp, WriteLog, WriteHead, ClearHead, Finish, diskVars
  <2> QED BY <2>1 DEF Clean
<1>2. ASSUME NEW p \in Procs, NEW b \in Blocks, NEW v \in Vals, LogWrite(p, b, v) PROVE Clean'
  <2>1. home' = home /\ buf' = [buf EXCEPT ![b] = v] /\ boot = "up" /\ p \in Active
    BY <1>2 DEF LogWrite, At, Active, diskVars
  <2>2. pins'[b] # 0
    <3>1. CASE Logged(b)
      <4>1. Pinned(b)
        BY <2>1, <3>1, OneMode DEF Pinned, Logged
      <4> QED BY <1>2, <3>1, <4>1 DEF LogWrite, Content
    <3>2. CASE ~Logged(b)
      BY <1>2, <3>2 DEF LogWrite, TypeOK
    <3> QED BY <3>1, <3>2
  <2>3. \A c \in Blocks \ {b} : pins'[c] = pins[c]
    BY <1>2 DEF LogWrite, TypeOK
  <2> QED BY <2>1, <2>2, <2>3 DEF Clean, TypeOK
<1>3. ASSUME NEW p \in Procs, Install(p) PROVE Clean'
  <2>1. lh[tail] \in Blocks
    BY <1>3, AtTail DEF Install
  <2>2. buf' = buf /\ home' = [home EXCEPT ![lh[tail]] = buf[lh[tail]]]
    BY <1>3, ContentInstall
  <2>3. \A c \in Blocks \ {lh[tail]} : pins'[c] = pins[c] /\ home'[c] = home[c]
    BY <1>3, <2>2 DEF Install, TypeOK
  <2>4. home'[lh[tail]] = buf[lh[tail]]
    BY <2>1, <2>2 DEF TypeOK
  <2> QED BY <2>2, <2>3, <2>4 DEF Clean
<1>4. CASE Crash
  BY <1>4 DEF Crash, Clean, diskVars
<1>5. CASE ReadHead \/ Recovered
  BY <1>5 DEF ReadHead, Recovered, Clean, diskVars
<1>6. CASE Recover
  <2>1. lh[tail] \in Blocks
    BY <1>6, AtTail DEF Recover
  <2> QED BY <1>6, <2>1 DEF Recover, Clean, TypeOK
<1> QED BY <1>1, <1>2, <1>3, <1>4, <1>5, <1>6 DEF Next, BeginStep, CommitStep, Boot

-----------------------------------------------------------------------------
(* The invariant, and what it says of log_write() and of the cache.         *)

LEMMA InvInit == Init => LogInv
<1> SUFFICES ASSUME Init PROVE LogInv
  OBVIOUS
<1>1. TypeOK
  BY TypeInit
<1>2. Active = {} /\ Committers = {} /\ ~Installing /\ ~Writing
  BY DEF Init, Active, Committers, Installing, Writing
<1>3. lh = <<>> /\ head = <<>> /\ buf = home /\ outstanding = 0 /\ boot = "read" /\ tail = 1
      /\ pins = [b \in Blocks |-> 0]
  BY DEF Init
<1>4. Counting
  <2>1. Spare = {}
    BY <1>2 DEF Spare, Active
  <2>2. Cardinality(Active) = 0 /\ Cardinality(Spare) = 0
    BY <1>2, <2>1, FS_EmptySet
  <2> QED BY <1>2, <1>3, <2>2, SizesType DEF Counting
<1>5. ~committing
  BY DEF Init
<1>6. Phases
  BY <1>2, <1>3, <1>5 DEF Phases, Committers
<1>7. Content
  <2>1. Distinct(lh) /\ Distinct(head) /\ \A b \in Blocks : ~Pinned(b)
    BY <1>3 DEF Distinct, Pinned
  <2> QED BY <1>2, <1>3, <2>1 DEF Content
<1>8. Clean
  BY <1>3 DEF Clean
<1> QED BY <1>1, <1>4, <1>6, <1>7, <1>8 DEF LogInv

LEMMA InvStep == LogInv /\ [Next]_vars => LogInv'
<1> SUFFICES ASSUME LogInv, [Next]_vars PROVE LogInv'
  OBVIOUS
<1>1. CASE Next
  <2>1. TypeOK'
    BY <1>1, TypeStep DEF LogInv
  <2>2. Counting'
    BY <1>1, <2>1, CountingStep DEF LogInv
  <2>3. Phases'
    BY <1>1, <2>1, <2>2, PhasesStep DEF LogInv
  <2>4. Content'
    BY <1>1, <2>1, <2>3, ContentStep DEF LogInv
  <2>5. Clean'
    BY <1>1, <2>1, CleanStep DEF LogInv
  <2> QED BY <2>1, <2>2, <2>3, <2>4, <2>5 DEF LogInv
<1>2. CASE UNCHANGED vars
  <2>1. /\ home' = home /\ logged' = logged /\ head' = head /\ buf' = buf /\ pins' = pins /\ lh' = lh
        /\ outstanding' = outstanding /\ committing' = committing /\ tail' = tail /\ pc' = pc
        /\ wrote' = wrote /\ boot' = boot
    BY <1>2 DEF vars, diskVars, logVars, procVars
  <2>2. TypeOK'
    BY <2>1 DEF LogInv, TypeOK
  <2>3. Counting'
    BY <2>1, SameCounting DEF LogInv
  <2>4. Phases' /\ Clean'
    BY <2>1 DEF LogInv, Phases, Clean, Active, Committers
  <2>5. Content'
    <3>1. diskVars' = diskVars /\ Installing' = Installing /\ Writing' = Writing
      BY <2>1 DEF diskVars, Installing, Writing
    <3> QED BY <2>1, <3>1, SameContent DEF LogInv
  <2> QED BY <2>2, <2>3, <2>4, <2>5 DEF LogInv
<1> QED BY <1>1, <1>2

LEMMA LogInvariant == Spec => []LogInv
<1> QED BY InvInit, InvStep, PTL DEF Spec

\* While an operation goes on, the log has room for one more block, and two to spare.
LEMMA RoomLeft ==
  ASSUME LogInv, NEW p \in Active
  PROVE  ~Full /\ ~committing /\ outstanding >= 1
<1>1. TypeOK /\ Counting /\ Phases
  BY DEF LogInv
<1>2. Cardinality(Active) \in Nat /\ Cardinality(Spare) \in Nat /\ IsFiniteSet(Active)
  BY <1>1, Finiteness
<1>3. Cardinality(Active) # 0
  BY <1>2, FS_EmptySet
<1>4. outstanding \in Nat /\ Len(lh) \in Nat /\ LOGSIZE \in Nat
  BY <1>1, SizesType DEF TypeOK
<1>5. outstanding = Cardinality(Active) /\ Len(lh) + 2 * outstanding + Cardinality(Spare) <= LOGSIZE
  BY <1>1 DEF Counting
<1>6. outstanding >= 1 /\ Len(lh) + 2 <= LOGSIZE
  BY <1>2, <1>3, <1>4, <1>5
<1>7. ~committing
  BY <1>1 DEF Phases
<1> QED BY <1>4, <1>6, <1>7 DEF Full

\* Nobody sleeps while the machine starts.
AwakeAtBoot == boot # "up" => \A q \in Procs : pc[q] # "asleep"

LEMMA BootStep == AwakeAtBoot /\ [Next]_vars => AwakeAtBoot'
<1> SUFFICES ASSUME AwakeAtBoot, [Next]_vars PROVE AwakeAtBoot'
  OBVIOUS
<1>1. CASE Crash  BY <1>1 DEF Crash, AwakeAtBoot
<1>2. CASE Boot  BY <1>2 DEF Boot, ReadHead, Recover, Recovered, procVars, AwakeAtBoot
<1>3. ASSUME NEW p \in Procs, Call(p) \/ BeginStep(p) \/ EndOp(p) \/ LastEndOp(p) \/ CommitStep(p)
      PROVE  AwakeAtBoot'
  <2>1. boot' = boot /\ boot = "up"
    BY <1>3 DEF Call, BeginStep, Begin, BeginSleep, EndOp, LastEndOp, CommitStep, WriteLog,
                WriteHead, Install, ClearHead, Finish, At, procVars
  <2> QED BY <2>1 DEF AwakeAtBoot
<1>4. ASSUME NEW p \in Procs, NEW b \in Blocks, NEW v \in Vals, LogWrite(p, b, v)
      PROVE  AwakeAtBoot'
  BY <1>4 DEF LogWrite, At, AwakeAtBoot
<1>5. CASE UNCHANGED vars  BY <1>5 DEF vars, procVars, AwakeAtBoot
<1> QED BY <1>1, <1>2, <1>3, <1>4, <1>5 DEF Next

LEMMA AsleepStep ==
  LogInv /\ AwakeAtBoot /\ NobodySleepsForNothing /\ [Next]_vars => NobodySleepsForNothing'
<1> SUFFICES ASSUME LogInv, AwakeAtBoot, NobodySleepsForNothing, [Next]_vars
             PROVE  NobodySleepsForNothing'
  OBVIOUS
<1>t. /\ pc \in [Procs -> Labels] /\ outstanding \in Nat /\ lh \in Seq(Blocks)
      /\ LOGSIZE \in Nat /\ MAXOPBLOCKS \in Nat
  BY SizesType DEF LogInv, TypeOK
<1>1. ASSUME UNCHANGED <<committing, outstanding, lh>>,
             \A q \in Procs : pc'[q] = "asleep" => pc[q] = "asleep"
      PROVE  NobodySleepsForNothing'
  BY <1>1 DEF NobodySleepsForNothing, Room
<1>2. ASSUME \A q \in Procs : pc'[q] # "asleep" PROVE NobodySleepsForNothing'
  BY <1>2 DEF NobodySleepsForNothing
<1>3. ASSUME NEW p \in Procs, Call(p) \/ WriteLog(p) \/ WriteHead(p) \/ Install(p)
      PROVE  NobodySleepsForNothing'
  <2>1. UNCHANGED <<committing, outstanding, lh>>
    BY <1>3 DEF Call, WriteLog, WriteHead, Install, logVars
  <2>2. \A q \in Procs : pc'[q] = "asleep" => pc[q] = "asleep"
    BY <1>3, <1>t DEF Call, WriteLog, WriteHead, Install, Goto, procVars
  <2> QED BY <1>1, <2>1, <2>2
<1>4. ASSUME NEW p \in Procs, Begin(p) PROVE NobodySleepsForNothing'
  <2>1. /\ outstanding' = outstanding + 1 /\ UNCHANGED <<committing, lh>>
        /\ \A q \in Procs : pc'[q] = "asleep" => pc[q] = "asleep"
    BY <1>4, <1>t DEF Begin, Goto
  <2>2. Room' => Room
    <3> DEFINE n == Len(lh)
               m == outstanding + 1
    <3>1. n \in Nat /\ m \in Nat  BY <1>t
    <3>2. (m + 1) * MAXOPBLOCKS = m * MAXOPBLOCKS + MAXOPBLOCKS
          /\ m * MAXOPBLOCKS \in Nat
      BY <3>1, <1>t, SMTT(30)
    <3>3. Room' <=> n + (m + 1) * MAXOPBLOCKS <= LOGSIZE  BY <2>1 DEF Room
    <3>4. Room <=> n + m * MAXOPBLOCKS <= LOGSIZE  BY DEF Room
    <3> HIDE DEF m
    <3> QED BY <3>1, <3>2, <3>3, <3>4, <1>t
  <2> QED BY <2>1, <2>2 DEF NobodySleepsForNothing
<1>5. ASSUME NEW p \in Procs, BeginSleep(p) PROVE NobodySleepsForNothing'
  BY <1>5 DEF BeginSleep, NobodySleepsForNothing, Room, logVars
<1>6. ASSUME NEW p \in Procs, NEW b \in Blocks, NEW v \in Vals, LogWrite(p, b, v)
      PROVE  NobodySleepsForNothing'
  <2>1. UNCHANGED <<pc, committing, outstanding>> /\ Len(lh') >= Len(lh)
    BY <1>6, <1>t DEF LogWrite
  <2>2. Room' => Room
    <3> DEFINE r == (outstanding + 1) * MAXOPBLOCKS
    <3>1. r \in Nat /\ Len(lh) \in Nat /\ Len(lh') \in Nat
      BY <1>6, <1>t, SMTT(30) DEF LogWrite
    <3>2. (Room <=> Len(lh) + r <= LOGSIZE) /\ (Room' <=> Len(lh') + r <= LOGSIZE)
      BY <2>1 DEF Room
    <3> HIDE DEF r
    <3> QED BY <2>1, <3>1, <3>2, <1>t
  <2> QED BY <2>1, <2>2 DEF NobodySleepsForNothing
<1>7. ASSUME NEW p \in Procs, EndOp(p) \/ Finish(p) PROVE NobodySleepsForNothing'
  <2>1. pc' = WakeAll([pc EXCEPT ![p] = "idle"])  BY <1>7 DEF EndOp, Finish
  <2> QED BY <1>2, <1>t, <2>1 DEF WakeAll
<1>8. ASSUME NEW p \in Procs, LastEndOp(p) PROVE NobodySleepsForNothing'
  BY <1>8 DEF LastEndOp, NobodySleepsForNothing
<1>9. ASSUME NEW p \in Procs, ClearHead(p) PROVE NobodySleepsForNothing'
  <2>1. p \in Committers  BY <1>9 DEF ClearHead, At, Committers
  <2>2. committing /\ committing' = committing  BY <1>9, <2>1 DEF ClearHead, LogInv, Phases
  <2> QED BY <2>2 DEF NobodySleepsForNothing
<1>10. CASE Crash  BY <1>2, <1>10 DEF Crash
<1>11. CASE Boot
  <2>1. pc' = pc  BY <1>11 DEF Boot, ReadHead, Recover, Recovered, procVars
  <2>2. \A q \in Procs : pc[q] # "asleep"
    BY <1>11 DEF Boot, ReadHead, Recover, Recovered, AwakeAtBoot
  <2> QED BY <1>2, <2>1, <2>2
<1>12. CASE UNCHANGED vars  BY <1>1, <1>12 DEF vars, procVars, logVars
<1> QED
  BY <1>3, <1>4, <1>5, <1>6, <1>7, <1>8, <1>9, <1>10, <1>11, <1>12
  DEF Next, BeginStep, CommitStep

LEMMA NobodyIsLeftAsleep == Spec => []NobodySleepsForNothing
<1>1. Init => NobodySleepsForNothing /\ AwakeAtBoot
  BY DEF Init, NobodySleepsForNothing, AwakeAtBoot
<1> QED BY <1>1, BootStep, AsleepStep, LogInvariant, PTL DEF Spec

\* Whatever overlapping operations write, absorb, commit and recover, log_write()
\* never finds the log full, end_op() never finds a commit going on, and a buffer
\* that bio.c may recycle has the contents of its block on the disk; and end_op(),
\* with a commit or without, wakes whoever could begin.
THEOREM NothingIsLost == Spec => []NothingLost
<1>1. LogInv /\ NobodySleepsForNothing => NothingLost
  <2> SUFFICES ASSUME LogInv, NobodySleepsForNothing PROVE NothingLost
    OBVIOUS
  <2>1. NoPanic
    BY RoomLeft DEF NoPanic, Active
  <2> QED BY <2>1 DEF NothingLost, LogInv, Clean
<1> QED BY <1>1, LogInvariant, NobodyIsLeftAsleep, PTL

-----------------------------------------------------------------------------
(* The atomic disk.                                                         *)

LEMMA DurableIs ==
  ASSUME TypeOK, Distinct(head)
  PROVE  /\ \A i \in 1 .. Len(head) : head[i] \in Blocks /\ Durable[head[i]] = logged[i]
         /\ \A b \in Blocks : (\A i \in 1 .. Len(head) : head[i] # b) => Durable[b] = home[b]
<1>1. ASSUME NEW i \in 1 .. Len(head) PROVE head[i] \in Blocks /\ Durable[head[i]] = logged[i]
  <2>1. head[i] \in Blocks
    BY DEF TypeOK
  <2>2. \A j \in 1 .. Len(head) : head[j] = head[i] => j = i
    BY DEF Distinct
  <2>3. (CHOOSE j \in 1 .. Len(head) : head[j] = head[i]) = i
    BY <2>2
  <2> QED BY <2>1, <2>3 DEF Durable
<1>2. ASSUME NEW b \in Blocks, \A i \in 1 .. Len(head) : head[i] # b PROVE Durable[b] = home[b]
  BY <1>2 DEF Durable
<1> QED BY <1>1, <1>2

\* With nothing to install, or all of it installed, the disk is its blocks.
LEMMA DurableHome ==
  ASSUME TypeOK, Distinct(head), \A i \in 1 .. Len(head) : home[head[i]] = logged[i]
  PROVE  Durable = home
<1>1. \A b \in Blocks : Durable[b] = home[b]
  BY DurableIs
<1>2. Durable = [b \in Blocks |-> Durable[b]]
  BY DEF Durable
<1> QED BY <1>1, <1>2 DEF TypeOK

\* Installing a block of the log changes nothing for a restart.
LEMMA DurableInstall ==
  ASSUME TypeOK, head' = head, logged' = logged, NEW i \in 1 .. Len(head),
         home' = [home EXCEPT ![head[i]] = logged[i]]
  PROVE  Durable' = Durable
<1>1. ASSUME NEW b \in Blocks, \A j \in 1 .. Len(head) : head[j] # b PROVE home'[b] = home[b]
  BY <1>1 DEF TypeOK
<1> QED BY <1>1 DEF Durable

\* Between two groups of operations all three agree.
LEMMA Settled ==
  ASSUME LogInv, boot = "up", ~committing, Active = {}
  PROVE  buf = home /\ Durable = home
<1>1. TypeOK /\ Phases /\ Content /\ Clean
  BY DEF LogInv
<1>2. lh = <<>> /\ ~Installing
  BY <1>1, OneMode DEF Phases
<1>3. head = <<>> /\ Distinct(head)
  BY <1>1, <1>2 DEF Content
<1>4. Durable = home
  BY <1>1, <1>3, DurableHome
<1>5. \A b \in Blocks : pins[b] = 0
  BY <1>1, <1>2 DEF Content, Pinned
<1>6. \A b \in Blocks : buf[b] = home[b]
  BY <1>1, <1>5 DEF Clean
<1> QED BY <1>1, <1>4, <1>6 DEF TypeOK

\* What a step does to the disk that the file system sees.
AbsCache == IF boot = "up" THEN buf ELSE Durable

LEMMA StutterCommit ==
  ASSUME LogInv, LogInv', NEW p \in Procs,
         WriteLog(p) \/ Install(p) \/ ClearHead(p)
  PROVE  AbsCache' = AbsCache /\ Durable' = Durable /\ Active' = Active
<1> USE DEF At, Goto
<1>1. TypeOK /\ Counting /\ Phases /\ Content /\ TypeOK' /\ Content'
  BY DEF LogInv
<1>2. boot = "up" /\ boot' = boot
  BY DEF WriteLog, Install, ClearHead
<1>3. Active' = Active
  BY <1>1 DEF WriteLog, Install, ClearHead, Active, TypeOK, procVars
<1>4. CASE WriteLog(p)
  <2>1. ~Installing /\ pc' = pc
    BY <1>1, <1>4, OneMode DEF WriteLog, Writing, procVars
  <2>2. ~Installing'
    BY <2>1 DEF Installing
  <2>3. head = <<>> /\ head' = <<>> /\ home' = home /\ buf' = buf
    BY <1>1, <1>2, <1>4, <2>1 DEF Content, WriteLog
  <2>4. Durable' = Durable
    BY <2>3 DEF Durable
  <2> QED BY <1>2, <1>3, <2>3, <2>4 DEF AbsCache
<1>5. CASE Install(p)
  <2>1. buf' = buf /\ head = lh /\ head' = head /\ logged' = logged
    BY <1>1, <1>5, ContentInstall DEF Content, Install, Installing
  <2>2. tail \in 1 .. Len(head) /\ home' = [home EXCEPT ![head[tail]] = logged[tail]]
    BY <1>1, <1>5, <2>1, AtTail DEF Install
  <2>3. Durable' = Durable
    BY <1>1, <2>1, <2>2, DurableInstall
  <2> QED BY <1>2, <1>3, <2>1, <2>3 DEF AbsCache
<1>6. CASE ClearHead(p)
  <2>1. home' = home /\ logged' = logged /\ buf' = buf /\ head' = <<>>
    BY <1>6 DEF ClearHead
  <2>2. Installing
    BY <1>6 DEF ClearHead, Installing
  <2>3. \A i \in 1 .. Len(head) : home[head[i]] = logged[i]
    <3>1. head = lh /\ \A i \in 1 .. Len(lh) : i < tail
      BY <1>1, <1>6, <2>2 DEF ClearHead, Content, TypeOK
    <3> QED BY <1>1, <2>2, <3>1 DEF Content
  <2>4. Durable = home
    BY <1>1, <2>3, DurableHome DEF Content
  <2>5. Durable' = home'
    <3>1. Durable' = [b \in Blocks |-> home[b]]
      BY <2>1 DEF Durable
    <3> QED BY <1>1, <2>1, <3>1 DEF TypeOK
  <2> QED BY <1>2, <1>3, <2>1, <2>4, <2>5 DEF AbsCache
<1> QED BY <1>4, <1>5, <1>6

\* The header on the disk makes the whole group durable, at once.
LEMMA CommitIsAtomic ==
  ASSUME LogInv, LogInv', NEW p \in Procs, WriteHead(p)
  PROVE  AbsCache' = AbsCache /\ Durable' = AbsCache /\ Active' = Active /\ Active = {}
<1>1. TypeOK /\ Phases /\ Content /\ Clean /\ TypeOK' /\ Content'
  BY DEF LogInv
<1>2. boot = "up" /\ boot' = boot /\ Writing /\ ~Installing /\ buf' = buf /\ home' = home /\ logged' = logged
      /\ head' = lh /\ lh' = lh
  BY <1>1, OneMode DEF WriteHead, At, Writing, logVars
<1>3. Active' = Active /\ Active = {}
  <2>1. Committers # {}
    BY <1>2 DEF Writing, Committers
  <2> QED BY <1>1, <2>1 DEF WriteHead, Goto, Active, TypeOK, Phases
<1>4. \A i \in 1 .. Len(lh) : logged[i] = buf[lh[i]]
  <2>1. \A i \in 1 .. Len(lh) : i < tail
    BY <1>1 DEF WriteHead, TypeOK
  <2> QED BY <1>1, <1>2, <2>1 DEF Content
<1>5. ASSUME NEW b \in Blocks PROVE Durable'[b] = buf[b]
  <2>1. CASE \E i \in 1 .. Len(lh) : lh[i] = b
    <3>1. PICK i \in 1 .. Len(lh) : lh[i] = b
      BY <2>1
    <3>2. \A j \in 1 .. Len(lh) : lh[j] = b => j = i
      BY <1>1, <3>1 DEF Content, Distinct
    <3>3. (CHOOSE j \in 1 .. Len(lh) : lh[j] = b) = i
      BY <3>1, <3>2
    <3>4. Durable'[b] = logged[i]
      BY <1>2, <2>1, <3>3 DEF Durable
    <3> QED BY <1>4, <3>1, <3>4
  <2>2. CASE ~\E i \in 1 .. Len(lh) : lh[i] = b
    <3>1. Durable'[b] = home[b]
      BY <1>2, <2>2 DEF Durable
    <3>2. pins[b] = 0
      BY <1>1, <2>2 DEF Content, Pinned
    <3> QED BY <1>1, <3>1, <3>2 DEF Clean
  <2> QED BY <2>1, <2>2
<1>6. Durable' = buf
  <2>1. Durable' = [b \in Blocks |-> Durable'[b]]
    BY DEF Durable
  <2> QED BY <1>1, <1>5, <2>1 DEF TypeOK
<1> QED BY <1>2, <1>3, <1>6 DEF AbsCache

\* Recovery, and a second crash in it, change nothing.
LEMMA StutterBoot ==
  ASSUME LogInv, LogInv', Boot
  PROVE  AbsCache' = AbsCache /\ Durable' = Durable /\ Active' = Active
<1>1. TypeOK /\ Counting /\ Phases /\ Content /\ Clean /\ TypeOK'
  BY DEF LogInv
<1>2. Active' = Active
  BY DEF Boot, ReadHead, Recover, Recovered, Active, procVars
<1>3. CASE ReadHead
  <2>1. boot # "up" /\ boot' # "up" /\ home' = home /\ logged' = logged /\ head' = head
    BY <1>3 DEF ReadHead, diskVars
  <2>2. Durable' = Durable
    BY <2>1 DEF Durable
  <2> QED BY <1>2, <2>1, <2>2 DEF AbsCache
<1>4. CASE Recover
  <2>1. boot # "up" /\ boot' # "up" /\ head = lh /\ logged' = logged /\ head' = head
    BY <1>1, <1>4 DEF Recover, Content
  <2>2. tail \in 1 .. Len(head) /\ home' = [home EXCEPT ![head[tail]] = logged[tail]]
    BY <1>1, <1>4, <2>1, AtTail DEF Recover
  <2>3. Durable' = Durable
    BY <1>1, <2>1, <2>2, DurableInstall
  <2> QED BY <1>2, <2>1, <2>3 DEF AbsCache
<1>5. CASE Recovered
  <2>1. boot = "recover" /\ boot' = "up" /\ home' = home /\ buf' = buf /\ head' = <<>>
    BY <1>5 DEF Recovered
  <2>2. \A i \in 1 .. Len(head) : home[head[i]] = logged[i]
    <3>1. head = lh /\ \A i \in 1 .. Len(lh) : i < tail
      BY <1>1, <1>5 DEF Recovered, Content, TypeOK
    <3> QED BY <1>1, <2>1, <3>1 DEF Content
  <2>3. Durable = home
    BY <1>1, <2>2, DurableHome DEF Content
  <2>4. Durable' = home
    <3>1. Durable' = [b \in Blocks |-> home[b]]
      BY <2>1 DEF Durable
    <3> QED BY <1>1, <3>1 DEF TypeOK
  <2>5. buf = home
    <3>1. \A b \in Blocks : pins[b] = 0
      BY <1>1, <2>1 DEF Content, Pinned
    <3>2. \A b \in Blocks : buf[b] = home[b]
      BY <1>1, <3>1 DEF Clean
    <3> QED BY <1>1, <3>2 DEF TypeOK
  <2> QED BY <1>2, <2>1, <2>3, <2>4, <2>5 DEF AbsCache
<1> QED BY <1>3, <1>4, <1>5 DEF Boot

LEMMA AbsStep ==
  ASSUME LogInv, LogInv', Next
  PROVE  [Abs!Next]_Abs!vars
<1> USE DEF At, Goto, WakeAll
<1>1. TypeOK /\ Phases /\ Content /\ TypeOK'
  BY DEF LogInv
<1>2. \A p \in Active : p \in Procs
  BY DEF Active
<1>3. ASSUME AbsCache' = AbsCache, Durable' = Durable, Active' = Active PROVE UNCHANGED Abs!vars
  BY <1>3 DEF Abs!vars, AbsCache, Active
<1>4. ASSUME diskVars' = diskVars PROVE Durable' = Durable
  BY <1>4 DEF diskVars, Durable
<1>5. ASSUME NEW p \in Procs, Call(p) \/ BeginSleep(p) \/ Finish(p) PROVE [Abs!Next]_Abs!vars
  <2>1. diskVars' = diskVars /\ buf' = buf /\ boot' = boot
    BY <1>5 DEF Call, BeginSleep, Finish
  <2>2. Active' = Active
    BY <1>1, <1>5 DEF Call, BeginSleep, Finish, Active, TypeOK
  <2> QED BY <1>3, <1>4, <2>1, <2>2 DEF AbsCache
<1>6. ASSUME NEW p \in Procs, WriteLog(p) \/ Install(p) \/ ClearHead(p) PROVE [Abs!Next]_Abs!vars
  BY <1>3, <1>6, StutterCommit
<1>7. CASE Boot
  BY <1>3, <1>7, StutterBoot
<1>8. ASSUME NEW p \in Procs, WriteHead(p) PROVE [Abs!Next]_Abs!vars
  <2>1. AbsCache' = AbsCache /\ Durable' = AbsCache /\ Active' = Active /\ Active = {}
    BY <1>8, CommitIsAtomic
  <2>2. Abs!Commit
    BY <2>1 DEF Abs!Commit, AbsCache, Active
  <2> QED BY <2>2 DEF Abs!Next
<1>9. ASSUME NEW p \in Procs, Begin(p) PROVE [Abs!Next]_Abs!vars
  <2>1. /\ boot = "up" /\ boot' = boot /\ ~committing /\ buf' = buf /\ diskVars' = diskVars
        /\ pc[p] = "begin" /\ pc' = [pc EXCEPT ![p] = "in"]
    BY <1>9 DEF Begin
  <2>2. p \notin Active /\ Active' = Active \cup {p}
    BY <1>1, <2>1 DEF Active, TypeOK
  <2>3. Active # {} \/ Durable = AbsCache
    BY <2>1, Settled DEF AbsCache
  <2>4. AbsCache' = AbsCache /\ Durable' = Durable
    BY <1>4, <2>1 DEF AbsCache
  <2>5. Abs!Begin(p)
    BY <2>2, <2>3, <2>4 DEF Abs!Begin, AbsCache, Active
  <2> QED BY <2>5 DEF Abs!Next
<1>10. ASSUME NEW p \in Procs, EndOp(p) \/ LastEndOp(p) PROVE [Abs!Next]_Abs!vars
  <2>1. boot = "up" /\ boot' = boot /\ buf' = buf /\ diskVars' = diskVars /\ p \in Active
    BY <1>10 DEF EndOp, LastEndOp, Active
  <2>2. Active' = Active \ {p}
    BY <1>1, <1>10 DEF EndOp, LastEndOp, Active, TypeOK
  <2>3. AbsCache' = AbsCache /\ Durable' = Durable
    BY <1>4, <2>1 DEF AbsCache
  <2>4. Abs!End(p)
    BY <2>1, <2>2, <2>3 DEF Abs!End, AbsCache, Active
  <2> QED BY <2>4 DEF Abs!Next
<1>11. ASSUME NEW p \in Procs, NEW b \in Blocks, NEW v \in Vals, LogWrite(p, b, v)
       PROVE  [Abs!Next]_Abs!vars
  <2>1. /\ boot = "up" /\ boot' = boot /\ buf' = [buf EXCEPT ![b] = v] /\ diskVars' = diskVars
        /\ p \in Active /\ pc' = pc
    BY <1>11 DEF LogWrite, Active
  <2>2. AbsCache' = [AbsCache EXCEPT ![b] = v] /\ Durable' = Durable /\ Active' = Active
    BY <1>4, <2>1 DEF AbsCache, Active
  <2>3. Abs!Write(p, b, v)
    BY <2>1, <2>2 DEF Abs!Write, AbsCache, Active
  <2> QED BY <2>3 DEF Abs!Next
<1>12. CASE Crash
  <2>1. boot' = "read" /\ diskVars' = diskVars /\ Active' = {}
    BY <1>12 DEF Crash, Active
  <2>2. Durable' = Durable /\ AbsCache' = Durable
    BY <1>4, <2>1 DEF AbsCache
  <2>3. Abs!Crash
    BY <2>1, <2>2 DEF Abs!Crash, AbsCache, Active
  <2> QED BY <2>3 DEF Abs!Next
<1> QED BY <1>5, <1>6, <1>7, <1>8, <1>9, <1>10, <1>11, <1>12 DEF Next, BeginStep, CommitStep

\* For every program of overlapping operations, and a crash between any two writes
\* to the disk, of a commit or of a recovery: what is on the disk after a restart is
\* all of a group of operations, or nothing of it.
THEOREM CrashesAreAtomic == Spec => ImplementsAtomicDisk
<1>1. Init => Abs!Init
  <2> SUFFICES ASSUME Init PROVE Abs!Init
    OBVIOUS
  <2>1. TypeOK /\ head = <<>> /\ boot = "read" /\ home \in [Blocks -> Vals]
    BY TypeInit DEF Init
  <2>2. Durable = home
    BY <2>1, DurableHome DEF Distinct
  <2>3. Active = {}
    BY DEF Init, Active
  <2> QED BY <2>1, <2>2, <2>3 DEF Abs!Init, Active
<1>2. LogInv /\ LogInv' /\ [Next]_vars => [Abs!Next]_Abs!vars
  <2> SUFFICES ASSUME LogInv, LogInv', [Next]_vars PROVE [Abs!Next]_Abs!vars
    OBVIOUS
  <2>1. CASE Next
    BY <2>1, AbsStep
  <2>2. CASE UNCHANGED vars
    BY <2>2 DEF vars, diskVars, procVars, Abs!vars, Durable
  <2> QED BY <2>1, <2>2
<1> QED BY <1>1, <1>2, LogInvariant, PTL DEF Spec, ImplementsAtomicDisk, Abs!Spec
=============================================================================
