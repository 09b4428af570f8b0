--------------------------- MODULE InodeLinksProofs ---------------------------
(***************************************************************************)
(* Theorems about the links of inodes, for any number of processes, inodes *)
(* and blocks, any calls and any starting trees: an inode that has no name *)
(* any more is freed with its last reference; and as long as no path goes  *)
(* through "..", none has more links than it counts.                       *)
(*                                                                         *)
(* Both rest on TableInv of InodesProofs.  GoneInv says which entry of the *)
(* table the next process to free an inode will find it in; NamesInv, what *)
(* is due to the count of links of an inode: its links, and those that a   *)
(* process is about to make or has just taken.  A lemma that is named      *)
(* XGone or XNames says that action X keeps the one or the other.          *)
(***************************************************************************)
EXTENDS InodesProofs

-----------------------------------------------------------------------------
(* What no step but those of iput() does: to drop an entry of the table, or  *)
(* to make it one that has to be read again.                                 *)

Keeps(it, it2) ==
  \A s \in Slot : it[s].ref >= 1 => /\ it2[s].ref >= 1 /\ it2[s].inum = it[s].inum
                                    /\ it[s].valid => it2[s].valid

LEMMA KeepsTwice ==
  ASSUME NEW a, NEW b, NEW c, Keeps(a, b), Keeps(b, c)
  PROVE  Keeps(a, c)
BY DEF Keeps

LEMMA KeepsEntry ==
  ASSUME NEW it \in [Slot -> TableEntry], NEW s \in Slot, NEW e,
         e.ref = it[s].ref, e.inum = it[s].inum, e.valid
  PROVE  Keeps(it, [it EXCEPT ![s] = e])
<1> DEFINE j == [it EXCEPT ![s] = e]
<1>1. j[s] = e /\ \A k \in Slot : k # s => j[k] = it[k]  OBVIOUS
<1> HIDE DEF j
<1>2. Keeps(it, j)  BY <1>1 DEF Keeps
<1> QED BY <1>2 DEF j

LEMMA KeepsBumped ==
  ASSUME NEW it \in [Slot -> TableEntry], NEW it2, NEW s, Bumped(it, it2, s)
  PROVE  Keeps(it, it2) /\ it2[s].ref >= 1
<1>1. ASSUME NEW k \in Slot, it[k].ref >= 1
      PROVE  it2[k].ref >= 1 /\ it2[k].inum = it[k].inum /\ (it[k].valid => it2[k].valid)
  <2>1. it[k].ref \in Nat  BY EntryTypes
  <2>2. CASE k = s  BY <1>1, <2>1, <2>2 DEF Bumped
  <2>3. CASE k # s  BY <1>1, <2>3 DEF Bumped
  <2> QED BY <2>2, <2>3
<1>2. it2[s].ref >= 1
  <2>1. s \in Slot  BY DEF Bumped
  <2>2. it[s].ref \in Nat  BY <2>1, EntryTypes
  <2> QED BY <2>2 DEF Bumped
<1> QED BY <1>1, <1>2 DEF Keeps

LEMMA KeepsTaken ==
  ASSUME TableInv, NEW p \in Procs, NEW s \in Slot, itable[s].ref >= 1, CanLock(s), NEW l \in {p, None}
  PROVE  /\ Keeps(itable, Taken(s, l)) /\ Taken(s, l) \in [Slot -> TableEntry]
         /\ Taken(s, l)[s].valid = TRUE
<1>1. /\ Take(s, l).ref = itable[s].ref /\ Take(s, l).inum = itable[s].inum /\ Take(s, l).valid = TRUE
  <2>1. l \in Procs \cup {None}  OBVIOUS
  <2> QED BY <2>1, TakeOK
<1>2. itable \in [Slot -> TableEntry]  BY TableFacts
<1>3. TableOK(Taken(s, l), dinode) /\ Taken(s, l)[s] = Take(s, l)  BY TakenOK
<1>4. Keeps(itable, Taken(s, l))  BY <1>1, <1>2, KeepsEntry DEF Taken
<1> QED BY <1>1, <1>3, <1>4 DEF TableOK

\* Entry s is given back.
LEMMA KeepsUnlocked ==
  ASSUME NEW it \in [Slot -> TableEntry], NEW s \in Slot
  PROVE  Keeps(it, [it EXCEPT ![s] = iunlock(it[s])]) /\ [it EXCEPT ![s] = iunlock(it[s])] \in [Slot -> TableEntry]
<1> DEFINE e == iunlock(it[s])
           j == [it EXCEPT ![s] = e]
<1>1. e \in TableEntry /\ e.ref = it[s].ref /\ e.inum = it[s].inum /\ e.valid = it[s].valid
  BY DEF iunlock, TableEntry
<1> HIDE DEF e
<1>2. j[s] = e /\ (\A k \in Slot : k # s => j[k] = it[k]) /\ j \in [Slot -> TableEntry]  BY <1>1
<1> HIDE DEF j
<1>3. Keeps(it, j)  BY <1>1, <1>2 DEF Keeps
<1> QED BY <1>2, <1>3 DEF e, j

\* An inode that is written has an entry.
Touched(i) == \E s \in Slot : itable'[s].ref >= 1 /\ itable'[s].inum = i /\ itable'[s].valid
Traced == \A i \in Inum : dinode'[i] = dinode[i] \/ Touched(i)

LEMMA TracedOK ==
  ASSUME dinode \in [Inum -> Dinode], NEW it, NEW ss, ss \subseteq Slot, iupdate(it, ss),
         \A s \in ss : it[s].ref >= 1 /\ it[s].valid, Keeps(it, itable')
  PROVE  Traced
<1> SUFFICES ASSUME NEW i \in Inum, dinode'[i] # dinode[i] PROVE Touched(i)  BY DEF Traced
<1>1. \E s \in ss : it[s].inum = i  BY DEF iupdate
<1>2. PICK s \in ss : it[s].inum = i  BY <1>1
<1>3. s \in Slot /\ itable'[s].ref >= 1 /\ itable'[s].inum = i /\ itable'[s].valid  BY <1>2 DEF Keeps
<1> QED BY <1>3 DEF Touched

\* The step is p's own, and what others do is as it was.
Others(p) ==
  \A q \in Procs : q # p =>
    /\ pc'[q] = pc[q] /\ puts'[q] = puts[q] /\ after'[q] = after[q] /\ call'[q] = call[q]
    /\ path'[q] = path[q] /\ ip'[q] = ip[q] /\ dp'[q] = dp[q] /\ name'[q] = name[q]
    /\ old'[q] = old[q] /\ cwd'[q] = cwd[q] /\ fd'[q] = fd[q]

\* p's own variables: where it is, those of its call, and its file.
GoOthers(p) ==
  \A q \in Procs : q # p => pc'[q] = pc[q] /\ puts'[q] = puts[q] /\ after'[q] = after[q]
LocalOthers(p) ==
  \A q \in Procs : q # p => /\ call'[q] = call[q] /\ path'[q] = path[q] /\ ip'[q] = ip[q]
                            /\ dp'[q] = dp[q] /\ name'[q] = name[q] /\ old'[q] = old[q]

LEMMA GoAway ==
  ASSUME LocalTypes, NEW p \in Procs
  PROVE  /\ \A l : Go(p, l) => GoOthers(p)
         /\ \A ss, l : Put(p, ss, l) => GoOthers(p)
         /\ Rest(p) => GoOthers(p)
         /\ Locals(p) => LocalOthers(p)
         /\ UNCHANGED localVars => LocalOthers(p)
         /\ \A ss : Done(p, ss) => GoOthers(p) /\ LocalOthers(p)
         /\ \A ss : Fails(p, ss) => GoOthers(p) /\ LocalOthers(p)
<1>1. \A l : Go(p, l) => GoOthers(p)  BY DEF LocalTypes, Go, GoOthers
<1>2. \A ss, l : Put(p, ss, l) => GoOthers(p)  BY DEF LocalTypes, Put, GoOthers
<1>3. Rest(p) => GoOthers(p)  BY DEF LocalTypes, Rest, GoOthers
<1>4. Locals(p) => LocalOthers(p)  BY DEF LocalTypes, Locals, LocalOthers
<1>5. UNCHANGED localVars => LocalOthers(p)  BY DEF localVars, LocalOthers
<1>6. \A ss : Done(p, ss) => GoOthers(p) /\ LocalOthers(p)  BY <1>1, <1>2, <1>4 DEF Done
<1>7. ASSUME NEW ss, Fails(p, ss) PROVE GoOthers(p) /\ LocalOthers(p)
  <2>1. CASE Second(p)
    <3>1. GoOthers(p)  BY <1>2, <1>7, <2>1 DEF Fails
    <3>2. LocalOthers(p)  BY <1>7, <2>1 DEF Fails, LocalOthers, LocalTypes
    <3> QED BY <3>1, <3>2
  <2>2. CASE ~Second(p)  BY <1>6, <1>7, <2>2 DEF Fails
  <2> QED BY <2>1, <2>2
<1> QED BY <1>1, <1>2, <1>3, <1>4, <1>5, <1>6, <1>7

LEMMA BeginOthers ==
  ASSUME TableInv, NEW p \in Procs, NEW c \in Calls, Begin(p, c)
  PROVE  Others(p)
<1>1. LocalTypes  BY TableFacts
<1>2. cwd' = cwd  BY DEF Begin
<1>3. CASE c.k = "close"
  <2>1. Done(p, <<fd[p].ip>>) /\ fd' = [fd EXCEPT ![p] = None]  BY <1>3 DEF Begin
  <2>2. GoOthers(p) /\ LocalOthers(p)  BY <1>1, <2>1, GoAway
  <2> QED BY <1>1, <1>2, <2>1, <2>2 DEF Others, GoOthers, LocalOthers, LocalTypes
<1>4. CASE c.k \in {"read", "write"}
  <2>1. /\ Go(p, c.k) /\ call' = [call EXCEPT ![p] = c] /\ UNCHANGED <<path, ip, dp, name, old, fd>>
    BY <1>4 DEF Begin
  <2>2. GoOthers(p)  BY <1>1, <2>1, GoAway
  <2> QED BY <1>1, <1>2, <2>1, <2>2 DEF Others, GoOthers, LocalTypes
<1>5. CASE c.k \notin {"close", "read", "write"}
  <2>1. /\ Go(p, "walk") /\ call' = [call EXCEPT ![p] = c] /\ ip' = [ip EXCEPT ![p] = Root(p, itable, c.path).s]
        /\ path' = [path EXCEPT ![p] = c.path.names] /\ UNCHANGED <<dp, name, old, fd>>
    BY <1>5 DEF Begin
  <2>2. GoOthers(p)  BY <1>1, <2>1, GoAway
  <2> QED BY <1>1, <1>2, <2>1, <2>2 DEF Others, GoOthers, LocalTypes
<1> QED BY <1>3, <1>4, <1>5

LEMMA OthersOf ==
  ASSUME NEW p \in Procs, GoOthers(p), LocalOthers(p), UNCHANGED <<cwd, fd>>
  PROVE  Others(p)
BY DEF Others, GoOthers, LocalOthers

LEMMA IputOthers == ASSUME TableInv, NEW p \in Procs, iput(p) PROVE Others(p)
<1>1. LocalTypes  BY TableFacts
<1>2. UNCHANGED <<cwd, fd, localVars>>  BY DEF iput, PutRef, PutLast, PutFree, PutUnref
<1>3. GoOthers(p)
  <2>1. CASE Rest(p)  BY <1>1, <2>1, GoAway
  <2>2. CASE PutLast(p)  BY <1>1, <2>2 DEF PutLast, GoOthers, LocalTypes
  <2>3. CASE PutFree(p)  BY <1>1, <2>3 DEF PutFree, GoOthers, LocalTypes
  <2> QED BY <2>1, <2>2, <2>3 DEF iput, PutRef, PutUnref
<1>4. LocalOthers(p)  BY <1>1, <1>2, GoAway
<1> QED BY <1>2, <1>3, <1>4, OthersOf

LEMMA NamexOthers == ASSUME TableInv, NEW p \in Procs, namex(p) PROVE Others(p)
<1>1. LocalTypes  BY TableFacts
<1>2. UNCHANGED <<cwd, fd>>  BY DEF namex, Walk, WalkEnd
<1>3. CASE Walk(p)
  <2> DEFINE g == iget([itable EXCEPT ![ip[p]] = Loaded(ip[p])],
                       dirlookup(dirent[Loaded(ip[p]).inum], Head(path[p])))
  <2>1. \/ Fails(p, <<ip[p]>>)
        \/ /\ dp' = [dp EXCEPT ![p] = ip[p]]
           /\ name' = [name EXCEPT ![p] = Head(path[p])]
           /\ ip' = [ip EXCEPT ![p] = None]
           /\ path' = [path EXCEPT ![p] = <<>>]
           /\ Go(p, Resolved(p))
           /\ UNCHANGED <<call, old>>
        \/ /\ ip' = [ip EXCEPT ![p] = g.s]
           /\ path' = [path EXCEPT ![p] = Tail(path[p])]
           /\ Put(p, <<ip[p]>>, "walk")
           /\ UNCHANGED <<call, dp, name, old>>
    BY <1>3 DEF Walk
  <2> HIDE DEF g
  <2>2. GoOthers(p)  BY <1>1, <2>1, GoAway
  <2>3. LocalOthers(p)
    <3>1. CASE Fails(p, <<ip[p]>>)  BY <1>1, <3>1, GoAway
    <3> QED BY <1>1, <2>1, <3>1 DEF LocalOthers, LocalTypes
  <2> QED BY <1>2, <2>2, <2>3, OthersOf
<1>4. CASE WalkEnd(p)
  <2>1. \/ Fails(p, <<ip[p]>>)
        \/ Go(p, Resolved(p)) /\ UNCHANGED localVars
    BY <1>4 DEF WalkEnd
  <2>2. GoOthers(p) /\ LocalOthers(p)  BY <1>1, <2>1, GoAway
  <2> QED BY <1>2, <2>2, OthersOf
<1> QED BY <1>3, <1>4 DEF namex

LEMMA CreateOthers == ASSUME TableInv, NEW p \in Procs, create(p) PROVE Others(p)
<1>1. LocalTypes  BY TableFacts
<1>2. UNCHANGED <<cwd, fd>>
  BY DEF create, CreateLookup, CreateExisting, CreateAlloc, CreateMade, CreateFails
<1>3. CASE CreateLookup(p)
  <2> DEFINE g == iget([itable EXCEPT ![dp[p]] = ilock(p, dp[p])],
                       dirlookup(dirent[[itable EXCEPT ![dp[p]] = ilock(p, dp[p])][dp[p]].inum], name[p]))
  <2>1. /\ ip' = [ip EXCEPT ![p] = g.s] /\ dp' = [dp EXCEPT ![p] = None]
        /\ Put(p, <<dp[p]>>, "existing") /\ UNCHANGED <<call, path, name, old>>
    BY <1>3 DEF CreateLookup
  <2> HIDE DEF g
  <2>2. GoOthers(p)  BY <1>1, <2>1, GoAway
  <2>3. LocalOthers(p)  BY <1>1, <2>1 DEF LocalOthers, LocalTypes
  <2> QED BY <1>2, <2>2, <2>3, OthersOf
<1>4. CASE CreateExisting(p)
  <2>1. (Go(p, "opened") /\ UNCHANGED localVars) \/ Done(p, <<ip[p]>>)  BY <1>4 DEF CreateExisting
  <2>2. GoOthers(p) /\ LocalOthers(p)  BY <1>1, <2>1, GoAway
  <2> QED BY <1>2, <2>2, OthersOf
<1>5. CASE CreateAlloc(p)
  <2> DEFINE g == iget([itable EXCEPT ![dp[p]] = ilock(p, dp[p])],
                       Lowest({i \in Inum : dinode[i].type = "none"}))
  <2>1. \/ Done(p, <<dp[p]>>)
        \/ ip' = [ip EXCEPT ![p] = g.s] /\ Go(p, "create2") /\ UNCHANGED <<call, path, dp, name, old>>
    BY <1>5 DEF CreateAlloc
  <2> HIDE DEF g
  <2>2. GoOthers(p)  BY <1>1, <2>1, GoAway
  <2>3. LocalOthers(p)
    <3>1. CASE Done(p, <<dp[p]>>)  BY <1>1, <3>1, GoAway
    <3> QED BY <1>1, <2>1, <3>1 DEF LocalOthers, LocalTypes
  <2> QED BY <1>2, <2>2, <2>3, OthersOf
<1>6. CASE CreateMade(p)
  <2>1. \/ Done(p, <<dp[p], ip[p]>>)
        \/ dp' = [dp EXCEPT ![p] = None] /\ Put(p, <<dp[p]>>, "opened") /\ UNCHANGED <<call, path, ip, name, old>>
    BY <1>6 DEF CreateMade
  <2>2. GoOthers(p)  BY <1>1, <2>1, GoAway
  <2>3. LocalOthers(p)
    <3>1. CASE Done(p, <<dp[p], ip[p]>>)  BY <1>1, <3>1, GoAway
    <3> QED BY <1>1, <2>1, <3>1 DEF LocalOthers, LocalTypes
  <2> QED BY <1>2, <2>2, <2>3, OthersOf
<1>7. CASE CreateFails(p)
  <2>1. Done(p, <<ip[p], dp[p]>>)  BY <1>7 DEF CreateFails
  <2>2. GoOthers(p) /\ LocalOthers(p)  BY <1>1, <2>1, GoAway
  <2> QED BY <1>2, <2>2, OthersOf
<1> QED BY <1>3, <1>4, <1>5, <1>6, <1>7 DEF create

LEMMA FileOthers ==
  ASSUME TableInv, NEW p \in Procs, sys_open(p) \/ filewrite(p) \/ fileread(p) \/ sys_chdir(p)
  PROVE  Others(p)
<1>1. LocalTypes  BY TableFacts
<1>2. GoOthers(p) /\ LocalOthers(p)
  <2>1. \/ Go(p, "opened") /\ UNCHANGED localVars
        \/ \E ss : Done(p, ss)
    BY DEF sys_open, OpenLock, Opened, filewrite, fileread, sys_chdir
  <2> QED BY <1>1, <2>1, GoAway
<1>3. \A q \in Procs : q # p => cwd'[q] = cwd[q]
  BY <1>1 DEF sys_open, OpenLock, Opened, filewrite, fileread, sys_chdir, LocalTypes
<1>4. \A q \in Procs : q # p => fd'[q] = fd[q]
  <2>1. CASE fd' = fd  BY <2>1
  <2>2. CASE Opened(p)  BY <1>1, <2>2 DEF Opened, LocalTypes
  <2>3. CASE filewrite(p)
    <3>1. \E w : fd' = [fd EXCEPT ![p].off = IF w.ok THEN @ + 1 ELSE @]  BY <2>3 DEF filewrite
    <3> QED BY <1>1, <3>1 DEF LocalTypes
  <2>4. CASE fileread(p)  BY <1>1, <2>4 DEF fileread, LocalTypes
  <2> QED BY <2>1, <2>2, <2>3, <2>4 DEF sys_open, OpenLock, sys_chdir
<1> QED BY <1>2, <1>3, <1>4 DEF Others, GoOthers, LocalOthers

LEMMA LinksOthers ==
  ASSUME TableInv, NEW p \in Procs, sys_unlink(p) \/ sys_link(p)
  PROVE  Others(p)
<1>1. LocalTypes  BY TableFacts
<1>2. UNCHANGED <<cwd, fd>>
  BY DEF sys_unlink, UnlinkLookup, UnlinkEntry, UnlinkInode, sys_link, LinkCount, LinkEntry, LinkBad
<1>3. CASE \E ss : Done(p, ss) \/ Fails(p, ss)
  <2>1. GoOthers(p) /\ LocalOthers(p)  BY <1>1, <1>3, GoAway
  <2> QED BY <1>2, <2>1, OthersOf
<1>4. CASE UnlinkLookup(p)
  <2>1. \/ Done(p, <<dp[p]>>)
        \/ (\E s : ip' = [ip EXCEPT ![p] = s]) /\ Go(p, "unlink2") /\ UNCHANGED <<call, path, dp, name, old>>
    BY <1>4 DEF UnlinkLookup
  <2>2. CASE Done(p, <<dp[p]>>)  BY <1>3, <2>2
  <2>3. CASE (\E s : ip' = [ip EXCEPT ![p] = s]) /\ Go(p, "unlink2") /\ UNCHANGED <<call, path, dp, name, old>>
    <3>1. GoOthers(p)  BY <1>1, <2>3, GoAway
    <3>2. LocalOthers(p)  BY <1>1, <2>3 DEF LocalOthers, LocalTypes
    <3> QED BY <1>2, <3>1, <3>2, OthersOf
  <2> QED BY <2>1, <2>2, <2>3
<1>5. CASE UnlinkEntry(p)
  <2>1. \/ Done(p, <<ip[p], dp[p]>>)
        \/ dp' = [dp EXCEPT ![p] = None] /\ Put(p, <<dp[p]>>, "unlink3") /\ UNCHANGED <<call, path, ip, name, old>>
    BY <1>5 DEF UnlinkEntry
  <2>2. CASE Done(p, <<ip[p], dp[p]>>)  BY <1>3, <2>2
  <2>3. CASE dp' = [dp EXCEPT ![p] = None] /\ Put(p, <<dp[p]>>, "unlink3") /\ UNCHANGED <<call, path, ip, name, old>>
    <3>1. GoOthers(p)  BY <1>1, <2>3, GoAway
    <3>2. LocalOthers(p)  BY <1>1, <2>3 DEF LocalOthers, LocalTypes
    <3> QED BY <1>2, <3>1, <3>2, OthersOf
  <2> QED BY <2>1, <2>2, <2>3
<1>6. CASE LinkCount(p)
  <2>1. \/ Done(p, <<ip[p]>>)
        \/ /\ old' = [old EXCEPT ![p] = ip[p]] /\ (\E s : ip' = [ip EXCEPT ![p] = s])
           /\ path' = [path EXCEPT ![p] = call[p].new.names] /\ Go(p, "walk") /\ UNCHANGED <<call, dp, name>>
    BY <1>6 DEF LinkCount
  <2>2. CASE Done(p, <<ip[p]>>)  BY <1>3, <2>2
  <2>3. CASE /\ old' = [old EXCEPT ![p] = ip[p]] /\ (\E s : ip' = [ip EXCEPT ![p] = s])
             /\ path' = [path EXCEPT ![p] = call[p].new.names] /\ Go(p, "walk") /\ UNCHANGED <<call, dp, name>>
    <3>1. GoOthers(p)  BY <1>1, <2>3, GoAway
    <3>2. LocalOthers(p)  BY <1>1, <2>3 DEF LocalOthers, LocalTypes
    <3> QED BY <1>2, <3>1, <3>2, OthersOf
  <2> QED BY <2>1, <2>2, <2>3
<1>7. CASE UnlinkInode(p) \/ LinkBad(p)  BY <1>3, <1>7 DEF UnlinkInode, LinkBad
<1>8. CASE LinkEntry(p)
  <2>1. \E l : IF l.ok THEN Done(p, <<dp[p], old[p]>>) ELSE Fails(p, <<dp[p]>>)  BY <1>8 DEF LinkEntry
  <2> QED BY <1>3, <2>1
<1> QED BY <1>4, <1>5, <1>6, <1>7, <1>8 DEF sys_unlink, sys_link

\* Only p's variables are changed by a step of p.
LEMMA StepOthers ==
  ASSUME TableInv, NEW p \in Procs, Step(p) \/ \E c \in Calls : Begin(p, c)
  PROVE  Others(p)
BY BeginOthers, IputOthers, NamexOthers, CreateOthers, FileOthers, LinksOthers DEF Step

Gone(i) == dinode[i].type # "none" /\ dinode[i].nlink = 0
Minded(s) == itable[s].ref >= 1 /\ (itable[s].valid \/ \E p \in Procs : pc[p] = "create2" /\ ip[p] = s)
GoneInv == \A i \in Inum : Gone(i) => i \in lost \/ \E s \in Slot : Minded(s) /\ itable[s].inum = i

Lockers == {"walk", "open", "existing", "create", "create2", "unlink", "unlink2", "link", "link2", "linkbad",
            "chdir", "write", "read"}

\* The entry that a process is about to lock is in use.
LEMMA LocksUsed ==
  ASSUME TableInv, NEW p \in Procs, pc[p] \in Lockers
  PROVE  Locks(p) \in Slot /\ itable[Locks(p)].ref >= 1 /\ pc[p] \notin Putting
<1>1. pc[p] \notin Putting /\ LocalTypes /\ Counted  BY TableFacts DEF Lockers, Putting
<1>2. LocalsAt(pc[p], call[p], ip[p], dp[p], old[p], fd[p])  BY <1>1, AtPlace
<1>3. CASE pc[p] \in {"walk", "open", "existing", "create2", "unlink2", "chdir", "link"}
  <2>1. Locks(p) = ip[p] /\ ip[p] \in Slot  BY <1>2, <1>3, LocalFacts DEF Locks, LocalsAt, Walked
  <2> QED BY <1>1, <2>1, UsedBy
<1>4. CASE pc[p] \in {"create", "unlink", "link2"}
  <2>1. Locks(p) = dp[p] /\ dp[p] \in Slot  BY <1>2, <1>4, LocalFacts DEF Locks, LocalsAt, Parented
  <2> QED BY <1>1, <2>1, UsedBy
<1>5. CASE pc[p] = "linkbad"
  <2>1. Locks(p) = old[p] /\ old[p] \in Slot  BY <1>2, <1>5, LocalFacts DEF Locks, LocalsAt
  <2> QED BY <1>1, <2>1, UsedBy
<1>6. CASE pc[p] \in {"write", "read"}
  <2>1. Locks(p) = fd[p].ip /\ fd[p] # None /\ fd[p].ip \in Slot
    BY <1>2, <1>6, LocalFacts DEF Locks, LocalsAt
  <2> QED BY <1>1, <2>1, UsedBy
<1> QED BY <1>3, <1>4, <1>5, <1>6 DEF Lockers

\* What iget() adds to a table with an entry taken.
LEMMA KeepsGot ==
  ASSUME TableInv, NEW p \in Procs, NEW s \in Slot, itable[s].ref >= 1, CanLock(s), NEW l \in {p, None},
         NEW i \in Inum
  PROVE  LET g == iget(Taken(s, l), i)
         IN  /\ Keeps(itable, g.it) /\ g.it \in [Slot -> TableEntry]
             /\ g.s \in Slot /\ g.it[g.s].ref >= 1 /\ g.it[g.s].inum = i
<1> DEFINE g == iget(Taken(s, l), i)
           t == g.s
           j == g.it
           a == Taken(s, l)
<1>1. Keeps(itable, a) /\ a \in [Slot -> TableEntry]  BY KeepsTaken
<1>2. t \in Slot /\ TableOK(j, dinode) /\ Bumped(a, j, t) /\ j[t].inum = i  BY GetOK
<1> HIDE DEF a, j, t
<1>3. Keeps(a, j) /\ j[t].ref >= 1  BY <1>1, <1>2, KeepsBumped
<1>4. Keeps(itable, j) /\ j \in [Slot -> TableEntry]  BY <1>1, <1>2, <1>3, KeepsTwice DEF TableOK
<1> QED BY <1>2, <1>3, <1>4 DEF j, t

LEMMA LockTable ==
  ASSUME TableInv, NEW p \in Procs, pc[p] \in Lockers, NEW s, s = Locks(p), CanLock(s)
  PROVE  /\ s \in Slot /\ itable[s].ref >= 1
         /\ [itable EXCEPT ![s] = ilock(p, s)] = Taken(s, p)
         /\ [itable EXCEPT ![s] = iunlock(ilock(p, s))] = Taken(s, None)
         /\ [itable EXCEPT ![s] = Loaded(s)] = Taken(s, None)
         /\ [[itable EXCEPT ![s] = ilock(p, s)] EXCEPT ![s] = iunlock(@)] = Taken(s, None)
         /\ Keeps(itable, Taken(s, p)) /\ Keeps(itable, Taken(s, None))
         /\ \A l \in {p, None} : Taken(s, l) \in [Slot -> TableEntry] /\ Taken(s, l)[s].inum = itable[s].inum
         /\ itable[s].inum \in Inum /\ ilock(p, s).inum = itable[s].inum /\ Loaded(s).inum = itable[s].inum
<1>1. s \in Slot /\ itable[s].ref >= 1  BY LocksUsed
<1>2. \A l \in {p, None} : Keeps(itable, Taken(s, l)) /\ Taken(s, l) \in [Slot -> TableEntry]
  BY <1>1, KeepsTaken
<1>3. \A l \in {p, None} : Taken(s, l)[s].inum = itable[s].inum  BY <1>1, <1>2 DEF Keeps
<1>4. itable[s].inum \in Inum /\ Loaded(s).inum = itable[s].inum /\ ilock(p, s).inum = itable[s].inum
  <2>1. /\ itable[s].inum \in Inum /\ Loaded(s) = Take(s, None) /\ Take(s, None) \in TableEntry
        /\ Loaded(s).inum = itable[s].inum
    BY <1>1, TakeOK
  <2>2. ilock(p, s) = Take(s, p)  BY <2>1, TakeLocks
  <2>3. Take(s, p).inum = itable[s].inum
    <3>1. p \in Procs \cup {None}  OBVIOUS
    <3> QED BY <1>1, <3>1, TakeOK
  <2> QED BY <2>1, <2>2, <2>3
<1>5. /\ [itable EXCEPT ![s] = ilock(p, s)] = Taken(s, p)
      /\ [itable EXCEPT ![s] = iunlock(ilock(p, s))] = Taken(s, None)
      /\ [itable EXCEPT ![s] = Loaded(s)] = Taken(s, None)
      /\ [[itable EXCEPT ![s] = ilock(p, s)] EXCEPT ![s] = iunlock(@)] = Taken(s, None)
  BY <1>1, LockedOK
<1> QED BY <1>1, <1>2, <1>3, <1>4, <1>5

\* The inode that is looked up in an entry's directory is one of the disk.
LEMMA LookedUp ==
  ASSUME TableInv, NEW i \in Inum, NEW n
  PROVE  dirlookup(dirent[i], n) \in Inum \cup {None}
<1>1. dirent[i] \in Seq(DirEntry)  BY TableFacts DEF DiskTypes
<1> QED BY <1>1, DirlookupOK

LEMMA WalkKeeps == ASSUME TableInv, NEW p \in Procs, Walk(p) PROVE Keeps(itable, itable')
<1> DEFINE s == ip[p]
           it == [itable EXCEPT ![s] = Loaded(s)]
           m == dirlookup(dirent[Loaded(s).inum], Head(path[p]))
           g == iget(it, m)
<1>1. pc[p] = "walk" /\ CanLock(s)  BY DEF Walk
<1>2. pc[p] \in Lockers /\ s = Locks(p)  BY <1>1 DEF Lockers, Locks
<1>3. /\ s \in Slot /\ itable[s].ref >= 1 /\ it = Taken(s, None) /\ Keeps(itable, Taken(s, None))
      /\ itable[s].inum \in Inum /\ Loaded(s).inum = itable[s].inum
  BY <1>1, <1>2, LockTable
<1>4. m \in Inum \cup {None}  BY <1>3, LookedUp
<1>5. itable' = it \/ (itable' = g.it /\ m # None)
  <2>1. CASE Loaded(s).ino.type # "dir" \/ (~(Parent(p) /\ Tail(path[p]) = <<>>) /\ m = None)
    BY <2>1 DEF Walk
  <2>2. CASE Parent(p) /\ Tail(path[p]) = <<>>  BY <2>2 DEF Walk
  <2>3. CASE /\ ~(Loaded(s).ino.type # "dir" \/ (~(Parent(p) /\ Tail(path[p]) = <<>>) /\ m = None))
             /\ ~(Parent(p) /\ Tail(path[p]) = <<>>)
    BY <2>3 DEF Walk
  <2> QED BY <2>1, <2>2, <2>3
<1>6. m # None => Keeps(itable, iget(Taken(s, None), m).it)
  <2> HIDE DEF m
  <2> QED BY <1>1, <1>3, <1>4, KeepsGot
<1> QED BY <1>3, <1>5, <1>6

LEMMA CreateLookupKeeps == ASSUME TableInv, NEW p \in Procs, CreateLookup(p) PROVE Keeps(itable, itable')
<1> DEFINE s == dp[p]
           it == [itable EXCEPT ![s] = ilock(p, s)]
           m == dirlookup(dirent[it[s].inum], name[p])
           g == iget(it, m)
<1>1. pc[p] = "create" /\ CanLock(s) /\ m # None /\ itable' = [g.it EXCEPT ![s] = iunlock(g.it[s])]
  BY DEF CreateLookup
<1>2. pc[p] \in Lockers /\ s = Locks(p)  BY <1>1 DEF Lockers, Locks
<1>3. /\ s \in Slot /\ itable[s].ref >= 1 /\ it = Taken(s, p) /\ Keeps(itable, Taken(s, p))
      /\ itable[s].inum \in Inum /\ Taken(s, p)[s].inum = itable[s].inum
  BY <1>1, <1>2, LockTable
<1>4. m \in Inum  BY <1>1, <1>3, LookedUp
<1> HIDE DEF m
<1>5. Keeps(itable, g.it) /\ g.it \in [Slot -> TableEntry]  BY <1>1, <1>3, <1>4, KeepsGot
<1> DEFINE j == g.it
<1> HIDE DEF j
<1>6. Keeps(j, [j EXCEPT ![s] = iunlock(j[s])])  BY <1>3, <1>5, KeepsUnlocked DEF j
<1>7. Keeps(itable, itable')  BY <1>1, <1>5, <1>6, KeepsTwice DEF j
<1> QED BY <1>7

LEMMA UnlinkLookupKeeps == ASSUME TableInv, NEW p \in Procs, UnlinkLookup(p) PROVE Keeps(itable, itable')
<1> DEFINE s == dp[p]
           it == [itable EXCEPT ![s] = ilock(p, s)]
           m == dirlookup(dirent[it[s].inum], name[p])
           g == iget(it, m)
<1>1. /\ pc[p] = "unlink" /\ CanLock(s)
      /\ itable' = [it EXCEPT ![s] = iunlock(@)] \/ (m # None /\ itable' = g.it)
  BY DEF UnlinkLookup
<1>2. pc[p] \in Lockers /\ s = Locks(p)  BY <1>1 DEF Lockers, Locks
<1>3. /\ s \in Slot /\ itable[s].ref >= 1 /\ it = Taken(s, p) /\ Keeps(itable, Taken(s, None))
      /\ itable[s].inum \in Inum /\ Taken(s, p)[s].inum = itable[s].inum
      /\ [it EXCEPT ![s] = iunlock(@)] = Taken(s, None)
  BY <1>1, <1>2, LockTable
<1>4. m \in Inum \cup {None}  BY <1>3, LookedUp
<1>5. m # None => Keeps(itable, iget(Taken(s, p), m).it)
  <2> HIDE DEF m
  <2> QED BY <1>1, <1>3, <1>4, KeepsGot
<1> QED BY <1>1, <1>3, <1>5

LEMMA LookKeeps ==
  ASSUME TableInv, NEW p \in Procs, CreateExisting(p) \/ OpenLock(p) \/ fileread(p) \/ sys_chdir(p)
  PROVE  Keeps(itable, itable')
<1> DEFINE s == Locks(p)
<1>1. /\ pc[p] \in Lockers /\ CanLock(s)
      /\ \/ itable' = [itable EXCEPT ![s] = ilock(p, s)]
         \/ itable' = [itable EXCEPT ![s] = iunlock(ilock(p, s))]
         \/ itable' = [itable EXCEPT ![s] = Loaded(s)]
  BY DEF CreateExisting, OpenLock, fileread, sys_chdir, Locks, Lockers
<1>2. Keeps(itable, Taken(s, p)) /\ Keeps(itable, Taken(s, None))
      /\ [itable EXCEPT ![s] = ilock(p, s)] = Taken(s, p)
      /\ [itable EXCEPT ![s] = iunlock(ilock(p, s))] = Taken(s, None)
      /\ [itable EXCEPT ![s] = Loaded(s)] = Taken(s, None)
  BY <1>1, LockTable
<1> QED BY <1>1, <1>2

LEMMA KeepsSame == Keeps(itable, itable)
BY DEF Keeps

LEMMA BeginKeeps == ASSUME TableInv, NEW p \in Procs, NEW c \in Calls, Begin(p, c) PROVE Keeps(itable, itable')
<1>1. itable' = itable \/ itable' = Root(p, itable, c.path).it  BY DEF Begin
<1>2. cwd[p] \in Slot /\ itable[cwd[p]].ref >= 1 /\ itable[cwd[p]].ref \in Nat
  <2>1. cwd[p] \in Slot /\ LocalTypes /\ Counted  BY LocalFacts, TableFacts
  <2> QED BY <2>1, UsedBy
<1>3. TableOK(itable, dinode) /\ itable \in [Slot -> TableEntry]  BY TableFacts
<1>4. itable[cwd[p]].ref > 0  BY <1>2
<1> DEFINE r == Root(p, itable, c.path)
           w == c.path
           j == r.it
           t == r.s
<1>5. Bumped(itable, j, t)
  <2> HIDE DEF w
  <2> QED BY <1>2, <1>3, <1>4, RootOK
<1> HIDE DEF j, t
<1>6. Keeps(itable, j)  BY <1>3, <1>5, KeepsBumped
<1> QED BY <1>1, <1>6, KeepsSame DEF j

\* What is done to the copy or the lock of an entry leaves it what it is an entry of.
SameEntry(e, f) == f.ref = e.ref /\ f.inum = e.inum /\ f.valid = e.valid

LEMMA SameEntryOK ==
  ASSUME NEW e \in TableEntry
  PROVE  /\ \A x : SameEntry(e, [e EXCEPT !.ino = x])
         /\ \A n : SameEntry(e, relink(e, n))
         /\ \A n : SameEntry(e, iunlock(relink(e, n)))
         /\ \A x, n : SameEntry(e, relink([e EXCEPT !.ino = x], n))
         /\ SameEntry(e, iunlock(e))
         /\ \A x : SameEntry(e, iunlock([e EXCEPT !.ino = x]))
BY DEF SameEntry, TableEntry, relink, iunlock

LEMMA KeepsChange ==
  ASSUME NEW it \in [Slot -> TableEntry], NEW s \in Slot, NEW e, SameEntry(it[s], e)
  PROVE  Keeps(it, [it EXCEPT ![s] = e])
<1> DEFINE j == [it EXCEPT ![s] = e]
<1>1. j[s] = e /\ \A k \in Slot : k # s => j[k] = it[k]  OBVIOUS
<1> HIDE DEF j
<1>2. Keeps(it, j)  BY <1>1 DEF Keeps, SameEntry
<1> QED BY <1>2 DEF j

\* An entry whose inode is not locked is read and changed.
LEMMA KeepsWritten ==
  ASSUME TableInv, NEW p \in Procs, NEW s \in Slot, itable[s].ref >= 1, CanLock(s), NEW e,
         SameEntry(Loaded(s), e)
  PROVE  Keeps(itable, [itable EXCEPT ![s] = e]) /\ e.ref >= 1 /\ e.valid /\ e.inum = itable[s].inum
<1>1. /\ Loaded(s) = Take(s, None) /\ Take(s, None).ref = itable[s].ref
      /\ Take(s, None).inum = itable[s].inum /\ Take(s, None).valid = TRUE
  <2>1. None \in Procs \cup {None}  OBVIOUS
  <2> QED BY <2>1, TakeOK
<1>2. e.ref = itable[s].ref /\ e.inum = itable[s].inum /\ e.valid  BY <1>1 DEF SameEntry
<1>3. itable \in [Slot -> TableEntry]  BY TableFacts
<1>4. Keeps(itable, [itable EXCEPT ![s] = e])  BY <1>2, <1>3, KeepsEntry
<1> QED BY <1>2, <1>4

LEMMA LoadedType ==
  ASSUME TableInv, NEW s \in Slot, itable[s].ref >= 1, CanLock(s)
  PROVE  Loaded(s) \in TableEntry
<1>1. None \in Procs \cup {None}  OBVIOUS
<1> QED BY <1>1, TakeOK

\* The table and the disk after a step, as far as inodes without links go.
Follow(p) ==
  /\ Keeps(itable, itable')
  /\ \A i \in Inum : dinode'[i] = dinode[i] \/ \E s \in Slot : Minded(s)' /\ itable'[s].inum = i
  /\ pc[p] = "create2" => itable'[ip[p]].valid

LEMMA TracedFollow ==
  ASSUME NEW p, Keeps(itable, itable'), Traced, pc[p] = "create2" => itable'[ip[p]].valid
  PROVE  Follow(p)
BY DEF Follow, Traced, Touched, Minded

LEMMA SameDisk == ASSUME dinode' = dinode PROVE Traced
BY DEF Traced

LEMMA WrittenFollow ==
  ASSUME TableInv, NEW p \in Procs, NEW s \in Slot, itable[s].ref >= 1, CanLock(s), NEW e,
         SameEntry(Loaded(s), e), itable' = [itable EXCEPT ![s] = e], iupdate(itable', {s}),
         pc[p] # "create2"
  PROVE  Follow(p)
<1>1. Keeps(itable, itable') /\ e.ref >= 1 /\ e.valid  BY KeepsWritten
<1>2. itable'[s] = e
  <2>1. itable \in [Slot -> TableEntry]  BY TableFacts
  <2> QED BY <2>1
<1>3. dinode \in [Inum -> Dinode]  BY TableFacts DEF DiskTypes
<1> DEFINE j == itable'
           ss == {s}
<1>4. iupdate(j, ss)  OBVIOUS
<1>5. ss \subseteq Slot /\ \A k \in ss : j[k].ref >= 1 /\ j[k].valid  BY <1>1, <1>2
<1>6. Keeps(j, itable')  BY DEF Keeps
<1> HIDE DEF j, ss
<1>7. Traced  BY <1>3, <1>4, <1>5, <1>6, TracedOK
<1> QED BY <1>1, <1>7, TracedFollow

LEMMA FilewriteFollow == ASSUME TableInv, NEW p \in Procs, filewrite(p) PROVE Follow(p)
<1> DEFINE s == fd[p].ip
           e(w) == [Loaded(s) EXCEPT !.ino = w.ino]
<1>1. pc[p] = "write" /\ CanLock(s) /\ iupdate(itable', {s})  BY DEF filewrite
<1>2. pc[p] \in Lockers /\ s = Locks(p)  BY <1>1 DEF Lockers, Locks
<1>3. s \in Slot /\ itable[s].ref >= 1  BY <1>2, LocksUsed
<1>4. Loaded(s) \in TableEntry  BY <1>1, <1>3, LoadedType
<1>5. PICK w : itable' = [itable EXCEPT ![s] = e(w)]  BY DEF filewrite
<1>6. SameEntry(Loaded(s), e(w))  BY <1>4, SameEntryOK
<1> DEFINE f == e(w)
<1> HIDE DEF f, s
<1>7. SameEntry(Loaded(s), f) /\ itable' = [itable EXCEPT ![s] = f] /\ pc[p] # "create2"
  BY <1>1, <1>5, <1>6 DEF f, s
<1> QED BY <1>1, <1>3, <1>7, WrittenFollow DEF s

LEMMA LinkEntryFollow == ASSUME TableInv, NEW p \in Procs, LinkEntry(p) PROVE Follow(p)
<1> DEFINE s == dp[p]
           e(w) == [Loaded(s) EXCEPT !.ino = w.ino]
<1>1. pc[p] = "link2" /\ CanLock(s) /\ iupdate(itable', {s})  BY DEF LinkEntry
<1>2. pc[p] \in Lockers /\ s = Locks(p)  BY <1>1 DEF Lockers, Locks
<1>3. s \in Slot /\ itable[s].ref >= 1  BY <1>2, LocksUsed
<1>4. Loaded(s) \in TableEntry  BY <1>1, <1>3, LoadedType
<1>5. PICK w : itable' = [itable EXCEPT ![s] = e(w)]  BY DEF LinkEntry
<1>6. SameEntry(Loaded(s), e(w))  BY <1>4, SameEntryOK
<1> DEFINE f == e(w)
<1> HIDE DEF f, s
<1>7. SameEntry(Loaded(s), f) /\ itable' = [itable EXCEPT ![s] = f] /\ pc[p] # "create2"
  BY <1>1, <1>5, <1>6 DEF f, s
<1> QED BY <1>1, <1>3, <1>7, WrittenFollow DEF s

LEMMA LinkBadFollow == ASSUME TableInv, NEW p \in Procs, LinkBad(p) PROVE Follow(p)
<1> DEFINE s == old[p]
           f == relink(Loaded(s), -1)
<1>1. pc[p] = "linkbad" /\ CanLock(s) /\ iupdate(itable', {s}) /\ itable' = [itable EXCEPT ![s] = f]
  BY DEF LinkBad
<1>2. pc[p] \in Lockers /\ s = Locks(p)  BY <1>1 DEF Lockers, Locks
<1>3. s \in Slot /\ itable[s].ref >= 1  BY <1>2, LocksUsed
<1>4. Loaded(s) \in TableEntry  BY <1>1, <1>3, LoadedType
<1>5. SameEntry(Loaded(s), f) /\ pc[p] # "create2"  BY <1>1, <1>4, SameEntryOK
<1> HIDE DEF f, s
<1> QED BY <1>1, <1>3, <1>5, WrittenFollow

\* The references that a path starts from.
LEMMA RootKeeps ==
  ASSUME TableInv, NEW p \in Procs, NEW it, NEW D, TableOK(it, D), Keeps(itable, it), NEW w
  PROVE  /\ Keeps(itable, Root(p, it, w).it) /\ Bumped(it, Root(p, it, w).it, Root(p, it, w).s)
         /\ Keeps(it, Root(p, it, w).it)
<1>1. cwd[p] \in Slot /\ it[cwd[p]].ref > 0
  <2>1. cwd[p] \in Slot /\ LocalTypes /\ Counted  BY LocalFacts, TableFacts
  <2>2. itable[cwd[p]].ref >= 1  BY <2>1, UsedBy
  <2>3. it[cwd[p]].ref >= 1 /\ it[cwd[p]].ref \in Nat
    <3>1. it \in [Slot -> TableEntry]  BY DEF TableOK
    <3> QED BY <2>1, <2>2, <3>1, EntryTypes DEF Keeps
  <2> QED BY <2>1, <2>3
<1> DEFINE j == Root(p, it, w).it
           t == Root(p, it, w).s
<1>2. Bumped(it, j, t)  BY <1>1, RootOK
<1> HIDE DEF j, t
<1>3. Keeps(it, j)
  <2>1. it \in [Slot -> TableEntry]  BY DEF TableOK
  <2> QED BY <1>2, <2>1, KeepsBumped
<1>4. Keeps(itable, j)  BY <1>3, KeepsTwice
<1> QED BY <1>2, <1>3, <1>4 DEF j, t

\* An entry that p has locked is changed, and written.
LEMMA HeldFollow ==
  ASSUME TableInv, NEW p \in Procs, NEW s \in Slot, s \in Held(p), NEW e,
         SameEntry(itable[s], e), itable' = [itable EXCEPT ![s] = e],
         iupdate(itable', {s}) \/ dinode' = dinode, pc[p] # "create2"
  PROVE  Follow(p)
<1>1. itable[s].valid /\ itable[s].ref >= 1  BY HeldFacts
<1>2. itable \in [Slot -> TableEntry] /\ dinode \in [Inum -> Dinode]  BY TableFacts DEF DiskTypes
<1>3. Keeps(itable, itable')  BY <1>2, KeepsChange
<1>4. itable'[s] = e /\ e.ref >= 1 /\ e.valid  BY <1>1, <1>2 DEF SameEntry
<1>5. CASE iupdate(itable', {s})
  <2> DEFINE j == itable'
             ss == {s}
  <2>1. iupdate(j, ss)  BY <1>5
  <2>2. ss \subseteq Slot /\ \A k \in ss : j[k].ref >= 1 /\ j[k].valid  BY <1>4
  <2>3. Keeps(j, itable')  BY DEF Keeps
  <2> HIDE DEF j, ss
  <2>4. Traced  BY <1>2, <2>1, <2>2, <2>3, TracedOK
  <2> QED BY <1>3, <2>4, TracedFollow
<1>6. CASE dinode' = dinode  BY <1>3, <1>6, SameDisk, TracedFollow
<1> QED BY <1>5, <1>6

LEMMA UnlinkInodeFollow == ASSUME TableInv, NEW p \in Procs, UnlinkInode(p) PROVE Follow(p)
<1> DEFINE s == ip[p]
           e == iunlock(relink(itable[s], -1))
<1>1. pc[p] = "unlink3" /\ itable' = [itable EXCEPT ![s] = e] /\ iupdate(itable', {s})  BY DEF UnlinkInode
<1>2. pc[p] \notin Putting  BY <1>1 DEF Putting
<1>3. LocalsAt("unlink3", call[p], ip[p], dp[p], old[p], fd[p]) /\ Held(p) = {s}
  BY <1>1, <1>2, AtPlace DEF HeldAt
<1>4. s \in Slot  BY <1>3, LocalFacts DEF LocalsAt, Walked
<1>5. s \in Held(p) /\ itable[s] \in TableEntry
  <2>1. itable \in [Slot -> TableEntry]  BY TableFacts
  <2> QED BY <1>3, <1>4, <2>1
<1> DEFINE x == itable[s]
<1> HIDE DEF x
<1>6. SameEntry(x, iunlock(relink(x, -1)))  BY <1>5, SameEntryOK DEF x
<1>7. SameEntry(itable[s], e)  BY <1>6 DEF x
<1> HIDE DEF e, s
<1> QED BY <1>1, <1>4, <1>5, <1>7, HeldFollow

LEMMA OpenedFollow == ASSUME TableInv, NEW p \in Procs, Opened(p) PROVE Follow(p)
<1> DEFINE s == ip[p]
           r == itrunc(itable[s].ino, Space)
           x == itable[s]
<1>1. pc[p] = "opened"  BY DEF Opened
<1>2. pc[p] \notin Putting  BY <1>1 DEF Putting
<1>3. LocalsAt("opened", call[p], ip[p], dp[p], old[p], fd[p]) /\ Held(p) = {s}
  BY <1>1, <1>2, AtPlace DEF HeldAt
<1>4. s \in Slot /\ s \in Held(p)  BY <1>3, LocalFacts DEF LocalsAt, Walked
<1>5. itable[s] \in TableEntry
  <2>1. itable \in [Slot -> TableEntry]  BY TableFacts
  <2> QED BY <1>4, <2>1
<1>6. PICK e \in {iunlock(x), iunlock([x EXCEPT !.ino = r.ino])} :
        itable' = [itable EXCEPT ![s] = e] /\ (iupdate(itable', {s}) \/ dinode' = dinode)
  <2>1. CASE itable' = [itable EXCEPT ![s] = iunlock(@)] /\ UNCHANGED <<diskVars, fd>>
    BY <2>1 DEF diskVars
  <2>2. CASE /\ itable' = [itable EXCEPT ![s] = iunlock(
                  IF call[p].trunc /\ itable[s].ino.type = "file" THEN [@ EXCEPT !.ino = r.ino] ELSE @)]
             /\ iupdate(itable', {s})
    <3>1. CASE call[p].trunc /\ itable[s].ino.type = "file"  BY <2>2, <3>1
    <3>2. CASE ~(call[p].trunc /\ itable[s].ino.type = "file")  BY <2>2, <3>2
    <3> QED BY <3>1, <3>2
  <2> QED BY <2>1, <2>2 DEF Opened
<1> HIDE DEF x
<1>7. SameEntry(x, e)
  <2>1. SameEntry(x, iunlock(x)) /\ SameEntry(x, iunlock([x EXCEPT !.ino = r.ino]))
    BY <1>5, SameEntryOK DEF x
  <2> QED BY <1>6, <2>1
<1>8. SameEntry(itable[s], e)  BY <1>7 DEF x
<1> HIDE DEF s
<1> QED BY <1>1, <1>4, <1>6, <1>8, HeldFollow

\* The table with a link more is a table, and its copies are on the disk.
LEMMA LinkCountFollow == ASSUME TableInv, NEW p \in Procs, LinkCount(p) PROVE Follow(p)
<1> DEFINE s == ip[p]
           e == Loaded(s)
           f == relink(e, 1)
           j == [itable EXCEPT ![s] = f]
           w == call[p].new
           r == Root(p, j, w)
<1>1. pc[p] = "link" /\ CanLock(s) /\ UNCHANGED <<dirent, bitmap, indirect>>  BY DEF LinkCount
<1>2. pc[p] \in Lockers /\ s = Locks(p)  BY <1>1 DEF Lockers, Locks
<1>3. /\ s \in Slot /\ itable[s].ref >= 1 /\ [itable EXCEPT ![s] = e] = Taken(s, None)
      /\ Keeps(itable, Taken(s, None))
  BY <1>1, <1>2, LockTable
<1>4. CASE itable' = [itable EXCEPT ![s] = e] /\ UNCHANGED dinode
  <2>1. Keeps(itable, itable')  BY <1>3, <1>4
  <2> QED BY <1>1, <1>4, <2>1, SameDisk, TracedFollow
<1>5. CASE iupdate(j, {s}) /\ itable' = r.it
  <2>1. Relinks(s, 1, j)  BY <1>1, <1>3, <1>5 DEF Relinks
  <2>2. Loaded(s) \in TableEntry  BY <1>1, <1>3, LoadedType
  <2>3. SameEntry(Loaded(s), f)  BY <2>2, SameEntryOK
  <2>4. j = [itable EXCEPT ![s] = f]  OBVIOUS
  <2> HIDE DEF s, f, e
  <2>5. Keeps(itable, [itable EXCEPT ![s] = f]) /\ f.ref >= 1 /\ f.valid
    BY <1>1, <1>3, <2>3, KeepsWritten
  <2>6. j[s] = f /\ Keeps(itable, j)
    <3>1. itable \in [Slot -> TableEntry]  BY TableFacts
    <3> QED BY <1>3, <2>5, <3>1
  <2> HIDE DEF j
  <2>7. TableOK(j, dinode')
    <3>1. 1 \in Int  OBVIOUS
    <3> QED BY <1>3, <2>1, <3>1, LinksWritten
  <2> DEFINE D == dinode'
  <2> HIDE DEF D, w
  <2>8. Keeps(itable, r.it) /\ Keeps(j, r.it)  BY <2>6, <2>7, RootKeeps DEF D
  <2>9. Keeps(itable, itable') /\ Keeps(j, itable')  BY <1>5, <2>8
  <2> DEFINE ss == {s}
  <2>10. iupdate(j, ss) /\ ss \subseteq Slot /\ \A k \in ss : j[k].ref >= 1 /\ j[k].valid
    BY <1>3, <1>5, <2>5, <2>6
  <2>11. dinode \in [Inum -> Dinode]  BY TableFacts DEF DiskTypes
  <2> HIDE DEF ss
  <2>12. Traced  BY <2>9, <2>10, <2>11, TracedOK
  <2> QED BY <1>1, <2>9, <2>12, TracedFollow
<1> QED BY <1>4, <1>5 DEF LinkCount

\* Two entries are written, one of them a process has locked.
LEMMA PairFollow ==
  ASSUME TableInv, NEW p \in Procs, NEW s \in Slot, NEW d \in Slot, s # d, itable[s].ref >= 1, CanLock(s),
         d \in Held(p), NEW l \in {p, None}, NEW e, SameEntry(itable[d], e),
         itable' = [Taken(s, l) EXCEPT ![d] = e],
         iupdate(itable', {d}) \/ dinode' = dinode, pc[p] # "create2"
  PROVE  Follow(p)
<1> DEFINE T == Taken(s, l)
<1>1. Keeps(itable, T) /\ T \in [Slot -> TableEntry]  BY KeepsTaken
<1>2. \A k \in Slot : k # s => T[k] = itable[k]  BY TakenOK
<1>3. itable[d].valid /\ itable[d].ref >= 1  BY HeldFacts
<1>4. itable' = [T EXCEPT ![d] = e] /\ dinode \in [Inum -> Dinode]  BY TableFacts DEF DiskTypes
<1> HIDE DEF T
<1>5. SameEntry(T[d], e)  BY <1>2
<1>6. Keeps(T, [T EXCEPT ![d] = e])  BY <1>1, <1>5, KeepsChange
<1>7. Keeps(itable, itable')  BY <1>1, <1>4, <1>6, KeepsTwice
<1>8. itable'[d] = e /\ e.ref >= 1 /\ e.valid  BY <1>1, <1>3, <1>4 DEF SameEntry
<1>9. CASE iupdate(itable', {d})
  <2> DEFINE j == itable'
             ss == {d}
  <2>1. iupdate(j, ss)  BY <1>9
  <2>2. ss \subseteq Slot /\ \A k \in ss : j[k].ref >= 1 /\ j[k].valid  BY <1>8
  <2>3. Keeps(j, itable')  BY DEF Keeps
  <2> HIDE DEF j, ss
  <2>4. Traced  BY <1>4, <2>1, <2>2, <2>3, TracedOK
  <2> QED BY <1>7, <2>4, TracedFollow
<1>10. CASE dinode' = dinode  BY <1>7, <1>10, SameDisk, TracedFollow
<1> QED BY <1>9, <1>10

LEMMA UnlinkEntryFollow == ASSUME TableInv, NEW p \in Procs, UnlinkEntry(p) PROVE Follow(p)
<1> DEFINE s == ip[p]
           d == dp[p]
           dir == ilock(p, s).ino.type = "dir"
           m == IF dir THEN -1 ELSE 0
           x == itable[d]
           e == iunlock(x)
           f == iunlock(relink(x, m))
<1>1. pc[p] = "unlink2" /\ CanLock(s)  BY DEF UnlinkEntry
<1>2. pc[p] \notin Putting /\ LocalTypes /\ Counted  BY <1>1, TableFacts DEF Putting
<1>3. LocalsAt("unlink2", call[p], ip[p], dp[p], old[p], fd[p]) /\ Held(p) = {d}
  BY <1>1, <1>2, AtPlace DEF HeldAt
<1>4. s \in Slot /\ d \in Slot /\ d \in Held(p)  BY <1>3, LocalFacts DEF LocalsAt, Walked, Parented
<1>5. itable[s].ref >= 1  BY <1>2, <1>4, UsedBy
<1>6. s # d
  <2>1. itable[d].lock = p  BY <1>4, HeldFacts
  <2> QED BY <1>1, <2>1, Constants DEF CanLock
<1>7. itable \in [Slot -> TableEntry] /\ x \in TableEntry
  <2>1. itable \in [Slot -> TableEntry]  BY TableFacts
  <2> QED BY <1>4, <2>1
<1>8. [itable EXCEPT ![s] = ilock(p, s)] = Taken(s, p) /\ [itable EXCEPT ![s] = iunlock(ilock(p, s))] = Taken(s, None)
  BY <1>1, <1>4, <1>5, LockedOK
<1>9. SameEntry(x, e) /\ SameEntry(x, f)
  <2> HIDE DEF x, m
  <2> QED BY <1>7, SameEntryOK
<1>10. CASE itable' = [itable EXCEPT ![s] = iunlock(ilock(p, s)), ![d] = iunlock(@)] /\ UNCHANGED <<dirent, dinode>>
  <2> DEFINE y == iunlock(ilock(p, s))
  <2>1. itable' = [itable EXCEPT ![s] = y, ![d] = iunlock(@)]  BY <1>10
  <2>2. [itable EXCEPT ![s] = y] = Taken(s, None)  BY <1>8
  <2>3. Taken(s, None)[d] = itable[d]  BY <1>4, <1>6 DEF Taken
  <2> HIDE DEF y, s, d
  <2>4. itable' = [[itable EXCEPT ![s] = y] EXCEPT ![d] = iunlock(itable[d])]  BY <1>4, <1>6, <1>7, <2>1
  <2>5. itable' = [Taken(s, None) EXCEPT ![d] = e] /\ SameEntry(itable[d], e)  BY <1>9, <2>2, <2>4
  <2> HIDE DEF e
  <2>6. None \in {p, None} /\ pc[p] # "create2" /\ dinode' = dinode  BY <1>1, <1>10
  <2> QED BY <1>1, <1>4, <1>5, <1>6, <2>5, <2>6, PairFollow
<1>11. CASE itable' = [itable EXCEPT ![s] = ilock(p, s), ![d] = iunlock(relink(@, m))] /\ iupdate(itable', {d})
  <2> DEFINE y == ilock(p, s)
             U(z) == iunlock(relink(z, m))
  <2>1. itable' = [itable EXCEPT ![s] = y, ![d] = U(@)] /\ f = U(itable[d])  BY <1>11
  <2>2. [itable EXCEPT ![s] = y] = Taken(s, p)  BY <1>8
  <2> HIDE DEF y, s, d, U, f
  <2>3. itable' = [[itable EXCEPT ![s] = y] EXCEPT ![d] = U(itable[d])]  BY <1>4, <1>6, <1>7, <2>1
  <2>4. itable' = [Taken(s, p) EXCEPT ![d] = f] /\ SameEntry(itable[d], f)  BY <1>9, <2>1, <2>2, <2>3
  <2>5. p \in {p, None} /\ pc[p] # "create2" /\ iupdate(itable', {d})  BY <1>1, <1>11
  <2> QED BY <1>1, <1>4, <1>5, <1>6, <2>4, <2>5, PairFollow
<1> QED BY <1>10, <1>11 DEF UnlinkEntry

\* A new inode, and the directory it is made in, are written.
LEMMA MakesFollow ==
  ASSUME TableInv, NEW p \in Procs, NEW e, NEW f, NEW it, NEW sp,
         Makes(p, ip[p], e, dp[p], f, itable', it, sp)
  PROVE  Follow(p)
<1> DEFINE s == ip[p]
           d == dp[p]
           j == itable'
<1>1. /\ s \in Slot /\ d \in Slot /\ itable[s].ref >= 1 /\ itable[d].ref >= 1
      /\ e.ref = itable[s].ref /\ e.inum = itable[s].inum /\ e.valid
      /\ f.ref = itable[d].ref /\ f.inum = itable[d].inum /\ f.valid
      /\ j[s] = e /\ j[d] = f /\ \A k \in Slot \ {s, d} : j[k] = itable[k]
      /\ iupdate(it, {s, d}) /\ it[s].inum = e.inum /\ it[d].inum = f.inum
  BY DEF Makes
<1>2. dinode \in [Inum -> Dinode]  BY TableFacts DEF DiskTypes
<1> HIDE DEF j, s, d
<1>3. \A k \in Slot : k # s /\ k # d => j[k] = itable[k]  BY <1>1
<1>4. Keeps(itable, j)  BY <1>1, <1>3 DEF Keeps
<1>5. ASSUME NEW i \in Inum, dinode'[i] # dinode[i]
      PROVE  \E k \in Slot : j[k].ref >= 1 /\ j[k].inum = i /\ j[k].valid
  <2>1. it[s].inum = i \/ it[d].inum = i  BY <1>1, <1>5 DEF iupdate
  <2> QED BY <1>1, <2>1
<1>6. Keeps(itable, itable') /\ Traced /\ itable'[ip[p]].valid  BY <1>1, <1>4, <1>5 DEF j, Traced, Touched, s
<1> QED BY <1>6, TracedFollow

LEMMA CreateMadeMakes ==
  ASSUME TableInv, NEW p \in Procs, CreateMade(p) \/ CreateFails(p)
  PROVE  \E e, f, it, sp : Makes(p, ip[p], e, dp[p], f, itable', it, sp)
<1> DEFINE s == ip[p]
           d == dp[p]
           l == IF CreateMade(p) /\ call[p].k # "mkdir" THEN p ELSE None
           m == Made(p)
           it == IF CreateMade(p) THEN m.it ELSE itable'
<1>1. pc[p] = "create2" /\ CanLock(s)  BY DEF CreateMade, CreateFails
<1>2. MadeFacts(p, m)  BY <1>1, MadeOK
<1>3. s \in Slot /\ d \in Slot /\ s # d  BY <1>1, NewFacts
<1>4. m.it \in [Slot -> TableEntry] /\ m.it[s].lock = None  BY <1>2 DEF MadeFacts
<1>5. /\ dirent' = m.dirent /\ bitmap' = m.sp.used /\ indirect' = m.sp.ind /\ iupdate(it, {s, d})
      /\ itable' = [m.it EXCEPT ![d] = iunlock(m.it[d]), ![s] = [m.it[s] EXCEPT !.lock = l]]
  <2>1. CASE CreateMade(p)
    <3>1. /\ dirent' = m.dirent /\ bitmap' = m.sp.used /\ indirect' = m.sp.ind /\ iupdate(m.it, {s, d})
          /\ itable' = [m.it EXCEPT ![d] = iunlock(@), ![s].lock = IF call[p].k = "mkdir" THEN None ELSE p]
      BY <2>1 DEF CreateMade
    <3>2. itable' = [m.it EXCEPT ![d] = iunlock(@), ![s].lock = l]  BY <2>1, <3>1
    <3> DEFINE a == m.it
    <3> HIDE DEF s, d, l, m, a
    <3>3. itable' = [a EXCEPT ![d] = iunlock(a[d]), ![s] = [a[s] EXCEPT !.lock = l]]
      BY <1>3, <1>4, <3>2 DEF a
    <3> QED BY <2>1, <3>1, <3>3 DEF a
  <2>2. CASE CreateFails(p) /\ ~CreateMade(p)
    <3>1. /\ dirent' = m.dirent /\ bitmap' = m.sp.used /\ indirect' = m.sp.ind /\ iupdate(itable', {s, d})
          /\ itable' = [m.it EXCEPT ![d] = iunlock(@)]
      BY <2>2 DEF CreateFails
    <3> DEFINE a == m.it
               x == a[s]
               y == [x EXCEPT !.lock = None]
    <3>2. x \in TableEntry /\ x.lock = None  BY <1>3, <1>4
    <3>3. l = None /\ it = itable'  BY <2>2
    <3> HIDE DEF x
    <3>4. y = x  BY <3>2 DEF TableEntry
    <3> HIDE DEF y
    <3>5. itable' = [a EXCEPT ![d] = iunlock(a[d]), ![s] = y]
      <4>1. a[s] = y /\ a \in [Slot -> TableEntry]  BY <1>4, <3>4 DEF x
      <4>2. itable' = [a EXCEPT ![d] = iunlock(a[d])]  BY <3>1
      <4> HIDE DEF s, d, m, a
      <4> QED BY <1>3, <4>1, <4>2
    <3>6. y = [m.it[s] EXCEPT !.lock = l]  BY <3>3 DEF y, x
    <3> HIDE DEF l, m
    <3> QED BY <3>1, <3>3, <3>5, <3>6
  <2> QED BY <2>1, <2>2
<1>6. l \in {p, None} /\ it \in {m.it, itable'}  OBVIOUS
<1> HIDE DEF m, l, it
<1>7. MakesFrom(p, m, l, it)  BY <1>2, <1>5, <1>6 DEF MakesFrom
<1>8. \E e, f : e.lock = l /\ f.lock = None /\ Makes(p, s, e, d, f, itable', it, m.sp)
  BY <1>1, <1>7, MakesMade
<1> QED BY <1>8

LEMMA CreateMadeFollow == ASSUME TableInv, NEW p \in Procs, CreateMade(p) \/ CreateFails(p) PROVE Follow(p)
<1>1. PICK e, f, it, sp : Makes(p, ip[p], e, dp[p], f, itable', it, sp)  BY CreateMadeMakes
<1> QED BY <1>1, MakesFollow

\* What ialloc() and iget() give: a free inode, and an entry for it.
Allocs(p, n, t) ==
  /\ n \in Inum /\ dinode[n].type = "none"
  /\ dinode' = [dinode EXCEPT ![n] = [NoInode EXCEPT !.type = IF call[p].k = "mkdir" THEN "dir" ELSE "file"]]
  /\ t \in Slot /\ itable'[t].ref >= 1 /\ itable'[t].inum = n
  /\ ip' = [ip EXCEPT ![p] = t] /\ Go(p, "create2")
  /\ UNCHANGED <<call, path, dp, name, old, dirent, bitmap, indirect, cwd, fd, calls, lost>>

LEMMA CreateAllocFacts ==
  ASSUME TableInv, NEW p \in Procs, CreateAlloc(p)
  PROVE  /\ pc[p] = "create" /\ Keeps(itable, itable')
         /\ CanLock(dp[p]) /\ dirlookup(dirent[itable[dp[p]].inum], name[p]) = None
         /\ \/ dinode' = dinode /\ Done(p, <<dp[p]>>) /\ UNCHANGED <<dirent, bitmap, indirect, cwd, fd, calls, lost>>
            \/ \E n, t : Allocs(p, n, t)
<1> DEFINE s == dp[p]
           it == [itable EXCEPT ![s] = ilock(p, s)]
           unused == {i \in Inum : dinode[i].type = "none"}
           n == Lowest(unused)
           g == iget(it, n)
           t == g.s
           T == Taken(s, p)
           D2 == dinode'
           new == [NoInode EXCEPT !.type = IF call[p].k = "mkdir" THEN "dir" ELSE "file"]
<1>1. pc[p] = "create" /\ CanLock(s) /\ UNCHANGED <<dirent, bitmap, indirect, cwd, fd, calls, lost>>
      /\ dirlookup(dirent[it[s].inum], name[p]) = None
  BY DEF CreateAlloc
<1>2. pc[p] \in Lockers /\ s = Locks(p)  BY <1>1 DEF Lockers, Locks
<1>3. /\ s \in Slot /\ itable[s].ref >= 1 /\ it = T /\ Keeps(itable, T) /\ Keeps(itable, Taken(s, None))
      /\ T \in [Slot -> TableEntry] /\ [it EXCEPT ![s] = iunlock(@)] = Taken(s, None)
      /\ T[s].inum = itable[s].inum
  BY <1>1, <1>2, LockTable
<1>4. dirlookup(dirent[itable[s].inum], name[p]) = None  BY <1>1, <1>3
<1>5. CASE itable' = [it EXCEPT ![s] = iunlock(@)] /\ Done(p, <<s>>) /\ UNCHANGED dinode
  BY <1>1, <1>3, <1>4, <1>5
<1>6. CASE /\ unused # {} /\ dinode' = [dinode EXCEPT ![n] = new]
           /\ itable' = g.it /\ ip' = [ip EXCEPT ![p] = g.s] /\ Go(p, "create2")
           /\ UNCHANGED <<call, path, dp, name, old>>
  <2>1. n \in Inum /\ dinode[n].type = "none"
    <3>1. unused \subseteq Nat  BY Constants
    <3> HIDE DEF unused
    <3>2. n \in unused  BY <1>6, <3>1, LowestIn
    <3> QED BY <3>2 DEF unused
  <2> HIDE DEF n
  <2>2. new \in Dinode /\ new.addrs = NoInode.addrs /\ new.type # "none"  BY DEF NoInode, Dinode, Types
  <2>3. D2 = [dinode EXCEPT ![n] = new] /\ itable' = g.it  BY <1>6
  <2> HIDE DEF new
  <2>4. dinode \in [Inum -> Dinode]  BY TableFacts DEF DiskTypes
  <2>5. /\ D2 \in [Inum -> Dinode] /\ D2[n] = new /\ \A k \in Inum : k # n => D2[k] = dinode[k]
    BY <2>1, <2>2, <2>3, <2>4
  <2>6. TableOK(T, dinode)  BY <1>1, <1>3, TakenOK
  <2> HIDE DEF D2, T, it
  <2>7. TableOK(T, D2)  BY <2>1, <2>5, <2>6, AllocatedOK
  <2>8. /\ TableOK(iget(T, n).it, D2) /\ Bumped(T, iget(T, n).it, iget(T, n).s)
        /\ iget(T, n).it[iget(T, n).s].inum = n
    BY <2>1, <2>7, IgetOK
  <2> DEFINE j == itable'
  <2>9. Bumped(T, j, t) /\ j[t].inum = n  BY <1>3, <2>3, <2>8
  <2> HIDE DEF j, t
  <2>10. Keeps(T, j) /\ j[t].ref >= 1  BY <1>3, <2>9, KeepsBumped
  <2>11. Keeps(itable, j)  BY <1>3, <2>10, KeepsTwice
  <2>12. t \in Slot  BY <2>9 DEF Bumped
  <2>13. Allocs(p, n, t)
    <3>1. ip' = [ip EXCEPT ![p] = t] /\ Go(p, "create2") /\ UNCHANGED <<call, path, dp, name, old>>
      BY <1>6 DEF t
    <3> QED BY <1>1, <2>1, <2>3, <2>9, <2>10, <2>12, <3>1 DEF Allocs, j, new, D2
  <2> QED BY <1>1, <1>4, <2>11, <2>13 DEF j
<1> QED BY <1>5, <1>6 DEF CreateAlloc

LEMMA CreateAllocFollow == ASSUME TableInv, NEW p \in Procs, CreateAlloc(p) PROVE Follow(p)
<1>1. /\ pc[p] = "create" /\ Keeps(itable, itable')
      /\ dinode' = dinode \/ \E n, t : Allocs(p, n, t)
  BY CreateAllocFacts
<1>2. CASE dinode' = dinode  BY <1>1, <1>2, SameDisk, TracedFollow
<1>3. ASSUME NEW n, NEW t, Allocs(p, n, t) PROVE Follow(p)
  <2>1. /\ \A k \in Inum : k # n => dinode'[k] = dinode[k]
        /\ t \in Slot /\ itable'[t].ref >= 1 /\ itable'[t].inum = n
        /\ pc'[p] = "create2" /\ ip'[p] = t
    <3>1. dinode \in [Inum -> Dinode]  BY TableFacts DEF DiskTypes
    <3>2. LocalTypes  BY TableFacts
    <3> QED BY <1>3, <3>1, <3>2 DEF Allocs, Go, LocalTypes
  <2>2. Minded(t)'  BY <2>1 DEF Minded
  <2>3. \A i \in Inum : dinode'[i] = dinode[i] \/ \E s \in Slot : Minded(s)' /\ itable'[s].inum = i
    BY <2>1, <2>2
  <2> QED BY <1>1, <2>3 DEF Follow
<1> QED BY <1>1, <1>2, <1>3

LEMMA StepFollow ==
  ASSUME TableInv, NEW p \in Procs, \/ (Step(p) /\ ~iput(p))
                                    \/ \E c \in Calls : Begin(p, c)
  PROVE  Follow(p) /\ lost' = lost
<1>1. CASE namex(p)
  <2>1. dinode' = dinode /\ lost' = lost /\ pc[p] = "walk"  BY <1>1 DEF namex, Walk, WalkEnd, diskVars
  <2>2. Keeps(itable, itable')  BY <1>1, WalkKeeps, KeepsSame DEF namex, WalkEnd
  <2> QED BY <2>1, <2>2, SameDisk, TracedFollow
<1>2. CASE CreateLookup(p) \/ CreateExisting(p) \/ OpenLock(p) \/ fileread(p) \/ sys_chdir(p) \/ UnlinkLookup(p)
  <2>1. dinode' = dinode /\ lost' = lost /\ pc[p] # "create2"
    BY <1>2 DEF CreateLookup, CreateExisting, OpenLock, fileread, sys_chdir, UnlinkLookup, diskVars
  <2>2. Keeps(itable, itable')  BY <1>2, CreateLookupKeeps, LookKeeps, UnlinkLookupKeeps
  <2> QED BY <2>1, <2>2, SameDisk, TracedFollow
<1>3. CASE CreateAlloc(p)
  <2>1. lost' = lost  BY <1>3 DEF CreateAlloc
  <2> QED BY <1>3, <2>1, CreateAllocFollow
<1>4. CASE CreateMade(p) \/ CreateFails(p)
  <2>1. lost' = lost  BY <1>4 DEF CreateMade, CreateFails
  <2> QED BY <1>4, <2>1, CreateMadeFollow
<1>5. CASE Opened(p)
  <2>1. lost' = lost  BY <1>5 DEF Opened
  <2> QED BY <1>5, <2>1, OpenedFollow
<1>6. CASE filewrite(p)
  <2>1. lost' = lost  BY <1>6 DEF filewrite
  <2> QED BY <1>6, <2>1, FilewriteFollow
<1>7. CASE UnlinkEntry(p)
  <2>1. lost' = lost  BY <1>7 DEF UnlinkEntry
  <2> QED BY <1>7, <2>1, UnlinkEntryFollow
<1>8. CASE UnlinkInode(p)
  <2>1. lost' = lost  BY <1>8 DEF UnlinkInode
  <2> QED BY <1>8, <2>1, UnlinkInodeFollow
<1>9. CASE LinkCount(p)
  <2>1. lost' = lost  BY <1>9 DEF LinkCount
  <2> QED BY <1>9, <2>1, LinkCountFollow
<1>10. CASE LinkEntry(p)
  <2>1. lost' = lost  BY <1>10 DEF LinkEntry
  <2> QED BY <1>10, <2>1, LinkEntryFollow
<1>11. CASE LinkBad(p)
  <2>1. lost' = lost  BY <1>11 DEF LinkBad
  <2> QED BY <1>11, <2>1, LinkBadFollow
<1>12. ASSUME NEW c \in Calls, Begin(p, c) PROVE Follow(p) /\ lost' = lost
  <2>1. dinode' = dinode /\ lost' = lost /\ pc[p] = "user"  BY <1>12 DEF Begin, diskVars
  <2>2. Keeps(itable, itable')  BY <1>12, BeginKeeps
  <2> QED BY <2>1, <2>2, SameDisk, TracedFollow
<1> QED BY <1>1, <1>2, <1>3, <1>4, <1>5, <1>6, <1>7, <1>8, <1>9, <1>10, <1>11, <1>12
        DEF Step, create, sys_open, sys_unlink, sys_link

\* Who has no links stays in the table, as no reference of it is dropped.
LEMMA FollowGone ==
  ASSUME TableInv, NEW p \in Procs, Others(p), Follow(p), lost' = lost, GoneInv
  PROVE  GoneInv'
<1> SUFFICES ASSUME NEW i \in Inum, Gone(i)'
             PROVE  i \in lost' \/ \E s \in Slot : Minded(s)' /\ itable'[s].inum = i
  BY DEF GoneInv
<1>1. CASE dinode'[i] # dinode[i]  BY <1>1 DEF Follow
<1>2. CASE dinode'[i] = dinode[i]
  <2>1. Gone(i)  BY <1>2 DEF Gone
  <2>2. CASE i \in lost  BY <2>2
  <2>3. ASSUME NEW s \in Slot, Minded(s), itable[s].inum = i
        PROVE  Minded(s)' /\ itable'[s].inum = i
    <3>1. itable'[s].ref >= 1 /\ itable'[s].inum = i /\ (itable[s].valid => itable'[s].valid)
      BY <2>3 DEF Minded, Follow, Keeps
    <3>2. CASE itable[s].valid  BY <3>1, <3>2 DEF Minded
    <3>3. ASSUME NEW q \in Procs, pc[q] = "create2", ip[q] = s PROVE Minded(s)'
      <4>1. CASE q = p  BY <3>1, <3>3, <4>1 DEF Minded, Follow
      <4>2. CASE q # p  BY <3>1, <3>3, <4>2 DEF Minded, Others
      <4> QED BY <4>1, <4>2
    <3> QED BY <2>3, <3>1, <3>2, <3>3 DEF Minded
  <2> QED BY <2>1, <2>2, <2>3 DEF GoneInv
<1> QED BY <1>1, <1>2

\* The last reference to an inode that somebody is about to make is not put.
LEMMA LastMinded ==
  ASSUME TableInv, NEW p \in Procs, pc[p] \in Putting, itable[Head(puts[p])].ref = 1, Minded(Head(puts[p]))
  PROVE  itable[Head(puts[p])].valid
<1> DEFINE s == Head(puts[p])
           n == [x \in Procs |-> Pointers(x, s)]
<1>1. s \in Slot /\ puts[p] # <<>> /\ s = puts[p][1]  BY AtPut
<1>2. Counted /\ LocalTypes  BY TableFacts
<1>3. itable[s].ref = 1 /\ Minded(s)  OBVIOUS
<1>4. itable[s].ref = Total(n)  BY <1>1, <1>2 DEF Counted
<1>5. Pointers(p, s) >= 1
  <2> HIDE DEF s
  <2> QED BY <1>1, <1>2, UsedBy
<1> HIDE DEF s
<1>6. SUFFICES ASSUME NEW q \in Procs, pc[q] = "create2", ip[q] = s PROVE FALSE  BY <1>3 DEF Minded, s
<1>7. Pointers(q, s) >= 1 /\ p # q
  <2>1. Pointers(q, s) >= 1  BY <1>1, <1>2, <1>6, UsedBy
  <2> QED BY <1>6, <2>1 DEF Putting
<1>8. n \in [Procs -> 0 .. MaxPointers]  BY PointersType
<1>9. n[p] >= 1 /\ n[q] >= 1  BY <1>5, <1>7
<1> HIDE DEF n
<1>10. Total(n) >= 2  BY <1>7, <1>8, <1>9, CountedTwice
<1> QED BY <1>3, <1>4, <1>10

\* A reference of it is dropped: the last one only where it is valid, and then lost.
LEMMA DropGone ==
  ASSUME TableInv, NEW p \in Procs, pc[p] \in Putting, Others(p), GoneInv, dinode' = dinode,
         LET s == Head(puts[p])
         IN  /\ itable' = [itable EXCEPT ![s].ref = @ - 1]
             /\ lost \subseteq lost'
             /\ itable[s].ref = 1 /\ itable[s].valid /\ itable[s].ino.nlink = 0 => itable[s].inum \in lost'
  PROVE  GoneInv'
<1> DEFINE h == Head(puts[p])
<1>1. h \in Slot /\ itable[h].ref >= 1 /\ itable \in [Slot -> TableEntry] /\ itable[h].ref \in Nat
  <2>1. h \in Slot /\ itable[h].ref >= 1 /\ itable \in [Slot -> TableEntry]  BY AtPut, TableFacts
  <2> QED BY <2>1, EntryTypes
<1>2. /\ itable' = [itable EXCEPT ![h].ref = @ - 1] /\ lost \subseteq lost'
      /\ itable[h].ref = 1 /\ itable[h].valid /\ itable[h].ino.nlink = 0 => itable[h].inum \in lost'
  OBVIOUS
<1>3. CopiesRight(itable, dinode)  BY TableFacts DEF TableOK
<1>4. itable[h].ref = 1 /\ Minded(h) => itable[h].valid  BY LastMinded
<1> HIDE DEF h
<1>5. /\ \A k \in Slot : k # h => itable'[k] = itable[k]
      /\ itable'[h].ref = itable[h].ref - 1 /\ itable'[h].inum = itable[h].inum /\ itable'[h].valid = itable[h].valid
  <2>1. itable[h] \in TableEntry  BY <1>1
  <2> QED BY <1>1, <1>2, <2>1 DEF TableEntry
<1> SUFFICES ASSUME NEW i \in Inum, Gone(i)', i \notin lost'
             PROVE  \E s \in Slot : Minded(s)' /\ itable'[s].inum = i
  BY DEF GoneInv
<1>6. PICK s \in Slot : Minded(s) /\ itable[s].inum = i
  <2>1. Gone(i) /\ i \notin lost  BY <1>2 DEF Gone
  <2> QED BY <2>1 DEF GoneInv
<1>7. itable'[s].ref >= 1 /\ itable'[s].inum = i /\ itable'[s].valid = itable[s].valid
  <2>1. CASE s # h  BY <1>5, <1>6, <2>1 DEF Minded
  <2>2. CASE s = h
    <3>1. itable[h].ref # 1
      <4> SUFFICES ASSUME itable[h].ref = 1 PROVE FALSE  OBVIOUS
      <4>1. itable[h].valid  BY <1>4, <1>6, <2>2
      <4>2. itable[h].ino = dinode[i]  BY <1>1, <1>3, <1>6, <2>2, <4>1 DEF CopiesRight
      <4>3. dinode[i].nlink = 0  BY DEF Gone
      <4> QED BY <1>2, <1>6, <2>2, <4>1, <4>2, <4>3
    <3> QED BY <1>1, <1>5, <1>6, <2>2, <3>1
  <2> QED BY <2>1, <2>2
<1>8. itable[s].valid \/ \E q \in Procs : pc'[q] = "create2" /\ ip'[q] = s
  <2>1. ASSUME NEW q \in Procs, pc[q] = "create2", ip[q] = s PROVE pc'[q] = "create2" /\ ip'[q] = s
    <3>1. q # p  BY <2>1 DEF Putting
    <3> QED BY <2>1, <3>1 DEF Others
  <2> QED BY <1>6, <2>1 DEF Minded
<1>9. Minded(s)'  BY <1>7, <1>8 DEF Minded
<1> QED BY <1>7, <1>9

LEMMA PutFreeGone ==
  ASSUME TableInv, NEW p \in Procs, PutFree(p), Others(p), GoneInv
  PROVE  GoneInv'
<1> DEFINE h == Head(puts[p])
           i == itable[h].inum
           r == itrunc(itable[h].ino, Space)
           ino2 == [r.ino EXCEPT !.type = "none"]
           e == [itable[h] EXCEPT !.valid = FALSE, !.lock = None, !.ino = ino2]
<1>1. pc[p] = "free" /\ itable' = [itable EXCEPT ![h] = e] /\ iupdate(itable', {h}) /\ lost' = lost  BY DEF PutFree
<1>2. pc[p] \in Putting  BY <1>1 DEF Putting
<1>3. h \in Slot /\ Held(p) = HeldAt(pc[p], after[p], puts[p], ip[p], dp[p])  BY <1>2, AtPut
<1>4. h \in Held(p)  BY <1>1, <1>3 DEF HeldAt
<1>5. /\ itable[h] \in TableEntry /\ i \in Inum /\ itable[h].ino = dinode[i] /\ itable[h].ino \in Dinode
  BY <1>3, <1>4, HeldFacts
<1>6. itable \in [Slot -> TableEntry] /\ dinode \in [Inum -> Dinode]  BY TableFacts DEF DiskTypes
<1>7. ino2.type = "none"
  <2>1. r.ino = [itable[h].ino EXCEPT !.size = 0, !.addrs = NoInode.addrs]  BY DEF itrunc, NoInode
  <2>2. r.ino \in Dinode  BY <1>5, <2>1, EmptiedOK
  <2> HIDE DEF r
  <2> QED BY <2>2 DEF Dinode
<1> HIDE DEF ino2
<1>8. e.inum = i /\ e.ino = ino2  BY <1>5 DEF TableEntry
<1> HIDE DEF e, h, i
<1>9. itable'[h] = e /\ \A k \in Slot : k # h => itable'[k] = itable[k]  BY <1>1, <1>3, <1>6
<1>10. dinode' = [dinode EXCEPT ![i] = ino2]
  <2>1. itable'[h].inum = i /\ itable'[h].ino = ino2 /\ i \in Inum  BY <1>5, <1>8, <1>9
  <2> DEFINE j == itable'
  <2>2. iupdate(j, {h}) /\ j[h].inum \in Inum  BY <1>1, <2>1
  <2> HIDE DEF j
  <2>3. dinode' = [dinode EXCEPT ![j[h].inum] = j[h].ino]  BY <1>6, <2>2, IupdateOne
  <2> QED BY <2>1, <2>3 DEF j
<1> SUFFICES ASSUME NEW k \in Inum, Gone(k)', k \notin lost'
             PROVE  \E s \in Slot : Minded(s)' /\ itable'[s].inum = k
  BY DEF GoneInv
<1>11. k # i /\ dinode'[k] = dinode[k]
  <2>1. dinode'[i] = ino2  BY <1>5, <1>6, <1>10
  <2>2. k # i  BY <1>7, <2>1 DEF Gone
  <2> QED BY <1>6, <1>10, <2>2
<1>12. PICK s \in Slot : Minded(s) /\ itable[s].inum = k
  <2>1. Gone(k) /\ k \notin lost  BY <1>1, <1>11 DEF Gone
  <2> QED BY <2>1 DEF GoneInv
<1>13. s # h  BY <1>11, <1>12 DEF i
<1>14. itable'[s] = itable[s]  BY <1>9, <1>13
<1>15. itable[s].valid \/ \E q \in Procs : pc'[q] = "create2" /\ ip'[q] = s
  <2>1. ASSUME NEW q \in Procs, pc[q] = "create2", ip[q] = s PROVE pc'[q] = "create2" /\ ip'[q] = s
    <3>1. q # p  BY <1>1, <2>1
    <3> QED BY <2>1, <3>1 DEF Others
  <2> QED BY <1>12, <2>1 DEF Minded
<1>16. Minded(s)'  BY <1>12, <1>14, <1>15 DEF Minded
<1> QED BY <1>12, <1>14, <1>16

LEMMA IputGone ==
  ASSUME TableInv, NEW p \in Procs, iput(p), Others(p), GoneInv
  PROVE  GoneInv'
<1>1. CASE PutRef(p)
  <2>1. pc[p] = "put" /\ dinode' = dinode  BY <1>1 DEF PutRef, diskVars
  <2>2. LET s == Head(puts[p])
        IN  /\ itable' = [itable EXCEPT ![s].ref = @ - 1]
            /\ lost \subseteq lost'
            /\ itable[s].ref = 1 /\ itable[s].valid /\ itable[s].ino.nlink = 0 => itable[s].inum \in lost'
    BY <1>1 DEF PutRef
  <2>3. pc[p] \in Putting  BY <2>1 DEF Putting
  <2> QED BY <2>1, <2>2, <2>3, DropGone
<1>2. CASE PutLast(p)
  <2> DEFINE s == Head(puts[p])
             e == [itable[s] EXCEPT !.lock = p]
  <2>1. pc[p] = "put" /\ dinode' = dinode /\ lost' = lost /\ itable' = [itable EXCEPT ![s] = e]
    BY <1>2 DEF PutLast, diskVars
  <2>2. pc[p] \in Putting  BY <2>1 DEF Putting
  <2>3. s \in Slot /\ itable \in [Slot -> TableEntry]  BY <2>2, AtPut, TableFacts
  <2> HIDE DEF s
  <2>4. SameEntry(itable[s], e)
    <3>1. itable[s] \in TableEntry  BY <2>3
    <3> QED BY <3>1 DEF SameEntry, TableEntry
  <2> HIDE DEF e
  <2>5. Keeps(itable, itable')  BY <2>1, <2>3, <2>4, KeepsChange
  <2>6. Follow(p)  BY <2>1, <2>5, SameDisk, TracedFollow
  <2> QED BY <2>1, <2>6, FollowGone
<1>3. CASE PutFree(p)  BY <1>3, PutFreeGone
<1>4. CASE PutUnref(p)
  <2>1. pc[p] = "unref" /\ dinode' = dinode  BY <1>4 DEF PutUnref, diskVars
  <2>2. LET s == Head(puts[p])
        IN  /\ itable' = [itable EXCEPT ![s].ref = @ - 1]
            /\ lost \subseteq lost'
            /\ itable[s].ref = 1 /\ itable[s].valid /\ itable[s].ino.nlink = 0 => itable[s].inum \in lost'
    BY <1>4 DEF PutUnref
  <2>3. pc[p] \in Putting  BY <2>1 DEF Putting
  <2> QED BY <2>1, <2>2, <2>3, DropGone
<1> QED BY <1>1, <1>2, <1>3, <1>4 DEF iput

LEMMA InitGone == Init => GoneInv
<1> SUFFICES ASSUME Init, NEW i \in Inum, Gone(i) PROVE \E s \in Slot : Minded(s) /\ itable[s].inum = i
  BY DEF GoneInv
<1>1. PICK t \in Trees : dinode = t.dinode /\ itable = t.itable  BY DEF Init
<1>2. Sane(t)  BY <1>1, TreesAssumption
<1>3. PICK s \in Slot : itable[s].ref > 0 /\ itable[s].inum = i /\ itable[s].valid
  BY <1>1, <1>2 DEF Sane, Gone
<1>4. itable[s].ref >= 1
  <2>1. TableInv  BY InitTable
  <2>2. itable[s].ref \in Nat  BY <2>1, TableFacts, EntryTypes
  <2> QED BY <1>3, <2>2
<1> QED BY <1>3, <1>4 DEF Minded

LEMMA NextGone == TableInv /\ GoneInv /\ [Next]_vars => GoneInv'
<1> SUFFICES ASSUME TableInv, GoneInv, [Next]_vars PROVE GoneInv'  OBVIOUS
<1>1. ASSUME NEW p \in Procs, Step(p) \/ \E c \in Calls : Begin(p, c) PROVE GoneInv'
  <2>1. Others(p)  BY <1>1, StepOthers
  <2>2. CASE iput(p)  BY <2>1, <2>2, IputGone
  <2>3. CASE ~iput(p)
    <3>1. Follow(p) /\ lost' = lost  BY <1>1, <2>3, StepFollow
    <3> QED BY <2>1, <3>1, FollowGone
  <2> QED BY <2>2, <2>3
<1>2. CASE UNCHANGED vars
  <2>1. dinode' = dinode /\ itable' = itable /\ pc' = pc /\ ip' = ip /\ lost' = lost
    BY <1>2 DEF vars, diskVars, localVars
  <2> QED BY <2>1 DEF GoneInv, Gone, Minded
<1> QED BY <1>1, <1>2 DEF Next, Finished

\* An inode that is not free and has no link left is in the table, with a reference and a
\* copy that tells that it has no link, or for a create() that is about to read it; so
\* whoever puts the last reference frees it, but for the ones that are lost.
THEOREM GoneAreFreed == Spec => []FreedWhenGone
<1>1. TableInv /\ GoneInv => FreedWhenGone
  <2> SUFFICES ASSUME TableInv, GoneInv, NEW i \in Inum, dinode[i].type # "none", dinode[i].nlink = 0
               PROVE  i \in lost \/ \E s \in Slot : itable[s].ref > 0 /\ itable[s].inum = i
    BY DEF FreedWhenGone
  <2>1. CASE i \in lost  BY <2>1
  <2>2. ASSUME NEW s \in Slot, Minded(s), itable[s].inum = i PROVE itable[s].ref > 0
    <3>1. itable[s].ref \in Nat  BY TableFacts, EntryTypes
    <3> QED BY <2>2, <3>1 DEF Minded
  <2> QED BY <2>1, <2>2 DEF GoneInv, Gone
<1>2. Spec => []GoneInv
  <2>1. Init => TableInv /\ GoneInv  BY InitTable, InitGone
  <2>2. TableInv /\ GoneInv /\ [Next]_vars => (TableInv /\ GoneInv)'  BY NextTable, NextGone
  <2> QED BY <2>1, <2>2, PTL DEF Spec
<1> QED BY <1>1, <1>2, TableIsInvariant, PTL

-----------------------------------------------------------------------------
(* The names of inodes, and what they are counted by. A process that has     *)
(* counted a link and has not made the entry (link), or has cleared an entry *)
(* and still counts it (unlink), keeps a link of the inode: so the count of  *)
(* an inode is never less than what is due, its links and those kept.        *)

Named(p) == {cwd[p], ip[p], dp[p], old[p], IF fd[p] = None THEN None ELSE fd[p].ip} \ {None}
Of(s) == dinode[itable[s].inum]
Claims(p) ==
  IF old[p] # None THEN {itable[old[p]].inum}
  ELSE IF At(p) = "unlink3" THEN {itable[ip[p]].inum} ELSE {}
Due(i) == Links(dinode, dirent, i) \cup ({"kept"} \X {q \in Procs : i \in Claims(q)})

CountRight(i) ==
  /\ Cardinality(Due(i)) <= dinode[i].nlink
  /\ dinode[i].type = "none" => dinode[i].nlink = 0
  /\ OneName(dinode, dirent, i)
CountsRight == \A i \in Inum : CountRight(i)

\* What a process points to is not free; and an inode that is being freed or made has no
\* link, and only the process that does it knows of it.
Users == \A p \in Procs : \A s \in Named(p) : Of(s).type # "none"
Orphan(p, s) == (pc[p] = "free" /\ s = Head(puts[p])) \/ (pc[p] = "create2" /\ s = ip[p])
OrphanRight(p, s) ==
  Orphan(p, s) => /\ Gone(itable[s].inum)
                  /\ \A q \in Procs : s \in Named(q) => q = p /\ pc[p] = "create2"
Orphans == \A p \in Procs : \A s \in Slot : OrphanRight(p, s)

\* What a process has found, and where it does not look.
OldRight(p) == old[p] # None => Of(old[p]).type # "dir"
UnlinkRight(p) ==
  pc[p] = "unlink2" =>
    /\ name[p] \notin {".", ".."}
    /\ dirlookup(dirent[itable[dp[p]].inum], name[p]) = itable[ip[p]].inum
PathRight(p) == (dp[p] # None => name[p] # "..") /\ ".." \notin Range(path[p])
NewRight(p) == pc[p] = "create2" => (Of(ip[p]).type = "dir" => call[p].k = "mkdir")
Mine(p) == OldRight(p) /\ UnlinkRight(p) /\ PathRight(p) /\ NewRight(p)

\* No call goes through "..": it may lead to a directory that has been removed, whose own
\* ".." leads to one that is freed.
NoDotDot == \A c \in Calls : ".." \notin Range(c.path.names) \cup Range(c.new.names)

NamesInv == Users /\ Orphans /\ (\A p \in Procs : Mine(p)) /\ CountsRight

-----------------------------------------------------------------------------
(* Sets of links.                                                            *)

LEMMA NameIn ==
  ASSUME NEW E, NEW i, NEW x
  PROVE  x \in NamesOf(E, i) <=>
           \E d \in Inum : \E k \in DOMAIN E[d] :
             /\ x = <<d, k>> /\ E[d][k].inum = i /\ E[d][k].name # ".."
             /\ ~(E[d][k].name = "." /\ d = i)
<1>1. ASSUME NEW d \in Inum, NEW k \in DOMAIN E[d], x = <<d, k>>
      PROVE  x \in UNION {{f} \X DOMAIN E[f] : f \in Inum} /\ x[1] = d /\ x[2] = k
  <2>1. x \in {d} \X DOMAIN E[d]  BY <1>1
  <2> QED BY <1>1, <2>1
<1>2. ASSUME x \in UNION {{f} \X DOMAIN E[f] : f \in Inum}
      PROVE  \E d \in Inum : \E k \in DOMAIN E[d] : x = <<d, k>> /\ x[1] = d /\ x[2] = k
  <2>1. PICK d \in Inum : x \in {d} \X DOMAIN E[d]  BY <1>2
  <2>2. PICK k \in DOMAIN E[d] : x = <<d, k>>  BY <2>1
  <2> QED BY <2>2
<1>3. ASSUME x \in NamesOf(E, i)
      PROVE  \E d \in Inum : \E k \in DOMAIN E[d] :
               /\ x = <<d, k>> /\ E[d][k].inum = i /\ E[d][k].name # ".."
               /\ ~(E[d][k].name = "." /\ d = i)
  <2>1. /\ x \in UNION {{f} \X DOMAIN E[f] : f \in Inum}
        /\ E[x[1]][x[2]].inum = i /\ E[x[1]][x[2]].name # ".."
        /\ ~(E[x[1]][x[2]].name = "." /\ x[1] = i)
    BY <1>3 DEF NamesOf
  <2> QED BY <2>1, <1>2
<1>4. ASSUME NEW d \in Inum, NEW k \in DOMAIN E[d],
             x = <<d, k>>, E[d][k].inum = i, E[d][k].name # "..", ~(E[d][k].name = "." /\ d = i)
      PROVE  x \in NamesOf(E, i)
  <2>1. x \in UNION {{f} \X DOMAIN E[f] : f \in Inum} /\ x[1] = d /\ x[2] = k  BY <1>1, <1>4
  <2> QED BY <1>4, <2>1 DEF NamesOf
<1> QED BY <1>3, <1>4

\* In another set of directories, where i has a name only where it had one.
LEMMA NamesLess ==
  ASSUME NEW E, NEW F, NEW i,
         \A d \in Inum : \A k \in DOMAIN F[d] :
           F[d][k].inum = i /\ F[d][k].name # ".." /\ ~(F[d][k].name = "." /\ d = i) =>
             k \in DOMAIN E[d] /\ F[d][k] = E[d][k]
  PROVE  NamesOf(F, i) \subseteq NamesOf(E, i)
<1> SUFFICES ASSUME NEW x \in NamesOf(F, i) PROVE x \in NamesOf(E, i)  OBVIOUS
<1>0. PICK d \in Inum : \E k \in DOMAIN F[d] :
        /\ x = <<d, k>> /\ F[d][k].inum = i /\ F[d][k].name # ".."
        /\ ~(F[d][k].name = "." /\ d = i)
  BY NameIn
<1>1. PICK k \in DOMAIN F[d] :
        /\ x = <<d, k>> /\ F[d][k].inum = i /\ F[d][k].name # ".."
        /\ ~(F[d][k].name = "." /\ d = i)
  BY <1>0
<1>2. k \in DOMAIN E[d] /\ F[d][k] = E[d][k]  BY <1>1
<1> QED BY <1>1, <1>2, NameIn

LEMMA LinksIn ==
  ASSUME NEW D, NEW E, NEW i, NEW x
  PROVE  x \in Links(D, E, i) <=>
           \/ \E y \in NamesOf(E, i) : x = <<"name", y>>
           \/ \E d \in Below(D, E, i) : x = <<"below", d>>
           \/ i = ROOTINO /\ x = <<"root", i>>
BY DEF Links

LEMMA DomainsFinite ==
  ASSUME NEW E \in [Inum -> Seq(DirEntry)]
  PROVE  IsFiniteSet(UNION {DOMAIN E[d] : d \in Inum})
<1> DEFINE S == {DOMAIN E[d] : d \in Inum}
           f == [d \in Inum |-> DOMAIN E[d]]
<1>1. IsFiniteSet(Inum)
  <2>1. 1 \in Int /\ NINODES \in Int  BY Constants
  <2> QED BY <2>1, FS_Interval DEF Inum
<1>2. f \in Surjection(Inum, S)
  <2>1. f \in [Inum -> S]  OBVIOUS
  <2>2. ASSUME NEW t \in S PROVE \E d \in Inum : f[d] = t  OBVIOUS
  <2> QED BY <2>1, <2>2 DEF Surjection
<1>3. IsFiniteSet(S)  BY <1>1, <1>2, FS_Surjection
<1>4. ASSUME NEW t \in S PROVE IsFiniteSet(t)
  <2>1. PICK d \in Inum : t = DOMAIN E[d]  OBVIOUS
  <2>2. E[d] \in Seq(DirEntry)  OBVIOUS
  <2>3. DOMAIN E[d] = 1 .. Len(E[d]) /\ Len(E[d]) \in Int /\ 1 \in Int  BY <2>2
  <2> QED BY <2>1, <2>3, FS_Interval
<1> HIDE DEF S
<1>5. IsFiniteSet(UNION S)  BY <1>3, <1>4, FS_UNION
<1> QED BY <1>5 DEF S

LEMMA DueFinite ==
  ASSUME NEW D, NEW E \in [Inum -> Seq(DirEntry)], NEW i, NEW P, P \subseteq Procs
  PROVE  IsFiniteSet(Links(D, E, i) \cup ({"kept"} \X P))
<1> DEFINE U == UNION {DOMAIN E[d] : d \in Inum}
           N == NamesOf(E, i)
           B == Below(D, E, i)
           R == IF i = ROOTINO THEN {<<"root", i>>} ELSE {}
<1>1. IsFiniteSet(U)  BY DomainsFinite
<1>2. IsFiniteSet(Inum)
  <2>1. 1 \in Int /\ NINODES \in Int  BY Constants
  <2> QED BY <2>1, FS_Interval DEF Inum
<1>3. IsFiniteSet(N)
  <2>1. ASSUME NEW x \in N PROVE x \in Inum \X U
    <3>1. PICK d \in Inum : \E k \in DOMAIN E[d] : x = <<d, k>>  BY NameIn
    <3> QED BY <3>1
  <2> HIDE DEF U
  <2>2. IsFiniteSet(Inum \X U)  BY <1>1, <1>2, FS_Product
  <2>3. N \in SUBSET (Inum \X U)  BY <2>1
  <2> QED BY <2>2, <2>3, FS_Subset
<1>4. IsFiniteSet(B)
  <2>1. B \in SUBSET Inum  BY DEF Below
  <2> QED BY <1>2, <2>1, FS_Subset
<1>5. IsFiniteSet(P)  BY FS_Subset, InodesAssumption
<1>6. IsFiniteSet(R)
  <2>1. CASE i = ROOTINO  BY <2>1, FS_Singleton
  <2>2. CASE i # ROOTINO  BY <2>2, FS_EmptySet
  <2> QED BY <2>1, <2>2
<1> HIDE DEF U, N, B, R
<1>7. \A x : IsFiniteSet({x})  BY FS_Singleton
<1>8. IsFiniteSet({"name"} \X N)  BY <1>3, <1>7, FS_Product
<1>9. IsFiniteSet({"below"} \X B)  BY <1>4, <1>7, FS_Product
<1>10. IsFiniteSet({"kept"} \X P)  BY <1>5, <1>7, FS_Product
<1>11. IsFiniteSet(({"name"} \X N) \cup ({"below"} \X B))  BY <1>8, <1>9, FS_Union
<1>12. IsFiniteSet((({"name"} \X N) \cup ({"below"} \X B)) \cup R)  BY <1>6, <1>11, FS_Union
<1>13. IsFiniteSet(Links(D, E, i))  BY <1>12 DEF Links, N, B, R
<1> QED BY <1>13, <1>10, FS_Union

\* Counting: as many or less; one more; one less; one for another.
LEMMA CountLess ==
  ASSUME NEW S, IsFiniteSet(S), NEW T, T \subseteq S
  PROVE  Cardinality(T) <= Cardinality(S) /\ Cardinality(T) \in Nat /\ Cardinality(S) \in Nat
<1>1. T \in SUBSET S  OBVIOUS
<1>2. IsFiniteSet(T) /\ Cardinality(T) <= Cardinality(S)  BY <1>1, FS_Subset
<1> QED BY <1>2, FS_CardinalityType

LEMMA CountIn ==
  ASSUME NEW S, IsFiniteSet(S), NEW x, NEW T, T \subseteq S \cup {x}
  PROVE  Cardinality(T) <= Cardinality(S) + 1 /\ Cardinality(T) \in Nat /\ Cardinality(S) \in Nat
<1>1. /\ IsFiniteSet(S \cup {x}) /\ Cardinality(S) \in Nat
      /\ Cardinality(S \cup {x}) = IF x \in S THEN Cardinality(S) ELSE Cardinality(S) + 1
  BY FS_AddElement, FS_CardinalityType
<1>2. Cardinality(T) <= Cardinality(S \cup {x}) /\ Cardinality(T) \in Nat  BY <1>1, CountLess
<1> QED BY <1>1, <1>2

LEMMA CountOut ==
  ASSUME NEW S, IsFiniteSet(S), NEW x \in S, NEW T, T \subseteq S \ {x}
  PROVE  Cardinality(T) <= Cardinality(S) - 1 /\ Cardinality(T) \in Nat /\ Cardinality(S) \in Nat
<1>1. IsFiniteSet(S \ {x}) /\ Cardinality(S) \in Nat /\ Cardinality(S \ {x}) = Cardinality(S) - 1
  BY FS_RemoveElement, FS_CardinalityType
<1>2. Cardinality(T) <= Cardinality(S \ {x}) /\ Cardinality(T) \in Nat  BY <1>1, CountLess
<1> QED BY <1>1, <1>2

LEMMA CountSwap ==
  ASSUME NEW S, IsFiniteSet(S), NEW x \in S, NEW y, NEW T, T \subseteq (S \ {x}) \cup {y}
  PROVE  Cardinality(T) <= Cardinality(S) /\ Cardinality(T) \in Nat /\ Cardinality(S) \in Nat
<1>1. IsFiniteSet(S \ {x}) /\ Cardinality(S) \in Nat /\ Cardinality(S \ {x}) = Cardinality(S) - 1
  BY FS_RemoveElement, FS_CardinalityType
<1>2. Cardinality(T) <= Cardinality(S \ {x}) + 1 /\ Cardinality(T) \in Nat  BY <1>1, CountIn
<1> QED BY <1>1, <1>2

LEMMA NamedUsed ==
  ASSUME TableInv, NEW p \in Procs, NEW s \in Named(p)
  PROVE  s \in Slot /\ itable[s].ref >= 1 /\ itable[s].inum \in Inum /\ Pointers(p, s) >= 1
<1>1. s \in Slot
  <2>1. LocalTypes /\ fd[p] \in OpenFile \cup {None} /\ cwd[p] \in Slot
        /\ ip[p] \in Slot \cup {None} /\ dp[p] \in Slot \cup {None} /\ old[p] \in Slot \cup {None}
        /\ (fd[p] # None => fd[p].ip \in Slot)
    BY LocalFacts
  <2> QED BY <2>1 DEF Named
<1>2. s \in {cwd[p], ip[p], dp[p], old[p]} \/ (fd[p] # None /\ fd[p].ip = s)  BY DEF Named
<1>3. Pointers(p, s) >= 1 /\ itable[s].ref >= 1 /\ itable[s].ref \in Nat
  BY <1>1, <1>2, UsedBy, TableFacts
<1>4. TableOK(itable, dinode) /\ itable \in [Slot -> TableEntry]  BY TableFacts
<1>5. itable[s].inum # None  BY <1>1, <1>3, <1>4 DEF TableOK
<1>6. itable[s].inum \in Inum \cup {None}  BY <1>1, <1>4, EntryTypes
<1> QED BY <1>1, <1>3, <1>5, <1>6

LEMMA OrphanUsed ==
  ASSUME TableInv, NEW p \in Procs, NEW s \in Slot, Orphan(p, s)
  PROVE  /\ itable[s].ref >= 1 /\ itable[s].inum \in Inum
         /\ pc[p] = "create2" => s \in Named(p)
         /\ pc[p] = "free" => s \in Held(p)
<1>1. CASE pc[p] = "free"
  <2>1. itable[Head(puts[p])].ref >= 1 /\ s = Head(puts[p])  BY <1>1, AtPut DEF Putting, Orphan
  <2>2. s \in Held(p)  BY <1>1, <2>1 DEF Held, HeldAt
  <2>3. itable[s].inum \in Inum  BY <2>2, HeldFacts
  <2> QED BY <1>1, <2>1, <2>2, <2>3
<1>2. CASE pc[p] = "create2"
  <2>1. s = ip[p] /\ s # None  BY <1>2, Constants DEF Orphan
  <2>2. s \in Named(p)  BY <2>1 DEF Named
  <2> QED BY <1>2, <2>2, NamedUsed
<1> QED BY <1>1, <1>2 DEF Orphan

\* Two entries in use for one inode are one.
LEMMA SameSlot ==
  ASSUME TableInv, NEW s \in Slot, NEW t \in Slot, itable[s].ref >= 1, itable[t].ref >= 1,
         itable[s].inum = itable[t].inum
  PROVE  s = t
<1>1. OneEntry(itable) /\ itable \in [Slot -> TableEntry]  BY TableFacts DEF TableOK
<1>2. itable[s].ref \in Nat /\ itable[t].ref \in Nat  BY <1>1, EntryTypes
<1>3. itable[s].ref > 0 /\ itable[t].ref > 0  BY <1>2
<1> QED BY <1>1, <1>3 DEF OneEntry

\* What a step of p leaves to the others: the inodes that they point to.
Frees(p, i) == pc[p] = "free" /\ i = itable[Head(puts[p])].inum
News(s) ==
  /\ itable'[s].inum \in Inum /\ dinode'[itable'[s].inum].type # "none"
  /\ ~Gone(itable'[s].inum)
SameInums == \A s \in Slot : itable[s].ref >= 1 => itable'[s].inum = itable[s].inum
Frame(p) ==
  /\ Others(p)
  /\ SameInums
  /\ \A i \in Inum : dinode[i].type # "none" => dinode'[i].type = dinode[i].type \/ Frees(p, i)
  /\ \A i \in Inum : dinode[i].type # "none" =>
       dinode'[i].nlink = dinode[i].nlink \/ \E s \in Named(p) : itable[s].inum = i
  /\ \A s \in Slot : itable[s].ref >= 1 /\ itable[s].lock \notin {p, None} =>
       dirent'[itable[s].inum] = dirent[itable[s].inum]
  /\ \A s \in Named(p)' : s \in Named(p) \/ News(s)

LEMMA OthersNamed ==
  ASSUME NEW p \in Procs, Others(p), NEW q \in Procs, q # p
  PROVE  /\ Named(q)' = Named(q) /\ At(q)' = At(q)
         /\ pc'[q] = pc[q] /\ puts'[q] = puts[q] /\ ip'[q] = ip[q] /\ dp'[q] = dp[q] /\ old'[q] = old[q]
         /\ name'[q] = name[q] /\ path'[q] = path[q] /\ call'[q] = call[q]
BY DEF Others, Named, At

\* What a process names is not freed.
LEMMA NamedKept ==
  ASSUME TableInv, Users, Orphans, NEW p \in Procs, Frame(p), NEW q \in Procs, NEW s \in Named(q)
  PROVE  /\ itable'[s].inum = itable[s].inum
         /\ dinode[itable[s].inum].type # "none"
         /\ dinode'[itable[s].inum].type = dinode[itable[s].inum].type
<1> DEFINE i == itable[s].inum
<1>1. s \in Slot /\ itable[s].ref >= 1 /\ i \in Inum  BY NamedUsed
<1>2. dinode[i].type # "none"  BY DEF Users, Of
<1>3. itable'[s].inum = i  BY <1>1 DEF Frame, SameInums
<1>4. ~Frees(p, i)
  <2> SUFFICES ASSUME Frees(p, i) PROVE FALSE  OBVIOUS
  <2> DEFINE h == Head(puts[p])
  <2>1. pc[p] = "free" /\ i = itable[h].inum  BY DEF Frees
  <2>2. h \in Slot /\ itable[h].ref >= 1  BY <2>1, AtPut DEF Putting
  <2>3. h = s  BY <1>1, <2>1, <2>2, SameSlot
  <2>4. Orphan(p, s)  BY <2>1, <2>3 DEF Orphan
  <2>5. pc[p] = "create2"  BY <1>1, <2>4 DEF Orphans, OrphanRight
  <2> QED BY <2>1, <2>5
<1>5. dinode'[i].type = dinode[i].type  BY <1>1, <1>2, <1>4 DEF Frame
<1> QED BY <1>2, <1>3, <1>5

LEMMA FrameUsers ==
  ASSUME TableInv, Users, Orphans, NEW p \in Procs, Frame(p)
  PROVE  Users'
<1> SUFFICES ASSUME NEW q \in Procs, NEW s \in Named(q)' PROVE dinode'[itable'[s].inum].type # "none"
  BY DEF Users, Of
<1>1. CASE s \in Named(q)
  <2>1. /\ itable'[s].inum = itable[s].inum /\ dinode[itable[s].inum].type # "none"
        /\ dinode'[itable[s].inum].type = dinode[itable[s].inum].type
    BY <1>1, NamedKept
  <2> QED BY <2>1
<1>2. CASE s \notin Named(q)
  <2>1. q = p
    <3>1. q # p => Named(q)' = Named(q)  BY OthersNamed DEF Frame
    <3> QED BY <3>1, <1>2
  <2>2. News(s)  BY <1>2, <2>1 DEF Frame
  <2> QED BY <2>2 DEF News
<1> QED BY <1>1, <1>2

LEMMA FrameOrphans ==
  ASSUME TableInv, Users, Orphans, NEW p \in Procs, Frame(p), NEW q \in Procs, q # p, NEW s \in Slot
  PROVE  OrphanRight(q, s)'
<1>1. /\ pc'[q] = pc[q] /\ puts'[q] = puts[q] /\ ip'[q] = ip[q]  BY OthersNamed DEF Frame
<1> SUFFICES ASSUME Orphan(q, s)
             PROVE  /\ Gone(itable[s].inum)'
                    /\ \A r \in Procs : s \in Named(r)' => r = q /\ pc'[q] = "create2"
  BY <1>1 DEF OrphanRight, Orphan
<1> DEFINE i == itable[s].inum
<1>2. /\ itable[s].ref >= 1 /\ i \in Inum
      /\ pc[q] = "create2" => s \in Named(q)
      /\ pc[q] = "free" => s \in Held(q)
  BY OrphanUsed
<1>3. /\ Gone(i)
      /\ \A r \in Procs : s \in Named(r) => r = q /\ pc[q] = "create2"
  BY DEF Orphans, OrphanRight
<1>4. itable'[s].inum = i  BY <1>2 DEF Frame, SameInums
<1>5. ~Frees(p, i)
  <2> SUFFICES ASSUME Frees(p, i) PROVE FALSE  OBVIOUS
  <2> DEFINE h == Head(puts[p])
  <2>1. pc[p] = "free" /\ i = itable[h].inum  BY DEF Frees
  <2>2. h \in Slot /\ itable[h].ref >= 1  BY <2>1, AtPut DEF Putting
  <2>3. h = s  BY <1>2, <2>1, <2>2, SameSlot
  <2>4. Orphan(p, s)  BY <2>1, <2>3 DEF Orphan
  <2>5. CASE pc[q] = "create2"
    <3>1. pc[p] = "create2"  BY <1>2, <2>4, <2>5 DEF Orphans, OrphanRight
    <3> QED BY <2>1, <3>1
  <2>6. CASE pc[q] = "free"
    <3>1. s \in Held(p)  BY <2>1, <2>4, OrphanUsed
    <3>2. itable[s].lock = p  BY <3>1, HeldFacts
    <3>3. itable[s].lock = q  BY <1>2, <2>6, HeldFacts
    <3> QED BY <3>2, <3>3
  <2> QED BY <2>5, <2>6 DEF Orphan
<1>6. dinode[i].type # "none" /\ dinode[i].nlink = 0  BY <1>3 DEF Gone
<1>7. dinode'[i].type = dinode[i].type  BY <1>2, <1>5, <1>6 DEF Frame
<1>8. s \notin Named(p)  BY <1>3
<1>9. ~ \E t \in Named(p) : itable[t].inum = i
  <2> SUFFICES ASSUME NEW t \in Named(p), itable[t].inum = i PROVE FALSE  OBVIOUS
  <2>1. t \in Slot /\ itable[t].ref >= 1  BY NamedUsed
  <2>2. t = s  BY <1>2, <2>1, SameSlot
  <2> QED BY <1>8, <2>2
<1>10. dinode'[i].nlink = dinode[i].nlink  BY <1>2, <1>6, <1>9 DEF Frame
<1>11. Gone(itable[s].inum)'  BY <1>4, <1>6, <1>7, <1>10 DEF Gone
<1>12. ASSUME NEW r \in Procs, s \in Named(r)' PROVE r = q /\ pc'[q] = "create2"
  <2>1. CASE r # p
    <3>1. Named(r)' = Named(r)  BY <2>1, OthersNamed DEF Frame
    <3> QED BY <1>1, <1>3, <1>12, <3>1
  <2>2. CASE r = p
    <3>1. News(s)  BY <1>8, <1>12, <2>2 DEF Frame
    <3>2. ~Gone(i)  BY <1>4, <3>1 DEF News
    <3> QED BY <1>3, <3>2
  <2> QED BY <2>1, <2>2
<1> QED BY <1>11, <1>12

LEMMA FrameMine ==
  ASSUME TableInv, Users, Orphans, NEW p \in Procs, Frame(p), NEW q \in Procs, q # p, Mine(q)
  PROVE  Mine(q)'
<1>1. /\ Named(q)' = Named(q) /\ At(q)' = At(q)
      /\ pc'[q] = pc[q] /\ puts'[q] = puts[q] /\ ip'[q] = ip[q] /\ dp'[q] = dp[q] /\ old'[q] = old[q]
      /\ name'[q] = name[q] /\ path'[q] = path[q] /\ call'[q] = call[q]
  BY OthersNamed DEF Frame
<1>2. OldRight(q)'
  <2> SUFFICES ASSUME old[q] # None PROVE dinode'[itable'[old[q]].inum].type # "dir"
    BY <1>1 DEF OldRight, Of
  <2>1. old[q] \in Named(q)  BY DEF Named
  <2>2. itable'[old[q]].inum = itable[old[q]].inum
        /\ dinode'[itable[old[q]].inum].type = dinode[itable[old[q]].inum].type
    BY <2>1, NamedKept
  <2> QED BY <2>2 DEF Mine, OldRight, Of
<1>3. UnlinkRight(q)'
  <2> SUFFICES ASSUME pc[q] = "unlink2"
               PROVE  /\ name[q] \notin {".", ".."}
                      /\ dirlookup(dirent'[itable'[dp[q]].inum], name[q]) = itable'[ip[q]].inum
    BY <1>1 DEF UnlinkRight
  <2>1. LocalsAt(pc[q], call[q], ip[q], dp[q], old[q], fd[q]) /\ Held(q) = HeldAt(pc[q], pc[q], <<>>, ip[q], dp[q])
    BY AtPlace DEF Putting
  <2>2. ip[q] # None /\ dp[q] # None  BY <2>1 DEF LocalsAt, Walked, Parented
  <2>3. ip[q] \in Named(q) /\ dp[q] \in Named(q)  BY <2>2 DEF Named
  <2>4. itable'[ip[q]].inum = itable[ip[q]].inum  BY <2>3, NamedKept
  <2>5. itable'[dp[q]].inum = itable[dp[q]].inum  BY <2>3, NamedKept
  <2>6. dp[q] \in Slot /\ itable[dp[q]].ref >= 1  BY <2>3, NamedUsed
  <2>7. dp[q] \in Held(q)  BY <2>1 DEF HeldAt
  <2>8. itable[dp[q]].lock = q  BY <2>6, <2>7, HeldFacts
  <2>9. itable[dp[q]].lock \notin {p, None}  BY <2>8, Constants
  <2>10. dirent'[itable[dp[q]].inum] = dirent[itable[dp[q]].inum]  BY <2>6, <2>9 DEF Frame
  <2> QED BY <2>4, <2>5, <2>10 DEF Mine, UnlinkRight
<1>4. PathRight(q)'  BY <1>1 DEF Mine, PathRight
<1>5. NewRight(q)'
  <2> SUFFICES ASSUME pc[q] = "create2", dinode'[itable'[ip[q]].inum].type = "dir" PROVE call[q].k = "mkdir"
    BY <1>1 DEF NewRight, Of
  <2>1. LocalsAt(pc[q], call[q], ip[q], dp[q], old[q], fd[q])  BY AtPlace DEF Putting
  <2>2. ip[q] # None  BY <2>1 DEF LocalsAt, Walked
  <2>3. ip[q] \in Named(q)  BY <2>2 DEF Named
  <2>4. itable'[ip[q]].inum = itable[ip[q]].inum
        /\ dinode'[itable[ip[q]].inum].type = dinode[itable[ip[q]].inum].type
    BY <2>3, NamedKept
  <2> QED BY <2>4 DEF Mine, NewRight, Of
<1> QED BY <1>2, <1>3, <1>4, <1>5 DEF Mine

LEMMA OtherClaims ==
  ASSUME TableInv, NEW p \in Procs, Others(p), SameInums, NEW q \in Procs, q # p
  PROVE  Claims(q)' = Claims(q)
<1>1. At(q)' = At(q) /\ ip'[q] = ip[q] /\ old'[q] = old[q]  BY OthersNamed
<1>2. CASE old[q] # None
  <2>1. old[q] \in Named(q)  BY <1>2 DEF Named
  <2>2. itable'[old[q]].inum = itable[old[q]].inum  BY <2>1, NamedUsed DEF SameInums
  <2> QED BY <1>1, <1>2, <2>2 DEF Claims
<1>3. CASE old[q] = None /\ At(q) = "unlink3"
  <2>1. LocalsAt(At(q), call[q], ip[q], dp[q], old[q], fd[q])  BY DEF TableInv, LocalsRight
  <2>2. ip[q] # None  BY <1>3, <2>1 DEF LocalsAt, Walked
  <2>3. ip[q] \in Named(q)  BY <2>2 DEF Named
  <2>4. itable'[ip[q]].inum = itable[ip[q]].inum  BY <2>3, NamedUsed DEF SameInums
  <2> QED BY <1>1, <1>3, <2>4 DEF Claims
<1>4. CASE old[q] = None /\ At(q) # "unlink3"  BY <1>1, <1>4 DEF Claims
<1> QED BY <1>2, <1>3, <1>4

LEMMA DueIsFinite == ASSUME TableInv, NEW i PROVE IsFiniteSet(Due(i))
<1> DEFINE P == {q \in Procs : i \in Claims(q)}
<1>1. dirent \in [Inum -> Seq(DirEntry)]  BY TableFacts DEF DiskTypes
<1>2. P \subseteq Procs  OBVIOUS
<1> HIDE DEF P
<1>3. IsFiniteSet(Links(dinode, dirent, i) \cup ({"kept"} \X P))  BY <1>1, <1>2, DueFinite
<1> QED BY <1>3 DEF Due, P

LEMMA DueIn ==
  ASSUME NEW i, NEW x
  PROVE  /\ x \in Due(i) <=> x \in Links(dinode, dirent, i) \/ \E q \in Procs : i \in Claims(q) /\ x = <<"kept", q>>
         /\ x \in Due(i)' <=> x \in Links(dinode', dirent', i) \/ \E q \in Procs : i \in Claims(q)' /\ x = <<"kept", q>>
<1>1. x \in Due(i) <=> x \in Links(dinode, dirent, i) \/ \E q \in Procs : i \in Claims(q) /\ x = <<"kept", q>>
  BY DEF Due
<1>2. x \in Due(i)' <=> x \in Links(dinode', dirent', i) \/ \E q \in Procs : i \in Claims(q)' /\ x = <<"kept", q>>
  BY DEF Due
<1> QED BY <1>1, <1>2

\* What is due after a step, from what was: less, or with one more or one for another.
LEMMA DueAfter ==
  ASSUME TableInv, NEW p \in Procs, Others(p), SameInums, NEW i, NEW x \in Due(i)'
  PROVE  \/ x \in Links(dinode', dirent', i)
         \/ x \in Due(i) /\ \E q \in Procs : q # p /\ x = <<"kept", q>>
         \/ i \in Claims(p)' /\ x = <<"kept", p>>
<1> SUFFICES ASSUME x \notin Links(dinode', dirent', i)
             PROVE  \/ x \in Due(i) /\ \E q \in Procs : q # p /\ x = <<"kept", q>>
                    \/ i \in Claims(p)' /\ x = <<"kept", p>>
  OBVIOUS
<1>1. PICK q \in Procs : i \in Claims(q)' /\ x = <<"kept", q>>  BY DueIn
<1>2. CASE q = p  BY <1>1, <1>2
<1>3. CASE q # p
  <2>1. i \in Claims(q)  BY <1>1, <1>3, OtherClaims
  <2>2. x \in Due(i)  BY <1>1, <2>1, DueIn
  <2> QED BY <1>1, <1>3, <2>2
<1> QED BY <1>2, <1>3

LEMMA DueLess ==
  ASSUME TableInv, NEW p \in Procs, Others(p), SameInums, NEW i,
         Links(dinode', dirent', i) \subseteq Links(dinode, dirent, i), i \in Claims(p)' => i \in Claims(p)
  PROVE  /\ Due(i)' \subseteq Due(i) /\ Cardinality(Due(i)') <= Cardinality(Due(i))
         /\ Cardinality(Due(i)') \in Nat /\ Cardinality(Due(i)) \in Nat
<1>1. ASSUME NEW x \in Due(i)' PROVE x \in Due(i)
  <2>1. CASE x \in Links(dinode', dirent', i)  BY <2>1, DueIn
  <2>2. CASE i \in Claims(p)' /\ x = <<"kept", p>>  BY <2>2, DueIn
  <2> QED BY <2>1, <2>2, DueAfter
<1> DEFINE S == Due(i)
           T == Due(i)'
<1>2. T \subseteq S  BY <1>1
<1>3. IsFiniteSet(S)  BY DueIsFinite
<1> HIDE DEF S, T
<1>4. Cardinality(T) <= Cardinality(S) /\ Cardinality(T) \in Nat /\ Cardinality(S) \in Nat
  BY <1>2, <1>3, CountLess
<1> QED BY <1>2, <1>4 DEF S, T

LEMMA LinksCount ==
  ASSUME TableInv, NEW i \in Inum
  PROVE  /\ dinode[i] \in Dinode /\ dinode[i].nlink \in Int /\ Cardinality(Due(i)) \in Nat
         /\ Due(i) # {} => Cardinality(Due(i)) >= 1
<1>1. dinode \in [Inum -> Dinode]  BY TableFacts DEF DiskTypes
<1>2. dinode[i] \in Dinode /\ dinode[i].nlink \in Int  BY <1>1, InodeFacts
<1>3. IsFiniteSet(Due(i))  BY DueIsFinite
<1>4. Cardinality(Due(i)) \in Nat  BY <1>3, FS_CardinalityType
<1>5. Due(i) # {} => Cardinality(Due(i)) # 0  BY <1>3, FS_EmptySet
<1> QED BY <1>2, <1>4, <1>5

\* An inode that something leads to counts a link, and is not free.
LEMMA DueNotFree ==
  ASSUME TableInv, NEW i \in Inum, CountRight(i)
  PROVE  /\ Due(i) # {} => dinode[i].nlink >= 1 /\ dinode[i].type # "none" /\ ~Gone(i)
         /\ dinode[i].nlink = 0 => Due(i) = {}
<1>1. /\ dinode[i].nlink \in Int /\ Cardinality(Due(i)) \in Nat
      /\ Due(i) # {} => Cardinality(Due(i)) >= 1
  BY LinksCount
<1>2. Cardinality(Due(i)) <= dinode[i].nlink /\ (dinode[i].type = "none" => dinode[i].nlink = 0)
  BY DEF CountRight
<1> HIDE DEF Due
<1>3. Due(i) # {} => dinode[i].nlink >= 1  BY <1>1, <1>2
<1> QED BY <1>1, <1>2, <1>3 DEF Gone

-----------------------------------------------------------------------------
(* Steps that change neither a directory nor a count of links.               *)

DiskQuiet ==
  /\ dirent' = dirent
  /\ \A i \in Inum : dinode'[i].type = dinode[i].type /\ dinode'[i].nlink = dinode[i].nlink

LEMMA SameLinks ==
  ASSUME NEW D, NEW D2, NEW E, \A i \in Inum : D2[i].type = D[i].type
  PROVE  /\ \A i : Links(D2, E, i) = Links(D, E, i)
         /\ \A i \in Inum : OneName(D, E, i) => OneName(D2, E, i)
<1>1. \A i : Below(D2, E, i) = Below(D, E, i)  BY DEF Below
<1> QED BY <1>1 DEF Links, OneName

LEMMA QuietCounts ==
  ASSUME TableInv, CountsRight, NEW p \in Procs, Others(p), SameInums, DiskQuiet, Claims(p)' \subseteq Claims(p)
  PROVE  CountsRight'
<1> SUFFICES ASSUME NEW i \in Inum PROVE CountRight(i)'  BY DEF CountsRight
<1>1. CountRight(i)  BY DEF CountsRight
<1>2. dirent' = dirent /\ \A k \in Inum : dinode'[k].type = dinode[k].type  BY DEF DiskQuiet
<1>3. Links(dinode', dirent', i) = Links(dinode, dirent, i)
      /\ (OneName(dinode, dirent, i) => OneName(dinode', dirent', i))
  BY <1>2, SameLinks
<1>4. /\ Cardinality(Due(i)') <= Cardinality(Due(i))
      /\ Cardinality(Due(i)') \in Nat /\ Cardinality(Due(i)) \in Nat
  <2>1. Links(dinode', dirent', i) \subseteq Links(dinode, dirent, i)  BY <1>3
  <2>2. i \in Claims(p)' => i \in Claims(p)  OBVIOUS
  <2> QED BY <2>1, <2>2, DueLess
<1>5. dinode'[i].type = dinode[i].type /\ dinode'[i].nlink = dinode[i].nlink  BY DEF DiskQuiet
<1>6. dinode[i].nlink \in Int  BY LinksCount
<1>7. Cardinality(Due(i)) <= dinode[i].nlink /\ (dinode[i].type = "none" => dinode[i].nlink = 0)
      /\ OneName(dinode, dirent, i)
  BY <1>1 DEF CountRight
<1> HIDE DEF Due
<1>8. Cardinality(Due(i)') <= dinode'[i].nlink  BY <1>4, <1>5, <1>6, <1>7
<1> QED BY <1>3, <1>5, <1>7, <1>8 DEF CountRight

\* How a step of p leaves it, but where it frees, makes or unlinks an inode.
Ends(p) ==
  /\ pc'[p] \notin {"free", "create2", "unlink2"}
  /\ old'[p] \in {None, old[p]}
  /\ PathRight(p)'
Led(s) == itable'[s].inum \in Inum /\ dinode[itable'[s].inum].nlink >= 1

LEMMA FrameEnds ==
  ASSUME TableInv, Users, Orphans, \A q \in Procs : Mine(q), NEW p \in Procs, Frame(p), Ends(p)
  PROVE  Users' /\ Orphans' /\ \A q \in Procs : Mine(q)'
<1>1. Users'  BY FrameUsers
<1>2. ASSUME NEW q \in Procs, NEW s \in Slot PROVE OrphanRight(q, s)'
  <2>1. CASE q # p  BY <2>1, FrameOrphans
  <2>2. CASE q = p  BY <2>2 DEF OrphanRight, Orphan, Ends
  <2> QED BY <2>1, <2>2
<1>3. Mine(p)'
  <2>1. OldRight(p)'
    <3> SUFFICES ASSUME old'[p] # None PROVE dinode'[itable'[old'[p]].inum].type # "dir"  BY DEF OldRight, Of
    <3>1. old'[p] = old[p] /\ old[p] # None  BY DEF Ends
    <3>2. old[p] \in Named(p)  BY <3>1 DEF Named
    <3>3. itable'[old[p]].inum = itable[old[p]].inum
          /\ dinode'[itable[old[p]].inum].type = dinode[itable[old[p]].inum].type
      BY <3>2, NamedKept
    <3> QED BY <3>1, <3>3 DEF Mine, OldRight, Of
  <2> QED BY <2>1 DEF Mine, Ends, UnlinkRight, NewRight
<1>4. ASSUME NEW q \in Procs PROVE Mine(q)'
  <2>1. CASE q # p  BY <2>1, FrameMine
  <2> QED BY <2>1, <1>3
<1> QED BY <1>1, <1>2, <1>4 DEF Orphans

LEMMA QuietFrame ==
  ASSUME TableInv, CountsRight, NEW p \in Procs, Others(p), SameInums, DiskQuiet,
         \A s \in Named(p)' : s \in Named(p) \/ Led(s)
  PROVE  Frame(p)
<1>1. ASSUME NEW s, Led(s) PROVE News(s)
  <2> DEFINE i == itable'[s].inum
  <2>1. i \in Inum /\ dinode[i].nlink >= 1  BY <1>1 DEF Led
  <2>2. dinode[i].type = "none" => dinode[i].nlink = 0  BY <2>1 DEF CountsRight, CountRight
  <2>3. dinode[i].nlink # 0  BY <2>1
  <2>4. dinode'[i].type = dinode[i].type  BY <2>1 DEF DiskQuiet
  <2> QED BY <2>1, <2>2, <2>3, <2>4 DEF News, Gone
<1>2. \A s \in Named(p)' : s \in Named(p) \/ News(s)  BY <1>1
<1> QED BY <1>2 DEF Frame, DiskQuiet

LEMMA QuietEnds ==
  ASSUME TableInv, NamesInv, NEW p \in Procs, Others(p), SameInums, DiskQuiet, Ends(p),
         Claims(p)' \subseteq Claims(p), \A s \in Named(p)' : s \in Named(p) \/ Led(s)
  PROVE  NamesInv'
<1>1. CountsRight'  BY QuietCounts DEF NamesInv
<1>2. Frame(p)  BY QuietFrame DEF NamesInv
<1>3. Users' /\ Orphans' /\ \A q \in Procs : Mine(q)'  BY <1>2, FrameEnds DEF NamesInv
<1> QED BY <1>1, <1>3 DEF NamesInv

-----------------------------------------------------------------------------
(* What a process points to after a step.                                    *)

LEMMA StaySame == ASSUME TableInv, UNCHANGED diskVars PROVE DiskQuiet
BY DEF diskVars, DiskQuiet

\* A link is kept over a step that does not say otherwise.
LEMMA ClaimsStay ==
  ASSUME TableInv, NEW p \in Procs, SameInums, old'[p] = old[p],
         At(p)' = "unlink3" => At(p) = "unlink3" /\ ip'[p] = ip[p]
  PROVE  Claims(p)' \subseteq Claims(p)
<1>1. CASE old[p] # None
  <2>1. old[p] \in Named(p)  BY <1>1 DEF Named
  <2>2. itable'[old[p]].inum = itable[old[p]].inum  BY <2>1, NamedUsed DEF SameInums
  <2> QED BY <1>1, <2>2 DEF Claims
<1>2. CASE old[p] = None /\ At(p)' = "unlink3"
  <2>1. LocalsAt(At(p), call[p], ip[p], dp[p], old[p], fd[p])  BY DEF TableInv, LocalsRight
  <2>2. ip[p] # None /\ At(p) = "unlink3" /\ ip'[p] = ip[p]  BY <1>2, <2>1 DEF LocalsAt, Walked
  <2>3. ip[p] \in Named(p)  BY <2>2 DEF Named
  <2>4. itable'[ip[p]].inum = itable[ip[p]].inum  BY <2>3, NamedUsed DEF SameInums
  <2> QED BY <1>2, <2>2, <2>4 DEF Claims
<1>3. CASE old[p] = None /\ At(p)' # "unlink3"  BY <1>3 DEF Claims
<1> QED BY <1>1, <1>2, <1>3

LEMMA DoneEnds ==
  ASSUME TableInv, NEW p \in Procs, NEW ss, Done(p, ss),
         cwd'[p] \in Named(p), fd'[p] = None \/ fd'[p].ip \in Named(p)
  PROVE  Ends(p) /\ Claims(p)' = {} /\ \A s \in Named(p)' : s \in Named(p)
<1>0. LocalTypes  BY LocalFacts
<1>1. /\ path'[p] = <<>> /\ ip'[p] = None /\ dp'[p] = None /\ old'[p] = None
  BY <1>0 DEF Done, Locals, LocalTypes
<1>2. pc'[p] = "user" \/ (pc'[p] = "put" /\ after'[p] = "user")
  BY <1>0 DEF Done, Go, Put, LocalTypes
<1>3. Ends(p)
  <2>1. PathRight(p)'  BY <1>1 DEF PathRight, Range
  <2> QED BY <1>1, <1>2, <2>1 DEF Ends
<1>4. Claims(p)' = {}  BY <1>1, <1>2 DEF Claims, At, Putting
<1>5. \A s \in Named(p)' : s \in Named(p)  BY <1>1 DEF Named
<1> QED BY <1>3, <1>4, <1>5

LEMMA SamePlaces ==
  ASSUME TableInv, NEW p \in Procs
  PROVE  /\ cwd[p] \in Named(p) /\ (fd[p] = None \/ fd[p].ip \in Named(p))
         /\ ip[p] # None => ip[p] \in Named(p)
<1>1. cwd[p] \in Slot /\ (fd[p] # None => fd[p].ip \in Slot)  BY LocalFacts
<1> QED BY <1>1, Constants DEF Named

\* A call is over, and nothing has been written.
LEMMA DoneQuiet ==
  ASSUME TableInv, NamesInv, NEW p \in Procs, Others(p), SameInums, DiskQuiet, NEW ss, Done(p, ss),
         cwd'[p] \in Named(p), fd'[p] = None \/ fd'[p].ip \in Named(p)
  PROVE  NamesInv'
<1>1. Ends(p) /\ Claims(p)' = {} /\ \A s \in Named(p)' : s \in Named(p)  BY DoneEnds
<1>2. Claims(p)' \subseteq Claims(p)  BY <1>1
<1>3. \A s \in Named(p)' : s \in Named(p) \/ Led(s)  BY <1>1
<1> QED BY <1>1, <1>2, <1>3, QuietEnds

LEMMA DoneStill ==
  ASSUME TableInv, NamesInv, NEW p \in Procs, Others(p), SameInums, UNCHANGED <<diskVars, cwd, fd>>,
         NEW ss, Done(p, ss)
  PROVE  NamesInv'
<1>1. DiskQuiet  BY StaySame
<1>2. cwd'[p] \in Named(p) /\ (fd'[p] = None \/ fd'[p].ip \in Named(p))  BY SamePlaces
<1> QED BY <1>1, <1>2, DoneQuiet

LEMMA FailsEnds ==
  ASSUME TableInv, NEW p \in Procs, PathRight(p), SameInums, NEW ss, Fails(p, ss), UNCHANGED <<cwd, fd>>
  PROVE  Ends(p) /\ Claims(p)' \subseteq Claims(p) /\ \A s \in Named(p)' : s \in Named(p)
<1>1. CASE ~Second(p)
  <2>1. Done(p, ss)  BY <1>1 DEF Fails
  <2>2. cwd'[p] \in Named(p) /\ (fd'[p] = None \/ fd'[p].ip \in Named(p))  BY SamePlaces
  <2> QED BY <2>1, <2>2, DoneEnds
<1>2. CASE Second(p)
  <2>0. LocalTypes  BY LocalFacts
  <2>1. /\ Put(p, ss, "linkbad") /\ ip' = [ip EXCEPT ![p] = None] /\ dp' = [dp EXCEPT ![p] = None]
        /\ UNCHANGED <<call, path, name, old>>
    BY <1>2 DEF Fails
  <2>2. ip'[p] = None /\ dp'[p] = None /\ pc'[p] = "put" /\ after'[p] = "linkbad"
    BY <2>0, <2>1 DEF Put, LocalTypes
  <2>3. Ends(p)
    <3>1. PathRight(p)'  BY <2>1, <2>2 DEF PathRight
    <3> QED BY <2>1, <2>2, <3>1 DEF Ends
  <2>4. At(p)' # "unlink3" /\ old'[p] = old[p]  BY <2>1, <2>2 DEF At, Putting
  <2>5. Claims(p)' \subseteq Claims(p)  BY <2>4, ClaimsStay
  <2>6. \A s \in Named(p)' : s \in Named(p)  BY <2>1, <2>2 DEF Named
  <2> QED BY <2>3, <2>5, <2>6
<1> QED BY <1>1, <1>2

LEMMA FailsQuiet ==
  ASSUME TableInv, NamesInv, NEW p \in Procs, Others(p), SameInums, DiskQuiet, NEW ss, Fails(p, ss),
         UNCHANGED <<cwd, fd>>
  PROVE  NamesInv'
<1>0. PathRight(p)  BY DEF NamesInv, Mine
<1>1. Ends(p) /\ Claims(p)' \subseteq Claims(p) /\ \A s \in Named(p)' : s \in Named(p)  BY <1>0, FailsEnds
<1>2. \A s \in Named(p)' : s \in Named(p) \/ Led(s)  BY <1>1
<1> QED BY <1>1, <1>2, QuietEnds

\* The call goes on with the pointers it has.
LEMMA GoQuiet ==
  ASSUME TableInv, NamesInv, NEW p \in Procs, Others(p), SameInums, DiskQuiet,
         pc'[p] \notin {"free", "create2", "unlink2"}, At(p)' = "unlink3" => At(p) = "unlink3",
         UNCHANGED <<path, ip, dp, name, old, cwd, fd>>
  PROVE  NamesInv'
<1>1. Ends(p)  BY DEF Ends, NamesInv, Mine, PathRight
<1>2. Claims(p)' \subseteq Claims(p)  BY ClaimsStay
<1>3. \A s \in Named(p)' : s \in Named(p) \/ Led(s)  BY DEF Named
<1> QED BY <1>1, <1>2, <1>3, QuietEnds

\* What a name leads to: the directory itself, or an inode that counts it.
LEMMA LookLed ==
  ASSUME TableInv, CountsRight, NEW d \in Inum, NEW n, n # "..", NEW i, i = dirlookup(dirent[d], n), i # None
  PROVE  i \in Inum /\ ((i = d /\ n = ".") \/ dinode[i].nlink >= 1)
<1> DEFINE k == Lowest(Found(dirent[d], n))
<1>0. dirent[d] \in Seq(DirEntry)  BY TableFacts DEF DiskTypes
<1>1. i \in Inum  BY <1>0, DirlookupOK
<1>2. Found(dirent[d], n) # {} /\ k \in DOMAIN dirent[d]  BY <1>0, DirlookupOK
<1>3. i = dirent[d][k].inum  BY <1>2 DEF dirlookup
<1>4. k \in Found(dirent[d], n)
  <2>1. Found(dirent[d], n) \subseteq Nat  BY <1>0 DEF Found
  <2> QED BY <1>2, <2>1, LowestIn
<1>5. dirent[d][k].name = n  BY <1>4 DEF Found
<1> HIDE DEF k
<1>6. CASE ~(i = d /\ n = ".")
  <2>1. <<d, k>> \in NamesOf(dirent, i)  BY <1>2, <1>3, <1>5, <1>6, NameIn
  <2>2. <<"name", <<d, k>>>> \in Links(dinode, dirent, i)  BY <2>1, LinksIn
  <2>3. Due(i) # {}  BY <2>2, DueIn
  <2>4. CountRight(i)  BY <1>1 DEF CountsRight
  <2>5. dinode[i].nlink >= 1  BY <1>1, <2>3, <2>4, DueNotFree
  <2> QED BY <1>1, <2>5
<1> QED BY <1>1, <1>6

-----------------------------------------------------------------------------
(* The actions that write nothing.                                           *)

\* An entry that has been got for an inode that has been found in a directory.
LEMMA GotLed ==
  ASSUME TableInv, CountsRight, TableInv', NEW p \in Procs, SameInums,
         NEW s \in Slot, s \in Named(p), NEW n, n # "..",
         NEW i, i = dirlookup(dirent[itable[s].inum], n), i # None,
         NEW t \in Slot, itable'[t].inum = i, itable'[t].ref >= 1, itable'[s].ref >= 1
  PROVE  t \in Named(p) \/ Led(t)
<1>1. itable[s].inum \in Inum /\ itable[s].ref >= 1  BY NamedUsed
<1>2. i \in Inum /\ ((i = itable[s].inum /\ n = ".") \/ dinode[i].nlink >= 1)  BY <1>1, LookLed
<1>3. CASE dinode[i].nlink >= 1  BY <1>2, <1>3 DEF Led
<1>4. CASE i = itable[s].inum
  <2>1. itable'[s].inum = itable'[t].inum  BY <1>1, <1>4 DEF SameInums
  <2>2. OneEntry(itable') /\ itable' \in [Slot -> TableEntry]  BY DEF TableInv, TableOK
  <2>3. itable'[s].ref \in Nat /\ itable'[t].ref \in Nat  BY <2>2, EntryTypes
  <2>4. itable'[s].ref > 0 /\ itable'[t].ref > 0  BY <2>3
  <2>5. s = t  BY <2>1, <2>2, <2>4 DEF OneEntry
  <2> QED BY <2>5
<1> QED BY <1>2, <1>3, <1>4

LEMMA HeadIn ==
  ASSUME NEW s \in Seq(STRING), s # <<>>
  PROVE  Head(s) \in Range(s) /\ Range(Tail(s)) \subseteq Range(s)
<1>1. Len(s) >= 1 /\ DOMAIN s = 1 .. Len(s)  BY EmptySeq
<1>2. Head(s) = s[1] /\ 1 \in DOMAIN s  BY <1>1
<1>3. \A k \in DOMAIN Tail(s) : Tail(s)[k] = s[k + 1] /\ k + 1 \in DOMAIN s  BY <1>1
<1> QED BY <1>2, <1>3 DEF Range

LEMMA WalkNames ==
  ASSUME TableInv, NamesInv, TableInv', NEW p \in Procs, Others(p), SameInums, Walk(p)
  PROVE  NamesInv'
<1> DEFINE s == ip[p]
           e == Loaded(s)
           n == Head(path[p])
           rest == Tail(path[p])
           i == dirlookup(dirent[e.inum], n)
           g == iget(Taken(s, None), i)
<1>0. /\ LocalTypes /\ path[p] \in Seq(STRING)  BY LocalFacts
<1>1. pc[p] = "walk" /\ path[p] # <<>> /\ CanLock(s) /\ UNCHANGED <<diskVars, cwd, fd, calls, lost>>
  BY DEF Walk
<1>2. DiskQuiet  BY <1>1, StaySame
<1>3. s = Locks(p)  BY <1>1 DEF Locks
<1>4. /\ s \in Slot /\ itable[s].ref >= 1
      /\ [itable EXCEPT ![s] = Loaded(s)] = Taken(s, None)
      /\ itable[s].inum \in Inum /\ Loaded(s).inum = itable[s].inum
  BY <1>1, <1>3, LockTable DEF Lockers
<1>5. s \in Named(p)  BY <1>4, Constants DEF Named
<1>6. n # ".." /\ ".." \notin Range(rest) /\ PathRight(p)
  <2>1. ".." \notin Range(path[p]) /\ PathRight(p)  BY DEF NamesInv, Mine, PathRight
  <2>2. n \in Range(path[p]) /\ Range(rest) \subseteq Range(path[p])  BY <1>0, <1>1, HeadIn
  <2> QED BY <2>1, <2>2
<1>7. \/ Fails(p, <<s>>)
      \/ /\ Parent(p) /\ dp' = [dp EXCEPT ![p] = s] /\ name' = [name EXCEPT ![p] = n]
         /\ ip' = [ip EXCEPT ![p] = None] /\ path' = [path EXCEPT ![p] = <<>>]
         /\ Go(p, Resolved(p)) /\ UNCHANGED <<call, old>>
      \/ /\ ~(Parent(p) /\ rest = <<>>) /\ ~(~(Parent(p) /\ rest = <<>>) /\ i = None)
         /\ itable' = g.it /\ ip' = [ip EXCEPT ![p] = g.s]
         /\ path' = [path EXCEPT ![p] = rest] /\ Put(p, <<s>>, "walk") /\ UNCHANGED <<call, dp, name, old>>
  BY <1>4 DEF Walk
<1> HIDE DEF s, e, n, rest, i, g
<1>8. CASE Fails(p, <<s>>)
  <2>1. UNCHANGED <<cwd, fd>>  BY <1>1
  <2> QED BY <1>2, <1>8, <2>1, FailsQuiet
<1>9. CASE /\ Parent(p) /\ dp' = [dp EXCEPT ![p] = s] /\ name' = [name EXCEPT ![p] = n]
           /\ ip' = [ip EXCEPT ![p] = None] /\ path' = [path EXCEPT ![p] = <<>>]
           /\ Go(p, Resolved(p)) /\ UNCHANGED <<call, old>>
  <2>1. /\ dp'[p] = s /\ name'[p] = n /\ ip'[p] = None /\ path'[p] = <<>> /\ pc'[p] = Resolved(p) /\ old'[p] = old[p]
        /\ cwd'[p] = cwd[p] /\ fd'[p] = fd[p]
    BY <1>0, <1>1, <1>9 DEF Go, LocalTypes
  <2>2. Resolved(p) \in {"create", "link2", "unlink"}
    BY <1>9 DEF Resolved, Parent, Second
  <2>3. Ends(p)
    <3>1. PathRight(p)'  BY <1>6, <2>1 DEF PathRight, Range
    <3> QED BY <2>1, <2>2, <3>1 DEF Ends
  <2>4. At(p)' # "unlink3"  BY <2>1, <2>2 DEF At, Putting
  <2>5. Claims(p)' \subseteq Claims(p)  BY <2>1, <2>4, ClaimsStay
  <2>6. \A t \in Named(p)' : t \in Named(p) \/ Led(t)  BY <1>5, <2>1 DEF Named
  <2> QED BY <1>2, <2>3, <2>5, <2>6, QuietEnds
<1>10. CASE /\ ~(Parent(p) /\ rest = <<>>) /\ ~(~(Parent(p) /\ rest = <<>>) /\ i = None)
            /\ itable' = g.it /\ ip' = [ip EXCEPT ![p] = g.s]
            /\ path' = [path EXCEPT ![p] = rest] /\ Put(p, <<s>>, "walk") /\ UNCHANGED <<call, dp, name, old>>
  <2>1. i # None  BY <1>10
  <2>2. i = dirlookup(dirent[itable[s].inum], n)  BY <1>4 DEF i, e
  <2>3. i \in Inum
    <3>1. dirlookup(dirent[itable[s].inum], n) \in Inum \cup {None}  BY <1>4, LookedUp
    <3> QED BY <2>1, <2>2, <3>1
  <2>4. g.s \in Slot /\ Keeps(itable, g.it) /\ g.it[g.s].ref >= 1 /\ g.it[g.s].inum = i
    <3>1. None \in {p, None}  OBVIOUS
    <3> QED BY <1>1, <1>4, <2>3, <3>1, KeepsGot DEF g, s
  <2>5. itable'[g.s].inum = i /\ itable'[g.s].ref >= 1 /\ itable'[s].ref >= 1  BY <1>4, <1>10, <2>4 DEF Keeps
  <2>6. g.s \in Named(p) \/ Led(g.s)
    BY <1>4, <1>5, <1>6, <2>1, <2>2, <2>4, <2>5, GotLed DEF NamesInv
  <2>7. /\ ip'[p] = g.s /\ path'[p] = rest /\ pc'[p] = "put" /\ after'[p] = "walk"
        /\ dp'[p] = dp[p] /\ name'[p] = name[p] /\ old'[p] = old[p] /\ cwd'[p] = cwd[p] /\ fd'[p] = fd[p]
    BY <1>0, <1>1, <1>10 DEF Put, LocalTypes
  <2>8. Ends(p)
    <3>1. PathRight(p)'  BY <1>6, <2>7 DEF PathRight
    <3> QED BY <2>7, <3>1 DEF Ends
  <2>9. At(p)' # "unlink3"  BY <2>7 DEF At, Putting
  <2>10. Claims(p)' \subseteq Claims(p)  BY <2>7, <2>9, ClaimsStay
  <2>11. \A t \in Named(p)' : t \in Named(p) \/ t = g.s  BY <2>7 DEF Named
  <2>12. \A t \in Named(p)' : t \in Named(p) \/ Led(t)  BY <2>6, <2>11
  <2> QED BY <1>2, <2>8, <2>10, <2>12, QuietEnds
<1> QED BY <1>7, <1>8, <1>9, <1>10

LEMMA WalkEndNames ==
  ASSUME TableInv, NamesInv, NEW p \in Procs, Others(p), SameInums, WalkEnd(p)
  PROVE  NamesInv'
<1>1. /\ pc[p] = "walk" /\ UNCHANGED <<diskVars, itable, cwd, fd, calls, lost>>
      /\ \/ Fails(p, <<ip[p]>>)
         \/ ~Parent(p) /\ Go(p, Resolved(p)) /\ UNCHANGED localVars
  BY DEF WalkEnd
<1>2. DiskQuiet  BY <1>1, StaySame
<1>3. CASE Fails(p, <<ip[p]>>)
  <2>1. UNCHANGED <<cwd, fd>>  BY <1>1
  <2> QED BY <1>2, <1>3, <2>1, FailsQuiet
<1>4. CASE ~Parent(p) /\ Go(p, Resolved(p)) /\ UNCHANGED localVars
  <2>0. LocalTypes /\ call[p] \in Calls \cup {None}  BY LocalFacts
  <2>1. LocalsAt(pc[p], call[p], ip[p], dp[p], old[p], fd[p])  BY <1>1, AtPlace DEF Putting
  <2>2. call[p] \in Calls /\ call[p].k \notin {"read", "write", "close"}  BY <1>1, <2>1 DEF LocalsAt
  <2>3. call[p].k \in Kinds  BY <2>2, CallsAssumption
  <2>4. call[p].k \in {"open", "link", "chdir"} /\ Resolved(p) = call[p].k
    BY <1>4, <2>2, <2>3 DEF Kinds, Parent, Resolved, Second
  <2>5. pc'[p] = call[p].k  BY <1>4, <2>0, <2>4 DEF Go, LocalTypes
  <2>6. pc'[p] \notin {"free", "create2", "unlink2"} /\ (At(p)' = "unlink3" => At(p) = "unlink3")
    BY <2>4, <2>5 DEF At, Putting
  <2>7. UNCHANGED <<path, ip, dp, name, old, cwd, fd>>  BY <1>1, <1>4 DEF localVars
  <2> QED BY <1>2, <2>6, <2>7, GoQuiet
<1> QED BY <1>1, <1>3, <1>4

LEMMA CreateLookupNames ==
  ASSUME TableInv, NamesInv, TableInv', NEW p \in Procs, Others(p), SameInums, CreateLookup(p)
  PROVE  NamesInv'
<1> DEFINE s == dp[p]
           i == dirlookup(dirent[itable[s].inum], name[p])
           g == iget(Taken(s, p), i)
<1>0. LocalTypes  BY LocalFacts
<1>1. pc[p] = "create" /\ CanLock(s)  BY DEF CreateLookup
<1>2. s = Locks(p)  BY <1>1 DEF Locks
<1>3. /\ s \in Slot /\ itable[s].ref >= 1
      /\ [itable EXCEPT ![s] = ilock(p, s)] = Taken(s, p)
      /\ \A l \in {p, None} : Taken(s, l)[s].inum = itable[s].inum
      /\ itable[s].inum \in Inum
  BY <1>1, <1>2, LockTable DEF Lockers
<1>4. p \in {p, None}  OBVIOUS
<1>5. Taken(s, p)[s].inum = itable[s].inum  BY <1>3, <1>4
<1>6. /\ i # None /\ itable' = [g.it EXCEPT ![s] = iunlock(@)]
      /\ ip' = [ip EXCEPT ![p] = g.s] /\ dp' = [dp EXCEPT ![p] = None] /\ Put(p, <<s>>, "existing")
      /\ UNCHANGED <<diskVars, cwd, fd, call, path, name, old, calls, lost>>
  BY <1>3, <1>5 DEF CreateLookup
<1>7. DiskQuiet  BY <1>6, StaySame
<1>8. s \in Named(p) /\ s # None  BY <1>3, Constants DEF Named
<1>9. name[p] # ".."  BY <1>8 DEF NamesInv, Mine, PathRight
<1>10. i \in Inum
  <2>1. i \in Inum \cup {None}  BY <1>3, LookedUp
  <2> QED BY <1>6, <2>1
<1>11. /\ g.s \in Slot /\ g.it \in [Slot -> TableEntry] /\ Keeps(itable, g.it)
       /\ g.it[g.s].ref >= 1 /\ g.it[g.s].inum = i
  <2>1. CanLock(s)  BY <1>1
  <2> HIDE DEF s, i
  <2> QED BY <1>3, <1>4, <1>10, <2>1, KeepsGot
<1> HIDE DEF s, g, i
<1>12. itable'[g.s].inum = i /\ itable'[g.s].ref >= 1 /\ itable'[s].ref >= 1
  <2> DEFINE j == g.it
  <2>1. itable' = [j EXCEPT ![s] = iunlock(j[s])]  BY <1>6
  <2>2. Keeps(j, [j EXCEPT ![s] = iunlock(j[s])])  BY <1>3, <1>11, KeepsUnlocked
  <2> HIDE DEF j
  <2>3. Keeps(j, itable')  BY <2>1, <2>2
  <2>4. j[s].ref >= 1  BY <1>3, <1>11 DEF j, Keeps
  <2> QED BY <1>3, <1>11, <2>3, <2>4 DEF j, Keeps
<1>13. g.s \in Named(p) \/ Led(g.s)
  <2>1. i = dirlookup(dirent[itable[s].inum], name[p])  BY DEF i
  <2> QED BY <1>3, <1>6, <1>8, <1>9, <1>11, <1>12, <2>1, GotLed DEF NamesInv
<1>14. /\ ip'[p] = g.s /\ dp'[p] = None /\ path'[p] = path[p] /\ pc'[p] = "put" /\ after'[p] = "existing"
       /\ name'[p] = name[p] /\ old'[p] = old[p] /\ cwd'[p] = cwd[p] /\ fd'[p] = fd[p]
  BY <1>0, <1>6 DEF Put, LocalTypes
<1>15. Ends(p)
  <2>1. PathRight(p)'  BY <1>14 DEF NamesInv, Mine, PathRight
  <2> QED BY <1>14, <2>1 DEF Ends
<1>16. At(p)' # "unlink3"  BY <1>14 DEF At, Putting
<1>17. Claims(p)' \subseteq Claims(p)  BY <1>14, <1>16, ClaimsStay
<1>18. \A t \in Named(p)' : t \in Named(p) \/ t = g.s  BY <1>14 DEF Named
<1>19. \A t \in Named(p)' : t \in Named(p) \/ Led(t)  BY <1>13, <1>18
<1> QED BY <1>7, <1>15, <1>17, <1>19, QuietEnds

LEMMA CreateExistingNames ==
  ASSUME TableInv, NamesInv, NEW p \in Procs, Others(p), SameInums, CreateExisting(p)
  PROVE  NamesInv'
<1>0. LocalTypes  BY LocalFacts
<1>1. /\ pc[p] = "existing" /\ UNCHANGED <<diskVars, cwd, fd, calls, lost>>
      /\ (Go(p, "opened") /\ UNCHANGED localVars) \/ Done(p, <<ip[p]>>)
  BY DEF CreateExisting
<1>2. CASE Done(p, <<ip[p]>>)
  <2>1. UNCHANGED <<diskVars, cwd, fd>>  BY <1>1
  <2> QED BY <1>2, <2>1, DoneStill
<1>3. CASE Go(p, "opened") /\ UNCHANGED localVars
  <2>1. pc'[p] = "opened"  BY <1>0, <1>3 DEF Go, LocalTypes
  <2>2. pc'[p] \notin {"free", "create2", "unlink2"} /\ (At(p)' = "unlink3" => At(p) = "unlink3")
    BY <2>1 DEF At, Putting
  <2>3. UNCHANGED <<path, ip, dp, name, old, cwd, fd>>  BY <1>1, <1>3 DEF localVars
  <2>4. DiskQuiet  BY <1>1, StaySame
  <2> QED BY <2>2, <2>3, <2>4, GoQuiet
<1> QED BY <1>1, <1>2, <1>3

LEMMA OpenLockNames ==
  ASSUME TableInv, NamesInv, NEW p \in Procs, Others(p), SameInums, OpenLock(p)
  PROVE  NamesInv'
<1>0. LocalTypes  BY LocalFacts
<1>1. /\ pc[p] = "open" /\ UNCHANGED <<diskVars, cwd, fd, calls, lost>>
      /\ (Go(p, "opened") /\ UNCHANGED localVars) \/ Done(p, <<ip[p]>>)
  BY DEF OpenLock
<1>2. CASE Done(p, <<ip[p]>>)
  <2>1. UNCHANGED <<diskVars, cwd, fd>>  BY <1>1
  <2> QED BY <1>2, <2>1, DoneStill
<1>3. CASE Go(p, "opened") /\ UNCHANGED localVars
  <2>1. pc'[p] = "opened"  BY <1>0, <1>3 DEF Go, LocalTypes
  <2>2. pc'[p] \notin {"free", "create2", "unlink2"} /\ (At(p)' = "unlink3" => At(p) = "unlink3")
    BY <2>1 DEF At, Putting
  <2>3. UNCHANGED <<path, ip, dp, name, old, cwd, fd>>  BY <1>1, <1>3 DEF localVars
  <2>4. DiskQuiet  BY <1>1, StaySame
  <2> QED BY <2>2, <2>3, <2>4, GoQuiet
<1> QED BY <1>1, <1>2, <1>3

\* What iupdate() writes, of an inode whose count of links changes by m.
Adds(i, m) ==
  \A k \in Inum : /\ dinode'[k].type = dinode[k].type
                  /\ dinode'[k].nlink = IF k = i THEN dinode[k].nlink + m ELSE dinode[k].nlink

LEMMA WroteAdds ==
  ASSUME TableInv, NEW it, NEW s, it[s].inum \in Inum, NEW m, iupdate(it, {s}),
         it[s].ino.type = dinode[it[s].inum].type, it[s].ino.nlink = dinode[it[s].inum].nlink + m
  PROVE  Adds(it[s].inum, m)
<1>1. dinode \in [Inum -> Dinode]  BY TableFacts DEF DiskTypes
<1>2. dinode' = [dinode EXCEPT ![it[s].inum] = it[s].ino]  BY <1>1, IupdateOne
<1> QED BY <1>1, <1>2 DEF Adds

LEMMA AddsNone ==
  ASSUME TableInv, NEW i, Adds(i, 0), UNCHANGED dirent
  PROVE  DiskQuiet
<1>1. \A k \in Inum : dinode[k].nlink \in Int  BY LinksCount
<1>2. \A k \in Inum : dinode'[k].type = dinode[k].type /\ dinode'[k].nlink = dinode[k].nlink  BY <1>1 DEF Adds
<1> QED BY <1>2 DEF DiskQuiet

\* The entry that a process loads and locks.
LEMMA LoadedInode ==
  ASSUME TableInv, NEW s \in Slot, itable[s].ref >= 1, CanLock(s)
  PROVE  /\ Loaded(s) \in TableEntry /\ Loaded(s).inum = itable[s].inum /\ itable[s].inum \in Inum
         /\ Loaded(s).ino = dinode[itable[s].inum] /\ Loaded(s).ino \in Dinode /\ Loaded(s).ino.type # "none"
         /\ itable[s].lock = None
<1>1. None \in Procs \cup {None}  OBVIOUS
<1>2. /\ Take(s, None) \in TableEntry /\ Take(s, None).inum = itable[s].inum /\ itable[s].inum \in Inum
      /\ Take(s, None).ino = dinode[itable[s].inum]
      /\ Take(s, None).ino \in Dinode /\ Take(s, None).ino.type # "none"
      /\ itable[s].lock = None /\ Loaded(s) = Take(s, None)
  BY <1>1, TakeOK
<1> QED BY <1>2

LEMMA FilewriteQuiet == ASSUME TableInv, NEW p \in Procs, filewrite(p) PROVE DiskQuiet
<1> DEFINE s == fd[p].ip
           x == Loaded(s)
           w == writei(x.ino, Space, fd[p].off)
           e == [x EXCEPT !.ino = w.ino]
           j == itable'
           i == itable[s].inum
<1>1. /\ pc[p] = "write" /\ CanLock(s) /\ j = [itable EXCEPT ![s] = e] /\ iupdate(j, {s}) /\ UNCHANGED dirent
  BY DEF filewrite
<1>2. pc[p] \in Lockers /\ s = Locks(p)  BY <1>1 DEF Lockers, Locks
<1>3. s \in Slot /\ itable[s].ref >= 1  BY <1>2, LocksUsed
<1>4. fd[p].off \in Nat
  <2>1. pc[p] \notin Putting  BY <1>1 DEF Putting
  <2>2. LocalsAt("write", call[p], ip[p], dp[p], old[p], fd[p])  BY <1>1, <2>1, AtPlace
  <2>3. fd[p] \in OpenFile  BY <2>2, LocalFacts DEF LocalsAt
  <2> QED BY <2>3 DEF OpenFile
<1> HIDE DEF s
<1>5. x \in TableEntry /\ x.inum = i /\ i \in Inum /\ x.ino = dinode[i] /\ x.ino \in Dinode /\ x.ino.type # "none"
  BY <1>1, <1>3, LoadedInode
<1> HIDE DEF x, i
<1>6. BlocksOf(x.ino, Space.ind) \subseteq Space.used /\ Space \in Spaces  BY <1>5, OwnUsed
<1>7. Kind(x.ino, w.ino)  BY <1>4, <1>5, <1>6, WriteiOK
<1> HIDE DEF w
<1>8. w.ino \in Dinode /\ w.ino.type = x.ino.type /\ w.ino.nlink = x.ino.nlink  BY <1>7 DEF Kind
<1>9. itable \in [Slot -> TableEntry]  BY TableFacts
<1>10. e.inum = i /\ e.ino = w.ino  BY <1>5 DEF TableEntry
<1>11. j[s] = e  BY <1>1, <1>3, <1>9
<1>12. dinode[i].nlink \in Int  BY <1>5, LinksCount
<1>13. j[s].inum = i /\ j[s].ino.type = dinode[i].type /\ j[s].ino.nlink = dinode[i].nlink + 0
  BY <1>5, <1>8, <1>10, <1>11, <1>12
<1> HIDE DEF j, e
<1>14. Adds(j[s].inum, 0)  BY <1>1, <1>5, <1>13, WroteAdds
<1> QED BY <1>1, <1>14, AddsNone

LEMMA FilewriteNames ==
  ASSUME TableInv, NamesInv, NEW p \in Procs, Others(p), SameInums, filewrite(p)
  PROVE  NamesInv'
<1>1. pc[p] = "write" /\ Done(p, <<>>) /\ UNCHANGED cwd
      /\ \E off : fd' = [fd EXCEPT ![p].off = off]
  BY DEF filewrite
<1>2. DiskQuiet  BY FilewriteQuiet
<1>3. pc[p] \notin Putting  BY <1>1 DEF Putting
<1>4. LocalsAt("write", call[p], ip[p], dp[p], old[p], fd[p])  BY <1>1, <1>3, AtPlace
<1>5. LocalTypes /\ fd[p] \in OpenFile  BY <1>4, LocalFacts DEF LocalsAt
<1>6. fd'[p].ip = fd[p].ip  BY <1>1, <1>5 DEF LocalTypes, OpenFile
<1>7. cwd'[p] \in Named(p) /\ (fd'[p] = None \/ fd'[p].ip \in Named(p))
  <2>1. fd[p] # None  BY <1>4 DEF LocalsAt
  <2> QED BY <1>1, <1>6, <2>1, SamePlaces
<1> QED BY <1>1, <1>2, <1>7, DoneQuiet

LEMMA FilereadNames ==
  ASSUME TableInv, NamesInv, NEW p \in Procs, Others(p), SameInums, fileread(p)
  PROVE  NamesInv'
<1>1. pc[p] = "read" /\ Done(p, <<>>) /\ UNCHANGED <<diskVars, cwd>>
      /\ \E off : fd' = [fd EXCEPT ![p].off = off]
  BY DEF fileread
<1>2. DiskQuiet  BY <1>1, StaySame
<1>3. pc[p] \notin Putting  BY <1>1 DEF Putting
<1>4. LocalsAt("read", call[p], ip[p], dp[p], old[p], fd[p])  BY <1>1, <1>3, AtPlace
<1>5. LocalTypes /\ fd[p] \in OpenFile  BY <1>4, LocalFacts DEF LocalsAt
<1>6. fd'[p].ip = fd[p].ip  BY <1>1, <1>5 DEF LocalTypes, OpenFile
<1>7. cwd'[p] \in Named(p) /\ (fd'[p] = None \/ fd'[p].ip \in Named(p))
  <2>1. fd[p] # None  BY <1>4 DEF LocalsAt
  <2> QED BY <1>1, <1>6, <2>1, SamePlaces
<1> QED BY <1>1, <1>2, <1>7, DoneQuiet

LEMMA ChdirNames ==
  ASSUME TableInv, NamesInv, NEW p \in Procs, Others(p), SameInums, sys_chdir(p)
  PROVE  NamesInv'
<1>1. /\ pc[p] = "chdir" /\ UNCHANGED <<diskVars, fd>>
      /\ \/ Done(p, <<ip[p]>>) /\ cwd' = cwd
         \/ Done(p, <<cwd[p]>>) /\ cwd' = [cwd EXCEPT ![p] = ip[p]]
  BY DEF sys_chdir
<1>2. DiskQuiet  BY <1>1, StaySame
<1>3. pc[p] \notin Putting  BY <1>1 DEF Putting
<1>4. LocalsAt("chdir", call[p], ip[p], dp[p], old[p], fd[p])  BY <1>1, <1>3, AtPlace
<1>5. LocalTypes /\ ip[p] # None  BY <1>4, LocalFacts DEF LocalsAt, Walked
<1>6. ip[p] \in Named(p) /\ cwd[p] \in Named(p)  BY <1>5, SamePlaces
<1>7. cwd'[p] \in Named(p)  BY <1>1, <1>5, <1>6 DEF LocalTypes
<1>8. fd'[p] = None \/ fd'[p].ip \in Named(p)  BY <1>1, SamePlaces
<1>9. CASE Done(p, <<ip[p]>>)  BY <1>2, <1>7, <1>8, <1>9, DoneQuiet
<1>10. CASE Done(p, <<cwd[p]>>)  BY <1>2, <1>7, <1>8, <1>10, DoneQuiet
<1> QED BY <1>1, <1>9, <1>10

LEMMA OpenedQuiet == ASSUME TableInv, NEW p \in Procs, Opened(p) PROVE DiskQuiet
<1> DEFINE s == ip[p]
           r == itrunc(itable[s].ino, Space)
           x == itable[s]
           i == x.inum
<1>1. pc[p] = "opened"  BY DEF Opened
<1>2. pc[p] \notin Putting  BY <1>1 DEF Putting
<1>3. LocalsAt("opened", call[p], ip[p], dp[p], old[p], fd[p]) /\ Held(p) = {s}
  BY <1>1, <1>2, AtPlace DEF HeldAt
<1>4. s \in Slot /\ s \in Held(p)  BY <1>3, LocalFacts DEF LocalsAt, Walked
<1>5. x \in TableEntry /\ i \in Inum /\ x.ino = dinode[i] /\ x.ino \in Dinode  BY <1>4, HeldFacts
<1>6. CASE UNCHANGED diskVars  BY <1>6, StaySame
<1>7. CASE ~UNCHANGED diskVars
  <2>1. UNCHANGED dirent /\ iupdate(itable', {s})
        /\ \E e \in {iunlock(x), iunlock([x EXCEPT !.ino = r.ino])} : itable' = [itable EXCEPT ![s] = e]
    <3>1. /\ itable' = [itable EXCEPT ![s] = iunlock(
                  IF call[p].trunc /\ itable[s].ino.type = "file" THEN [@ EXCEPT !.ino = r.ino] ELSE @)]
          /\ iupdate(itable', {s}) /\ UNCHANGED dirent
      BY <1>7 DEF Opened
    <3>2. CASE call[p].trunc /\ itable[s].ino.type = "file"  BY <3>1, <3>2
    <3>3. CASE ~(call[p].trunc /\ itable[s].ino.type = "file")  BY <3>1, <3>3
    <3> QED BY <3>1, <3>2, <3>3
  <2>2. PICK e \in {iunlock(x), iunlock([x EXCEPT !.ino = r.ino])} : itable' = [itable EXCEPT ![s] = e]  BY <2>1
  <2>3. r.ino.type = x.ino.type /\ r.ino.nlink = x.ino.nlink  BY <1>5 DEF itrunc, Dinode
  <2>4. dinode[i].nlink \in Int  BY <1>5, LinksCount
  <2>5. itable \in [Slot -> TableEntry]  BY TableFacts
  <2> HIDE DEF r, x
  <2>6. e.inum = i /\ e.ino.type = x.ino.type /\ e.ino.nlink = x.ino.nlink
    <3>1. CASE e = iunlock(x)  BY <1>5, <3>1 DEF iunlock, TableEntry, i
    <3>2. CASE e = iunlock([x EXCEPT !.ino = r.ino])  BY <1>5, <2>3, <3>2 DEF iunlock, TableEntry, i
    <3> QED BY <2>2, <3>1, <3>2
  <2> DEFINE j == itable'
  <2>7. j[s] = e  BY <1>4, <2>2, <2>5
  <2>8. iupdate(j, {s})  BY <2>1
  <2> HIDE DEF j, s, i
  <2>9. j[s].inum = i /\ j[s].ino.type = dinode[i].type /\ j[s].ino.nlink = dinode[i].nlink + 0
    BY <1>5, <2>4, <2>6, <2>7
  <2>10. Adds(j[s].inum, 0)  BY <1>5, <2>8, <2>9, WroteAdds
  <2> QED BY <2>1, <2>10, AddsNone
<1> QED BY <1>6, <1>7

LEMMA OpenedNames ==
  ASSUME TableInv, NamesInv, NEW p \in Procs, Others(p), SameInums, Opened(p)
  PROVE  NamesInv'
<1>1. /\ pc[p] = "opened" /\ UNCHANGED cwd
      /\ \/ Done(p, <<ip[p]>>) /\ fd' = fd
         \/ Done(p, <<>>) /\ fd' = [fd EXCEPT ![p] = [ip |-> ip[p], off |-> 0]]
  BY DEF Opened
<1>2. DiskQuiet  BY OpenedQuiet
<1>3. pc[p] \notin Putting  BY <1>1 DEF Putting
<1>4. LocalsAt("opened", call[p], ip[p], dp[p], old[p], fd[p])  BY <1>1, <1>3, AtPlace
<1>5. LocalTypes /\ ip[p] # None  BY <1>4, LocalFacts DEF LocalsAt, Walked
<1>6. cwd'[p] \in Named(p) /\ ip[p] \in Named(p)  BY <1>1, <1>5, SamePlaces
<1>7. CASE Done(p, <<ip[p]>>) /\ fd' = fd
  <2>1. fd'[p] = None \/ fd'[p].ip \in Named(p)  BY <1>7, SamePlaces
  <2> QED BY <1>2, <1>6, <1>7, <2>1, DoneQuiet
<1>8. CASE Done(p, <<>>) /\ fd' = [fd EXCEPT ![p] = [ip |-> ip[p], off |-> 0]]
  <2>1. fd'[p].ip = ip[p]  BY <1>5, <1>8 DEF LocalTypes
  <2>2. fd'[p] = None \/ fd'[p].ip \in Named(p)  BY <1>6, <2>1
  <2> QED BY <1>2, <1>6, <1>8, <2>2, DoneQuiet
<1> QED BY <1>1, <1>7, <1>8

-----------------------------------------------------------------------------
(* iput()                                                                    *)

LEMMA RestNames ==
  ASSUME TableInv, NamesInv, NEW p \in Procs, pc[p] \in Putting, Others(p), SameInums, Rest(p),
         UNCHANGED <<diskVars, cwd, fd, localVars>>
  PROVE  NamesInv'
<1>0. LocalTypes /\ after[p] \in Returns /\ At(p) = after[p] /\ Len(puts[p]) \in {1, 2}  BY LocalFacts, AtPut
<1>1. \/ pc'[p] = after[p]
      \/ pc'[p] = "put" /\ after'[p] = after[p]
  BY <1>0 DEF Rest, LocalTypes
<1>2. pc'[p] \notin {"free", "create2", "unlink2"} /\ (At(p)' = "unlink3" => At(p) = "unlink3")
  BY <1>0, <1>1 DEF Returns, At, Putting
<1>3. DiskQuiet  BY StaySame
<1>4. UNCHANGED <<path, ip, dp, name, old, cwd, fd>>  BY DEF localVars
<1> QED BY <1>2, <1>3, <1>4, GoQuiet

\* Who puts the last reference is the only one that knows of the entry.
LEMMA LastNamed ==
  ASSUME TableInv, NEW p \in Procs, pc[p] = "put", itable[Head(puts[p])].ref = 1, NEW q \in Procs
  PROVE  Head(puts[p]) \notin Named(q)
<1> DEFINE s == Head(puts[p])
           n == [x \in Procs |-> Pointers(x, s)]
<1>0. pc[p] \in Putting  BY DEF Putting
<1>1. s \in Slot /\ puts[p] # <<>> /\ Len(puts[p]) \in {1, 2} /\ s = puts[p][1]  BY <1>0, AtPut
<1> SUFFICES ASSUME s \in Named(q) PROVE FALSE  OBVIOUS
<1>2. Counted /\ LocalTypes  BY TableFacts
<1>3. n \in [Procs -> 0 .. MaxPointers]  BY PointersType
<1>4. Pointers(p, s) >= 1  BY <1>1, <1>2, UsedBy
<1>5. Pointers(q, s) >= 1  BY NamedUsed
<1>6. q = p => Pointers(p, s) >= 2
  <2> SUFFICES ASSUME q = p PROVE Pointers(p, s) >= 2  OBVIOUS
  <2>1. s \in {cwd[p], ip[p], dp[p], old[p]} \/ (fd[p] # None /\ fd[p].ip = s)  BY DEF Named
  <2>2. Pointers(p, s) = One(cwd[p] = s) + One(ip[p] = s) + One(dp[p] = s) + One(old[p] = s)
          + One(fd[p] # None /\ fd[p].ip = s)
          + One(Len(puts[p]) >= 1 /\ puts[p][1] = s) + One(Len(puts[p]) >= 2 /\ puts[p][2] = s)
    BY DEF Pointers
  <2>3. One(Len(puts[p]) >= 1 /\ puts[p][1] = s) = 1  BY <1>1 DEF One
  <2>4. One(cwd[p] = s) = 1 \/ One(ip[p] = s) = 1 \/ One(dp[p] = s) = 1 \/ One(old[p] = s) = 1
          \/ One(fd[p] # None /\ fd[p].ip = s) = 1
    <3> HIDE DEF s
    <3> QED BY <2>1 DEF One
  <2>5. \A b : One(b) \in {0, 1}  BY DEF One
  <2> HIDE DEF s
  <2> QED BY <2>2, <2>3, <2>4, <2>5
<1>7. n[p] = Pointers(p, s) /\ n[q] = Pointers(q, s) /\ itable[s].ref = Total(n) /\ itable[s].ref = 1
  BY <1>1, <1>2 DEF Counted
<1> HIDE DEF n, s
<1>8. n[p] >= 1 /\ n[q] >= 1 /\ (p = q => n[p] >= 2)  BY <1>4, <1>5, <1>6, <1>7
<1>9. Total(n) >= 2  BY <1>3, <1>8, CountedTwice
<1> QED BY <1>7, <1>9

LEMMA PutLastNames ==
  ASSUME TableInv, NamesInv, NEW p \in Procs, Others(p), SameInums, PutLast(p)
  PROVE  NamesInv'
<1> DEFINE s == Head(puts[p])
           i == itable[s].inum
<1>0. LocalTypes  BY LocalFacts
<1>1. /\ pc[p] = "put" /\ itable[s].ref = 1 /\ itable[s].valid /\ itable[s].ino.nlink = 0
      /\ pc' = [pc EXCEPT ![p] = "free"]
      /\ UNCHANGED <<diskVars, cwd, fd, localVars, puts, after>>
  BY DEF PutLast
<1>2. pc[p] \in Putting  BY <1>1 DEF Putting
<1>3. s \in Slot /\ after[p] \in Returns /\ At(p) = after[p] /\ itable[s].ref >= 1  BY <1>2, AtPut
<1>4. DiskQuiet /\ dinode' = dinode /\ dirent' = dirent  BY <1>1, StaySame DEF diskVars
<1>5. pc'[p] = "free" /\ At(p)' = At(p) /\ puts' = puts  BY <1>0, <1>1, <1>3 DEF At, Putting, LocalTypes
<1>6. UNCHANGED <<path, ip, dp, name, old, cwd, fd>>  BY <1>1 DEF localVars
<1>7. Named(p)' = Named(p)  BY <1>6 DEF Named
<1>8. Claims(p)' \subseteq Claims(p)  BY <1>5, <1>6, ClaimsStay
<1>9. CountsRight'  BY <1>4, <1>8, QuietCounts DEF NamesInv
<1>10. Frame(p)
  <2>1. \A t \in Named(p)' : t \in Named(p) \/ Led(t)  BY <1>7
  <2> QED BY <1>4, <2>1, QuietFrame DEF NamesInv
<1>11. Users'  BY <1>10, FrameUsers DEF NamesInv
<1>12. \A q \in Procs : Named(q)' = Named(q)  BY <1>7, OthersNamed
<1>13. ASSUME NEW q \in Procs, NEW t \in Slot PROVE OrphanRight(q, t)'
  <2>1. CASE q # p  BY <1>10, <2>1, FrameOrphans DEF NamesInv
  <2>2. CASE q = p
    <3> SUFFICES ASSUME Orphan(p, t)' PROVE Gone(itable[t].inum)' /\ \A r \in Procs : t \notin Named(r)'
      BY <2>2 DEF OrphanRight
    <3>1. t = s  BY <1>5 DEF Orphan
    <3>2. itable'[s].inum = i  BY <1>3 DEF SameInums
    <3>3. Gone(i)
      <4>1. TableOK(itable, dinode)  BY TableFacts
      <4>2. itable[s].ref > 0  BY <1>1
      <4>3. itable[s].ino = dinode[i] /\ itable[s].ino.type # "none"
        BY <1>1, <1>3, <4>1, <4>2 DEF TableOK, CopiesRight
      <4> QED BY <1>1, <4>3 DEF Gone
    <3>4. Gone(itable[t].inum)'  BY <1>4, <3>1, <3>2, <3>3 DEF Gone
    <3>5. \A r \in Procs : t \notin Named(r)'  BY <1>1, <1>12, <3>1, LastNamed
    <3> QED BY <3>4, <3>5
  <2> QED BY <2>1, <2>2
<1>14. Mine(p)'
  <2>1. Mine(p)  BY DEF NamesInv
  <2>2. OldRight(p)'
    <3> SUFFICES ASSUME old[p] # None PROVE dinode'[itable'[old[p]].inum].type # "dir"
      BY <1>6 DEF OldRight, Of
    <3>1. old[p] \in Named(p)  BY DEF Named
    <3>2. itable'[old[p]].inum = itable[old[p]].inum  BY <3>1, NamedUsed DEF SameInums
    <3> QED BY <1>4, <2>1, <3>2 DEF Mine, OldRight, Of
  <2>3. UnlinkRight(p)'  BY <1>5 DEF UnlinkRight
  <2>4. PathRight(p)'  BY <1>6, <2>1 DEF Mine, PathRight
  <2>5. NewRight(p)'  BY <1>5 DEF NewRight
  <2> QED BY <2>2, <2>3, <2>4, <2>5 DEF Mine
<1>15. \A q \in Procs : Mine(q)'
  <2>1. ASSUME NEW q \in Procs, q # p PROVE Mine(q)'  BY <1>10, <2>1, FrameMine DEF NamesInv
  <2> QED BY <1>14, <2>1
<1> QED BY <1>9, <1>11, <1>13, <1>15 DEF NamesInv, Orphans

\* Entries go, and no inode that has a name becomes a directory: there are no more links.
Fewer(D, E, D2, E2) ==
  /\ \A d \in Inum : \A k \in DOMAIN E2[d] :
       E2[d][k].inum # None => k \in DOMAIN E[d] /\ E2[d][k] = E[d][k]
  /\ \A d \in Inum : D2[d].type = "dir" /\ NamesOf(E2, d) # {} =>
       D[d].type = "dir" /\ dirlookup(E2[d], "..") = dirlookup(E[d], "..")

LEMMA LinksLess ==
  ASSUME NEW D, NEW E, NEW D2, NEW E2, Fewer(D, E, D2, E2), NEW i \in Inum
  PROVE  /\ NamesOf(E2, i) \subseteq NamesOf(E, i) /\ Below(D2, E2, i) \subseteq Below(D, E, i)
         /\ Links(D2, E2, i) \subseteq Links(D, E, i)
         /\ OneName(D, E, i) => OneName(D2, E2, i)
<1>0. /\ None \notin Inum
      /\ \A d \in Inum : \A k \in DOMAIN E2[d] :
           E2[d][k].inum # None => k \in DOMAIN E[d] /\ E2[d][k] = E[d][k]
      /\ \A d \in Inum : D2[d].type = "dir" /\ NamesOf(E2, d) # {} =>
           D[d].type = "dir" /\ dirlookup(E2[d], "..") = dirlookup(E[d], "..")
  BY Constants DEF Fewer
<1>1. ASSUME NEW j \in Inum PROVE NamesOf(E2, j) \subseteq NamesOf(E, j)
  <2>1. \A d \in Inum : \A k \in DOMAIN E2[d] :
           E2[d][k].inum = j /\ E2[d][k].name # ".." /\ ~(E2[d][k].name = "." /\ d = j) =>
             k \in DOMAIN E[d] /\ E2[d][k] = E[d][k]
    BY <1>0
  <2> QED BY <2>1, NamesLess
<1>2. Below(D2, E2, i) \subseteq Below(D, E, i)
  <2> SUFFICES ASSUME NEW d \in Below(D2, E2, i) PROVE d \in Below(D, E, i)  OBVIOUS
  <2>1. d \in Inum \ {ROOTINO} /\ D2[d].type = "dir" /\ dirlookup(E2[d], "..") = i /\ NamesOf(E2, d) # {}
    BY DEF Below
  <2>2. D[d].type = "dir" /\ dirlookup(E[d], "..") = i /\ NamesOf(E, d) # {}  BY <1>0, <1>1, <2>1
  <2> QED BY <2>1, <2>2 DEF Below
<1>3. Links(D2, E2, i) \subseteq Links(D, E, i)
  <2>1. NamesOf(E2, i) \subseteq NamesOf(E, i)  BY <1>1
  <2> SUFFICES ASSUME NEW x \in Links(D2, E2, i) PROVE x \in Links(D, E, i)  OBVIOUS
  <2> QED BY <1>2, <2>1, LinksIn
<1>4. ASSUME OneName(D, E, i) PROVE OneName(D2, E2, i)
  <2> SUFFICES ASSUME D2[i].type = "dir", NamesOf(E2, i) # {}
               PROVE  /\ \A x, y \in NamesOf(E2, i) : x = y /\ x[1] = dirlookup(E2[i], "..")
                      /\ i = ROOTINO => NamesOf(E2, i) = {}
    BY DEF OneName
  <2>1. D[i].type = "dir" /\ dirlookup(E2[i], "..") = dirlookup(E[i], "..")  BY <1>0
  <2>2. /\ \A x, y \in NamesOf(E, i) : x = y /\ x[1] = dirlookup(E[i], "..")
        /\ i = ROOTINO => NamesOf(E, i) = {}
    BY <1>4, <2>1 DEF OneName
  <2>3. NamesOf(E2, i) \subseteq NamesOf(E, i)  BY <1>1
  <2> QED BY <2>1, <2>2, <2>3
<1> QED BY <1>1, <1>2, <1>3, <1>4

\* An inode has no more due than before, and counts what it did; or it is free.
LEMMA CountKept ==
  ASSUME TableInv, NEW p \in Procs, Others(p), SameInums, NEW i \in Inum, CountRight(i),
         Links(dinode', dirent', i) \subseteq Links(dinode, dirent, i), i \in Claims(p)' => i \in Claims(p),
         dinode'[i].nlink = dinode[i].nlink,
         dinode'[i].type = "none" => dinode[i].nlink = 0,
         OneName(dinode, dirent, i) => OneName(dinode', dirent', i)
  PROVE  CountRight(i)'
<1>1. /\ Cardinality(Due(i)') <= Cardinality(Due(i))
      /\ Cardinality(Due(i)') \in Nat /\ Cardinality(Due(i)) \in Nat
  BY DueLess
<1>2. dinode[i].nlink \in Int  BY LinksCount
<1>3. Cardinality(Due(i)) <= dinode[i].nlink /\ OneName(dinode, dirent, i)  BY DEF CountRight
<1> HIDE DEF Due
<1>4. Cardinality(Due(i)') <= dinode'[i].nlink  BY <1>1, <1>2, <1>3
<1> QED BY <1>3, <1>4 DEF CountRight

LEMMA PutFreeNames ==
  ASSUME TableInv, NamesInv, NEW p \in Procs, Others(p), SameInums, PutFree(p)
  PROVE  NamesInv'
<1> DEFINE h == Head(puts[p])
           i == itable[h].inum
           r == itrunc(itable[h].ino, Space)
           ino2 == [r.ino EXCEPT !.type = "none"]
           e == [itable[h] EXCEPT !.valid = FALSE, !.lock = None, !.ino = ino2]
<1>0. LocalTypes /\ dinode \in [Inum -> Dinode] /\ dirent \in [Inum -> Seq(DirEntry)]
  BY LocalFacts, TableFacts DEF DiskTypes
<1>1. /\ pc[p] = "free" /\ itable' = [itable EXCEPT ![h] = e] /\ iupdate(itable', {h})
      /\ dirent' = [dirent EXCEPT ![i] = <<>>]
      /\ pc' = [pc EXCEPT ![p] = "unref"]
      /\ UNCHANGED <<cwd, fd, localVars, puts, after>>
  BY DEF PutFree
<1>2. pc[p] \in Putting  BY <1>1 DEF Putting
<1>3. h \in Slot /\ after[p] \in Returns /\ At(p) = after[p] /\ itable[h].ref >= 1
      /\ Held(p) = HeldAt(pc[p], after[p], puts[p], ip[p], dp[p])
  BY <1>2, AtPut
<1>4. h \in Held(p)  BY <1>1, <1>3 DEF HeldAt
<1>5. /\ itable[h] \in TableEntry /\ i \in Inum /\ itable[h].ino = dinode[i] /\ itable[h].ino \in Dinode
      /\ itable[h].lock = p
  BY <1>3, <1>4, HeldFacts
<1>6. itable \in [Slot -> TableEntry]  BY TableFacts
<1>7. Gone(i)
  <2>1. Orphan(p, h)  BY <1>1 DEF Orphan
  <2> QED BY <1>3, <2>1 DEF NamesInv, Orphans, OrphanRight
<1>8. ino2.type = "none" /\ ino2.nlink = 0
  <2>1. r.ino = [itable[h].ino EXCEPT !.size = 0, !.addrs = NoInode.addrs]  BY DEF itrunc, NoInode
  <2>2. r.ino \in Dinode  BY <1>5, <2>1, EmptiedOK
  <2>3. r.ino.nlink = dinode[i].nlink  BY <1>5, <2>1 DEF Dinode
  <2> HIDE DEF r
  <2> QED BY <1>7, <2>2, <2>3 DEF Dinode, Gone
<1> HIDE DEF ino2, r
<1>9. e.inum = i /\ e.ino = ino2  BY <1>5 DEF TableEntry
<1> HIDE DEF e, h, i
<1>10. dinode' = [dinode EXCEPT ![i] = ino2]
  <2>1. itable'[h].inum = i /\ itable'[h].ino = ino2 /\ i \in Inum  BY <1>1, <1>3, <1>5, <1>6, <1>9
  <2> DEFINE j == itable'
  <2>2. iupdate(j, {h}) /\ j[h].inum \in Inum  BY <1>1, <2>1
  <2> HIDE DEF j
  <2>3. dinode' = [dinode EXCEPT ![j[h].inum] = j[h].ino]  BY <1>0, <2>2, IupdateOne
  <2> QED BY <2>1, <2>3 DEF j
<1>11. /\ \A k \in Inum : k # i => dinode'[k] = dinode[k] /\ dirent'[k] = dirent[k]
       /\ dinode'[i].type = "none" /\ dinode'[i].nlink = 0 /\ dirent'[i] = <<>>
       /\ dinode[i].nlink = 0
  BY <1>0, <1>1, <1>5, <1>7, <1>8, <1>10 DEF Gone
<1>12. pc'[p] = "unref" /\ At(p)' = At(p) /\ UNCHANGED <<path, ip, dp, name, old, cwd, fd>>
  BY <1>0, <1>1, <1>3 DEF At, Putting, LocalTypes, localVars
<1>13. Frame(p)
  <2>1. \A k \in Inum : dinode[k].type # "none" => dinode'[k].type = dinode[k].type \/ Frees(p, k)
    BY <1>1, <1>11 DEF Frees, i, h
  <2>2. \A k \in Inum : dinode'[k].nlink = dinode[k].nlink  BY <1>11
  <2>3. ASSUME NEW s \in Slot, itable[s].ref >= 1, itable[s].lock \notin {p, None}
        PROVE  dirent'[itable[s].inum] = dirent[itable[s].inum]
    <3>1. itable[s].inum # i
      <4> SUFFICES ASSUME itable[s].inum = itable[h].inum PROVE FALSE  BY DEF i
      <4>1. s = h  BY <1>3, <2>3, SameSlot
      <4> QED BY <1>5, <2>3, <4>1
    <3>2. itable[s].inum \in Inum
      <4>1. TableOK(itable, dinode) /\ itable[s].ref \in Nat /\ itable[s].inum \in Inum \cup {None}
        BY TableFacts, EntryTypes
      <4>2. itable[s].ref > 0  BY <2>3, <4>1
      <4> QED BY <4>1, <4>2 DEF TableOK
    <3> QED BY <1>11, <3>1, <3>2
  <2>4. \A s \in Named(p)' : s \in Named(p)  BY <1>12 DEF Named
  <2> QED BY <2>1, <2>2, <2>3, <2>4 DEF Frame
<1>14. Ends(p)
  <2>1. PathRight(p)'  BY <1>12 DEF NamesInv, Mine, PathRight
  <2> QED BY <1>12, <2>1 DEF Ends
<1>15. Users' /\ Orphans' /\ \A q \in Procs : Mine(q)'  BY <1>13, <1>14, FrameEnds DEF NamesInv
<1>16. Claims(p)' \subseteq Claims(p)  BY <1>12, ClaimsStay
<1>17. ASSUME NEW k \in Inum PROVE CountRight(k)'
  <2>1. \A d \in Inum : \A m \in DOMAIN dirent'[d] :
          dirent'[d][m].inum # None => m \in DOMAIN dirent[d] /\ dirent'[d][m] = dirent[d][m]
    <3>1. DOMAIN dirent'[i] = {}  BY <1>11
    <3> QED BY <1>11, <3>1
  <2>2. \A d \in Inum : dinode'[d].type = "dir" =>
          dinode[d].type = "dir" /\ dirlookup(dirent'[d], "..") = dirlookup(dirent[d], "..")
    BY <1>11
  <2>3. /\ Links(dinode', dirent', k) \subseteq Links(dinode, dirent, k)
        /\ OneName(dinode, dirent, k) => OneName(dinode', dirent', k)
    <3>1. Fewer(dinode, dirent, dinode', dirent')  BY <2>1, <2>2 DEF Fewer
    <3> QED BY <3>1, LinksLess
  <2>4. CountRight(k)  BY DEF NamesInv, CountsRight
  <2>5. dinode'[k].nlink = dinode[k].nlink /\ (dinode'[k].type = "none" => dinode[k].nlink = 0)
    BY <1>11, <2>4 DEF CountRight
  <2> QED BY <1>16, <2>3, <2>4, <2>5, CountKept
<1> QED BY <1>15, <1>17 DEF NamesInv, CountsRight

LEMMA IputNames ==
  ASSUME TableInv, NamesInv, NEW p \in Procs, Others(p), SameInums, iput(p)
  PROVE  NamesInv'
<1>1. CASE PutRef(p) \/ PutUnref(p)
  <2>1. pc[p] \in Putting /\ Rest(p) /\ UNCHANGED <<diskVars, cwd, fd, localVars>>
    BY <1>1 DEF PutRef, PutUnref, Putting
  <2> QED BY <2>1, RestNames
<1>2. CASE PutLast(p)  BY <1>2, PutLastNames
<1>3. CASE PutFree(p)  BY <1>3, PutFreeNames
<1> QED BY <1>1, <1>2, <1>3 DEF iput

-----------------------------------------------------------------------------
(* The start of a call, and of unlink().                                     *)

\* The root counts a link that nothing takes from it.
LEMMA RootLed ==
  ASSUME TableInv, CountsRight
  PROVE  dinode[ROOTINO].nlink >= 1 /\ ROOTINO \in Inum
<1>1. ROOTINO \in Inum  BY Constants
<1>2. <<"root", ROOTINO>> \in Links(dinode, dirent, ROOTINO)  BY LinksIn
<1>3. Due(ROOTINO) # {}  BY <1>2, DueIn
<1>4. CountRight(ROOTINO)  BY <1>1 DEF CountsRight
<1> QED BY <1>1, <1>3, <1>4, DueNotFree

LEMMA RootGot ==
  ASSUME TableInv, NEW p \in Procs, NEW it, NEW D, TableOK(it, D), Keeps(itable, it), NEW w
  PROVE  \/ Root(p, it, w).s = cwd[p]
         \/ Root(p, it, w).it[Root(p, it, w).s].inum = ROOTINO
<1>1. CASE w.abs
  <2> DEFINE i == ROOTINO
  <2>1. i \in Inum  BY Constants
  <2>2. Root(p, it, w) = iget(it, i)  BY <1>1 DEF Root
  <2> HIDE DEF i
  <2>3. iget(it, i).it[iget(it, i).s].inum = i  BY <2>1, IgetOK
  <2> QED BY <2>2, <2>3 DEF i
<1>2. CASE ~w.abs  BY <1>2 DEF Root
<1> QED BY <1>1, <1>2

LEMMA RootNamed ==
  ASSUME TableInv, CountsRight, NEW p \in Procs, NEW it, NEW D, TableOK(it, D), Keeps(itable, it), NEW w,
         itable' = Root(p, it, w).it
  PROVE  Root(p, it, w).s \in Named(p) \/ Led(Root(p, it, w).s)
<1> DEFINE t == Root(p, it, w).s
<1>1. t = cwd[p] \/ itable'[t].inum = ROOTINO  BY RootGot
<1>2. dinode[ROOTINO].nlink >= 1 /\ ROOTINO \in Inum  BY RootLed
<1>3. cwd[p] \in Named(p)  BY SamePlaces
<1> HIDE DEF t
<1>4. t \in Named(p) \/ Led(t)  BY <1>1, <1>2, <1>3 DEF Led
<1> QED BY <1>4 DEF t

LEMMA BeginNames ==
  ASSUME TableInv, NamesInv, NoDotDot, NEW p \in Procs, Others(p), SameInums, NEW c \in Calls, Begin(p, c)
  PROVE  NamesInv'
<1>0. LocalTypes  BY LocalFacts
<1>1. /\ pc[p] = "user" /\ UNCHANGED <<diskVars, cwd>> /\ c.k \in Kinds
      /\ ip[p] = None /\ dp[p] = None /\ old[p] = None
      /\ \/ c.k = "close" /\ fd[p] # None /\ fd' = [fd EXCEPT ![p] = None] /\ Done(p, <<fd[p].ip>>)
         \/ c.k \in {"read", "write"} /\ Go(p, c.k) /\ UNCHANGED <<path, ip, dp, name, old, itable, fd>>
         \/ /\ itable' = Root(p, itable, c.path).it /\ ip' = [ip EXCEPT ![p] = Root(p, itable, c.path).s]
            /\ path' = [path EXCEPT ![p] = c.path.names] /\ Go(p, "walk") /\ UNCHANGED <<dp, name, old, fd>>
  BY BeginFacts
<1>2. DiskQuiet  BY <1>1, StaySame
<1>3. CASE c.k = "close" /\ fd[p] # None /\ fd' = [fd EXCEPT ![p] = None] /\ Done(p, <<fd[p].ip>>)
  <2>1. cwd'[p] \in Named(p)  BY <1>1, SamePlaces
  <2>2. fd'[p] = None  BY <1>0, <1>3 DEF LocalTypes
  <2> QED BY <1>2, <1>3, <2>1, <2>2, DoneQuiet
<1>4. CASE c.k \in {"read", "write"} /\ Go(p, c.k) /\ UNCHANGED <<path, ip, dp, name, old, itable, fd>>
  <2>1. pc'[p] = c.k  BY <1>0, <1>4 DEF Go, LocalTypes
  <2>2. pc'[p] \notin {"free", "create2", "unlink2"} /\ (At(p)' = "unlink3" => At(p) = "unlink3")
    BY <1>4, <2>1 DEF At, Putting
  <2>3. UNCHANGED <<path, ip, dp, name, old, cwd, fd>>  BY <1>1, <1>4
  <2> QED BY <1>2, <2>2, <2>3, GoQuiet
<1>5. CASE /\ itable' = Root(p, itable, c.path).it /\ ip' = [ip EXCEPT ![p] = Root(p, itable, c.path).s]
           /\ path' = [path EXCEPT ![p] = c.path.names] /\ Go(p, "walk") /\ UNCHANGED <<dp, name, old, fd>>
  <2> DEFINE t == Root(p, itable, c.path).s
             w == c.path
  <2>1. t \in Named(p) \/ Led(t)
    <3>1. TableOK(itable, dinode) /\ Keeps(itable, itable)  BY TableFacts, KeepsSame
    <3>2. itable' = Root(p, itable, w).it  BY <1>5
    <3> HIDE DEF w
    <3> QED BY <3>1, <3>2, RootNamed DEF NamesInv, w
  <2>2. /\ ip'[p] = t /\ path'[p] = c.path.names /\ pc'[p] = "walk" /\ dp'[p] = None /\ old'[p] = None
        /\ old'[p] = old[p] /\ cwd'[p] = cwd[p] /\ fd'[p] = fd[p]
    BY <1>0, <1>1, <1>5 DEF Go, LocalTypes
  <2> HIDE DEF t
  <2>3. Ends(p)
    <3>1. PathRight(p)'  BY <2>2 DEF PathRight, NoDotDot
    <3> QED BY <2>2, <3>1 DEF Ends
  <2>4. At(p)' # "unlink3"  BY <2>2 DEF At, Putting
  <2>5. Claims(p)' \subseteq Claims(p)  BY <2>2, <2>4, ClaimsStay
  <2>6. \A s \in Named(p)' : s \in Named(p) \/ s = t  BY <2>2 DEF Named
  <2>7. \A s \in Named(p)' : s \in Named(p) \/ Led(s)  BY <2>1, <2>6
  <2> QED BY <1>2, <2>3, <2>5, <2>7, QuietEnds
<1> QED BY <1>1, <1>3, <1>4, <1>5

LEMMA UnlinkLookupNames ==
  ASSUME TableInv, NamesInv, TableInv', NEW p \in Procs, Others(p), SameInums, UnlinkLookup(p)
  PROVE  NamesInv'
<1> DEFINE s == dp[p]
           i == dirlookup(dirent[itable[s].inum], name[p])
           g == iget(Taken(s, p), i)
<1>0. LocalTypes  BY LocalFacts
<1>1. pc[p] = "unlink" /\ CanLock(s)  BY DEF UnlinkLookup
<1>2. s = Locks(p)  BY <1>1 DEF Locks
<1>3. /\ s \in Slot /\ itable[s].ref >= 1
      /\ [itable EXCEPT ![s] = ilock(p, s)] = Taken(s, p)
      /\ \A l \in {p, None} : Taken(s, l)[s].inum = itable[s].inum
      /\ itable[s].inum \in Inum
  BY <1>1, <1>2, LockTable DEF Lockers
<1>4. p \in {p, None}  OBVIOUS
<1>5. Taken(s, p)[s].inum = itable[s].inum  BY <1>3, <1>4
<1>6. /\ UNCHANGED <<diskVars, cwd, fd, calls, lost>>
      /\ \/ Done(p, <<s>>)
         \/ /\ name[p] \notin {".", ".."} /\ i # None /\ itable' = g.it /\ ip' = [ip EXCEPT ![p] = g.s]
            /\ Go(p, "unlink2") /\ UNCHANGED <<call, path, dp, name, old>>
  BY <1>3, <1>5 DEF UnlinkLookup
<1>7. DiskQuiet  BY <1>6, StaySame
<1>8. s \in Named(p) /\ s # None  BY <1>3, Constants DEF Named
<1>9. CASE Done(p, <<s>>)
  <2> HIDE DEF s
  <2>1. UNCHANGED <<diskVars, cwd, fd>>  BY <1>6
  <2> QED BY <1>9, <2>1, DoneStill
<1>10. CASE /\ name[p] \notin {".", ".."} /\ i # None /\ itable' = g.it /\ ip' = [ip EXCEPT ![p] = g.s]
            /\ Go(p, "unlink2") /\ UNCHANGED <<call, path, dp, name, old>>
  <2>1. i \in Inum
    <3>1. i \in Inum \cup {None}  BY <1>3, LookedUp
    <3> QED BY <1>10, <3>1
  <2>2. /\ g.s \in Slot /\ g.it \in [Slot -> TableEntry] /\ Keeps(itable, g.it)
        /\ g.it[g.s].ref >= 1 /\ g.it[g.s].inum = i
    <3>1. CanLock(s)  BY <1>1
    <3> HIDE DEF s, i
    <3> QED BY <1>3, <1>4, <2>1, <3>1, KeepsGot
  <2>3. i = dirlookup(dirent[itable[s].inum], name[p])  BY DEF i
  <2> HIDE DEF g, i
  <2>4. itable'[g.s].inum = i /\ itable'[g.s].ref >= 1 /\ itable'[s].ref >= 1  BY <1>3, <1>10, <2>2 DEF Keeps
  <2>5. g.s \in Named(p) \/ Led(g.s)
    <3>1. name[p] # ".." /\ i # None  BY <1>10
    <3> HIDE DEF s
    <3> QED BY <1>3, <1>8, <2>2, <2>3, <2>4, <3>1, GotLed DEF NamesInv
  <2>6. /\ ip'[p] = g.s /\ pc'[p] = "unlink2" /\ dp'[p] = dp[p] /\ path'[p] = path[p]
        /\ name'[p] = name[p] /\ old'[p] = old[p] /\ cwd'[p] = cwd[p] /\ fd'[p] = fd[p]
    BY <1>0, <1>6, <1>10 DEF Go, LocalTypes
  <2>7. \A t \in Named(p)' : t \in Named(p) \/ t = g.s  BY <2>6 DEF Named
  <2>8. \A t \in Named(p)' : t \in Named(p) \/ Led(t)  BY <2>5, <2>7
  <2>9. Claims(p)' \subseteq Claims(p)
    <3>1. At(p)' # "unlink3"  BY <2>6 DEF At, Putting
    <3> QED BY <2>6, <3>1, ClaimsStay
  <2>10. CountsRight'  BY <1>7, <2>9, QuietCounts DEF NamesInv
  <2>11. Frame(p)  BY <1>7, <2>8, QuietFrame DEF NamesInv
  <2>12. Users'  BY <2>11, FrameUsers DEF NamesInv
  <2>13. ASSUME NEW q \in Procs, NEW t \in Slot PROVE OrphanRight(q, t)'
    <3>1. CASE q # p  BY <2>11, <3>1, FrameOrphans DEF NamesInv
    <3>2. CASE q = p  BY <2>6, <3>2 DEF OrphanRight, Orphan
    <3> QED BY <3>1, <3>2
  <2>14. Mine(p)'
    <3>1. OldRight(p)'
      <4>1. LocalsAt("unlink", call[p], ip[p], dp[p], old[p], fd[p])
        <5>1. pc[p] \notin Putting  BY <1>1 DEF Putting
        <5> QED BY <1>1, <5>1, AtPlace
      <4>2. old[p] = None  BY <4>1 DEF LocalsAt
      <4> QED BY <2>6, <4>2 DEF OldRight
    <3>2. UnlinkRight(p)'
      <4>1. itable'[s].inum = itable[s].inum  BY <1>3 DEF SameInums
      <4>2. dirent' = dirent  BY <1>6 DEF diskVars
      <4> QED BY <1>10, <2>3, <2>4, <2>6, <4>1, <4>2 DEF UnlinkRight
    <3>3. PathRight(p)'  BY <2>6 DEF NamesInv, Mine, PathRight
    <3>4. NewRight(p)'  BY <2>6 DEF NewRight
    <3> QED BY <3>1, <3>2, <3>3, <3>4 DEF Mine
  <2>15. ASSUME NEW q \in Procs PROVE Mine(q)'
    <3>1. CASE q # p  BY <2>11, <3>1, FrameMine DEF NamesInv
    <3>2. CASE q = p  BY <2>14, <3>2
    <3> QED BY <3>1, <3>2
  <2> QED BY <2>10, <2>12, <2>13, <2>15 DEF NamesInv, Orphans
<1> QED BY <1>6, <1>9, <1>10

-----------------------------------------------------------------------------
(* create()                                                                  *)

LEMMA CreateAllocNames ==
  ASSUME TableInv, NamesInv, NEW p \in Procs, Others(p), SameInums, CreateAlloc(p)
  PROVE  NamesInv'
<1>0. LocalTypes /\ dinode \in [Inum -> Dinode]  BY LocalFacts, TableFacts DEF DiskTypes
<1>1. /\ pc[p] = "create"
      /\ \/ dinode' = dinode /\ Done(p, <<dp[p]>>) /\ UNCHANGED <<dirent, bitmap, indirect, cwd, fd, calls, lost>>
         \/ \E n, t : Allocs(p, n, t)
  BY CreateAllocFacts
<1>2. CASE dinode' = dinode /\ Done(p, <<dp[p]>>) /\ UNCHANGED <<dirent, bitmap, indirect, cwd, fd, calls, lost>>
  <2>1. UNCHANGED <<diskVars, cwd, fd>>  BY <1>2 DEF diskVars
  <2> QED BY <1>2, <2>1, DoneStill
<1>3. ASSUME NEW n, NEW t, Allocs(p, n, t) PROVE NamesInv'
  <2>1. /\ n \in Inum /\ dinode[n].type = "none" /\ t \in Slot /\ itable'[t].ref >= 1 /\ itable'[t].inum = n
        /\ ip' = [ip EXCEPT ![p] = t] /\ Go(p, "create2")
        /\ UNCHANGED <<call, path, dp, name, old, dirent, bitmap, indirect, cwd, fd, calls, lost>>
    BY <1>3 DEF Allocs
  <2>2. /\ \A k \in Inum : k # n => dinode'[k] = dinode[k]
        /\ dinode'[n].type # "none" /\ dinode'[n].nlink = 0
    BY <1>0, <1>3 DEF Allocs, NoInode
  <2>3. /\ ip'[p] = t /\ pc'[p] = "create2" /\ dp'[p] = dp[p] /\ path'[p] = path[p]
        /\ name'[p] = name[p] /\ old'[p] = old[p] /\ cwd'[p] = cwd[p] /\ fd'[p] = fd[p]
    BY <1>0, <2>1 DEF Go, LocalTypes
  <2>4. CountRight(n) /\ dinode[n].nlink = 0  BY <2>1 DEF NamesInv, CountsRight, CountRight
  <2>5. Due(n) = {}  BY <2>1, <2>4, DueNotFree
  <2>6. Frame(p)
    <3>1. \A k \in Inum : dinode[k].type # "none" =>
            dinode'[k].type = dinode[k].type /\ dinode'[k].nlink = dinode[k].nlink
      BY <2>1, <2>2
    <3>2. News(t)  BY <2>1, <2>2 DEF News, Gone
    <3>3. \A s \in Named(p)' : s \in Named(p) \/ s = t  BY <2>3 DEF Named
    <3>4. \A s \in Named(p)' : s \in Named(p) \/ News(s)  BY <3>2, <3>3
    <3> QED BY <2>1, <3>1, <3>4 DEF Frame
  <2>7. Users'  BY <2>6, FrameUsers DEF NamesInv
  <2>8. ASSUME NEW q \in Procs, NEW s \in Slot PROVE OrphanRight(q, s)'
    <3>1. CASE q # p  BY <2>6, <3>1, FrameOrphans DEF NamesInv
    <3>2. CASE q = p
      <4> SUFFICES ASSUME Orphan(p, s)'
                   PROVE  Gone(itable[s].inum)' /\ \A r \in Procs : s \in Named(r)' => r = p
        BY <2>3, <3>2 DEF OrphanRight
      <4>1. s = t  BY <2>3 DEF Orphan
      <4>2. Gone(itable[s].inum)'  BY <2>1, <2>2, <4>1 DEF Gone
      <4>3. ASSUME NEW r \in Procs, s \in Named(r)', r # p PROVE FALSE
        <5>1. s \in Named(r)  BY <4>3, OthersNamed
        <5>2. itable[s].ref >= 1  BY <5>1, NamedUsed
        <5>3. itable[s].inum = n  BY <2>1, <4>1, <5>2 DEF SameInums
        <5>4. dinode[n].type # "none"  BY <5>1, <5>3 DEF NamesInv, Users, Of
        <5> QED BY <2>1, <5>4
      <4> QED BY <4>2, <4>3
    <3> QED BY <3>1, <3>2
  <2>9. Mine(p)'
    <3>1. OldRight(p)'
      <4>1. LocalsAt("create", call[p], ip[p], dp[p], old[p], fd[p])
        <5>1. pc[p] \notin Putting  BY <1>1 DEF Putting
        <5> QED BY <1>1, <5>1, AtPlace
      <4>2. old[p] = None  BY <4>1 DEF LocalsAt
      <4> QED BY <2>3, <4>2 DEF OldRight
    <3>2. UnlinkRight(p)'  BY <2>3 DEF UnlinkRight
    <3>3. PathRight(p)'  BY <2>3 DEF NamesInv, Mine, PathRight
    <3>4. NewRight(p)'
      <4>1. dinode'[n].type = "dir" => call[p].k = "mkdir"  BY <1>0, <1>3 DEF Allocs, NoInode
      <4> QED BY <2>1, <2>3, <4>1 DEF NewRight, Of
    <3> QED BY <3>1, <3>2, <3>3, <3>4 DEF Mine
  <2>10. ASSUME NEW q \in Procs PROVE Mine(q)'
    <3>1. CASE q # p  BY <2>6, <3>1, FrameMine DEF NamesInv
    <3>2. CASE q = p  BY <2>9, <3>2
    <3> QED BY <3>1, <3>2
  <2>11. Claims(p)' \subseteq Claims(p)
    <3>1. At(p)' # "unlink3"  BY <2>3 DEF At, Putting
    <3> QED BY <2>3, <3>1, ClaimsStay
  <2>12. ASSUME NEW k \in Inum PROVE CountRight(k)'
    <3>1. \A d \in Inum : \A m \in DOMAIN dirent'[d] :
            dirent'[d][m].inum # None => m \in DOMAIN dirent[d] /\ dirent'[d][m] = dirent[d][m]
      BY <2>1
    <3>2. NamesOf(dirent', n) = {}
      <4> SUFFICES ASSUME NEW x \in NamesOf(dirent, n) PROVE FALSE  BY <2>1
      <4>1. <<"name", x>> \in Links(dinode, dirent, n)  BY LinksIn
      <4> QED BY <2>5, <4>1, DueIn
    <3>3. \A d \in Inum : dinode'[d].type = "dir" /\ NamesOf(dirent', d) # {} =>
            dinode[d].type = "dir" /\ dirlookup(dirent'[d], "..") = dirlookup(dirent[d], "..")
      BY <2>1, <2>2, <3>2
    <3>4. /\ Links(dinode', dirent', k) \subseteq Links(dinode, dirent, k)
          /\ OneName(dinode, dirent, k) => OneName(dinode', dirent', k)
      <4>1. Fewer(dinode, dirent, dinode', dirent')  BY <3>1, <3>3 DEF Fewer
      <4> QED BY <4>1, LinksLess
    <3>5. CountRight(k)  BY DEF NamesInv, CountsRight
    <3>6. dinode'[k].nlink = dinode[k].nlink /\ (dinode'[k].type = "none" => dinode[k].nlink = 0)
      BY <2>2, <2>4, <3>5 DEF CountRight
    <3> QED BY <2>11, <3>4, <3>5, <3>6, CountKept
  <2> QED BY <2>7, <2>8, <2>10, <2>12 DEF NamesInv, Orphans, CountsRight
<1> QED BY <1>1, <1>2, <1>3

-----------------------------------------------------------------------------
(* Steps that change what an inode counts.                                   *)

LEMMA FrameOver ==
  ASSUME TableInv, Users, Orphans, \A q \in Procs : Mine(q), NEW p \in Procs, Frame(p),
         pc'[p] \notin {"free", "create2"}, Mine(p)'
  PROVE  Users' /\ Orphans' /\ \A q \in Procs : Mine(q)'
<1>1. Users'  BY FrameUsers
<1>2. ASSUME NEW q \in Procs, NEW s \in Slot PROVE OrphanRight(q, s)'
  <2>1. CASE q # p  BY <2>1, FrameOrphans
  <2>2. CASE q = p  BY <2>2 DEF OrphanRight, Orphan
  <2> QED BY <2>1, <2>2
<1>3. ASSUME NEW q \in Procs PROVE Mine(q)'
  <2>1. CASE q # p  BY <2>1, FrameMine
  <2> QED BY <2>1
<1> QED BY <1>1, <1>2, <1>3 DEF Orphans

LEMMA KeptApart == ASSUME NEW D, NEW E, NEW i, NEW p, NEW x \in Links(D, E, i) PROVE x # <<"kept", p>>
BY LinksIn

\* As much more is counted as is due.
LEMMA CountChanged ==
  ASSUME TableInv, NEW k \in Inum, CountRight(k), NEW m \in Int,
         Cardinality(Due(k)') <= Cardinality(Due(k)) + m, Cardinality(Due(k)') \in Nat,
         dinode'[k].nlink = dinode[k].nlink + m, dinode'[k].type # "none",
         OneName(dinode', dirent', k)
  PROVE  CountRight(k)'
<1>1. dinode[k].nlink \in Int /\ Cardinality(Due(k)) \in Nat  BY LinksCount
<1>2. Cardinality(Due(k)) <= dinode[k].nlink  BY DEF CountRight
<1> HIDE DEF Due
<1>3. Cardinality(Due(k)') <= dinode'[k].nlink  BY <1>1, <1>2
<1> QED BY <1>3 DEF CountRight

\* A link that was kept is no longer counted.
LEMMA Unkept ==
  ASSUME TableInv, NamesInv, NEW p \in Procs, Others(p), SameInums, NEW s \in Named(p),
         Claims(p) = {itable[s].inum}, Adds(itable[s].inum, -1), NEW ss, Done(p, ss),
         UNCHANGED <<dirent, cwd, fd>>
  PROVE  NamesInv'
<1> DEFINE i == itable[s].inum
<1>0. i \in Inum /\ s \in Slot  BY NamedUsed
<1>1. Ends(p) /\ Claims(p)' = {} /\ \A t \in Named(p)' : t \in Named(p)
  <2>1. cwd'[p] \in Named(p) /\ (fd'[p] = None \/ fd'[p].ip \in Named(p))  BY SamePlaces
  <2> QED BY <2>1, DoneEnds
<1>2. Frame(p)
  <2>1. \A k \in Inum : dinode'[k].type = dinode[k].type
                        /\ (dinode'[k].nlink = dinode[k].nlink \/ k = i)
    BY DEF Adds
  <2> QED BY <1>1, <2>1 DEF Frame
<1>3. Users' /\ Orphans' /\ \A q \in Procs : Mine(q)'  BY <1>1, <1>2, FrameEnds DEF NamesInv
<1>4. ASSUME NEW k \in Inum PROVE CountRight(k)'
  <2>1. CountRight(k)  BY DEF NamesInv, CountsRight
  <2>2. \A j \in Inum : dinode'[j].type = dinode[j].type  BY DEF Adds
  <2>3. Links(dinode', dirent', k) = Links(dinode, dirent, k)
        /\ (OneName(dinode, dirent, k) => OneName(dinode', dirent', k))
    BY <2>2, SameLinks
  <2>4. CASE k # i
    <3>1. dinode'[k].nlink = dinode[k].nlink  BY <2>4 DEF Adds
    <3>2. dinode'[k].type = "none" => dinode[k].nlink = 0  BY <2>1, <2>2 DEF CountRight
    <3>3. Links(dinode', dirent', k) \subseteq Links(dinode, dirent, k)  BY <2>3
    <3>4. k \in Claims(p)' => k \in Claims(p)  BY <1>1
    <3> QED BY <2>1, <2>3, <3>1, <3>2, <3>3, <3>4, CountKept
  <2>5. CASE k = i
    <3> DEFINE S == Due(k)
               T == Due(k)'
               x == <<"kept", p>>
    <3>1. IsFiniteSet(S)  BY DueIsFinite
    <3>2. x \in S  BY <2>5, DueIn
    <3>3. ASSUME NEW y \in T PROVE y \in S \ {x}
      <4>1. CASE y \in Links(dinode', dirent', k)  BY <2>3, <4>1, DueIn, KeptApart
      <4>2. CASE y \notin Links(dinode', dirent', k)
        <5>1. y \in S /\ \E q \in Procs : q # p /\ y = <<"kept", q>>  BY <1>1, <4>2, DueAfter
        <5> QED BY <5>1
      <4> QED BY <4>1, <4>2
    <3> HIDE DEF S, T, x
    <3>4. T \subseteq S \ {x}  BY <3>3
    <3>5. Cardinality(T) <= Cardinality(S) - 1 /\ Cardinality(T) \in Nat /\ Cardinality(S) \in Nat
      BY <3>1, <3>2, <3>4, CountOut
    <3>6. dinode'[k].nlink = dinode[k].nlink + -1  BY <2>5 DEF Adds
    <3>7. dinode'[k].type # "none"  BY <1>0, <2>2, <2>5 DEF NamesInv, Users, Of
    <3>8. OneName(dinode', dirent', k)  BY <2>1, <2>3 DEF CountRight
    <3>9. Cardinality(T) <= Cardinality(S) + -1 /\ -1 \in Int  BY <3>5
    <3> QED BY <2>1, <3>5, <3>6, <3>7, <3>8, <3>9, CountChanged DEF S, T
  <2> QED BY <2>4, <2>5
<1> QED BY <1>3, <1>4 DEF NamesInv, CountsRight

\* What is written, of an entry that is relinked.
LEMMA RelinkAdds ==
  ASSUME TableInv, NEW s \in Slot, NEW x \in TableEntry, x.inum = itable[s].inum, x.inum \in Inum,
         x.ino = dinode[x.inum], NEW m \in Int, NEW y \in {relink(x, m), iunlock(relink(x, m))},
         NEW j, j[s] = y, iupdate(j, {s})
  PROVE  Adds(itable[s].inum, m)
<1> DEFINE ino2 == [x.ino EXCEPT !.nlink = x.ino.nlink + m]
<1>1. y.inum = x.inum /\ y.ino = ino2  BY RelinkOK
<1>2. x.ino \in Dinode  BY DEF TableEntry
<1>3. ino2.type = x.ino.type /\ ino2.nlink = x.ino.nlink + m  BY <1>2 DEF Dinode
<1> HIDE DEF ino2
<1>4. j[s].inum \in Inum /\ j[s].inum = itable[s].inum
      /\ j[s].ino.type = dinode[j[s].inum].type /\ j[s].ino.nlink = dinode[j[s].inum].nlink + m
  BY <1>1, <1>3
<1>5. Adds(j[s].inum, m)  BY <1>4, WroteAdds
<1> QED BY <1>4, <1>5

LEMMA UnlinkInodeNames ==
  ASSUME TableInv, NamesInv, NEW p \in Procs, Others(p), SameInums, UnlinkInode(p)
  PROVE  NamesInv'
<1> DEFINE s == ip[p]
           x == itable[s]
           y == iunlock(relink(x, -1))
           j == itable'
<1>1. /\ pc[p] = "unlink3" /\ j = [itable EXCEPT ![s] = y] /\ iupdate(j, {s})
      /\ Done(p, <<s>>) /\ UNCHANGED <<dirent, bitmap, indirect, cwd, fd, calls, lost>>
  BY DEF UnlinkInode
<1>2. pc[p] \notin Putting  BY <1>1 DEF Putting
<1>3. LocalsAt("unlink3", call[p], ip[p], dp[p], old[p], fd[p]) /\ Held(p) = {s} /\ At(p) = pc[p]
  BY <1>1, <1>2, AtPlace DEF HeldAt, At
<1>4. s \in Slot /\ old[p] = None  BY <1>3, LocalFacts DEF LocalsAt, Walked
<1>5. x \in TableEntry /\ x.inum \in Inum /\ x.ino = dinode[x.inum]
  <2>1. s \in Held(p)  BY <1>3
  <2> QED BY <1>4, <2>1, HeldFacts
<1>6. s \in Named(p)  BY <1>4, Constants DEF Named
<1>7. Claims(p) = {itable[s].inum}  BY <1>1, <1>3, <1>4 DEF Claims
<1>8. itable \in [Slot -> TableEntry]  BY TableFacts
<1>9. x.inum = itable[s].inum  OBVIOUS
<1>10. y \in {relink(x, -1), iunlock(relink(x, -1))} /\ -1 \in Int  OBVIOUS
<1>11. UNCHANGED <<dirent, cwd, fd>>  BY <1>1
<1> HIDE DEF j, x, s
<1>12. j[s] = y  BY <1>1, <1>4, <1>8
<1> HIDE DEF y
<1>13. Adds(itable[s].inum, -1)
  <2> DEFINE m == -1
  <2>1. y \in {relink(x, m), iunlock(relink(x, m))} /\ m \in Int  BY <1>10
  <2> HIDE DEF m
  <2>2. Adds(itable[s].inum, m)  BY <1>1, <1>4, <1>5, <1>9, <1>12, <2>1, RelinkAdds
  <2> QED BY <2>2 DEF m
<1> QED BY <1>1, <1>6, <1>7, <1>11, <1>13, Unkept

LEMMA LinkBadNames ==
  ASSUME TableInv, NamesInv, NEW p \in Procs, Others(p), SameInums, LinkBad(p)
  PROVE  NamesInv'
<1> DEFINE s == old[p]
           x == Loaded(s)
           y == relink(x, -1)
           j == itable'
<1>1. /\ pc[p] = "linkbad" /\ CanLock(s) /\ j = [itable EXCEPT ![s] = y] /\ iupdate(j, {s})
      /\ Done(p, <<s>>) /\ UNCHANGED <<dirent, bitmap, indirect, cwd, fd, calls, lost>>
  BY DEF LinkBad
<1>2. pc[p] \in Lockers /\ s = Locks(p)  BY <1>1 DEF Lockers, Locks
<1>3. s \in Slot /\ itable[s].ref >= 1  BY <1>2, LocksUsed
<1>4. s # None  BY <1>3, Constants
<1>5. s \in Named(p) /\ Claims(p) = {itable[s].inum}  BY <1>4 DEF Named, Claims
<1>6. itable \in [Slot -> TableEntry]  BY TableFacts
<1>7. UNCHANGED <<dirent, cwd, fd>>  BY <1>1
<1> HIDE DEF j, s
<1>8. x \in TableEntry /\ x.inum = itable[s].inum /\ itable[s].inum \in Inum /\ x.ino = dinode[itable[s].inum]
  BY <1>1, <1>3, LoadedInode
<1>9. j[s] = y  BY <1>1, <1>3, <1>6
<1> HIDE DEF x
<1>10. Adds(itable[s].inum, -1)
  <2> DEFINE m == -1
  <2>1. y \in {relink(x, m), iunlock(relink(x, m))} /\ m \in Int  OBVIOUS
  <2> HIDE DEF m, y
  <2>2. Adds(itable[s].inum, m)  BY <1>1, <1>3, <1>8, <1>9, <2>1, RelinkAdds
  <2> QED BY <2>2 DEF m
<1> QED BY <1>1, <1>5, <1>7, <1>10, Unkept

\* A link is counted and kept, until the entry is made.
LEMMA LinkCountNames ==
  ASSUME TableInv, NamesInv, NoDotDot, NEW p \in Procs, Others(p), SameInums, LinkCount(p)
  PROVE  NamesInv'
<1> DEFINE s == ip[p]
           e == Loaded(s)
           f == relink(e, 1)
           j == [itable EXCEPT ![s] = f]
           w == call[p].new
           r == Root(p, j, w)
           t == r.s
           i == itable[s].inum
<1>0. LocalTypes  BY LocalFacts
<1>1. /\ pc[p] = "link" /\ CanLock(s) /\ UNCHANGED <<dirent, bitmap, indirect, cwd, fd>>
      /\ \/ Done(p, <<s>>) /\ UNCHANGED dinode
         \/ /\ e.ino.type # "dir" /\ iupdate(j, {s}) /\ itable' = r.it /\ old' = [old EXCEPT ![p] = s]
            /\ ip' = [ip EXCEPT ![p] = t] /\ path' = [path EXCEPT ![p] = w.names]
            /\ Go(p, "walk") /\ UNCHANGED <<call, dp, name>>
  BY DEF LinkCount
<1>2. pc[p] \in Lockers /\ s = Locks(p) /\ pc[p] \notin Putting  BY <1>1 DEF Lockers, Locks, Putting
<1>3. s \in Slot /\ itable[s].ref >= 1 /\ s # None  BY <1>2, LocksUsed, Constants
<1>4. s \in Named(p)  BY <1>3 DEF Named
<1>5. LocalsAt("link", call[p], ip[p], dp[p], old[p], fd[p]) /\ At(p) = pc[p]
  BY <1>1, <1>2, AtPlace DEF At
<1>6. old[p] = None /\ dp[p] = None /\ call[p] \in Calls  BY <1>5 DEF LocalsAt, Parented
<1>7. e \in TableEntry /\ e.inum = i /\ i \in Inum /\ e.ino = dinode[i] /\ e.ino \in Dinode /\ e.ino.type # "none"
  BY <1>1, <1>3, LoadedInode
<1>8. CASE Done(p, <<s>>) /\ UNCHANGED dinode
  <2> HIDE DEF s
  <2>1. UNCHANGED <<diskVars, cwd, fd>>  BY <1>1, <1>8 DEF diskVars
  <2> QED BY <1>8, <2>1, DoneStill
<1>9. CASE /\ e.ino.type # "dir" /\ iupdate(j, {s}) /\ itable' = r.it /\ old' = [old EXCEPT ![p] = s]
           /\ ip' = [ip EXCEPT ![p] = t] /\ path' = [path EXCEPT ![p] = w.names]
           /\ Go(p, "walk") /\ UNCHANGED <<call, dp, name>>
  <2>1. SameEntry(e, f)  BY <1>7, SameEntryOK
  <2>2. Relinks(s, 1, j)  BY <1>1, <1>3, <1>9 DEF Relinks
  <2>3. /\ old'[p] = s /\ ip'[p] = t /\ path'[p] = w.names /\ pc'[p] = "walk" /\ dp'[p] = None
        /\ cwd'[p] = cwd[p] /\ fd'[p] = fd[p]
    BY <1>0, <1>1, <1>6, <1>9 DEF Go, LocalTypes
  <2>4. t = Root(p, j, w).s /\ itable' = Root(p, j, w).it /\ iupdate(j, {s})  BY <1>9
  <2>5. e = Loaded(s) /\ j = [itable EXCEPT ![s] = f]  OBVIOUS
  <2>6. ".." \notin Range(path'[p])  BY <1>6, <2>3 DEF NoDotDot
  <2> HIDE DEF t, w, r, s, f, e
  <2>7. Keeps(itable, [itable EXCEPT ![s] = f])  BY <1>1, <1>3, <2>1, <2>5, KeepsWritten
  <2>8. Keeps(itable, j)  BY <2>7
  <2>9. j[s] = f
    <3>1. itable \in [Slot -> TableEntry]  BY TableFacts
    <3> QED BY <1>3, <3>1
  <2> HIDE DEF j
  <2>10. TableOK(j, dinode')
    <3>1. 1 \in Int  OBVIOUS
    <3> QED BY <1>3, <2>2, <3>1, LinksWritten
  <2>11. t \in Named(p) \/ Led(t)
    <3> DEFINE D == dinode'
    <3>1. TableOK(j, D) /\ CountsRight  BY <2>10 DEF NamesInv
    <3> HIDE DEF D
    <3> QED BY <2>4, <2>8, <3>1, RootNamed
  <2>12. Adds(i, 1)
    <3> DEFINE m == 1
    <3>1. f \in {relink(e, m), iunlock(relink(e, m))} /\ m \in Int  BY DEF f
    <3> HIDE DEF m
    <3>2. Adds(itable[s].inum, m)  BY <1>3, <1>7, <2>4, <2>9, <3>1, RelinkAdds
    <3> QED BY <3>2 DEF m
  <2>13. \A k \in Inum : dinode'[k].type = dinode[k].type /\ (k # i => dinode'[k].nlink = dinode[k].nlink)
    BY <2>12 DEF Adds
  <2>14. itable'[s].inum = i  BY <1>3 DEF SameInums
  <2> HIDE DEF i
  <2>15. ASSUME Led(t) PROVE News(t)
    <3>1. itable'[t].inum \in Inum /\ dinode[itable'[t].inum].nlink >= 1  BY <2>15 DEF Led
    <3>2. CountRight(itable'[t].inum)  BY <3>1 DEF NamesInv, CountsRight
    <3>3. dinode[itable'[t].inum].nlink # 0  BY <3>1
    <3>4. dinode[itable'[t].inum].type # "none"  BY <3>2, <3>3 DEF CountRight
    <3>5. dinode'[itable'[t].inum].type # "none"  BY <2>13, <3>1, <3>4
    <3> QED BY <3>1, <3>3, <3>5 DEF News, Gone
  <2>16. Frame(p)
    <3>1. \A k \in Inum : dinode'[k].nlink = dinode[k].nlink \/ itable[s].inum = k  BY <2>13 DEF i
    <3>2. \A x \in Named(p)' : x \in Named(p) \/ x = s \/ x = t  BY <2>3 DEF Named
    <3>3. \A x \in Named(p)' : x \in Named(p) \/ News(x)  BY <1>4, <2>11, <2>15, <3>2
    <3>4. dirent' = dirent  BY <1>1
    <3> QED BY <1>4, <2>13, <3>1, <3>3, <3>4 DEF Frame
  <2>17. Mine(p)'
    <3>1. OldRight(p)'
      <4>1. dinode'[i].type # "dir"  BY <1>7, <1>9, <2>13
      <4> QED BY <2>3, <2>14, <4>1 DEF OldRight, Of
    <3>2. UnlinkRight(p)'  BY <2>3 DEF UnlinkRight
    <3>3. PathRight(p)'  BY <2>3, <2>6 DEF PathRight
    <3>4. NewRight(p)'  BY <2>3 DEF NewRight
    <3> QED BY <3>1, <3>2, <3>3, <3>4 DEF Mine
  <2>18. Users' /\ Orphans' /\ \A q \in Procs : Mine(q)'
    <3>1. pc'[p] \notin {"free", "create2"}  BY <2>3
    <3> QED BY <2>16, <2>17, <3>1, FrameOver DEF NamesInv
  <2>19. Claims(p)' = {i}  BY <1>3, <2>3, <2>14 DEF Claims
  <2>20. ASSUME NEW k \in Inum PROVE CountRight(k)'
    <3>1. CountRight(k)  BY DEF NamesInv, CountsRight
    <3>2. dirent' = dirent  BY <1>1
    <3>3. Links(dinode', dirent', k) = Links(dinode, dirent, k)
          /\ (OneName(dinode, dirent, k) => OneName(dinode', dirent', k))
      BY <2>13, <3>2, SameLinks
    <3>4. CASE k # i
      <4>1. dinode'[k].nlink = dinode[k].nlink  BY <2>13, <3>4
      <4>2. dinode'[k].type = "none" => dinode[k].nlink = 0  BY <2>13, <3>1 DEF CountRight
      <4>3. Links(dinode', dirent', k) \subseteq Links(dinode, dirent, k)  BY <3>3
      <4>4. k \in Claims(p)' => k \in Claims(p)  BY <2>19, <3>4
      <4> QED BY <3>1, <3>3, <4>1, <4>2, <4>3, <4>4, CountKept
    <3>5. CASE k = i
      <4> DEFINE S == Due(k)
                 T == Due(k)'
                 x == <<"kept", p>>
      <4>1. IsFiniteSet(S)  BY DueIsFinite
      <4>2. ASSUME NEW y \in T PROVE y \in S \cup {x}
        <5>1. CASE y \in Links(dinode', dirent', k)  BY <3>3, <5>1, DueIn
        <5>2. CASE y \notin Links(dinode', dirent', k)  BY <5>2, DueAfter
        <5> QED BY <5>1, <5>2
      <4> HIDE DEF S, T, x
      <4>3. T \subseteq S \cup {x}  BY <4>2
      <4>4. Cardinality(T) <= Cardinality(S) + 1 /\ Cardinality(T) \in Nat /\ Cardinality(S) \in Nat
        BY <4>1, <4>3, CountIn
      <4>5. dinode'[k].nlink = dinode[k].nlink + 1 /\ 1 \in Int  BY <2>12, <3>5 DEF Adds
      <4>6. dinode'[k].type # "none"  BY <1>7, <2>13, <3>5
      <4>7. OneName(dinode', dirent', k)  BY <3>1, <3>3 DEF CountRight
      <4> QED BY <3>1, <4>4, <4>5, <4>6, <4>7, CountChanged DEF S, T
    <3> QED BY <3>4, <3>5
  <2> QED BY <2>18, <2>20 DEF NamesInv, CountsRight
<1> QED BY <1>1, <1>8, <1>9

-----------------------------------------------------------------------------
(* An entry is cleared.                                                      *)

\* Other names lead where they did.
Clear(q, k, r) == q \in Seq(DirEntry) /\ k \in DOMAIN q /\ r = [q EXCEPT ![k] = Entry(None, None)]

LEMMA ClearedLooks ==
  ASSUME NEW q, NEW k, NEW r, Clear(q, k, r), NEW n, q[k].name # n
  PROVE  /\ DOMAIN r = DOMAIN q /\ r[k].inum = None
         /\ \A m \in DOMAIN r : r[m].inum # None => r[m] = q[m]
         /\ dirlookup(r, n) = dirlookup(q, n)
<1>0. q \in Seq(DirEntry) /\ k \in DOMAIN q  BY DEF Clear
<1>1. DOMAIN r = DOMAIN q /\ r[k] = Entry(None, None) /\ \A m \in DOMAIN q : m # k => r[m] = q[m]
  <2> DEFINE z == Entry(None, None)
  <2>1. r = [q EXCEPT ![k] = z]  BY DEF Clear
  <2> HIDE DEF z
  <2>2. DOMAIN r = DOMAIN q /\ r[k] = z /\ \A m \in DOMAIN q : m # k => r[m] = q[m]  BY <1>0, <2>1
  <2> QED BY <2>2 DEF z
<1>2. r[k].inum = None  BY <1>1 DEF Entry
<1>3. \A m \in DOMAIN r : r[m].inum # None => r[m] = q[m]  BY <1>1, <1>2
<1>4. Found(r, n) = Found(q, n)
  <2>1. k \notin Found(r, n) /\ k \notin Found(q, n)  BY <1>2 DEF Found
  <2> QED BY <1>1, <2>1 DEF Found
<1>5. ASSUME Found(q, n) = {} PROVE dirlookup(r, n) = dirlookup(q, n)
  <2>1. Found(r, n) = {}  BY <1>4, <1>5
  <2>2. dirlookup(r, n) = None  BY <2>1 DEF dirlookup
  <2>3. dirlookup(q, n) = None  BY <1>5 DEF dirlookup
  <2> QED BY <2>2, <2>3
<1>6. ASSUME Found(q, n) # {} PROVE dirlookup(r, n) = dirlookup(q, n)
  <2> DEFINE l == Lowest(Found(q, n))
  <2>1. Found(q, n) \subseteq Nat  BY <1>0 DEF Found
  <2>2. l \in Found(q, n)  BY <1>6, <2>1, LowestIn
  <2>3. l \in DOMAIN q /\ l # k  BY <2>2 DEF Found
  <2>4. dirlookup(q, n) = q[l].inum  BY <1>6 DEF dirlookup
  <2>5. l = Lowest(Found(r, n)) /\ Found(r, n) # {}  BY <1>4, <1>6
  <2> HIDE DEF l
  <2>6. dirlookup(r, n) = r[l].inum  BY <2>5 DEF dirlookup
  <2>7. r[l] = q[l]  BY <1>1, <2>3
  <2> QED BY <2>4, <2>6, <2>7
<1> QED BY <1>1, <1>2, <1>3, <1>5, <1>6

\* The entry that a name is found in.
LEMMA FoundIn ==
  ASSUME NEW q \in Seq(DirEntry), NEW n, dirlookup(q, n) # None
  PROVE  LET k == Lowest(Found(q, n))
         IN  k \in DOMAIN q /\ q[k].name = n /\ q[k].inum = dirlookup(q, n)
<1> DEFINE k == Lowest(Found(q, n))
<1>1. Found(q, n) # {}  BY DEF dirlookup
<1>2. Found(q, n) \subseteq Nat  BY DEF Found
<1>3. k \in Found(q, n)  BY <1>1, <1>2, LowestIn
<1> QED BY <1>1, <1>3 DEF Found, dirlookup

\* Inode i, which has the name in place k of directory n, loses it; and if it is a directory,
\* it counts for n no more.
Clears(E, E2, n, k, i) ==
  /\ E \in [Inum -> Seq(DirEntry)] /\ n \in Inum /\ i \in Inum /\ i # n
  /\ k \in DOMAIN E[n] /\ E[n][k].inum = i /\ E[n][k].name \notin {".", ".."}
  /\ E2 = [E EXCEPT ![n] = [E[n] EXCEPT ![k] = Entry(None, None)]]

LEMMA ClearsLinks ==
  ASSUME NEW D, NEW D2, \A d \in Inum : D2[d].type = D[d].type, NEW E, NEW E2, NEW n, NEW k, NEW i,
         Clears(E, E2, n, k, i)
  PROVE  /\ \A y \in Inum : Links(D2, E2, y) \subseteq Links(D, E, y) /\ (OneName(D, E, y) => OneName(D2, E2, y))
         /\ <<"name", <<n, k>>>> \in Links(D, E, i) /\ <<"name", <<n, k>>>> \notin Links(D2, E2, i)
         /\ D[i].type = "dir" /\ OneName(D, E, i) =>
              <<"below", i>> \in Links(D, E, n) /\ <<"below", i>> \notin Links(D2, E2, n)
<1> DEFINE q == E[n]
           r == E2[n]
           x == <<n, k>>
<1>1. /\ q \in Seq(DirEntry) /\ n \in Inum /\ i \in Inum /\ i # n /\ E \in [Inum -> Seq(DirEntry)]
      /\ k \in DOMAIN q /\ q[k].inum = i /\ q[k].name \notin {".", ".."}
      /\ r = [q EXCEPT ![k] = Entry(None, None)] /\ \A d \in Inum : d # n => E2[d] = E[d]
  BY DEF Clears
<1> HIDE DEF q, r
<1>2. /\ DOMAIN r = DOMAIN q /\ r[k].inum = None
      /\ \A m \in DOMAIN r : r[m].inum # None => r[m] = q[m]
      /\ dirlookup(r, "..") = dirlookup(q, "..")
  <2> DEFINE up == ".."
  <2>1. q[k].name # up  BY <1>1
  <2>2. Clear(q, k, r)  BY <1>1 DEF Clear
  <2> HIDE DEF up
  <2>3. /\ DOMAIN r = DOMAIN q /\ r[k].inum = None
        /\ \A m \in DOMAIN r : r[m].inum # None => r[m] = q[m]
        /\ dirlookup(r, up) = dirlookup(q, up)
    BY <2>1, <2>2, ClearedLooks
  <2> QED BY <2>3 DEF up
<1>3. \A d \in Inum : \A m \in DOMAIN E2[d] : E2[d][m].inum # None => m \in DOMAIN E[d] /\ E2[d][m] = E[d][m]
  BY <1>1, <1>2 DEF q, r
<1>4. \A d \in Inum : D2[d].type = "dir" /\ NamesOf(E2, d) # {} =>
        D[d].type = "dir" /\ dirlookup(E2[d], "..") = dirlookup(E[d], "..")
  BY <1>1, <1>2 DEF q, r
<1>5. ASSUME NEW y \in Inum
      PROVE  /\ NamesOf(E2, y) \subseteq NamesOf(E, y)
             /\ Links(D2, E2, y) \subseteq Links(D, E, y) /\ (OneName(D, E, y) => OneName(D2, E2, y))
  <2>1. Fewer(D, E, D2, E2)  BY <1>3, <1>4 DEF Fewer
  <2> QED BY <1>5, <2>1, LinksLess
<1>6. x \in NamesOf(E, i)  BY <1>1, NameIn DEF q
<1>7. x \notin NamesOf(E2, i)
  <2> SUFFICES ASSUME x \in NamesOf(E2, i) PROVE FALSE  OBVIOUS
  <2>1. PICK d \in Inum : \E m \in DOMAIN E2[d] : x = <<d, m>> /\ E2[d][m].inum = i  BY NameIn
  <2>2. E2[n][k].inum = i  BY <2>1
  <2> QED BY <1>1, <1>2, <2>2, Constants DEF r
<1>8. <<"name", x>> \in Links(D, E, i)  BY <1>6, LinksIn
<1>9. <<"name", x>> \notin Links(D2, E2, i)  BY <1>7, LinksIn
<1>10. ASSUME D[i].type = "dir", OneName(D, E, i)
       PROVE  <<"below", i>> \in Links(D, E, n) /\ <<"below", i>> \notin Links(D2, E2, n)
  <2>1. /\ \A a, b \in NamesOf(E, i) : a = b /\ a[1] = dirlookup(E[i], "..")
        /\ i = ROOTINO => NamesOf(E, i) = {}
    BY <1>10 DEF OneName
  <2>2. n = dirlookup(E[i], "..") /\ i # ROOTINO  BY <1>6, <2>1
  <2>3. i \in Below(D, E, n)  BY <1>1, <1>6, <1>10, <2>2 DEF Below
  <2>4. NamesOf(E2, i) = {}  BY <1>1, <1>5, <1>6, <1>7, <2>1
  <2>5. i \notin Below(D2, E2, n)  BY <2>4 DEF Below
  <2> QED BY <2>3, <2>5, LinksIn
<1> QED BY <1>5, <1>8, <1>9, <1>10

\* What unlink() finds when it has both inodes.
UnlinkAt(p, n, k, i) ==
  /\ Clears(dirent, [dirent EXCEPT ![n][k] = Entry(None, None)], n, k, i)
  /\ n = itable[dp[p]].inum /\ k = Lowest(Found(dirent[n], name[p])) /\ i = itable[ip[p]].inum
  /\ ip[p] \in Slot /\ dp[p] \in Slot /\ ip[p] # dp[p] /\ old[p] = None
  /\ itable[ip[p]].ref >= 1 /\ itable[dp[p]].ref >= 1 /\ itable[dp[p]].lock = p
  /\ itable[dp[p]] \in TableEntry /\ itable[dp[p]].ino = dinode[n] /\ dinode[n].type # "none"
  /\ dinode[i].type # "none" /\ ilock(p, ip[p]).ino = dinode[i]

LEMMA UnlinkFinds ==
  ASSUME TableInv, NamesInv, NEW p \in Procs, pc[p] = "unlink2", CanLock(ip[p])
  PROVE  \E n, k, i : UnlinkAt(p, n, k, i)
<1> DEFINE s == ip[p]
           d == dp[p]
           n == itable[d].inum
           i == itable[s].inum
           q == dirent[n]
           k == Lowest(Found(q, name[p]))
<1>1. pc[p] \notin Putting  BY DEF Putting
<1>2. LocalsAt("unlink2", call[p], ip[p], dp[p], old[p], fd[p]) /\ Held(p) = {d}  BY <1>1, AtPlace DEF HeldAt
<1>3. s \in Slot /\ d \in Slot /\ old[p] = None  BY <1>2, LocalFacts DEF LocalsAt, Walked, Parented
<1>4. s \in Named(p) /\ d \in Named(p)  BY <1>3, Constants DEF Named
<1>5. itable[s].ref >= 1 /\ itable[d].ref >= 1  BY <1>4, NamedUsed
<1>6. /\ itable[d].lock = p /\ itable[d] \in TableEntry /\ n \in Inum /\ itable[d].ino = dinode[n]
      /\ itable[d].ino.type # "none"
  <2>1. d \in Held(p)  BY <1>2
  <2> QED BY <1>3, <2>1, HeldFacts
<1>7. s # d  BY <1>6, Constants DEF CanLock
<1>8. Loaded(s) \in TableEntry /\ i \in Inum /\ Loaded(s).ino = dinode[i] /\ dinode[i].type # "none"
  <2>0. CanLock(s)  OBVIOUS
  <2> HIDE DEF s
  <2>1. /\ Loaded(s) \in TableEntry /\ itable[s].inum \in Inum /\ Loaded(s).ino = dinode[itable[s].inum]
        /\ Loaded(s).ino.type # "none"
    BY <1>3, <1>5, <2>0, LoadedInode
  <2> QED BY <2>1
<1>9. ilock(p, s).ino = dinode[i]  BY <1>8 DEF ilock, TableEntry
<1>10. i # n
  <2> SUFFICES ASSUME itable[s].inum = itable[d].inum PROVE FALSE  OBVIOUS
  <2> QED BY <1>3, <1>5, <1>7, SameSlot
<1>11. name[p] \notin {".", ".."} /\ dirlookup(q, name[p]) = i  BY DEF NamesInv, Mine, UnlinkRight
<1>12. dirent \in [Inum -> Seq(DirEntry)] /\ q \in Seq(DirEntry)
  <2>1. dirent \in [Inum -> Seq(DirEntry)]  BY TableFacts DEF DiskTypes
  <2> QED BY <1>6, <2>1
<1>13. k \in DOMAIN q /\ q[k].name = name[p] /\ q[k].inum = i
  <2>1. dirlookup(q, name[p]) # None  BY <1>8, <1>11, Constants
  <2> HIDE DEF q, i
  <2>2. k \in DOMAIN q /\ q[k].name = name[p] /\ q[k].inum = dirlookup(q, name[p])  BY <1>12, <2>1, FoundIn
  <2> QED BY <1>11, <2>2
<1>14. Clears(dirent, [dirent EXCEPT ![n][k] = Entry(None, None)], n, k, i)
  <2> HIDE DEF n, k, i
  <2> QED BY <1>6, <1>8, <1>10, <1>11, <1>12, <1>13 DEF Clears, q
<1>15. UnlinkAt(p, n, k, i)  BY <1>3, <1>5, <1>6, <1>7, <1>8, <1>9, <1>14 DEF UnlinkAt
<1> QED BY <1>15

\* What the entry that is cleared counted is kept, until the count is less.
LEMMA UnlinkEntryNames ==
  ASSUME TableInv, NamesInv, NEW p \in Procs, Others(p), SameInums, UnlinkEntry(p)
  PROVE  NamesInv'
<1> DEFINE s == ip[p]
           d == dp[p]
           dir == ilock(p, s).ino.type = "dir"
           m == IF dir THEN -1 ELSE 0
<1>0. LocalTypes  BY LocalFacts
<1>1. pc[p] = "unlink2" /\ CanLock(s) /\ UNCHANGED <<bitmap, indirect, cwd, fd>>
      /\ \/ Done(p, <<s, d>>) /\ UNCHANGED <<dirent, dinode>>
         \/ /\ dirent' = [dirent EXCEPT ![itable[d].inum][Lowest(Found(dirent[itable[d].inum], name[p]))] = Entry(None, None)]
            /\ itable' = [itable EXCEPT ![s] = ilock(p, s), ![d] = iunlock(relink(@, m))]
            /\ iupdate(itable', {d}) /\ dp' = [dp EXCEPT ![p] = None] /\ Put(p, <<d>>, "unlink3")
            /\ UNCHANGED <<call, path, ip, name, old>>
  BY DEF UnlinkEntry
<1>2. CASE Done(p, <<s, d>>) /\ UNCHANGED <<dirent, dinode>>
  <2> DEFINE ss == <<s, d>>
  <2>1. UNCHANGED <<diskVars, cwd, fd>> /\ Done(p, ss)  BY <1>1, <1>2 DEF diskVars
  <2> HIDE DEF ss
  <2> QED BY <2>1, DoneStill
<1>3. ASSUME /\ dirent' = [dirent EXCEPT ![itable[d].inum][Lowest(Found(dirent[itable[d].inum], name[p]))] = Entry(None, None)]
             /\ itable' = [itable EXCEPT ![s] = ilock(p, s), ![d] = iunlock(relink(@, m))]
             /\ iupdate(itable', {d}) /\ dp' = [dp EXCEPT ![p] = None] /\ Put(p, <<d>>, "unlink3")
             /\ UNCHANGED <<call, path, ip, name, old>>
      PROVE  NamesInv'
  <2>1. \E n, k, i : UnlinkAt(p, n, k, i)  BY <1>1, UnlinkFinds
  <2>2. PICK n, k, i : UnlinkAt(p, n, k, i)  BY <2>1
  <2>3. /\ Clears(dirent, dirent', n, k, i)
        /\ n = itable[d].inum /\ i = itable[s].inum
        /\ s \in Slot /\ d \in Slot /\ s # d /\ old[p] = None
        /\ itable[s].ref >= 1 /\ itable[d].ref >= 1 /\ itable[d].lock = p
        /\ itable[d] \in TableEntry /\ itable[d].ino = dinode[n] /\ dinode[n].type # "none"
        /\ dinode[i].type # "none" /\ (dir <=> dinode[i].type = "dir")
    BY <1>3, <2>2 DEF UnlinkAt
  <2>4. n \in Inum /\ i \in Inum /\ i # n /\ \A y \in Inum : y # n => dirent'[y] = dirent[y]
    BY <2>3 DEF Clears
  <2>5. /\ dp'[p] = None /\ pc'[p] = "put" /\ after'[p] = "unlink3" /\ ip'[p] = s /\ path'[p] = path[p]
        /\ old'[p] = None /\ cwd'[p] = cwd[p] /\ fd'[p] = fd[p]
    BY <1>0, <1>1, <1>3, <2>3 DEF Put, LocalTypes
  <2>6. itable'[s].inum = i  BY <2>3 DEF SameInums
  <2>7. Claims(p)' = {i} /\ Claims(p) = {}
    <3>1. At(p)' = "unlink3" /\ At(p) = "unlink2"  BY <1>1, <2>5 DEF At, Putting
    <3> QED BY <2>3, <2>5, <2>6, <3>1 DEF Claims
  <2>8. s \in Named(p) /\ d \in Named(p)  BY <2>3, Constants DEF Named
  <2>9. \A t \in Named(p)' : t \in Named(p)  BY <2>5 DEF Named
  <2>10. m \in Int /\ m \in {-1, 0} /\ (m = -1 <=> dinode[i].type = "dir")
    <3> HIDE DEF d, s
    <3> QED BY <2>3
  <2>11. Adds(n, m)
    <3> DEFINE x == itable[d]
               y == ilock(p, s)
               U(z) == iunlock(relink(z, m))
               j == itable'
    <3>1. j = [itable EXCEPT ![s] = y, ![d] = U(@)] /\ U(x) = iunlock(relink(x, m)) /\ iupdate(j, {d})  BY <1>3
    <3>2. itable \in [Slot -> TableEntry]  BY TableFacts
    <3> HIDE DEF y, U, j, s, d, m
    <3>3. j[d] = U(x)  BY <2>3, <3>1, <3>2
    <3>4. U(x) \in {relink(x, m), iunlock(relink(x, m))}  BY <3>1
    <3>5. x.inum = itable[d].inum /\ x.inum \in Inum /\ x.ino = dinode[x.inum] /\ x \in TableEntry  BY <2>3, <2>4
    <3> HIDE DEF x
    <3>6. Adds(itable[d].inum, m)  BY <2>3, <2>10, <3>1, <3>3, <3>4, <3>5, RelinkAdds
    <3> QED BY <2>3, <3>6
  <2> HIDE DEF m, dir
  <2>12. \A y \in Inum : dinode'[y].type = dinode[y].type /\ (y # n => dinode'[y].nlink = dinode[y].nlink)
    BY <2>11 DEF Adds
  <2>13. dinode'[n].nlink = dinode[n].nlink + m  BY <2>4, <2>11 DEF Adds
  <2>14. Frame(p)
    <3>1. \A y \in Inum : dinode'[y].nlink = dinode[y].nlink \/ \E t \in Named(p) : itable[t].inum = y
      BY <2>3, <2>8, <2>12
    <3>2. ASSUME NEW t \in Slot, itable[t].ref >= 1, itable[t].lock \notin {p, None}
          PROVE  dirent'[itable[t].inum] = dirent[itable[t].inum]
      <4>1. itable[t].inum # n
        <5> SUFFICES ASSUME itable[t].inum = itable[d].inum PROVE FALSE  BY <2>3
        <5> HIDE DEF d
        <5>1. t = d  BY <2>3, <3>2, SameSlot
        <5> QED BY <2>3, <3>2, <5>1
      <4>2. itable[t].inum \in Inum
        <5>1. TableOK(itable, dinode) /\ itable[t].ref \in Nat /\ itable[t].inum \in Inum \cup {None}
          BY TableFacts, EntryTypes
        <5>2. itable[t].ref > 0  BY <3>2, <5>1
        <5> QED BY <5>1, <5>2 DEF TableOK
      <4> QED BY <2>4, <4>1, <4>2
    <3> QED BY <2>9, <2>12, <3>1, <3>2 DEF Frame
  <2>15. Users' /\ Orphans' /\ \A q \in Procs : Mine(q)'
    <3>1. PathRight(p)'  BY <2>5 DEF NamesInv, Mine, PathRight
    <3>2. Ends(p)  BY <2>5, <3>1 DEF Ends
    <3> QED BY <2>14, <3>2, FrameEnds DEF NamesInv
  <2> HIDE DEF s, d
  <2> DEFINE x == <<"name", <<n, k>>>>
             z == <<"below", i>>
             D == dinode'
             E == dirent'
  <2>16. /\ \A y \in Inum : Links(D, E, y) \subseteq Links(dinode, dirent, y)
                            /\ (OneName(dinode, dirent, y) => OneName(D, E, y))
         /\ x \in Links(dinode, dirent, i) /\ x \notin Links(D, E, i)
         /\ dinode[i].type = "dir" /\ OneName(dinode, dirent, i) =>
              z \in Links(dinode, dirent, n) /\ z \notin Links(D, E, n)
    <3>1. (\A y \in Inum : D[y].type = dinode[y].type) /\ Clears(dirent, E, n, k, i)  BY <2>3, <2>12
    <3> HIDE DEF D, E
    <3> QED BY <3>1, ClearsLinks
  <2> HIDE DEF x, z
  <2>17. ASSUME NEW y \in Inum PROVE CountRight(y)'
    <3>1. CountRight(y)  BY DEF NamesInv, CountsRight
    <3>2. Links(dinode', dirent', y) \subseteq Links(dinode, dirent, y)
          /\ (OneName(dinode, dirent, y) => OneName(dinode', dirent', y))
      BY <2>16
    <3>3. OneName(dinode', dirent', y)  BY <3>1, <3>2 DEF CountRight
    <3>4. CASE y # i /\ (y # n \/ m = 0)
      <4>1. dinode'[y].nlink = dinode[y].nlink
        <5>1. dinode[y].nlink \in Int  BY LinksCount
        <5> QED BY <2>12, <2>13, <3>4, <5>1
      <4>2. dinode'[y].type = "none" => dinode[y].nlink = 0  BY <2>12, <3>1 DEF CountRight
      <4>3. y \in Claims(p)' => y \in Claims(p)  BY <2>7, <3>4
      <4> QED BY <3>1, <3>2, <4>1, <4>2, <4>3, CountKept
    <3>5. CASE y = i
      <4> DEFINE S == Due(y)
                 T == Due(y)'
                 w == <<"kept", p>>
      <4>1. IsFiniteSet(S)  BY DueIsFinite
      <4>2. x \in S  BY <2>16, <3>5, DueIn
      <4>3. ASSUME NEW v \in T PROVE v \in (S \ {x}) \cup {w}
        <5>1. CASE v \in Links(dinode', dirent', y)  BY <2>16, <3>2, <3>5, <5>1, DueIn
        <5>2. CASE v \notin Links(dinode', dirent', y)
          <6>1. v = w \/ (v \in S /\ \E q \in Procs : v = <<"kept", q>>)  BY <5>2, DueAfter
          <6>2. v # w => v # x  BY <6>1 DEF x
          <6> QED BY <6>1, <6>2
        <5> QED BY <5>1, <5>2
      <4> HIDE DEF S, T, w
      <4>4. T \subseteq (S \ {x}) \cup {w}  BY <4>3
      <4>5. Cardinality(T) <= Cardinality(S) /\ Cardinality(T) \in Nat /\ Cardinality(S) \in Nat
        BY <4>1, <4>2, <4>4, CountSwap
      <4>6. Cardinality(T) <= Cardinality(S) + 0 /\ 0 \in Int  BY <4>5
      <4>7. dinode'[y].nlink = dinode[y].nlink + 0
        <5>1. dinode[y].nlink \in Int  BY LinksCount
        <5> QED BY <2>4, <2>12, <3>5, <5>1
      <4>8. dinode'[y].type # "none"  BY <2>3, <2>4, <2>12, <3>5
      <4> QED BY <3>1, <3>3, <4>5, <4>6, <4>7, <4>8, CountChanged DEF S, T
    <3>6. CASE y = n /\ m = -1
      <4> DEFINE S == Due(y)
                 T == Due(y)'
      <4>0. CountRight(i)  BY <2>4 DEF NamesInv, CountsRight
      <4>1. IsFiniteSet(S)  BY DueIsFinite
      <4>2. z \in Links(dinode, dirent, n) /\ z \notin Links(dinode', dirent', n)
        BY <2>10, <2>16, <3>6, <4>0 DEF CountRight
      <4>3. z \in S  BY <3>6, <4>2, DueIn
      <4>4. ASSUME NEW v \in T PROVE v \in S \ {z}
        <5>1. CASE v \in Links(dinode', dirent', y)  BY <3>2, <3>6, <4>2, <5>1, DueIn
        <5>2. CASE v \notin Links(dinode', dirent', y)
          <6>1. y \notin Claims(p)'  BY <2>4, <2>7, <3>6
          <6>2. v \in S /\ \E q \in Procs : v = <<"kept", q>>  BY <5>2, <6>1, DueAfter
          <6>3. v # z  BY <6>2 DEF z
          <6> QED BY <6>2, <6>3
        <5> QED BY <5>1, <5>2
      <4> HIDE DEF S, T
      <4>5. T \subseteq S \ {z}  BY <4>4
      <4>6. Cardinality(T) <= Cardinality(S) - 1 /\ Cardinality(T) \in Nat /\ Cardinality(S) \in Nat
        BY <4>1, <4>3, <4>5, CountOut
      <4>7. Cardinality(T) <= Cardinality(S) + m  BY <3>6, <4>6
      <4>8. dinode'[y].nlink = dinode[y].nlink + m /\ dinode'[y].type # "none"  BY <2>3, <2>4, <2>12, <2>13, <3>6
      <4> QED BY <2>10, <3>1, <3>3, <4>6, <4>7, <4>8, CountChanged DEF S, T
    <3> QED BY <2>10, <3>4, <3>5, <3>6
  <2> QED BY <2>15, <2>17 DEF NamesInv, CountsRight
<1> QED BY <1>1, <1>2, <1>3

-----------------------------------------------------------------------------
(* An entry is made.                                                         *)

\* In an empty place, or at the end.
Enters(q, k, e, r) ==
  /\ q \in Seq(DirEntry) /\ r \in Seq(DirEntry)
  /\ k \in DOMAIN r /\ r[k] = e /\ (k \in DOMAIN q => q[k].inum = None)
  /\ DOMAIN q \subseteq DOMAIN r /\ DOMAIN r \subseteq DOMAIN q \cup {k}
  /\ \A m \in DOMAIN q : m # k => r[m] = q[m]

LEMMA DirlinkEnters ==
  ASSUME NEW dir \in Dirs, NEW n \in Name, NEW i \in Inum
  PROVE  LET r == dirlink(dir, n, i)
         IN  \/ ~r.ok /\ r.d = dir.d
             \/ r.ok /\ dir.ok /\ dirlookup(dir.d, n) = None /\ \E k : Enters(dir.d, k, Entry(n, i), r.d)
<1> DEFINE d == dir.d
           k == IF Empties(d) = {} THEN Len(d) + 1 ELSE Lowest(Empties(d))
           w == writei(dir.ino, dir.sp, k - 1)
           r == dirlink(dir, n, i)
           e == Entry(n, i)
<1>1. dir.ok \in BOOLEAN /\ d \in Seq(DirEntry)  BY DEF Dirs
<1>2. r = IF ~dir.ok \/ dirlookup(d, n) # None THEN [dir EXCEPT !.ok = FALSE]
          ELSE Linked(d, k, e, w)
  BY DEF dirlink, LinkedAt
<1> HIDE DEF r
<1>3. CASE ~dir.ok \/ dirlookup(d, n) # None
  <2>1. r = [dir EXCEPT !.ok = FALSE]  BY <1>2, <1>3
  <2>2. ~r.ok /\ r.d = d  BY <2>1 DEF Dirs
  <2> QED BY <2>2 DEF r
<1>4. CASE ~(~dir.ok \/ dirlookup(d, n) # None)
  <2>1. DOMAIN d = 1 .. Len(d) /\ Len(d) \in Nat  BY <1>1, LenProperties
  <2>2. k \in 1 .. Len(d) + 1 /\ (k \in DOMAIN d => d[k].inum = None)
    <3>1. Empties(d) \subseteq 1 .. Len(d) /\ Empties(d) \subseteq Nat  BY <2>1 DEF Empties
    <3>2. Empties(d) # {} => Lowest(Empties(d)) \in Empties(d)  BY <3>1, LowestIn
    <3> QED BY <2>1, <3>1, <3>2 DEF Empties
  <2> HIDE DEF k, d, w
  <2>3. /\ r.ok = w.ok
        /\ r.d = (IF ~w.ok THEN d ELSE IF k <= Len(d) THEN [d EXCEPT ![k] = e] ELSE Append(d, e))
    BY <1>2, <1>4 DEF Linked
  <2>4. e \in DirEntry  BY DEF Entry, DirEntry, Name
  <2> HIDE DEF e
  <2>5. CASE ~w.ok
    <3>1. ~r.ok /\ r.d = d  BY <2>3, <2>5
    <3> QED BY <3>1 DEF r, d
  <2>6. CASE w.ok
    <3> DEFINE g == r.d
    <3>1. Enters(d, k, e, g)
      <4>1. CASE k <= Len(d)
        <5>1. k \in 1 .. Len(d) /\ g = [d EXCEPT ![k] = e]  BY <2>1, <2>2, <2>3, <2>6, <4>1
        <5>2. g \in Seq(DirEntry)  BY <1>1, <2>4, <5>1, ExceptSeq
        <5>3. DOMAIN g = DOMAIN d /\ g[k] = e /\ \A m \in DOMAIN d : m # k => g[m] = d[m]  BY <2>1, <5>1
        <5> QED BY <1>1, <2>1, <2>2, <5>1, <5>2, <5>3 DEF Enters
      <4>2. CASE ~(k <= Len(d))
        <5>1. k = Len(d) + 1 /\ g = Append(d, e)  BY <2>1, <2>2, <2>3, <2>6, <4>2
        <5>2. g \in Seq(DirEntry) /\ Len(g) = Len(d) + 1 /\ g[Len(d) + 1] = e /\ \A m \in 1 .. Len(d) : g[m] = d[m]
          BY <1>1, <2>4, <5>1
        <5>3. DOMAIN g = 1 .. Len(d) + 1  BY <5>2, LenProperties
        <5> QED BY <1>1, <2>1, <2>2, <5>1, <5>2, <5>3 DEF Enters
      <4> QED BY <4>1, <4>2
    <3>2. r.ok /\ dir.ok /\ dirlookup(d, n) = None  BY <1>4, <2>3, <2>6
    <3> QED BY <3>1, <3>2 DEF r, d, e
  <2> QED BY <2>5, <2>6
<1> QED BY <1>3, <1>4

\* Other names lead where they did, and this one to the inode.
LEMMA EntersLooks ==
  ASSUME NEW q, NEW k, NEW e, NEW r, Enters(q, k, e, r)
  PROVE  /\ \A n : e.name # n => dirlookup(r, n) = dirlookup(q, n)
         /\ e.inum # None /\ dirlookup(q, e.name) = None => dirlookup(r, e.name) = e.inum
<1>1. /\ q \in Seq(DirEntry) /\ r \in Seq(DirEntry)
      /\ k \in DOMAIN r /\ r[k] = e /\ (k \in DOMAIN q => q[k].inum = None)
      /\ DOMAIN q \subseteq DOMAIN r /\ DOMAIN r \subseteq DOMAIN q \cup {k}
      /\ \A m \in DOMAIN q : m # k => r[m] = q[m]
  BY DEF Enters
<1>2. ASSUME NEW n, e.name # n PROVE dirlookup(r, n) = dirlookup(q, n)
  <2>1. k \notin Found(r, n) /\ k \notin Found(q, n)  BY <1>1, <1>2 DEF Found
  <2>2. Found(r, n) = Found(q, n)  BY <1>1, <2>1 DEF Found
  <2>3. ASSUME Found(q, n) = {} PROVE dirlookup(r, n) = dirlookup(q, n)
    <3>1. Found(r, n) = {}  BY <2>2, <2>3
    <3>2. dirlookup(r, n) = None  BY <3>1 DEF dirlookup
    <3>3. dirlookup(q, n) = None  BY <2>3 DEF dirlookup
    <3> QED BY <3>2, <3>3
  <2>4. ASSUME Found(q, n) # {} PROVE dirlookup(r, n) = dirlookup(q, n)
    <3> DEFINE l == Lowest(Found(q, n))
    <3>1. Found(q, n) \subseteq Nat  BY <1>1 DEF Found
    <3>2. l \in Found(q, n)  BY <2>4, <3>1, LowestIn
    <3>3. l \in DOMAIN q /\ l # k  BY <2>1, <3>2 DEF Found
    <3>4. dirlookup(q, n) = q[l].inum  BY <2>4 DEF dirlookup
    <3>5. l = Lowest(Found(r, n)) /\ Found(r, n) # {}  BY <2>2, <2>4
    <3> HIDE DEF l
    <3>6. dirlookup(r, n) = r[l].inum  BY <3>5 DEF dirlookup
    <3>7. r[l] = q[l]  BY <1>1, <3>3
    <3> QED BY <3>4, <3>6, <3>7
  <2> QED BY <2>3, <2>4
<1>3. ASSUME e.inum # None, dirlookup(q, e.name) = None PROVE dirlookup(r, e.name) = e.inum
  <2> DEFINE n == e.name
             l == Lowest(Found(r, n))
  <2>1. Found(q, n) = {}
    <3> SUFFICES ASSUME Found(q, n) # {} PROVE FALSE  OBVIOUS
    <3> DEFINE h == Lowest(Found(q, n))
    <3>1. Found(q, n) \subseteq Nat  BY <1>1 DEF Found
    <3>2. h \in Found(q, n)  BY <3>1, LowestIn
    <3>3. q[h].inum # None  BY <3>2 DEF Found
    <3>4. dirlookup(q, n) = q[h].inum  BY DEF dirlookup
    <3> QED BY <1>3, <3>3, <3>4
  <2>2. k \in Found(r, n)  BY <1>1, <1>3 DEF Found
  <2>3. Found(r, n) \subseteq {k}
    <3> SUFFICES ASSUME NEW m \in Found(r, n), m # k PROVE FALSE  OBVIOUS
    <3>1. m \in DOMAIN q /\ r[m] = q[m]  BY <1>1 DEF Found
    <3>2. m \in Found(q, n)  BY <3>1 DEF Found
    <3> QED BY <2>1, <3>2
  <2>4. Found(r, n) \subseteq Nat  BY <1>1 DEF Found
  <2>5. l \in Found(r, n)  BY <2>2, <2>4, LowestIn
  <2>6. l = k  BY <2>3, <2>5
  <2>7. dirlookup(r, n) = r[l].inum  BY <2>2 DEF dirlookup
  <2> QED BY <1>1, <2>6, <2>7
<1> QED BY <1>2, <1>3

\* Inode i gets the name in place k of directory n; other entries go, or count for nothing.
More(D, E, D2, E2, n, k, i) ==
  /\ \A d \in Inum : \A m \in DOMAIN E2[d] : E2[d][m].inum # None =>
       \/ m \in DOMAIN E[d] /\ E2[d][m] = E[d][m]
       \/ d = n /\ m = k /\ E2[d][m].inum = i
       \/ E2[d][m].name = ".." \/ (E2[d][m].name = "." /\ E2[d][m].inum = d)
  /\ \A d \in Inum : d # i /\ D2[d].type = "dir" /\ NamesOf(E2, d) # {} =>
       D[d].type = "dir" /\ dirlookup(E2[d], "..") = dirlookup(E[d], "..")

LEMMA NamesMore ==
  ASSUME NEW D, NEW E, NEW D2, NEW E2, NEW n, NEW k, NEW i, More(D, E, D2, E2, n, k, i),
         NEW y \in Inum, NEW x \in NamesOf(E2, y)
  PROVE  x \in NamesOf(E, y) \/ (y = i /\ x = <<n, k>>)
<1>0. None \notin Inum  BY Constants
<1>1. PICK d \in Inum : \E m \in DOMAIN E2[d] :
        /\ x = <<d, m>> /\ E2[d][m].inum = y /\ E2[d][m].name # ".."
        /\ ~(E2[d][m].name = "." /\ d = y)
  BY NameIn
<1>2. PICK m \in DOMAIN E2[d] :
        /\ x = <<d, m>> /\ E2[d][m].inum = y /\ E2[d][m].name # ".."
        /\ ~(E2[d][m].name = "." /\ d = y)
  BY <1>1
<1>3. \/ m \in DOMAIN E[d] /\ E2[d][m] = E[d][m]
      \/ d = n /\ m = k /\ E2[d][m].inum = i
  BY <1>0, <1>2 DEF More
<1>4. CASE m \in DOMAIN E[d] /\ E2[d][m] = E[d][m]  BY <1>2, <1>4, NameIn
<1> QED BY <1>2, <1>3, <1>4

LEMMA LinksMore ==
  ASSUME NEW D, NEW E, NEW D2, NEW E2, NEW n, NEW k, NEW i, More(D, E, D2, E2, n, k, i), NEW y \in Inum
  PROVE  /\ \A z \in Links(D2, E2, y) :
              \/ z \in Links(D, E, y)
              \/ y = i /\ z = <<"name", <<n, k>>>>
              \/ z = <<"below", i>> /\ D2[i].type = "dir" /\ y = dirlookup(E2[i], "..")
         /\ y # i /\ OneName(D, E, y) => OneName(D2, E2, y)
<1>0. \A d \in Inum : d # i /\ D2[d].type = "dir" /\ NamesOf(E2, d) # {} =>
        D[d].type = "dir" /\ dirlookup(E2[d], "..") = dirlookup(E[d], "..")
  BY DEF More
<1>1. ASSUME NEW z \in Links(D2, E2, y)
      PROVE  \/ z \in Links(D, E, y)
             \/ y = i /\ z = <<"name", <<n, k>>>>
             \/ z = <<"below", i>> /\ D2[i].type = "dir" /\ y = dirlookup(E2[i], "..")
  <2>1. CASE \E x \in NamesOf(E2, y) : z = <<"name", x>>
    <3>1. PICK x \in NamesOf(E2, y) : z = <<"name", x>>  BY <2>1
    <3>2. x \in NamesOf(E, y) \/ (y = i /\ x = <<n, k>>)  BY NamesMore
    <3> QED BY <3>1, <3>2, LinksIn
  <2>2. CASE \E d \in Below(D2, E2, y) : z = <<"below", d>>
    <3>1. PICK d \in Below(D2, E2, y) : z = <<"below", d>>  BY <2>2
    <3>2. d \in Inum \ {ROOTINO} /\ D2[d].type = "dir" /\ dirlookup(E2[d], "..") = y /\ NamesOf(E2, d) # {}
      BY DEF Below
    <3>3. CASE d = i  BY <3>1, <3>2, <3>3
    <3>4. CASE d # i
      <4>1. D[d].type = "dir" /\ dirlookup(E[d], "..") = y  BY <1>0, <3>2, <3>4
      <4>2. PICK x : x \in NamesOf(E2, d)  BY <3>2
      <4>3. x \in NamesOf(E, d)  BY <3>2, <3>4, <4>2, NamesMore
      <4>4. d \in Below(D, E, y)  BY <3>2, <4>1, <4>3 DEF Below
      <4> QED BY <3>1, <4>4, LinksIn
    <3> QED BY <3>3, <3>4
  <2>3. CASE y = ROOTINO /\ z = <<"root", y>>  BY <2>3, LinksIn
  <2> QED BY <2>1, <2>2, <2>3, LinksIn
<1>2. ASSUME y # i, OneName(D, E, y) PROVE OneName(D2, E2, y)
  <2> SUFFICES ASSUME D2[y].type = "dir", NamesOf(E2, y) # {}
               PROVE  /\ \A u, v \in NamesOf(E2, y) : u = v /\ u[1] = dirlookup(E2[y], "..")
                      /\ y = ROOTINO => NamesOf(E2, y) = {}
    BY DEF OneName
  <2>1. D[y].type = "dir" /\ dirlookup(E2[y], "..") = dirlookup(E[y], "..")  BY <1>0, <1>2
  <2>2. /\ \A u, v \in NamesOf(E, y) : u = v /\ u[1] = dirlookup(E[y], "..")
        /\ y = ROOTINO => NamesOf(E, y) = {}
    BY <1>2, <2>1 DEF OneName
  <2>3. NamesOf(E2, y) \subseteq NamesOf(E, y)  BY <1>2, NamesMore
  <2> QED BY <2>1, <2>2, <2>3
<1> QED BY <1>1, <1>2

LEMMA EntersMore ==
  ASSUME NEW D, NEW D2, NEW E, NEW E2, NEW n \in Inum, NEW i \in Inum, NEW k, NEW e,
         Enters(E[n], k, e, E2[n]), e.inum = i, e.name # "..",
         \A d \in Inum : D2[d].type = D[d].type,
         \A d \in Inum : d # n => E2[d] = E[d] \/
           (d = i /\ \A m \in DOMAIN E2[d] : E2[d][m].inum # None =>
                       E2[d][m].name = ".." \/ (E2[d][m].name = "." /\ E2[d][m].inum = d))
  PROVE  More(D, E, D2, E2, n, k, i)
<1> DEFINE q == E[n]
           r == E2[n]
<1>1. /\ k \in DOMAIN r /\ r[k] = e
      /\ DOMAIN r \subseteq DOMAIN q \cup {k}
      /\ \A m \in DOMAIN q : m # k => r[m] = q[m]
  BY DEF Enters
<1>2. ASSUME NEW d \in Inum, NEW m \in DOMAIN E2[d], E2[d][m].inum # None
      PROVE  \/ m \in DOMAIN E[d] /\ E2[d][m] = E[d][m]
             \/ d = n /\ m = k /\ E2[d][m].inum = i
             \/ E2[d][m].name = ".." \/ (E2[d][m].name = "." /\ E2[d][m].inum = d)
  <2>1. CASE d = n  BY <1>1, <1>2, <2>1
  <2>2. CASE d # n  BY <1>2, <2>2
  <2> QED BY <2>1, <2>2
<1>3. ASSUME NEW d \in Inum, d # i PROVE dirlookup(E2[d], "..") = dirlookup(E[d], "..")
  <2>1. CASE d = n
    <3> DEFINE up == ".."
    <3>1. e.name # up  OBVIOUS
    <3> HIDE DEF up
    <3>2. dirlookup(r, up) = dirlookup(q, up)  BY <3>1, EntersLooks
    <3> QED BY <2>1, <3>2 DEF up
  <2>2. CASE d # n
    <3>1. E2[d] = E[d]  BY <1>3, <2>2
    <3> QED BY <3>1
  <2> QED BY <2>1, <2>2
<1> QED BY <1>2, <1>3 DEF More

\* What link() finds when it has the directory, and what it makes of it.
LinkAt(p, n, i, l) ==
  /\ n = itable[dp[p]].inum /\ i = itable[old[p]].inum /\ n \in Inum /\ i \in Inum
  /\ name[p] # ".." /\ dinode[i].type # "dir" /\ dinode[i].type # "none" /\ Claims(p) = {i}
  /\ dp[p] \in Slot /\ itable[dp[p]].ref >= 1 /\ itable[dp[p]].lock = None
  /\ dirent' = [dirent EXCEPT ![n] = l.d] /\ Adds(n, 0)
  /\ IF l.ok THEN Done(p, <<dp[p], old[p]>>) ELSE Fails(p, <<dp[p]>>)
  /\ \/ ~l.ok /\ l.d = dirent[n]
     \/ l.ok /\ \E k : Enters(dirent[n], k, Entry(name[p], i), l.d)

LEMMA LinkFinds ==
  ASSUME TableInv, NamesInv, NEW p \in Procs, LinkEntry(p)
  PROVE  \E n, i, l : LinkAt(p, n, i, l)
<1> DEFINE s == dp[p]
           o == old[p]
           x == Loaded(s)
           n == itable[s].inum
           i == itable[o].inum
           dir == Dir(dirent[x.inum], x.ino, Space)
           l == dirlink(dir, name[p], i)
           e == [x EXCEPT !.ino = l.ino]
           j == itable'
<1>1. /\ pc[p] = "link2" /\ CanLock(s) /\ j = [itable EXCEPT ![s] = e]
      /\ dirent' = [dirent EXCEPT ![x.inum] = l.d] /\ iupdate(j, {s})
      /\ IF l.ok THEN Done(p, <<s, o>>) ELSE Fails(p, <<s>>)
  BY DEF LinkEntry
<1>2. pc[p] \notin Putting /\ DiskTypes  BY <1>1, TableFacts DEF Putting
<1>3. LocalsAt("link2", call[p], ip[p], dp[p], old[p], fd[p])  BY <1>1, <1>2, AtPlace
<1>4. s \in Slot /\ o \in Slot  BY <1>3, LocalFacts DEF LocalsAt, Walked, Parented
<1>5. s \in Named(p) /\ o \in Named(p) /\ s # None /\ o # None  BY <1>4, Constants DEF Named
<1>6. itable[s].ref >= 1 /\ n \in Inum /\ i \in Inum  BY <1>5, NamedUsed
<1>7. dinode[i].type # "none" /\ dinode[i].type # "dir"
  BY <1>5 DEF NamesInv, Mine, OldRight, Users, Of
<1>8. name[p] # ".."  BY <1>5 DEF NamesInv, Mine, PathRight
<1>9. Claims(p) = {i}  BY <1>5 DEF Claims
<1>10. /\ x \in TableEntry /\ x.inum = n /\ x.ino = dinode[n] /\ x.ino \in Dinode /\ x.ino.type # "none"
       /\ itable[s].lock = None
  <2>0. CanLock(s)  BY <1>1
  <2> HIDE DEF s
  <2>1. /\ Loaded(s) \in TableEntry /\ Loaded(s).inum = itable[s].inum
        /\ Loaded(s).ino = dinode[itable[s].inum] /\ Loaded(s).ino \in Dinode /\ Loaded(s).ino.type # "none"
        /\ itable[s].lock = None
    BY <1>4, <1>6, <2>0, LoadedInode
  <2> QED BY <2>1
<1>11. itable \in [Slot -> TableEntry]  BY TableFacts
<1> HIDE DEF x
<1>12. /\ BlocksOf(x.ino, Space.ind) \subseteq Space.used /\ OneOwner(dinode, Space)
       /\ dinode \in [Inum -> Dinode] /\ Space \in Spaces
  <2>1. dinode[n].type # "none"  BY <1>10
  <2> HIDE DEF n
  <2> QED BY <1>6, <1>10, <2>1, OwnUsed
<1>13. dir \in Dirs /\ Own1(dir) /\ dir.ino = x.ino /\ dir.sp = Space /\ dir.d = dirent[n] /\ dir.ok = TRUE
  BY <1>2, <1>6, <1>10, <1>12 DEF Dir, Dirs, Own1, DiskTypes
<1>14. name[p] \in Name  BY LocalFacts DEF Name
<1> HIDE DEF dir, n, i, s, o
<1>15. l \in Dirs /\ Kind(dir.ino, l.ino) /\ Grows(dir.ino, dir.sp, l.ino, l.sp)
  BY <1>6, <1>13, <1>14, DirlinkOK
<1>16. \/ ~l.ok /\ l.d = dir.d
       \/ l.ok /\ dir.ok /\ dirlookup(dir.d, name[p]) = None /\ \E k : Enters(dir.d, k, Entry(name[p], i), l.d)
  BY <1>6, <1>13, <1>14, DirlinkEnters
<1> HIDE DEF l
<1>17. j[s] = e  BY <1>1, <1>4, <1>11
<1> HIDE DEF j
<1>18. Adds(n, 0)
  <2>1. e.inum = n /\ e.ino = l.ino  BY <1>10 DEF TableEntry
  <2>2. l.ino.type = dinode[n].type /\ l.ino.nlink = dinode[n].nlink  BY <1>10, <1>13, <1>15 DEF Kind
  <2>3. dinode[n].nlink \in Int  BY <1>6, LinksCount
  <2>4. j[s].inum = n /\ n \in Inum /\ j[s].ino.type = dinode[n].type /\ j[s].ino.nlink = dinode[n].nlink
    BY <1>6, <1>17, <2>1, <2>2
  <2>5. j[s].inum \in Inum /\ j[s].ino.type = dinode[j[s].inum].type
        /\ j[s].ino.nlink = dinode[j[s].inum].nlink + 0 /\ iupdate(j, {s})
    BY <1>1, <2>3, <2>4
  <2>6. Adds(j[s].inum, 0)
    <3> DEFINE m == 0
    <3>1. j[s].ino.nlink = dinode[j[s].inum].nlink + m  BY <2>5
    <3> HIDE DEF m
    <3>2. Adds(j[s].inum, m)  BY <2>5, <3>1, WroteAdds
    <3> QED BY <3>2 DEF m
  <2> QED BY <2>4, <2>6
<1>19. dirent' = [dirent EXCEPT ![n] = l.d]  BY <1>1, <1>10
<1>20. LinkAt(p, n, i, l)
  <2>1. n = itable[dp[p]].inum /\ i = itable[old[p]].inum /\ s = dp[p] /\ o = old[p]  BY DEF n, i, s, o
  <2> QED BY <1>1, <1>4, <1>6, <1>7, <1>8, <1>9, <1>10, <1>13, <1>16, <1>18, <1>19, <2>1 DEF LinkAt
<1> QED BY <1>20

\* The entry takes the place of the link that was kept.
LEMMA LinkEntryNames ==
  ASSUME TableInv, NamesInv, NEW p \in Procs, Others(p), SameInums, LinkEntry(p)
  PROVE  NamesInv'
<1>1. \E n, i, l : LinkAt(p, n, i, l)  BY LinkFinds
<1>2. PICK n, i, l : LinkAt(p, n, i, l)  BY <1>1
<1>3. /\ n \in Inum /\ i \in Inum /\ name[p] # ".." /\ dinode[i].type # "dir" /\ dinode[i].type # "none"
      /\ Claims(p) = {i} /\ dirent' = [dirent EXCEPT ![n] = l.d] /\ Adds(n, 0)
      /\ dp[p] \in Slot /\ itable[dp[p]].ref >= 1 /\ itable[dp[p]].lock = None /\ n = itable[dp[p]].inum
  BY <1>2 DEF LinkAt
<1>4. dirent \in [Inum -> Seq(DirEntry)]  BY TableFacts DEF DiskTypes
<1>5. UNCHANGED <<cwd, fd>>  BY DEF LinkEntry
<1>6. CASE ~l.ok
  <2>1. l.d = dirent[n] /\ Fails(p, <<dp[p]>>)  BY <1>2, <1>6 DEF LinkAt
  <2>2. dirent' = dirent  BY <1>3, <1>4, <2>1
  <2>3. DiskQuiet
    <3> DEFINE m == 0
    <3>1. Adds(n, m)  BY <1>3
    <3>2. Adds(n, 0)  BY <3>1
    <3> QED BY <2>2, <3>2, AddsNone
  <2> DEFINE ss == <<dp[p]>>
  <2>4. Fails(p, ss)  BY <2>1
  <2> HIDE DEF ss
  <2> QED BY <1>5, <2>3, <2>4, FailsQuiet
<1>7. CASE l.ok
  <2>1. Done(p, <<dp[p], old[p]>>) /\ \E k : Enters(dirent[n], k, Entry(name[p], i), l.d)  BY <1>2, <1>7 DEF LinkAt
  <2>2. PICK k : Enters(dirent[n], k, Entry(name[p], i), l.d)  BY <2>1
  <2> DEFINE x == <<"name", <<n, k>>>>
             w == <<"kept", p>>
             e == Entry(name[p], i)
             D == dinode'
             E == dirent'
  <2>3. \A y \in Inum : dinode'[y].type = dinode[y].type /\ dinode'[y].nlink = dinode[y].nlink
    <3>1. \A y \in Inum : dinode[y].nlink \in Int  BY LinksCount
    <3> QED BY <1>3, <3>1 DEF Adds
  <2>4. dirent'[n] = l.d /\ \A y \in Inum : y # n => dirent'[y] = dirent[y]  BY <1>3, <1>4
  <2>5. More(dinode, dirent, dinode', dirent', n, k, i)
    <3>1. e.inum = i /\ e.name # ".."  BY <1>3 DEF Entry
    <3>2. Enters(dirent[n], k, e, E[n])  BY <2>2, <2>4
    <3>3. \A d \in Inum : D[d].type = dinode[d].type  BY <2>3
    <3>4. \A d \in Inum : d # n => E[d] = dirent[d]  BY <2>4
    <3> HIDE DEF D, E, e
    <3>5. More(dinode, dirent, D, E, n, k, i)  BY <1>3, <3>1, <3>2, <3>3, <3>4, EntersMore
    <3> QED BY <3>5 DEF D, E
  <2>6. ASSUME NEW y \in Inum
        PROVE  /\ \A z \in Links(dinode', dirent', y) :
                    z \in Links(dinode, dirent, y) \/ (y = i /\ z = x)
               /\ y # i /\ OneName(dinode, dirent, y) => OneName(dinode', dirent', y)
    <3>1. D[i].type # "dir"  BY <1>3, <2>3
    <3>2. More(dinode, dirent, D, E, n, k, i)  BY <2>5
    <3> HIDE DEF D, E
    <3>3. /\ \A z \in Links(D, E, y) :
              \/ z \in Links(dinode, dirent, y)
              \/ y = i /\ z = <<"name", <<n, k>>>>
              \/ z = <<"below", i>> /\ D[i].type = "dir" /\ y = dirlookup(E[i], "..")
          /\ y # i /\ OneName(dinode, dirent, y) => OneName(D, E, y)
      BY <3>2, LinksMore
    <3> QED BY <3>1, <3>3 DEF D, E
  <2>7. Ends(p) /\ Claims(p)' = {} /\ \A s \in Named(p)' : s \in Named(p)
    <3> DEFINE ss == <<dp[p], old[p]>>
    <3>1. Done(p, ss)  BY <2>1
    <3>2. cwd'[p] \in Named(p) /\ (fd'[p] = None \/ fd'[p].ip \in Named(p))  BY <1>5, SamePlaces
    <3> HIDE DEF ss
    <3> QED BY <3>1, <3>2, DoneEnds
  <2>8. Frame(p)
    <3>1. ASSUME NEW t \in Slot, itable[t].ref >= 1, itable[t].lock \notin {p, None}
          PROVE  dirent'[itable[t].inum] = dirent[itable[t].inum]
      <4>1. itable[t].inum # n
        <5> DEFINE d == dp[p]
        <5> SUFFICES ASSUME itable[t].inum = itable[d].inum PROVE FALSE  BY <1>3
        <5>0. d \in Slot /\ itable[d].ref >= 1 /\ itable[d].lock = None  BY <1>3
        <5> HIDE DEF d
        <5>1. t = d  BY <3>1, <5>0, SameSlot
        <5> QED BY <3>1, <5>0, <5>1
      <4>2. itable[t].inum \in Inum
        <5>1. TableOK(itable, dinode) /\ itable[t].ref \in Nat /\ itable[t].inum \in Inum \cup {None}
          BY TableFacts, EntryTypes
        <5>2. itable[t].ref > 0  BY <3>1, <5>1
        <5> QED BY <5>1, <5>2 DEF TableOK
      <4> QED BY <2>4, <4>1, <4>2
    <3> QED BY <2>3, <2>7, <3>1 DEF Frame
  <2>9. Users' /\ Orphans' /\ \A q \in Procs : Mine(q)'  BY <2>7, <2>8, FrameEnds DEF NamesInv
  <2>10. ASSUME NEW y \in Inum PROVE CountRight(y)'
    <3>1. CountRight(y)  BY DEF NamesInv, CountsRight
    <3>2. CASE y # i
      <4>1. Links(dinode', dirent', y) \subseteq Links(dinode, dirent, y)
            /\ (OneName(dinode, dirent, y) => OneName(dinode', dirent', y))
        BY <2>6, <3>2
      <4>2. dinode'[y].nlink = dinode[y].nlink /\ (dinode'[y].type = "none" => dinode[y].nlink = 0)
        BY <2>3, <3>1 DEF CountRight
      <4>3. y \in Claims(p)' => y \in Claims(p)  BY <2>7
      <4> QED BY <3>1, <4>1, <4>2, <4>3, CountKept
    <3>3. CASE y = i
      <4> DEFINE S == Due(y)
                 T == Due(y)'
      <4>1. IsFiniteSet(S)  BY DueIsFinite
      <4>2. w \in S  BY <1>3, <3>3, DueIn
      <4>3. ASSUME NEW v \in T PROVE v \in (S \ {w}) \cup {x}
        <5>1. CASE v \in Links(dinode', dirent', y)
          <6>1. v \in Links(dinode, dirent, y) \/ v = x  BY <2>6, <5>1
          <6>2. v \in Links(dinode, dirent, y) => v \in S /\ v # w  BY DueIn, KeptApart
          <6> QED BY <6>1, <6>2
        <5>2. CASE v \notin Links(dinode', dirent', y)
          <6>1. v \in S /\ \E q \in Procs : q # p /\ v = <<"kept", q>>  BY <2>7, <5>2, DueAfter
          <6>2. v # w  BY <6>1
          <6> QED BY <6>1, <6>2
        <5> QED BY <5>1, <5>2
      <4> HIDE DEF S, T, w, x
      <4>4. T \subseteq (S \ {w}) \cup {x}  BY <4>3
      <4>5. Cardinality(T) <= Cardinality(S) /\ Cardinality(T) \in Nat /\ Cardinality(S) \in Nat
        BY <4>1, <4>2, <4>4, CountSwap
      <4>6. Cardinality(T) <= Cardinality(S) + 0 /\ 0 \in Int  BY <4>5
      <4>7. dinode'[y].nlink = dinode[y].nlink + 0 /\ dinode'[y].type # "none"
        <5>1. dinode[y].nlink \in Int  BY LinksCount
        <5> QED BY <1>3, <2>3, <3>3, <5>1
      <4>8. OneName(dinode', dirent', y)
        <5>1. dinode'[y].type # "dir"  BY <1>3, <2>3, <3>3
        <5> QED BY <5>1 DEF OneName
      <4> QED BY <3>1, <4>5, <4>6, <4>7, <4>8, CountChanged DEF S, T
    <3> QED BY <3>2, <3>3
  <2> QED BY <2>9, <2>10 DEF NamesInv, CountsRight
<1> QED BY <1>6, <1>7

-----------------------------------------------------------------------------
(* create(): an inode is made, with its entries, and gets its name.          *)

\* A directory of no entries but its own "." and "..".
OwnOnly(q, i) ==
  \A m \in DOMAIN q : q[m].inum # None => q[m].name = ".." \/ (q[m].name = "." /\ q[m].inum = i)

LEMMA OwnEnters ==
  ASSUME NEW q, NEW k, NEW e, NEW r, Enters(q, k, e, r), NEW i, OwnOnly(q, i),
         e.name = ".." \/ (e.name = "." /\ e.inum = i)
  PROVE  OwnOnly(r, i)
<1>1. /\ r[k] = e /\ DOMAIN r \subseteq DOMAIN q \cup {k}
      /\ \A m \in DOMAIN q : m # k => r[m] = q[m]
  BY DEF Enters
<1>2. ASSUME NEW m \in DOMAIN r, r[m].inum # None
      PROVE  r[m].name = ".." \/ (r[m].name = "." /\ r[m].inum = i)
  <2>1. CASE m = k  BY <1>1, <2>1
  <2>2. CASE m # k
    <3>1. m \in DOMAIN q /\ r[m] = q[m]  BY <1>1, <2>2
    <3> QED BY <1>2, <3>1 DEF OwnOnly
  <2> QED BY <2>1, <2>2
<1> QED BY <1>2 DEF OwnOnly

LEMMA OwnEntries ==
  ASSUME TableInv, NEW p \in Procs, NEW e \in TableEntry, e.inum \in Inum, itable[dp[p]].inum \in Inum,
         BlocksOf(e.ino, Space.ind) \subseteq Space.used
  PROVE  LET o == Own(p, e)
         IN  OwnOnly(o.d, e.inum)
             /\ (o.ok /\ call[p].k = "mkdir" => dirlookup(o.d, "..") = itable[dp[p]].inum)
<1> DEFINE z == Dir(<<>>, e.ino, Space)
           i == e.inum
           here == "."
           up == ".."
           a == dirlink(z, here, i)
           n == itable[dp[p]].inum
           b == dirlink(a, up, n)
           o == Own(p, e)
<1>1. e.ino \in Dinode /\ Space \in Spaces  BY TableFacts DEF DiskTypes, TableEntry
<1>2. z \in Dirs /\ Own1(z) /\ z.d = <<>>
  <2>1. <<>> \in Seq(DirEntry)  BY EmptySeq
  <2> QED BY <1>1, <2>1 DEF Dir, Dirs, Own1
<1>3. here \in Name /\ up \in Name /\ i \in Inum /\ n \in Inum /\ n # None /\ here = "." /\ up = ".."
  BY Constants DEF Name
<1>4. o = (IF call[p].k # "mkdir" THEN z ELSE b)  BY DEF Own
<1>5. OwnOnly(z.d, i)  BY <1>2 DEF OwnOnly
<1> HIDE DEF z, n, i, o, here, up
<1>6. a \in Dirs  BY <1>2, <1>3, DirlinkOK
<1>7. \/ ~a.ok /\ a.d = z.d
      \/ a.ok /\ z.ok /\ dirlookup(z.d, here) = None /\ \E k : Enters(z.d, k, Entry(here, i), a.d)
  BY <1>2, <1>3, DirlinkEnters
<1> HIDE DEF a
<1>8. OwnOnly(a.d, i)
  <2>1. ASSUME NEW k, Enters(z.d, k, Entry(here, i), a.d) PROVE OwnOnly(a.d, i)
    <3> DEFINE x == Entry(here, i)
    <3>1. x.name = "." /\ x.inum = i  BY <1>3 DEF Entry
    <3>2. Enters(z.d, k, x, a.d)  BY <2>1
    <3> HIDE DEF x
    <3> QED BY <1>5, <3>1, <3>2, OwnEnters
  <2> QED BY <1>5, <1>7, <2>1
<1>9. \/ ~b.ok /\ b.d = a.d
      \/ b.ok /\ a.ok /\ dirlookup(a.d, up) = None /\ \E k : Enters(a.d, k, Entry(up, n), b.d)
  BY <1>3, <1>6, DirlinkEnters
<1> HIDE DEF b
<1>10. OwnOnly(b.d, i) /\ (b.ok => dirlookup(b.d, up) = n)
  <2>1. ASSUME NEW k, Enters(a.d, k, Entry(up, n), b.d), dirlookup(a.d, up) = None
        PROVE  OwnOnly(b.d, i) /\ dirlookup(b.d, up) = n
    <3> DEFINE x == Entry(up, n)
    <3>1. x.name = up /\ x.inum = n  BY DEF Entry
    <3>2. Enters(a.d, k, x, b.d)  BY <2>1
    <3> HIDE DEF x
    <3>3. OwnOnly(b.d, i)  BY <1>3, <1>8, <3>1, <3>2, OwnEnters
    <3>4. dirlookup(b.d, x.name) = x.inum  BY <1>3, <2>1, <3>1, <3>2, EntersLooks
    <3> QED BY <3>1, <3>3, <3>4
  <2> QED BY <1>8, <1>9, <2>1
<1>11. OwnOnly(o.d, i) /\ (o.ok /\ call[p].k = "mkdir" => dirlookup(o.d, up) = n)
  BY <1>4, <1>5, <1>10
<1> QED BY <1>11 DEF o, i, up, n

\* What the directory gets.
LEMMA InEnters ==
  ASSUME TableInv, NEW p \in Procs, NEW own \in Dirs,
         itable[ip[p]].inum \in Inum, itable[dp[p]].inum \in Inum, itable[dp[p]].ino \in Dinode
  PROVE  LET r == In(p, own)
             q == dirent[itable[dp[p]].inum]
         IN  \/ ~r.ok /\ r.d = q
             \/ r.ok /\ own.ok /\ \E k : Enters(q, k, Entry(name[p], itable[ip[p]].inum), r.d)
<1> DEFINE n == itable[dp[p]].inum
           y == itable[dp[p]].ino
           i == itable[ip[p]].inum
           q == dirent[n]
           z == [Dir(q, y, own.sp) EXCEPT !.ok = own.ok]
           r == In(p, own)
<1>1. i \in Inum /\ n \in Inum /\ y \in Dinode /\ name[p] \in Name  BY LocalFacts DEF Name
<1>2. q \in Seq(DirEntry)  BY <1>1, TableFacts DEF DiskTypes
<1>3. own.ok \in BOOLEAN /\ own.sp \in Spaces  BY DEF Dirs
<1>4. r = dirlink(z, name[p], i)  BY DEF In
<1> HIDE DEF r, i, n, y, q
<1>5. z \in Dirs /\ z.d = q /\ z.ok = own.ok  BY <1>1, <1>2, <1>3 DEF Dir, Dirs
<1> HIDE DEF z
<1>6. \/ ~r.ok /\ r.d = z.d
      \/ r.ok /\ z.ok /\ dirlookup(z.d, name[p]) = None /\ \E k : Enters(z.d, k, Entry(name[p], i), r.d)
  BY <1>1, <1>4, <1>5, DirlinkEnters
<1>7. \/ ~r.ok /\ r.d = q
      \/ r.ok /\ own.ok /\ \E k : Enters(q, k, Entry(name[p], i), r.d)
  BY <1>5, <1>6
<1> QED BY <1>7 DEF r, i, n, q

\* What create() makes of the names, and of the links that are counted.
MadeLinks(p, m, n, i) ==
  LET one == IF m.ok /\ call[p].k = "mkdir" THEN 1 ELSE 0
  IN  /\ m.it[ip[p]].inum = i /\ m.it[dp[p]].inum = n
      /\ m.it[ip[p]].ino.type = dinode[i].type /\ m.it[ip[p]].ino.nlink = (IF m.ok THEN 1 ELSE 0)
      /\ m.it[dp[p]].ino.type = dinode[n].type /\ m.it[dp[p]].ino.nlink = dinode[n].nlink + one
      /\ \A d \in Inum : d # n /\ d # i => m.dirent[d] = dirent[d]
      /\ OwnOnly(m.dirent[i], i)
      /\ m.ok /\ call[p].k = "mkdir" => dirlookup(m.dirent[i], "..") = n
      /\ \/ ~m.ok /\ m.dirent[n] = dirent[n]
         \/ m.ok /\ \E k : Enters(dirent[n], k, Entry(name[p], i), m.dirent[n])

LEMMA MadeFinds ==
  ASSUME TableInv, NEW p \in Procs, pc[p] = "create2", CanLock(ip[p])
  PROVE  MadeLinks(p, Made(p), itable[dp[p]].inum, itable[ip[p]].inum)
<1> DEFINE s == ip[p]
           d == dp[p]
           i == itable[s].inum
           n == itable[d].inum
           x == Loaded(s)
           y == itable[d]
           x1 == [x EXCEPT !.ino.nlink = 1]
           ino1 == [dinode[i] EXCEPT !.nlink = 1]
           own == Own(p, x1)
           in == In(p, own)
           k == IF in.ok /\ call[p].k = "mkdir" THEN 1 ELSE 0
           a == IF in.ok THEN own.ino ELSE [own.ino EXCEPT !.nlink = 0]
           b == [in.ino EXCEPT !.nlink = in.ino.nlink + k]
           U(z) == relink([z EXCEPT !.ino = in.ino], k)
           e == [x EXCEPT !.ino = a]
           f == U(y)
           it == [itable EXCEPT ![s] = e, ![d] = U(@)]
           G == [dirent EXCEPT ![i] = own.d, ![n] = in.d]
<1>1. /\ s \in Slot /\ d \in Slot /\ s # d /\ i \in Inum /\ n \in Inum /\ i # n
      /\ x \in TableEntry /\ x.inum = i /\ x.ino = dinode[i]
      /\ y \in TableEntry /\ y.ino = dinode[n]
      /\ dinode[i] \in Dinode /\ dinode[i].type # "none"
      /\ dinode[n] \in Dinode /\ dinode[n].type # "none"
  BY NewFacts
<1>2. /\ dinode \in [Inum -> Dinode] /\ Space \in Spaces /\ OneOwner(dinode, Space)
      /\ BlocksOf(dinode[i], Space.ind) \subseteq Space.used
  <2> HIDE DEF i
  <2> QED BY <1>1, OwnUsed
<1>3. itable \in [Slot -> TableEntry] /\ dirent \in [Inum -> Seq(DirEntry)]  BY TableFacts DEF DiskTypes
<1>4. Made(p) = [ok |-> in.ok, sp |-> in.sp, it |-> it, dirent |-> G]  BY DEF Made, Both, Result
<1>5. ino1 \in Dinode /\ ino1.type = dinode[i].type /\ ino1.nlink = 1 /\ ino1.addrs = dinode[i].addrs
  BY <1>1 DEF Dinode
<1>6. x1 \in TableEntry /\ x1.ino = ino1 /\ x1.inum = i
  <2>1. x1 = [x EXCEPT !.ino = ino1]  BY <1>1
  <2> HIDE DEF x1, ino1
  <2> QED BY <1>1, <1>5, <2>1 DEF TableEntry
<1>7. /\ own \in Dirs /\ Kind(ino1, own.ino) /\ Grows(ino1, Space, own.ino, own.sp)
      /\ OwnOnly(own.d, i) /\ (own.ok /\ call[p].k = "mkdir" => dirlookup(own.d, "..") = n)
  <2>1. BlocksOf(ino1, Space.ind) = BlocksOf(dinode[i], Space.ind)
    <3> HIDE DEF ino1, i
    <3>1. \A ind : BlocksOf(ino1, ind) = BlocksOf(dinode[i], ind)  BY <1>5, SameBlocks
    <3> QED BY <3>1
  <2>2. BlocksOf(x1.ino, Space.ind) \subseteq Space.used /\ x1.inum \in Inum /\ itable[dp[p]].inum \in Inum
    BY <1>1, <1>2, <1>6, <2>1
  <2> HIDE DEF x1
  <2>3. own \in Dirs /\ Kind(x1.ino, own.ino) /\ Grows(x1.ino, Space, own.ino, own.sp)
    BY <1>6, <2>2, OwnOK
  <2>4. OwnOnly(own.d, x1.inum) /\ (own.ok /\ call[p].k = "mkdir" => dirlookup(own.d, "..") = itable[dp[p]].inum)
    BY <1>6, <2>2, OwnEntries
  <2> QED BY <1>6, <2>3, <2>4
<1> HIDE DEF own, x1
<1>8. /\ own.ino \in Dinode /\ own.ino.type = dinode[i].type /\ own.ino.nlink = 1
      /\ own.d \in Seq(DirEntry) /\ own.ok \in BOOLEAN /\ own.sp \in Spaces
  BY <1>5, <1>7 DEF Kind, Dirs
<1>9. in \in Dirs /\ Kind(dinode[n], in.ino)
  <2> DEFINE D1 == [dinode EXCEPT ![i] = own.ino]
  <2>1. D1 \in [Inum -> Dinode] /\ OneOwner(D1, own.sp) /\ D1[n] = dinode[n]
    <3> DEFINE c == own.ino
               sp2 == own.sp
    <3>1. c \in Dinode /\ c.type # "none" /\ sp2 \in Spaces  BY <1>1, <1>8
    <3>2. Grows(dinode[i], Space, c, sp2)
      <4>1. \A ind : BlocksOf(ino1, ind) = BlocksOf(dinode[i], ind)  BY <1>5, SameBlocks
      <4> QED BY <1>7, <4>1 DEF Grows
    <3> HIDE DEF c, sp2, i
    <3>3. OneOwner([dinode EXCEPT ![i] = c], sp2)  BY <1>1, <1>2, <3>1, <3>2, GrowsOwner
    <3>4. [dinode EXCEPT ![i] = c] \in [Inum -> Dinode] /\ [dinode EXCEPT ![i] = c][n] = dinode[n]
      BY <1>1, <1>2, <3>1
    <3> QED BY <3>3, <3>4 DEF c, sp2
  <2> HIDE DEF D1
  <2>2. /\ itable[ip[p]].inum \in Inum /\ itable[dp[p]].inum \in Inum
        /\ itable[dp[p]].ino \in Dinode /\ itable[dp[p]].ino.type # "none"
        /\ D1[itable[dp[p]].inum] = itable[dp[p]].ino
    BY <1>1, <2>1
  <2> HIDE DEF in
  <2>3. In(p, own) \in Dirs /\ Kind(itable[dp[p]].ino, In(p, own).ino)  BY <1>7, <2>1, <2>2, InOK
  <2> QED BY <1>1, <2>3 DEF in
<1>10. \/ ~in.ok /\ in.d = dirent[n]
       \/ in.ok /\ own.ok /\ \E h : Enters(dirent[n], h, Entry(name[p], i), in.d)
  <2>1. itable[ip[p]].inum \in Inum /\ itable[dp[p]].inum \in Inum /\ itable[dp[p]].ino \in Dinode
    BY <1>1
  <2> QED BY <1>7, <2>1, InEnters
<1> HIDE DEF in
<1>11. /\ in.ino \in Dinode /\ in.ino.type = dinode[n].type /\ in.ino.nlink = dinode[n].nlink
       /\ in.ino.nlink \in Int /\ k \in Int /\ in.d \in Seq(DirEntry)
  BY <1>1, <1>9 DEF Kind, Dirs, Dinode
<1>12. a \in Dinode /\ a.type = dinode[i].type /\ a.nlink = (IF in.ok THEN 1 ELSE 0)  BY <1>8 DEF Dinode
<1>13. e.inum = i /\ e.ino = a  BY <1>1 DEF TableEntry
<1>14. f.inum = n /\ f.ino.type = dinode[n].type /\ f.ino.nlink = dinode[n].nlink + k
  <2> DEFINE z == [y EXCEPT !.ino = in.ino]
  <2>1. z \in TableEntry /\ z.inum = n /\ z.ino = in.ino  BY <1>1, <1>11 DEF TableEntry
  <2>2. f = relink(z, k)  OBVIOUS
  <2> HIDE DEF z, f, k
  <2>3. relink(z, k).inum = z.inum /\ relink(z, k).ino = [z.ino EXCEPT !.nlink = z.ino.nlink + k]
    BY <1>11, <2>1, RelinkOK
  <2>4. f.inum = n /\ f.ino = [in.ino EXCEPT !.nlink = in.ino.nlink + k]  BY <2>1, <2>2, <2>3
  <2> QED BY <1>11, <2>4 DEF Dinode
<1>15. it = [[itable EXCEPT ![s] = e] EXCEPT ![d] = f]
  <2> HIDE DEF s, d, e, U
  <2> QED BY <1>1, <1>3
<1>16. k = IF in.ok /\ call[p].k = "mkdir" THEN 1 ELSE 0  OBVIOUS
<1> HIDE DEF e, f, a, k
<1>17. it[s] = e /\ it[d] = f
  <2> HIDE DEF it
  <2> QED BY <1>1, <1>3, <1>15
<1>18. G[i] = own.d /\ G[n] = in.d /\ \A h \in Inum : h # n /\ h # i => G[h] = dirent[h]  BY <1>1, <1>3
<1> HIDE DEF it, G
<1> DEFINE m == Made(p)
<1>19. m.ok = in.ok /\ m.it = it /\ m.dirent = G  BY <1>4
<1> HIDE DEF m
<1>20. m.ok /\ call[p].k = "mkdir" => dirlookup(m.dirent[i], "..") = n  BY <1>7, <1>10, <1>18, <1>19
<1>21. \/ ~m.ok /\ m.dirent[n] = dirent[n]
       \/ m.ok /\ \E h : Enters(dirent[n], h, Entry(name[p], i), m.dirent[n])
  BY <1>10, <1>18, <1>19
<1>22. OwnOnly(m.dirent[i], i)  BY <1>7, <1>18, <1>19
<1>23. m.it[ip[p]] = e /\ m.it[dp[p]] = f  BY <1>17, <1>19
<1> HIDE DEF i, n
<1>24. MadeLinks(p, m, n, i)
  BY <1>12, <1>13, <1>14, <1>16, <1>18, <1>19, <1>20, <1>21, <1>22, <1>23 DEF MadeLinks
<1> QED BY <1>24 DEF m, n, i

\* An inode that had no name has none: its own entries are no links.
LEMMA LinksOwn ==
  ASSUME NEW D, NEW D2, NEW E, NEW E2, NEW i \in Inum, OwnOnly(E2[i], i), NamesOf(E, i) = {},
         \A d \in Inum : D2[d].type = D[d].type,
         \A d \in Inum : d # i => E2[d] = E[d],
         NEW y \in Inum
  PROVE  /\ Links(D2, E2, y) \subseteq Links(D, E, y)
         /\ OneName(D, E, y) => OneName(D2, E2, y)
<1>0. None \notin Inum  BY Constants
<1>1. ASSUME NEW j \in Inum, NEW x \in NamesOf(E2, j) PROVE x \in NamesOf(E, j)
  <2>1. PICK d \in Inum : \E m \in DOMAIN E2[d] :
          /\ x = <<d, m>> /\ E2[d][m].inum = j /\ E2[d][m].name # ".."
          /\ ~(E2[d][m].name = "." /\ d = j)
    BY NameIn
  <2>2. PICK m \in DOMAIN E2[d] :
          /\ x = <<d, m>> /\ E2[d][m].inum = j /\ E2[d][m].name # ".."
          /\ ~(E2[d][m].name = "." /\ d = j)
    BY <2>1
  <2>3. d # i  BY <1>0, <2>2 DEF OwnOnly
  <2>4. E2[d] = E[d]  BY <2>3
  <2> QED BY <2>2, <2>4, NameIn
<1>2. NamesOf(E2, i) = {}  BY <1>1
<1>3. ASSUME NEW d \in Below(D2, E2, y) PROVE d \in Below(D, E, y)
  <2>1. d \in Inum \ {ROOTINO} /\ D2[d].type = "dir" /\ dirlookup(E2[d], "..") = y /\ NamesOf(E2, d) # {}
    BY DEF Below
  <2>2. d # i /\ NamesOf(E, d) # {}  BY <1>1, <1>2, <2>1
  <2>3. D[d].type = "dir" /\ dirlookup(E[d], "..") = y
    <3>1. E2[d] = E[d]  BY <2>1, <2>2
    <3>2. dirlookup(E[d], "..") = dirlookup(E2[d], "..")  BY <3>1
    <3> QED BY <2>1, <3>2
  <2> QED BY <2>1, <2>2, <2>3 DEF Below
<1>4. ASSUME NEW x \in Links(D2, E2, y) PROVE x \in Links(D, E, y)  BY <1>1, <1>3, LinksIn
<1>5. ASSUME OneName(D, E, y) PROVE OneName(D2, E2, y)
  <2> SUFFICES ASSUME D2[y].type = "dir", NamesOf(E2, y) # {}
               PROVE  /\ \A u, v \in NamesOf(E2, y) : u = v /\ u[1] = dirlookup(E2[y], "..")
                      /\ y = ROOTINO => NamesOf(E2, y) = {}
    BY DEF OneName
  <2>1. E2[y] = E[y] /\ D[y].type = "dir"  BY <1>2
  <2>2. /\ \A u, v \in NamesOf(E, y) : u = v /\ u[1] = dirlookup(E[y], "..")
        /\ y = ROOTINO => NamesOf(E, y) = {}
    BY <1>5, <2>1 DEF OneName
  <2>3. dirlookup(E2[y], "..") = dirlookup(E[y], "..")  BY <2>1
  <2>4. NamesOf(E2, y) \subseteq NamesOf(E, y)  BY <1>1
  <2> QED BY <2>2, <2>3, <2>4
<1> QED BY <1>4, <1>5

\* How the disk is after create() has tried to make inode i in directory n.
NewAt(p, n, i, ok) ==
  /\ n \in Inum /\ i \in Inum /\ i # n /\ dinode[i].type # "none" /\ dinode[n].type # "none"
  /\ \A y \in Inum : dinode'[y].type = dinode[y].type /\ (y # i /\ y # n => dinode'[y].nlink = dinode[y].nlink)
  /\ dinode'[i].nlink = (IF ok THEN 1 ELSE 0)
  /\ dinode'[n].nlink = dinode[n].nlink + (IF ok /\ call[p].k = "mkdir" THEN 1 ELSE 0)
  /\ \A d \in Inum : d # n /\ d # i => dirent'[d] = dirent[d]
  /\ OwnOnly(dirent'[i], i)
  /\ ok /\ call[p].k = "mkdir" => dirlookup(dirent'[i], "..") = n
  /\ \/ ~ok /\ dirent'[n] = dirent[n]
     \/ ok /\ \E k : Enters(dirent[n], k, Entry(name[p], i), dirent'[n])
  /\ UNCHANGED <<cwd, fd>>

LEMMA CreateFinds ==
  ASSUME TableInv, NEW p \in Procs, CreateMade(p) \/ CreateFails(p)
  PROVE  NewAt(p, itable[dp[p]].inum, itable[ip[p]].inum, CreateMade(p))
<1> DEFINE s == ip[p]
           d == dp[p]
           n == itable[d].inum
           i == itable[s].inum
           m == Made(p)
           ok == CreateMade(p)
           it == IF CreateMade(p) THEN m.it ELSE itable'
<1>1. pc[p] = "create2" /\ CanLock(s) /\ UNCHANGED <<cwd, fd>>  BY DEF CreateMade, CreateFails
<1>2. MadeFacts(p, m) /\ MadeLinks(p, m, n, i)  BY <1>1, MadeOK, MadeFinds
<1>3. s \in Slot /\ d \in Slot /\ s # d /\ i \in Inum /\ n \in Inum /\ i # n
      /\ dinode[i].type # "none" /\ dinode[n].type # "none"
  BY <1>1, NewFacts
<1>4. m.it \in [Slot -> TableEntry]  BY <1>2 DEF MadeFacts
<1>5. dirent' = m.dirent /\ iupdate(it, {s, d}) /\ (ok <=> m.ok)
      /\ it[s].ino = m.it[s].ino /\ it[d].ino = m.it[d].ino /\ it[s].inum = m.it[s].inum /\ it[d].inum = m.it[d].inum
  <2>1. CASE CreateMade(p)
    <3>1. m.ok /\ dirent' = m.dirent /\ iupdate(m.it, {s, d})  BY <2>1 DEF CreateMade
    <3> QED BY <2>1, <3>1
  <2>2. CASE ~CreateMade(p)
    <3>1. /\ ~m.ok /\ dirent' = m.dirent /\ iupdate(itable', {s, d})
          /\ itable' = [m.it EXCEPT ![d] = iunlock(@)]
      BY <2>2 DEF CreateFails
    <3> DEFINE a == m.it
               j == itable'
    <3>2. a \in [Slot -> TableEntry] /\ j = [a EXCEPT ![d] = iunlock(@)]  BY <1>4, <3>1
    <3>3. it = j /\ ~ok  BY <2>2
    <3> HIDE DEF m, j, s, d, a, it, ok
    <3>4. j[s] = a[s] /\ j[d] = iunlock(a[d]) /\ a[d] \in TableEntry  BY <1>3, <3>2
    <3>5. j[d].ino = a[d].ino /\ j[d].inum = a[d].inum
      <4> DEFINE x == a[d]
      <4>1. x \in TableEntry /\ j[d] = iunlock(x)  BY <3>4
      <4> HIDE DEF x
      <4>2. j[d].ino = x.ino /\ j[d].inum = x.inum  BY <4>1 DEF iunlock, TableEntry
      <4> QED BY <4>2 DEF x
    <3> QED BY <3>1, <3>3, <3>4, <3>5 DEF a, j
  <2> QED BY <2>1, <2>2
<1> HIDE DEF m, it, ok
<1>6. it[s].inum = i /\ it[d].inum = n  BY <1>2, <1>5 DEF MadeLinks
<1>7. dinode' = [dinode EXCEPT ![i] = m.it[s].ino, ![n] = m.it[d].ino]
  <2>1. dinode \in [Inum -> Dinode]  BY TableFacts DEF DiskTypes
  <2> HIDE DEF i, n, s, d
  <2>2. it[s].inum \in Inum /\ it[d].inum \in Inum /\ it[s].inum # it[d].inum  BY <1>3, <1>6
  <2>3. iupdate(it, {s, d})  BY <1>5
  <2>4. dinode' = [dinode EXCEPT ![it[s].inum] = it[s].ino, ![it[d].inum] = it[d].ino]
    BY ONLY <2>1, <2>2, <2>3, IupdateTwo
  <2> QED BY <1>5, <1>6, <2>4
<1>8. dinode'[i] = m.it[s].ino /\ dinode'[n] = m.it[d].ino /\ \A y \in Inum : y # i /\ y # n => dinode'[y] = dinode[y]
  <2>1. dinode \in [Inum -> Dinode]  BY TableFacts DEF DiskTypes
  <2> HIDE DEF i, n
  <2> QED BY <1>3, <1>7, <2>1
<1>9. /\ m.it[s].ino.type = dinode[i].type /\ m.it[s].ino.nlink = (IF m.ok THEN 1 ELSE 0)
      /\ m.it[d].ino.type = dinode[n].type
      /\ m.it[d].ino.nlink = dinode[n].nlink + (IF m.ok /\ call[p].k = "mkdir" THEN 1 ELSE 0)
      /\ \A h \in Inum : h # n /\ h # i => m.dirent[h] = dirent[h]
      /\ OwnOnly(m.dirent[i], i)
      /\ m.ok /\ call[p].k = "mkdir" => dirlookup(m.dirent[i], "..") = n
      /\ \/ ~m.ok /\ m.dirent[n] = dirent[n]
         \/ m.ok /\ \E k : Enters(dirent[n], k, Entry(name[p], i), m.dirent[n])
  BY <1>2 DEF MadeLinks
<1> HIDE DEF i, n, s, d
<1>10. NewAt(p, n, i, ok)  BY <1>1, <1>3, <1>5, <1>8, <1>9 DEF NewAt
<1> QED BY <1>10 DEF n, i, s, d, ok

\* Both are put, or the new one is left to open(); it is not looked at by anyone else.
LEMMA CreateEnds ==
  ASSUME TableInv, NEW p \in Procs, PathRight(p), CreateMade(p) \/ CreateFails(p)
  PROVE  Ends(p) /\ Claims(p)' = {} /\ \A s \in Named(p)' : s \in Named(p)
<1>1. pc[p] = "create2" /\ CanLock(ip[p]) /\ UNCHANGED <<cwd, fd>>  BY DEF CreateMade, CreateFails
<1>2. \/ \E ss \in {<<dp[p], ip[p]>>, <<ip[p], dp[p]>>} : Done(p, ss)
      \/ /\ dp' = [dp EXCEPT ![p] = None] /\ Put(p, <<dp[p]>>, "opened")
         /\ UNCHANGED <<call, path, ip, name, old>>
  BY DEF CreateMade, CreateFails
<1>3. CASE \E ss \in {<<dp[p], ip[p]>>, <<ip[p], dp[p]>>} : Done(p, ss)
  <2>1. PICK ss : Done(p, ss)  BY <1>3
  <2>2. cwd'[p] \in Named(p) /\ (fd'[p] = None \/ fd'[p].ip \in Named(p))  BY <1>1, SamePlaces
  <2> QED BY <2>1, <2>2, DoneEnds
<1>4. CASE /\ dp' = [dp EXCEPT ![p] = None] /\ Put(p, <<dp[p]>>, "opened")
           /\ UNCHANGED <<call, path, ip, name, old>>
  <2>1. LocalTypes /\ old[p] = None  BY <1>1, LocalFacts, NewFacts
  <2>2. pc'[p] = "put" /\ after'[p] = "opened" /\ dp'[p] = None /\ path'[p] = path[p] /\ old'[p] = None
        /\ ip'[p] = ip[p] /\ cwd'[p] = cwd[p] /\ fd'[p] = fd[p]
    BY <1>1, <1>4, <2>1 DEF Put, LocalTypes
  <2>3. Claims(p)' = {}  BY <2>2 DEF Claims, At, Putting
  <2>4. \A s \in Named(p)' : s \in Named(p)  BY <2>2 DEF Named
  <2>5. PathRight(p)'  BY <2>2 DEF PathRight
  <2> QED BY <2>2, <2>3, <2>4, <2>5 DEF Ends
<1> QED BY <1>2, <1>3, <1>4

LEMMA CreateFrame ==
  ASSUME TableInv, NEW p \in Procs, Others(p), SameInums, pc[p] = "create2", CanLock(ip[p]),
         NEW ok, NewAt(p, itable[dp[p]].inum, itable[ip[p]].inum, ok), \A s \in Named(p)' : s \in Named(p)
  PROVE  Frame(p)
<1> DEFINE s == ip[p]
           d == dp[p]
           i == itable[s].inum
           n == itable[d].inum
<1>1. /\ s \in Slot /\ d \in Slot /\ itable[s].ref >= 1 /\ itable[s].lock = None
      /\ itable[d].ref >= 1 /\ itable[d].lock = p
  BY NewFacts
<1>2. s \in Named(p) /\ d \in Named(p)  BY <1>1, Constants DEF Named
<1>3. /\ \A y \in Inum : dinode'[y].type = dinode[y].type /\ (y # i /\ y # n => dinode'[y].nlink = dinode[y].nlink)
      /\ \A y \in Inum : y # n /\ y # i => dirent'[y] = dirent[y]
  BY DEF NewAt
<1>4. \A y \in Inum : dinode'[y].nlink = dinode[y].nlink \/ \E t \in Named(p) : itable[t].inum = y
  BY <1>2, <1>3
<1> HIDE DEF s, d
<1>5. ASSUME NEW t \in Slot, itable[t].ref >= 1, itable[t].lock \notin {p, None}
      PROVE  dirent'[itable[t].inum] = dirent[itable[t].inum]
  <2>1. itable[t].inum # i
    <3> SUFFICES ASSUME itable[t].inum = itable[s].inum PROVE FALSE  OBVIOUS
    <3>1. t = s  BY <1>1, <1>5, SameSlot
    <3> QED BY <1>1, <1>5, <3>1
  <2>2. itable[t].inum # n
    <3> SUFFICES ASSUME itable[t].inum = itable[d].inum PROVE FALSE  OBVIOUS
    <3>1. t = d  BY <1>1, <1>5, SameSlot
    <3> QED BY <1>1, <1>5, <3>1
  <2>3. itable[t].inum \in Inum
    <3>1. TableOK(itable, dinode) /\ itable[t].ref \in Nat /\ itable[t].inum \in Inum \cup {None}
      BY TableFacts, EntryTypes
    <3>2. itable[t].ref > 0  BY <1>5, <3>1
    <3> QED BY <1>5, <3>1, <3>2 DEF TableOK
  <2> QED BY <1>3, <2>1, <2>2, <2>3
<1> QED BY <1>3, <1>4, <1>5 DEF Frame

\* What is due after: but for the name, and the new directory's "..", no more than before.
NewMore(p, n, i, k) ==
  /\ More(dinode, dirent, dinode', dirent', n, k, i)
  /\ \A y \in Inum : \A z \in Links(dinode', dirent', y) :
       \/ z \in Links(dinode, dirent, y)
       \/ y = i /\ z = <<"name", <<n, k>>>>
       \/ y = n /\ call[p].k = "mkdir" /\ z = <<"below", i>>
  /\ \A y \in Inum : y # i /\ OneName(dinode, dirent, y) => OneName(dinode', dirent', y)

LEMMA NewLinks ==
  ASSUME NEW p, NEW n, NEW i, NewAt(p, n, i, TRUE), NewRight(p), pc[p] = "create2", itable[ip[p]].inum = i,
         name[p] # ".."
  PROVE  \E k : NewMore(p, n, i, k)
<1> DEFINE D == dinode'
           E == dirent'
           e == Entry(name[p], i)
<1>1. /\ n \in Inum /\ i \in Inum /\ i # n
      /\ \A y \in Inum : D[y].type = dinode[y].type
      /\ \A d \in Inum : d # n /\ d # i => E[d] = dirent[d]
      /\ OwnOnly(E[i], i)
      /\ call[p].k = "mkdir" => dirlookup(E[i], "..") = n
      /\ \E k : Enters(dirent[n], k, e, E[n])
  BY DEF NewAt
<1>2. D[i].type = "dir" => call[p].k = "mkdir"  BY <1>1 DEF NewRight, Of
<1>3. PICK k : Enters(dirent[n], k, e, E[n])  BY <1>1
<1>4. e.inum = i /\ e.name = name[p]  BY DEF Entry
<1> HIDE DEF D, E, e
<1>5. More(dinode, dirent, D, E, n, k, i)
  <2>1. e.name # ".."  BY <1>4
  <2>2. \A d \in Inum : d # n => E[d] = dirent[d] \/
           (d = i /\ \A m \in DOMAIN E[d] : E[d][m].inum # None =>
                       E[d][m].name = ".." \/ (E[d][m].name = "." /\ E[d][m].inum = d))
    BY <1>1 DEF OwnOnly
  <2> QED BY <1>1, <1>3, <1>4, <2>1, <2>2, EntersMore
<1>6. ASSUME NEW y \in Inum
      PROVE  /\ \A z \in Links(D, E, y) :
                  \/ z \in Links(dinode, dirent, y)
                  \/ y = i /\ z = <<"name", <<n, k>>>>
                  \/ y = n /\ call[p].k = "mkdir" /\ z = <<"below", i>>
             /\ y # i /\ OneName(dinode, dirent, y) => OneName(D, E, y)
  <2>1. /\ \A z \in Links(D, E, y) :
              \/ z \in Links(dinode, dirent, y)
              \/ y = i /\ z = <<"name", <<n, k>>>>
              \/ z = <<"below", i>> /\ D[i].type = "dir" /\ y = dirlookup(E[i], "..")
        /\ y # i /\ OneName(dinode, dirent, y) => OneName(D, E, y)
    BY <1>5, LinksMore
  <2> QED BY <1>1, <1>2, <2>1
<1>7. NewMore(p, n, i, k)  BY <1>5, <1>6 DEF D, E, NewMore
<1> QED BY <1>7

LEMMA NewUnlinked ==
  ASSUME TableInv, NamesInv, NEW p \in Procs, pc[p] = "create2", NEW i \in Inum, i = itable[ip[p]].inum, ip[p] \in Slot
  PROVE  /\ dinode[i].nlink = 0 /\ Due(i) = {} /\ NamesOf(dirent, i) = {}
         /\ Links(dinode, dirent, i) = {} /\ i # ROOTINO
<1>1. Orphan(p, ip[p])  BY DEF Orphan
<1>2. Gone(i)  BY <1>1 DEF NamesInv, Orphans, OrphanRight
<1>3. dinode[i].nlink = 0 /\ CountRight(i)  BY <1>2 DEF Gone, NamesInv, CountsRight
<1>4. Due(i) = {}  BY <1>3, DueNotFree
<1>5. \A z : z \notin Links(dinode, dirent, i)  BY <1>4, DueIn
<1>6. \A x : x \notin NamesOf(dirent, i)  BY <1>5, LinksIn
<1>7. i # ROOTINO  BY <1>5, LinksIn
<1> QED BY <1>3, <1>4, <1>5, <1>6, <1>7

\* It has no link, and then one.
LEMMA NewCount ==
  ASSUME TableInv, NamesInv, NEW p \in Procs, Others(p), SameInums, pc[p] = "create2", Claims(p)' = {},
         NEW n, NEW i, NewAt(p, n, i, TRUE), i = itable[ip[p]].inum, ip[p] \in Slot,
         NEW k, NewMore(p, n, i, k)
  PROVE  CountRight(i)'
<1> DEFINE S == Due(i)
           T == Due(i)'
           x == <<"name", <<n, k>>>>
           D == dinode'
           E == dirent'
<1>1. /\ i \in Inum /\ i # n /\ dinode'[i].nlink = 1 /\ dinode'[i].type # "none"
      /\ dinode'[i].type = dinode[i].type
      /\ call[p].k = "mkdir" => dirlookup(dirent'[i], "..") = n
  BY DEF NewAt
<1>2. CountRight(i)  BY <1>1 DEF NamesInv, CountsRight
<1>3. /\ dinode[i].nlink = 0 /\ Due(i) = {} /\ NamesOf(dirent, i) = {}
      /\ Links(dinode, dirent, i) = {} /\ i # ROOTINO
  BY <1>1, NewUnlinked
<1>4. ASSUME NEW v \in T PROVE v \in S \cup {x}
  <2>1. CASE v \in Links(dinode', dirent', i)  BY <1>1, <1>3, <2>1 DEF NewMore
  <2>2. CASE v \notin Links(dinode', dirent', i)
    <3>1. v \in Due(i)  BY <2>2, DueAfter
    <3> QED BY <1>3, <3>1
  <2> QED BY <2>1, <2>2
<1>5. IsFiniteSet(S)  BY DueIsFinite
<1> HIDE DEF S, T, x
<1>6. T \subseteq S \cup {x}  BY <1>4
<1>7. Cardinality(T) <= Cardinality(S) + 1 /\ Cardinality(T) \in Nat /\ Cardinality(S) \in Nat
  BY <1>5, <1>6, CountIn
<1>8. dinode'[i].nlink = dinode[i].nlink + 1 /\ 1 \in Int  BY <1>1, <1>3
<1>9. OneName(dinode', dirent', i)
  <2> SUFFICES ASSUME dinode'[i].type = "dir"
               PROVE  /\ \A u, v \in NamesOf(dirent', i) : u = v /\ u[1] = dirlookup(dirent'[i], "..")
                      /\ i = ROOTINO => NamesOf(dirent', i) = {}
    BY DEF OneName
  <2>1. NewRight(p)  BY DEF NamesInv, Mine
  <2>2. dirlookup(dirent'[i], "..") = n  BY <1>1, <2>1 DEF NewRight, Of
  <2>3. ASSUME NEW u \in NamesOf(dirent', i) PROVE u = <<n, k>>
    <3>1. More(dinode, dirent, D, E, n, k, i) /\ u \in NamesOf(E, i)  BY <2>3 DEF NewMore
    <3> HIDE DEF D, E
    <3>2. u \in NamesOf(dirent, i) \/ (i = i /\ u = <<n, k>>)  BY <1>1, <3>1, NamesMore
    <3> QED BY <1>3, <3>2
  <2>4. \A u \in NamesOf(dirent', i) : u[1] = n  BY <2>3
  <2> QED BY <1>3, <2>2, <2>3, <2>4
<1> QED BY <1>1, <1>2, <1>7, <1>8, <1>9, CountChanged DEF S, T

\* The directory counts the "..", of a directory.
LEMMA ParentCount ==
  ASSUME TableInv, NamesInv, NEW p \in Procs, Others(p), SameInums, Claims(p)' = {}, call[p].k = "mkdir",
         NEW n, NEW i, NewAt(p, n, i, TRUE), NEW k, NewMore(p, n, i, k)
  PROVE  CountRight(n)'
<1> DEFINE S == Due(n)
           T == Due(n)'
           x == <<"below", i>>
<1>1. /\ n \in Inum /\ n # i /\ dinode'[n].nlink = dinode[n].nlink + 1 /\ 1 \in Int /\ dinode'[n].type # "none"
  BY DEF NewAt
<1>2. CountRight(n) /\ OneName(dinode', dirent', n)  BY <1>1 DEF NamesInv, CountsRight, CountRight, NewMore
<1>3. ASSUME NEW v \in T PROVE v \in S \cup {x}
  <2>1. CASE v \in Links(dinode', dirent', n)  BY <1>1, <2>1, DueIn DEF NewMore
  <2>2. CASE v \notin Links(dinode', dirent', n)
    <3>1. v \in Due(n)  BY <2>2, DueAfter
    <3> QED BY <3>1
  <2> QED BY <2>1, <2>2
<1>4. IsFiniteSet(S)  BY DueIsFinite
<1> HIDE DEF S, T, x
<1>5. T \subseteq S \cup {x}  BY <1>3
<1>6. Cardinality(T) <= Cardinality(S) + 1 /\ Cardinality(T) \in Nat /\ Cardinality(S) \in Nat
  BY <1>4, <1>5, CountIn
<1> QED BY <1>1, <1>2, <1>6, CountChanged DEF S, T

LEMMA CreateMadeNames ==
  ASSUME TableInv, NamesInv, NEW p \in Procs, Others(p), SameInums, CreateMade(p) \/ CreateFails(p)
  PROVE  NamesInv'
<1> DEFINE ok == CreateMade(p)
<1>1. pc[p] = "create2" /\ CanLock(ip[p])  BY DEF CreateMade, CreateFails
<1>2. PICK i, n : i = itable[ip[p]].inum /\ n = itable[dp[p]].inum /\ NewAt(p, n, i, CreateMade(p))  BY CreateFinds
<1>3. ip[p] \in Slot /\ dp[p] \in Slot /\ i \in Inum /\ n \in Inum /\ i # n  BY <1>1, <1>2, NewFacts
<1>4. PathRight(p) /\ NewRight(p) /\ name[p] # ".."
  <2>1. PathRight(p) /\ NewRight(p)  BY DEF NamesInv, Mine
  <2> QED BY <1>3, <2>1, Constants DEF PathRight
<1>5. Ends(p) /\ Claims(p)' = {} /\ \A s \in Named(p)' : s \in Named(p)  BY <1>4, CreateEnds
<1>6. Frame(p)
  <2> HIDE DEF ok
  <2>1. NewAt(p, itable[dp[p]].inum, itable[ip[p]].inum, ok)  BY <1>2 DEF ok
  <2> QED BY <1>1, <1>5, <2>1, CreateFrame
<1>7. Users' /\ Orphans' /\ \A q \in Procs : Mine(q)'  BY <1>5, <1>6, FrameEnds DEF NamesInv
<1>8. CASE ~CreateMade(p)
  <2>1. /\ \A y \in Inum : dinode'[y].type = dinode[y].type /\ (y # i /\ y # n => dinode'[y].nlink = dinode[y].nlink)
        /\ dinode'[i].nlink = 0 /\ dinode'[n].nlink = dinode[n].nlink + 0
        /\ \A d \in Inum : d # n /\ d # i => dirent'[d] = dirent[d]
        /\ OwnOnly(dirent'[i], i) /\ dirent'[n] = dirent[n]
    BY <1>2, <1>8 DEF NewAt
  <2>2. dinode[i].nlink = 0 /\ NamesOf(dirent, i) = {}
    <3> QED BY <1>1, <1>2, <1>3, NewUnlinked
  <2>3. ASSUME NEW y \in Inum PROVE CountRight(y)'
    <3> DEFINE D == dinode'
               E == dirent'
    <3>1. CountRight(y)  BY DEF NamesInv, CountsRight
    <3>2. dinode'[y].nlink = dinode[y].nlink
      <4>1. dinode[n].nlink \in Int  BY <1>3, LinksCount
      <4> QED BY <2>1, <2>2, <4>1
    <3>3. dinode'[y].type = "none" => dinode[y].nlink = 0  BY <2>1, <3>1 DEF CountRight
    <3>4. /\ Links(dinode', dirent', y) \subseteq Links(dinode, dirent, y)
          /\ OneName(dinode, dirent, y) => OneName(dinode', dirent', y)
      <4>1. (\A d \in Inum : D[d].type = dinode[d].type) /\ \A d \in Inum : d # i => E[d] = dirent[d]
        BY <2>1
      <4>2. OwnOnly(E[i], i)  BY <2>1
      <4> HIDE DEF D, E
      <4>3. /\ Links(D, E, y) \subseteq Links(dinode, dirent, y)
            /\ OneName(dinode, dirent, y) => OneName(D, E, y)
        BY <1>3, <2>2, <4>1, <4>2, LinksOwn
      <4> QED BY <4>3 DEF D, E
    <3>5. y \in Claims(p)' => y \in Claims(p)  BY <1>5
    <3> QED BY <3>1, <3>2, <3>3, <3>4, <3>5, CountKept
  <2> QED BY <1>7, <2>3 DEF NamesInv, CountsRight
<1>9. CASE CreateMade(p)
  <2>1. NewAt(p, n, i, TRUE)  BY <1>2, <1>9 DEF NewAt
  <2>2. i = itable[ip[p]].inum  BY <1>2
  <2>3. \E k : NewMore(p, n, i, k)  BY <1>1, <1>4, <2>1, <2>2, NewLinks
  <2>4. PICK k : NewMore(p, n, i, k)  BY <2>3
  <2>5. ASSUME NEW y \in Inum PROVE CountRight(y)'
    <3>1. CASE y = i
      <4>1. CountRight(i)'  BY <1>1, <1>3, <1>5, <2>1, <2>2, <2>4, NewCount
      <4> QED BY <3>1, <4>1
    <3>2. CASE y = n /\ call[p].k = "mkdir"
      <4>1. CountRight(n)'  BY <1>5, <2>1, <2>4, <3>2, ParentCount
      <4> QED BY <3>2, <4>1
    <3>3. CASE y # i /\ ~(y = n /\ call[p].k = "mkdir")
      <4>1. CountRight(y)  BY DEF NamesInv, CountsRight
      <4>2. Links(dinode', dirent', y) \subseteq Links(dinode, dirent, y)  BY <2>4, <3>3 DEF NewMore
      <4>3. OneName(dinode, dirent, y) => OneName(dinode', dirent', y)  BY <2>4, <3>3 DEF NewMore
      <4>4. dinode'[y].nlink = dinode[y].nlink /\ dinode'[y].type = dinode[y].type
        <5>1. dinode[n].nlink \in Int  BY <1>3, LinksCount
        <5> QED BY <2>1, <3>3, <5>1 DEF NewAt
      <4>5. dinode'[y].type = "none" => dinode[y].nlink = 0  BY <4>1, <4>4 DEF CountRight
      <4>6. y \in Claims(p)' => y \in Claims(p)  BY <1>5
      <4> QED BY <4>1, <4>2, <4>3, <4>4, <4>5, <4>6, CountKept
    <3> QED BY <3>1, <3>2, <3>3
  <2> QED BY <1>7, <2>5 DEF NamesInv, CountsRight
<1> QED BY <1>8, <1>9

-----------------------------------------------------------------------------
(* Every step.                                                               *)

\* An entry that is put stays that of its inode.
LEMMA SameInumAt ==
  ASSUME TableInv, NEW p \in Procs, pc[p] \in Putting,
         NEW e, itable' = [itable EXCEPT ![Head(puts[p])] = e], e.inum = itable[Head(puts[p])].inum
  PROVE  SameInums
<1> DEFINE h == Head(puts[p])
<1>1. h \in Slot /\ itable \in [Slot -> TableEntry]  BY AtPut, TableFacts
<1>2. itable' = [itable EXCEPT ![h] = e] /\ e.inum = itable[h].inum  OBVIOUS
<1> HIDE DEF h
<1>3. itable'[h] = e /\ \A k \in Slot : k # h => itable'[k] = itable[k]  BY <1>1, <1>2
<1> QED BY <1>2, <1>3 DEF SameInums

LEMMA SameInumDrop ==
  ASSUME TableInv, NEW p \in Procs, pc[p] \in Putting,
         itable' = [itable EXCEPT ![Head(puts[p])].ref = @ - 1]
  PROVE  SameInums
<1> DEFINE h == Head(puts[p])
           e == [itable[h] EXCEPT !.ref = @ - 1]
<1>1. h \in Slot /\ itable \in [Slot -> TableEntry]  BY AtPut, TableFacts
<1>2. e.inum = itable[h].inum
  <2>1. itable[h] \in TableEntry  BY <1>1
  <2> HIDE DEF h
  <2> QED BY <2>1 DEF TableEntry
<1>3. itable' = [itable EXCEPT ![h] = e]  OBVIOUS
<1> HIDE DEF e
<1> QED BY <1>2, <1>3, SameInumAt

LEMMA StepSameInums ==
  ASSUME TableInv, NEW p \in Procs, Step(p) \/ \E c \in Calls : Begin(p, c)
  PROVE  SameInums
<1>1. CASE (Step(p) /\ ~iput(p)) \/ \E c \in Calls : Begin(p, c)
  <2>1. Follow(p)  BY <1>1, StepFollow
  <2> QED BY <2>1 DEF Follow, Keeps, SameInums
<1>2. CASE PutRef(p) \/ PutUnref(p)
  <2>1. pc[p] \in Putting /\ itable' = [itable EXCEPT ![Head(puts[p])].ref = @ - 1]
    BY <1>2 DEF PutRef, PutUnref, Putting
  <2> QED BY <2>1, SameInumDrop
<1>3. CASE PutLast(p)
  <2> DEFINE h == Head(puts[p])
             e == [itable[h] EXCEPT !.lock = p]
  <2>1. pc[p] \in Putting /\ itable' = [itable EXCEPT ![h] = e]  BY <1>3 DEF PutLast, Putting
  <2>2. itable[h] \in TableEntry  BY <2>1, AtPut, TableFacts
  <2>3. e.inum = itable[h].inum
    <3> HIDE DEF h
    <3> QED BY <2>2 DEF TableEntry
  <2> HIDE DEF e
  <2> QED BY <2>1, <2>3, SameInumAt
<1>4. CASE PutFree(p)
  <2> DEFINE h == Head(puts[p])
             r == itrunc(itable[h].ino, Space)
             ino2 == [r.ino EXCEPT !.type = "none"]
             e == [itable[h] EXCEPT !.valid = FALSE, !.lock = None, !.ino = ino2]
  <2>1. pc[p] \in Putting /\ itable' = [itable EXCEPT ![h] = e]  BY <1>4 DEF PutFree, Putting
  <2>2. itable[h] \in TableEntry  BY <2>1, AtPut, TableFacts
  <2> HIDE DEF ino2
  <2>3. e.inum = itable[h].inum
    <3> HIDE DEF h
    <3> QED BY <2>2 DEF TableEntry
  <2> HIDE DEF e
  <2> QED BY <2>1, <2>3, SameInumAt
<1> QED BY <1>1, <1>2, <1>3, <1>4 DEF iput

LEMMA StepNames ==
  ASSUME TableInv, NamesInv, NoDotDot, TableInv', NEW p \in Procs,
         Step(p) \/ \E c \in Calls : Begin(p, c)
  PROVE  NamesInv'
<1>1. Others(p) /\ SameInums  BY StepOthers, StepSameInums
<1>2. CASE namex(p)  BY <1>1, <1>2, WalkNames, WalkEndNames DEF namex
<1>3. CASE create(p)
  BY <1>1, <1>3, CreateLookupNames, CreateExistingNames, CreateAllocNames, CreateMadeNames DEF create
<1>4. CASE sys_open(p)  BY <1>1, <1>4, OpenLockNames, OpenedNames DEF sys_open
<1>5. CASE filewrite(p)  BY <1>1, <1>5, FilewriteNames
<1>6. CASE fileread(p)  BY <1>1, <1>6, FilereadNames
<1>7. CASE sys_chdir(p)  BY <1>1, <1>7, ChdirNames
<1>8. CASE sys_unlink(p)
  BY <1>1, <1>8, UnlinkLookupNames, UnlinkEntryNames, UnlinkInodeNames DEF sys_unlink
<1>9. CASE sys_link(p)  BY <1>1, <1>9, LinkCountNames, LinkEntryNames, LinkBadNames DEF sys_link
<1>10. CASE iput(p)  BY <1>1, <1>10, IputNames
<1>11. ASSUME NEW c \in Calls, Begin(p, c) PROVE NamesInv'  BY <1>1, <1>11, BeginNames
<1> QED BY <1>2, <1>3, <1>4, <1>5, <1>6, <1>7, <1>8, <1>9, <1>10, <1>11 DEF Step

\* A tree of the start counts its links, and nobody keeps one.
LEMMA InitNames == Init => NamesInv
<1> SUFFICES ASSUME Init PROVE NamesInv  OBVIOUS
<1>0. TableInv  BY InitTable
<1>1. PICK t \in Trees : /\ dinode = t.dinode /\ dirent = t.dirent /\ bitmap = t.bitmap
                         /\ itable = t.itable /\ cwd = t.cwd /\ fd = t.fd
  BY DEF Init
<1>2. Sane(t)  BY <1>1, TreesAssumption
<1>3. ASSUME NEW p \in Procs
      PROVE  pc[p] = "user" /\ path[p] = <<>> /\ ip[p] = None /\ dp[p] = None /\ old[p] = None /\ after[p] = "user"
  BY DEF Init
<1>4. Users
  <2> SUFFICES ASSUME NEW p \in Procs, NEW s \in Named(p) PROVE Of(s).type # "none"  BY DEF Users
  <2>1. s \in Slot /\ itable[s].ref >= 1  BY <1>0, NamedUsed
  <2>2. itable[s].ref \in Nat  BY <1>0, <2>1, TableFacts, EntryTypes
  <2>3. itable[s].ref > 0 => dinode[itable[s].inum].type # "none"  BY <1>1, <1>2, <2>1 DEF Sane
  <2> QED BY <2>1, <2>2, <2>3 DEF Of
<1>5. Orphans  BY <1>3 DEF Orphans, OrphanRight, Orphan
<1>6. ASSUME NEW p \in Procs PROVE Mine(p)
  <2>1. Range(path[p]) = {}  BY <1>3 DEF Range
  <2> QED BY <1>3, <2>1 DEF Mine, OldRight, UnlinkRight, PathRight, NewRight
<1>7. ASSUME NEW i \in Inum PROVE CountRight(i)
  <2>1. ASSUME NEW q \in Procs PROVE Claims(q) = {}
    <3>1. At(q) = "user"  BY <1>3 DEF At, Putting
    <3> QED BY <1>3, <3>1 DEF Claims
  <2>2. {"kept"} \X {q \in Procs : i \in Claims(q)} = {}  BY <2>1
  <2>3. Due(i) = Links(dinode, dirent, i)  BY <2>2 DEF Due
  <2>4. /\ Cardinality(Links(dinode, dirent, i)) <= dinode[i].nlink
        /\ dinode[i].type = "none" => dinode[i].nlink = 0
        /\ OneName(dinode, dirent, i)
    BY <1>1, <1>2 DEF Sane
  <2> QED BY <2>3, <2>4 DEF CountRight
<1> QED BY <1>4, <1>5, <1>6, <1>7 DEF NamesInv, CountsRight

LEMMA NextNames == NoDotDot => (TableInv /\ NamesInv /\ TableInv' /\ [Next]_vars => NamesInv')
<1> SUFFICES ASSUME NoDotDot, TableInv, NamesInv, TableInv', [Next]_vars PROVE NamesInv'  OBVIOUS
<1>1. ASSUME NEW p \in Procs, Step(p) \/ \E c \in Calls : Begin(p, c) PROVE NamesInv'  BY <1>1, StepNames
<1>2. CASE UNCHANGED vars
  <2>1. /\ dinode' = dinode /\ dirent' = dirent /\ itable' = itable /\ cwd' = cwd /\ fd' = fd
        /\ call' = call /\ pc' = pc /\ path' = path /\ ip' = ip /\ dp' = dp /\ name' = name /\ old' = old
        /\ puts' = puts /\ after' = after
    BY <1>2 DEF vars, diskVars, localVars
  <2>2. /\ \A p \in Procs : Named(p)' = Named(p) /\ At(p)' = At(p)
        /\ \A s : Of(s)' = Of(s)
        /\ \A i : Gone(i)' = Gone(i)
    BY <2>1 DEF Named, At, Of, Gone
  <2>3. \A p \in Procs : Claims(p)' = Claims(p) /\ (Mine(p) => Mine(p)')
    BY <2>1, <2>2 DEF Claims, Mine, OldRight, UnlinkRight, PathRight, NewRight
  <2>4. Users' /\ Orphans'
    BY <2>1, <2>2 DEF NamesInv, Users, Orphans, OrphanRight, Orphan
  <2>5. ASSUME NEW i \in Inum PROVE CountRight(i)'
    <3>1. Due(i)' = Due(i)  BY <2>1, <2>3 DEF Due
    <3>2. CountRight(i)  BY DEF NamesInv, CountsRight
    <3> QED BY <2>1, <3>1, <3>2 DEF CountRight
  <2> QED BY <2>3, <2>4, <2>5 DEF NamesInv, CountsRight
<1> QED BY <1>1, <1>2 DEF Next, Finished

\* Who is about to lock an inode points to it: it is not free.
LEMMA LocksNamed ==
  ASSUME TableInv, NamesInv, NEW p \in Procs, NEW s, s = Locks(p), s # None
  PROVE  /\ s \in Slot /\ itable[s].inum \in Inum /\ Of(s).type # "none"
         /\ Loaded(s).ino = Of(s)
<1>1. s \in Named(p)
  <2>1. LocalsAt(At(p), call[p], ip[p], dp[p], old[p], fd[p])  BY DEF TableInv, LocalsRight
  <2>2. CASE pc[p] \in {"walk", "open", "existing", "create2", "unlink2", "chdir", "link"}
    <3>1. s = ip[p]  BY <2>2 DEF Locks
    <3> QED BY <3>1 DEF Named
  <2>3. CASE pc[p] \in {"create", "unlink", "link2"}
    <3>1. s = dp[p]  BY <2>3 DEF Locks
    <3> QED BY <3>1 DEF Named
  <2>4. CASE pc[p] = "linkbad"
    <3>1. s = old[p]  BY <2>4 DEF Locks
    <3> QED BY <3>1 DEF Named
  <2>5. CASE pc[p] \in {"write", "read"}
    <3>1. s = fd[p].ip  BY <2>5 DEF Locks
    <3>2. fd[p] # None  BY <2>1, <2>5 DEF At, Putting, LocalsAt
    <3> QED BY <3>1, <3>2 DEF Named
  <2> QED BY <2>2, <2>3, <2>4, <2>5 DEF Locks
<1>2. s \in Slot /\ itable[s].ref >= 1 /\ itable[s].inum \in Inum  BY <1>1, NamedUsed
<1>3. Of(s).type # "none"  BY <1>1 DEF NamesInv, Users
<1>4. Loaded(s).ino = Of(s)
  <2>1. CASE itable[s].valid
    <3>1. CopiesRight(itable, dinode) /\ itable[s].ref \in Nat  BY <1>2, TableFacts, EntryTypes DEF TableOK
    <3>2. itable[s].ino = dinode[itable[s].inum]  BY <1>2, <2>1, <3>1 DEF CopiesRight
    <3> QED BY <2>1, <3>2 DEF Loaded, Of
  <2>2. CASE ~itable[s].valid
    <3>1. itable[s] \in TableEntry  BY <1>2, TableFacts
    <3> QED BY <2>2, <3>1 DEF Loaded, Of, TableEntry
  <2> QED BY <2>1, <2>2
<1> QED BY <1>1, <1>2, <1>3, <1>4

LEMMA NamesNoPanic ==
  ASSUME TableInv, NamesInv
  PROVE  NoPanic
<1> SUFFICES ASSUME NEW p \in Procs, Locks(p) # None
             PROVE  /\ Loaded(Locks(p)).ino.type # "none"
                    /\ pc[p] = "unlink2" => Loaded(Locks(p)).ino.nlink >= 1
  BY DEF NoPanic
<1> DEFINE s == Locks(p)
<1>1. s = Locks(p) /\ s # None  OBVIOUS
<1> HIDE DEF s
<1>2. Of(s).type # "none" /\ Loaded(s).ino = Of(s)  BY <1>1, LocksNamed
<1>3. ASSUME pc[p] = "unlink2" PROVE Of(s).nlink >= 1
  <2>1. s = ip[p]  BY <1>1, <1>3 DEF Locks
  <2> DEFINE d == dp[p]
             n == itable[d].inum
             i == itable[s].inum
             m == name[p]
  <2>2. UnlinkRight(p)  BY DEF NamesInv, Mine
  <2>3. m \notin {".", ".."} /\ dirlookup(dirent[n], m) = i  BY <1>3, <2>1, <2>2 DEF UnlinkRight
  <2>4. d # None
    <3>1. LocalsAt(At(p), call[p], ip[p], dp[p], old[p], fd[p])  BY DEF TableInv, LocalsRight
    <3> QED BY <1>3, <3>1 DEF At, Putting, LocalsAt, Parented
  <2>5. d \in Named(p) /\ s \in Named(p)  BY <1>1, <2>1, <2>4 DEF Named
  <2>6. n \in Inum /\ i \in Inum  BY <2>5, NamedUsed
  <2>7. CountsRight /\ i # None
    <3>1. 1 \in Int /\ None \notin Inum  BY Constants DEF Inum
    <3> QED BY <2>6, <3>1 DEF NamesInv
  <2> HIDE DEF d, n, i, m
  <2>8. dinode[i].nlink >= 1  BY <2>3, <2>6, <2>7, LookLed
  <2> QED BY <2>8 DEF Of, i
<1> QED BY <1>2, <1>3 DEF s

LEMMA LinksLeft ==
  ASSUME TableInv, NamesInv, NEW i \in Inum
  PROVE  /\ Cardinality(Links(dinode, dirent, i)) <= dinode[i].nlink
         /\ dinode[i].type = "none" => Links(dinode, dirent, i) = {}
<1>1. CountRight(i)  BY DEF NamesInv, CountsRight
<1>2. Links(dinode, dirent, i) \subseteq Due(i)  BY DEF Due
<1>3. IsFiniteSet(Due(i))  BY DueIsFinite
<1> DEFINE L == Links(dinode, dirent, i)
<1>4. L \subseteq Due(i)  BY <1>2
<1> HIDE DEF L
<1>5. Cardinality(L) <= Cardinality(Due(i)) /\ Cardinality(L) \in Nat /\ Cardinality(Due(i)) \in Nat
  BY <1>3, <1>4, CountLess
<1>6. dinode[i].nlink \in Int  BY LinksCount
<1>7. Cardinality(L) <= dinode[i].nlink  BY <1>1, <1>5, <1>6 DEF CountRight
<1>8. dinode[i].type = "none" => L = {}
  <2>1. dinode[i].nlink = 0 => Due(i) = {}  BY <1>1, DueNotFree
  <2> QED BY <1>1, <1>4, <2>1 DEF CountRight
<1> QED BY <1>7, <1>8 DEF L

\* As long as no path goes through "..": whoever creates, links and unlinks at the same
\* time, an inode has no more links than it counts and none when it is free, and nobody
\* is about to lock one that is free, or to unlink one that has no link ("ilock: no type"
\* and "unlink: nlink < 1" of kernel/fs.c and kernel/sysfile.c).
THEOREM NamesAreCounted == NoDotDot => (Spec => []NamesCounted)
<1> SUFFICES ASSUME NoDotDot PROVE Spec => []NamesCounted  OBVIOUS
<1>1. TableInv /\ NamesInv => NamesCounted  BY NamesNoPanic, LinksLeft DEF NamesCounted
<1>2. Spec => []NamesInv
  <2>1. Init => TableInv /\ NamesInv  BY InitTable, InitNames
  <2>2. TableInv /\ NamesInv /\ [Next]_vars => (TableInv /\ NamesInv)'  BY NextTable, NextNames
  <2> QED BY <2>1, <2>2, PTL DEF Spec
<1> QED BY <1>1, <1>2, TableIsInvariant, PTL

=============================================================================
