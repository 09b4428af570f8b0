-------------------------------- MODULE Inodes --------------------------------
(***************************************************************************)
(* Inodes, directories and the allocation of blocks (kernel/fs.c), and the *)
(* system calls on paths (kernel/sysfile.c). Several processes make calls; *)
(* a step is what one does between two waits for a sleep lock or an end of *)
(* a section under itable.lock that others can see.                        *)
(*                                                                         *)
(* Every call is one operation of the log, which makes it atomic in a      *)
(* crash (module Log), and buffers are what BlockStore says they are. The  *)
(* size of a directory is its number of entries, PerBlock of them in a     *)
(* block; that of a file is counted in blocks.                             *)
(***************************************************************************)
EXTENDS Integers, SequencesExt

CONSTANTS
  Procs,
  NINODES,     \* inode numbers on the disk; NINODE, entries of the table, is as many
  NBLOCKS,     \* data blocks
  NDIRECT, NINDIRECT, PerBlock,
  Calls,       \* the calls that processes may make
  Trees,       \* the file systems to begin with
  MaxCalls,    \* how many calls are made in all
  None         \* no inode, no process, no file

Inum == 1 .. NINODES
Slot == 1 .. NINODES
Block == 1 .. NBLOCKS
ROOTINO == 1

ASSUME InodesAssumption ==
  /\ {NINODES, NBLOCKS, NDIRECT, NINDIRECT, PerBlock, MaxCalls} \subseteq Nat
  /\ NINODES >= 1 /\ PerBlock >= 2 /\ NDIRECT >= 1
  /\ IsFiniteSet(Procs)
  /\ None \notin Procs \cup Nat \cup [ip : Slot, off : Nat]

VARIABLES
  \* the disk
  dinode,      \* the inodes: type, nlink, size, addrs
  dirent,      \* the entries of each directory, from the first one on
  bitmap,      \* the blocks in use
  indirect,    \* what is in the blocks of block numbers
  \* the inode table: inum, ref, valid, lock, and the copy of the inode
  itable,
  \* a process: its current directory and its open file
  cwd, fd,
  \* the call it makes, how far it is, and its local variables
  call, pc, path, ip, dp, name, old,
  puts, after, \* the inodes to iput(), and where it goes on then
  calls,       \* how many calls are left
  lost         \* inodes that iput() has failed to free (see PutUnref)

diskVars == <<dinode, dirent, bitmap, indirect>>
localVars == <<call, path, ip, dp, name, old>>
vars == <<diskVars, itable, cwd, fd, localVars, pc, puts, after, calls, lost>>

Addr == 1 .. NDIRECT + 1
NoInode == [type |-> "none", nlink |-> 0, size |-> 0, addrs |-> [a \in Addr |-> None]]
Empty == [inum |-> None, ref |-> 0, valid |-> FALSE, lock |-> None, ino |-> NoInode]
Zeros == [j \in 1 .. NINDIRECT |-> None]
Entry(n, i) == [name |-> n, inum |-> i]

Types == {"none", "dir", "file"}
Dinode == [type : Types, nlink : Int, size : Nat, addrs : [Addr -> Block \cup {None}]]
Name == STRING \cup {".", ".."} \cup {None}
DirEntry == [name : Name, inum : Inum \cup {None}]
TableEntry == [inum : Inum \cup {None}, ref : Nat, valid : BOOLEAN, lock : Procs \cup {None}, ino : Dinode]
OpenFile == [ip : Slot, off : Nat]

Kinds == {"open", "create", "mkdir", "unlink", "link", "chdir", "read", "write", "close"}
Path == [abs : BOOLEAN, names : Seq(STRING)]
ASSUME CallsAssumption == Calls \subseteq [k : Kinds, path : Path, new : Path, trunc : BOOLEAN]

Lowest(S) == CHOOSE x \in S : \A y \in S : x <= y

\* The blocks of an inode: those it names, and those its indirect block names.
BlocksOf(ino, ind) ==
  LET i == ino.addrs[NDIRECT + 1]
  IN  (Range(ino.addrs) \cup (IF i = None THEN {} ELSE Range(ind[i]))) \ {None}

\* A block is in use by one inode of D, and only then marked so in sp.
OneOwner(D, sp) ==
  LET Of(i) == IF D[i].type = "none" THEN {} ELSE BlocksOf(D[i], sp.ind)
  IN  /\ \A i, j \in Inum : i # j => Of(i) \cap Of(j) = {}
      /\ sp.used = UNION {Of(i) : i \in Inum}

\* An inode has one entry of the table at most, and the copy in a valid entry is
\* what is on the disk.
OneEntry(it) ==
  \A s, t \in Slot : it[s].ref > 0 /\ it[t].ref > 0 /\ it[s].inum = it[t].inum => s = t
CopiesRight(it, D) == \A s \in Slot : it[s].ref > 0 /\ it[s].valid => it[s].ino = D[it[s].inum]

Found(d, n) == {k \in DOMAIN d : d[k].inum # None /\ d[k].name = n}
dirlookup(d, n) == IF Found(d, n) = {} THEN None ELSE d[Lowest(Found(d, n))].inum

\* The names of inode i in directories E, each as a directory and a place in it:
\* what leads to i, but for any ".." and for the "." of i itself.
NamesOf(E, i) ==
  {x \in UNION {{d} \X DOMAIN E[d] : d \in Inum} :
     LET e == E[x[1]][x[2]]
     IN  e.inum = i /\ e.name # ".." /\ ~(e.name = "." /\ x[1] = i)}

\* The directories whose ".." is i, as long as they have a name.
Below(D, E, i) ==
  {d \in Inum \ {ROOTINO} : D[d].type = "dir" /\ dirlookup(E[d], "..") = i /\ NamesOf(E, d) # {}}

\* The links that inode i counts: its names, those from below, and the root one more.
Links(D, E, i) ==
  ({"name"} \X NamesOf(E, i)) \cup ({"below"} \X Below(D, E, i))
    \cup (IF i = ROOTINO THEN {<<"root", i>>} ELSE {})

\* A directory has one name at most, in the one that is its ".."; the root has none.
OneName(D, E, i) ==
  D[i].type = "dir" =>
    /\ \A x, y \in NamesOf(E, i) : x = y /\ x[1] = dirlookup(E[i], "..")
    /\ i = ROOTINO => NamesOf(E, i) = {}

\* The sum of n[p], as the number of pairs of a process and a pointer it has.
MaxPointers == 7
Total(n) == Cardinality({x \in Procs \X (1 .. MaxPointers) : x[2] <= n[x[1]]})
One(b) == IF b THEN 1 ELSE 0

\* What a tree has to be: inodes with what is theirs, and entries of the table for
\* the directories and open files of the processes.
Sane(t) ==
  /\ t.dinode \in [Inum -> Dinode]
  /\ t.dirent \in [Inum -> Seq(DirEntry)]
  /\ t.bitmap \subseteq Block
  /\ t.itable \in [Slot -> TableEntry]
  /\ t.cwd \in [Procs -> Slot]
  /\ t.fd \in [Procs -> OpenFile \cup {None}]
  /\ OneOwner(t.dinode, [used |-> t.bitmap, ind |-> [b \in Block |-> Zeros]])
  /\ \A i \in Inum : t.dinode[i].type = "none" => t.dinode[i].addrs = NoInode.addrs
  /\ \A i \in Inum :
       /\ Cardinality(Links(t.dinode, t.dirent, i)) <= t.dinode[i].nlink
       /\ t.dinode[i].type = "none" => t.dinode[i].nlink = 0
       /\ OneName(t.dinode, t.dirent, i)
       /\ t.dinode[i].type # "none" /\ t.dinode[i].nlink = 0 =>
            \E s \in Slot : t.itable[s].ref > 0 /\ t.itable[s].inum = i /\ t.itable[s].valid
  /\ OneEntry(t.itable)
  /\ CopiesRight(t.itable, t.dinode)
  /\ \A s \in Slot :
       LET e == t.itable[s]
       IN  /\ e.ref = Total([p \in Procs |->
                        One(t.cwd[p] = s) + One(t.fd[p] # None /\ t.fd[p].ip = s)])
           /\ e.ref > 0 => e.inum # None /\ t.dinode[e.inum].type # "none"
           /\ e.valid => e.ino.type # "none"
           /\ e.lock = None
ASSUME TreesAssumption == \A t \in Trees : Sane(t)

\* A tree gives the inodes, the entries, and where each process is.
Init ==
  /\ \E t \in Trees :
       /\ dinode = t.dinode
       /\ dirent = t.dirent
       /\ bitmap = t.bitmap
       /\ itable = t.itable
       /\ cwd = t.cwd
       /\ fd = t.fd
  /\ indirect = [b \in Block |-> Zeros]
  /\ call = [p \in Procs |-> None]
  /\ pc = [p \in Procs |-> "user"]
  /\ path = [p \in Procs |-> <<>>]
  /\ ip = [p \in Procs |-> None]
  /\ dp = [p \in Procs |-> None]
  /\ name = [p \in Procs |-> None]
  /\ old = [p \in Procs |-> None]
  /\ puts = [p \in Procs |-> <<>>]
  /\ after = [p \in Procs |-> "user"]
  /\ calls = MaxCalls
  /\ lost = {}

-----------------------------------------------------------------------------
(* Blocks. The operators take the state of the disk that they change, and   *)
(* return it.                                                               *)

Space == [used |-> bitmap, ind |-> indirect]

\* A zeroed block; None when the disk is full.
balloc(sp) ==
  IF Block \subseteq sp.used
    THEN [addr |-> None, sp |-> sp]
    ELSE LET b == Lowest(Block \ sp.used)
         IN  [addr |-> b, sp |-> [used |-> sp.used \cup {b}, ind |-> [sp.ind EXCEPT ![b] = Zeros]]]

\* The n-th block of an inode, allocated if need be, and what has become of the
\* inode and of the disk. (New is an allocation or a block that is there.)
Kept(addr, sp) == [addr |-> addr, sp |-> sp]
InInode(ino, k, new) == [addr |-> new.addr, ino |-> [ino EXCEPT !.addrs[k] = new.addr], sp |-> new.sp]
InIndirect(ino, i, k, new) ==
  [addr |-> new.addr, ino |-> ino,
   sp |-> IF new.addr = None THEN new.sp ELSE [new.sp EXCEPT !.ind[i][k] = new.addr]]
Indirectly(r, k) ==
  IF r.addr = None THEN r
  ELSE InIndirect(r.ino, r.addr, k, IF r.sp.ind[r.addr][k] # None THEN Kept(r.sp.ind[r.addr][k], r.sp)
                                                                   ELSE balloc(r.sp))
bmap(ino, sp, n) ==
  LET k == IF n <= NDIRECT THEN n ELSE NDIRECT + 1
      r == InInode(ino, k, IF ino.addrs[k] # None THEN Kept(ino.addrs[k], sp) ELSE balloc(sp))
  IN  IF n <= NDIRECT THEN r ELSE Indirectly(r, n - NDIRECT)

\* Mutant: the blocks that the indirect block names are not freed.
itrunc_Direct(ino, sp) ==
  [ino |-> [ino EXCEPT !.size = 0, !.addrs = [a \in Addr |-> None]],
   sp |-> [sp EXCEPT !.used = @ \ Range(ino.addrs)]]

itrunc(ino, sp) ==
  [ino |-> [ino EXCEPT !.size = 0, !.addrs = [a \in Addr |-> None]],
   sp |-> [sp EXCEPT !.used = @ \ BlocksOf(ino, sp.ind)]]

\* One unit at off: an entry of a directory, or a block of a file.
Written(r, off) ==
  [ok |-> r.addr # None, sp |-> r.sp,
   ino |-> IF r.addr # None /\ off = r.ino.size THEN [r.ino EXCEPT !.size = off + 1] ELSE r.ino]
writei(ino, sp, off) ==
  LET n == (IF ino.type = "dir" THEN off \div PerBlock ELSE off) + 1
  IN  IF off > ino.size \/ n > NDIRECT + NINDIRECT THEN [ok |-> FALSE, ino |-> ino, sp |-> sp]
      ELSE Written(bmap(ino, sp, n), off)

-----------------------------------------------------------------------------
(* Directories: the entries d of one.                                       *)

\* An empty entry is used again, else the directory grows; which may fail. As
\* dir: the entries, the inode, and the disk.
Empties(d) == {k \in DOMAIN d : d[k].inum = None}
Linked(d, k, e, w) ==
  [ok |-> w.ok, ino |-> w.ino, sp |-> w.sp,
   d |-> IF ~w.ok THEN d ELSE IF k <= Len(d) THEN [d EXCEPT ![k] = e] ELSE Append(d, e)]
LinkedAt(dir, k, e) == Linked(dir.d, k, e, writei(dir.ino, dir.sp, k - 1))
dirlink(dir, n, i) ==
  IF ~dir.ok \/ dirlookup(dir.d, n) # None THEN [dir EXCEPT !.ok = FALSE]
  ELSE LinkedAt(dir, IF Empties(dir.d) = {} THEN Len(dir.d) + 1 ELSE Lowest(Empties(dir.d)), Entry(n, i))
Dir(d, ino, sp) == [ok |-> TRUE, d |-> d, ino |-> ino, sp |-> sp]

isdirempty(d) == \A k \in 3 .. Len(d) : d[k].inum = None

-----------------------------------------------------------------------------
(* The inode table.                                                         *)

\* Mutant: an inode that is in the table already gets a second entry.
iget_Always(it, i) ==
  LET s == Lowest({k \in Slot : it[k].ref = 0})
  IN  [s |-> s, it |-> [it EXCEPT ![s] = [@ EXCEPT !.inum = i, !.ref = 1, !.valid = FALSE]]]

iget(it, i) ==
  LET same == {k \in Slot : it[k].ref > 0 /\ it[k].inum = i}
      s == Lowest(IF same # {} THEN same ELSE {k \in Slot : it[k].ref = 0})
  IN  [s |-> s,
       it |-> IF same # {} THEN [it EXCEPT ![s].ref = @ + 1]
              ELSE [it EXCEPT ![s] = [@ EXCEPT !.inum = i, !.ref = 1, !.valid = FALSE]]]

idup(it, s) == [it EXCEPT ![s].ref = @ + 1]

\* The entry as ilock() leaves it, but for the lock; a type of none is a panic.
Loaded(s) ==
  IF itable[s].valid THEN itable[s]
  ELSE [itable[s] EXCEPT !.valid = TRUE, !.ino = dinode[itable[s].inum]]
CanLock(s) == itable[s].lock = None /\ Loaded(s).ino.type # "none"
ilock(p, s) == [Loaded(s) EXCEPT !.lock = p]
iunlock(e) == [e EXCEPT !.lock = None]
\* The copy has n links more.
relink(e, n) == [e EXCEPT !.ino.nlink = @ + n]

\* What iupdate() makes of the copy in entry s of a table.
iupdate(it, ss) == dinode' = [i \in Inum |->
  IF \E s \in ss : it[s].inum = i THEN it[CHOOSE s \in ss : it[s].inum = i].ino ELSE dinode[i]]

Go(p, l) == pc' = [pc EXCEPT ![p] = l] /\ UNCHANGED <<puts, after>>
\* iput() for each of ss, then on to l.
Put(p, ss, l) ==
  /\ pc' = [pc EXCEPT ![p] = "put"]
  /\ puts' = [puts EXCEPT ![p] = ss]
  /\ after' = [after EXCEPT ![p] = l]

Rest(p) ==
  IF Len(puts[p]) = 1
    THEN /\ pc' = [pc EXCEPT ![p] = after[p]]
         /\ puts' = [puts EXCEPT ![p] = <<>>]
         /\ after' = [after EXCEPT ![p] = "user"]
    ELSE /\ pc' = [pc EXCEPT ![p] = "put"]
         /\ puts' = [puts EXCEPT ![p] = Tail(@)]
         /\ UNCHANGED after

\* Mutant: an inode without links is not looked for.
PutRef_Only(p) ==
  /\ pc[p] = "put"
  /\ itable' = [itable EXCEPT ![Head(puts[p])].ref = @ - 1]
  /\ Rest(p)
  /\ UNCHANGED <<diskVars, cwd, fd, localVars, calls, lost>>

\* iput(), when the inode has links or is referred to by others.
PutRef(p) ==
  LET s == Head(puts[p])
  IN  /\ pc[p] = "put"
      /\ ~(itable[s].ref = 1 /\ itable[s].valid /\ itable[s].ino.nlink = 0)
      /\ itable' = [itable EXCEPT ![s].ref = @ - 1]
      /\ Rest(p)
      /\ UNCHANGED <<diskVars, cwd, fd, localVars, calls, lost>>

\* iput() of the last reference: it takes the lock and gives up itable.lock.
PutLast(p) ==
  LET s == Head(puts[p])
  IN  /\ pc[p] = "put"
      /\ itable[s].ref = 1 /\ itable[s].valid /\ itable[s].ino.nlink = 0
      /\ itable[s].lock = None
      /\ itable' = [itable EXCEPT ![s].lock = p]
      /\ pc' = [pc EXCEPT ![p] = "free"]
      /\ UNCHANGED <<diskVars, cwd, fd, localVars, puts, after, calls, lost>>

PutFree(p) ==
  LET s == Head(puts[p])
      r == itrunc(itable[s].ino, Space)
      i == itable[s].inum
  IN  /\ pc[p] = "free"
      /\ itable' = [itable EXCEPT ![s] = [@ EXCEPT !.valid = FALSE, !.lock = None,
                      !.ino = [r.ino EXCEPT !.type = "none"]]]
      /\ iupdate(itable', {s})
      /\ dirent' = [dirent EXCEPT ![i] = <<>>]
      /\ bitmap' = r.sp.used
      /\ indirect' = r.sp.ind
      /\ pc' = [pc EXCEPT ![p] = "unref"]
      /\ UNCHANGED <<cwd, fd, localVars, puts, after, calls, lost>>

\* The reference is dropped without another look. Between releasesleep() and here
\* another process may have been given the same free inode by ialloc(), have taken
\* its links again, and have put it as one of two: then nobody frees it.
PutUnref(p) ==
  LET s == Head(puts[p])
      e == itable[s]
  IN  /\ pc[p] = "unref"
      /\ itable' = [itable EXCEPT ![s].ref = @ - 1]
      /\ lost' = IF e.ref = 1 /\ e.valid /\ e.ino.nlink = 0 THEN lost \cup {e.inum} ELSE lost
      /\ Rest(p)
      /\ UNCHANGED <<diskVars, cwd, fd, localVars, calls>>

iput(p) == PutRef(p) \/ PutLast(p) \/ PutFree(p) \/ PutUnref(p)

-----------------------------------------------------------------------------
(* namex()                                                                  *)

Second(p) == call[p].k = "link" /\ old[p] # None
Parent(p) == call[p].k \in {"create", "mkdir", "unlink"} \/ Second(p)
Resolved(p) ==
  CASE call[p].k \in {"create", "mkdir"} -> "create" [] Second(p) -> "link2" [] OTHER -> call[p].k

\* The call is over, but for the inodes that are put.
Locals(p) ==
  /\ call' = [call EXCEPT ![p] = None]
  /\ path' = [path EXCEPT ![p] = <<>>]
  /\ ip' = [ip EXCEPT ![p] = None]
  /\ dp' = [dp EXCEPT ![p] = None]
  /\ name' = [name EXCEPT ![p] = None]
  /\ old' = [old EXCEPT ![p] = None]
Done(p, ss) == Locals(p) /\ IF ss = <<>> THEN Go(p, "user") ELSE Put(p, ss, "user")
\* It fails, and ss are put; link() has then to take back what it did.
Fails(p, ss) ==
  IF Second(p)
    THEN /\ Put(p, ss, "linkbad")
         /\ ip' = [ip EXCEPT ![p] = None]
         /\ dp' = [dp EXCEPT ![p] = None]
         /\ UNCHANGED <<call, path, name, old>>
    ELSE Done(p, ss)

\* The first inode of a path.
Root(p, it, w) == IF w.abs THEN iget(it, ROOTINO) ELSE [s |-> cwd[p], it |-> idup(it, cwd[p])]

\* A step of the loop: ip is locked, looked into, unlocked and put.
Walk(p) ==
  LET s == ip[p]
      e == Loaded(s)
      it == [itable EXCEPT ![s] = e]
      n == Head(path[p])
      rest == Tail(path[p])
      i == dirlookup(dirent[e.inum], n)
      g == iget(it, i)
  IN  /\ pc[p] = "walk"
      /\ path[p] # <<>>
      /\ CanLock(s)
      /\ IF e.ino.type # "dir" \/ (~(Parent(p) /\ rest = <<>>) /\ i = None)
           THEN itable' = it /\ Fails(p, <<s>>)
         ELSE IF Parent(p) /\ rest = <<>>
           THEN /\ itable' = it
                /\ dp' = [dp EXCEPT ![p] = s]
                /\ name' = [name EXCEPT ![p] = n]
                /\ ip' = [ip EXCEPT ![p] = None]
                /\ path' = [path EXCEPT ![p] = <<>>]
                /\ Go(p, Resolved(p))
                /\ UNCHANGED <<call, old>>
           ELSE /\ itable' = g.it
                /\ ip' = [ip EXCEPT ![p] = g.s]
                /\ path' = [path EXCEPT ![p] = rest]
                /\ Put(p, <<s>>, "walk")
                /\ UNCHANGED <<call, dp, name, old>>
      /\ UNCHANGED <<diskVars, cwd, fd, calls, lost>>

\* The end of the path.
WalkEnd(p) ==
  /\ pc[p] = "walk"
  /\ path[p] = <<>>
  /\ IF Parent(p) THEN Fails(p, <<ip[p]>>) ELSE Go(p, Resolved(p)) /\ UNCHANGED localVars
  /\ UNCHANGED <<diskVars, itable, cwd, fd, calls, lost>>

namex(p) == Walk(p) \/ WalkEnd(p)

-----------------------------------------------------------------------------
(* create(): dp is locked, then the inode that is there or the new one.     *)

CreateLookup(p) ==
  LET s == dp[p]
      it == [itable EXCEPT ![s] = ilock(p, s)]
      i == dirlookup(dirent[it[s].inum], name[p])
      g == iget(it, i)
  IN  /\ pc[p] = "create"
      /\ CanLock(s)
      /\ i # None
      /\ itable' = [g.it EXCEPT ![s] = iunlock(@)]
      /\ ip' = [ip EXCEPT ![p] = g.s]
      /\ dp' = [dp EXCEPT ![p] = None]
      /\ Put(p, <<s>>, "existing")
      /\ UNCHANGED <<diskVars, cwd, fd, call, path, name, old, calls, lost>>

\* A file or device is opened where a file was to be created.
CreateExisting(p) ==
  LET s == ip[p]
      e == ilock(p, s)
  IN  /\ pc[p] = "existing"
      /\ CanLock(s)
      /\ IF call[p].k = "create" /\ e.ino.type = "file"
           THEN itable' = [itable EXCEPT ![s] = e] /\ Go(p, "opened") /\ UNCHANGED localVars
           ELSE itable' = [itable EXCEPT ![s] = iunlock(e)] /\ Done(p, <<s>>)
      /\ UNCHANGED <<diskVars, cwd, fd, calls, lost>>

\* ialloc() finds an inode that is free on the disk, or none.
CreateAlloc(p) ==
  LET s == dp[p]
      it == [itable EXCEPT ![s] = ilock(p, s)]
      unused == {i \in Inum : dinode[i].type = "none"}
      g == iget(it, Lowest(unused))
  IN  /\ pc[p] = "create"
      /\ CanLock(s)
      /\ dirlookup(dirent[it[s].inum], name[p]) = None
      /\ IF unused = {}
           THEN /\ itable' = [it EXCEPT ![s] = iunlock(@)]
                /\ Done(p, <<s>>)
                /\ UNCHANGED dinode
           ELSE /\ dinode' = [dinode EXCEPT ![Lowest(unused)] =
                               [NoInode EXCEPT !.type = IF call[p].k = "mkdir" THEN "dir" ELSE "file"]]
                /\ itable' = g.it
                /\ ip' = [ip EXCEPT ![p] = g.s]
                /\ Go(p, "create2")
                /\ UNCHANGED <<call, path, dp, name, old>>
      /\ UNCHANGED <<dirent, bitmap, indirect, cwd, fd, calls, lost>>

\* The new inode has its first link; "." and ".."; and it gets the entry in dp. A
\* new inode whose entries cannot be made loses its link again.
Own(p, e) ==
  IF call[p].k # "mkdir" THEN Dir(<<>>, e.ino, Space)
  ELSE dirlink(dirlink(Dir(<<>>, e.ino, Space), ".", e.inum), "..", itable[dp[p]].inum)
In(p, own) ==
  dirlink([Dir(dirent[itable[dp[p]].inum], itable[dp[p]].ino, own.sp) EXCEPT !.ok = own.ok],
          name[p], itable[ip[p]].inum)
Result(p, own, in) ==
  [ok |-> in.ok, sp |-> in.sp,
   it |-> [itable EXCEPT
            ![ip[p]] = [Loaded(ip[p]) EXCEPT
                          !.ino = IF in.ok THEN own.ino ELSE [own.ino EXCEPT !.nlink = 0]],
            ![dp[p]] = relink([@ EXCEPT !.ino = in.ino],
                              IF in.ok /\ call[p].k = "mkdir" THEN 1 ELSE 0)],
   dirent |-> [dirent EXCEPT ![itable[ip[p]].inum] = own.d, ![itable[dp[p]].inum] = in.d]]
Both(p, own) == Result(p, own, In(p, own))
Made(p) == Both(p, Own(p, [Loaded(ip[p]) EXCEPT !.ino.nlink = 1]))

CreateMade(p) ==
  /\ pc[p] = "create2"
  /\ CanLock(ip[p])
  /\ \E m \in {Made(p)} :
       /\ m.ok
       /\ dirent' = m.dirent
       /\ bitmap' = m.sp.used
       /\ indirect' = m.sp.ind
       /\ iupdate(m.it, {ip[p], dp[p]})
       /\ itable' = [m.it EXCEPT ![dp[p]] = iunlock(@),
                                 ![ip[p]].lock = IF call[p].k = "mkdir" THEN None ELSE p]
  /\ IF call[p].k = "mkdir"
       THEN Done(p, <<dp[p], ip[p]>>)
       ELSE /\ dp' = [dp EXCEPT ![p] = None]
            /\ Put(p, <<dp[p]>>, "opened")
            /\ UNCHANGED <<call, path, ip, name, old>>
  /\ UNCHANGED <<cwd, fd, calls, lost>>

\* A dirlink() has failed: the new inode, which has no link again, is freed when
\* it is put.
CreateFails(p) ==
  /\ pc[p] = "create2"
  /\ CanLock(ip[p])
  /\ \E m \in {Made(p)} :
       /\ ~m.ok
       /\ dirent' = m.dirent
       /\ bitmap' = m.sp.used
       /\ indirect' = m.sp.ind
       /\ itable' = [m.it EXCEPT ![dp[p]] = iunlock(@)]
  /\ iupdate(itable', {ip[p], dp[p]})
  /\ Done(p, <<ip[p], dp[p]>>)
  /\ UNCHANGED <<cwd, fd, calls, lost>>

create(p) ==
  CreateLookup(p) \/ CreateExisting(p) \/ CreateAlloc(p) \/ CreateMade(p) \/ CreateFails(p)

-----------------------------------------------------------------------------
(* open(), write(), read(), close(), chdir()                               *)

\* namei() has returned.
OpenLock(p) ==
  LET s == ip[p]
      e == ilock(p, s)
  IN  /\ pc[p] = "open"
      /\ CanLock(s)
      /\ IF e.ino.type = "dir" /\ call[p].trunc
           THEN itable' = [itable EXCEPT ![s] = iunlock(e)] /\ Done(p, <<s>>)
           ELSE itable' = [itable EXCEPT ![s] = e] /\ Go(p, "opened") /\ UNCHANGED localVars
      /\ UNCHANGED <<diskVars, cwd, fd, calls, lost>>

\* There is no struct file left, or the file is open.
Opened(p) ==
  LET s == ip[p]
      r == itrunc(itable[s].ino, Space)
      cut == call[p].trunc /\ itable[s].ino.type = "file"
  IN  /\ pc[p] = "opened"
      /\ \/ /\ Done(p, <<s>>)
            /\ itable' = [itable EXCEPT ![s] = iunlock(@)]
            /\ UNCHANGED <<diskVars, fd>>
         \/ /\ Done(p, <<>>)
            /\ fd' = [fd EXCEPT ![p] = [ip |-> s, off |-> 0]]
            /\ itable' = [itable EXCEPT ![s] = iunlock(IF cut THEN [@ EXCEPT !.ino = r.ino] ELSE @)]
            /\ iupdate(itable', {s})
            /\ bitmap' = IF cut THEN r.sp.used ELSE bitmap
            /\ UNCHANGED <<dirent, indirect>>
      /\ UNCHANGED <<cwd, calls, lost>>

sys_open(p) == OpenLock(p) \/ Opened(p)

\* filewrite(): a block at the offset; a directory cannot be open for writing.
filewrite(p) ==
  LET s == fd[p].ip
      e == Loaded(s)
  IN  /\ pc[p] = "write"
      /\ CanLock(s)
      /\ e.ino.type = "file"
      /\ \E w \in {writei(e.ino, Space, fd[p].off)} :
           /\ itable' = [itable EXCEPT ![s] = [e EXCEPT !.ino = w.ino]]
           /\ bitmap' = w.sp.used
           /\ indirect' = w.sp.ind
           /\ fd' = [fd EXCEPT ![p].off = IF w.ok THEN @ + 1 ELSE @]
      /\ iupdate(itable', {s})
      /\ Done(p, <<>>)
      /\ UNCHANGED <<dirent, cwd, calls, lost>>

\* fileread(): readi() of the block at the offset, which is there up to the size.
fileread(p) ==
  LET s == fd[p].ip
      e == Loaded(s)
  IN  /\ pc[p] = "read"
      /\ CanLock(s)
      /\ itable' = [itable EXCEPT ![s] = e]
      /\ fd' = [fd EXCEPT ![p].off = IF @ < e.ino.size THEN @ + 1 ELSE @]
      /\ Done(p, <<>>)
      /\ UNCHANGED <<diskVars, cwd, calls, lost>>

sys_chdir(p) ==
  LET s == ip[p]
      e == Loaded(s)
  IN  /\ pc[p] = "chdir"
      /\ CanLock(s)
      /\ itable' = [itable EXCEPT ![s] = e]
      /\ IF e.ino.type # "dir"
           THEN Done(p, <<s>>) /\ UNCHANGED cwd
           ELSE Done(p, <<cwd[p]>>) /\ cwd' = [cwd EXCEPT ![p] = s]
      /\ UNCHANGED <<diskVars, fd, calls, lost>>

-----------------------------------------------------------------------------
(* unlink()                                                                 *)

\* dp is locked; the entry is looked up.
UnlinkLookup(p) ==
  LET s == dp[p]
      it == [itable EXCEPT ![s] = ilock(p, s)]
      i == dirlookup(dirent[it[s].inum], name[p])
      g == iget(it, i)
  IN  /\ pc[p] = "unlink"
      /\ CanLock(s)
      /\ IF name[p] \in {".", ".."} \/ i = None
           THEN itable' = [it EXCEPT ![s] = iunlock(@)] /\ Done(p, <<s>>)
           ELSE /\ itable' = g.it
                /\ ip' = [ip EXCEPT ![p] = g.s]
                /\ Go(p, "unlink2")
                /\ UNCHANGED <<call, path, dp, name, old>>
      /\ UNCHANGED <<diskVars, cwd, fd, calls, lost>>

\* Both are locked; the entry is cleared, and dp given back.
UnlinkEntry(p) ==
  LET s == ip[p]
      d == dp[p]
      e == ilock(p, s)
      k == Lowest(Found(dirent[itable[d].inum], name[p]))
      dir == e.ino.type = "dir"
  IN  /\ pc[p] = "unlink2"
      /\ CanLock(s)
      /\ e.ino.nlink >= 1
      /\ IF dir /\ ~isdirempty(dirent[e.inum])
           THEN /\ itable' = [itable EXCEPT ![s] = iunlock(e), ![d] = iunlock(@)]
                /\ Done(p, <<s, d>>)
                /\ UNCHANGED <<dirent, dinode>>
           ELSE /\ dirent' = [dirent EXCEPT ![itable[d].inum][k] = Entry(None, None)]
                /\ itable' = [itable EXCEPT ![s] = e,
                     ![d] = iunlock(relink(@, IF dir THEN -1 ELSE 0))]
                /\ iupdate(itable', {d})
                /\ dp' = [dp EXCEPT ![p] = None]
                /\ Put(p, <<d>>, "unlink3")
                /\ UNCHANGED <<call, path, ip, name, old>>
      /\ UNCHANGED <<bitmap, indirect, cwd, fd, calls, lost>>

\* Then the inode has one link less.
UnlinkInode(p) ==
  LET s == ip[p]
  IN  /\ pc[p] = "unlink3"
      /\ itable' = [itable EXCEPT ![s] = iunlock(relink(@, -1))]
      /\ iupdate(itable', {s})
      /\ Done(p, <<s>>)
      /\ UNCHANGED <<dirent, bitmap, indirect, cwd, fd, calls, lost>>

sys_unlink(p) == UnlinkLookup(p) \/ UnlinkEntry(p) \/ UnlinkInode(p)

-----------------------------------------------------------------------------
(* link()                                                                   *)

\* Mutant: only the entry counts it.
LinkCount_NotYet(p) ==
  LET s == ip[p]
      e == Loaded(s)
      r == Root(p, [itable EXCEPT ![s] = e], call[p].new)
  IN  /\ pc[p] = "link"
      /\ CanLock(s)
      /\ e.ino.type # "dir"
      /\ itable' = r.it
      /\ old' = [old EXCEPT ![p] = s]
      /\ ip' = [ip EXCEPT ![p] = r.s]
      /\ path' = [path EXCEPT ![p] = call[p].new.names]
      /\ Go(p, "walk")
      /\ UNCHANGED <<diskVars, call, dp, name, cwd, fd, calls, lost>>

\* The link is counted first; then the other path is walked.
LinkCount(p) ==
  LET s == ip[p]
      e == Loaded(s)
      it == [itable EXCEPT ![s] = relink(e, 1)]
      r == Root(p, it, call[p].new)
  IN  /\ pc[p] = "link"
      /\ CanLock(s)
      /\ IF e.ino.type = "dir"
           THEN itable' = [itable EXCEPT ![s] = e] /\ Done(p, <<s>>) /\ UNCHANGED dinode
           ELSE /\ iupdate(it, {s})
                /\ itable' = r.it
                /\ old' = [old EXCEPT ![p] = s]
                /\ ip' = [ip EXCEPT ![p] = r.s]
                /\ path' = [path EXCEPT ![p] = call[p].new.names]
                /\ Go(p, "walk")
                /\ UNCHANGED <<call, dp, name>>
      /\ UNCHANGED <<dirent, bitmap, indirect, cwd, fd, calls, lost>>

\* The entry is made, or not.
LinkEntry(p) ==
  LET s == dp[p]
      e == Loaded(s)
  IN  /\ pc[p] = "link2"
      /\ CanLock(s)
      /\ \E l \in {dirlink(Dir(dirent[e.inum], e.ino, Space), name[p], itable[old[p]].inum)} :
           /\ itable' = [itable EXCEPT ![s] = [e EXCEPT !.ino = l.ino]]
           /\ dirent' = [dirent EXCEPT ![e.inum] = l.d]
           /\ bitmap' = l.sp.used
           /\ indirect' = l.sp.ind
           /\ IF l.ok THEN Done(p, <<s, old[p]>>) ELSE Fails(p, <<s>>)
      /\ iupdate(itable', {s})
      /\ UNCHANGED <<cwd, fd, calls, lost>>

\* bad:
LinkBad(p) ==
  LET s == old[p]
      e == Loaded(s)
  IN  /\ pc[p] = "linkbad"
      /\ CanLock(s)
      /\ itable' = [itable EXCEPT ![s] = relink(e, -1)]
      /\ iupdate(itable', {s})
      /\ Done(p, <<s>>)
      /\ UNCHANGED <<dirent, bitmap, indirect, cwd, fd, calls, lost>>

sys_link(p) == LinkCount(p) \/ LinkEntry(p) \/ LinkBad(p)

-----------------------------------------------------------------------------
\* A process makes a call.
Begin(p, c) ==
  /\ pc[p] = "user"
  /\ calls > 0
  /\ calls' = calls - 1
  /\ CASE c.k = "close" ->
             /\ fd[p] # None
             /\ fd' = [fd EXCEPT ![p] = None]
             /\ Done(p, <<fd[p].ip>>)
             /\ UNCHANGED itable
       [] c.k \in {"read", "write"} ->
             /\ fd[p] # None
             /\ call' = [call EXCEPT ![p] = c]
             /\ Go(p, c.k)
             /\ UNCHANGED <<path, ip, dp, name, old, itable, fd>>
       [] OTHER ->
             /\ c.k \in {"open", "create"} => fd[p] = None
             /\ call' = [call EXCEPT ![p] = c]
             /\ LET r == Root(p, itable, c.path)
                IN  itable' = r.it /\ ip' = [ip EXCEPT ![p] = r.s]
             /\ path' = [path EXCEPT ![p] = c.path.names]
             /\ Go(p, "walk")
             /\ UNCHANGED <<dp, name, old, fd>>
  /\ UNCHANGED <<diskVars, cwd, lost>>

Step(p) ==
  \/ namex(p) \/ create(p) \/ sys_open(p) \/ filewrite(p) \/ fileread(p) \/ sys_chdir(p)
  \/ sys_unlink(p) \/ sys_link(p) \/ iput(p)

\* All calls have been made and have returned.
Quiet == \A p \in Procs : pc[p] = "user"

Finished == Quiet /\ calls = 0 /\ UNCHANGED vars

Next == (\E p \in Procs : Step(p) \/ \E c \in Calls : Begin(p, c)) \/ Finished

Spec == Init /\ [][Next]_vars

-----------------------------------------------------------------------------
Labels == {"user", "walk", "open", "opened", "existing", "create", "create2", "unlink", "unlink2",
           "unlink3", "link", "link2", "linkbad", "chdir", "write", "read", "put", "free", "unref"}

TypeOK ==
  /\ dinode \in [Inum -> Dinode]
  /\ dirent \in [Inum -> Seq(DirEntry)]
  /\ bitmap \subseteq Block
  /\ indirect \in [Block -> [1 .. NINDIRECT -> Block \cup {None}]]
  /\ itable \in [Slot -> TableEntry]
  /\ cwd \in [Procs -> Slot]
  /\ fd \in [Procs -> OpenFile \cup {None}]
  /\ call \in [Procs -> Calls \cup {None}]
  /\ pc \in [Procs -> Labels]
  /\ path \in [Procs -> Seq(STRING)]
  /\ ip \in [Procs -> Slot \cup {None}]
  /\ dp \in [Procs -> Slot \cup {None}]
  /\ name \in [Procs -> STRING \cup {None}]
  /\ old \in [Procs -> Slot \cup {None}]
  /\ puts \in [Procs -> Seq(Slot)]
  /\ after \in [Procs -> Labels]
  /\ calls \in 0 .. MaxCalls
  /\ lost \subseteq Inum

\* The pointers that a process has to entry s.
Pointers(p, s) ==
  One(cwd[p] = s) + One(ip[p] = s) + One(dp[p] = s) + One(old[p] = s)
    + One(fd[p] # None /\ fd[p].ip = s)
    + One(Len(puts[p]) >= 1 /\ puts[p][1] = s) + One(Len(puts[p]) >= 2 /\ puts[p][2] = s)

\* The inode that a process is about to lock.
Locks(p) ==
  CASE pc[p] \in {"walk", "open", "existing", "create2", "unlink2", "chdir", "link"} -> ip[p]
    [] pc[p] \in {"create", "unlink", "link2"} -> dp[p]
    [] pc[p] = "linkbad" -> old[p]
    [] pc[p] \in {"write", "read"} -> fd[p].ip
    [] OTHER -> None

\* Nobody is about to meet "ilock: no type" or "unlink: nlink < 1": the inode that
\* a process has found under one lock is still one when it takes the other.
NoPanic ==
  \A p \in Procs :
    LET s == Locks(p)
    IN  s # None /\ itable[s].lock = None /\ (pc[p] = "walk" => path[p] # <<>>) =>
          Loaded(s).ino.type # "none" /\ (pc[p] = "unlink2" => Loaded(s).ino.nlink >= 1)

\* An entry of the table is counted as often as it is pointed to, an inode has one
\* entry at most, and the copy in a valid entry is what is on the disk. So the
\* lock that iput() takes for the last reference is free, as the code relies on.
TableRight ==
  /\ TypeOK
  /\ \A s \in Slot : itable[s].ref = Total([p \in Procs |-> Pointers(p, s)])
  /\ OneEntry(itable)
  /\ CopiesRight(itable, dinode)
  /\ \A p \in Procs : pc[p] = "put" =>
       LET e == itable[Head(puts[p])]
       IN  e.ref = 1 /\ e.valid /\ e.ino.nlink = 0 => e.lock = None

\* Whatever is written, truncated and freed, and wherever the disk is full: a block
\* is in use by one inode, and only then marked so.
BlocksOwned == OneOwner(dinode, Space)

\* A name never leads to an inode that is free, nor has an inode more links than it
\* counts, whoever creates, links and unlinks at the same time. So what has been
\* looked up is not freed before it is locked.
NamesCounted ==
  /\ NoPanic
  /\ \A i \in Inum :
       /\ Cardinality(Links(dinode, dirent, i)) <= dinode[i].nlink
       /\ dinode[i].type = "none" => Links(dinode, dirent, i) = {}

\* An inode whose last name is gone is freed with its last reference: none stays
\* behind without a name and without a user, but for the ones that are lost.
FreedWhenGone ==
  \A i \in Inum :
    dinode[i].type # "none" /\ dinode[i].nlink = 0 =>
      i \in lost \/ \E s \in Slot : itable[s].ref > 0 /\ itable[s].inum = i
=============================================================================
