-------------------------------- MODULE Files --------------------------------
(***************************************************************************)
(* Open files (kernel/file.c, the descriptors of kernel/sysfile.c) and     *)
(* pipes (kernel/pipe.c), with the parts of fork(), exit(), wait() and     *)
(* kill() of kernel/proc.c that touch them. A step is a section under one  *)
(* lock: ftable.lock, the lock of a pipe, wait_lock.                       *)
(*                                                                         *)
(* todo[p] is what process p has still to do: first what is left of the    *)
(* system call it is in, then the calls its program goes on with. The      *)
(* program that extends this module says what those are.                   *)
(*                                                                         *)
(* filedup() only touches files the caller has a reference to, so that no  *)
(* other process can tell whether fork() copies the table in one step.     *)
(***************************************************************************)
EXTENDS Integers, SequencesExt

CONSTANTS
  NPROC, NFILE,
  Pages,          \* the pages that kalloc() may give to pipes
  PIPESIZE,
  W,              \* the unsigned counters of a pipe count modulo W
  Byte,
  MaxFaults,      \* kills, and allocations that fail although there is room
  None            \* no file, no page, not asleep, a call that failed

Procs == 1 .. NPROC
File == 1 .. NFILE
initproc == 1

ASSUME FilesAssumption ==
  /\ {NPROC, NFILE, PIPESIZE, W, MaxFaults} \subseteq Nat
  /\ PIPESIZE > 0 /\ W % PIPESIZE = 0 /\ W > PIPESIZE
  /\ None \notin Pages \cup Procs \cup File

VARIABLES
  NOFILE,                              \* the number of descriptors of a process
  state, parent, killed, ofile,        \* of struct proc
  asleep,                              \* the channel it sleeps on, or None
  todo, ret,                           \* what is next, and what the last call returned
  file,                                \* ftable.file
  pipe,                                \* the pages that are a struct pipe
  cut,                                 \* pipes with bytes that no wakeup() announced
  out,                                 \* what was written to devices and inodes
  faults                               \* how many more there will be

procVars == <<state, parent, killed>>
filesVars == <<NOFILE, procVars, ofile, asleep, todo, ret, file, pipe, cut, out, faults>>

NoPipe == [inuse |-> FALSE, data |-> <<>>, nread |-> 0, nwrite |-> 0,
           readopen |-> FALSE, writeopen |-> FALSE]

Fd == 0 .. NOFILE - 1

-----------------------------------------------------------------------------
At(p, o) == state[p] = "alive" /\ asleep[p] = None /\ todo[p] # <<>> /\ Head(todo[p]).op = o

\* usertrap() looks at killed before it lets a call begin.
Call(p, o) == At(p, o) /\ ~killed[p]

Go(p, ops) == todo' = [todo EXCEPT ![p] = ops \o Tail(@)]
Return(p, v) == ret' = [ret EXCEPT ![p] = v]
Woken(chans) == [q \in Procs |-> IF asleep[q] \in chans THEN None ELSE asleep[q]]

Exit == [op |-> "exit"]
Wait == [op |-> "wait"]
Close(fd) == [op |-> "close", fd |-> fd]
Dup(fd) == [op |-> "dup", fd |-> fd]
Read(fd) == [op |-> "read", fd |-> fd]
Write(fd, s) == [op |-> "write", fd |-> fd, rest |-> s]
Pipe == [op |-> "pipe"]
FClose(f) == [op |-> "fileclose", f |-> f]

Lowest(S) == CHOOSE x \in S : \A y \in S : x <= y
Free == {f \in File : file[f].ref = 0}
Unopened(p) == {fd \in Fd : ofile[p][fd] = None}

-----------------------------------------------------------------------------
(* fileclose() and pipeclose()                                              *)

\* Mutant: the type is looked at when it has already been cleared.
fileclose_Forgets(p, f, next) ==
  /\ file' = [file EXCEPT ![f].ref = @ - 1,
                          ![f].type = IF file[f].ref = 1 THEN "none" ELSE @]
  /\ Go(p, next)

\* One reference less; with the last one, pipeclose() comes before what is next.
fileclose(p, f, next) ==
  LET last == file[f].ref = 1
  IN  /\ file' = [file EXCEPT ![f].ref = @ - 1, ![f].type = IF last THEN "none" ELSE @]
      /\ Go(p, (IF last /\ file[f].type = "pipe"
                  THEN <<[op |-> "pipeclose", pi |-> file[f].pi, writable |-> file[f].writable]>>
                  ELSE <<>>) \o next)

pipeclose(p) ==
  /\ At(p, "pipeclose")
  /\ LET pi == Head(todo[p]).pi
         w  == Head(todo[p]).writable
         r  == [pipe[pi] EXCEPT !.writeopen = @ /\ ~w, !.readopen = @ /\ w]
     IN  /\ asleep' = Woken({<<IF w THEN "nread" ELSE "nwrite", pi>>})
         /\ IF r.readopen \/ r.writeopen
              THEN pipe' = [pipe EXCEPT ![pi] = r] /\ UNCHANGED cut
              ELSE pipe' = [pipe EXCEPT ![pi] = NoPipe] /\ cut' = cut \ {pi}
  /\ Go(p, <<>>)
  /\ UNCHANGED <<NOFILE, procVars, ofile, ret, file, out, faults>>

sys_close(p) ==
  /\ Call(p, "close")
  /\ LET fd == Head(todo[p]).fd
     IN  IF ofile[p][fd] = None
           THEN Go(p, <<>>) /\ UNCHANGED <<ofile, file>>
           ELSE ofile' = [ofile EXCEPT ![p][fd] = None] /\ fileclose(p, ofile[p][fd], <<>>)
  /\ UNCHANGED <<NOFILE, procVars, asleep, ret, pipe, cut, out, faults>>

\* The clean-up of pipealloc() and of sys_pipe().
UndoFile(p) ==
  /\ At(p, "fileclose")
  /\ fileclose(p, Head(todo[p]).f, <<>>)
  /\ UNCHANGED <<NOFILE, procVars, ofile, asleep, ret, pipe, cut, out, faults>>

-----------------------------------------------------------------------------
(* dup() and pipe()                                                         *)

sys_dup(p) ==
  /\ Call(p, "dup")
  /\ LET fd == Head(todo[p]).fd
     IN  IF ofile[p][fd] = None \/ Unopened(p) = {}
           THEN UNCHANGED <<ofile, file>>
           ELSE /\ ofile' = [ofile EXCEPT ![p][Lowest(Unopened(p))] = ofile[p][fd]]
                /\ file' = [file EXCEPT ![ofile[p][fd]].ref = @ + 1]
  /\ Go(p, <<>>)
  /\ UNCHANGED <<NOFILE, procVars, asleep, ret, pipe, cut, out, faults>>

\* pipealloc(): the first filealloc().
PipeFile(p) ==
  /\ Call(p, "pipe")
  /\ IF Free = {}
       THEN Return(p, None) /\ Go(p, <<>>) /\ UNCHANGED file
       ELSE /\ file' = [file EXCEPT ![Lowest(Free)].ref = 1]
            /\ Go(p, <<[op |-> "pipe2", f |-> Lowest(Free)]>>)
            /\ UNCHANGED ret
  /\ UNCHANGED <<NOFILE, procVars, ofile, asleep, pipe, cut, out, faults>>

\* The second one fails, and the first file is given back.
PipeNoFile(p) ==
  /\ At(p, "pipe2")
  /\ Free = {}
  /\ Go(p, <<FClose(Head(todo[p]).f)>>)
  /\ Return(p, None)
  /\ UNCHANGED <<NOFILE, procVars, ofile, asleep, file, pipe, cut, out, faults>>

\* There is no page, and both are given back.
PipeNoPage(p) ==
  /\ At(p, "pipe2")
  /\ Free # {}
  /\ (\A pi \in Pages : pipe[pi].inuse) \/ faults > 0
  /\ faults' = IF \A pi \in Pages : pipe[pi].inuse THEN faults ELSE faults - 1
  /\ file' = [file EXCEPT ![Lowest(Free)].ref = 1]
  /\ Go(p, <<FClose(Head(todo[p]).f), FClose(Lowest(Free))>>)
  /\ Return(p, None)
  /\ UNCHANGED <<NOFILE, procVars, ofile, asleep, pipe, cut, out>>

\* The pipe is made; fdalloc() may find one descriptor, or none.
PipeDone(p) ==
  /\ At(p, "pipe2")
  /\ LET f0 == Head(todo[p]).f
         f1 == Lowest(Free)
     IN  /\ Free # {}
         /\ \E pi \in Pages :
              /\ ~pipe[pi].inuse
              /\ pipe' = [pipe EXCEPT ![pi] =
                           [inuse |-> TRUE, data |-> <<>>, nread |-> 0, nwrite |-> 0,
                            readopen |-> TRUE, writeopen |-> TRUE]]
              /\ file' = [file EXCEPT
                           ![f0] = [@ EXCEPT !.type = "pipe", !.readable = TRUE, !.writable = FALSE, !.pi = pi],
                           ![f1] = [ref |-> 1, type |-> "pipe", readable |-> FALSE, writable |-> TRUE, pi |-> pi]]
         /\ IF \E a, b \in Unopened(p) : a # b
              THEN LET r == Lowest(Unopened(p))
                       w == Lowest(Unopened(p) \ {r})
                   IN  /\ ofile' = [ofile EXCEPT ![p][r] = f0, ![p][w] = f1]
                       /\ Return(p, <<r, w>>)
                       /\ Go(p, <<>>)
              ELSE Return(p, None) /\ Go(p, <<FClose(f0), FClose(f1)>>) /\ UNCHANGED ofile
  /\ UNCHANGED <<NOFILE, procVars, asleep, cut, out, faults>>

sys_pipe(p) == PipeFile(p) \/ PipeNoFile(p) \/ PipeNoPage(p) \/ PipeDone(p)

-----------------------------------------------------------------------------
(* pipewrite() and piperead(). What is between two sleeps is one section    *)
(* under the lock of the pipe.                                              *)

Count(r) == (r.nwrite - r.nread) % W

\* s is put behind what is in the ring.
Fill(r, s) ==
  [r EXCEPT !.nwrite = (@ + Len(s)) % W,
            !.data = [i \in 0 .. PIPESIZE - 1 |->
                        IF \E j \in 1 .. Len(s) : (r.nwrite + j - 1) % PIPESIZE = i
                          THEN s[CHOOSE j \in 1 .. Len(s) : (r.nwrite + j - 1) % PIPESIZE = i]
                          ELSE IF r.data = <<>> THEN None ELSE r.data[i]]]

\* The file that the call at the head of todo[p] is about.
Of(p) == ofile[p][Head(todo[p]).fd]
OnPipe(p) == Of(p) # None /\ file[Of(p)].type = "pipe"

\* A call that was let in, or one that goes on after a sleep.
Writing(p) == /\ Call(p, "write") \/ At(p, "pipewrite")
              /\ OnPipe(p) /\ file[Of(p)].writable
Reading(p) == /\ Call(p, "read") \/ At(p, "piperead")
              /\ OnPipe(p) /\ file[Of(p)].readable

\* No reader, or killed.
WriteBroken(p) ==
  /\ Writing(p)
  /\ ~pipe[file[Of(p)].pi].readopen \/ killed[p]
  /\ Go(p, <<>>)
  /\ Return(p, None)
  /\ UNCHANGED <<NOFILE, procVars, ofile, asleep, file, pipe, cut, out, faults>>

\* Mutant: the ring is taken to be full one byte too late.
WriteSome_OneMore(p) ==
  /\ Writing(p)
  /\ LET o  == Head(todo[p])
         pi == file[Of(p)].pi
         n  == IF Len(o.rest) <= PIPESIZE + 1 - Count(pipe[pi]) THEN Len(o.rest)
                                                                ELSE PIPESIZE + 1 - Count(pipe[pi])
         woken == Woken({<<"nread", pi>>})
     IN  /\ pipe[pi].readopen /\ ~killed[p]
         /\ pipe' = [pipe EXCEPT ![pi] = Fill(@, SubSeq(o.rest, 1, n))]
         /\ cut' = cut \ {pi}
         /\ IF n = Len(o.rest)
              THEN Go(p, <<>>) /\ Return(p, <<>>) /\ asleep' = woken
              ELSE /\ Go(p, <<[o EXCEPT !.op = "pipewrite", !.rest = SubSeq(@, n + 1, Len(@))]>>)
                   /\ asleep' = [woken EXCEPT ![p] = <<"nwrite", pi>>]
                   /\ UNCHANGED ret
  /\ UNCHANGED <<NOFILE, procVars, ofile, file, out, faults>>

\* As much as there is room for; the rest when a reader has made room.
WriteSome(p) ==
  /\ Writing(p)
  /\ LET o  == Head(todo[p])
         pi == file[Of(p)].pi
         n  == IF Len(o.rest) <= PIPESIZE - Count(pipe[pi]) THEN Len(o.rest)
                                                            ELSE PIPESIZE - Count(pipe[pi])
         woken == Woken({<<"nread", pi>>})
     IN  /\ pipe[pi].readopen /\ ~killed[p]
         /\ pipe' = [pipe EXCEPT ![pi] = Fill(@, SubSeq(o.rest, 1, n))]
         /\ cut' = cut \ {pi}
         /\ IF n = Len(o.rest)
              THEN Go(p, <<>>) /\ Return(p, <<>>) /\ asleep' = woken
              ELSE /\ Go(p, <<[o EXCEPT !.op = "pipewrite", !.rest = SubSeq(@, n + 1, Len(@))]>>)
                   /\ asleep' = [woken EXCEPT ![p] = <<"nwrite", pi>>]
                   /\ UNCHANGED ret
  /\ UNCHANGED <<NOFILE, procVars, ofile, file, out, faults>>

\* killed() is looked at before every byte: a kill() in the middle makes the call
\* return, and no reader is told of the bytes that are already there.
WriteCut(p) ==
  /\ Writing(p)
  /\ faults > 0
  /\ LET o  == Head(todo[p])
         pi == file[Of(p)].pi
     IN  /\ pipe[pi].readopen /\ ~killed[p]
         /\ \E n \in 1 .. PIPESIZE - Count(pipe[pi]) :
              /\ n < Len(o.rest)
              /\ pipe' = [pipe EXCEPT ![pi] = Fill(@, SubSeq(o.rest, 1, n))]
         /\ cut' = cut \cup {pi}
  /\ killed' = [killed EXCEPT ![p] = TRUE]
  /\ faults' = faults - 1
  /\ Go(p, <<>>)
  /\ Return(p, None)
  /\ UNCHANGED <<NOFILE, state, parent, ofile, asleep, file, out>>

pipewrite(p) == WriteBroken(p) \/ WriteSome(p) \/ WriteCut(p)

ReadSleep(p) ==
  /\ Reading(p)
  /\ LET pi == file[Of(p)].pi
     IN  /\ Count(pipe[pi]) = 0
         /\ pipe[pi].writeopen
         /\ ~killed[p]
         /\ asleep' = [asleep EXCEPT ![p] = <<"nread", pi>>]
  /\ Go(p, <<[Head(todo[p]) EXCEPT !.op = "piperead"]>>)
  /\ UNCHANGED <<NOFILE, procVars, ofile, ret, file, pipe, cut, out, faults>>

ReadKilled(p) ==
  /\ Reading(p)
  /\ LET r == pipe[file[Of(p)].pi] IN Count(r) = 0 /\ r.writeopen
  /\ killed[p]
  /\ Go(p, <<>>)
  /\ Return(p, None)
  /\ UNCHANGED <<NOFILE, procVars, ofile, asleep, file, pipe, cut, out, faults>>

\* All there is (the callers' buffers hold a pipe), or nothing for want of writers.
ReadAll(p) ==
  /\ Reading(p)
  /\ LET pi == file[Of(p)].pi
         r  == pipe[pi]
     IN  /\ Count(r) > 0 \/ ~r.writeopen
         /\ Return(p, [i \in 1 .. Count(r) |-> r.data[(r.nread + i - 1) % PIPESIZE]])
         /\ pipe' = [pipe EXCEPT ![pi].nread = r.nwrite]
         /\ cut' = cut \ {pi}
         /\ asleep' = Woken({<<"nwrite", pi>>})
  /\ Go(p, <<>>)
  /\ UNCHANGED <<NOFILE, procVars, ofile, file, out, faults>>

piperead(p) == ReadSleep(p) \/ ReadKilled(p) \/ ReadAll(p)

\* write() where fileread() and filewrite() do not come to a pipe: a device takes
\* one byte after the other, an inode all under its lock; else the call fails.
WriteOther(p) ==
  /\ Call(p, "write") \/ At(p, "devwrite")
  /\ LET o == Head(todo[p])
     IN  IF Of(p) = None \/ ~file[Of(p)].writable
           THEN Go(p, <<>>) /\ Return(p, None) /\ UNCHANGED out
           ELSE /\ ~OnPipe(p)
                /\ IF file[Of(p)].type = "inode" \/ Len(o.rest) = 1
                     THEN out' = out \o o.rest /\ Go(p, <<>>) /\ Return(p, <<>>)
                     ELSE /\ out' = Append(out, Head(o.rest))
                          /\ Go(p, <<[o EXCEPT !.op = "devwrite", !.rest = Tail(@)]>>)
                          /\ UNCHANGED ret
  /\ UNCHANGED <<NOFILE, procVars, ofile, asleep, file, pipe, cut, faults>>

\* read() of a descriptor that cannot be read fails; an inode that is read here is
\* an empty file.
ReadOther(p) ==
  /\ Call(p, "read")
  /\ IF Of(p) = None \/ ~file[Of(p)].readable
       THEN Return(p, None)
       ELSE file[Of(p)].type = "inode" /\ Return(p, <<>>)
  /\ Go(p, <<>>)
  /\ UNCHANGED <<NOFILE, procVars, ofile, asleep, file, pipe, cut, out, faults>>

filewrite(p) == pipewrite(p) \/ WriteOther(p)
fileread(p) == piperead(p) \/ ReadOther(p)

-----------------------------------------------------------------------------
(* Processes                                                                *)

\* fork(), with what the child will do and what its parent does next. The child
\* has a reference to each file for each descriptor.
fork(p, child, next) ==
  /\ \E q \in Procs :
       /\ state[q] = "unused"
       /\ \A r \in Procs : state[r] = "unused" => q <= r
       /\ state' = [state EXCEPT ![q] = "alive"]
       /\ parent' = [parent EXCEPT ![q] = p]
       /\ killed' = [killed EXCEPT ![q] = FALSE]
       /\ ofile' = [ofile EXCEPT ![q] = ofile[p]]
       /\ todo' = [todo EXCEPT ![p] = next \o Tail(@), ![q] = child]
  /\ file' = [f \in File |-> [file[f] EXCEPT
                !.ref = @ + Cardinality({fd \in Fd : ofile[p][fd] = f})]]
  /\ UNCHANGED <<NOFILE, asleep, ret, pipe, cut, out, faults>>

\* fork() finds no entry, or no memory.
ForkFails(p) ==
  /\ (\A q \in Procs : state[q] # "unused") \/ faults > 0
  /\ faults' = IF \A q \in Procs : state[q] # "unused" THEN faults ELSE faults - 1
  /\ UNCHANGED <<NOFILE, procVars, ofile, asleep, ret, file, pipe, cut, out>>

\* exit() closes one descriptor after the other.
ExitClose(p) ==
  /\ At(p, "exit")
  /\ LET open == Fd \ Unopened(p)
         fd == Lowest(open)
     IN  /\ open # {}
         /\ ofile' = [ofile EXCEPT ![p][fd] = None]
         /\ fileclose(p, ofile[p][fd], <<Exit>>)
  /\ UNCHANGED <<NOFILE, procVars, asleep, ret, pipe, cut, out, faults>>

\* Then its children go to init, and its parent is told.
ExitZombie(p) ==
  /\ At(p, "exit")
  /\ Unopened(p) = Fd
  /\ parent' = [q \in Procs |-> IF parent[q] = p THEN initproc ELSE parent[q]]
  /\ asleep' = Woken({<<"wait", parent[p]>>} \cup
                     (IF \E q \in Procs : parent[q] = p THEN {<<"wait", initproc>>} ELSE {}))
  /\ state' = [state EXCEPT ![p] = "zombie"]
  /\ todo' = [todo EXCEPT ![p] = <<>>]
  /\ ret' = [ret EXCEPT ![p] = <<>>]
  /\ UNCHANGED <<NOFILE, killed, ofile, file, pipe, cut, out, faults>>

exit(p) == ExitClose(p) \/ ExitZombie(p)

Children(p) == {q \in Procs : parent[q] = p}
Zombies(p) == {q \in Children(p) : state[q] = "zombie"}

\* init waits for ever; another process is told when it has no children.
WaitReap(p) ==
  /\ Call(p, "wait") \/ At(p, "waiting")
  /\ Zombies(p) # {}
  /\ LET q == Lowest(Zombies(p))
     IN  /\ state' = [state EXCEPT ![q] = "unused"]
         /\ parent' = [parent EXCEPT ![q] = None]
         /\ killed' = [killed EXCEPT ![q] = FALSE]
  /\ Go(p, IF p = initproc THEN <<Wait>> ELSE <<>>)
  /\ UNCHANGED <<NOFILE, ofile, asleep, ret, file, pipe, cut, out, faults>>

WaitSleep(p) ==
  /\ Call(p, "wait") \/ At(p, "waiting")
  /\ Zombies(p) = {}
  /\ IF p # initproc /\ (Children(p) = {} \/ killed[p])
       THEN Go(p, <<>>) /\ UNCHANGED asleep
       ELSE /\ asleep' = [asleep EXCEPT ![p] = <<"wait", p>>]
            /\ Go(p, <<[op |-> "waiting"]>>)
  /\ UNCHANGED <<NOFILE, procVars, ofile, ret, file, pipe, cut, out, faults>>

wait(p) == WaitReap(p) \/ WaitSleep(p)

\* kill(), of any process but init, whatever it is doing. It takes p->lock only: who
\* sleeps is woken, unless it has called killed() before the kill() and sleep()
\* after it (pipe.c:84 and 114, proc.c:437). Then it sleeps on, which is the same
\* as if it slept before the kill() and were not told.
kill(p) ==
  /\ p # initproc
  /\ state[p] = "alive"
  /\ ~killed[p]
  /\ faults > 0
  /\ faults' = faults - 1
  /\ killed' = [killed EXCEPT ![p] = TRUE]
  /\ \/ asleep' = [asleep EXCEPT ![p] = None]
     \/ asleep[p] # None /\ UNCHANGED asleep
  /\ UNCHANGED <<NOFILE, state, parent, ofile, todo, ret, file, pipe, cut, out>>

\* usertrap(): a killed process exits instead of making its next call.
InKernel == {"pipeclose", "fileclose", "pipe2", "pipewrite", "piperead", "devwrite", "waiting", "exit"}

KilledExits(p) ==
  /\ state[p] = "alive" /\ killed[p] /\ asleep[p] = None
  /\ Head(todo[p]).op \notin InKernel
  /\ todo' = [todo EXCEPT ![p] = <<Exit>>]
  /\ UNCHANGED <<NOFILE, procVars, ofile, asleep, ret, file, pipe, cut, out, faults>>

SysCall(p) ==
  \/ sys_close(p) \/ sys_dup(p) \/ sys_pipe(p) \/ pipeclose(p) \/ UndoFile(p)
  \/ filewrite(p) \/ fileread(p) \/ exit(p) \/ wait(p) \/ KilledExits(p)

-----------------------------------------------------------------------------
Chans == ({"nread", "nwrite"} \X Pages) \cup ({"wait"} \X Procs)

FilesTypeOK ==
  /\ state \in [Procs -> {"unused", "alive", "zombie"}]
  /\ parent \in [Procs -> Procs \cup {None}]
  /\ killed \in [Procs -> BOOLEAN]
  /\ ofile \in [Procs -> [Fd -> File \cup {None}]]
  /\ asleep \in [Procs -> Chans \cup {None}]
  /\ file \in [File -> [ref : Nat, type : {"none", "pipe", "dev", "inode"},
                        readable : BOOLEAN, writable : BOOLEAN, pi : Pages \cup {None}]]
  /\ \A pi \in Pages :
       /\ {pipe[pi].nread, pipe[pi].nwrite} \subseteq 0 .. W - 1
       /\ Count(pipe[pi]) <= PIPESIZE
       /\ {pipe[pi].readopen, pipe[pi].writeopen, pipe[pi].inuse} \subseteq BOOLEAN
  /\ cut \subseteq Pages
  /\ out \in Seq(Byte)
  /\ faults \in 0 .. MaxFaults
=============================================================================
