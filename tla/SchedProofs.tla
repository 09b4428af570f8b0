------------------------------ MODULE SchedProofs ------------------------------
(***************************************************************************)
(* Theorems about the scheduler (Sched), for any number of CPUs and        *)
(* processes and both kernels: no check of the spinlocks or of sched()     *)
(* panics and a kernel stack is used by one CPU, p->state is changed by    *)
(* the CPU that has p->lock, sleep() loses no wakeup, and the spinlocks do *)
(* not deadlock in the kernel of lab02, nor in that of lab3 on one CPU.    *)
(***************************************************************************)
EXTENDS Sched, TLAPS

\* Where a process is switched to and from, and where an interrupt finds it.
Parked == {"forkret", "sl_ret", "y_ret"}
Calm == {"user", "ss_lock", "sl_relock"}

Runs(c) == spc[c] = "swtched"

\* An interrupt may come here: the CPU has no lock and has not begun to get one.
Base(c) ==
  \/ spc[c] \in {"loop", "plock"}
  \/ Runs(c) /\ pc[on[c]] \in Calm

\* The locks that the scheduler thread, the process and the handler of a CPU have.
SchedHas(c, L) ==
  \/ spc[c] \in {"pick", "back", "tlock", "trel", "prel"} /\ L = scan[c]
  \/ spc[c] = "trel" /\ L = Tickslock
ProcHas(c, L) ==
  \/ Runs(c) /\ pc[on[c]] \in Parked \cup {"ss_krel", "sl_rel", "sl_sched", "y_sched"} /\ L = on[c]
  \/ /\ Runs(c) /\ L = Tickslock
     /\ pc[on[c]] \in {"ss_test", "ss_killed", "ss_krel", "sl_lock", "sl_rel"}
IntrHas(c, L) ==
  \/ ipc[c] \in {"tick", "wake", "wtest"} /\ L = Tickslock
  \/ ipc[c] = "wtest" /\ L = iw[c]

Owns(c) == \A L \in Locks : owner[L] = c <=> (SchedHas(c, L) \/ ProcHas(c, L) \/ IntrHas(c, L))

\* How many they are.
Depth(c) ==
  IF Interrupted(c)
    THEN IF ipc[c] = "wtest" THEN 2 ELSE IF ipc[c] \in {"tick", "wake"} THEN 1 ELSE 0
  ELSE IF Runs(c)
    THEN IF pc[on[c]] \in {"ss_krel", "sl_rel"} THEN 2
         ELSE IF pc[on[c]] \in Calm \cup {"y_lock"} THEN 0 ELSE 1
  ELSE IF spc[c] = "trel" THEN 2 ELSE IF spc[c] \in {"off", "loop", "plock"} THEN 0 ELSE 1

\* The next one that a CPU acquires.
Wants(c, L) ==
  \/ AtSched(c, "plock") /\ L = scan[c]
  \/ AtSched(c, "tlock") /\ L = Tickslock
  \/ ~Interrupted(c) /\ Runs(c) /\ pc[on[c]] \in {"ss_lock", "sl_relock"} /\ L = Tickslock
  \/ ~Interrupted(c) /\ Runs(c) /\ pc[on[c]] \in {"ss_killed", "sl_lock", "y_lock"} /\ L = on[c]
  \/ AtIntr(c, "clock") /\ L = Tickslock
  \/ AtIntr(c, "wake") /\ iw[c] <= machine.procs /\ iw[c] # on[c] /\ L = iw[c]

\* c->noff counts the locks, and the one that the CPU spins on.
Nests(c) ==
  /\ wait[c] = NoLock => noff[c] = Depth(c)
  /\ wait[c] # NoLock => noff[c] = Depth(c) + 1 /\ Wants(c, wait[c])

\* Interrupts are on only between sections, and stay off in a handler: what it
\* releases does not turn them on.
Quiet(c) ==
  /\ intr[c] => noff[c] = 0 /\ ~Interrupted(c) /\ Base(c)
  /\ Interrupted(c) => Base(c) /\ (noff[c] > 0 => ~intena[c])

\* The scheduler thread of a CPU and the process that it has switched to.
Turn(c) ==
  /\ scan[c] <= machine.procs
  /\ ipc[c] = "wtest" => iw[c] <= machine.procs
  /\ spc[c] = "off" <=> c >= machine.cpus
  /\ spc[c] \in {"tlock", "trel"} => machine.kernel = "lab3"
  /\ on[c] = IF spc[c] \in {"swtched", "back"} THEN scan[c] ELSE NoProc
  /\ Runs(c) => state[on[c]] = "RUNNING"
  /\ spc[c] = "back" => state[on[c]] # "RUNNING"

Cpu(c) == Owns(c) /\ Nests(c) /\ Quiet(c) /\ Turn(c)

\* A process runs on one CPU, or waits in sched() or forkret() to be switched to.
Threads ==
  /\ \A c, d \in CPUs : on[c] # NoProc /\ on[c] = on[d] => c = d
  /\ \A p \in Procs : state[p] = "RUNNING" => \E c \in CPUs : Runs(c) /\ on[c] = p
  /\ \A p \in Procs : state[p] # "RUNNING" => pc[p] \in Parked
  /\ \A p \in Procs : back[p] \in Calm

SchedInv ==
  /\ TypeOK
  /\ \A c \in CPUs : Cpu(c)
  /\ Threads

-----------------------------------------------------------------------------
(* What the other CPUs do leaves a CPU as it is.                            *)

LEMMA Numbers ==
  /\ \A c \in CPUs : c \in Nat /\ c # NoCpu
  /\ \A p \in Procs : p \in Nat /\ p \in Locks /\ p # NoProc /\ p # Tickslock /\ p # NoLock
  /\ Tickslock \in Locks /\ Tickslock # NoLock
  /\ \A L \in Locks : L # NoLock
  /\ TypeOK => machine.procs \in Procs /\ machine.cpus \in Nat
BY SchedAssumption DEF CPUs, NoCpu, Procs, Locks, NoProc, Tickslock, NoLock, TypeOK

LEMMA OnIsProc ==
  ASSUME SchedInv, NEW c \in CPUs
  PROVE  /\ Runs(c) \/ spc[c] = "back" => on[c] \in Procs /\ on[c] = scan[c]
         /\ on[c] # NoProc => Runs(c) \/ spc[c] = "back"
BY Numbers DEF SchedInv, TypeOK, Cpu, Turn, Runs

Away(d) ==
  /\ machine' = machine
  /\ spc'[d] = spc[d] /\ scan'[d] = scan[d] /\ on'[d] = on[d]
  /\ ipc'[d] = ipc[d] /\ iw'[d] = iw[d]
  /\ wait'[d] = wait[d] /\ noff'[d] = noff[d] /\ intena'[d] = intena[d] /\ intr'[d] = intr[d]
  /\ \A L \in Locks : owner'[L] = d <=> owner[L] = d
  /\ on[d] # NoProc => /\ pc'[on[d]] = pc[on[d]]
                       /\ state'[on[d]] = "RUNNING" <=> state[on[d]] = "RUNNING"

LEMMA AwayKeeps ==
  ASSUME SchedInv, NEW d \in CPUs, Away(d)
  PROVE  Cpu(d)'
<1>1. Cpu(d) /\ TypeOK  BY DEF SchedInv
<1>2. /\ Runs(d)' <=> Runs(d)
      /\ Runs(d) => on[d] # NoProc /\ pc'[on[d]] = pc[on[d]]
      /\ Base(d)' <=> Base(d)
  <2>1. Runs(d) => on[d] # NoProc  BY OnIsProc, Numbers
  <2> QED BY <2>1 DEF Away, Runs, Base
<1>3. Owns(d)'
  <2> SUFFICES ASSUME NEW L \in Locks
               PROVE  owner'[L] = d <=> (SchedHas(d, L)' \/ ProcHas(d, L)' \/ IntrHas(d, L)')
    BY DEF Owns
  <2>1. SchedHas(d, L)' <=> SchedHas(d, L)  BY DEF Away, SchedHas
  <2>2. ProcHas(d, L)' <=> ProcHas(d, L)  BY <1>2 DEF Away, ProcHas
  <2>3. IntrHas(d, L)' <=> IntrHas(d, L)  BY DEF Away, IntrHas
  <2> QED BY <1>1, <2>1, <2>2, <2>3 DEF Cpu, Owns, Away
<1>4. Nests(d)'
  <2>1. Depth(d)' = Depth(d)  BY <1>2 DEF Away, Depth, Interrupted
  <2>2. \A L : Wants(d, L)' <=> Wants(d, L)
    BY <1>2 DEF Away, Wants, Interrupted, AtSched, AtIntr
  <2> QED BY <1>1, <2>1, <2>2 DEF Cpu, Nests, Away
<1>5. Quiet(d)'  BY <1>1, <1>2 DEF Cpu, Quiet, Away, Interrupted
<1>6. Turn(d)'
  <2>1. spc[d] = "back" => on[d] # NoProc  BY OnIsProc, Numbers
  <2> QED BY <1>1, <1>2, <2>1 DEF Cpu, Turn, Away
<1> QED BY <1>3, <1>4, <1>5, <1>6 DEF Cpu

LEMMA Together ==
  ASSUME SchedInv, TypeOK', NEW c \in CPUs, Cpu(c)', \A d \in CPUs : d # c => Away(d), Threads'
  PROVE  SchedInv'
<1>1. \A d \in CPUs : d # c => Cpu(d)'  BY AwayKeeps
<1> QED BY <1>1 DEF SchedInv

\* A step at which no process is switched, begun or interrupted.
LEMMA SameThreads ==
  ASSUME SchedInv, UNCHANGED <<on, back>>,
         \A d \in CPUs : Runs(d)' <=> Runs(d),
         \A p \in Procs : state'[p] = "RUNNING" <=> state[p] = "RUNNING",
         \A p \in Procs : pc'[p] = pc[p] \/ (state[p] = "RUNNING" /\ pc'[p] \in ProcLabels)
  PROVE  Threads'
BY DEF SchedInv, Threads

-----------------------------------------------------------------------------
(* Acquiring and releasing.                                                 *)

\* The locks of the other CPUs do not change when one gets a free lock or gives
\* back its own.
LEMMA TakesElsewhere ==
  ASSUME TypeOK, NEW c \in CPUs, NEW L \in Locks, Take(c, L)
  PROVE  /\ \A M \in Locks : owner'[M] = c <=> (owner[M] = c \/ M = L)
         /\ \A d \in CPUs, M \in Locks : d # c => (owner'[M] = d <=> owner[M] = d)
BY Numbers DEF TypeOK, Take

LEMMA DropsElsewhere ==
  ASSUME TypeOK, NEW c \in CPUs, NEW L \in Locks,
         owner[L] = c, owner' = [owner EXCEPT ![L] = NoCpu]
  PROVE  /\ \A M \in Locks : owner'[M] = c <=> (owner[M] = c /\ M # L)
         /\ \A d \in CPUs, M \in Locks : d # c => (owner'[M] = d <=> owner[M] = d)
BY Numbers DEF TypeOK

LEMMA DepthBound == ASSUME SchedInv, NEW c \in CPUs PROVE Depth(c) \in 0 .. 2
BY DEF Depth

\* Push_off(), and the CPU spins.
LEMMA SpinKeeps ==
  ASSUME SchedInv, NEW c \in CPUs, NEW L \in Locks, Wants(c, L), Spin(c, L)
  PROVE  SchedInv'
<1>0. TypeOK /\ Cpu(c)  BY DEF SchedInv
<1>1. /\ wait[c] = NoLock /\ wait' = [wait EXCEPT ![c] = L]
      /\ noff' = [noff EXCEPT ![c] = @ + 1]
      /\ intena' = [intena EXCEPT ![c] = IF noff[c] = 0 THEN intr[c] ELSE @]
      /\ intr' = [intr EXCEPT ![c] = FALSE]
      /\ UNCHANGED <<owner, machine, on, spc, scan, ipc, iw, state, pc, back, saved, due>>
  BY DEF Spin, schedVars, intrVars, procVars
<1>2. L # NoLock /\ noff[c] = Depth(c) /\ Depth(c) \in 0 .. 2
  BY <1>0, <1>1, DepthBound, Numbers DEF Cpu, Nests
<1>3. TypeOK'  BY <1>0, <1>1, <1>2 DEF TypeOK
<1>4. Cpu(c)'
  <2>1. wait'[c] = L /\ noff'[c] = noff[c] + 1 /\ ~intr'[c]  BY <1>0, <1>1 DEF TypeOK
  <2>2. Owns(c)'
    BY <1>0, <1>1 DEF Cpu, Owns, SchedHas, ProcHas, IntrHas, Runs
  <2>3. Nests(c)'
    BY <1>1, <1>2, <2>1 DEF Nests, Depth, Wants, Runs, AtSched, AtIntr, Interrupted
  <2>4. Interrupted(c) => ~intena'[c]
    <3>1. Interrupted(c) => ~intr[c] /\ (noff[c] > 0 => ~intena[c])  BY <1>0 DEF Cpu, Quiet
    <3>2. noff[c] \in 0 .. 3 /\ intena'[c] = IF noff[c] = 0 THEN intr[c] ELSE intena[c]
      BY <1>0, <1>1 DEF TypeOK
    <3> QED BY <3>1, <3>2
  <2>5. Quiet(c)'
    BY <1>0, <1>1, <2>1, <2>4 DEF Cpu, Quiet, Base, Runs, Interrupted
  <2>6. Turn(c)'  BY <1>0, <1>1 DEF Cpu, Turn, Runs
  <2> QED BY <2>2, <2>3, <2>5, <2>6 DEF Cpu
<1>5. \A d \in CPUs : d # c => Away(d)  BY <1>0, <1>1 DEF Away, TypeOK
<1>6. Threads'  BY <1>1, SameThreads DEF Runs
<1> QED BY <1>3, <1>4, <1>5, <1>6, Together

LEMMA SpinsKeep ==
  ASSUME SchedInv, NEW c \in CPUs,
         \/ SchedSpin(c) \/ IntrSpin(c)
         \/ \E p \in Procs : SleepSpin(c, p) \/ YSpin(c, p)
  PROVE  SchedInv'
<1>0. scan[c] \in Locks /\ Tickslock \in Locks  BY Numbers DEF SchedInv, TypeOK
<1>1. CASE SchedSpin(c)
  <2>1. PICK L \in Locks : Wants(c, L) /\ Spin(c, L)  BY <1>0, <1>1 DEF SchedSpin, Wants
  <2> QED BY <2>1, SpinKeeps
<1>2. CASE IntrSpin(c)
  <2>1. iw[c] <= machine.procs => iw[c] \in Locks
    BY Numbers, SchedAssumption, SMTT(30) DEF SchedInv, TypeOK, Procs, Locks
  <2>2. PICK L \in Locks : Wants(c, L) /\ Spin(c, L)  BY <1>0, <1>2, <2>1 DEF IntrSpin, Wants
  <2> QED BY <2>2, SpinKeeps
<1>3. ASSUME NEW p \in Procs, SleepSpin(c, p) \/ YSpin(c, p) PROVE SchedInv'
  <2>1. p \in Locks  BY Numbers
  <2>2. PICK L \in Locks : Wants(c, L) /\ Spin(c, L)
    BY <1>0, <1>3, <2>1 DEF SleepSpin, YSpin, Wants, AtProc, Runs
  <2> QED BY <2>2, SpinKeeps
<1> QED BY <1>1, <1>2, <1>3

-----------------------------------------------------------------------------
(* The scheduler thread.                                                    *)

LEMMA LoopKeeps ==
  ASSUME SchedInv, NEW c \in CPUs, Loop(c)
  PROVE  SchedInv'
<1>0. TypeOK /\ Cpu(c)  BY DEF SchedInv
<1>1. /\ ~Interrupted(c) /\ spc[c] = "loop" /\ spc' = [spc EXCEPT ![c] = "plock"]
      /\ intr' = [intr EXCEPT ![c] = TRUE] /\ scan' = [scan EXCEPT ![c] = 1]
      /\ UNCHANGED <<machine, owner, wait, noff, intena, on, ipc, iw, state, pc, back, saved, due>>
  BY DEF Loop, AtSched, GotoSched, lockVars, intrVars, procVars
<1>2. 1 \in Procs /\ 1 <= machine.procs  BY <1>0, Numbers, SchedAssumption DEF Procs
<1>3. TypeOK'  BY <1>0, <1>1, <1>2 DEF TypeOK, SchedLabels
<1>4. spc'[c] = "plock" /\ scan'[c] = 1 /\ intr'[c] /\ on[c] = NoProc
  BY <1>0, <1>1 DEF TypeOK, Cpu, Turn
<1>5. wait[c] = NoLock /\ noff[c] = 0
  BY <1>0, <1>1 DEF Cpu, Nests, Wants, Depth, AtSched, AtIntr, Interrupted, Runs
<1>6. Cpu(c)'
  <2>1. Owns(c)'  BY <1>0, <1>1, <1>4 DEF Cpu, Owns, SchedHas, ProcHas, IntrHas, Runs
  <2>2. Nests(c)'  BY <1>0, <1>1, <1>4, <1>5 DEF Nests, Depth, Interrupted, Runs
  <2>3. Quiet(c)'  BY <1>1, <1>4, <1>5 DEF Quiet, Base, Interrupted
  <2>4. Turn(c)'  BY <1>0, <1>1, <1>2, <1>4 DEF Cpu, Turn, Runs, Interrupted
  <2> QED BY <2>1, <2>2, <2>3, <2>4 DEF Cpu
<1>7. \A d \in CPUs : d # c => Away(d)  BY <1>0, <1>1 DEF Away, TypeOK
<1>8. Threads'
  <2>1. \A d \in CPUs : Runs(d)' <=> Runs(d)  BY <1>0, <1>1 DEF Runs, TypeOK
  <2> QED BY <1>1, <2>1, SameThreads
<1> QED BY <1>3, <1>6, <1>7, <1>8, Together

\* The scheduler thread takes a lock.
LEMMA SchedTakes ==
  ASSUME SchedInv, NEW c \in CPUs, PLock(c) \/ TLock(c)
  PROVE  SchedInv'
<1>0. TypeOK /\ Cpu(c)  BY DEF SchedInv
<1>1. PICK L \in Locks :
        /\ Take(c, L) /\ ~Interrupted(c)
        /\ \/ spc[c] = "plock" /\ L = scan[c] /\ spc' = [spc EXCEPT ![c] = "pick"]
           \/ spc[c] = "tlock" /\ L = Tickslock /\ spc' = [spc EXCEPT ![c] = "trel"]
  <2>1. scan[c] \in Locks /\ Tickslock \in Locks  BY <1>0, Numbers DEF TypeOK
  <2> QED BY <2>1 DEF PLock, TLock, AtSched, GotoSched
<1>2. /\ wait[c] = L /\ owner[L] = NoCpu /\ owner' = [owner EXCEPT ![L] = c]
      /\ wait' = [wait EXCEPT ![c] = NoLock]
      /\ UNCHANGED <<noff, intena, intr, machine, on, scan, ipc, iw, state, pc, back, saved, due>>
  BY <1>1 DEF PLock, TLock, Take, offVars, intrVars, procVars
<1>3. TypeOK'
  <2>1. spc' \in [CPUs -> SchedLabels]  BY <1>0, <1>1 DEF TypeOK, SchedLabels
  <2> QED BY <1>0, <1>2, <2>1 DEF TypeOK
<1>4. wait'[c] = NoLock /\ spc'[c] = IF spc[c] = "plock" THEN "pick" ELSE "trel"
  BY <1>0, <1>1, <1>2 DEF TypeOK
<1>5. noff[c] = Depth(c) + 1 /\ L # NoLock  BY <1>0, <1>2, Numbers DEF Cpu, Nests
<1>6. Cpu(c)'
  <2>1. Owns(c)'
    BY <1>0, <1>1, <1>2, <1>4, TakesElsewhere DEF Cpu, Owns, SchedHas, ProcHas, IntrHas, Runs, Interrupted
  <2>2. Nests(c)'  BY <1>1, <1>2, <1>4, <1>5 DEF Nests, Depth, Interrupted, Runs
  <2>3. Quiet(c)'
    <3>1. noff[c] # 0  BY <1>5, DepthBound
    <3>2. ~intr[c]  BY <1>0, <3>1 DEF Cpu, Quiet
    <3> QED BY <1>1, <1>2, <3>2 DEF Quiet, Interrupted
  <2>4. Turn(c)'  BY <1>0, <1>1, <1>2, <1>4 DEF Cpu, Turn, Runs, Interrupted
  <2> QED BY <2>1, <2>2, <2>3, <2>4 DEF Cpu
<1>7. \A d \in CPUs : d # c => Away(d)
  <2>1. \A d \in CPUs, M \in Locks : d # c => (owner'[M] = d <=> owner[M] = d)
    BY <1>0, <1>1, TakesElsewhere
  <2> QED BY <1>0, <1>1, <1>2, <2>1 DEF Away, TypeOK
<1>8. Threads'
  <2>1. \A d \in CPUs : Runs(d)' <=> Runs(d)  BY <1>0, <1>1 DEF Runs, TypeOK
  <2> QED BY <1>2, <2>1, SameThreads
<1> QED BY <1>3, <1>6, <1>7, <1>8, Together

\* The scheduler thread releases a lock.
LEMMA SchedDrops ==
  ASSUME SchedInv, NEW c \in CPUs, PRel(c) \/ TRel(c)
  PROVE  SchedInv'
<1>0. TypeOK /\ Cpu(c)  BY DEF SchedInv
<1>s. machine.procs \in Procs /\ scan[c] \in Procs /\ scan[c] <= machine.procs
  BY <1>0, Numbers DEF Cpu, Turn, TypeOK
<1>1. PICK L \in Locks :
        /\ Drop(c, L) /\ ~Interrupted(c)
        /\ \/ /\ spc[c] = "prel" /\ L = scan[c]
              /\ \/ spc' = [spc EXCEPT ![c] = "loop"] /\ scan' = scan
                 \/ /\ spc' = [spc EXCEPT ![c] = "plock"] /\ scan[c] # machine.procs
                    /\ scan' = [scan EXCEPT ![c] = scan[c] + 1]
           \/ /\ spc[c] = "trel" /\ L = Tickslock /\ spc' = [spc EXCEPT ![c] = "prel"]
              /\ scan' = scan
  <2>1. scan[c] \in Locks /\ Tickslock \in Locks  BY <1>s, Numbers
  <2>2. CASE PRel(c)
    <3>1. /\ Drop(c, scan[c]) /\ ~Interrupted(c) /\ spc[c] = "prel"
          /\ IF scan[c] = machine.procs
               THEN spc' = [spc EXCEPT ![c] = "loop"] /\ scan' = scan
               ELSE spc' = [spc EXCEPT ![c] = "plock"] /\ scan' = [scan EXCEPT ![c] = scan[c] + 1]
      BY <2>2 DEF PRel, AtSched, GotoSched
    <3> QED BY <2>1, <3>1
  <2>3. CASE TRel(c)  BY <2>1, <2>3 DEF TRel, AtSched, GotoSched
  <2> QED BY <2>2, <2>3
<1>2. /\ owner' = [owner EXCEPT ![L] = NoCpu] /\ noff' = [noff EXCEPT ![c] = @ - 1]
      /\ intr' = [intr EXCEPT ![c] = @ \/ (noff[c] = 1 /\ intena[c])]
      /\ intena' = [intena EXCEPT ![c] = intena[c]]
      /\ UNCHANGED <<wait, machine, on, ipc, iw, state, pc, back, saved, due>>
  BY <1>1 DEF PRel, TRel, Drop, DropWith, intrVars, procVars
<1>3. owner[L] = c /\ wait[c] = NoLock /\ noff[c] = Depth(c)
      /\ Depth(c) = IF spc[c] = "prel" THEN 1 ELSE 2
  BY <1>0, <1>1 DEF Cpu, Owns, SchedHas, Nests, Wants, Depth, AtSched, AtIntr, Interrupted, Runs
<1>d. /\ \A M \in Locks : owner'[M] = c <=> (owner[M] = c /\ M # L)
      /\ \A d \in CPUs, M \in Locks : d # c => (owner'[M] = d <=> owner[M] = d)
  <2>1. owner[L] = c /\ owner' = [owner EXCEPT ![L] = NoCpu]  BY <1>2, <1>3
  <2> QED BY <1>0, <2>1, DropsElsewhere
<1>4. /\ scan'[c] \in Procs /\ scan'[c] <= machine.procs
      /\ spc'[c] = IF spc[c] = "trel" THEN "prel" ELSE spc'[c]
      /\ spc[c] = "prel" => spc'[c] \in {"loop", "plock"}
      /\ spc[c] = "trel" => scan'[c] = scan[c]
      /\ noff'[c] = noff[c] - 1 /\ noff'[c] \in 0 .. 1
      /\ intr'[c] <=> (intr[c] \/ (noff[c] = 1 /\ intena[c]))
  <2>1. noff'[c] = noff[c] - 1 /\ noff'[c] \in 0 .. 1  BY <1>0, <1>1, <1>2, <1>3 DEF TypeOK
  <2>2. intr'[c] <=> (intr[c] \/ (noff[c] = 1 /\ intena[c]))  BY <1>0, <1>2 DEF TypeOK
  <2>3. scan'[c] \in Procs /\ scan'[c] <= machine.procs
    <3>1. scan'[c] = scan[c] \/ (scan'[c] = scan[c] + 1 /\ scan[c] # machine.procs)
      BY <1>0, <1>1 DEF TypeOK
    <3>2. scan[c] # machine.procs => scan[c] + 1 \in Procs /\ scan[c] + 1 <= machine.procs
      BY <1>s, SchedAssumption DEF Procs
    <3> QED BY <1>s, <3>1, <3>2
  <2>4. /\ spc[c] = "trel" => spc'[c] = "prel" /\ scan'[c] = scan[c]
        /\ spc[c] = "prel" => spc'[c] \in {"loop", "plock"}
    BY <1>0, <1>1 DEF TypeOK
  <2> QED BY <2>1, <2>2, <2>3, <2>4
<1>5. TypeOK'
  <2>1. spc' \in [CPUs -> SchedLabels]  BY <1>0, <1>1 DEF TypeOK, SchedLabels
  <2>2. scan' \in [CPUs -> Procs]  BY <1>0, <1>1, <1>4 DEF TypeOK
  <2>3. noff' \in [CPUs -> 0 .. 3]  BY <1>0, <1>2, <1>4 DEF TypeOK
  <2>4. /\ owner' \in [Locks -> CPUs \cup {NoCpu}] /\ intena' \in [CPUs -> BOOLEAN]
        /\ intr' \in [CPUs -> BOOLEAN]
    BY <1>0, <1>2 DEF TypeOK
  <2> QED BY <1>0, <1>2, <2>1, <2>2, <2>3, <2>4 DEF TypeOK
<1>6. Cpu(c)'
  <2>1. Owns(c)'
    <3>1. scan[c] # Tickslock  BY <1>s, Numbers
    <3>2. \A M \in Locks : owner'[M] = c <=> (owner[M] = c /\ M # L)  BY <1>d
    <3>3. \A M \in Locks : ~ProcHas(c, M) /\ ~ProcHas(c, M)' /\ ~IntrHas(c, M) /\ ~IntrHas(c, M)'
      BY <1>1, <1>2, <1>4 DEF ProcHas, IntrHas, Runs, Interrupted
    <3>4. \A M \in Locks : SchedHas(c, M)' <=> (SchedHas(c, M) /\ M # L)
      BY <1>1, <1>4, <3>1 DEF SchedHas
    <3> QED BY <1>0, <3>2, <3>3, <3>4 DEF Cpu, Owns
  <2>2. Nests(c)'
    BY <1>1, <1>2, <1>3, <1>4 DEF Nests, Depth, Interrupted, Runs
  <2>3. Quiet(c)'
    <3>1. ~intr[c]  BY <1>0, <1>1 DEF Cpu, Quiet, Base, Runs
    <3> QED BY <1>1, <1>2, <1>3, <1>4, <3>1 DEF Quiet, Base, Interrupted
  <2>4. Turn(c)'  BY <1>0, <1>1, <1>2, <1>4 DEF Cpu, Turn, Runs, Interrupted
  <2> QED BY <2>1, <2>2, <2>3, <2>4 DEF Cpu
<1>7. \A d \in CPUs : d # c => Away(d)
  <2>1. \A d \in CPUs, M \in Locks : d # c => (owner'[M] = d <=> owner[M] = d)  BY <1>d
  <2> QED BY <1>0, <1>1, <1>2, <2>1 DEF Away, TypeOK
<1>8. Threads'
  <2>1. \A d \in CPUs : Runs(d)' <=> Runs(d)
    <3>1. \A d \in CPUs : d # c => spc'[d] = spc[d]  BY <1>0, <1>1 DEF TypeOK
    <3> QED BY <1>1, <1>4, <3>1 DEF Runs
  <2> QED BY <1>2, <2>1, SameThreads
<1> QED BY <1>5, <1>6, <1>7, <1>8, Together

\* The scheduler thread switches to a process.
LEMMA PickKeeps ==
  ASSUME SchedInv, NEW c \in CPUs, Pick(c)
  PROVE  SchedInv'
<1>0. TypeOK /\ Cpu(c)  BY DEF SchedInv
<1>p. PICK p \in Procs : p = scan[c]  BY <1>0 DEF TypeOK
<1>n. p \in Locks /\ p # NoProc /\ p # Tickslock  BY Numbers
<1>1. /\ ~Interrupted(c) /\ spc[c] = "pick" /\ spc' = [spc EXCEPT ![c] = "swtched"]
      /\ state[p] = "RUNNABLE" /\ state' = [state EXCEPT ![p] = "RUNNING"]
      /\ on' = [on EXCEPT ![c] = p]
      /\ UNCHANGED <<machine, owner, wait, noff, intena, intr, scan, ipc, iw, pc, back, saved, due>>
  BY <1>p DEF Pick, AtSched, GotoSched, lockVars, offVars, intrVars
<1>2. TypeOK'  BY <1>0, <1>1 DEF TypeOK, SchedLabels
<1>3. spc'[c] = "swtched" /\ on'[c] = p /\ state'[p] = "RUNNING" /\ pc[p] \in Parked
  BY <1>0, <1>1 DEF TypeOK, SchedInv, Threads
<1>4. wait[c] = NoLock /\ noff[c] = 1 /\ owner[p] = c /\ ~intr[c]
  BY <1>0, <1>1, <1>p, <1>n
  DEF Cpu, Owns, SchedHas, Nests, Wants, Quiet, Base, Depth, AtSched, AtIntr, Interrupted, Runs
<1>5. \A d \in CPUs : d # c => on[d] # p
  <2> SUFFICES ASSUME NEW d \in CPUs, d # c, on[d] = p PROVE FALSE  OBVIOUS
  <2>1. Cpu(d) /\ (Runs(d) \/ spc[d] = "back") /\ on[d] = scan[d]
    BY <1>n, OnIsProc DEF SchedInv
  <2>2. ~Runs(d)  BY <1>1, <2>1 DEF Cpu, Turn
  <2>3. owner[p] = d  BY <1>n, <2>1, <2>2 DEF Cpu, Owns, SchedHas
  <2> QED BY <1>4, <2>3
<1>6. Cpu(c)'
  <2>1. Owns(c)'
    BY <1>0, <1>1, <1>3, <1>n, <1>p DEF Cpu, Owns, SchedHas, ProcHas, IntrHas, Runs, Parked, Interrupted
  <2>2. Nests(c)'
    BY <1>1, <1>3, <1>4 DEF Nests, Depth, Interrupted, Runs, Parked, Calm
  <2>3. Quiet(c)'  BY <1>1, <1>4 DEF Quiet, Interrupted
  <2>4. Turn(c)'  BY <1>0, <1>1, <1>3, <1>p DEF Cpu, Turn, Runs, Interrupted
  <2> QED BY <2>1, <2>2, <2>3, <2>4 DEF Cpu
<1>7. \A d \in CPUs : d # c => Away(d)
  <2> TAKE d \in CPUs
  <2>1. on[d] # NoProc => on[d] \in Procs  BY <1>0 DEF TypeOK
  <2> QED BY <1>0, <1>1, <1>5, <2>1 DEF Away, TypeOK
<1>8. Threads'
  <2>1. \A d, e \in CPUs : on'[d] # NoProc /\ on'[d] = on'[e] => d = e
    BY <1>0, <1>1, <1>3, <1>5 DEF SchedInv, Threads, TypeOK
  <2>2. ASSUME NEW q \in Procs, state'[q] = "RUNNING" PROVE \E d \in CPUs : Runs(d)' /\ on'[d] = q
    <3>1. CASE q = p  BY <1>3, <3>1 DEF Runs
    <3>2. CASE q # p
      <4>1. state[q] = "RUNNING"  BY <1>0, <1>1, <2>2, <3>2 DEF TypeOK
      <4>2. PICK d \in CPUs : Runs(d) /\ on[d] = q  BY <4>1 DEF SchedInv, Threads
      <4>3. d # c  BY <1>1, <4>2 DEF Runs
      <4>4. Runs(d)' /\ on'[d] = q  BY <1>0, <1>1, <4>2, <4>3 DEF Runs, TypeOK
      <4> QED BY <4>4
    <3> QED BY <3>1, <3>2
  <2>3. \A q \in Procs : state'[q] # "RUNNING" => state[q] # "RUNNING"
    BY <1>0, <1>1 DEF TypeOK
  <2> QED BY <1>1, <2>1, <2>2, <2>3 DEF SchedInv, Threads
<1> QED BY <1>2, <1>6, <1>7, <1>8, Together

\* It looks further, or has been switched back to.
LEMMA PassesOn ==
  ASSUME SchedInv, NEW c \in CPUs, PassOver(c) \/ Back(c)
  PROVE  SchedInv'
<1>0. TypeOK /\ Cpu(c)  BY DEF SchedInv
<1>n. NoProc \notin Procs  BY Numbers
<1>1. /\ ~Interrupted(c) /\ spc[c] \in {"pick", "back"}
      /\ \/ spc' = [spc EXCEPT ![c] = "prel"]
         \/ spc' = [spc EXCEPT ![c] = "tlock"] /\ machine.kernel = "lab3"
      /\ on' = on \/ on' = [on EXCEPT ![c] = NoProc]
      /\ spc[c] = "back" => on' = [on EXCEPT ![c] = NoProc]
      /\ UNCHANGED <<machine, owner, wait, noff, intena, intr, scan, ipc, iw, state, pc, back,
                     saved, due>>
  BY DEF PassOver, Back, AtSched, GotoSched, lockVars, offVars, intrVars, procVars
<1>2. TypeOK'
  <2>1. spc' \in [CPUs -> SchedLabels]  BY <1>0, <1>1 DEF TypeOK, SchedLabels
  <2>2. on' \in [CPUs -> Procs \cup {NoProc}]  BY <1>0, <1>1 DEF TypeOK
  <2> QED BY <1>0, <1>1, <2>1, <2>2 DEF TypeOK
<1>3. /\ spc'[c] \in {"prel", "tlock"} /\ (spc'[c] = "tlock" => machine.kernel = "lab3")
      /\ on'[c] = NoProc
  BY <1>0, <1>1 DEF TypeOK, Cpu, Turn
<1>4. wait[c] = NoLock /\ noff[c] = 1 /\ ~intr[c]
  BY <1>0, <1>1
  DEF Cpu, Nests, Wants, Quiet, Base, Depth, AtSched, AtIntr, Interrupted, Runs
<1>5. Cpu(c)'
  <2>1. Owns(c)'
    BY <1>0, <1>1, <1>3 DEF Cpu, Owns, SchedHas, ProcHas, IntrHas, Runs, Interrupted
  <2>2. Nests(c)'  BY <1>1, <1>3, <1>4 DEF Nests, Depth, Interrupted, Runs
  <2>3. Quiet(c)'  BY <1>1, <1>4 DEF Quiet, Interrupted
  <2>4. Turn(c)'  BY <1>0, <1>1, <1>3 DEF Cpu, Turn, Runs, Interrupted
  <2> QED BY <2>1, <2>2, <2>3, <2>4 DEF Cpu
<1>6. \A d \in CPUs : d # c => Away(d)  BY <1>0, <1>1 DEF Away, TypeOK
<1>7. Threads'
  <2>1. \A d, e \in CPUs : on'[d] # NoProc /\ on'[d] = on'[e] => d = e
    BY <1>0, <1>1, <1>3 DEF SchedInv, Threads, TypeOK
  <2>2. \A d \in CPUs : Runs(d) => Runs(d)' /\ on'[d] = on[d]
    BY <1>0, <1>1 DEF Runs, TypeOK
  <2> QED BY <1>1, <2>1, <2>2 DEF SchedInv, Threads
<1> QED BY <1>2, <1>5, <1>6, <1>7, Together

LEMMA SchedulerKeeps ==
  ASSUME SchedInv, NEW c \in CPUs, SchedStep(c)
  PROVE  SchedInv'
BY LoopKeeps, SpinsKeep, SchedTakes, SchedDrops, PickKeeps, PassesOn DEF SchedStep

-----------------------------------------------------------------------------
(* The processes.                                                           *)

\* Where the process of a CPU goes from one label of the kernel to another.
LEMMA ProcFrame ==
  ASSUME SchedInv, NEW c \in CPUs, NEW p \in Procs, Runs(c), on[c] = p,
         NEW m \in ProcLabels, pc' = [pc EXCEPT ![p] = m],
         \A d \in CPUs : d # c =>
           /\ wait'[d] = wait[d] /\ noff'[d] = noff[d]
           /\ intena'[d] = intena[d] /\ intr'[d] = intr[d]
           /\ \A L \in Locks : owner'[L] = d <=> owner[L] = d,
         UNCHANGED <<machine, on, spc, scan, ipc, iw, state, back>>
  PROVE  /\ \A d \in CPUs : d # c => Away(d)
         /\ Threads'
         /\ pc'[p] = m /\ pc' \in [Procs -> ProcLabels]
<1>0. TypeOK /\ Threads /\ Cpu(c) /\ p # NoProc  BY Numbers DEF SchedInv
<1>1. \A q \in Procs : q # p => pc'[q] = pc[q]  BY <1>0 DEF TypeOK
<1>2. ASSUME NEW d \in CPUs, d # c PROVE Away(d)
  <2>1. on[d] # p /\ (on[d] # NoProc => on[d] \in Procs)
    BY <1>0, <1>2 DEF Threads, TypeOK
  <2> QED BY <1>1, <1>2, <2>1 DEF Away
<1>3. state[p] = "RUNNING"  BY <1>0 DEF Cpu, Turn
<1>4. pc'[p] = m /\ pc' \in [Procs -> ProcLabels]  BY <1>0 DEF TypeOK
<1>5. Threads'  BY <1>1, <1>3, <1>4, SameThreads DEF Runs
<1> QED BY <1>2, <1>4, <1>5

\* It neither takes nor releases a lock.
LEMMA ProcMoves ==
  ASSUME SchedInv, NEW c \in CPUs, NEW p \in Procs, SysSleep(c, p) \/ SleepMore(c, p)
  PROVE  SchedInv'
<1>0. TypeOK /\ Cpu(c)  BY DEF SchedInv
<1>1. PICK m \in ProcLabels :
        /\ pc' = [pc EXCEPT ![p] = m]
        /\ <<pc[p], m>> \in {<<"user", "ss_lock">>, <<"ss_test", "ss_killed">>}
  BY DEF SysSleep, SleepMore, AtProc, GotoProc, ProcLabels
<1>2. /\ ~Interrupted(c) /\ Runs(c) /\ on[c] = p /\ spc[c] = "swtched"
      /\ UNCHANGED <<machine, on, spc, scan, ipc, iw, state, back, owner, wait, noff, intena, intr,
                     saved, due>>
  BY DEF SysSleep, SleepMore, AtProc, Runs, lockVars, offVars, schedVars, intrVars
<1>3. (\A d \in CPUs : d # c => Away(d)) /\ Threads' /\ pc'[p] = m /\ pc' \in [Procs -> ProcLabels]
  BY <1>1, <1>2, ProcFrame
<1>4. TypeOK'  BY <1>0, <1>2, <1>3 DEF TypeOK
<1>5. wait[c] = NoLock  BY <1>0, <1>1, <1>2 DEF Cpu, Nests, Wants, AtSched, AtIntr, Interrupted
<1>6. Cpu(c)'
  <2>1. Owns(c)'
    BY <1>0, <1>1, <1>2, <1>3
    DEF Cpu, Owns, SchedHas, ProcHas, IntrHas, Runs, Interrupted, Parked
  <2>2. Nests(c)'
    BY <1>0, <1>1, <1>2, <1>3, <1>5 DEF Cpu, Nests, Depth, Interrupted, Runs, Calm
  <2>3. Quiet(c)'  BY <1>0, <1>1, <1>2, <1>3 DEF Cpu, Quiet, Interrupted, Base, Runs, Calm
  <2>4. Turn(c)'  BY <1>0, <1>2 DEF Cpu, Turn, Runs
  <2> QED BY <2>1, <2>2, <2>3, <2>4 DEF Cpu
<1> QED BY <1>3, <1>4, <1>6, Together

\* It takes a lock: from where, which one, and where it is then.
ProcAcquires(p) ==
  {<<"ss_lock", Tickslock, "ss_test">>, <<"ss_killed", p, "ss_krel">>, <<"sl_lock", p, "sl_rel">>,
   <<"sl_relock", Tickslock, "ss_test">>, <<"y_lock", p, "y_sched">>}

LEMMA ProcTakes ==
  ASSUME SchedInv, NEW c \in CPUs, NEW p \in Procs,
         SleepLock(c, p) \/ KilledLock(c, p) \/ SlLock(c, p) \/ SlRelock(c, p) \/ YLock(c, p)
  PROVE  SchedInv'
<1>0. TypeOK /\ Cpu(c)  BY DEF SchedInv
<1>n. p \in Locks /\ Tickslock \in Locks /\ p # Tickslock /\ p # NoProc  BY Numbers
<1>1. PICK L \in Locks, m \in ProcLabels :
        /\ Take(c, L) /\ pc' = [pc EXCEPT ![p] = m]
        /\ <<pc[p], L, m>> \in ProcAcquires(p)
  <2>1. {"ss_test", "ss_krel", "sl_rel", "y_sched"} \subseteq ProcLabels  BY DEF ProcLabels
  <2> QED
    BY <1>n, <2>1
    DEF SleepLock, KilledLock, SlLock, SlRelock, YLock, AtProc, GotoProc, ProcAcquires
<1>2. /\ ~Interrupted(c) /\ Runs(c) /\ on[c] = p /\ spc[c] = "swtched"
      /\ UNCHANGED <<machine, on, spc, scan, ipc, iw, state, back, noff, intena, intr, saved>>
  BY DEF SleepLock, KilledLock, SlLock, SlRelock, YLock, AtProc, Take, Runs, offVars, schedVars, intrVars
<1>3. /\ wait[c] = L /\ owner[L] = NoCpu /\ owner' = [owner EXCEPT ![L] = c]
      /\ wait' = [wait EXCEPT ![c] = NoLock]
  BY <1>1 DEF Take
<1>4. /\ \A M \in Locks : owner'[M] = c <=> (owner[M] = c \/ M = L)
      /\ \A d \in CPUs, M \in Locks : d # c => (owner'[M] = d <=> owner[M] = d)
  BY <1>0, <1>1, TakesElsewhere
<1>5. (\A d \in CPUs : d # c => Away(d)) /\ Threads' /\ pc'[p] = m /\ pc' \in [Procs -> ProcLabels]
  <2>1. \A d \in CPUs : d # c =>
          /\ wait'[d] = wait[d] /\ noff'[d] = noff[d]
          /\ intena'[d] = intena[d] /\ intr'[d] = intr[d]
          /\ \A M \in Locks : owner'[M] = d <=> owner[M] = d
    BY <1>0, <1>2, <1>3, <1>4 DEF TypeOK
  <2> QED BY <1>1, <1>2, <2>1, ProcFrame
<1>6. TypeOK'
  <2>1. due' \in [Procs -> Nat]
    <3>1. due' = due \/ \E n \in SleepArgs : due' = [due EXCEPT ![p] = n]
      BY DEF SleepLock, KilledLock, SlLock, SlRelock, YLock
    <3> QED BY <1>0, <3>1, SchedAssumption DEF TypeOK
  <2> QED BY <1>0, <1>2, <1>3, <1>5, <2>1 DEF TypeOK
<1>7. wait'[c] = NoLock /\ noff[c] = Depth(c) + 1
  BY <1>0, <1>3, Numbers DEF TypeOK, Cpu, Nests
<1>8. Cpu(c)'
  <2>1. Owns(c)'
    BY <1>0, <1>n, <1>1, <1>2, <1>4, <1>5
    DEF Cpu, Owns, SchedHas, ProcHas, IntrHas, Runs, Interrupted, Parked, ProcAcquires
  <2>2. Nests(c)'
    BY <1>1, <1>2, <1>5, <1>7 DEF Nests, Depth, Interrupted, Runs, Calm, ProcAcquires
  <2>3. Quiet(c)'
    <3>1. noff[c] # 0  BY <1>7, DepthBound
    <3>2. ~intr[c]  BY <1>0, <3>1 DEF Cpu, Quiet
    <3> QED BY <1>2, <3>2 DEF Quiet, Interrupted
  <2>4. Turn(c)'  BY <1>0, <1>2 DEF Cpu, Turn, Runs
  <2> QED BY <2>1, <2>2, <2>3, <2>4 DEF Cpu
<1> QED BY <1>5, <1>6, <1>8, Together

\* It releases a lock.
ProcReleases(p) ==
  {<<"ss_test", Tickslock, "user">>, <<"ss_krel", p, "sl_lock">>,
   <<"sl_rel", Tickslock, "sl_sched">>, <<"sl_ret", p, "sl_relock">>,
   <<"forkret", p, "user">>, <<"y_ret", p, back[p]>>}

LEMMA ProcDrops ==
  ASSUME SchedInv, NEW c \in CPUs, NEW p \in Procs,
         \/ SleepDone(c, p) \/ KilledRel(c, p) \/ SlRel(c, p) \/ SlRet(c, p)
         \/ Forkret(c, p) \/ YRet(c, p)
  PROVE  SchedInv'
<1>0. TypeOK /\ Cpu(c)  BY DEF SchedInv
<1>n. p \in Locks /\ Tickslock \in Locks /\ p # Tickslock /\ p # NoProc  BY Numbers
<1>b. back[p] \in Calm /\ back[p] \in ProcLabels  BY DEF SchedInv, TypeOK, Threads
<1>1. PICK L \in Locks, m \in ProcLabels :
        /\ <<pc[p], L, m>> \in ProcReleases(p)
        /\ pc' = [pc EXCEPT ![p] = m] /\ owner' = [owner EXCEPT ![L] = NoCpu]
  <2>1. {"user", "sl_lock", "sl_sched", "sl_relock"} \subseteq ProcLabels  BY DEF ProcLabels
  <2> QED
    BY <1>n, <1>b, <2>1
    DEF SleepDone, KilledRel, SlRel, SlRet, Forkret, YRet, AtProc, GotoProc, TrapReturn, Drop, DropWith,
        ProcReleases
<1>2. /\ ~Interrupted(c) /\ Runs(c) /\ on[c] = p /\ spc[c] = "swtched"
      /\ UNCHANGED <<machine, on, spc, scan, ipc, iw, state, back, wait, saved, due>>
      /\ noff' = [noff EXCEPT ![c] = @ - 1]
  BY DEF SleepDone, KilledRel, SlRel, SlRet, Forkret, YRet, AtProc, TrapReturn, Drop, DropWith, Runs,
         schedVars, intrVars
<1>3. (\E e \in BOOLEAN : intena' = [intena EXCEPT ![c] = e]) \/ intena' = intena
  BY <1>0
  DEF TypeOK, SleepDone, KilledRel, SlRel, SlRet, Forkret, YRet, TrapReturn, Drop, DropWith
<1>4. /\ \E e \in BOOLEAN : intr' = [intr EXCEPT ![c] = e]
      /\ pc[p] \in {"ss_krel", "sl_rel"} /\ noff[c] = 2 => intr' = [intr EXCEPT ![c] = intr[c]]
  <2>1. CASE SleepDone(c, p) \/ KilledRel(c, p) \/ SlRel(c, p) \/ SlRet(c, p)
    <3>1. PICK e \in BOOLEAN : intr' = [intr EXCEPT ![c] = intr[c] \/ (noff[c] = 1 /\ e)]
      BY <1>0, <2>1 DEF TypeOK, SleepDone, KilledRel, SlRel, SlRet, Drop, DropWith
    <3>2. noff[c] = 2 => intr' = [intr EXCEPT ![c] = intr[c]]
      <4>1. noff[c] = 2 => ((intr[c] \/ (noff[c] = 1 /\ e)) = intr[c])  BY <1>0 DEF TypeOK
      <4> QED BY <3>1, <4>1
    <3>3. (intr[c] \/ (noff[c] = 1 /\ e)) \in BOOLEAN  BY <1>0 DEF TypeOK
    <3> QED BY <3>1, <3>2, <3>3
  <2>2. CASE Forkret(c, p) \/ YRet(c, p)
    <3>1. intr' = [intr EXCEPT ![c] = TRUE]  BY <2>2 DEF Forkret, YRet, TrapReturn
    <3>2. pc[p] \notin {"ss_krel", "sl_rel"}  BY <2>2 DEF Forkret, YRet, AtProc
    <3> QED BY <3>1, <3>2
  <2> QED BY <2>1, <2>2
<1>5. /\ wait[c] = NoLock /\ owner[L] = c /\ noff[c] = Depth(c)
      /\ Depth(c) = IF pc[p] \in {"ss_krel", "sl_rel"} THEN 2 ELSE 1
  BY <1>0, <1>n, <1>1, <1>2
  DEF Cpu, Owns, Nests, Wants, Depth, SchedHas, ProcHas, IntrHas, AtSched, AtIntr, Interrupted, Runs,
      Parked, Calm, ProcReleases
<1>6. /\ \A M \in Locks : owner'[M] = c <=> (owner[M] = c /\ M # L)
      /\ \A d \in CPUs, M \in Locks : d # c => (owner'[M] = d <=> owner[M] = d)
  BY <1>0, <1>1, <1>5, DropsElsewhere
<1>7. (\A d \in CPUs : d # c => Away(d)) /\ Threads' /\ pc'[p] = m /\ pc' \in [Procs -> ProcLabels]
  <2>1. \A d \in CPUs : d # c =>
          /\ wait'[d] = wait[d] /\ noff'[d] = noff[d]
          /\ intena'[d] = intena[d] /\ intr'[d] = intr[d]
          /\ \A M \in Locks : owner'[M] = d <=> owner[M] = d
    BY <1>0, <1>2, <1>3, <1>4, <1>6 DEF TypeOK
  <2> QED BY <1>1, <1>2, <2>1, ProcFrame
<1>8. noff'[c] = Depth(c) - 1  BY <1>0, <1>2, <1>5 DEF TypeOK
<1>9. TypeOK'
  <2>1. noff' \in [CPUs -> 0 .. 3]  BY <1>0, <1>2, <1>5, <1>8 DEF TypeOK
  <2>2. intr' \in [CPUs -> BOOLEAN] /\ intena' \in [CPUs -> BOOLEAN]
    BY <1>0, <1>3, <1>4 DEF TypeOK
  <2>3. owner' \in [Locks -> CPUs \cup {NoCpu}]  BY <1>0, <1>1 DEF TypeOK
  <2> QED BY <1>0, <1>2, <1>7, <2>1, <2>2, <2>3 DEF TypeOK
<1>10. Cpu(c)'
  <2>1. Owns(c)'
    BY <1>0, <1>n, <1>b, <1>1, <1>2, <1>6, <1>7
    DEF Cpu, Owns, SchedHas, ProcHas, IntrHas, Runs, Interrupted, Parked, Calm, ProcReleases
  <2>2. Nests(c)'
    BY <1>b, <1>1, <1>2, <1>5, <1>7, <1>8
    DEF Nests, Depth, Interrupted, Runs, Calm, ProcReleases
  <2>3. Quiet(c)'
    <3>1. ~intr[c]
      <4>1. noff[c] # 0  BY <1>5
      <4> QED BY <1>0, <4>1 DEF Cpu, Quiet
    <3>2. intr'[c] => pc[p] \notin {"ss_krel", "sl_rel"}  BY <1>0, <1>4, <1>5, <3>1 DEF TypeOK
    <3> QED
      BY <1>b, <1>1, <1>2, <1>5, <1>7, <1>8, <3>2
      DEF Quiet, Base, Interrupted, Runs, Calm, ProcReleases
  <2>4. Turn(c)'  BY <1>0, <1>2 DEF Cpu, Turn, Runs
  <2> QED BY <2>1, <2>2, <2>3, <2>4 DEF Cpu
<1> QED BY <1>7, <1>9, <1>10, Together

\* sched(): it is switched from, with its lock.
LEMMA SchedKeeps ==
  ASSUME SchedInv, NEW c \in CPUs, NEW p \in Procs, SlSched(c, p) \/ YSched(c, p)
  PROVE  SchedInv'
<1>0. TypeOK /\ Cpu(c) /\ Threads  BY DEF SchedInv
<1>n. p \in Locks /\ Tickslock \in Locks /\ p # Tickslock /\ p # NoProc  BY Numbers
<1>1. /\ ~Interrupted(c) /\ Runs(c) /\ on[c] = p /\ spc[c] = "swtched"
      /\ pc[p] \in {"sl_sched", "y_sched"}
      /\ UNCHANGED <<machine, on, scan, ipc, iw, back, wait, due>>
      /\ spc' = [spc EXCEPT ![c] = "back"]
      /\ saved' = [saved EXCEPT ![p] = intena[c]]
  BY DEF SlSched, YSched, Sched, AtProc, GotoSched, Runs, intrVars, lockVars
<1>2. /\ \E m \in {"sl_ret", "y_ret"} : pc' = [pc EXCEPT ![p] = m]
      /\ \E s \in {"RUNNABLE", "SLEEPING"} : state' = [state EXCEPT ![p] = s]
  BY DEF SlSched, YSched, Sched, GotoProc
<1>3. UNCHANGED <<owner, noff, intr, intena>>
  BY DEF SlSched, YSched, offVars, lockVars
<1>4. wait[c] = NoLock /\ noff[c] = 1 /\ Depth(c) = 1 /\ owner[p] = c
  BY <1>0, <1>n, <1>1
  DEF Cpu, Owns, Nests, Wants, Depth, SchedHas, ProcHas, IntrHas, AtSched, AtIntr, Interrupted, Runs,
      Parked, Calm
<1>5. ~intr[c]
  <2>1. noff[c] # 0  BY <1>4
  <2> QED BY <1>0, <2>1 DEF Cpu, Quiet
<1>6. /\ spc'[c] = "back" /\ pc'[p] \in Parked /\ state'[p] # "RUNNING"
      /\ pc' \in [Procs -> ProcLabels]
      /\ state' \in [Procs -> {"none", "RUNNABLE", "RUNNING", "SLEEPING"}]
  BY <1>0, <1>1, <1>2 DEF TypeOK, Parked, ProcLabels
<1>7. TypeOK'
  <2>1. saved' \in [Procs -> BOOLEAN]  BY <1>0, <1>1 DEF TypeOK
  <2>2. spc' \in [CPUs -> SchedLabels]  BY <1>0, <1>1 DEF TypeOK, SchedLabels
  <2> QED BY <1>0, <1>1, <1>3, <1>6, <2>1, <2>2 DEF TypeOK
<1>8. Cpu(c)'
  <2>1. Owns(c)'
    <3>1. \A M \in Locks : owner[M] = c <=> M = p
      BY <1>0, <1>1 DEF Cpu, Owns, SchedHas, ProcHas, IntrHas, Runs, Interrupted
    <3>2. scan[c] = p  BY <1>0, <1>1 DEF Cpu, Turn
    <3> QED BY <1>n, <1>1, <1>3, <1>6, <3>1, <3>2 DEF Owns, SchedHas, ProcHas, IntrHas, Runs, Interrupted
  <2>2. Nests(c)'  BY <1>1, <1>3, <1>4, <1>6 DEF Nests, Depth, Interrupted, Runs
  <2>3. Quiet(c)'  BY <1>1, <1>3, <1>5 DEF Quiet, Interrupted
  <2>4. Turn(c)'  BY <1>0, <1>1, <1>6 DEF Cpu, Turn, Runs, Interrupted
  <2> QED BY <2>1, <2>2, <2>3, <2>4 DEF Cpu
<1>9. \A d \in CPUs : d # c => on[d] # p  BY <1>0, <1>n, <1>1 DEF Threads
<1>10. \A d \in CPUs : d # c => Away(d)
  <2> TAKE d \in CPUs
  <2> SUFFICES ASSUME d # c PROVE Away(d)  OBVIOUS
  <2>1. on[d] # NoProc => on[d] \in Procs  BY <1>0 DEF TypeOK
  <2>2. on[d] # NoProc => pc'[on[d]] = pc[on[d]] /\ state'[on[d]] = state[on[d]]
    BY <1>0, <1>2, <1>9, <2>1 DEF TypeOK
  <2>3. spc'[d] = spc[d]  BY <1>0, <1>1 DEF TypeOK
  <2> QED BY <1>1, <1>3, <2>2, <2>3 DEF Away
<1>11. Threads'
  <2>1. ASSUME NEW q \in Procs, state'[q] = "RUNNING" PROVE \E d \in CPUs : Runs(d)' /\ on'[d] = q
    <3>1. q # p /\ state[q] = "RUNNING"  BY <1>0, <1>2, <1>6, <2>1 DEF TypeOK
    <3>2. PICK d \in CPUs : Runs(d) /\ on[d] = q  BY <1>0, <3>1 DEF Threads
    <3>3. Runs(d)' /\ on'[d] = q  BY <1>0, <1>1, <3>1, <3>2 DEF Runs, TypeOK
    <3> QED BY <3>3
  <2>2. ASSUME NEW q \in Procs, state'[q] # "RUNNING" PROVE pc'[q] \in Parked
    <3>1. q # p => state'[q] = state[q] /\ pc'[q] = pc[q]  BY <1>0, <1>2 DEF TypeOK
    <3> QED BY <1>0, <1>6, <2>2, <3>1 DEF Threads
  <2> QED BY <1>0, <1>1, <2>1, <2>2 DEF Threads
<1> QED BY <1>7, <1>8, <1>10, <1>11, Together

LEMMA ProcessKeeps ==
  ASSUME SchedInv, NEW c \in CPUs, NEW p \in Procs,
         SysSleep(c, p) \/ SleepStep(c, p) \/ YieldStep(c, p)
  PROVE  SchedInv'
BY SpinsKeep, ProcMoves, ProcTakes, ProcDrops, SchedKeeps DEF SleepStep, YieldStep

-----------------------------------------------------------------------------
(* The timer interrupt.                                                     *)

\* What the handler finds under it has no lock.
LEMMA UnderHandler ==
  ASSUME SchedInv, NEW c \in CPUs, Base(c)
  PROVE  \A L \in Locks : ~SchedHas(c, L) /\ ~ProcHas(c, L)
BY DEF Base, SchedHas, ProcHas, Runs, Parked, Calm

\* Where the handler goes on, and nothing else changes but locks and a state that is
\* not RUNNING.
LEMMA IntrFrame ==
  ASSUME SchedInv, NEW c \in CPUs,
         \A d \in CPUs : d # c =>
           /\ ipc'[d] = ipc[d] /\ iw'[d] = iw[d]
           /\ wait'[d] = wait[d] /\ noff'[d] = noff[d]
           /\ intena'[d] = intena[d] /\ intr'[d] = intr[d]
           /\ \A L \in Locks : owner'[L] = d <=> owner[L] = d,
         \A p \in Procs : state'[p] = "RUNNING" <=> state[p] = "RUNNING",
         UNCHANGED <<machine, on, spc, scan, pc, back>>
  PROVE  (\A d \in CPUs : d # c => Away(d)) /\ Threads'
<1>1. \A d \in CPUs : on[d] # NoProc => on[d] \in Procs  BY DEF SchedInv, TypeOK
<1>2. \A d \in CPUs : d # c => Away(d)  BY <1>1 DEF Away
<1>3. Threads'  BY SameThreads DEF Runs
<1> QED BY <1>2, <1>3

\* The handler begins, goes on and ends.
LEMMA IntrMoves ==
  ASSUME SchedInv, NEW c \in CPUs, Timer(c) \/ Tick(c) \/ WakeSelf(c) \/ IntrRet(c)
  PROVE  SchedInv'
<1>0. TypeOK /\ Cpu(c)  BY DEF SchedInv
<1>1. PICK m \in IntrLabels :
        /\ ipc' = [ipc EXCEPT ![c] = m]
        /\ <<ipc[c], m>> \in {<<"none", "clock">>, <<"none", "ret">>, <<"tick", "wake">>,
                              <<"wake", "wake">>, <<"ret", "none">>}
  <2>1. WakeSelf(c) => ipc' = [ipc EXCEPT ![c] = "wake"] /\ ipc[c] = "wake"
    BY <1>0 DEF WakeSelf, AtIntr, TypeOK
  <2>2. IntrLabels = {"none", "clock", "tick", "wake", "wtest", "ret"}  BY DEF IntrLabels
  <2>3. CASE Timer(c)  BY <2>2, <2>3 DEF Timer, Interrupted, GotoIntr
  <2>4. CASE Tick(c) \/ WakeSelf(c) \/ IntrRet(c)
    BY <2>1, <2>2, <2>4 DEF Tick, IntrRet, AtIntr, GotoIntr
  <2> QED BY <2>3, <2>4
<1>2. UNCHANGED <<machine, owner, wait, noff, intena, on, spc, scan, state, pc, back, saved>>
  BY DEF Timer, Tick, WakeSelf, IntrRet, lockVars, offVars, schedVars, procVars
<1>3. /\ iw' = iw \/ \E i \in 1 .. NPROC + 1 : iw' = [iw EXCEPT ![c] = i]
      /\ due' \in [Procs -> Nat]
  <2>1. machine.procs <= NPROC /\ NPROC \in Nat
    BY <1>0, Numbers, SchedAssumption DEF Procs
  <2>2. due' = due \/ due' = [p \in Procs |-> IF due[p] = 0 THEN 0 ELSE due[p] - 1]
    BY DEF Timer, Tick, WakeSelf, IntrRet, procVars
  <2>3. ASSUME WakeSelf(c) PROVE \E i \in 1 .. NPROC + 1 : iw' = [iw EXCEPT ![c] = i]
    <3>1. iw[c] \in 1 .. NPROC + 1 /\ iw[c] <= machine.procs /\ machine.procs \in Nat
      BY <1>0, <2>3, Numbers DEF TypeOK, WakeSelf
    <3>2. iw[c] + 1 \in 1 .. NPROC + 1  BY <2>1, <3>1
    <3>3. iw' = [iw EXCEPT ![c] = iw[c] + 1]  BY <2>3 DEF WakeSelf
    <3> QED BY <3>2, <3>3
  <2>4. ASSUME ~WakeSelf(c) PROVE iw' = iw \/ \E i \in 1 .. NPROC + 1 : iw' = [iw EXCEPT ![c] = i]
    <3>1. iw' = iw \/ iw' = [iw EXCEPT ![c] = 1]  BY <2>4 DEF Timer, Tick, IntrRet
    <3> QED BY <2>1, <3>1
  <2>5. due' \in [Procs -> Nat]  BY <1>0, <2>2 DEF TypeOK
  <2> QED BY <2>3, <2>4, <2>5
<1>4. /\ \E e \in BOOLEAN : intr' = [intr EXCEPT ![c] = e]
      /\ ipc[c] # "ret" => ~intr'[c]
  <2>1. CASE Timer(c)  BY <1>0, <2>1 DEF Timer, TypeOK
  <2>2. CASE Tick(c) \/ WakeSelf(c)
    <3>1. intr' = intr /\ ~intr[c]
      BY <1>0, <2>2 DEF Tick, WakeSelf, AtIntr, offVars, Cpu, Quiet, Interrupted
    <3>2. intr' = [intr EXCEPT ![c] = intr[c]] /\ intr[c] \in BOOLEAN  BY <1>0, <3>1 DEF TypeOK
    <3> QED BY <3>1, <3>2
  <2>3. CASE IntrRet(c)  BY <2>3 DEF IntrRet, AtIntr
  <2> QED BY <2>1, <2>2, <2>3
<1>5. (\A d \in CPUs : d # c => Away(d)) /\ Threads'
  <2>1. \A d \in CPUs : d # c =>
           /\ ipc'[d] = ipc[d] /\ iw'[d] = iw[d]
           /\ wait'[d] = wait[d] /\ noff'[d] = noff[d]
           /\ intena'[d] = intena[d] /\ intr'[d] = intr[d]
           /\ \A L \in Locks : owner'[L] = d <=> owner[L] = d
    BY <1>0, <1>1, <1>2, <1>3, <1>4 DEF TypeOK
  <2> QED BY <1>2, <2>1, IntrFrame
<1>6. ipc'[c] = m /\ TypeOK'
  <2>1. ipc' \in [CPUs -> IntrLabels] /\ ipc'[c] = m /\ intr' \in [CPUs -> BOOLEAN]
    BY <1>0, <1>1, <1>4 DEF TypeOK
  <2>2. iw' \in [CPUs -> 1 .. NPROC + 1]  BY <1>0, <1>3 DEF TypeOK
  <2> QED BY <1>0, <1>2, <1>3, <2>1, <2>2 DEF TypeOK
<1>7. Base(c)
  <2>1. Interrupted(c) \/ intr[c]
    BY DEF Timer, Tick, WakeSelf, IntrRet, AtIntr, Interrupted
  <2> QED BY <1>0, <2>1 DEF Cpu, Quiet
<1>8. /\ wait[c] = NoLock
      /\ noff[c] = IF ipc[c] \in {"tick", "wake"} THEN 1 ELSE 0
  <2>1. CASE Timer(c)
    <3>1. noff[c] = 0 /\ ipc[c] = "none"  BY <1>0, <2>1 DEF Timer, Interrupted, Cpu, Quiet
    <3>2. wait[c] = NoLock  BY <1>0, <3>1, DepthBound DEF Cpu, Nests
    <3> QED BY <3>1, <3>2
  <2>2. CASE ~Timer(c)
    <3>1. wait[c] = NoLock
      <4>1. ipc[c] \in {"tick", "ret"} \/ (ipc[c] = "wake" /\ iw[c] = on[c] /\ iw[c] <= machine.procs)
        BY <2>2 DEF Tick, WakeSelf, IntrRet, AtIntr
      <4>2. wait[c] # NoLock => Wants(c, wait[c])  BY <1>0 DEF Cpu, Nests
      <4> QED BY <4>1, <4>2 DEF Wants, AtSched, AtIntr, Interrupted
    <3>2. noff[c] = Depth(c)  BY <1>0, <3>1 DEF Cpu, Nests
    <3> QED BY <1>1, <2>2, <3>1, <3>2 DEF Depth, Interrupted, Tick, WakeSelf, IntrRet, AtIntr
  <2> QED BY <2>1, <2>2
<1>9. Cpu(c)'
  <2>1. Owns(c)'
    BY <1>0, <1>1, <1>2, <1>6 DEF Cpu, Owns, SchedHas, ProcHas, IntrHas, Runs
  <2>b. Base(c)'  BY <1>2, <1>7 DEF Base, Runs
  <2>2. Nests(c)'
    BY <1>1, <1>2, <1>6, <1>8, <2>b DEF Nests, Depth, Interrupted, Runs, Base, Calm
  <2>3. Quiet(c)'
    <3>1. Interrupted(c) /\ noff[c] > 0 => ~intena[c]  BY <1>0 DEF Cpu, Quiet
    <3> QED BY <1>1, <1>2, <1>4, <1>6, <1>8, <2>b, <3>1 DEF Quiet, Interrupted
  <2>4. Turn(c)'  BY <1>0, <1>1, <1>2, <1>6 DEF Cpu, Turn, Runs
  <2> QED BY <2>1, <2>2, <2>3, <2>4 DEF Cpu
<1> QED BY <1>5, <1>6, <1>9, Together

\* It takes tickslock, or the lock of the process that it looks at.
LEMMA IntrTakes ==
  ASSUME SchedInv, NEW c \in CPUs, ClockLock(c) \/ WakeLock(c)
  PROVE  SchedInv'
<1>0. TypeOK /\ Cpu(c)  BY DEF SchedInv
<1>w. iw[c] <= machine.procs => iw[c] \in Locks /\ iw[c] # Tickslock
  BY <1>0, Numbers, SchedAssumption DEF TypeOK, Procs, Locks, Tickslock
<1>1. PICK L \in Locks, m \in IntrLabels :
        /\ Take(c, L) /\ ipc' = [ipc EXCEPT ![c] = m]
        /\ \/ ipc[c] = "clock" /\ L = Tickslock /\ m = "tick"
           \/ ipc[c] = "wake" /\ L = iw[c] /\ m = "wtest" /\ iw[c] <= machine.procs
  BY <1>w, Numbers DEF ClockLock, WakeLock, AtIntr, GotoIntr, IntrLabels
<1>2. UNCHANGED <<machine, noff, intena, intr, on, spc, scan, iw, state, pc, back, saved, due>>
  BY DEF ClockLock, WakeLock, Take, offVars, schedVars, procVars
<1>3. /\ wait[c] = L /\ owner[L] = NoCpu /\ owner' = [owner EXCEPT ![L] = c]
      /\ wait' = [wait EXCEPT ![c] = NoLock]
  BY <1>1 DEF Take
<1>4. /\ \A M \in Locks : owner'[M] = c <=> (owner[M] = c \/ M = L)
      /\ \A d \in CPUs, M \in Locks : d # c => (owner'[M] = d <=> owner[M] = d)
  BY <1>0, <1>1, TakesElsewhere
<1>5. (\A d \in CPUs : d # c => Away(d)) /\ Threads'
  <2>1. \A d \in CPUs : d # c =>
           /\ ipc'[d] = ipc[d] /\ iw'[d] = iw[d]
           /\ wait'[d] = wait[d] /\ noff'[d] = noff[d]
           /\ intena'[d] = intena[d] /\ intr'[d] = intr[d]
           /\ \A M \in Locks : owner'[M] = d <=> owner[M] = d
    BY <1>0, <1>1, <1>2, <1>3, <1>4 DEF TypeOK
  <2> QED BY <1>2, <2>1, IntrFrame
<1>6. ipc'[c] = m /\ wait'[c] = NoLock /\ TypeOK'  BY <1>0, <1>1, <1>2, <1>3 DEF TypeOK
<1>7. noff[c] = Depth(c) + 1  BY <1>0, <1>3, Numbers DEF Cpu, Nests
<1>8. Base(c) /\ ~intr[c] /\ (noff[c] > 0 => ~intena[c])
  BY <1>0, <1>1 DEF Cpu, Quiet, Interrupted
<1>9. Cpu(c)'
  <2>1. Owns(c)'
    <3>1. \A M \in Locks : ~SchedHas(c, M) /\ ~ProcHas(c, M)  BY <1>8, UnderHandler
    <3>2. \A M \in Locks : ~SchedHas(c, M)' /\ ~ProcHas(c, M)'
      BY <1>2, <3>1 DEF SchedHas, ProcHas, Runs
    <3>3. \A M \in Locks : IntrHas(c, M)' <=> (IntrHas(c, M) \/ M = L)
      BY <1>1, <1>2, <1>6 DEF IntrHas
    <3> QED BY <1>0, <1>4, <3>1, <3>2, <3>3 DEF Cpu, Owns
  <2>2. Nests(c)'  BY <1>1, <1>6, <1>7, <1>2 DEF Nests, Depth, Interrupted
  <2>3. Quiet(c)'
    BY <1>2, <1>8, <1>6 DEF Quiet, Base, Runs, Interrupted
  <2>4. Turn(c)'  BY <1>0, <1>1, <1>2, <1>6 DEF Cpu, Turn, Runs
  <2> QED BY <2>1, <2>2, <2>3, <2>4 DEF Cpu
<1> QED BY <1>5, <1>6, <1>9, Together

\* It has looked at a process, or at all of them.
LEMMA IntrDrops ==
  ASSUME SchedInv, NEW c \in CPUs, WakeTest(c) \/ ClockRel(c)
  PROVE  SchedInv'
<1>0. TypeOK /\ Cpu(c) /\ machine.procs \in Procs  BY Numbers DEF SchedInv
<1>w. iw[c] <= machine.procs => iw[c] \in Procs /\ iw[c] \in Locks /\ iw[c] # Tickslock
  BY <1>0, Numbers, SchedAssumption, SMTT(30) DEF TypeOK, Procs, Locks, Tickslock
<1>1. PICK L \in Locks, m \in IntrLabels :
        /\ Drop(c, L) /\ ipc' = [ipc EXCEPT ![c] = m]
        /\ \/ ipc[c] = "wtest" /\ L = iw[c] /\ m = "wake" /\ L # Tickslock /\ L \in Procs
           \/ ipc[c] = "wake" /\ L = Tickslock /\ m = "ret" /\ iw[c] > machine.procs
  <2>1. CASE WakeTest(c)
    <3>1. iw[c] <= machine.procs  BY <1>0, <2>1 DEF Cpu, Turn, WakeTest, AtIntr
    <3> QED BY <1>w, <2>1, <3>1 DEF WakeTest, AtIntr, GotoIntr, IntrLabels
  <2>2. CASE ClockRel(c)  BY <2>2, Numbers DEF ClockRel, AtIntr, GotoIntr, IntrLabels
  <2> QED BY <2>1, <2>2
<1>2. /\ owner' = [owner EXCEPT ![L] = NoCpu] /\ noff' = [noff EXCEPT ![c] = noff[c] - 1]
      /\ intr' = [intr EXCEPT ![c] = intr[c] \/ (noff[c] = 1 /\ intena[c])]
      /\ intena' = [intena EXCEPT ![c] = intena[c]]
      /\ UNCHANGED <<wait, machine, on, spc, scan, pc, back, saved, due>>
  BY <1>1 DEF WakeTest, ClockRel, Drop, DropWith, schedVars, procVars
<1>3. Base(c) /\ ~intr[c] /\ (noff[c] > 0 => ~intena[c])
  BY <1>0, <1>1 DEF Cpu, Quiet, Interrupted
<1>4. /\ owner[L] = c /\ wait[c] = NoLock /\ noff[c] = Depth(c)
      /\ Depth(c) = IF ipc[c] = "wtest" THEN 2 ELSE 1
  BY <1>0, <1>1, Numbers DEF Cpu, Owns, IntrHas, Nests, Wants, Depth, AtSched, AtIntr, Interrupted, TypeOK
<1>5. /\ \A M \in Locks : owner'[M] = c <=> (owner[M] = c /\ M # L)
      /\ \A d \in CPUs, M \in Locks : d # c => (owner'[M] = d <=> owner[M] = d)
  <2>1. owner[L] = c /\ owner' = [owner EXCEPT ![L] = NoCpu]  BY <1>2, <1>4
  <2> QED BY <1>0, <2>1, DropsElsewhere
<1>6. /\ iw' = iw \/ (ipc[c] = "wtest" /\ iw' = [iw EXCEPT ![c] = iw[c] + 1])
      /\ iw' \in [CPUs -> 1 .. NPROC + 1]
  <2>1. CASE WakeTest(c)
    <3>1. iw' = [iw EXCEPT ![c] = iw[c] + 1] /\ ipc[c] = "wtest"  BY <2>1 DEF WakeTest, AtIntr
    <3>2. iw[c] \in Procs  BY <1>0, <1>w, <3>1 DEF Cpu, Turn
    <3>3. iw[c] + 1 \in 1 .. NPROC + 1  BY <3>2, SchedAssumption DEF Procs
    <3> QED BY <1>0, <3>1, <3>3 DEF TypeOK
  <2>2. CASE ClockRel(c)  BY <1>0, <2>2 DEF ClockRel, TypeOK
  <2> QED BY <2>1, <2>2
<1>7. /\ state' \in [Procs -> {"none", "RUNNABLE", "RUNNING", "SLEEPING"}]
      /\ \A p \in Procs : state'[p] = "RUNNING" <=> state[p] = "RUNNING"
  <2>1. CASE WakeTest(c)
    <3>1. state' = [state EXCEPT ![iw[c]] = IF @ = "SLEEPING" THEN "RUNNABLE" ELSE @]
      BY <2>1 DEF WakeTest
    <3> QED BY <1>0, <3>1 DEF TypeOK
  <2>2. CASE ClockRel(c)  BY <1>0, <2>2 DEF ClockRel, procVars, TypeOK
  <2> QED BY <2>1, <2>2
<1>8. (\A d \in CPUs : d # c => Away(d)) /\ Threads'
  <2>1. \A d \in CPUs : d # c =>
           /\ ipc'[d] = ipc[d] /\ iw'[d] = iw[d]
           /\ wait'[d] = wait[d] /\ noff'[d] = noff[d]
           /\ intena'[d] = intena[d] /\ intr'[d] = intr[d]
           /\ \A M \in Locks : owner'[M] = d <=> owner[M] = d
    <3> TAKE d \in CPUs
    <3> SUFFICES ASSUME d # c
                 PROVE  /\ ipc'[d] = ipc[d] /\ iw'[d] = iw[d]
                        /\ wait'[d] = wait[d] /\ noff'[d] = noff[d]
                        /\ intena'[d] = intena[d] /\ intr'[d] = intr[d]
                        /\ \A M \in Locks : owner'[M] = d <=> owner[M] = d
      OBVIOUS
    <3>1. iw'[d] = iw[d]  BY <1>0, <1>6 DEF TypeOK
    <3>2. /\ ipc'[d] = ipc[d] /\ wait'[d] = wait[d] /\ noff'[d] = noff[d]
          /\ intena'[d] = intena[d] /\ intr'[d] = intr[d]
      BY <1>0, <1>1, <1>2 DEF TypeOK
    <3> QED BY <1>5, <3>1, <3>2
  <2> QED BY <1>2, <1>7, <2>1, IntrFrame
<1>9. noff'[c] = Depth(c) - 1 /\ ~intr'[c] /\ intena'[c] = intena[c] /\ ipc'[c] = m
  <2>1. noff'[c] = Depth(c) - 1 /\ intena'[c] = intena[c] /\ ipc'[c] = m
    BY <1>0, <1>1, <1>2, <1>4 DEF TypeOK
  <2>2. ~(intr[c] \/ (noff[c] = 1 /\ intena[c]))  BY <1>3
  <2>3. intr'[c] = (intr[c] \/ (noff[c] = 1 /\ intena[c]))  BY <1>0, <1>2 DEF TypeOK
  <2> QED BY <2>1, <2>2, <2>3
<1>10. TypeOK'
  <2>1. noff' \in [CPUs -> 0 .. 3]  BY <1>0, <1>2, <1>4 DEF TypeOK
  <2>2. /\ intr' \in [CPUs -> BOOLEAN] /\ intena' \in [CPUs -> BOOLEAN]
        /\ owner' \in [Locks -> CPUs \cup {NoCpu}] /\ ipc' \in [CPUs -> IntrLabels]
    BY <1>0, <1>1, <1>2 DEF TypeOK
  <2> QED BY <1>0, <1>2, <1>6, <1>7, <2>1, <2>2 DEF TypeOK
<1>11. Cpu(c)'
  <2>1. Owns(c)'
    <3>1. \A M \in Locks : ~SchedHas(c, M) /\ ~ProcHas(c, M)  BY <1>3, UnderHandler
    <3>2. \A M \in Locks : ~SchedHas(c, M)' /\ ~ProcHas(c, M)'
      BY <1>2, <3>1 DEF SchedHas, ProcHas, Runs
    <3>3. \A M \in Locks : IntrHas(c, M)' <=> (IntrHas(c, M) /\ M # L)
      BY <1>1, <1>9 DEF IntrHas
    <3> QED BY <1>0, <1>5, <3>1, <3>2, <3>3 DEF Cpu, Owns
  <2>2. Nests(c)'  BY <1>1, <1>2, <1>4, <1>9 DEF Nests, Depth, Interrupted
  <2>3. Quiet(c)'
    <3>1. ~intena[c]  BY <1>3, <1>4
    <3> QED BY <1>1, <1>2, <1>3, <1>9, <3>1 DEF Quiet, Base, Runs, Interrupted
  <2>4. Turn(c)'
    <3>1. Runs(c) \/ spc[c] = "back" => on[c] \in Procs  BY OnIsProc
    <3> QED BY <1>0, <1>1, <1>2, <1>7, <1>9, <3>1 DEF Cpu, Turn, Runs
  <2> QED BY <2>1, <2>2, <2>3, <2>4 DEF Cpu
<1> QED BY <1>8, <1>10, <1>11, Together

\* The process that the handler has interrupted gives up the CPU.
LEMMA IntrYieldKeeps ==
  ASSUME SchedInv, NEW c \in CPUs, IntrYield(c)
  PROVE  SchedInv'
<1>0. TypeOK /\ Cpu(c) /\ Threads  BY DEF SchedInv
<1>1. ipc[c] = "ret" /\ on[c] # NoProc  BY DEF IntrYield, AtIntr
<1>2. Interrupted(c) /\ Base(c) /\ ~intr[c]  BY <1>0, <1>1 DEF Cpu, Quiet, Interrupted
<1>3. PICK p \in Procs : p = on[c]  BY <1>0, <1>1 DEF TypeOK
<1>4. Runs(c) /\ pc[p] \in Calm /\ spc[c] = "swtched" /\ state[p] = "RUNNING"
  BY <1>0, <1>1, <1>2, <1>3, OnIsProc DEF Base, Runs, Cpu, Turn
<1>5. /\ ipc' = [ipc EXCEPT ![c] = "none"] /\ back' = [back EXCEPT ![p] = pc[p]]
      /\ pc' = [pc EXCEPT ![p] = "y_lock"]
      /\ UNCHANGED <<machine, owner, wait, noff, intena, intr, on, spc, scan, iw, state, saved, due>>
  BY <1>3 DEF IntrYield, GotoIntr, GotoProc, lockVars, offVars, schedVars
<1>6. /\ ipc'[c] = "none" /\ pc'[p] = "y_lock" /\ back'[p] \in Calm
      /\ TypeOK' /\ \A q \in Procs : q # p => pc'[q] = pc[q] /\ back'[q] = back[q]
  BY <1>0, <1>4, <1>5 DEF TypeOK, IntrLabels, ProcLabels
<1>7. wait[c] = NoLock /\ noff[c] = 0
  BY <1>0, <1>1 DEF Cpu, Nests, Wants, Depth, AtSched, AtIntr, Interrupted
<1>8. Cpu(c)'
  <2>1. Owns(c)'
    BY <1>0, <1>1, <1>3, <1>4, <1>5, <1>6
    DEF Cpu, Owns, SchedHas, ProcHas, IntrHas, Runs, Parked, Calm
  <2>2. Nests(c)'
    BY <1>3, <1>4, <1>5, <1>6, <1>7 DEF Nests, Depth, Interrupted, Runs
  <2>3. Quiet(c)'  BY <1>2, <1>5, <1>6 DEF Quiet, Interrupted
  <2>4. Turn(c)'  BY <1>0, <1>5, <1>6 DEF Cpu, Turn, Runs
  <2> QED BY <2>1, <2>2, <2>3, <2>4 DEF Cpu
<1>9. \A d \in CPUs : d # c => Away(d)
  <2> TAKE d \in CPUs
  <2> SUFFICES ASSUME d # c PROVE Away(d)  OBVIOUS
  <2>1. on[d] # p /\ (on[d] # NoProc => on[d] \in Procs)
    BY <1>0, <1>1, <1>3 DEF Threads, TypeOK
  <2>2. ipc'[d] = ipc[d]  BY <1>0, <1>5 DEF TypeOK
  <2> QED BY <1>5, <1>6, <2>1, <2>2 DEF Away
<1>10. Threads'
  BY <1>0, <1>4, <1>5, <1>6 DEF Threads, Runs
<1> QED BY <1>6, <1>8, <1>9, <1>10, Together

LEMMA HandlerKeeps ==
  ASSUME SchedInv, NEW c \in CPUs, Timer(c) \/ IntrStep(c)
  PROVE  SchedInv'
BY SpinsKeep, IntrMoves, IntrTakes, IntrDrops, IntrYieldKeeps DEF IntrStep

-----------------------------------------------------------------------------
(* The theorems.                                                            *)

LEMMA SchedInit == Init => SchedInv
<1> SUFFICES ASSUME Init PROVE SchedInv  OBVIOUS
<1>1. PICK m \in Machines : Start(m)  BY DEF Init
<1>2. m.procs \in Procs /\ m.cpus \in Nat /\ 1 \in Procs
  BY SchedAssumption DEF Procs
<1>3. TypeOK
  <2>1. machine \in Machines  BY <1>1 DEF Start
  <2>2. spc \in [CPUs -> SchedLabels]  BY <1>1 DEF Start, SchedLabels
  <2>3. state \in [Procs -> {"none", "RUNNABLE", "RUNNING", "SLEEPING"}]  BY <1>1 DEF Start
  <2>4. /\ owner \in [Locks -> CPUs \cup {NoCpu}] /\ wait \in [CPUs -> Locks \cup {NoLock}]
        /\ noff \in [CPUs -> 0 .. 3] /\ intena \in [CPUs -> BOOLEAN] /\ intr \in [CPUs -> BOOLEAN]
    BY DEF Init
  <2>5. /\ on \in [CPUs -> Procs \cup {NoProc}] /\ scan \in [CPUs -> Procs]
        /\ ipc \in [CPUs -> IntrLabels] /\ iw \in [CPUs -> 1 .. NPROC + 1]
    BY <1>2, SchedAssumption DEF Init, IntrLabels
  <2>6. /\ pc \in [Procs -> ProcLabels] /\ back \in [Procs -> ProcLabels]
        /\ saved \in [Procs -> BOOLEAN] /\ due \in [Procs -> Nat]
    BY DEF Init, ProcLabels
  <2> QED BY <2>1, <2>2, <2>3, <2>4, <2>5, <2>6 DEF TypeOK
<1>4. ASSUME NEW c \in CPUs PROVE Cpu(c)
  <2>1. /\ wait[c] = NoLock /\ noff[c] = 0 /\ ~intr[c] /\ on[c] = NoProc /\ scan[c] = 1
        /\ ipc[c] = "none" /\ \A L \in Locks : owner[L] # c
    BY Numbers DEF Init
  <2>2. spc[c] = IF c < machine.cpus THEN "loop" ELSE "off"  BY <1>1 DEF Start
  <2>3. Owns(c)  BY <2>1, <2>2 DEF Owns, SchedHas, ProcHas, IntrHas, Runs
  <2>4. Nests(c)  BY <2>1, <2>2 DEF Nests, Depth, Interrupted, Runs
  <2>5. Quiet(c)  BY <2>1 DEF Quiet, Interrupted
  <2>6. Turn(c)
    <3>1. spc[c] = "off" <=> c >= machine.cpus  BY <1>1, <1>2, <2>2, Numbers DEF Start
    <3>2. scan[c] <= machine.procs  BY <1>1, <1>2, <2>1 DEF Start, Procs
    <3> QED BY <2>1, <2>2, <3>1, <3>2 DEF Turn, Runs
  <2> QED BY <2>3, <2>4, <2>5, <2>6 DEF Cpu
<1>5. Threads
  <2>1. \A p \in Procs : state[p] # "RUNNING"  BY <1>1 DEF Start
  <2> QED BY <2>1 DEF Init, Threads, Parked, Calm
<1> QED BY <1>3, <1>4, <1>5 DEF SchedInv

LEMMA SchedStutter == SchedInv /\ UNCHANGED vars => SchedInv'
<1> SUFFICES ASSUME SchedInv, UNCHANGED vars PROVE SchedInv'  OBVIOUS
<1> USE DEF vars, lockVars, offVars, schedVars, intrVars, procVars
<1>1. TypeOK'  BY DEF SchedInv, TypeOK
<1>2. \A d \in CPUs : Away(d)  BY DEF Away
<1>3. \A d \in CPUs : Cpu(d)'  BY <1>2, AwayKeeps
<1>4. Threads'  BY DEF SchedInv, Threads, Runs
<1> QED BY <1>1, <1>3, <1>4 DEF SchedInv

LEMMA SchedKept == SchedInv /\ [Next]_vars => SchedInv'
BY SchedStutter, SchedulerKeeps, HandlerKeeps, ProcessKeeps DEF Next

LEMMA SchedInvariant == Spec => []SchedInv
BY SchedInit, SchedKept, PTL DEF Spec

\* A CPU spins on no lock that it has, whatever it was interrupted in.
LEMMA NeverTwice ==
  ASSUME SchedInv, NEW c \in CPUs, wait[c] # NoLock
  PROVE  owner[wait[c]] # c /\ wait[c] \in Locks /\ Wants(c, wait[c]) /\ spc[c] # "off"
<1>1. TypeOK /\ Cpu(c)  BY DEF SchedInv
<1>2. wait[c] \in Locks /\ Wants(c, wait[c])  BY <1>1 DEF TypeOK, Cpu, Nests
<1>3. Interrupted(c) => Base(c)  BY <1>1 DEF Cpu, Quiet
<1>4. ~SchedHas(c, wait[c]) /\ ~ProcHas(c, wait[c]) /\ ~IntrHas(c, wait[c])
  <2>1. scan[c] # Tickslock /\ (iw[c] # Tickslock)
    BY <1>1, Numbers, SchedAssumption DEF TypeOK, Tickslock
  <2>2. Runs(c) => on[c] # Tickslock  BY OnIsProc, Numbers
  <2>3. CASE Interrupted(c)
    <3>1. ~SchedHas(c, wait[c]) /\ ~ProcHas(c, wait[c])  BY <1>3, <1>2, <2>3, UnderHandler
    <3> QED BY <1>2, <2>1, <2>3, <3>1 DEF Wants, IntrHas, AtSched, AtIntr
  <2>4. CASE ~Interrupted(c)
    BY <1>2, <2>1, <2>2, <2>4
    DEF Wants, SchedHas, ProcHas, IntrHas, AtSched, AtIntr, Interrupted, Runs, Parked
  <2> QED BY <2>3, <2>4
<1>5. spc[c] # "off"  BY <1>2, <1>3 DEF Wants, AtSched, AtIntr, Interrupted, Base, Runs
<1> QED BY <1>1, <1>2, <1>4, <1>5 DEF Cpu, Owns

LEMMA NoneOfItPanics == SchedInv => NoPanic
<1> SUFFICES ASSUME SchedInv, NEW c \in CPUs
             PROVE  /\ \A p \in Procs : AtProc(c, p, "sl_sched") \/ AtProc(c, p, "y_sched") =>
                         owner[p] = c /\ noff[c] = 1 /\ ~intr[c]
                    /\ wait[c] # NoLock => owner[wait[c]] # c
                    /\ \A L \in Locks : Releases(c, L) => owner[L] = c /\ noff[c] >= 1 /\ ~intr[c]
  BY DEF NoPanic
<1>0. TypeOK /\ Cpu(c)  BY DEF SchedInv
<1>1. ASSUME NEW p \in Procs, AtProc(c, p, "sl_sched") \/ AtProc(c, p, "y_sched")
      PROVE  owner[p] = c /\ noff[c] = 1 /\ ~intr[c]
  <2>1. wait[c] = NoLock /\ noff[c] = 1 /\ owner[p] = c
    BY <1>0, <1>1, Numbers
    DEF Cpu, Owns, ProcHas, Nests, Wants, Depth, AtProc, AtSched, AtIntr, Interrupted, Runs, Calm
  <2>2. noff[c] # 0  BY <2>1
  <2> QED BY <1>0, <2>1, <2>2 DEF Cpu, Quiet
<1>2. wait[c] # NoLock => owner[wait[c]] # c  BY NeverTwice
<1>3. ASSUME NEW L \in Locks, Releases(c, L)
      PROVE  owner[L] = c /\ noff[c] >= 1 /\ ~intr[c]
  <2>1. SchedHas(c, L) \/ ProcHas(c, L) \/ IntrHas(c, L)
    BY <1>3
    DEF Releases, SchedHas, ProcHas, IntrHas, AtSched, AtIntr, AtProc, Runs, Parked
  <2>2. owner[L] = c  BY <1>0, <2>1 DEF Cpu, Owns
  <2>3. Depth(c) >= 1
    BY <1>3 DEF Releases, Depth, AtSched, AtIntr, AtProc, Interrupted, Runs, Calm
  <2>4. noff[c] >= 1  BY <1>0, <2>3, DepthBound DEF Cpu, Nests
  <2>5. ~intr[c]  BY <1>0, <2>4 DEF Cpu, Quiet
  <2> QED BY <2>2, <2>4, <2>5
<1> QED BY <1>1, <1>2, <1>3

\* The checks of acquire(), release(), pop_off() and sched() that panic never do, and
\* no two CPUs are on one kernel stack (kernel/spinlock.c, kernel/proc.c).
THEOREM StacksAreNotShared == Spec => []OneStack
<1>1. SchedInv => OneStack
  <2> SUFFICES ASSUME SchedInv PROVE OneStack  OBVIOUS
  <2>1. TypeOK /\ NoPanic /\ Threads  BY NoneOfItPanics DEF SchedInv
  <2>2. ASSUME NEW c \in CPUs, on[c] # NoProc
        PROVE  state[on[c]] = "RUNNING" \/ owner[on[c]] = c
    <3>1. Cpu(c) /\ (Runs(c) \/ spc[c] = "back") /\ on[c] = scan[c] /\ on[c] \in Locks
      BY <2>2, OnIsProc, Numbers DEF SchedInv
    <3> QED BY <3>1 DEF Cpu, Turn, Owns, SchedHas
  <2> QED BY <2>1, <2>2 DEF OneStack, Threads
<1> QED BY <1>1, SchedInvariant, PTL

\* proc.h asks for p->lock where p->state is used: the CPU whose step changes it has
\* the lock.
THEOREM StatesChangeUnderLock == Spec => StateUnderLock
<1> DEFINE Locked == \A p \in Procs : state'[p] # state[p] =>
                       \E c \in CPUs : owner[p] = c /\ Moves(c)
<1>1. SchedInv /\ [Next]_vars => [Locked]_vars
  <2> SUFFICES ASSUME SchedInv, Next, NEW p \in Procs, state'[p] # state[p]
               PROVE  \E c \in CPUs : owner[p] = c /\ Moves(c)
    OBVIOUS
  <2>0. TypeOK /\ p \in Locks /\ p # NoProc  BY Numbers DEF SchedInv
  <2>1. PICK c \in CPUs :
          \/ Pick(c) \/ WakeTest(c) \/ \E q \in Procs : SlSched(c, q) \/ YSched(c, q)
    <3> USE DEF procVars
    <3>1. PICK c \in CPUs : \/ SchedStep(c) \/ Timer(c) \/ IntrStep(c)
                            \/ \E q \in Procs : SysSleep(c, q) \/ SleepStep(c, q) \/ YieldStep(c, q)
      BY DEF Next
    <3>2. CASE SchedStep(c)
      BY <3>2 DEF SchedStep, Loop, SchedSpin, Spin, PLock, PassOver, Back, TLock, TRel, PRel
    <3>3. CASE Timer(c) \/ IntrStep(c)
      BY <3>3 DEF Timer, IntrStep, IntrSpin, Spin, ClockLock, Tick, WakeSelf, WakeLock, ClockRel,
                  IntrRet, IntrYield
    <3>4. ASSUME NEW q \in Procs, SysSleep(c, q) \/ SleepStep(c, q) \/ YieldStep(c, q)
          PROVE  SlSched(c, q) \/ YSched(c, q)
      BY <3>4 DEF SysSleep, SleepStep, SleepSpin, Spin, SleepLock, SleepDone, SleepMore, KilledLock,
                  KilledRel, SlLock, SlRel, SlRet, SlRelock, YieldStep, YSpin, YLock, YRet, Forkret,
                  TrapReturn
    <3> QED BY <3>1, <3>2, <3>3, <3>4
  <2>2. Cpu(c) /\ c # NoCpu  BY Numbers DEF SchedInv
  <2>3. CASE Pick(c)
    <3>1. /\ spc[c] = "pick" /\ spc' = [spc EXCEPT ![c] = "swtched"]
          /\ on' = [on EXCEPT ![c] = scan[c]] /\ pc' = pc /\ ipc' = ipc
      BY <2>3 DEF Pick, AtSched, GotoSched, intrVars
    <3>2. owner[p] = c  BY <2>0, <2>2, <2>3 DEF TypeOK, Pick, AtSched, Cpu, Owns, SchedHas
    <3>3. Control(c)' # Control(c)  BY <2>0, <3>1 DEF Control, TypeOK
    <3>4. ASSUME NEW d \in CPUs, d # c PROVE Control(d)' = Control(d)
      <4>1. spc'[d] = spc[d] /\ on'[d] = on[d]  BY <2>0, <3>1, <3>4 DEF TypeOK
      <4> QED BY <3>1, <4>1 DEF Control
    <3> QED BY <3>2, <3>3, <3>4 DEF Moves
  <2>4. CASE WakeTest(c)
    <3>1. ipc[c] = "wtest" /\ ipc' = [ipc EXCEPT ![c] = "wake"] /\ UNCHANGED <<on, spc, pc>>
      BY <2>4 DEF WakeTest, AtIntr, GotoIntr, schedVars
    <3>2. owner[p] = c  BY <2>0, <2>2, <2>4 DEF TypeOK, WakeTest, AtIntr, Cpu, Owns, IntrHas
    <3>3. Control(c)' # Control(c)  BY <2>0, <3>1 DEF Control, TypeOK
    <3>4. \A d \in CPUs : d # c => Control(d)' = Control(d)  BY <2>0, <3>1 DEF Control, TypeOK
    <3> QED BY <3>2, <3>3, <3>4 DEF Moves
  <2>5. ASSUME NEW q \in Procs, SlSched(c, q) \/ YSched(c, q)
        PROVE  \E e \in CPUs : owner[p] = e /\ Moves(e)
    <3>1. /\ spc[c] = "swtched" /\ spc' = [spc EXCEPT ![c] = "back"] /\ on[c] = q
          /\ pc[q] \in {"sl_sched", "y_sched"} /\ UNCHANGED <<on, ipc>>
          /\ \E l \in {"sl_ret", "y_ret"} : pc' = [pc EXCEPT ![q] = l]
      BY <2>5 DEF SlSched, YSched, Sched, AtProc, GotoSched, GotoProc, intrVars
    <3>2. p = q  BY <2>0, <2>5 DEF SlSched, YSched, Sched, TypeOK
    <3>3. owner[p] = c  BY <2>0, <2>2, <3>1, <3>2 DEF Cpu, Owns, ProcHas, Runs
    <3>4. Control(c)' # Control(c)  BY <2>0, <3>1 DEF Control, TypeOK
    <3>5. ASSUME NEW d \in CPUs, d # c PROVE Control(d)' = Control(d)
      <4>1. on[d] # q  BY <2>0, <3>1, <3>2, <3>5 DEF SchedInv, Threads
      <4>2. spc'[d] = spc[d] /\ (on[d] # NoProc => pc'[on[d]] = pc[on[d]])
        BY <2>0, <3>1, <3>5, <4>1 DEF TypeOK
      <4> QED BY <3>1, <4>2 DEF Control
    <3> QED BY <3>3, <3>4, <3>5 DEF Moves
  <2> QED BY <2>1, <2>3, <2>4, <2>5
<1> QED BY <1>1, SchedInvariant, PTL DEF Spec, StateUnderLock

-----------------------------------------------------------------------------
(* No wakeup is lost.                                                       *)

\* From the test of sys_sleep() to release(lk) in sleep() nobody else has tickslock;
\* from there on p->lock keeps the wakeup() of the next tick away.
Dozing == {"ss_killed", "ss_krel", "sl_lock", "sl_rel"}

Coming(p) == \E c \in CPUs : ipc[c] \in {"wake", "wtest"} /\ iw[c] <= p

SleepInv ==
  /\ \A p \in Procs : pc[p] \in Dozing => due[p] # 0
  /\ \A p \in Procs : due[p] = 0 /\ (pc[p] = "sl_sched" \/ state[p] = "SLEEPING") => Coming(p)
  /\ \A p \in Procs : state[p] = "SLEEPING" => p <= machine.procs

\* A process on its way to sleep is on a CPU of its own, with the locks that it needs.
LEMMA OnTheWay ==
  ASSUME SchedInv, NEW p \in Procs, pc[p] \in Dozing \cup {"sl_sched"}
  PROVE  \E d \in CPUs : /\ on[d] = p /\ Runs(d) /\ ~Interrupted(d)
                         /\ pc[p] \in Dozing => owner[Tickslock] = d
                         /\ pc[p] = "sl_sched" => owner[p] = d
<1>1. TypeOK /\ Threads /\ p \in Locks /\ Tickslock \in Locks  BY Numbers DEF SchedInv
<1>2. state[p] = "RUNNING"  BY <1>1 DEF Threads, Parked, Dozing
<1>3. PICK d \in CPUs : Runs(d) /\ on[d] = p  BY <1>1, <1>2 DEF Threads
<1>4. Cpu(d)  BY DEF SchedInv
<1>5. ~Base(d)  BY <1>3 DEF Base, Runs, Calm, Dozing
<1>6. ~Interrupted(d)  BY <1>4, <1>5 DEF Cpu, Quiet
<1>7. pc[p] \in Dozing => owner[Tickslock] = d
  BY <1>1, <1>3, <1>4 DEF Cpu, Owns, ProcHas, Dozing
<1>8. pc[p] = "sl_sched" => owner[p] = d  BY <1>1, <1>3, <1>4 DEF Cpu, Owns, ProcHas
<1> QED BY <1>3, <1>6, <1>7, <1>8

\* A step that touches neither the handlers nor due nor a process about to sleep.
LEMMA SleepApart ==
  ASSUME SleepInv, UNCHANGED <<machine, ipc, iw>>,
         \A p \in Procs :
           /\ pc'[p] \in Dozing => due'[p] # 0
           /\ pc'[p] = "sl_sched" => due'[p] # 0 \/ (pc[p] = "sl_sched" /\ due'[p] = due[p])
           /\ state'[p] = "SLEEPING" =>
                \/ state[p] = "SLEEPING" /\ due'[p] = due[p]
                \/ pc[p] = "sl_sched" /\ due'[p] = due[p] /\ p <= machine.procs
  PROVE  SleepInv'
BY DEF SleepInv, Coming

LEMMA SleepSched ==
  ASSUME SchedInv, SleepInv, NEW c \in CPUs, SchedStep(c)
  PROVE  SleepInv'
<1>1. UNCHANGED <<machine, ipc, iw, pc, due>>
  BY DEF SchedStep, Loop, SchedSpin, Spin, PLock, Pick, PassOver, Back, TLock, TRel, PRel,
         schedVars, intrVars, procVars
<1>2. state' = state \/ state' = [state EXCEPT ![scan[c]] = "RUNNING"]
  BY DEF SchedStep, Loop, SchedSpin, Spin, PLock, Pick, PassOver, Back, TLock, TRel, PRel, procVars
<1>3. \A p \in Procs : state'[p] = "SLEEPING" => state[p] = "SLEEPING"
  BY <1>2 DEF SchedInv, TypeOK
<1> QED BY <1>1, <1>3, SleepApart DEF SleepInv

LEMMA SleepProc ==
  ASSUME SchedInv, SleepInv, NEW c \in CPUs, NEW p \in Procs,
         SysSleep(c, p) \/ SleepStep(c, p) \/ YieldStep(c, p)
  PROVE  SleepInv'
<1>0. TypeOK /\ Threads /\ Cpu(c)  BY DEF SchedInv
<1>1. UNCHANGED <<machine, ipc, iw>>
  BY DEF SysSleep, SleepStep, SleepSpin, Spin, SleepLock, SleepDone, SleepMore, KilledLock,
         KilledRel, SlLock, SlRel, SlSched, SlRet, SlRelock, YieldStep, YSpin, YLock, YSched, YRet,
         Forkret, TrapReturn, Sched, schedVars, intrVars
<1>2. AtProc(c, p, pc[p])
  BY DEF SysSleep, SleepStep, SleepSpin, SleepLock, SleepDone, SleepMore, KilledLock,
         KilledRel, SlLock, SlRel, SlSched, SlRet, SlRelock, YieldStep, YSpin, YLock, YSched, YRet,
         Forkret, AtProc
<1>3. state[p] = "RUNNING" /\ p <= machine.procs
  BY <1>0, <1>2, OnIsProc DEF AtProc, Runs, Cpu, Turn
<1>4. CASE SlSched(c, p) \/ YSched(c, p)
  <2>1. /\ \E l \in {"sl_ret", "y_ret"} : pc' = [pc EXCEPT ![p] = l]
        /\ \/ state' = [state EXCEPT ![p] = "SLEEPING"] /\ pc[p] = "sl_sched"
           \/ state' = [state EXCEPT ![p] = "RUNNABLE"]
        /\ due' = due
    BY <1>4 DEF SlSched, YSched, Sched, GotoProc, AtProc
  <2>2. \A q \in Procs : pc'[q] \in Dozing \cup {"sl_sched"} => pc'[q] = pc[q]
    BY <1>0, <2>1 DEF TypeOK, Dozing
  <2>3. \A q \in Procs : state'[q] = "SLEEPING" =>
                           state[q] = "SLEEPING" \/ (q = p /\ pc[q] = "sl_sched")
    BY <1>0, <2>1 DEF TypeOK
  <2> QED BY <1>1, <1>3, <2>1, <2>2, <2>3, SleepApart DEF SleepInv
<1>5. CASE ~(SlSched(c, p) \/ YSched(c, p))
  <2>1. state' = state
    BY <1>5 DEF SysSleep, SleepStep, SleepSpin, Spin, SleepLock, SleepDone, SleepMore, KilledLock,
         KilledRel, SlLock, SlRel, SlRet, SlRelock, YieldStep, YSpin, YLock, YRet,
         Forkret, TrapReturn, procVars
  <2>2. CASE SleepLock(c, p)
    <3>1. /\ pc' = [pc EXCEPT ![p] = "ss_test"]
          /\ \A q \in Procs : q # p => due'[q] = due[q]
      BY <1>0, <2>2 DEF SleepLock, GotoProc, TypeOK
    <3>2. \A q \in Procs : pc'[q] \in Dozing \cup {"sl_sched"} => q # p /\ pc'[q] = pc[q]
      BY <1>0, <3>1 DEF TypeOK, Dozing
    <3> QED BY <1>1, <1>3, <2>1, <3>1, <3>2, SleepApart DEF SleepInv
  <2>3. CASE ~SleepLock(c, p)
    <3>1. due' = due
      BY <1>5, <2>3 DEF SysSleep, SleepStep, SleepSpin, Spin, SleepDone, SleepMore, KilledLock,
         KilledRel, SlLock, SlRel, SlRet, SlRelock, YieldStep, YSpin, YLock, YRet,
         Forkret, TrapReturn, procVars
    <3>2. \/ pc' = pc
          \/ \E l \in ProcLabels \ (Dozing \cup {"sl_sched"}) : pc' = [pc EXCEPT ![p] = l]
          \/ (pc[p] \in Dozing \/ due[p] # 0) /\ \E l \in ProcLabels : pc' = [pc EXCEPT ![p] = l]
      <4>1. back[p] \in ProcLabels \ (Dozing \cup {"sl_sched"})
        BY <1>0 DEF Threads, Calm, Dozing, ProcLabels
      <4>2. CASE SleepSpin(c, p) \/ YSpin(c, p)
        BY <4>2 DEF SleepSpin, YSpin, Spin, procVars
      <4>3. CASE SysSleep(c, p) \/ SleepDone(c, p) \/ SlRet(c, p) \/ SlRelock(c, p)
        BY <4>3 DEF SysSleep, SleepDone, SlRet, SlRelock, GotoProc, Dozing, ProcLabels
      <4>4. CASE YLock(c, p) \/ YRet(c, p) \/ Forkret(c, p)
        BY <4>1, <4>4 DEF YLock, YRet, Forkret, TrapReturn, GotoProc, Dozing, ProcLabels
      <4>5. CASE SleepMore(c, p) \/ KilledLock(c, p) \/ KilledRel(c, p) \/ SlLock(c, p) \/ SlRel(c, p)
        BY <4>5 DEF SleepMore, KilledLock, KilledRel, SlLock, SlRel, AtProc, GotoProc, Dozing, ProcLabels
      <4> QED BY <1>5, <2>3, <4>2, <4>3, <4>4, <4>5 DEF SleepStep, YieldStep
    <3>3. \A q \in Procs : pc'[q] \in Dozing \cup {"sl_sched"} =>
                             pc'[q] = pc[q] \/ pc[q] \in Dozing \/ due[q] # 0
      BY <1>0, <3>2 DEF TypeOK
    <3>4. \A q \in Procs : pc[q] \in Dozing => due[q] # 0  BY DEF SleepInv
    <3> QED BY <1>1, <2>1, <3>1, <3>3, <3>4, SleepApart DEF SleepInv
  <2> QED BY <2>2, <2>3
<1> QED BY <1>4, <1>5

\* The tick, after which its wakeup() has everybody still to come to.
LEMMA SleepTick ==
  ASSUME SchedInv, SleepInv, NEW c \in CPUs, Tick(c)
  PROVE  SleepInv'
<1>0. TypeOK /\ Cpu(c) /\ Tickslock \in Locks  BY Numbers DEF SchedInv
<1>1. /\ ipc[c] = "tick" /\ ipc' = [ipc EXCEPT ![c] = "wake"] /\ iw' = [iw EXCEPT ![c] = 1]
      /\ UNCHANGED <<machine, pc, state>>
      /\ due' = [p \in Procs |-> IF due[p] = 0 THEN 0 ELSE due[p] - 1]
  BY DEF Tick, AtIntr, GotoIntr, schedVars
<1>2. ASSUME NEW p \in Procs PROVE Coming(p)'
  <2>1. ipc'[c] = "wake" /\ iw'[c] = 1  BY <1>0, <1>1 DEF TypeOK
  <2>2. 1 <= p  BY SchedAssumption DEF Procs
  <2> QED BY <2>1, <2>2 DEF Coming
<1>3. ASSUME NEW p \in Procs, pc[p] \in Dozing PROVE FALSE
  <2>1. PICK d \in CPUs : ~Interrupted(d) /\ owner[Tickslock] = d  BY <1>3, OnTheWay
  <2>2. owner[Tickslock] = c  BY <1>0, <1>1 DEF Cpu, Owns, IntrHas
  <2> QED BY <1>1, <2>1, <2>2 DEF Interrupted
<1> QED BY <1>1, <1>2, <1>3 DEF SleepInv

\* wakeup() passes by a process that it has found awake, or has just woken.
LEMMA SleepPasses ==
  ASSUME SchedInv, SleepInv, NEW c \in CPUs, WakeSelf(c) \/ WakeTest(c)
  PROVE  SleepInv'
<1>0. TypeOK /\ Cpu(c) /\ iw[c] \in Nat /\ Procs \subseteq Nat
  BY Numbers, SchedAssumption DEF SchedInv, TypeOK
<1>1. /\ Interrupted(c) /\ ipc[c] \in {"wake", "wtest"} /\ ipc' = [ipc EXCEPT ![c] = "wake"]
      /\ iw' = [iw EXCEPT ![c] = iw[c] + 1] /\ UNCHANGED <<machine, pc, due>>
  BY <1>0 DEF WakeSelf, WakeTest, AtIntr, Interrupted, GotoIntr, schedVars, procVars, TypeOK
<1>2. \A p \in Procs : state'[p] = "SLEEPING" => state[p] = "SLEEPING"
  BY <1>0 DEF WakeSelf, WakeTest, procVars, TypeOK
<1>3. Base(c)  BY <1>0, <1>1 DEF Cpu, Quiet
<1>4. ASSUME NEW p \in Procs, p = iw[c] PROVE state'[p] # "SLEEPING" /\ pc[p] # "sl_sched"
  <2>1. CASE WakeSelf(c)
    <3>1. on[c] = p /\ p # NoProc  BY <1>4, <2>1, Numbers DEF WakeSelf
    <3>2. Runs(c) \/ spc[c] = "back"  BY <3>1, OnIsProc
    <3>3. Runs(c) /\ pc[p] \in Calm /\ state[p] = "RUNNING" /\ state' = state
      BY <1>0, <1>3, <2>1, <3>1, <3>2 DEF Base, Cpu, Turn, Runs, WakeSelf, procVars
    <3> QED BY <3>3 DEF Calm
  <2>2. CASE WakeTest(c)
    <3>1. state'[p] # "SLEEPING"  BY <1>0, <1>4, <2>2 DEF WakeTest, TypeOK
    <3>2. owner[p] = c  BY <1>0, <1>4, <2>2, Numbers DEF WakeTest, AtIntr, Cpu, Owns, IntrHas
    <3>3. pc[p] = "sl_sched" => \E d \in CPUs : ~Interrupted(d) /\ owner[p] = d  BY OnTheWay
    <3> QED BY <1>1, <3>1, <3>2, <3>3
  <2> QED BY <2>1, <2>2
<1>5. ASSUME NEW p \in Procs, p # iw[c], Coming(p) PROVE Coming(p)'
  <2>1. PICK d \in CPUs : ipc[d] \in {"wake", "wtest"} /\ iw[d] <= p  BY <1>5 DEF Coming
  <2>2. ipc'[d] \in {"wake", "wtest"}  BY <1>0, <1>1, <2>1 DEF TypeOK
  <2>3. CASE d = c
    <3>1. iw'[c] = iw[c] + 1  BY <1>0, <1>1 DEF TypeOK
    <3>2. p \in Nat  BY <1>0
    <3> QED BY <1>0, <1>5, <2>1, <2>2, <2>3, <3>1, <3>2 DEF Coming
  <2>4. CASE d # c
    <3>1. iw'[d] = iw[d]  BY <1>0, <1>1, <2>4 DEF TypeOK
    <3> QED BY <2>1, <2>2, <3>1 DEF Coming
  <2> QED BY <2>3, <2>4
<1> QED BY <1>1, <1>2, <1>4, <1>5 DEF SleepInv

LEMMA SleepHandler ==
  ASSUME SchedInv, SleepInv, NEW c \in CPUs, Timer(c) \/ IntrStep(c)
  PROVE  SleepInv'
<1>0. TypeOK /\ Threads /\ machine.procs \in Nat /\ iw[c] \in Nat /\ Procs \subseteq Nat
  BY Numbers, SchedAssumption DEF SchedInv, TypeOK
<1>1. CASE Tick(c) \/ WakeSelf(c) \/ WakeTest(c)  BY <1>1, SleepTick, SleepPasses
<1>2. CASE IntrSpin(c)
  <2>1. UNCHANGED <<machine, ipc, iw, pc, state, due>>
    BY <1>2 DEF IntrSpin, Spin, schedVars, intrVars, procVars
  <2> QED BY <2>1 DEF SleepInv, Coming
<1>3. CASE IntrYield(c)
  <2>1. /\ ipc[c] = "ret" /\ ipc' = [ipc EXCEPT ![c] = "none"] /\ pc' = [pc EXCEPT ![on[c]] = "y_lock"]
        /\ UNCHANGED <<machine, iw, state, due>>
    BY <1>3 DEF IntrYield, AtIntr, GotoIntr, GotoProc, schedVars
  <2>2. \A d \in CPUs : ipc[d] \in {"wake", "wtest"} => ipc'[d] = ipc[d]  BY <1>0, <2>1 DEF TypeOK
  <2>3. \A p \in Procs : pc'[p] \in Dozing \cup {"sl_sched"} => pc'[p] = pc[p]
    BY <1>0, <2>1 DEF TypeOK, Dozing
  <2>4. \A p \in Procs : Coming(p) => Coming(p)'  BY <2>1, <2>2 DEF Coming
  <2> QED BY <2>1, <2>3, <2>4 DEF SleepInv
<1>4. CASE Timer(c) \/ ClockLock(c) \/ WakeLock(c) \/ ClockRel(c) \/ IntrRet(c)
  <2>1. UNCHANGED <<machine, iw, pc, state, due>>
    BY <1>4 DEF Timer, ClockLock, WakeLock, ClockRel, IntrRet, schedVars, procVars
  <2>2. /\ \E l \in IntrLabels : ipc' = [ipc EXCEPT ![c] = l]
        /\ ipc[c] = "wake" => ipc'[c] = "wtest" \/ iw[c] > machine.procs
        /\ ipc[c] # "wtest"
    BY <1>0, <1>4 DEF Timer, ClockLock, WakeLock, ClockRel, IntrRet, AtIntr, Interrupted, GotoIntr,
                      IntrLabels, TypeOK
  <2>3. ASSUME NEW p \in Procs, p <= machine.procs, Coming(p) PROVE Coming(p)'
    <3>1. PICK d \in CPUs : ipc[d] \in {"wake", "wtest"} /\ iw[d] <= p  BY <2>3 DEF Coming
    <3>2. d = c => iw[c] <= machine.procs /\ ipc[c] = "wake"
      <4>1. p \in Nat  BY <1>0
      <4> QED BY <1>0, <2>2, <2>3, <3>1, <4>1
    <3>3. d = c => ipc'[d] = "wtest"
      <4>1. iw[c] <= machine.procs => ~(iw[c] > machine.procs)  BY <1>0
      <4> QED BY <2>2, <3>2, <4>1
    <3>4. d # c => ipc'[d] = ipc[d]  BY <1>0, <2>2 DEF TypeOK
    <3> QED BY <2>1, <3>1, <3>3, <3>4 DEF Coming
  <2>4. \A p \in Procs : pc[p] = "sl_sched" => p <= machine.procs
    <3> TAKE p \in Procs
    <3> HAVE pc[p] = "sl_sched"
    <3>1. PICK d \in CPUs : on[d] = p /\ Runs(d)  BY OnTheWay
    <3> QED BY <3>1, OnIsProc DEF SchedInv, Cpu, Turn
  <2> QED BY <2>1, <2>3, <2>4 DEF SleepInv
<1> QED BY <1>1, <1>2, <1>3, <1>4 DEF IntrStep

LEMMA SleepKept == SchedInv /\ SleepInv /\ [Next]_vars => SleepInv'
<1>1. SchedInv /\ SleepInv /\ Next => SleepInv'
  BY SleepSched, SleepProc, SleepHandler DEF Next
<1>2. SleepInv /\ UNCHANGED vars => SleepInv'
  BY DEF SleepInv, Coming, vars, lockVars, offVars, schedVars, intrVars, procVars
<1> QED BY <1>1, <1>2

\* Between the test of sys_sleep() and the SLEEPING of sleep() no tick is missed: who
\* sleeps although its time is up is still to be seen by the wakeup() of that tick.
THEOREM NoWakeupIsLost == Spec => []NoSleepPast
<1>1. Init => SleepInv
  <2> SUFFICES ASSUME Init PROVE SleepInv  OBVIOUS
  <2>1. \A p \in Procs : pc[p] = "forkret" /\ state[p] # "SLEEPING"  BY DEF Init, Start
  <2> QED BY <2>1 DEF SleepInv, Dozing
<1>2. SleepInv => NoSleepPast  BY DEF SleepInv, NoSleepPast, Coming
<1> QED BY <1>1, <1>2, SleepKept, SchedInvariant, PTL DEF Spec

\* tickslock comes before any p->lock, and lab02 takes no lock under a p->lock: its
\* CPUs never spin in a circle. lab3 takes tickslock under p->lock in the scheduler,
\* which does no harm on one CPU.
THEOREM SpinningEnds ==
  Spec => [](machine.kernel = "lab02" \/ machine.cpus = 1 => SpinDeadlockFree)
<1>1. SchedInv => (machine.kernel = "lab02" \/ machine.cpus = 1 => SpinDeadlockFree)
  <2> SUFFICES ASSUME SchedInv, machine.kernel = "lab02" \/ machine.cpus = 1,
                      NEW C \in SUBSET CPUs, C # {},
                      \A c \in C : wait[c] # NoLock /\ owner[wait[c]] \in C
               PROVE  FALSE
    BY DEF SpinDeadlockFree
  <2>1. \A c \in C : /\ wait[c] \in Locks /\ owner[wait[c]] # c /\ Wants(c, wait[c])
                     /\ spc[c] # "off" /\ Cpu(c)
    BY NeverTwice DEF SchedInv
  <2>2. CASE machine.cpus = 1
    <3>1. \A c \in C : c \in Nat /\ c < 1  BY <2>1, <2>2, Numbers DEF Cpu, Turn
    <3> QED BY <2>1, <3>1
  <2>3. CASE machine.kernel = "lab02"
    <3>1. ASSUME NEW c \in C PROVE wait[c] = Tickslock
      <4>1. PICK d \in C : d = owner[wait[c]]  OBVIOUS
      <4>2. SchedHas(d, wait[c]) \/ ProcHas(d, wait[c]) \/ IntrHas(d, wait[c])
        BY <2>1, <4>1 DEF Cpu, Owns
      <4>3. Wants(d, wait[d]) /\ spc[d] \notin {"tlock", "trel"}  BY <2>1, <2>3 DEF Cpu, Turn
      <4>4. Interrupted(d) => Base(d)  BY <2>1 DEF Cpu, Quiet
      <4>5. CASE Interrupted(d)
        <5>1. IntrHas(d, wait[c])  BY <4>2, <4>4, <4>5, <2>1, UnderHandler
        <5> QED BY <4>3, <4>5, <5>1 DEF Wants, IntrHas, AtSched, AtIntr
      <4>6. CASE ~Interrupted(d)
        BY <4>2, <4>3, <4>6
        DEF Wants, SchedHas, ProcHas, IntrHas, AtSched, AtIntr, Interrupted, Runs, Parked
      <4> QED BY <4>5, <4>6
    <3>2. PICK c \in C : TRUE  OBVIOUS
    <3>3. PICK d \in C : d = owner[wait[c]]  OBVIOUS
    <3> QED BY <2>1, <3>1, <3>2, <3>3
  <2> QED BY <2>2, <2>3
<1> QED BY <1>1, SchedInvariant, PTL

=============================================================================
