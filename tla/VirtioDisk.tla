------------------------------ MODULE VirtioDisk ------------------------------
(***************************************************************************)
(* The disk driver (kernel/virtio_disk.c), its interrupt handler, and the  *)
(* device on the other side of the rings. A process runs virtio_disk_rw()  *)
(* for a buffer it has locked. A step is a section under vdisk_lock; the   *)
(* handler keeps that lock over several steps, as the device goes on       *)
(* writing the used ring meanwhile.                                        *)
(*                                                                         *)
(* Each request has three of the NUM descriptors, so neither ring of NUM   *)
(* entries is ever lapped, whatever the 16-bit indices count: a ring is    *)
(* here what is in it and not yet read. The device may take requests in    *)
(* one order and finish them in another, so the available ring is a set.   *)
(* Memory is sequentially consistent: the driver's barriers make it so.    *)
(***************************************************************************)
EXTENDS Integers, Sequences, FiniteSets

CONSTANTS
  Procs, Bufs, Blocks, Vals,
  Sizes,   \* the values of NUM to look at
  None     \* no buffer, no block, no process

ASSUME VirtioAssumption ==
  /\ \A n \in Sizes : n \in Nat /\ n >= 3
  /\ None \notin Procs \cup Bufs \cup Blocks
  /\ IsFiniteSet(Procs) /\ IsFiniteSet(Bufs)   \* NPROC, NBUF

VARIABLES
  \* shared with the processes
  pc,        \* where each process is
  buf,       \* its local b
  write,     \* the argument of virtio_disk_rw
  idx,       \* its idx[3]
  blockno, data, disk,   \* fields of struct buf
  \* struct disk
  NUM,       \* the number of descriptors, and of entries of each ring
  free, desc, info, ops,
  avail,     \* the heads of the chains that the device has been told of
  used,      \* the entries of the used ring from disk.used_idx on
  intr,      \* virtio_disk_intr() runs, and has vdisk_lock
  \* the device
  home,      \* the blocks
  irq        \* the interrupt status register

bufVars == <<blockno, data, disk>>
driverVars == <<NUM, free, desc, info, ops, intr>>
deviceVars == <<home, irq, avail, used>>
diskVars == <<pc, buf, write, idx, bufVars, driverVars, deviceVars>>

Desc == 0 .. NUM - 1

NoDesc == [addr |-> None, next |-> None]
NoReq == [write |-> FALSE, sector |-> None]

\* The state that virtio_disk_init() leaves.
VirtioInit ==
  /\ idx = [p \in Procs |-> <<>>]
  /\ write = [p \in Procs |-> FALSE]
  /\ disk = [b \in Bufs |-> FALSE]
  /\ NUM \in Sizes
  /\ free = Desc
  /\ desc = [i \in Desc |-> NoDesc]
  /\ info = [i \in Desc |-> [b |-> None, status |-> 0]]
  /\ ops = [i \in Desc |-> NoReq]
  /\ avail = {}
  /\ used = <<>>
  /\ intr = FALSE
  /\ home \in [Blocks -> Vals]
  /\ irq = FALSE

\* wakeup(chan), where chan is told by the label and the buffer.
Wake(l, ps, to) == [q \in Procs |-> IF pc[q] = l /\ q \in ps THEN to ELSE pc[q]]
WakeFree == Wake("desc_sleep", Procs, "rw")
WakeBuf(b) == Wake("disk_sleep", {q \in Procs : buf[q] = b}, "disk_wait")

-----------------------------------------------------------------------------
(* virtio_disk_rw()                                                         *)

\* alloc_desc(), three times.
Lowest(S) == CHOOSE i \in S : \A j \in S : i <= j
Three == LET i == Lowest(free)
             j == Lowest(free \ {i})
             k == Lowest(free \ {i, j})
         IN  <<i, j, k>>

\* The chain is formatted and handed to the device; then the process sleeps.
RwSubmit(p) ==
  /\ pc[p] = "rw"
  /\ ~intr
  /\ Cardinality(free) >= 3
  /\ LET t == Three
         b == buf[p]
     IN  /\ idx' = [idx EXCEPT ![p] = t]
         /\ free' = free \ {t[1], t[2], t[3]}
         /\ ops' = [ops EXCEPT ![t[1]] = [write |-> write[p], sector |-> blockno[b]]]
         /\ desc' = [desc EXCEPT ![t[1]] = [addr |-> t[1], next |-> t[2]],
                                 ![t[2]] = [addr |-> b, next |-> t[3]],
                                 ![t[3]] = [addr |-> t[1], next |-> None]]
         /\ info' = [info EXCEPT ![t[1]] = [b |-> b, status |-> 255]]
         /\ disk' = [disk EXCEPT ![b] = TRUE]
         /\ avail' = avail \cup {t[1]}
  /\ pc' = [pc EXCEPT ![p] = "disk_sleep"]
  /\ UNCHANGED <<NUM, buf, write, blockno, data, intr, home, irq, used>>

\* Mutant: the one or two descriptors are kept.
RwNoDesc_Keeps(p) ==
  /\ pc[p] = "rw"
  /\ ~intr
  /\ Cardinality(free) < 3
  /\ free' = {}
  /\ pc' = [pc EXCEPT ![p] = "desc_sleep"]
  /\ UNCHANGED <<NUM, buf, write, idx, bufVars, desc, info, ops, intr, deviceVars>>

\* alloc3_desc() gives back the one or two it has got, and free_desc() wakes the
\* others that wait for descriptors.
RwNoDesc(p) ==
  /\ pc[p] = "rw"
  /\ ~intr
  /\ Cardinality(free) < 3
  /\ pc' = [(IF free = {} THEN pc ELSE WakeFree) EXCEPT ![p] = "desc_sleep"]
  /\ UNCHANGED <<buf, write, idx, bufVars, driverVars, deviceVars>>

\* free_chain(): the three descriptors that the chain of a request links.
Chain(i) == {i, desc[i].next, desc[desc[i].next].next}

RwDone(p) ==
  /\ pc[p] = "disk_wait"
  /\ ~intr
  /\ ~disk[buf[p]]
  /\ info' = [info EXCEPT ![idx[p][1]].b = None]
  /\ LET c == Chain(idx[p][1])
     IN  /\ free' = free \cup c
         /\ desc' = [i \in Desc |-> IF i \in c THEN NoDesc ELSE desc[i]]
  /\ ops' = [ops EXCEPT ![idx[p][1]] = NoReq]
  /\ idx' = [idx EXCEPT ![p] = <<>>]
  /\ write' = [write EXCEPT ![p] = FALSE]
  /\ pc' = [WakeFree EXCEPT ![p] = "own"]
  /\ UNCHANGED <<NUM, buf, bufVars, intr, deviceVars>>

RwWait(p) ==
  /\ pc[p] = "disk_wait"
  /\ ~intr
  /\ disk[buf[p]]
  /\ pc' = [pc EXCEPT ![p] = "disk_sleep"]
  /\ UNCHANGED <<buf, write, idx, bufVars, driverVars, deviceVars>>

virtio_disk_rw(p) == RwSubmit(p) \/ RwNoDesc(p) \/ RwDone(p) \/ RwWait(p)

-----------------------------------------------------------------------------
(* virtio_disk_intr()                                                       *)

\* It takes the lock and acknowledges the interrupt, before it looks.
IntrAck ==
  /\ irq
  /\ ~intr
  /\ intr' = TRUE
  /\ irq' = FALSE
  /\ UNCHANGED <<NUM, pc, buf, write, idx, bufVars, free, desc, info, ops, home, avail, used>>

\* Mutant: one entry for each interrupt.
IntrEntry_Once ==
  /\ intr
  /\ used # <<>>
  /\ LET b == info[Head(used)].b
     IN  /\ disk' = [disk EXCEPT ![b] = FALSE]
         /\ pc' = WakeBuf(b)
  /\ used' = Tail(used)
  /\ intr' = FALSE
  /\ UNCHANGED <<NUM, buf, write, idx, blockno, data, free, desc, info, ops, home, irq, avail>>

\* That the status is 0, and the handler does not panic, is Answers below.
IntrEntry ==
  /\ intr
  /\ used # <<>>
  /\ LET b == info[Head(used)].b
     IN  /\ disk' = [disk EXCEPT ![b] = FALSE]
         /\ pc' = WakeBuf(b)
  /\ used' = Tail(used)
  /\ UNCHANGED <<buf, write, idx, blockno, data, driverVars, home, irq, avail>>

\* No entry is left, and the lock is given back.
IntrEnd ==
  /\ intr
  /\ used = <<>>
  /\ intr' = FALSE
  /\ UNCHANGED <<NUM, pc, buf, write, idx, bufVars, free, desc, info, ops, deviceVars>>

virtio_disk_intr == IntrAck \/ IntrEntry \/ IntrEnd

-----------------------------------------------------------------------------
(* The device follows a chain: the header, the data, the status. It does    *)
(* so in the order it likes, and announces each answer.                     *)

DevDone(id) ==
  /\ id \in avail
  /\ LET r == ops[desc[id].addr]
         b == desc[desc[id].next].addr
         s == desc[desc[desc[id].next].next].addr
     IN  /\ IF r.write
              THEN home' = [home EXCEPT ![r.sector] = data[b]] /\ UNCHANGED data
              ELSE data' = [data EXCEPT ![b] = home[r.sector]] /\ UNCHANGED home
         /\ info' = [info EXCEPT ![s].status = 0]
  /\ avail' = avail \ {id}
  /\ used' = Append(used, id)
  /\ irq' = TRUE
  /\ UNCHANGED <<NUM, pc, buf, write, idx, blockno, disk, free, desc, ops, intr>>

DiskNext == virtio_disk_intr \/ \E id \in Desc : DevDone(id)

-----------------------------------------------------------------------------
(* What must hold of the driver, whoever calls it.                          *)

DiskTypeOK ==
  /\ write \in [Procs -> BOOLEAN]
  /\ idx \in [Procs -> Seq(Desc)]
  /\ disk \in [Bufs -> BOOLEAN]
  /\ data \in [Bufs -> Vals]
  /\ free \in SUBSET Desc
  /\ desc \in [Desc -> [addr : Desc \cup Bufs \cup {None}, next : Desc \cup {None}]]
  /\ info \in [Desc -> [b : Bufs \cup {None}, status : {0, 255}]]
  /\ ops \in [Desc -> [write : BOOLEAN, sector : Blocks \cup {None}]]
  /\ avail \in SUBSET Desc
  /\ used \in Seq(Desc)
  /\ {intr, irq} \subseteq BOOLEAN
  /\ home \in [Blocks -> Vals]

\* A completion that the handler has not seen is announced, or the handler is
\* still at it; and a process asleep on a buffer has a request that the disk has
\* not answered.
NoLostCompletion ==
  /\ used # <<>> => irq \/ intr
  /\ \A p \in Procs : pc[p] = "disk_sleep" => disk[buf[p]] /\ info[idx[p][1]].b = buf[p]

\* Whoever waits for descriptors waits because there are too few.
NoLostDescriptor ==
  (\E p \in Procs : pc[p] = "desc_sleep") => Cardinality(free) < 3

\* Every descriptor is free, or belongs to the chain of one waiting request.
OwnedOnce ==
  /\ \A p, q \in Procs, i, j \in 1 .. 3 :
       idx[p] # <<>> /\ idx[q] # <<>> /\ <<p, i>> # <<q, j>> => idx[p][i] # idx[q][j]
  /\ free = Desc \ UNION {{idx[p][i] : i \in 1 .. Len(idx[p])} : p \in Procs}

\* "virtio_disk_intr status": the handler finds each answer's status written, and
\* not yet the 0xff of a new request that was given the same descriptors.
Answers == \A n \in 1 .. Len(used) : info[used[n]].status = 0

\* No two requests ever have a descriptor between them, and none is lost; so the
\* handler never finds that an answered request has no answer, and panics.
DescriptorsOwned == OwnedOnce /\ Answers
=============================================================================
