--------------------------------- MODULE Mkfs ---------------------------------
(***************************************************************************)
(* mkfs/mkfs.c: the program that writes the first image of the disk, a     *)
(* root directory with a file for each argument. It has no kernel under    *)
(* it: inodes and blocks are handed out by counting, and the bitmap is     *)
(* written at the end from the last count. A block holds PerBlock units; a *)
(* unit is a number: a unit of a file's contents, the inum of a directory  *)
(* entry (the names are left out), or a block number in an indirect block. *)
(***************************************************************************)
EXTENDS Integers, Sequences, FiniteSets

CONSTANTS
  PerBlock,    \* units per block, of each kind
  NDIRECT,     \* direct blocks of an inode; an indirect block has PerBlock more
  FSSIZE,      \* blocks of the image
  NINODES,     \* inodes, of which number 0 is not used
  NMeta,       \* boot block, superblock, log, inode and bitmap blocks
  ImageFiles   \* the contents of the files to choose from

BlockNo == 0 .. FSSIZE - 1
InodeNo == 0 .. NINODES - 1
RootIno == 1
Unwritten == [type |-> "free", nlink |-> 0, size |-> 0, addrs |-> [i \in 0 .. NDIRECT |-> 0]]
Zeroes == [j \in 0 .. PerBlock - 1 |-> 0]

VARIABLES
  args,        \* argv[2..]: the contents of the files
  mpc,         \* where main() is
  arg,         \* the loop variable i of main()
  pos,         \* how much of the file has been read
  freeinode,
  freeblock,
  dinode,      \* the inode blocks of the image
  blk,         \* its data blocks
  bitmap       \* the blocks that its bitmap marks

mkfsVars == <<args, mpc, arg, pos, freeinode, freeblock, dinode, blk, bitmap>>

MkfsStart(files, l) ==
  /\ args = files /\ mpc = l
  /\ arg = 1 /\ pos = 0
  /\ freeinode = RootIno /\ freeblock = NMeta
  /\ dinode = [i \in InodeNo |-> Unwritten]
  /\ blk = [b \in BlockNo |-> Zeroes]
  /\ bitmap = {}

MkfsIdle == MkfsStart(<<>>, "off")
MkfsInit == \E n \in 0 .. 3 : \E files \in [1 .. n -> ImageFiles] : MkfsStart(files, "root")

-----------------------------------------------------------------------------
(* What the helpers make of the image [inode, blk, free].                   *)

Image == [inode |-> dinode, blk |-> blk, free |-> freeblock]

\* ialloc()
Fresh(img, inum, t) ==
  [img EXCEPT !.inode[inum] = [Unwritten EXCEPT !.type = t, !.nlink = 1]]

\* The block of a direct address, with freeblock++ if there is none yet.
Direct(img, inum, fbn) ==
  IF img.inode[inum].addrs[fbn] # 0 THEN img
  ELSE [img EXCEPT !.inode[inum].addrs[fbn] = img.free, !.free = @ + 1]

\* Mutant: a fresh indirect block for every block it points to.
Indirect_Fresh(img, inum, fbn) ==
  LET a == [img EXCEPT !.inode[inum].addrs[NDIRECT] = img.free, !.free = @ + 1]
      ind == a.inode[inum].addrs[NDIRECT]
  IN  IF a.blk[ind][fbn - NDIRECT] # 0 THEN a
      ELSE [a EXCEPT !.blk[ind][fbn - NDIRECT] = a.free, !.free = @ + 1]

\* The same through the indirect block.
Indirect(img, inum, fbn) ==
  LET a == Direct(img, inum, NDIRECT)
      ind == a.inode[inum].addrs[NDIRECT]
  IN  IF a.blk[ind][fbn - NDIRECT] # 0 THEN a
      ELSE [a EXCEPT !.blk[ind][fbn - NDIRECT] = a.free, !.free = @ + 1]

Grown(img, inum, fbn) ==
  IF fbn < NDIRECT THEN Direct(img, inum, fbn) ELSE Indirect(img, inum, fbn)

Where(img, inum, fbn) ==
  LET addrs == img.inode[inum].addrs
  IN  IF fbn < NDIRECT THEN addrs[fbn] ELSE img.blk[addrs[NDIRECT]][fbn - NDIRECT]

\* iappend(): unit by unit, which comes to the same as n1 units at a time.
Append1(img, inum, u) ==
  LET off == img.inode[inum].size
      fbn == off \div PerBlock
      g == Grown(img, inum, fbn)
  IN  [g EXCEPT !.blk[Where(g, inum, fbn)][off % PerBlock] = u, !.inode[inum].size = off + 1]

iappend(img, inum, units) ==
  LET after[k \in 0 .. Len(units)] ==
        IF k = 0 THEN img ELSE Append1(after[k - 1], inum, units[k])
  IN  after[Len(units)]

Write(img) == dinode' = img.inode /\ blk' = img.blk /\ freeblock' = img.free

-----------------------------------------------------------------------------
(* main()                                                                   *)

\* The root directory with its two entries.
Root ==
  /\ mpc = "root"
  /\ Write(iappend(Fresh(Image, RootIno, "dir"), RootIno, <<RootIno, RootIno>>))
  /\ freeinode' = freeinode + 1
  /\ mpc' = "files"
  /\ UNCHANGED <<args, arg, pos, bitmap>>

\* The next file: its inode and its entry in the root directory.
Enter ==
  /\ mpc = "files"
  /\ arg <= Len(args)
  /\ Write(iappend(Fresh(Image, freeinode, "file"), RootIno, <<freeinode>>))
  /\ freeinode' = freeinode + 1
  /\ pos' = 0
  /\ mpc' = "copy"
  /\ UNCHANGED <<args, arg, bitmap>>

\* A block, or what is left, of the file is read and appended.
CopyBlock ==
  LET left == Len(args[arg]) - pos
      n == IF left < PerBlock THEN left ELSE PerBlock
  IN  /\ mpc = "copy"
      /\ left > 0
      /\ Write(iappend(Image, freeinode - 1, SubSeq(args[arg], pos + 1, pos + n)))
      /\ pos' = pos + n
      /\ UNCHANGED <<args, mpc, arg, freeinode, bitmap>>

CopyEnd ==
  /\ mpc = "copy"
  /\ pos = Len(args[arg])
  /\ arg' = arg + 1
  /\ mpc' = "files"
  /\ UNCHANGED <<args, pos, freeinode, freeblock, dinode, blk, bitmap>>

\* The size of the root directory becomes a multiple of a block, and the
\* bitmap is written.
Finish ==
  /\ mpc = "files"
  /\ arg > Len(args)
  /\ dinode' = [dinode EXCEPT ![RootIno].size = (@ \div PerBlock + 1) * PerBlock]
  /\ bitmap' = 0 .. freeblock - 1
  /\ mpc' = "done"
  /\ UNCHANGED <<args, arg, pos, freeinode, freeblock, blk>>

MkfsNext == Root \/ Enter \/ CopyBlock \/ CopyEnd \/ Finish

-----------------------------------------------------------------------------
\* The blocks of an inode: its data blocks and its indirect block.
Count(i) == (dinode[i].size + PerBlock - 1) \div PerBlock
Contents(i) ==
  [j \in 1 .. dinode[i].size |->
     blk[Where(Image, i, (j - 1) \div PerBlock)][(j - 1) % PerBlock]]
DataBlocks(i) == {Where(Image, i, f) : f \in 0 .. Count(i) - 1}
BlocksOf(i) ==
  DataBlocks(i) \cup (IF Count(i) > NDIRECT THEN {dinode[i].addrs[NDIRECT]} ELSE {})

\* Until the root's size is rounded up, at any moment: what the kernel would
\* read back is what was written, a block belongs to one inode and is none of
\* the metadata, and nothing is left out between the blocks handed out.
\* The bitmap then marks exactly those and the metadata (mkfs.c:68-173, 252-294).
ImageWritten ==
  /\ mpc \in {"files", "copy"} =>
       /\ \A i \in RootIno .. freeinode - 1 :
            /\ dinode[i].nlink = 1
            /\ Cardinality(BlocksOf(i)) = Count(i) + (IF Count(i) > NDIRECT THEN 1 ELSE 0)
            /\ \A j \in RootIno .. i - 1 : BlocksOf(i) \cap BlocksOf(j) = {}
       /\ UNION {BlocksOf(i) : i \in RootIno .. freeinode - 1} = NMeta .. freeblock - 1
       /\ Contents(RootIno) = <<RootIno, RootIno>> \o [k \in 1 .. freeinode - 2 |-> k + 1]
       /\ \A k \in 1 .. arg - 1 : Contents(k + 1) = args[k]
       /\ mpc = "copy" => Contents(arg + 1) = SubSeq(args[arg], 1, pos)
  /\ mpc = "done" => bitmap = 0 .. freeblock - 1 /\ freeinode = Len(args) + 2
=============================================================================
