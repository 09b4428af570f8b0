------------------------------- MODULE MCInodes -------------------------------
(* The file systems to begin with are a root with nothing in it, and one     *)
(* with a directory d and a file in it, where one process is in d and has    *)
(* the file open.                                                            *)
EXTENDS Inodes, TLC

Symmetry == Permutations(Procs)

P(names) == [abs |-> TRUE, names |-> names]
Here(names) == [abs |-> FALSE, names |-> names]
Call(k, p) == [k |-> k, path |-> p, new |-> P(<<>>), trunc |-> k = "create"]

MCCalls ==
  {Call("create", P(<<"x">>)), Call("create", P(<<"d", "x">>)), Call("create", Here(<<"x">>)),
   Call("mkdir", P(<<"d">>)), Call("unlink", P(<<"d">>)), Call("unlink", P(<<"x">>)),
   Call("unlink", P(<<"d", "x">>)), Call("open", P(<<"d", "x">>)), Call("chdir", P(<<"d">>)),
   [Call("link", P(<<"x">>)) EXCEPT !.new = P(<<"d", "x">>)],
   Call("write", P(<<>>)), Call("read", P(<<>>)), Call("close", P(<<>>))}

Folder(n, k, b) == [type |-> "dir", nlink |-> n, size |-> k, addrs |-> [NoInode.addrs EXCEPT ![1] = b]]
File(n, b) == [type |-> "file", nlink |-> n, size |-> 1, addrs |-> [NoInode.addrs EXCEPT ![1] = b]]
Dots(i, j) == <<Entry(".", i), Entry("..", j)>>
Table(inodes, refs) ==
  [s \in Slot |-> IF s \in DOMAIN refs
                   THEN [inum |-> s, ref |-> refs[s], valid |-> TRUE, lock |-> None, ino |-> inodes[s]]
                   ELSE Empty]

\* A root with nothing in it.
Bare ==
  LET inodes == [i \in Inum |-> IF i = 1 THEN Folder(1, 2, 1) ELSE NoInode]
  IN  [dinode |-> inodes,
       dirent |-> [i \in Inum |-> IF i = 1 THEN Dots(1, 1) ELSE <<>>],
       bitmap |-> {1},
       itable |-> Table(inodes, <<Cardinality(Procs)>>),
       cwd |-> [p \in Procs |-> 1],
       fd |-> [p \in Procs |-> None]]

\* A directory d with a file x in it; q is in d and has x open.
Inside(q) ==
  LET inodes == [i \in Inum |-> CASE i = 1 -> Folder(2, 3, 1) [] i = 2 -> Folder(1, 3, 2)
                                   [] i = 3 -> File(1, 3) [] OTHER -> NoInode]
  IN  [dinode |-> inodes,
       dirent |-> [i \in Inum |-> CASE i = 1 -> Append(Dots(1, 1), Entry("d", 2))
                                    [] i = 2 -> Append(Dots(2, 1), Entry("x", 3))
                                    [] OTHER -> <<>>],
       bitmap |-> {1, 2, 3},
       itable |-> Table(inodes, <<Cardinality(Procs) - 1, 1, 1>>),
       cwd |-> [p \in Procs |-> IF p = q THEN 2 ELSE 1],
       fd |-> [p \in Procs |-> IF p = q THEN [ip |-> 3, off |-> 1] ELSE None]]

MCTrees == {Bare} \cup {Inside(q) : q \in Procs}
=============================================================================
