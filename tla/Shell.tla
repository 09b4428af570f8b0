-------------------------------- MODULE Shell --------------------------------
(***************************************************************************)
(* The xv6 shell (user/sh.c) and the programs echo and cat that it runs    *)
(* (user/echo.c, user/cat.c), over the system calls of Files.              *)
(***************************************************************************)
EXTENDS Files, ShParse

CONSTANTS
  Scripts,   \* what to look at: lines of tokens, the number of faults, NOFILE
  Text,      \* the bytes of a word
  Newline    \* the byte that echo writes after the last one

VARIABLES script,  \* the one that sh is given
          lines    \* what is left of it, as the parser will find it

vars == <<filesVars, script, lines>>

sh == 2
console == 1

NoFile == [ref |-> 0, type |-> "none", readable |-> FALSE, writable |-> FALSE, pi |-> None]

\* init has the console as its standard input and output, and sh has inherited
\* that. Messages go nowhere: descriptor 2 is left out.
Init ==
  /\ script \in Scripts
  /\ NOFILE = script.nofile
  /\ state = [p \in Procs |-> IF p \in {initproc, sh} THEN "alive" ELSE "unused"]
  /\ parent = [p \in Procs |-> IF p = sh THEN initproc ELSE None]
  /\ killed = [p \in Procs |-> FALSE]
  /\ ofile = [p \in Procs |-> [fd \in Fd |->
                IF p \in {initproc, sh} /\ fd < 2 THEN console ELSE None]]
  /\ asleep = [p \in Procs |-> None]
  /\ todo = [p \in Procs |-> CASE p = initproc -> <<Wait>> [] p = sh -> <<[op |-> "main"]>>
                               [] OTHER -> <<>>]
  /\ ret = [p \in Procs |-> <<>>]
  /\ file = [f \in File |-> IF f = console
               THEN [NoFile EXCEPT !.ref = 4, !.type = "dev", !.readable = TRUE, !.writable = TRUE]
               ELSE NoFile]
  /\ pipe = [pi \in Pages |-> NoPipe]
  /\ cut = {}
  /\ out = <<>>
  /\ faults = script.faults
  /\ lines = [i \in DOMAIN script.lines |-> parsecmd(script.lines[i])]

-----------------------------------------------------------------------------
(* main() and runcmd()                                                      *)

\* The process runs what it is told, if the parser has not made it panic.
Run(c) == [op |-> "run", cmd |-> c]
Runs(r) == <<IF r.ok THEN Run(r.cmd) ELSE Exit>>
Main == [op |-> "main"]
Fork1(child) == [op |-> "fork1", child |-> child]

\* fork1(): what the child does, and what its parent goes on with; when fork()
\* fails the program ends.
fork1(p, child, next) ==
  \/ fork(p, child, next)
  \/ ForkFails(p) /\ todo' = [todo EXCEPT ![p] = <<Exit>>]

\* The next line.
main(p) ==
  /\ Call(p, "main")
  /\ lines # <<>>
  /\ fork1(p, Runs(Head(lines)), <<Wait, Main>>)
  /\ lines' = Tail(lines)
  /\ UNCHANGED script

Running(p, t) == Call(p, "run") /\ Head(todo[p]).cmd.type = t
filesRest == <<NOFILE, procVars, ofile, asleep, ret, file, pipe, cut, out>>
Becomes(p, ops) ==
  /\ todo' = [todo EXCEPT ![p] = ops]
  /\ UNCHANGED <<filesRest, script, lines>>

\* echo writes each word, and a blank or the newline behind it.
Echo(argv) ==
  FlattenSeq([i \in 1 .. Len(argv) - 1 |-> <<Write(1, Text[argv[i + 1]]), Write(1, <<Newline>>)>>])
Cat == <<Read(0), [op |-> "catwrite"]>>

\* exec() may fail, and then the child goes on to exit().
RunExec(p) ==
  LET argv == Head(todo[p]).cmd.argv
  IN  /\ Running(p, "EXEC")
      /\ \/ /\ argv # <<>> /\ argv[1] \in {"echo", "cat"}
            /\ Becomes(p, IF argv[1] = "cat" THEN Cat ELSE Echo(argv) \o <<Exit>>)
            /\ UNCHANGED faults
         \/ /\ IF argv = <<>> \/ argv[1] \notin {"echo", "cat"}
                 THEN UNCHANGED faults
                 ELSE faults > 0 /\ faults' = faults - 1
            /\ Becomes(p, <<Exit>>)

\* close(), open(), and the command itself. For < the descriptor is 0, and the
\* mode O_RDONLY.
RunRedir(p) ==
  LET c == Head(todo[p]).cmd
  IN  /\ Running(p, "REDIR")
      /\ Becomes(p, <<Close(IF c.mode = "<" THEN 0 ELSE 1),
                      [op |-> "open", reads |-> c.mode = "<"], Run(c.cmd)>>)
      /\ UNCHANGED faults

RunList(p) ==
  LET c == Head(todo[p]).cmd
  IN  /\ Running(p, "LIST")
      /\ fork1(p, <<Run(c.left)>>, <<Wait, Run(c.right)>>)
      /\ UNCHANGED <<script, lines>>

RunPipe(p) ==
  /\ Running(p, "PIPE")
  /\ Becomes(p, <<Pipe, [op |-> "piped", cmd |-> Head(todo[p]).cmd]>>)
  /\ UNCHANGED faults

\* Mutant: the shell keeps its write end while it waits.
Piped_KeepsEnd(p) ==
  /\ Call(p, "piped")
  /\ LET c == Head(todo[p]).cmd
         r == ret[p][1]
         w == ret[p][2]
     IN  IF ret[p] = None
           THEN Go(p, <<Exit>>) /\ UNCHANGED <<faults, filesRest>>
           ELSE fork1(p, <<Close(1), Dup(w), Close(r), Close(w), Run(c.left)>>,
                      <<Fork1(<<Close(0), Dup(r), Close(r), Close(w), Run(c.right)>>),
                        Close(r), Wait, Wait, Close(w), Exit>>)
  /\ UNCHANGED <<script, lines>>

\* pipe() has returned.
Piped(p) ==
  /\ Call(p, "piped")
  /\ LET c == Head(todo[p]).cmd
         r == ret[p][1]
         w == ret[p][2]
     IN  IF ret[p] = None
           THEN Go(p, <<Exit>>) /\ UNCHANGED <<faults, filesRest>>
           ELSE fork1(p, <<Close(1), Dup(w), Close(r), Close(w), Run(c.left)>>,
                      <<Fork1(<<Close(0), Dup(r), Close(r), Close(w), Run(c.right)>>),
                        Close(r), Close(w), Wait, Wait, Exit>>)
  /\ UNCHANGED <<script, lines>>

\* The second fork1() of a pipeline.
Fork(p) ==
  /\ Call(p, "fork1")
  /\ fork1(p, Head(todo[p]).child, <<>>)
  /\ UNCHANGED <<script, lines>>

RunBack(p) ==
  /\ Running(p, "BACK")
  /\ fork1(p, <<Run(Head(todo[p]).cmd.cmd)>>, <<Exit>>)
  /\ UNCHANGED <<script, lines>>

runcmd(p) == RunExec(p) \/ RunRedir(p) \/ RunList(p) \/ RunPipe(p) \/ Piped(p) \/ Fork(p) \/ RunBack(p)

\* The part of open() that concerns files: the shell exits when it fails, for want
\* of a file or a descriptor, or because there is no inode to read.
open(p) ==
  /\ Call(p, "open")
  /\ \/ /\ Free # {}
        /\ Unopened(p) # {}
        /\ file' = [file EXCEPT ![Lowest(Free)] =
                     [@ EXCEPT !.ref = 1, !.type = "inode", !.readable = Head(todo[p]).reads,
                               !.writable = ~Head(todo[p]).reads]]
        /\ ofile' = [ofile EXCEPT ![p][Lowest(Unopened(p))] = Lowest(Free)]
        /\ todo' = [todo EXCEPT ![p] = Tail(@)]
     \/ /\ Free = {} \/ Unopened(p) = {} \/ Head(todo[p]).reads
        /\ todo' = [todo EXCEPT ![p] = <<Exit>>]
        /\ UNCHANGED <<file, ofile>>
  /\ UNCHANGED <<NOFILE, procVars, asleep, ret, pipe, cut, out, faults, script, lines>>

\* cat(0): what read() has returned is written, until there is nothing more or
\* one of the two fails.
cat(p) ==
  /\ \/ /\ Call(p, "catwrite")
        /\ Becomes(p, IF ret[p] \in {None, <<>>} THEN <<Exit>>
                      ELSE <<Write(1, ret[p]), [op |-> "catloop"]>>)
     \/ /\ Call(p, "catloop")
        /\ Becomes(p, IF ret[p] = None THEN <<Exit>> ELSE Cat)
  /\ UNCHANGED faults

-----------------------------------------------------------------------------
Step(p) ==
  \/ (SysCall(p) /\ UNCHANGED <<script, lines>>)
  \/ main(p) \/ runcmd(p) \/ open(p) \/ cat(p)

Next == \E p \in Procs : Step(p) \/ (kill(p) /\ UNCHANGED <<script, lines>>)

\* The scheduler runs a process as long as one can run, whichever it likes: no
\* program here computes for ever, so more fairness is not needed.
Fairness == WF_vars(\E p \in Procs : Step(p))

Spec == Init /\ [][Next]_vars /\ Fairness

-----------------------------------------------------------------------------
TypeOK == FilesTypeOK /\ Len(lines) <= Len(script.lines)

\* How often a file is referred to: by descriptors, and by calls that have a file
\* in hand and no descriptor for it.
InHand(p) == SelectSeq(todo[p], LAMBDA o : o.op \in {"pipe2", "fileclose"})
Refs(f) ==
  FoldFunction(+, 0, [p \in Procs |->
    Cardinality({fd \in Fd : ofile[p][fd] = f}) +
    Cardinality({i \in DOMAIN InHand(p) : InHand(p)[i].f = f})])

\* A file is counted as often as it is used, whatever fails or is killed: none is
\* reused under a process, and none is lost.
RefsCounted == TypeOK /\ \A f \in File : file[f].ref = Refs(f)

\* The end of a pipe is open exactly as long as there is a file for it or a
\* process about to close it: no use after kfree(), no end left open.
End(pi, w) ==
  \/ \E f \in File : file[f].ref > 0 /\ file[f].type = "pipe" /\ file[f].pi = pi /\ file[f].writable = w
  \/ \E p \in Procs : /\ todo[p] # <<>> /\ Head(todo[p]).op = "pipeclose"
                      /\ Head(todo[p]).pi = pi /\ Head(todo[p]).writable = w

EndsMatch ==
  \A pi \in Pages :
    /\ pipe[pi].readopen <=> End(pi, FALSE)
    /\ pipe[pi].writeopen <=> End(pi, TRUE)
    /\ pipe[pi].inuse <=> End(pi, TRUE) \/ End(pi, FALSE)

\* Nobody sleeps on a pipe that has what it waits for; but for the bytes that a
\* killed writer has left unannounced.
NobodyMissesBytes ==
  \A p \in Procs, pi \in Pages :
    /\ asleep[p] = <<"nread", pi>> =>
         pipe[pi].writeopen /\ (Count(pipe[pi]) = 0 \/ pi \in cut)
    /\ asleep[p] = <<"nwrite", pi>> => pipe[pi].readopen /\ Count(pipe[pi]) = PIPESIZE

\* A pipe lives as long as its ends, and whoever waits at one end is told of what
\* happens at the other, its close included; files are counted as they are used.
PipesRight == RefsCounted /\ EndsMatch /\ NobodyMissesBytes

\* The bytes that an echo writes come out in its order, each of them once and
\* none before those in front of it, through however many cats; and all of them,
\* when nothing has gone wrong and no process is left.
CameOut(words) ==
  SelectSeq(out, LAMBDA b : \E i \in DOMAIN words : b \in Range(Text[words[i]]))

Over == lines = <<>> /\ \A p \in Procs \ {initproc, sh} : state[p] = "unused"

OutputRight ==
  \A e \in script.echoes :
    LET all == FlattenSeq([i \in DOMAIN e.words |-> Text[e.words[i]]])
    IN  /\ IsPrefix(CameOut(e.words), all)
        /\ Over /\ todo[sh] = <<Main>> /\ faults = script.faults /\ NOFILE > 3 /\ e.out =>
             CameOut(e.words) = all

\* The parser is right about the grammar, and so about what the shell is to run.
ParserRight ==
  RoundTrip /\ \A i \in DOMAIN lines : lines[i].ok => parsecmd(Unparse(lines[i].cmd)) = lines[i]

\* Every line ends, whatever fails and whoever is killed: the shell asks for the
\* next one until there is none, or is gone itself, and then nothing is left open.
ShellEnds ==
  <>[](/\ state[sh] = "unused" \/ (Over /\ todo[sh] = <<Main>>)
       /\ \A p \in Procs \ {initproc, sh} : state[p] = "unused"
       /\ \A f \in File : file[f].ref = IF f # console THEN 0 ELSE IF state[sh] = "alive" THEN 4 ELSE 2
       /\ \A pi \in Pages : ~pipe[pi].inuse)
=============================================================================
