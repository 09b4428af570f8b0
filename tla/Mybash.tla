-------------------------------- MODULE Mybash --------------------------------
(***************************************************************************)
(* lab01: how mybash reads its input - the loop of main() (mybash.c) and   *)
(* parse_pipeline() (parsing.c) - and the commands it makes (command.c).   *)
(* The input is a sequence of tokens: words, < > | & and "nl"; blanks are  *)
(* left out. The functions of the parser library come without their source *)
(* (objects-x86_64/) and are taken as parser.h describes them: they look   *)
(* at the next token, and at_eof() is true once one has found the end.     *)
(*                                                                         *)
(* What execute_pipeline() does with a pipeline is not modelled.           *)
(***************************************************************************)
EXTENDS Integers, Sequences, FiniteSets

CONSTANTS
  MaxArgs,    \* MAX_LENGTH_SCOMMAND
  Words,      \* the words that may be typed
  Typed,      \* the inputs that are tried
  MaxRounds   \* bound on the rounds of the loop of main()

Operators == {"<", ">", "|", "&"}
Absent == "NULL"

VARIABLES
  input,     \* what was typed, for reference
  left,      \* what the parser has not consumed
  off,       \* parser_at_eof()
  rounds,    \* ghost: the rounds of the loop, each [from, pipe]
  quit       \* the loop is over

bashVars == <<input, left, off, rounds, quit>>

BashStart(t) == input = t /\ left = t /\ off = FALSE /\ rounds = <<>> /\ quit = FALSE
BashInit == \E t \in Typed : BashStart(t)
BashIdle == BashStart(<<>>)

-----------------------------------------------------------------------------
(* The parser library. A parser is [in, off]; a call gives what it found    *)
(* and the parser after it.                                                 *)

Peek(p) == IF p.in = <<>> THEN "eof" ELSE Head(p.in)
Looked(p) == IF p.in = <<>> THEN [p EXCEPT !.off = TRUE] ELSE p
Skip(p) == [p EXCEPT !.in = Tail(@)]

\* parser_op_pipe() and parser_op_background()
HasOp(p, op) == Peek(p) = op
AfterOp(p, op) == IF HasOp(p, op) THEN Skip(p) ELSE Looked(p)

\* parser_next_argument(): the kind, and a name or Absent. The sign of a
\* redirection is consumed even if no name follows.
NextArgument(p) ==
  LET redir == Peek(p) \in {"<", ">"}
      q == IF redir THEN Looked(Skip(p)) ELSE Looked(p)
      found == Peek(q) \in Words
  IN  [kind |-> IF redir THEN Peek(p) ELSE "normal",
       arg |-> IF found THEN Peek(q) ELSE Absent,
       parser |-> IF found THEN Skip(q) ELSE q]

\* parser_garbage(): the rest of the line, its end included.
LineLength(t) ==
  IF \E i \in 1 .. Len(t) : t[i] = "nl"
    THEN CHOOSE i \in 1 .. Len(t) : t[i] = "nl" /\ \A j \in 1 .. i - 1 : t[j] # "nl"
    ELSE Len(t)
Garbage(p) == p.in # <<>> /\ Peek(p) # "nl"
AfterGarbage(p) ==
  LET n == LineLength(p.in)
      q == [p EXCEPT !.in = SubSeq(@, n + 1, Len(@))]
  IN  IF n = 0 \/ p.in[n] # "nl" THEN [q EXCEPT !.off = TRUE] ELSE q

-----------------------------------------------------------------------------
(* The commands. A scommand is [args, in, out]; a pipeline is [cmds, wait]. *)

scommand_new == [args |-> <<>>, in |-> Absent, out |-> Absent]
push_back(cmd, arg) == [cmd EXCEPT !.args = Append(@, arg)]
set_redir_in(cmd, name) == [cmd EXCEPT !.in = name]
set_redir_out(cmd, name) == [cmd EXCEPT !.out = name]
is_empty(cmd) == cmd.args = <<>>
pipeline_new == [cmds |-> <<>>, wait |-> TRUE]

\* What a null pointer to a command or a pipeline is here.
NoCommand == [args |-> <<Absent>>, in |-> Absent, out |-> Absent]
NoPipeline == [cmds |-> <<>>, wait |-> FALSE]

\* scommand_to_string() and pipeline_to_string(), in tokens.
scommand_to_string(cmd) ==
  IF is_empty(cmd) THEN <<>>
  ELSE cmd.args \o (IF cmd.out # Absent THEN <<">", cmd.out>> ELSE <<>>)
                \o (IF cmd.in # Absent THEN <<"<", cmd.in>> ELSE <<>>)

pipeline_to_string(pipe) ==
  LET upto[k \in 0 .. Len(pipe.cmds)] ==
        IF k = 0 THEN <<>>
        ELSE upto[k - 1] \o (IF k > 1 THEN <<"|">> ELSE <<>>)
                         \o scommand_to_string(pipe.cmds[k])
  IN  IF pipe.cmds = <<>> THEN <<>>
      ELSE upto[Len(pipe.cmds)] \o (IF pipe.wait THEN <<>> ELSE <<"&">>)

-----------------------------------------------------------------------------
(* parsing.c                                                                *)

RECURSIVE TheRest(_, _), Commands(_, _, _)

\* The loop of parse_scommand(): a second redirection of the same kind gives
\* up the command.
TheRest(cmd, p) ==
  LET a == NextArgument(Looked(p))
  IN  IF p.off THEN [cmd |-> cmd, parser |-> p]
      ELSE IF a.arg = Absent THEN [cmd |-> cmd, parser |-> a.parser]
      ELSE IF a.kind = "<"
        THEN IF cmd.in = Absent THEN TheRest(set_redir_in(cmd, a.arg), a.parser)
             ELSE [cmd |-> NoCommand, parser |-> a.parser]
      ELSE IF a.kind = ">"
        THEN IF cmd.out = Absent THEN TheRest(set_redir_out(cmd, a.arg), a.parser)
             ELSE [cmd |-> NoCommand, parser |-> a.parser]
      ELSE TheRest(push_back(cmd, a.arg), a.parser)

\* No command begins with | or &.
parse_scommand(p) ==
  LET p1 == AfterOp(Looked(p), "|")
      p2 == AfterOp(p1, "&")
  IN  IF HasOp(p, "|") THEN [cmd |-> NoCommand, parser |-> p1]
      ELSE IF HasOp(p1, "&") THEN [cmd |-> NoCommand, parser |-> p2]
      ELSE TheRest(scommand_new, p2)

\* The loop of parse_pipeline(), with the command s just parsed.
Commands(pipe, s, p) ==
  IF s = NoCommand \/ Len(s.args) > MaxArgs THEN [pipe |-> NoPipeline, parser |-> p]
  ELSE LET more == [pipe EXCEPT !.cmds = Append(@, s)]
           q == AfterOp(p, "|")
           next == parse_scommand(q)
       IN  IF HasOp(p, "|") THEN Commands(more, next.cmd, next.parser)
           ELSE [pipe |-> more, parser |-> q]

\* Mutant: the & is looked for before the last command is complete.
AtEnd_NoBackground(r) ==
  [pipe |-> IF Garbage(r.parser) THEN NoPipeline ELSE r.pipe, parser |-> AfterGarbage(r.parser)]

\* The end of a line: the operator &, and nothing after it.
AtEnd(r) ==
  LET background == ~r.parser.off /\ HasOp(r.parser, "&")
      p == IF r.parser.off THEN r.parser ELSE AfterOp(r.parser, "&")
      pipe == [r.pipe EXCEPT !.wait = ~background]
  IN  [pipe |-> IF Garbage(p) THEN NoPipeline ELSE pipe, parser |-> AfterGarbage(p)]

\* The early returns leave the rest of the line where it is.
parse_pipeline(p) ==
  LET first == parse_scommand(p)
      r == Commands(pipeline_new, first.cmd, first.parser)
  IN  IF first.cmd # NoCommand /\ is_empty(first.cmd)
        THEN [pipe |-> NoPipeline, parser |-> first.parser]
      ELSE IF r.pipe = NoPipeline THEN r
      ELSE AtEnd(r)

-----------------------------------------------------------------------------
\* A round of main(): the prompt, a pipeline, and whether to go on.
Round ==
  LET r == parse_pipeline([in |-> left, off |-> off])
  IN  /\ ~quit
      /\ Len(rounds) < MaxRounds
      /\ left' = r.parser.in
      /\ off' = r.parser.off
      /\ rounds' = Append(rounds, [from |-> left, pipe |-> r.pipe])
      /\ quit' = r.parser.off
      /\ UNCHANGED input

-----------------------------------------------------------------------------
\* What a line says: the words of its k-th part that are not names of files,
\* and the names that follow a sign.
Line(t) ==
  LET n == LineLength(t)
  IN  SubSeq(t, 1, IF n > 0 /\ t[n] = "nl" THEN n - 1 ELSE n)
Bars(t) == {i \in 1 .. Len(t) : t[i] = "|"}
Part(t, k) ==
  LET here == {i \in 1 .. Len(t) : t[i] # "|" /\ Cardinality({j \in Bars(t) : j < i}) = k - 1}
  IN  [i \in here |-> t[i]]
Named(part, sign) ==
  {i \in DOMAIN part : part[i] \in Words /\ i - 1 \in DOMAIN part /\ part[i - 1] = sign}
Plain(part) == {i \in DOMAIN part : part[i] \in Words} \ (Named(part, "<") \cup Named(part, ">"))
Ordered(part, S) == [k \in 1 .. Cardinality(S) |->
  part[CHOOSE i \in S : Cardinality({j \in S : j < i}) = k - 1]]

Says(line, pipe) ==
  /\ Len(pipe.cmds) = Cardinality(Bars(line)) + 1
  /\ pipe.wait = ("&" \notin {line[i] : i \in 1 .. Len(line)})
  /\ \A k \in 1 .. Len(pipe.cmds) :
       LET part == Part(line, k)
           cmd == pipe.cmds[k]
       IN  /\ cmd.args = Ordered(part, Plain(part))
           /\ {cmd.in} \ {Absent} = {part[i] : i \in Named(part, "<")}
           /\ {cmd.out} \ {Absent} = {part[i] : i \in Named(part, ">")}

\* A line that should be accepted: commands of a word or more, each sign with
\* its name and no sign twice in a command, and an & only at the end.
WellFormed(line) ==
  /\ \A i \in 1 .. Len(line) : line[i] = "&" => i = Len(line)
  /\ \A k \in 1 .. Cardinality(Bars(line)) + 1 :
       LET part == Part(line, k)
       IN  /\ Cardinality(Plain(part)) \in 1 .. MaxArgs
           /\ \A sign \in {"<", ">"} :
                LET signs == {i \in DOMAIN part : part[i] = sign}
                IN  Cardinality(signs) <= 1 /\ Cardinality(Named(part, sign)) = Cardinality(signs)

\* A pipeline that a round returns says what its line says, no more and no
\* less, and the next round begins with the next line; a line that is well
\* formed is never refused; and the string form of a pipeline without empty
\* commands reads back as the same pipeline (parsing.c:9-114, command.c:87-131,
\* 202-236).
PipelineRight ==
  \A r \in 1 .. Len(rounds) :
    LET from == rounds[r].from
        pipe == rounds[r].pipe
        after == IF r < Len(rounds) THEN rounds[r + 1].from ELSE left
    IN  /\ WellFormed(Line(from)) => pipe # NoPipeline
        /\ pipe # NoPipeline =>
          /\ Says(Line(from), pipe)
          /\ after = SubSeq(from, LineLength(from) + 1, Len(from))
          /\ (\A k \in 1 .. Len(pipe.cmds) : ~is_empty(pipe.cmds[k])) =>
               parse_pipeline([in |-> pipeline_to_string(pipe) \o <<"nl">> \o from, off |-> FALSE])
                 = [pipe |-> pipe, parser |-> [in |-> from, off |-> FALSE]]
=============================================================================
