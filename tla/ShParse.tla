------------------------------- MODULE ShParse -------------------------------
(***************************************************************************)
(* The parser of the xv6 shell (user/sh.c): from the tokens of a line to   *)
(* the command that runcmd() is given. A token is what gettoken() returns: *)
(* a symbol, "+" for >>, or the word itself. A parser function moves along *)
(* the line; it returns what it has built and the tokens that are left, or *)
(* it panics.                                                              *)
(***************************************************************************)
EXTENDS Naturals, Sequences

CONSTANT MAXARGS

Symbols == {"|", "&", ";", "(", ")", "<", ">", "+"}

execcmd(argv) == [type |-> "EXEC", argv |-> argv]
redircmd(c, tok, f) == [type |-> "REDIR", cmd |-> c, mode |-> tok, file |-> f]
pipecmd(l, r) == [type |-> "PIPE", left |-> l, right |-> r]
listcmd(l, r) == [type |-> "LIST", left |-> l, right |-> r]
backcmd(c) == [type |-> "BACK", cmd |-> c]

Panic == [ok |-> FALSE]
Parsed(c, s) == [ok |-> TRUE, cmd |-> c, rest |-> s]
Then(r, F(_, _)) == IF r.ok THEN F(r.cmd, r.rest) ELSE Panic

peek(s, toks) == s # <<>> /\ Head(s) \in toks

\* The redirections that come next are put around c, the last one outermost.
RECURSIVE parseredirs(_, _)
parseredirs(c, s) ==
  IF ~peek(s, {"<", ">", "+"})
    THEN Parsed(c, s)
    ELSE IF Len(s) = 1 \/ s[2] \in Symbols
      THEN Panic
      ELSE parseredirs(redircmd(c, s[1], s[2]), SubSeq(s, 3, Len(s)))

RECURSIVE parseline(_)

parseblock(s) ==
  Then(parseline(Tail(s)),
       LAMBDA c, t : IF peek(t, {")"}) THEN parseredirs(c, Tail(t)) ELSE Panic)

\* ret is the command with the redirections that were seen between its words.
RECURSIVE WithArg(_, _)
WithArg(ret, w) ==
  IF ret.type = "EXEC" THEN execcmd(Append(ret.argv, w))
                       ELSE [ret EXCEPT !.cmd = WithArg(@, w)]

RECURSIVE Args(_, _, _)
Args(ret, argc, s) ==
  IF s = <<>> \/ peek(s, {"|", ")", "&", ";"})
    THEN Parsed(ret, s)
    ELSE IF Head(s) \in Symbols \/ argc + 1 >= MAXARGS
      THEN Panic
      ELSE Then(parseredirs(WithArg(ret, Head(s)), Tail(s)), LAMBDA r, t : Args(r, argc + 1, t))

parseexec(s) ==
  IF peek(s, {"("})
    THEN parseblock(s)
    ELSE Then(parseredirs(execcmd(<<>>), s), LAMBDA r, t : Args(r, 0, t))

\* Mutant: the pipe that is already there becomes the left side of the next.
RECURSIVE parsepipe_Left(_)
parsepipe_Left(s) ==
  Then(parseexec(s), LAMBDA c, t :
    IF peek(t, {"|"})
      THEN Then(parseexec(Tail(t)), LAMBDA d, u :
             IF peek(u, {"|"}) THEN Then(parsepipe_Left(Tail(u)), LAMBDA e, v : Parsed(pipecmd(pipecmd(c, d), e), v))
                               ELSE Parsed(pipecmd(c, d), u))
      ELSE Parsed(c, t))

RECURSIVE parsepipe(_)
parsepipe(s) ==
  Then(parseexec(s), LAMBDA c, t :
    IF peek(t, {"|"}) THEN Then(parsepipe(Tail(t)), LAMBDA d, u : Parsed(pipecmd(c, d), u))
                      ELSE Parsed(c, t))

RECURSIVE Backs(_, _)
Backs(c, s) == IF peek(s, {"&"}) THEN Backs(backcmd(c), Tail(s)) ELSE Parsed(c, s)

parseline(s) ==
  Then(parsepipe(s), LAMBDA c, t :
    Then(Backs(c, t), LAMBDA d, u :
      IF peek(u, {";"}) THEN Then(parseline(Tail(u)), LAMBDA e, v : Parsed(listcmd(d, e), v))
                        ELSE Parsed(d, u)))

\* Nothing may be left over.
parsecmd(s) == Then(parseline(s), LAMBDA c, t : IF t = <<>> THEN Parsed(c, t) ELSE Panic)

-----------------------------------------------------------------------------
(* What a command looks like on a line, with parentheses where the grammar  *)
(* needs them.                                                              *)

RECURSIVE Unparse(_)
Unparse(c) ==
  LET Within(d, types) == IF d.type \in types THEN Unparse(d) ELSE <<"(">> \o Unparse(d) \o <<")">>
  IN  CASE c.type = "EXEC"  -> c.argv
        [] c.type = "REDIR" -> Within(c.cmd, {"EXEC", "REDIR"}) \o <<c.mode, c.file>>
        [] c.type = "PIPE"  -> Within(c.left, {"EXEC", "REDIR"}) \o <<"|">> \o
                               Within(c.right, {"EXEC", "REDIR", "PIPE"})
        [] c.type = "BACK"  -> Within(c.cmd, {"EXEC", "REDIR", "PIPE", "BACK"}) \o <<"&">>
        [] c.type = "LIST"  -> Within(c.left, {"EXEC", "REDIR", "PIPE", "BACK"}) \o <<";">> \o
                               Unparse(c.right)

\* The commands that are built with at most n constructors over two programs.
RECURSIVE Trees(_)
Trees(n) ==
  IF n = 0
    THEN {execcmd(<<>>), execcmd(<<"a">>), execcmd(<<"a", "b">>)}
    ELSE LET T == Trees(n - 1)
         IN  T \cup {backcmd(c) : c \in T} \cup {redircmd(c, ">", "f") : c \in T}
               \cup {pipecmd(c, d) : c, d \in T} \cup {listcmd(c, d) : c, d \in T}

Lines(n) == UNION {[1 .. k -> {"a", "|", "&", ";", "(", ")", ">"}] : k \in 0 .. n}

\* The grammar that the functions of the parser share says what they build: every
\* command can be written, and is read again as it was; and whatever line does not
\* make the parser panic is read as a command that is written in this way.
RoundTrip ==
  /\ \A c \in Trees(2) : parsecmd(Unparse(c)) = Parsed(c, <<>>)
  /\ \A s \in Lines(5) :
       LET r == parsecmd(s) IN r.ok => parsecmd(Unparse(r.cmd)) = r
=============================================================================
