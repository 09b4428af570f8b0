---------------------------------- MODULE Words ----------------------------------
(***************************************************************************)
(* What is done with the characters of lines and paths: gettoken() and     *)
(* peek() of the shell, skipelem() and namecmp() of fs.c, fmtname() of     *)
(* ls.c. A string is a sequence of characters; a pointer into it is an     *)
(* index, and the character behind the last one is the 0 that ends it.     *)
(***************************************************************************)
EXTENDS Integers, Sequences, FiniteSets

CONSTANTS
  DIRSIZ       \* characters of a name in a directory

Ch(s, i) == IF i > Len(s) THEN "0" ELSE s[i]
whitespace == {" "}
symbols == {"<", "|", ">", "&", ";", "(", ")"}

\* while(s < es && cond) s++;
SkipAll(s, i, chars) ==
  CHOOSE j \in i .. Len(s) + 1 :
    /\ \A k \in i .. j - 1 : s[k] \in chars
    /\ Ch(s, j) \notin chars
SkipTo(s, i, chars) ==
  CHOOSE j \in i .. Len(s) + 1 :
    /\ \A k \in i .. j - 1 : s[k] \notin chars
    /\ j = Len(s) + 1 \/ s[j] \in chars

\* The switch: the kind of the token at q, and where it ends.
TokenAt(s, q) ==
  LET c == Ch(s, q)
  IN  IF c = "0" THEN [ret |-> "0", eq |-> q]
      ELSE IF c = ">" /\ Ch(s, q + 1) = ">" THEN [ret |-> "+", eq |-> q + 2]
      ELSE IF c \in symbols THEN [ret |-> c, eq |-> q + 1]
      ELSE [ret |-> "a", eq |-> SkipTo(s, q, whitespace \cup symbols)]

\* gettoken(): the token from q up to eq, and where the next one begins.
gettoken(s, ps) ==
  LET q == SkipAll(s, ps, whitespace)
      t == TokenAt(s, q)
  IN  [ret |-> t.ret, q |-> q, eq |-> t.eq, ps |-> SkipAll(s, t.eq, whitespace)]

\* peek(): whether the next character is one of toks.
peek(s, ps, toks) == Ch(s, SkipAll(s, ps, whitespace)) \in toks

\* skipelem(): the next element, cut to DIRSIZ, and the path behind it.
Cut(s) == SubSeq(s, 1, IF Len(s) >= DIRSIZ THEN DIRSIZ ELSE Len(s))
NoElement == [name |-> <<>>, path |-> <<>>]
skipelem(path) ==
  LET s == SkipAll(path, 1, {"/"})
      e == SkipTo(path, s, {"/"})
      next == SkipAll(path, e, {"/"})
  IN  IF s > Len(path) THEN NoElement
      ELSE [name |-> Cut(SubSeq(path, s, e - 1)), path |-> SubSeq(path, next, Len(path))]

\* namecmp() looks at the first DIRSIZ characters.
namecmp(s, t) == Cut(s) = Cut(t)

\* fmtname(): what follows the last slash, with blanks up to DIRSIZ.
fmtname(path) ==
  LET p == CHOOSE i \in 0 .. Len(path) :
             (i = 0 \/ path[i] = "/") /\ \A j \in i + 1 .. Len(path) : path[j] # "/"
      name == SubSeq(path, p + 1, Len(path))
  IN  IF Len(name) >= DIRSIZ THEN name
      ELSE name \o [i \in 1 .. DIRSIZ - Len(name) |-> " "]

-----------------------------------------------------------------------------
\* All tokens of a line, and all elements of a path.
RECURSIVE TokensFrom(_, _), Elements(_)
TokensFrom(s, ps) ==
  LET t == gettoken(s, ps)
  IN  IF t.ret = "0" THEN <<>> ELSE <<t>> \o TokensFrom(s, t.ps)
Elements(path) ==
  LET e == skipelem(path)
  IN  IF e = NoElement THEN <<>> ELSE <<e.name>> \o Elements(e.path)

\* The tokens of a line are disjoint and in order, they cover every character
\* but the blanks, words are as long as they can be and hold no symbol, >> is
\* one token, and peek() announces what gettoken() returns (sh.c:266-321).
TokensRight(s) ==
  LET t == TokensFrom(s, 1)
  IN  /\ UNION {t[k].q .. t[k].eq - 1 : k \in 1 .. Len(t)}
           = {i \in 1 .. Len(s) : s[i] \notin whitespace}
      /\ \A k \in 1 .. Len(t) :
           /\ k > 1 => t[k].q = t[k - 1].ps /\ t[k].q >= t[k - 1].eq
           /\ t[k].ret = "a" =>
                /\ \A i \in t[k].q .. t[k].eq - 1 : s[i] \notin symbols
                /\ k > 1 /\ t[k - 1].ret = "a" => t[k].q > t[k - 1].eq
           /\ t[k].ret = ">" /\ k > 1 /\ t[k - 1].ret = ">" => t[k].q > t[k - 1].eq
           /\ \A c \in symbols : peek(s, t[k].q, {c}) = (c = t[k].ret \/ (c = ">" /\ t[k].ret = "+"))

SameName(s, t) == \A i \in 1 .. DIRSIZ : Ch(s, i) = Ch(t, i)

\* The elements of a path are what stands between its slashes, each cut to
\* DIRSIZ; the rest is empty exactly behind the last one, which is how namex()
\* finds the parent; and ls shows the last one (fs.c:608-645, ls.c:6-23).
PathRight(path) ==
  LET starts == {i \in 1 .. Len(path) : path[i] # "/" /\ (i = 1 \/ path[i - 1] = "/")}
      start(k) == CHOOSE i \in starts : Cardinality({j \in starts : j < i}) = k - 1
      element(k) == SubSeq(path, start(k), SkipTo(path, start(k), {"/"}) - 1)
      n == Cardinality(starts)
      e == skipelem(path)
  IN  /\ Len(Elements(path)) = n
      /\ \A k \in 1 .. n : SameName(Elements(path)[k], element(k)) /\ Len(Elements(path)[k]) <= DIRSIZ
      /\ e.path # <<>> <=> n > 1
      /\ e.path # <<>> => e.path[1] # "/"
      /\ Len(fmtname(path)) >= DIRSIZ
      /\ n > 0 /\ path[Len(path)] # "/" =>
           LET last == element(n)
           IN  fmtname(path) = last \o [i \in 1 .. DIRSIZ - Len(last) |-> " "]
      /\ \A k \in 1 .. n : \A name \in {<<"a">>, <<"a", "b">>, <<"b", "a">>} :
           namecmp(Elements(path)[k], name) = SameName(element(k), name)
=============================================================================
