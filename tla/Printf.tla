-------------------------------- MODULE Printf --------------------------------
(***************************************************************************)
(* user/printf.c, the printf() of kernel/printf.c and atoi() of            *)
(* user/ulib.c. An int has Width bits and what %l and %p take has twice as *)
(* many; -x of the least int is taken to wrap around, as the build has it. *)
(* The output is a sequence of characters; the arguments are a sequence,   *)
(* as va_arg() walks along them.                                           *)
(***************************************************************************)
EXTENDS Integers, Sequences

CONSTANT Width

digits == <<"0", "1", "2", "3", "4", "5", "6", "7",
            "8", "9", "A", "B", "C", "D", "E", "F">>
\* The kernel has the small letters.
kdigits == SubSeq(digits, 1, 10) \o <<"a", "b", "c", "d", "e", "f">>

Digit(D, k) == D[k + 1]

Unsigned(x) == x % 2^Width
Signed(x) == IF Unsigned(x) < 2^(Width - 1) THEN Unsigned(x) ELSE Unsigned(x) - 2^Width
Ints == -(2^(Width - 1)) .. 2^(Width - 1) - 1

-----------------------------------------------------------------------------
RECURSIVE Backwards(_, _, _), atoi(_, _), vprintf(_, _), kprintf(_, _)

\* do buf[i++] = digits[x % base]; while((x /= base) != 0), and out again from
\* the end of buf. D is digits of the program or of the kernel.
Backwards(D, x, base) ==
  IF x < base THEN <<Digit(D, x)>>
  ELSE Append(Backwards(D, x \div base, base), Digit(D, x % base))

\* Mutant: the sign is looked at whatever the format asks for.
printint_Signed(D, xx, base, sgn) ==
  IF xx < 0 THEN <<"-">> \o Backwards(D, Unsigned(-xx), base)
  ELSE Backwards(D, Unsigned(xx), base)

printint(D, xx, base, sgn) ==
  IF sgn /\ xx < 0 THEN <<"-">> \o Backwards(D, Unsigned(-xx), base)
  ELSE Backwards(D, Unsigned(xx), base)

\* Two digits for every byte of a pointer, from the left.
printptr(D, x) ==
  LET n == Width \div 2
  IN  <<"0", "x">> \o [i \in 1 .. n |-> Digit(D, (x * 16^(i - 1) % 16^n) \div 16^(n - 1))]

\* A pointer to a string is <<>> if it is null, else <<the string>>.
Null == <<"(", "n", "u", "l", "l", ")">>
String(s) == IF s = <<>> THEN Null ELSE s[1]

\* What a program's printf() makes of the letter after a %, and of the next
\* argument if the letter takes one.
Takes(c) == c \in {"d", "l", "x", "p", "s", "c"}
Converted(D, c, args) ==
  CASE c = "d" -> printint(D, Head(args), 10, TRUE)
    [] c = "l" -> printint(D, Signed(Head(args)), 10, FALSE)
    [] c = "x" -> printint(D, Head(args), 16, FALSE)
    [] c = "p" -> printptr(D, Head(args))
    [] c = "s" -> String(Head(args))
    [] c = "c" -> <<Head(args)>>
    [] c = "%" -> <<"%">>
    [] OTHER -> <<"%", c>>

vprintf(fmt, args) ==
  IF fmt = <<>> THEN <<>>
  ELSE IF fmt[1] # "%" THEN <<fmt[1]>> \o vprintf(Tail(fmt), args)
  ELSE IF Len(fmt) = 1 THEN <<>>
  ELSE Converted(digits, fmt[2], args)
         \o vprintf(SubSeq(fmt, 3, Len(fmt)), IF Takes(fmt[2]) THEN Tail(args) ELSE args)

\* The kernel knows neither %l nor %c, and prints %x with a sign.
KTakes(c) == c \in {"d", "x", "p", "s"}
KConverted(c, args) ==
  CASE c = "x" -> printint(kdigits, Head(args), 16, TRUE)
    [] c \in {"d", "p", "s", "%"} -> Converted(kdigits, c, args)
    [] OTHER -> <<"%", c>>

kprintf(fmt, args) ==
  IF fmt = <<>> THEN <<>>
  ELSE IF fmt[1] # "%" THEN <<fmt[1]>> \o kprintf(Tail(fmt), args)
  ELSE IF Len(fmt) = 1 THEN <<>>
  ELSE KConverted(fmt[2], args)
         \o kprintf(SubSeq(fmt, 3, Len(fmt)), IF KTakes(fmt[2]) THEN Tail(args) ELSE args)

\* atoi() from n on: n*10 + *s++ - '0', in an int.
Decimal == {digits[i] : i \in 1 .. 10}
Value(c) == (CHOOSE i \in 1 .. 16 : digits[i] = c) - 1
atoi(n, s) ==
  IF s = <<>> \/ Head(s) \notin Decimal THEN n
  ELSE atoi(Signed(n * 10 + Value(Head(s))), Tail(s))

-----------------------------------------------------------------------------
(* What they are for.                                                       *)

\* The numeral of n: as many digits as it takes, each by its place.
Numeral(D, n, base) ==
  LET len == CHOOSE k \in 1 .. 2 * Width :
               base^k > n /\ (k = 1 \/ base^(k - 1) <= n)
  IN  [i \in 1 .. len |-> Digit(D, (n \div base^(len - i)) % base)]

\* What the reader of a format expects of one of its items [c, arg]: %d the
\* number, %l and %x what is left of it in an unsigned int, %p all of it.
Means(D, item) ==
  CASE item.c = "d" /\ item.arg < 0 -> <<"-">> \o Numeral(D, -item.arg, 10)
    [] item.c = "d" /\ item.arg >= 0 -> Numeral(D, item.arg, 10)
    [] item.c = "l" -> Numeral(D, Unsigned(item.arg), 10)
    [] item.c = "x" -> Numeral(D, Unsigned(item.arg), 16)
    [] item.c = "p" ->
         LET n == Width \div 2
         IN  <<"0", "x">> \o [i \in 1 .. n |-> Digit(D, (item.arg \div 16^(n - i)) % 16)]
    [] item.c = "s" -> IF item.arg = <<>> THEN Null ELSE item.arg[1]
    [] item.c = "c" -> <<item.arg>>
    [] item.c = "text" -> <<item.arg>>
    [] item.c = "%" -> <<"%">>
    [] OTHER -> <<"%", item.c>>

KMeans(item) ==
  IF item.c = "x" /\ item.arg < 0 THEN <<"-">> \o Numeral(kdigits, -item.arg, 16)
                                  ELSE Means(kdigits, item)

RECURSIVE Format(_), Arguments(_)
Format(items) ==
  IF items = <<>> THEN <<>>
  ELSE (IF items[1].c = "text" THEN <<items[1].arg>> ELSE <<"%", items[1].c>>)
         \o Format(Tail(items))
Arguments(items) ==
  IF items = <<>> THEN <<>>
  ELSE (IF Takes(items[1].c) THEN <<items[1].arg>> ELSE <<>>) \o Arguments(Tail(items))
Concatenated(parts) ==
  LET upto[k \in 0 .. Len(parts)] == IF k = 0 THEN <<>> ELSE upto[k - 1] \o parts[k]
  IN  upto[Len(parts)]

\* Both printf() print each item as it reads, whatever stands around it; the
\* kernel's only where it knows the letters.
PrintsRight(items) ==
  /\ vprintf(Format(items), Arguments(items))
       = Concatenated([i \in 1 .. Len(items) |-> Means(digits, items[i])])
  /\ (\A i \in 1 .. Len(items) : items[i].c \notin {"l", "c"}) =>
       kprintf(Format(items), Arguments(items))
         = Concatenated([i \in 1 .. Len(items) |-> KMeans(items[i])])

\* atoi() reads back what %d printed of a number that is not negative, and
\* reads 0 from the sign of one that is.
ReadsBack(n) == atoi(0, printint(digits, n, 10, TRUE)) = IF n < 0 THEN 0 ELSE n
=============================================================================
