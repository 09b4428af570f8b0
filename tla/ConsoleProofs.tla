----------------------------- MODULE ConsoleProofs -----------------------------
(***************************************************************************)
(* Theorems about the console (Console), for any number of readers and     *)
(* writers, any sizes of the two buffers and any width of their indices    *)
(* that the sizes divide: nobody sleeps for a line or for room that is     *)
(* there; cons.buf with its three indices, which wrap around, is the       *)
(* line-editing terminal of module Tty; and the bytes of each writer are   *)
(* sent once and in their order.                                           *)
(***************************************************************************)
EXTENDS Console, SequenceTheorems, TLAPS

-----------------------------------------------------------------------------
(* Remainders.                                                              *)

LEMMA ModRange == ASSUME NEW N \in Nat \ {0}, NEW a \in Int PROVE a % N \in 0 .. N - 1
  OBVIOUS

LEMMA ModSmall == ASSUME NEW N \in Nat \ {0}, NEW a \in 0 .. N - 1 PROVE a % N = a
  OBVIOUS

LEMMA ModOver == ASSUME NEW N \in Nat \ {0}, NEW a \in N .. 2 * N - 1 PROVE a % N = a - N
  OBVIOUS

LEMMA ModUnder == ASSUME NEW N \in Nat \ {0}, NEW a \in -N .. -1 PROVE a % N = a + N
  OBVIOUS

LEMMA ModPlusMultiple ==
  ASSUME NEW N \in Nat \ {0}, NEW a \in 0 .. N - 1, NEW k \in Int
  PROVE  (a + N * k) % N = a
  OBVIOUS

\* Two numbers that are less than N apart have different remainders.
LEMMA ModDistinct ==
  ASSUME NEW N \in Nat \ {0}, NEW a \in Nat, NEW b \in Nat, a < b, b < a + N
  PROVE  a % N # b % N
<1>1. PICK r \in 0 .. N - 1 : r = a % N  BY ModRange
<1>2. PICK k \in Int : k = a \div N  OBVIOUS
<1>3. a = r + N * k  BY <1>1, <1>2
<1>4. CASE b - a + r < N
  <2>1. PICK d \in 0 .. N - 1 : d = b - a + r  BY <1>4
  <2>2. b = d + N * k  BY <1>3, <2>1
  <2>3. (d + N * k) % N = d  BY ModPlusMultiple
  <2> QED  BY <1>1, <2>1, <2>2, <2>3
<1>5. CASE b - a + r >= N
  <2>1. N * (k + 1) = N * k + N  OBVIOUS
  <2>2. PICK d \in 0 .. N - 1 : d = b - a + r - N  BY <1>5
  <2>3. b = d + N * (k + 1)  BY <1>3, <2>1, <2>2
  <2>4. (d + N * (k + 1)) % N = d  BY ModPlusMultiple
  <2> QED  BY <1>1, <2>2, <2>3, <2>4
<1> QED  BY <1>4, <1>5

\* A multiple of N makes no difference to a remainder.
LEMMA ModPlus ==
  ASSUME NEW N \in Nat \ {0}, NEW a \in Int, NEW m \in Int
  PROVE  (a + N * m) % N = a % N
<1>1. PICK r \in 0 .. N - 1 : r = a % N  BY ModRange
<1>2. PICK k \in Int : k = a \div N  OBVIOUS
<1>3. a = r + N * k  BY <1>1, <1>2
<1>4. a + N * m = r + N * (k + m)  BY <1>3
<1> QED  BY <1>1, <1>4, ModPlusMultiple, SMTT(30)

-----------------------------------------------------------------------------
(* Indices that wrap around.                                                *)

LEMMA Sizes ==
  /\ Wrap \in Nat \ {0} /\ INPUT_BUF_SIZE \in Nat \ {0} /\ UART_TX_BUF_SIZE \in Nat \ {0}
  /\ Wrap > INPUT_BUF_SIZE /\ Wrap > UART_TX_BUF_SIZE
  /\ Wrap % INPUT_BUF_SIZE = 0 /\ Wrap % UART_TX_BUF_SIZE = 0
BY ConsoleAssumption

LEMMA MinusIs ==
  ASSUME NEW a \in Index, NEW b \in Index
  PROVE  /\ Minus(a, b) \in Index
         /\ a >= b => Minus(a, b) = a - b
         /\ a < b => Minus(a, b) = a - b + Wrap
<1>1. a - b \in Int /\ a \in Int /\ b \in Int  BY Sizes DEF Index
<1>2. Minus(a, b) \in Index  BY <1>1, ModRange, Sizes DEF Minus, Index
<1>3. ASSUME a >= b PROVE Minus(a, b) = a - b
  <2>1. a - b \in 0 .. Wrap - 1  BY <1>3, Sizes DEF Index
  <2> QED  BY <2>1, ModSmall, Sizes DEF Minus
<1>4. ASSUME a < b PROVE Minus(a, b) = a - b + Wrap
  <2>1. a - b \in -Wrap .. -1  BY <1>4, Sizes DEF Index
  <2> QED  BY <2>1, ModUnder, Sizes DEF Minus
<1> QED  BY <1>2, <1>3, <1>4

LEMMA Plus1Is ==
  ASSUME NEW a \in Index
  PROVE  /\ Plus1(a) \in Index
         /\ a < Wrap - 1 => Plus1(a) = a + 1
         /\ a = Wrap - 1 => Plus1(a) = 0
<1>1. a \in 0 .. Wrap - 1 /\ a + 1 \in Int  BY Sizes DEF Index
<1>2. Plus1(a) \in Index  BY <1>1, ModRange, Sizes DEF Plus1, Index
<1>3. ASSUME a < Wrap - 1 PROVE Plus1(a) = a + 1
  <2>1. a + 1 \in 0 .. Wrap - 1  BY <1>1, <1>3, Sizes
  <2> QED  BY <2>1, ModSmall, Sizes DEF Plus1
<1>4. ASSUME a = Wrap - 1 PROVE Plus1(a) = 0
  <2>1. a + 1 = Wrap /\ Wrap \in Wrap .. 2 * Wrap - 1  BY <1>1, <1>4, Sizes
  <2>2. Wrap % Wrap = Wrap - Wrap  BY <2>1, ModOver, Sizes
  <2> QED  BY <2>1, <2>2, Sizes DEF Plus1
<1> QED  BY <1>2, <1>3, <1>4

\* The index a is that far ahead of b, in a buffer whose size divides Wrap; and so
\* is what follows on a.
LEMMA Ahead ==
  ASSUME NEW N \in Nat \ {0}, Wrap % N = 0, NEW a \in Index, NEW b \in Index, NEW i \in Nat
  PROVE  (b + Minus(a, b) + i) % N = (a + i) % N
<1>1. a \in 0 .. Wrap - 1 /\ b \in 0 .. Wrap - 1 /\ Minus(a, b) \in 0 .. Wrap - 1
  BY MinusIs, Sizes DEF Index
<1>2. CASE a >= b
  <2>1. b + Minus(a, b) = a  BY <1>1, <1>2, MinusIs, Sizes
  <2> QED  BY <2>1
<1>3. CASE a < b
  <2>1. b + Minus(a, b) + i = a + i + Wrap  BY <1>1, <1>3, MinusIs, Sizes
  <2>2. PICK k \in Int : k = Wrap \div N  BY Sizes
  <2>3. Wrap = N * k  BY <2>2, Sizes
  <2>4. PICK x \in Int : x = a + i  BY <1>1, Sizes
  <2>5. (x + N * k) % N = x % N  BY ModPlus
  <2> QED  BY <2>1, <2>3, <2>4, <2>5
<1> QED  BY <1>1, <1>2, <1>3

\* The index where a byte is stored is the one behind those between b and a.
LEMMA Behind ==
  ASSUME NEW N \in Nat \ {0}, Wrap % N = 0, NEW a \in Index, NEW b \in Index
  PROVE  (b + Minus(a, b)) % N = a % N
<1>1. a \in Int /\ b \in Int /\ Minus(a, b) \in Int  BY MinusIs, Sizes DEF Index
<1>2. (b + Minus(a, b) + 0) % N = (a + 0) % N  BY Ahead
<1>3. b + Minus(a, b) + 0 = b + Minus(a, b) /\ a + 0 = a  BY <1>1
<1> QED  BY <1>2, <1>3

\* The same for the index after a.
LEMMA Following ==
  ASSUME NEW N \in Nat \ {0}, Wrap % N = 0, NEW a \in Index, NEW i \in Nat
  PROVE  (Plus1(a) + i) % N = (a + 1 + i) % N
<1>1. a \in 0 .. Wrap - 1 /\ Plus1(a) \in 0 .. Wrap - 1  BY Plus1Is, Sizes DEF Index
<1>2. CASE a < Wrap - 1
  <2>1. Plus1(a) + i = a + 1 + i  BY <1>1, <1>2, Plus1Is, Sizes
  <2> QED  BY <2>1
<1>3. CASE a = Wrap - 1
  <2>1. Plus1(a) = 0  BY <1>3, Plus1Is
  <2>2. PICK k \in Int : k = Wrap \div N  BY Sizes
  <2>3. a + 1 = N * k  BY <1>3, <2>2, Sizes
  <2>4. a + 1 + i = i + N * k  BY <2>3, <1>1
  <2>5. i \in Int  OBVIOUS
  <2>6. (i + N * k) % N = i % N  BY <2>5, ModPlus
  <2> QED  BY <2>1, <2>4, <2>6
<1>4. a < Wrap - 1 \/ a = Wrap - 1  BY <1>1, Sizes
<1> QED  BY <1>2, <1>3, <1>4

-----------------------------------------------------------------------------
(* What is in a ring buffer.                                                *)

LEMMA FromSeq ==
  ASSUME NEW T, NEW N \in Nat \ {0}, NEW buf \in [0 .. N - 1 -> T], NEW r \in Nat, NEW k \in Nat
  PROVE  From(buf, N, r, k) \in Seq(T)
<1>1. ASSUME NEW i \in 1 .. k PROVE buf[(r + i - 1) % N] \in T
  <2>1. r + i - 1 \in Int  OBVIOUS
  <2> QED  BY <2>1, ModRange
<1>2. From(buf, N, r, k) \in [1 .. k -> T]  BY <1>1 DEF From
<1> QED  BY <1>2

LEMMA FromLen ==
  ASSUME NEW buf, NEW N, NEW r, NEW k \in Nat
  PROVE  Len(From(buf, N, r, k)) = k
<1>1. DOMAIN From(buf, N, r, k) = 1 .. k  BY DEF From
<1> QED  BY <1>1 DEF From

\* What is known of such a sequence.
RingOf(T, buf, N, r, k) ==
  /\ From(buf, N, r, k) \in Seq(T)
  /\ Len(From(buf, N, r, k)) = k
  /\ \A i \in 1 .. k : From(buf, N, r, k)[i] = buf[(r + i - 1) % N]

LEMMA FromIs ==
  ASSUME NEW T, NEW N \in Nat \ {0}, NEW buf \in [0 .. N - 1 -> T], NEW r \in Nat, NEW k \in Nat
  PROVE  RingOf(T, buf, N, r, k)
<1>1. From(buf, N, r, k) \in Seq(T)  BY FromSeq, Zenon
<1>2. Len(From(buf, N, r, k)) = k  BY FromLen, Zenon
<1>3. \A i \in 1 .. k : From(buf, N, r, k)[i] = buf[(r + i - 1) % N]  BY DEF From
<1> QED  BY <1>1, <1>2, <1>3 DEF RingOf

LEMMA FromEmpty ==
  ASSUME NEW T, NEW N \in Nat \ {0}, NEW buf \in [0 .. N - 1 -> T], NEW r \in Nat
  PROVE  From(buf, N, r, 0) = <<>>
<1>1. 0 \in Nat  OBVIOUS
<1>2. RingOf(T, buf, N, r, 0)  BY <1>1, FromIs, Zenon
<1> QED  BY <1>2 DEF RingOf

\* The first byte is taken out.
TailIs(buf, N, r, k) ==
  /\ From(buf, N, r, k) # <<>>
  /\ Tail(From(buf, N, r, k)) = From(buf, N, Plus1(r), k - 1)

LEMMA FromTail ==
  ASSUME NEW T, NEW N \in Nat \ {0}, Wrap % N = 0, NEW buf \in [0 .. N - 1 -> T],
         NEW r \in Index, NEW k \in Nat \ {0}
  PROVE  TailIs(buf, N, r, k)
<1>0. r \in Nat /\ Plus1(r) \in Nat /\ k \in Nat /\ k - 1 \in Nat
  BY Plus1Is, Sizes DEF Index
<1>1. RingOf(T, buf, N, r, k)  BY <1>0, FromIs, Zenon
<1>2. RingOf(T, buf, N, Plus1(r), k - 1)  BY <1>0, FromIs, Zenon
<1>3. From(buf, N, r, k) # <<>>  BY <1>1 DEF RingOf
<1>4. /\ Tail(From(buf, N, r, k)) \in Seq(T)
      /\ Len(Tail(From(buf, N, r, k))) = k - 1
      /\ \A i \in 1 .. k - 1 : Tail(From(buf, N, r, k))[i] = From(buf, N, r, k)[i + 1]
  BY <1>1, <1>3, HeadTailProperties DEF RingOf
<1>5. ASSUME NEW i \in 1 .. k - 1
      PROVE  Tail(From(buf, N, r, k))[i] = From(buf, N, Plus1(r), k - 1)[i]
  <2>1. PICK j \in Nat : j = i - 1  OBVIOUS
  <2>2. (Plus1(r) + j) % N = (r + 1 + j) % N  BY Following, Zenon
  <2>3. Plus1(r) + i - 1 = Plus1(r) + j /\ r + (i + 1) - 1 = r + 1 + j /\ i + 1 \in 1 .. k
    BY <1>0, <2>1
  <2>4. From(buf, N, r, k)[i + 1] = buf[(r + (i + 1) - 1) % N]  BY <1>1, <2>3, Zenon DEF RingOf
  <2>5. From(buf, N, Plus1(r), k - 1)[i] = buf[(Plus1(r) + i - 1) % N]  BY <1>2, Zenon DEF RingOf
  <2>6. Tail(From(buf, N, r, k))[i] = From(buf, N, r, k)[i + 1]  BY <1>4, Zenon
  <2> QED  BY <2>2, <2>3, <2>4, <2>5, <2>6
<1>6. From(buf, N, Plus1(r), k - 1) \in Seq(T) /\ Len(From(buf, N, Plus1(r), k - 1)) = k - 1
  BY <1>2 DEF RingOf
<1>7. Tail(From(buf, N, r, k)) = From(buf, N, Plus1(r), k - 1)  BY <1>4, <1>5, <1>6, SeqEqual
<1> QED  BY <1>3, <1>7 DEF TailIs

\* The last byte is taken out.
LEMMA FromFront ==
  ASSUME NEW T, NEW N \in Nat \ {0}, NEW buf \in [0 .. N - 1 -> T], NEW r \in Nat, NEW k \in Nat \ {0}
  PROVE  /\ From(buf, N, r, k) # <<>>
         /\ Front(From(buf, N, r, k)) = From(buf, N, r, k - 1)
<1>0. k \in Nat /\ k - 1 \in Nat  OBVIOUS
<1>1. RingOf(T, buf, N, r, k)  BY <1>0, FromIs, Zenon
<1>2. RingOf(T, buf, N, r, k - 1)  BY <1>0, FromIs, Zenon
<1>3. Front(From(buf, N, r, k)) = SubSeq(From(buf, N, r, k), 1, k - 1)  BY <1>1 DEF Front, RingOf
<1>4. /\ SubSeq(From(buf, N, r, k), 1, k - 1) \in Seq(T)
      /\ Len(SubSeq(From(buf, N, r, k), 1, k - 1)) = k - 1
      /\ \A i \in 1 .. k - 1 : SubSeq(From(buf, N, r, k), 1, k - 1)[i] = From(buf, N, r, k)[i]
  BY <1>1 DEF RingOf
<1>5. ASSUME NEW i \in 1 .. k - 1
      PROVE  SubSeq(From(buf, N, r, k), 1, k - 1)[i] = From(buf, N, r, k - 1)[i]
  <2>1. i \in 1 .. k  OBVIOUS
  <2>2. From(buf, N, r, k)[i] = buf[(r + i - 1) % N]  BY <1>1, <2>1, Zenon DEF RingOf
  <2>3. From(buf, N, r, k - 1)[i] = buf[(r + i - 1) % N]  BY <1>2, Zenon DEF RingOf
  <2> QED  BY <1>4, <2>2, <2>3
<1>6. From(buf, N, r, k - 1) \in Seq(T) /\ Len(From(buf, N, r, k - 1)) = k - 1
  BY <1>2 DEF RingOf
<1>7. SubSeq(From(buf, N, r, k), 1, k - 1) = From(buf, N, r, k - 1)
  BY <1>4, <1>5, <1>6, SeqEqual
<1>8. From(buf, N, r, k) # <<>>  BY <1>1 DEF RingOf
<1> QED  BY <1>3, <1>7, <1>8

\* One part of the buffer follows on the other.
Joins(buf, N, r, k, w, m) == From(buf, N, r, k) \o From(buf, N, w, m) = From(buf, N, r, k + m)

LEMMA FromConcat ==
  ASSUME NEW T, NEW N \in Nat \ {0}, NEW buf \in [0 .. N - 1 -> T],
         NEW r \in Nat, NEW k \in Nat, NEW w \in Nat, NEW m \in Nat,
         \A j \in Nat : (w + j) % N = (r + k + j) % N
  PROVE  Joins(buf, N, r, k, w, m)
<1> DEFINE first == From(buf, N, r, k)
           second == From(buf, N, w, m)
           both == From(buf, N, r, k + m)
<1>0. k + m \in Nat  OBVIOUS
<1>1. RingOf(T, buf, N, r, k)  BY FromIs, Zenon
<1>2. RingOf(T, buf, N, w, m)  BY FromIs, Zenon
<1>3. RingOf(T, buf, N, r, k + m)  BY <1>0, FromIs, Zenon
<1>4. first \in Seq(T) /\ Len(first) = k  BY <1>1 DEF RingOf
<1>5. second \in Seq(T) /\ Len(second) = m  BY <1>2 DEF RingOf
<1>6. both \in Seq(T) /\ Len(both) = k + m  BY <1>3 DEF RingOf
<1>7. ASSUME NEW i \in 1 .. k PROVE first[i] = both[i]
  <2>1. i \in 1 .. k + m  OBVIOUS
  <2>2. first[i] = buf[(r + i - 1) % N]  BY <1>1, Zenon DEF RingOf
  <2>3. both[i] = buf[(r + i - 1) % N]  BY <1>3, <2>1, Zenon DEF RingOf
  <2> QED  BY <2>2, <2>3
<1>8. ASSUME NEW i \in k + 1 .. k + m PROVE second[i - k] = both[i]
  <2>1. i \in 1 .. k + m /\ i - k \in 1 .. m  OBVIOUS
  <2>2. second[i - k] = buf[(w + (i - k) - 1) % N]  BY <1>2, <2>1, Zenon DEF RingOf
  <2>3. both[i] = buf[(r + i - 1) % N]  BY <1>3, <2>1, Zenon DEF RingOf
  <2>4. PICK j \in Nat : j = i - k - 1  OBVIOUS
  <2>5. w + (i - k) - 1 = w + j /\ r + i - 1 = r + k + j  BY <2>4
  <2>6. (w + j) % N = (r + k + j) % N  OBVIOUS
  <2> QED  BY <2>2, <2>3, <2>5, <2>6
<1> HIDE DEF first, second, both
<1>9. /\ first \o second \in Seq(T)
      /\ Len(first \o second) = k + m
      /\ \A i \in 1 .. k : (first \o second)[i] = first[i]
      /\ \A i \in k + 1 .. k + m : (first \o second)[i] = second[i - k]
  BY <1>4, <1>5, SMTT(30)
<1>10. ASSUME NEW i \in 1 .. k + m PROVE (first \o second)[i] = both[i]
  <2>1. i \in 1 .. k \/ i \in k + 1 .. k + m  OBVIOUS
  <2> QED  BY <1>7, <1>8, <1>9, <2>1
<1>11. first \o second = both  BY <1>6, <1>9, <1>10, SeqEqual
<1> QED  BY <1>11 DEF Joins, first, second, both

\* A byte that is stored behind a part of the buffer does not change that part.
Keeps(buf, N, r, k, d, c) ==
  From([buf EXCEPT ![(r + d) % N] = c], N, r, k) = From(buf, N, r, k)

LEMMA FromOther ==
  ASSUME NEW T, NEW N \in Nat \ {0}, NEW buf \in [0 .. N - 1 -> T], NEW c \in T,
         NEW r \in Nat, NEW k \in Nat, NEW d \in Nat, k <= d, d < N
  PROVE  Keeps(buf, N, r, k, d, c)
<1>1. ASSUME NEW i \in 1 .. k
      PROVE  [buf EXCEPT ![(r + d) % N] = c][(r + i - 1) % N] = buf[(r + i - 1) % N]
  <2>1. PICK a \in Nat : a = r + i - 1  OBVIOUS
  <2>2. PICK b \in Nat : b = r + d  OBVIOUS
  <2>3. a < b /\ b < a + N  BY <2>1, <2>2
  <2>4. a % N # b % N  BY <2>3, ModDistinct, Zenon
  <2>5. a % N \in 0 .. N - 1  BY ModRange
  <2> QED  BY <2>1, <2>2, <2>4, <2>5
<1> QED  BY <1>1 DEF Keeps, From

\* A byte is stored behind the last one.
Lengthens(buf, N, r, k, c) ==
  From([buf EXCEPT ![(r + k) % N] = c], N, r, k + 1) = Append(From(buf, N, r, k), c)

LEMMA FromAppend ==
  ASSUME NEW T, NEW N \in Nat \ {0}, NEW buf \in [0 .. N - 1 -> T], NEW c \in T,
         NEW r \in Nat, NEW k \in Nat, k < N
  PROVE  Lengthens(buf, N, r, k, c)
<1>1. PICK new \in [0 .. N - 1 -> T] : new = [buf EXCEPT ![(r + k) % N] = c]  OBVIOUS
<1>2. k + 1 \in Nat  OBVIOUS
<1>3. RingOf(T, new, N, r, k + 1)  BY <1>2, FromIs, Zenon
<1>4. RingOf(T, buf, N, r, k)  BY FromIs, Zenon
<1>5. /\ Append(From(buf, N, r, k), c) \in Seq(T)
      /\ Len(Append(From(buf, N, r, k), c)) = k + 1
      /\ \A i \in 1 .. k : Append(From(buf, N, r, k), c)[i] = From(buf, N, r, k)[i]
      /\ Append(From(buf, N, r, k), c)[k + 1] = c
  BY <1>4, AppendProperties DEF RingOf
<1>6. ASSUME NEW i \in 1 .. k
      PROVE  From(new, N, r, k + 1)[i] = Append(From(buf, N, r, k), c)[i]
  <2>1. PICK a \in Nat : a = r + i - 1  OBVIOUS
  <2>2. PICK b \in Nat : b = r + k  OBVIOUS
  <2>3. a < b /\ b < a + N /\ i \in 1 .. k + 1  BY <2>1, <2>2
  <2>4. a % N # b % N  BY <2>3, ModDistinct, Zenon
  <2>5. a % N \in 0 .. N - 1  BY ModRange, SMTT(30)
  <2>6. new[a % N] = buf[a % N]  BY <1>1, <2>2, <2>4, <2>5
  <2>7. From(new, N, r, k + 1)[i] = new[(r + i - 1) % N]  BY <1>3, <2>3, Zenon DEF RingOf
  <2>8. From(buf, N, r, k)[i] = buf[(r + i - 1) % N]  BY <1>4, Zenon DEF RingOf
  <2> QED  BY <1>5, <2>1, <2>6, <2>7, <2>8
<1>7. From(new, N, r, k + 1)[k + 1] = c
  <2>1. (r + k) % N \in 0 .. N - 1  BY ModRange
  <2>2. r + (k + 1) - 1 = r + k /\ k + 1 \in 1 .. k + 1  OBVIOUS
  <2>3. From(new, N, r, k + 1)[k + 1] = new[(r + (k + 1) - 1) % N]
    BY <1>3, <2>2, Zenon DEF RingOf
  <2> QED  BY <1>1, <2>1, <2>2, <2>3
<1>8. ASSUME NEW i \in 1 .. k + 1
      PROVE  From(new, N, r, k + 1)[i] = Append(From(buf, N, r, k), c)[i]
  <2>1. i \in 1 .. k \/ i = k + 1  OBVIOUS
  <2> QED  BY <1>5, <1>6, <1>7, <2>1
<1>9. From(new, N, r, k + 1) \in Seq(T) /\ Len(From(new, N, r, k + 1)) = k + 1
  BY <1>3 DEF RingOf
<1>10. From(new, N, r, k + 1) = Append(From(buf, N, r, k), c)  BY <1>5, <1>8, <1>9, SeqEqual
<1> QED  BY <1>1, <1>10 DEF Lengthens

-----------------------------------------------------------------------------
(* The distances between the three indices of cons.                         *)

\* One value of Minus, and what the arithmetic of distances needs to know of it.
Dist(a, b, d) == d \in Index /\ (a >= b => d = a - b) /\ (a < b => d = a - b + Wrap)

LEMMA DistIs ==
  ASSUME NEW a \in Index, NEW b \in Index
  PROVE  Dist(a, b, Minus(a, b))
BY MinusIs, Zenon DEF Dist

LEMMA Indices == Wrap \in Nat /\ Wrap > 1 /\ Index = 0 .. Wrap - 1
BY Sizes DEF Index

LEMMA NoDistance ==
  ASSUME NEW a \in Index, NEW b \in Index
  PROVE  Minus(a, b) \in Nat /\ (Minus(a, b) = 0 <=> a = b)
<1>1. Dist(a, b, Minus(a, b))  BY DistIs
<1> QED  BY <1>1, Indices DEF Dist

LEMMA Between ==
  ASSUME NEW r \in Index, NEW w \in Index, NEW e \in Index, Minus(w, r) <= Minus(e, r)
  PROVE  Minus(e, w) = Minus(e, r) - Minus(w, r)
<1>1. Dist(w, r, Minus(w, r)) /\ Dist(e, r, Minus(e, r)) /\ Dist(e, w, Minus(e, w))  BY DistIs
<1> QED  BY <1>1, Indices DEF Dist

LEMMA TakenOut ==
  ASSUME NEW r \in Index, NEW a \in Index, a # r
  PROVE  Minus(a, Plus1(r)) = Minus(a, r) - 1
<1>1. Plus1(r) \in Index /\ Plus1(r) = IF r = Wrap - 1 THEN 0 ELSE r + 1  BY Plus1Is, Indices
<1>2. Dist(a, r, Minus(a, r)) /\ Dist(a, Plus1(r), Minus(a, Plus1(r)))  BY <1>1, DistIs
<1> QED  BY <1>1, <1>2, Indices DEF Dist

LEMMA PutIn ==
  ASSUME NEW r \in Index, NEW a \in Index, Minus(a, r) < Wrap - 1
  PROVE  Minus(Plus1(a), r) = Minus(a, r) + 1
<1>1. Plus1(a) \in Index /\ Plus1(a) = IF a = Wrap - 1 THEN 0 ELSE a + 1  BY Plus1Is, Indices
<1>2. Dist(a, r, Minus(a, r)) /\ Dist(Plus1(a), r, Minus(Plus1(a), r))  BY <1>1, DistIs
<1> QED  BY <1>1, <1>2, Indices DEF Dist

LEMMA Back ==
  ASSUME NEW r \in Index, NEW a \in Index, a # r
  PROVE  Minus(a, 1) \in Index /\ Minus(Minus(a, 1), r) = Minus(a, r) - 1
<1>1. 1 \in Index  BY Indices
<1>2. Dist(a, 1, Minus(a, 1))  BY <1>1, DistIs
<1>3. Minus(a, 1) \in Index  BY <1>2 DEF Dist
<1>4. Dist(a, r, Minus(a, r)) /\ Dist(Minus(a, 1), r, Minus(Minus(a, 1), r))  BY <1>3, DistIs
<1> QED  BY <1>2, <1>3, <1>4, Indices DEF Dist

-----------------------------------------------------------------------------
(* The invariant.                                                           *)

InBuf == Chars \cup {None}
OutBuf == (Procs \X Nat) \cup {None}
Labels == {"user", "read", "sleep", "asleep", "gone", "put", "full", "start", "send"}

\* Of a read() that goes on, a byte is left at least.
ConTypes ==
  /\ cons \in [buf : [0 .. INPUT_BUF_SIZE - 1 -> InBuf],
               r : Index, w : Index, e : Index, lock : Readers \cup {None, Intr}]
  /\ tx \in [buf : [0 .. UART_TX_BUF_SIZE - 1 -> OutBuf],
             w : Index, r : Index, lock : Writers \cup {None, Intr}]
  /\ rx \in Seq(Chars)
  /\ intr \in {"none", "getc", "echo", "echosend", "start", "send"}
  /\ pc \in [Procs -> Labels]
  /\ n \in [Procs -> Nat]
  /\ \A p \in Procs : n[p] <= Bytes[p] /\ (pc[p] \in {"read", "sleep", "asleep"} => n[p] >= 1)
  /\ killed \in [Readers -> BOOLEAN]
  /\ typed \in 0 .. MaxTyped

\* The bytes to read, and after them the line that is edited, fit into cons.buf.
InOrder ==
  /\ Minus(cons.w, cons.r) <= Minus(cons.e, cons.r)
  /\ Minus(cons.e, cons.r) <= INPUT_BUF_SIZE

ReadersSleep == \A p \in Readers : pc[p] \in {"sleep", "asleep"} => cons.r = cons.w
WritersSleep == \A p \in Writers : pc[p] = "full" => Minus(tx.w, tx.r) = UART_TX_BUF_SIZE

\* Who is about to sleep, or writes an echo, has cons.lock.
Holders ==
  /\ \A p \in Readers : pc[p] = "sleep" => cons.lock = p
  /\ intr \in {"echo", "echosend"} => cons.lock = Intr

ConInv == ConTypes /\ InOrder /\ ReadersSleep /\ WritersSleep /\ Holders

\* A reader is no writer, nor the handler.
LEMMA Reader ==
  ASSUME NEW p \in Readers
  PROVE  p \in Procs /\ p \notin Writers /\ p # None /\ p # Intr /\ None # Intr
BY ConsoleAssumption DEF Procs, Intr

\* While cons.lock is free, or the handler's, no reader is about to sleep.
LEMMA NoneAtSleep ==
  ASSUME ConInv, cons.lock \in {None, Intr}
  PROVE  \A p \in Readers : pc[p] # "sleep"
BY Reader DEF ConInv, Holders

LEMMA ConInit == ASSUME Init PROVE ConInv
<1>1. ConTypes  BY ConsoleAssumption, Indices DEF Init, ConTypes, InBuf, OutBuf, Labels, Procs, Intr
<1>2. InOrder
  <2>1. cons.r = 0 /\ cons.w = 0 /\ cons.e = 0 /\ 0 \in Index  BY Indices DEF Init
  <2>2. Minus(0, 0) = 0  BY <2>1, NoDistance
  <2> QED  BY <2>1, <2>2, Sizes DEF InOrder
<1>3. ReadersSleep /\ WritersSleep /\ Holders
  BY DEF Init, ReadersSleep, WritersSleep, Holders, Procs
<1> QED  BY <1>1, <1>2, <1>3 DEF ConInv

\* What leaves both buffers alone, and moves one process, not to sleep on cons.
LEMMA MovesOne ==
  ASSUME ConInv, NEW p \in Procs, NEW l \in Labels \ {"sleep", "asleep"},
         UNCHANGED <<cons, tx, intr>>, pc' = [pc EXCEPT ![p] = l], ConTypes',
         p \in Writers /\ l = "full" => Minus(tx.w, tx.r) = UART_TX_BUF_SIZE
  PROVE  ConInv'
<1>1. InOrder'  BY DEF ConInv, InOrder
<1>2. ReadersSleep'  BY DEF ConInv, ConTypes, ReadersSleep, Procs
<1>3. WritersSleep'  BY DEF ConInv, ConTypes, WritersSleep, Procs
<1>4. Holders'  BY DEF ConInv, ConTypes, Holders, Procs
<1> QED  BY <1>1, <1>2, <1>3, <1>4 DEF ConInv

LEMMA Reads == ASSUME ConInv, NEW p \in Readers, Read(p) PROVE ConInv'
<1>1. p \in Procs /\ Bytes[p] >= 1 /\ Bytes[p] \in Nat  BY ConsoleAssumption DEF Procs
<1>2. ConTypes'  BY <1>1 DEF ConInv, ConTypes, Read, Goto, uartVars, Labels
<1> QED  BY <1>1, <1>2, MovesOne DEF Read, Goto, uartVars, Labels

\* Of cons, the lock only, and one reader moves.
LEMMA MovesReader ==
  ASSUME ConInv, NEW p \in Readers, NEW l \in {"sleep", "asleep"}, NEW k \in Readers \cup {None, Intr},
         cons.r = cons.w, n[p] >= 1,
         cons' = [cons EXCEPT !.lock = k], pc' = [pc EXCEPT ![p] = l],
         UNCHANGED <<tx, rx, intr, n, killed, typed>>,
         Holders'
  PROVE  ConInv'
<1>1. p \in Procs /\ p \notin Writers  BY Reader
<1>2. cons' \in [buf : [0 .. INPUT_BUF_SIZE - 1 -> InBuf],
                 r : Index, w : Index, e : Index, lock : Readers \cup {None, Intr}]
  BY DEF ConInv, ConTypes
<1>3. pc' \in [Procs -> Labels]  BY <1>1 DEF ConInv, ConTypes, Labels
<1>4. \A q \in Procs : n'[q] <= Bytes[q] /\ (pc'[q] \in {"read", "sleep", "asleep"} => n'[q] >= 1)
  BY <1>1 DEF ConInv, ConTypes
<1>5. ConTypes'  BY <1>2, <1>3, <1>4 DEF ConInv, ConTypes
<1>6. cons'.r = cons.r /\ cons'.w = cons.w /\ cons'.e = cons.e  BY DEF ConInv, ConTypes
<1>7. InOrder'  BY <1>6 DEF ConInv, InOrder
<1>8. ReadersSleep'  BY <1>1, <1>6 DEF ConInv, ConTypes, ReadersSleep, Procs
<1>9. WritersSleep'  BY <1>1 DEF ConInv, ConTypes, WritersSleep, Procs
<1> QED  BY <1>5, <1>7, <1>8, <1>9 DEF ConInv

LEMMA Waits == ASSUME ConInv, NEW p \in Readers, ReadWaits(p) PROVE ConInv'
<1>1. p \in Procs /\ p # Intr /\ None # Intr  BY Reader
<1>2. CASE killed[p]
  <2>1. ConTypes'  BY <1>1, <1>2 DEF ConInv, ConTypes, ReadWaits, Goto, uartVars, Labels
  <2> QED  BY <1>1, <1>2, <2>1, Reader, MovesOne DEF ReadWaits, Goto, uartVars, Labels
<1>3. CASE ~killed[p]
  <2>1. /\ cons' = [cons EXCEPT !.lock = p] /\ pc' = [pc EXCEPT ![p] = "sleep"]
        /\ UNCHANGED <<tx, rx, intr, n, killed, typed>>
        /\ cons.lock = None /\ cons.r = cons.w
    BY <1>3 DEF ReadWaits, Goto, uartVars
  <2>2. n[p] >= 1  BY <1>1 DEF ReadWaits, ConInv, ConTypes
  <2>3. Holders'
    <3>1. cons'.lock = p  BY <2>1 DEF ConInv, ConTypes
    <3>2. \A q \in Readers : pc'[q] = "sleep" => q = p
      BY <2>1, NoneAtSleep DEF ConInv, ConTypes, Procs
    <3>3. intr' \notin {"echo", "echosend"}  BY <1>1, <2>1 DEF ConInv, Holders
    <3> QED  BY <3>1, <3>2, <3>3 DEF Holders
  <2> QED  BY <2>1, <2>2, <2>3, MovesReader
<1> QED  BY <1>2, <1>3

LEMMA Sleeps == ASSUME ConInv, NEW p \in Readers, ReadSleeps(p) PROVE ConInv'
<1>1. p \in Procs /\ p # Intr  BY Reader
<1>2. /\ cons' = [cons EXCEPT !.lock = None] /\ pc' = [pc EXCEPT ![p] = "asleep"]
      /\ UNCHANGED <<tx, rx, intr, n, killed, typed>>
      /\ pc[p] = "sleep"
  BY DEF ReadSleeps, Goto, uartVars
<1>3. n[p] >= 1 /\ cons.r = cons.w /\ cons.lock = p
  BY <1>1, <1>2 DEF ConInv, ConTypes, ReadersSleep, Holders
<1>4. Holders'
  <2>1. \A q \in Readers : pc'[q] # "sleep"
    BY <1>2, <1>3 DEF ConInv, ConTypes, Holders, Procs
  <2>2. intr' \notin {"echo", "echosend"}  BY <1>1, <1>2, <1>3 DEF ConInv, Holders
  <2> QED  BY <2>1, <2>2 DEF Holders
<1> QED  BY <1>2, <1>3, <1>4, MovesReader

\* A byte is read: r comes nearer to w and e, or it stays and the byte with it.
LEMMA ReadsByte == ASSUME ConInv, NEW p \in Readers, ReadByte(p) PROVE ConInv'
<1>1. p \in Procs  BY DEF Procs
<1>2. /\ cons.r \in Index /\ cons.w \in Index /\ cons.e \in Index
      /\ Minus(cons.w, cons.r) \in Nat /\ Minus(cons.e, cons.r) \in Nat
      /\ Plus1(cons.r) \in Index
  BY Plus1Is, NoDistance DEF ConInv, ConTypes
<1>3. /\ cons' = [cons EXCEPT !.r = cons'.r]
      /\ cons'.r \in {cons.r, Plus1(cons.r)}
      /\ UNCHANGED <<tx, killed, rx, intr, typed>>
  BY DEF ReadByte, ConInv, ConTypes, uartVars
<1>4. /\ pc' = [pc EXCEPT ![p] = pc'[p]] /\ pc'[p] \in {"user", "read"}
      /\ n' = [n EXCEPT ![p] = n'[p]] /\ n'[p] \in Nat /\ n'[p] <= n[p]
      /\ pc'[p] = "read" => n'[p] >= 1
  BY <1>1 DEF ReadByte, Goto, ConInv, ConTypes
<1>5. ConTypes'
  <2>1. cons' \in [buf : [0 .. INPUT_BUF_SIZE - 1 -> InBuf],
                   r : Index, w : Index, e : Index, lock : Readers \cup {None, Intr}]
    BY <1>2, <1>3 DEF ConInv, ConTypes
  <2>2. pc' \in [Procs -> Labels] /\ n' \in [Procs -> Nat]
    BY <1>1, <1>4 DEF ConInv, ConTypes, Labels
  <2>3. \A q \in Procs : n'[q] <= Bytes[q] /\ (pc'[q] \in {"read", "sleep", "asleep"} => n'[q] >= 1)
    <3>1. Bytes[p] \in Nat  BY <1>1, ConsoleAssumption DEF Procs
    <3> QED  BY <1>1, <1>4, <3>1 DEF ConInv, ConTypes
  <2> QED  BY <1>3, <2>1, <2>2, <2>3 DEF ConInv, ConTypes
<1>6. cons'.w = cons.w /\ cons'.e = cons.e  BY <1>3 DEF ConInv, ConTypes
<1>7. cons.r # cons.w /\ cons.r # cons.e
  <2>1. cons.r # cons.w  BY DEF ReadByte
  <2> QED  BY <1>2, <2>1, NoDistance DEF ConInv, InOrder
<1>8. InOrder'
  <2>1. CASE cons'.r = cons.r  BY <1>6, <2>1 DEF ConInv, InOrder
  <2>2. CASE cons'.r = Plus1(cons.r)
    <3>1. Minus(cons.w, Plus1(cons.r)) = Minus(cons.w, cons.r) - 1  BY <1>2, <1>7, TakenOut
    <3>2. Minus(cons.e, Plus1(cons.r)) = Minus(cons.e, cons.r) - 1  BY <1>2, <1>7, TakenOut
    <3> QED  BY <1>2, <1>6, <2>2, <3>1, <3>2, Sizes DEF ConInv, InOrder
  <2> QED  BY <1>3, <2>1, <2>2
<1>9. \A q \in Readers : pc'[q] \notin {"sleep", "asleep"}
  <2>1. \A q \in Readers : pc[q] \notin {"sleep", "asleep"}  BY <1>7 DEF ConInv, ReadersSleep
  <2> QED  BY <1>1, <1>4, <2>1 DEF ConInv, ConTypes, Procs
<1>10. WritersSleep'  BY <1>1, <1>3, <1>4 DEF WritersSleep, ConInv, ConTypes, Procs
<1>11. Holders'
  <2>1. cons'.lock = cons.lock  BY <1>3 DEF ConInv, ConTypes
  <2> QED  BY <1>3, <1>9, <2>1 DEF ConInv, Holders
<1> QED  BY <1>5, <1>8, <1>9, <1>10, <1>11 DEF ConInv, ReadersSleep

LEMMA Fills == ASSUME ConInv, NEW p \in Writers, PutFull(p) PROVE ConInv'
<1>1. p \in Procs  BY DEF Procs
<1>2. ConTypes'  BY <1>1 DEF ConInv, ConTypes, PutFull, Goto, uartVars, Labels
<1> QED  BY <1>1, <1>2, MovesOne DEF PutFull, Goto, uartVars, Labels

\* Nobody sleeps for room when there is room.
LEMMA Puts == ASSUME ConInv, NEW p \in Writers, PutByte(p) PROVE ConInv'
<1>1. p \in Procs  BY DEF Procs
<1>2. /\ tx.w \in Index /\ Plus1(tx.w) \in Index
      /\ tx.w % UART_TX_BUF_SIZE \in 0 .. UART_TX_BUF_SIZE - 1
  <2>1. tx.w \in Index  BY DEF ConInv, ConTypes
  <2>2. tx.w \in Int  BY <2>1, Indices
  <2> QED  BY <2>1, <2>2, Plus1Is, ModRange, Sizes
<1>3. <<p, n[p]>> \in OutBuf  BY <1>1 DEF ConInv, ConTypes, OutBuf
<1>4. ConTypes'
  <2>1. tx' \in [buf : [0 .. UART_TX_BUF_SIZE - 1 -> OutBuf],
                 w : Index, r : Index, lock : Writers \cup {None, Intr}]
    BY <1>2, <1>3 DEF ConInv, ConTypes, PutByte
  <2>2. pc' \in [Procs -> Labels] /\ n' \in [Procs -> Nat]
    BY <1>1 DEF ConInv, ConTypes, PutByte, Goto, Labels
  <2>3. \A q \in Procs : n'[q] <= Bytes[q] /\ (pc'[q] \in {"read", "sleep", "asleep"} => n'[q] >= 1)
    <3>1. Bytes[p] \in Nat  BY <1>1, ConsoleAssumption DEF Procs
    <3> QED  BY <1>1, <3>1 DEF ConInv, ConTypes, PutByte, Goto
  <2> QED  BY <2>1, <2>2, <2>3 DEF ConInv, ConTypes, PutByte, uartVars
<1>5. InOrder'  BY DEF ConInv, InOrder, PutByte
<1>6. ReadersSleep'  BY <1>1 DEF ConInv, ConTypes, ReadersSleep, PutByte, Goto, Procs
<1>7. WritersSleep'
  <2>1. \A q \in Writers : pc[q] # "full"  BY DEF ConInv, WritersSleep, PutByte
  <2> QED  BY <1>1, <2>1 DEF WritersSleep, ConInv, ConTypes, PutByte, Goto, Procs
<1>8. Holders'  BY <1>1 DEF ConInv, ConTypes, Holders, PutByte, Goto, Procs
<1> QED  BY <1>4, <1>5, <1>6, <1>7, <1>8 DEF ConInv

LEMMA Sends == ASSUME ConInv, NEW q \in Writers \cup {Intr}, uartstart(q) PROVE ConInv'
<1> USE DEF Goto, uartVars, Procs
<1>1. CASE StartTest(q)
  <2>1. ConTypes'  BY <1>1 DEF ConInv, ConTypes, StartTest, Labels
  <2>2. InOrder' /\ ReadersSleep' /\ WritersSleep' /\ Holders'
    BY <1>1 DEF ConInv, ConTypes, InOrder, ReadersSleep, WritersSleep, Holders, StartTest
  <2> QED  BY <2>1, <2>2 DEF ConInv
<1>2. CASE StartSend(q)
  <2>1. /\ UNCHANGED <<cons, n, killed, rx, typed>>
        /\ tx' = [tx EXCEPT !.r = Plus1(tx.r)]
        /\ intr' \in {intr, "start"}
    BY <1>2 DEF StartSend
  <2>2. /\ pc' \in [Procs -> Labels]
        /\ \A p \in Procs : pc'[p] # pc[p] => pc'[p] \in {"put", "start"}
        /\ \A p \in Writers : pc'[p] # "full"
    <3> DEFINE woken == Wakeup(Writers, "full", "put")
    <3>1. /\ woken \in [Procs -> Labels]
          /\ \A p \in Procs : woken[p] # pc[p] => woken[p] = "put"
          /\ \A p \in Writers : woken[p] # "full"
      BY DEF Wakeup, ConInv, ConTypes, Labels
    <3> HIDE DEF woken
    <3>2. CASE q = Intr
      <4>1. pc' = woken  BY <1>2, <3>2 DEF StartSend, woken
      <4> QED  BY <3>1, <4>1
    <3>3. CASE q # Intr
      <4>1. pc' = [woken EXCEPT ![q] = "start"]  BY <1>2, <3>3 DEF StartSend, woken
      <4> QED  BY <3>1, <3>3, <4>1 DEF Labels
    <3> QED  BY <3>2, <3>3
  <2>3. tx' \in [buf : [0 .. UART_TX_BUF_SIZE - 1 -> OutBuf],
                 w : Index, r : Index, lock : Writers \cup {None, Intr}]
    <3>1. Plus1(tx.r) \in Index  BY Plus1Is DEF ConInv, ConTypes
    <3> QED  BY <2>1, <3>1 DEF ConInv, ConTypes
  <2>4. ConTypes'  BY <2>1, <2>2, <2>3 DEF ConInv, ConTypes
  <2>5. InOrder' /\ ReadersSleep' /\ WritersSleep' /\ Holders'
    BY <2>1, <2>2 DEF ConInv, ConTypes, InOrder, ReadersSleep, WritersSleep, Holders
  <2> QED  BY <2>4, <2>5 DEF ConInv
<1>3. CASE StartEnd(q)
  <2>1. ConTypes'  BY <1>3 DEF ConInv, ConTypes, StartEnd, Labels
  <2>2. InOrder' /\ ReadersSleep' /\ WritersSleep' /\ Holders'
    BY <1>3 DEF ConInv, ConTypes, InOrder, ReadersSleep, WritersSleep, Holders, StartEnd
  <2> QED  BY <2>1, <2>2 DEF ConInv
<1> QED  BY <1>1, <1>2, <1>3 DEF uartstart

LEMMA Interrupts ==
  ASSUME ConInv, IntrBegin \/ IntrNoChar \/ EchoTest \/ EchoSend PROVE ConInv'
<1>1. /\ UNCHANGED <<pc, n, killed, typed, rx>>
      /\ intr' \in {"getc", "start", "echosend"}
      /\ tx' = [tx EXCEPT !.lock = tx'.lock] /\ tx'.lock \in {tx.lock, Intr}
      /\ cons' = [cons EXCEPT !.lock = cons'.lock] /\ cons'.lock \in {cons.lock, None}
      /\ intr' = "echosend" => intr = "echo" /\ cons'.lock = cons.lock
      /\ cons'.lock # cons.lock => intr = "echosend"
  BY DEF IntrBegin, IntrNoChar, EchoTest, EchoSend, conVars, uartVars, ConInv, ConTypes
<1>2. ConTypes'  BY <1>1 DEF ConInv, ConTypes
<1>3. InOrder' /\ ReadersSleep' /\ WritersSleep'
  BY <1>1 DEF ConInv, ConTypes, InOrder, ReadersSleep, WritersSleep
<1>4. Holders'
  <2>1. cons'.lock # cons.lock => \A p \in Readers : pc[p] # "sleep"
    BY <1>1, NoneAtSleep DEF ConInv, Holders
  <2> QED  BY <1>1, <2>1 DEF ConInv, Holders
<1> QED  BY <1>2, <1>3, <1>4 DEF ConInv

LEMMA World ==
  ASSUME ConInv, (\E c \in Chars : Typing(c)) \/ Transmit PROVE ConInv'
<1>1. /\ UNCHANGED <<pc, n, killed, tx, cons, intr>>
      /\ rx' \in Seq(Chars) /\ typed' \in 0 .. MaxTyped
  <2>1. CASE \E c \in Chars : Typing(c)
    <3>1. PICK c \in Chars : Typing(c)  BY <2>1
    <3>2. rx' \in Seq(Chars)  BY <3>1 DEF Typing, ConInv, ConTypes
    <3>3. typed' \in 0 .. MaxTyped  BY <3>1, ConsoleAssumption DEF Typing, ConInv, ConTypes
    <3> QED  BY <3>1, <3>2, <3>3 DEF Typing, conVars
  <2>2. CASE Transmit  BY <2>2 DEF Transmit, conVars, ConInv, ConTypes
  <2> QED  BY <2>1, <2>2
<1>2. ConTypes'  BY <1>1 DEF ConInv, ConTypes
<1>3. InOrder' /\ ReadersSleep' /\ WritersSleep' /\ Holders'
  BY <1>1 DEF ConInv, ConTypes, InOrder, ReadersSleep, WritersSleep, Holders
<1> QED  BY <1>2, <1>3 DEF ConInv

LEMMA Kills == ASSUME ConInv, NEW p \in Procs, Kill(p) PROVE ConInv'
<1>1. /\ UNCHANGED <<cons, tx, rx, intr, n, typed>>
      /\ killed' \in [Readers -> BOOLEAN]
      /\ \A q \in Readers : q # p => killed'[q] = killed[q]
      /\ p \notin Readers => killed' = killed
  BY DEF Kill, ConInv, ConTypes, uartVars
<1>2. /\ pc' \in [Procs -> Labels]
      /\ \A q \in Procs : q # p => pc'[q] = pc[q]
      /\ pc'[p] # "asleep" /\ pc'[p] # "full"
      /\ pc'[p] = "read" => pc[p] \in {"read", "asleep"}
      /\ pc'[p] = "sleep" => pc[p] = "sleep"
  <2>1. CASE pc[p] = "asleep"  BY <2>1 DEF Kill, ConInv, ConTypes, Labels
  <2>2. CASE pc[p] = "full"  BY <2>2 DEF Kill, ConInv, ConTypes, Labels
  <2>3. CASE pc[p] # "asleep" /\ pc[p] # "full"  BY <2>3 DEF Kill, ConInv, ConTypes, Labels
  <2> QED  BY <2>1, <2>2, <2>3
<1>3. \A q \in Procs : n'[q] <= Bytes[q] /\ (pc'[q] \in {"read", "sleep", "asleep"} => n'[q] >= 1)
  BY <1>1, <1>2 DEF ConInv, ConTypes
<1>4. ConTypes'  BY <1>1, <1>2, <1>3 DEF ConInv, ConTypes
<1>5. InOrder'  BY <1>1 DEF ConInv, InOrder
<1>6. ReadersSleep'  BY <1>1, <1>2 DEF ConInv, ReadersSleep, Procs
<1>7. WritersSleep'  BY <1>1, <1>2 DEF ConInv, WritersSleep, Procs
<1>8. Holders'  BY <1>1, <1>2 DEF ConInv, Holders, Procs
<1> QED  BY <1>4, <1>5, <1>6, <1>7, <1>8 DEF ConInv

-----------------------------------------------------------------------------
(* consoleintr(): what it does to cons, and to those that sleep.            *)

\* The facts about cons that the three cases need.
LEMMA Shape ==
  ASSUME ConInv
  PROVE  /\ cons.r \in Index /\ cons.w \in Index /\ cons.e \in Index
         /\ Minus(cons.w, cons.r) \in Nat /\ Minus(cons.e, cons.r) \in Nat
         /\ Minus(cons.w, cons.r) <= Minus(cons.e, cons.r)
         /\ Minus(cons.e, cons.r) <= INPUT_BUF_SIZE
         /\ Minus(cons.e, cons.w) = Minus(cons.e, cons.r) - Minus(cons.w, cons.r)
<1>1. cons.r \in Index /\ cons.w \in Index /\ cons.e \in Index  BY DEF ConInv, ConTypes
<1> QED  BY <1>1, NoDistance, Between DEF ConInv, InOrder

\* The last byte of the line, or the line, is taken out.
LEMMA Erases ==
  ASSUME ConInv, NEW c, ConsErase(c) \/ ConsKill(c)
  PROVE  /\ intr' \in {"echo", "getc"} /\ UNCHANGED pc
         /\ intr' = "echo" => cons'.lock = Intr
         /\ \E k \in {None, Intr}, e \in Index :
              /\ cons' = [cons EXCEPT !.lock = k, !.e = e]
              /\ \/ e \in {cons.e, cons.w}
                 \/ ConsErase(c) /\ cons.e # cons.w /\ e = Minus(cons.e, 1)
<1>1. cons.w \in Index /\ cons.e \in Index  BY Shape
<1>2. CASE ConsErase(c)
  <2>1. CASE cons.e # cons.w
    <3>1. Minus(cons.e, 1) \in Index  BY <1>1, <2>1, Back
    <3>2. cons' = [cons EXCEPT !.lock = Intr, !.e = Minus(cons.e, 1)] /\ intr' = "echo" /\ UNCHANGED pc
      BY <1>2, <2>1 DEF ConsErase, Edits, ConInv, ConTypes
    <3>3. cons'.lock = Intr  BY <3>2 DEF ConInv, ConTypes
    <3> QED  BY <1>2, <2>1, <3>1, <3>2, <3>3
  <2>2. CASE cons.e = cons.w
    <3>1. cons' = [cons EXCEPT !.lock = None, !.e = cons.e] /\ intr' = "getc" /\ UNCHANGED pc
      BY <1>2, <2>2 DEF ConsErase, Edits, ConInv, ConTypes
    <3> QED  BY <1>1, <3>1
  <2> QED  BY <2>1, <2>2
<1>3. CASE ConsKill(c)
  <2>1. \E k \in {None, Intr}, e \in {cons.e, cons.w} : cons' = [cons EXCEPT !.lock = k, !.e = e]
    BY <1>3 DEF ConsKill, Edits, ConInv, ConTypes
  <2>2. intr' \in {"echo", "getc"} /\ UNCHANGED pc  BY <1>3 DEF ConsKill, Edits
  <2>3. intr' = "echo" => cons'.lock = Intr  BY <1>3 DEF ConsKill, Edits, ConInv, ConTypes
  <2> QED  BY <1>1, <2>1, <2>2, <2>3
<1> QED  BY <1>2, <1>3

\* A line ends with c, or because c fills the buffer.
Whole(c) == c \in {"nl", "^D"} \/ Minus(cons.e, cons.r) = INPUT_BUF_SIZE - 1

\* A byte is stored, behind the line or with the line for those that read.
Put(c, w) ==
  cons' = [cons EXCEPT !.buf[cons.e % INPUT_BUF_SIZE] = c, !.e = Plus1(cons.e), !.w = w, !.lock = Intr]

LEMMA Stores ==
  ASSUME ConInv, NEW c, ConsStore(c)
  PROVE  /\ intr' \in {"echo", "getc"}
         /\ \/ /\ cons' = [cons EXCEPT !.lock = None]
               /\ UNCHANGED pc /\ intr' = "getc"
            \/ /\ Minus(cons.e, cons.r) < INPUT_BUF_SIZE
               /\ ~Whole(c)
               /\ Put(c, cons.w)
               /\ UNCHANGED pc
            \/ /\ Minus(cons.e, cons.r) < INPUT_BUF_SIZE
               /\ Whole(c)
               /\ Put(c, Plus1(cons.e))
               /\ pc' = Wakeup(Readers, "asleep", "read")
<1>1. /\ cons.r \in Index /\ cons.e \in Index
      /\ Minus(cons.e, cons.r) \in Nat
  BY Shape
<1>2. CASE Minus(cons.e, cons.r) < INPUT_BUF_SIZE
  <2>1. Minus(Plus1(cons.e), cons.r) = Minus(cons.e, cons.r) + 1
    <3>1. Minus(cons.e, cons.r) < Wrap - 1  BY <1>1, <1>2, Sizes
    <3> QED  BY <1>1, <3>1, PutIn
  <2>2. Stored(c).e = Plus1(cons.e)  BY DEF Stored, ConInv, ConTypes
  <2>3. (c \in {"nl", "^D"} \/ Minus(Stored(c).e, cons.r) = INPUT_BUF_SIZE) <=> Whole(c)
    BY <1>1, <2>1, <2>2, Sizes DEF Whole
  <2>4. intr' = "echo"  BY <1>2 DEF ConsStore, Edits
  <2>5. CASE Whole(c)
    <3>1. cons' = [[Stored(c) EXCEPT !.w = Plus1(cons.e)] EXCEPT !.lock = Intr]
      BY <1>2, <2>2, <2>3, <2>5 DEF ConsStore, Edits
    <3>2. Put(c, Plus1(cons.e))  BY <3>1 DEF Put, Stored, ConInv, ConTypes
    <3>3. pc' = Wakeup(Readers, "asleep", "read")  BY <1>2, <2>3, <2>5 DEF ConsStore
    <3> QED  BY <1>2, <2>4, <2>5, <3>2, <3>3
  <2>6. CASE ~Whole(c)
    <3>1. cons' = [[Stored(c) EXCEPT !.w = Stored(c).w] EXCEPT !.lock = Intr]
      BY <1>2, <2>3, <2>6 DEF ConsStore, Edits
    <3>2. Put(c, cons.w)  BY <3>1 DEF Put, Stored, ConInv, ConTypes
    <3>3. UNCHANGED pc  BY <1>2, <2>3, <2>6 DEF ConsStore
    <3> QED  BY <1>2, <2>4, <2>6, <3>2, <3>3
  <2> QED  BY <2>5, <2>6
<1>3. CASE ~(Minus(cons.e, cons.r) < INPUT_BUF_SIZE)
  BY <1>3 DEF ConsStore, Edits
<1> QED  BY <1>2, <1>3

LEMMA PutTyped ==
  ASSUME ConInv, NEW c \in Chars, NEW w \in Index, Put(c, w)
  PROVE  /\ cons' \in [buf : [0 .. INPUT_BUF_SIZE - 1 -> InBuf],
                       r : Index, w : Index, e : Index, lock : Readers \cup {None, Intr}]
         /\ cons'.buf = [cons.buf EXCEPT ![cons.e % INPUT_BUF_SIZE] = c]
         /\ cons'.r = cons.r /\ cons'.w = w /\ cons'.e = Plus1(cons.e)
<1>1. cons.e \in Index /\ Plus1(cons.e) \in Index  BY Shape, Plus1Is
<1>2. cons.e % INPUT_BUF_SIZE \in 0 .. INPUT_BUF_SIZE - 1
  <2>1. cons.e \in Int  BY <1>1, Indices
  <2> QED  BY <2>1, ModRange, Sizes
<1> QED  BY <1>1, <1>2 DEF Put, ConInv, ConTypes, InBuf

LEMMA Characters == ASSUME ConInv, IntrChar PROVE ConInv'
<1>1. PICK c \in Chars : ConsErase(c) \/ ConsKill(c) \/ ConsStore(c)
  <2>1. Head(rx) \in Chars  BY DEF ConInv, ConTypes, IntrChar
  <2> QED  BY <2>1 DEF IntrChar
<1>2. rx' \in Seq(Chars) /\ UNCHANGED <<tx, n, killed, typed>>
  BY DEF ConInv, ConTypes, IntrChar
<1>3. \* It is enough to know what becomes of cons, of the handler and of pc.
      ASSUME cons' \in [buf : [0 .. INPUT_BUF_SIZE - 1 -> InBuf],
                        r : Index, w : Index, e : Index, lock : Readers \cup {None, Intr}],
             cons'.r = cons.r,
             intr' \in {"echo", "getc"},
             Minus(cons'.w, cons.r) <= Minus(cons'.e, cons.r),
             Minus(cons'.e, cons.r) <= INPUT_BUF_SIZE,
             intr' = "echo" => cons'.lock = Intr,
             \/ UNCHANGED pc /\ cons'.w = cons.w
             \/ pc' = Wakeup(Readers, "asleep", "read")
      PROVE  ConInv'
  <2>1. /\ pc' \in [Procs -> Labels]
        /\ \A p \in Procs : pc'[p] # pc[p] => pc[p] = "asleep" /\ pc'[p] = "read"
        /\ \/ \A p \in Readers : pc'[p] # "asleep"
           \/ UNCHANGED pc /\ cons'.w = cons.w
        /\ \A p \in Readers : pc'[p] # "sleep"
    <3>0. \A p \in Readers : pc[p] # "sleep"  BY NoneAtSleep DEF IntrChar
    <3>1. CASE UNCHANGED pc /\ cons'.w = cons.w  BY <3>0, <3>1 DEF ConInv, ConTypes
    <3>2. CASE pc' = Wakeup(Readers, "asleep", "read")
      <4>1. pc' = [p \in Procs |-> IF p \in Readers /\ pc[p] = "asleep" THEN "read" ELSE pc[p]]
        BY <3>2 DEF Wakeup
      <4>2. pc \in [Procs -> Labels] /\ Readers \subseteq Procs /\ "read" \in Labels
        BY DEF ConInv, ConTypes, Labels, Procs
      <4>3. pc' \in [Procs -> Labels]  BY <4>1, <4>2
      <4>4. \A p \in Procs : pc'[p] = IF p \in Readers /\ pc[p] = "asleep" THEN "read" ELSE pc[p]
        BY <4>1
      <4>5. \A p \in Readers : pc'[p] # "asleep"  BY <4>2, <4>4
      <4>6. \A p \in Procs : pc'[p] # pc[p] => pc[p] = "asleep" /\ pc'[p] = "read"  BY <4>4
      <4>7. \A p \in Readers : pc'[p] # "sleep"  BY <3>0, <4>2, <4>4
      <4> QED  BY <4>3, <4>5, <4>6, <4>7
    <3> QED  BY <1>3, <3>1, <3>2
  <2>2. ConTypes'
    <3>1. \A p \in Procs : n'[p] <= Bytes[p] /\ (pc'[p] \in {"read", "sleep", "asleep"} => n'[p] >= 1)
      BY <1>2, <2>1 DEF ConInv, ConTypes
    <3> QED  BY <1>2, <1>3, <2>1, <3>1 DEF ConInv, ConTypes
  <2>3. InOrder'  BY <1>3 DEF InOrder
  <2>4. ReadersSleep'  BY <1>2, <1>3, <2>1 DEF ConInv, ReadersSleep
  <2>5. WritersSleep'  BY <1>2, <2>1 DEF ConInv, WritersSleep, Procs
  <2>6. Holders'  BY <1>3, <2>1 DEF Holders
  <2> QED  BY <2>2, <2>3, <2>4, <2>5, <2>6 DEF ConInv
<1>4. CASE ConsErase(c) \/ ConsKill(c)
  <2>1. PICK k \in {None, Intr}, e \in Index :
          /\ cons' = [cons EXCEPT !.lock = k, !.e = e]
          /\ \/ e \in {cons.e, cons.w}
             \/ cons.e # cons.w /\ e = Minus(cons.e, 1)
    BY <1>4, Erases
  <2>2. intr' \in {"echo", "getc"} /\ UNCHANGED pc /\ (intr' = "echo" => cons'.lock = Intr)
    BY <1>4, Erases
  <2>3. /\ cons' \in [buf : [0 .. INPUT_BUF_SIZE - 1 -> InBuf],
                      r : Index, w : Index, e : Index, lock : Readers \cup {None, Intr}]
        /\ cons'.r = cons.r /\ cons'.w = cons.w /\ cons'.e = e
    BY <2>1 DEF ConInv, ConTypes
  <2>4. Minus(cons.w, cons.r) <= Minus(e, cons.r) /\ Minus(e, cons.r) <= INPUT_BUF_SIZE
    <3>1. CASE e \in {cons.e, cons.w}  BY <3>1, Shape, Sizes
    <3>2. CASE cons.e # cons.w /\ e = Minus(cons.e, 1)
      <4>1. Minus(cons.e, cons.w) # 0  BY <3>2, Shape, NoDistance
      <4>2. Minus(cons.w, cons.r) < Minus(cons.e, cons.r)  BY <4>1, Shape
      <4>3. cons.e # cons.r  BY <4>2, Shape, NoDistance
      <4>4. Minus(e, cons.r) = Minus(cons.e, cons.r) - 1  BY <3>2, <4>3, Shape, Back
      <4> QED  BY <4>2, <4>4, Shape, Sizes
    <3> QED  BY <2>1, <3>1, <3>2
  <2> QED  BY <1>3, <2>2, <2>3, <2>4
<1>5. CASE ConsStore(c)
  <2>1. CASE cons' = [cons EXCEPT !.lock = None] /\ UNCHANGED pc /\ intr' = "getc"
    <3>1. /\ cons' \in [buf : [0 .. INPUT_BUF_SIZE - 1 -> InBuf],
                        r : Index, w : Index, e : Index, lock : Readers \cup {None, Intr}]
          /\ cons'.r = cons.r /\ cons'.w = cons.w /\ cons'.e = cons.e
      BY <2>1 DEF ConInv, ConTypes
    <3> QED  BY <1>3, <2>1, <3>1, Shape
  <2>2. ASSUME Minus(cons.e, cons.r) < INPUT_BUF_SIZE,
               NEW w \in {cons.w, Plus1(cons.e)}, Put(c, w),
               \/ w = cons.w /\ UNCHANGED pc
               \/ pc' = Wakeup(Readers, "asleep", "read")
        PROVE  ConInv'
    <3>1. Plus1(cons.e) \in Index /\ w \in Index  BY Shape, Plus1Is
    <3>2. /\ cons' \in [buf : [0 .. INPUT_BUF_SIZE - 1 -> InBuf],
                        r : Index, w : Index, e : Index, lock : Readers \cup {None, Intr}]
          /\ cons'.r = cons.r /\ cons'.w = w /\ cons'.e = Plus1(cons.e)
      BY <2>2, <3>1, PutTyped
    <3>3. Minus(Plus1(cons.e), cons.r) = Minus(cons.e, cons.r) + 1
      <4>1. Minus(cons.e, cons.r) < Wrap - 1  BY <2>2, Shape, Sizes
      <4> QED  BY <4>1, Shape, PutIn
    <3>4. /\ Minus(cons'.w, cons.r) <= Minus(cons'.e, cons.r)
          /\ Minus(cons'.e, cons.r) <= INPUT_BUF_SIZE
      BY <2>2, <3>2, <3>3, Shape, Sizes
    <3>5. intr' \in {"echo", "getc"}  BY <1>5, Stores
    <3>6. cons'.lock = Intr  BY <2>2 DEF Put, ConInv, ConTypes
    <3> QED  BY <1>3, <2>2, <3>2, <3>4, <3>5, <3>6
  <2> QED  BY <1>5, <2>1, <2>2, Stores
<1> QED  BY <1>1, <1>4, <1>5

LEMMA Stutters == ASSUME ConInv, UNCHANGED vars PROVE ConInv'
BY DEF ConInv, ConTypes, InOrder, ReadersSleep, WritersSleep, Holders, vars

LEMMA ConStep == ASSUME ConInv, [Next]_vars PROVE ConInv'
<1>1. CASE Handler
  BY <1>1, Characters, Interrupts, Sends DEF Handler, uartintr, consoleintr
<1>2. CASE \E p \in Readers : consoleread(p)
  BY <1>2, Reads, Waits, Sleeps, ReadsByte DEF consoleread
<1>3. CASE \E p \in Writers : uartputc(p) \/ uartstart(p)
  BY <1>3, Fills, Puts, Sends DEF uartputc
<1>4. CASE \E p \in Procs : Kill(p)  BY <1>4, Kills
<1>5. CASE (\E c \in Chars : Typing(c)) \/ Transmit  BY <1>5, World
<1>6. CASE UNCHANGED vars  BY <1>6, Stutters
<1> QED  BY <1>1, <1>2, <1>3, <1>4, <1>5, <1>6 DEF Next

LEMMA ConAlways == Spec => []ConInv
<1>1. Init => ConInv  BY ConInit
<1>2. ConInv /\ [Next]_vars => ConInv'  BY ConStep
<1> QED  BY <1>1, <1>2, PTL DEF Spec

\* Nobody sleeps while there is what it waits for: a line that has ended, or room
\* for a byte to be sent. consoleintr() wakes the readers whenever it moves w,
\* and uartstart() the writers whenever it moves r; what is tested before
\* sleep() is tested with the same lock held.
THEOREM NobodySleepsInVain == Spec => []NobodyWaitsInVain
<1>1. ConInv => NobodyWaitsInVain
  <2>1. ASSUME ConInv PROVE TypeOK
    <3>1. \A p \in Procs : n[p] \in 0 .. Bytes[p]
      BY <2>1, ConsoleAssumption DEF ConInv, ConTypes, Procs
    <3> QED  BY <2>1, <3>1 DEF ConInv, ConTypes, TypeOK, InBuf, Labels
  <2> QED  BY <2>1 DEF ConInv, ReadersSleep, WritersSleep, NobodyWaitsInVain
<1> QED  BY <1>1, ConAlways, PTL

-----------------------------------------------------------------------------
(* The terminal: what is to be read, and the line that is edited.           *)

Queue == From(cons.buf, INPUT_BUF_SIZE, cons.r, Minus(cons.w, cons.r))
Edit == From(cons.buf, INPUT_BUF_SIZE, cons.w, Minus(cons.e, cons.w))

\* cons.buf, its size and its indices have the types that the lemmas about a ring
\* buffer ask for.
LEMMA Ring ==
  ASSUME ConInv
  PROVE  /\ INPUT_BUF_SIZE \in Nat \ {0} /\ Wrap % INPUT_BUF_SIZE = 0
         /\ cons.buf \in [0 .. INPUT_BUF_SIZE - 1 -> InBuf]
         /\ cons.r \in Nat /\ cons.w \in Nat /\ cons.e \in Nat
         /\ Minus(cons.w, cons.r) \in Nat /\ Minus(cons.e, cons.w) \in Nat
<1>1. Minus(cons.e, cons.w) \in Nat  BY Shape, NoDistance
<1>2. cons.buf \in [0 .. INPUT_BUF_SIZE - 1 -> InBuf]  BY DEF ConInv, ConTypes
<1> QED  BY <1>1, <1>2, Shape, Sizes, Indices

LEMMA QueueIs ==
  ASSUME ConInv
  PROVE  /\ Queue \in Seq(InBuf) /\ Len(Queue) = Minus(cons.w, cons.r)
         /\ Edit \in Seq(InBuf) /\ Len(Edit) = Minus(cons.e, cons.w)
<1>1. RingOf(InBuf, cons.buf, INPUT_BUF_SIZE, cons.r, Minus(cons.w, cons.r))  BY Ring, FromIs, Zenon
<1>2. RingOf(InBuf, cons.buf, INPUT_BUF_SIZE, cons.w, Minus(cons.e, cons.w))  BY Ring, FromIs, Zenon
<1> QED  BY <1>1, <1>2 DEF RingOf, Queue, Edit

\* A byte of a read() is the first one of the queue, or is left there.
LEMMA ReadTakes ==
  ASSUME ConInv, NEW p \in Readers, ReadByte(p)
  PROVE  \/ Queue # <<>> /\ Queue' = Tail(Queue) /\ Edit' = Edit
         \/ Queue' = Queue /\ Edit' = Edit
<1>1. /\ cons.r # cons.w
      /\ \/ cons' = cons
         \/ cons' = [cons EXCEPT !.r = Plus1(cons.r)]
  BY DEF ReadByte, ConInv, ConTypes
<1>2. CASE cons' = cons  BY <1>2 DEF Queue, Edit
<1>3. CASE cons' = [cons EXCEPT !.r = Plus1(cons.r)]
  <2>1. /\ cons'.buf = cons.buf /\ cons'.w = cons.w /\ cons'.e = cons.e
        /\ cons'.r = Plus1(cons.r)
    BY <1>3 DEF ConInv, ConTypes
  <2>2. PICK k \in Nat \ {0} : k = Minus(cons.w, cons.r)  BY <1>1, Shape, NoDistance
  <2>3. Minus(cons.w, Plus1(cons.r)) = k - 1  BY <1>1, <2>2, Shape, TakenOut
  <2>4. TailIs(cons.buf, INPUT_BUF_SIZE, cons.r, k)
    <3>1. cons.r \in Index  BY Shape
    <3> QED  BY <3>1, Ring, FromTail, Zenon
  <2>5. Queue' = From(cons.buf, INPUT_BUF_SIZE, Plus1(cons.r), k - 1)  BY <2>1, <2>3 DEF Queue
  <2>6. Edit' = Edit  BY <2>1 DEF Edit
  <2> QED  BY <2>2, <2>4, <2>5, <2>6 DEF Queue, TailIs
<1> QED  BY <1>1, <1>2, <1>3

\* An erased byte is the last one of the line, and an erased line is empty.
LEMMA ErasesLine ==
  ASSUME ConInv, NEW c, ConsErase(c) \/ ConsKill(c)
  PROVE  /\ Queue' = Queue
         /\ \/ Edit # <<>> /\ Edit' = Front(Edit)
            \/ Edit' = <<>>
            \/ Edit' = Edit
<1>1. PICK k \in {None, Intr}, e \in Index :
        /\ cons' = [cons EXCEPT !.lock = k, !.e = e]
        /\ \/ e \in {cons.e, cons.w}
           \/ cons.e # cons.w /\ e = Minus(cons.e, 1)
  BY Erases
<1>2. cons'.buf = cons.buf /\ cons'.w = cons.w /\ cons'.r = cons.r /\ cons'.e = e
  BY <1>1 DEF ConInv, ConTypes
<1>3. Queue' = Queue  BY <1>2 DEF Queue
<1>4. Edit' = From(cons.buf, INPUT_BUF_SIZE, cons.w, Minus(e, cons.w))  BY <1>2 DEF Edit
<1>5. CASE e = cons.e  BY <1>3, <1>4, <1>5 DEF Edit
<1>6. CASE e = cons.w
  <2>1. Minus(e, cons.w) = 0  BY <1>6, Shape, NoDistance
  <2>2. From(cons.buf, INPUT_BUF_SIZE, cons.w, 0) = <<>>  BY Ring, FromEmpty, Zenon
  <2> QED  BY <1>3, <1>4, <2>1, <2>2
<1>7. CASE cons.e # cons.w /\ e = Minus(cons.e, 1)
  <2>1. PICK m \in Nat \ {0} : m = Minus(cons.e, cons.w)  BY <1>7, Shape, NoDistance
  <2>2. Minus(e, cons.w) = m - 1  BY <1>7, <2>1, Shape, Back
  <2>3. /\ From(cons.buf, INPUT_BUF_SIZE, cons.w, m) # <<>>
        /\ Front(From(cons.buf, INPUT_BUF_SIZE, cons.w, m)) =
             From(cons.buf, INPUT_BUF_SIZE, cons.w, m - 1)
    <3>1. cons.buf \in [0 .. INPUT_BUF_SIZE - 1 -> InBuf]  BY Ring
    <3>2. INPUT_BUF_SIZE \in Nat \ {0} /\ cons.w \in Nat  BY Ring
    <3> QED  BY <3>1, <3>2, FromFront, SMTT(30)
  <2> QED  BY <1>3, <1>4, <2>1, <2>2, <2>3 DEF Edit
<1> QED  BY <1>1, <1>5, <1>6, <1>7

\* Where a byte is stored: behind the line, and so behind all that is not read yet.
LEMMA StoredBehind ==
  ASSUME ConInv
  PROVE  /\ cons.e % INPUT_BUF_SIZE = (cons.r + Minus(cons.e, cons.r)) % INPUT_BUF_SIZE
         /\ cons.e % INPUT_BUF_SIZE = (cons.w + Minus(cons.e, cons.w)) % INPUT_BUF_SIZE
<1>1. cons.r \in Index /\ cons.w \in Index /\ cons.e \in Index  BY Shape
<1>2. INPUT_BUF_SIZE \in Nat \ {0} /\ Wrap % INPUT_BUF_SIZE = 0  BY Sizes
<1>3. (cons.r + Minus(cons.e, cons.r)) % INPUT_BUF_SIZE = cons.e % INPUT_BUF_SIZE
  BY <1>1, <1>2, Behind, Zenon
<1>4. (cons.w + Minus(cons.e, cons.w)) % INPUT_BUF_SIZE = cons.e % INPUT_BUF_SIZE
  BY <1>1, <1>2, Behind, Zenon
<1> QED  BY <1>3, <1>4

\* The line goes on.
LEMMA PutGoesOn ==
  ASSUME ConInv, NEW c \in Chars, Put(c, cons.w), Minus(cons.e, cons.r) < INPUT_BUF_SIZE
  PROVE  Queue' = Queue /\ Edit' = Append(Edit, c)
<1> DEFINE new == [cons.buf EXCEPT ![cons.e % INPUT_BUF_SIZE] = c]
<1>1. cons'.buf = new /\ cons'.r = cons.r /\ cons'.w = cons.w /\ cons'.e = Plus1(cons.e)
  <2>1. cons.w \in Index  BY Shape
  <2> QED  BY <2>1, PutTyped
<1>2. c \in InBuf  BY DEF InBuf
<1>3. PICK k \in Nat : k = Minus(cons.w, cons.r)  BY Shape
<1>4. PICK m \in Nat : m = Minus(cons.e, cons.w)  BY Ring
<1>5. PICK d \in Nat : d = Minus(cons.e, cons.r)  BY Shape
<1>6. k <= d /\ d < INPUT_BUF_SIZE /\ m < INPUT_BUF_SIZE  BY <1>3, <1>4, <1>5, Shape, Sizes
<1>7. Keeps(cons.buf, INPUT_BUF_SIZE, cons.r, k, d, c)
  BY <1>2, <1>6, Ring, FromOther, Zenon
<1>8. Lengthens(cons.buf, INPUT_BUF_SIZE, cons.w, m, c)
  BY <1>2, <1>6, Ring, FromAppend, Zenon
<1>9. Minus(Plus1(cons.e), cons.w) = m + 1
  <2>1. m < Wrap - 1  BY <1>6, Sizes
  <2> QED  BY <1>4, <2>1, Shape, PutIn
<1>10. Queue' = From(new, INPUT_BUF_SIZE, cons.r, k)  BY <1>1, <1>3 DEF Queue
<1>11. Edit' = From(new, INPUT_BUF_SIZE, cons.w, m + 1)  BY <1>1, <1>9 DEF Edit
<1>12. Queue' = Queue  BY <1>3, <1>5, <1>7, <1>10, StoredBehind DEF Queue, Keeps
<1>13. Edit' = Append(Edit, c)  BY <1>4, <1>8, <1>11, StoredBehind DEF Edit, Lengthens
<1> QED  BY <1>12, <1>13

\* The line ends, and may be read.
LEMMA PutEnds ==
  ASSUME ConInv, NEW c \in Chars, Put(c, Plus1(cons.e)), Minus(cons.e, cons.r) < INPUT_BUF_SIZE
  PROVE  Queue' = Queue \o Append(Edit, c) /\ Edit' = <<>>
<1> DEFINE new == [cons.buf EXCEPT ![cons.e % INPUT_BUF_SIZE] = c]
<1>0. Plus1(cons.e) \in Index  BY Shape, Plus1Is
<1>1. /\ cons'.buf = new /\ cons'.r = cons.r
      /\ cons'.w = Plus1(cons.e) /\ cons'.e = Plus1(cons.e)
  BY <1>0, PutTyped
<1>2. c \in InBuf  BY DEF InBuf
<1>3. PICK k \in Nat : k = Minus(cons.w, cons.r)  BY Shape
<1>4. PICK m \in Nat : m = Minus(cons.e, cons.w)  BY Ring
<1>5. PICK d \in Nat : d = Minus(cons.e, cons.r)  BY Shape
<1>6. d = k + m /\ d < INPUT_BUF_SIZE  BY <1>3, <1>4, <1>5, Shape, Sizes
<1>7. Lengthens(cons.buf, INPUT_BUF_SIZE, cons.r, d, c)
  BY <1>2, <1>6, Ring, FromAppend, Zenon
<1>8. Queue \o Edit = From(cons.buf, INPUT_BUF_SIZE, cons.r, d)
  <2>1. \A j \in Nat : (cons.w + j) % INPUT_BUF_SIZE = (cons.r + k + j) % INPUT_BUF_SIZE
    <3>1. INPUT_BUF_SIZE \in Nat \ {0} /\ Wrap % INPUT_BUF_SIZE = 0  BY Ring
    <3>2. cons.r \in Index /\ cons.w \in Index  BY Shape
    <3>3. ASSUME NEW j \in Nat
          PROVE  (cons.r + Minus(cons.w, cons.r) + j) % INPUT_BUF_SIZE = (cons.w + j) % INPUT_BUF_SIZE
      BY <3>1, <3>2, Ahead, Zenon
    <3> QED  BY <1>3, <3>3
  <2>2. Joins(cons.buf, INPUT_BUF_SIZE, cons.r, k, cons.w, m)
    BY <2>1, Ring, FromConcat, Zenon
  <2> QED  BY <1>3, <1>4, <1>6, <2>2 DEF Queue, Edit, Joins
<1>9. Minus(Plus1(cons.e), cons.r) = d + 1
  <2>1. d < Wrap - 1  BY <1>6, Sizes
  <2> QED  BY <1>5, <2>1, Shape, PutIn
<1>10. Queue' = From(new, INPUT_BUF_SIZE, cons.r, d + 1)  BY <1>1, <1>9 DEF Queue
<1>11. Queue' = Append(Queue \o Edit, c)  BY <1>5, <1>7, <1>8, <1>10, StoredBehind DEF Lengthens
<1>12. Queue' = Queue \o Append(Edit, c)
  <2>1. Queue \in Seq(InBuf) /\ Edit \in Seq(InBuf)  BY QueueIs
  <2>2. <<c>> \in Seq(InBuf)  BY <1>2
  <2>3. Append(Queue \o Edit, c) = (Queue \o Edit) \o <<c>>  BY <1>2, <2>1, AppendIsConcat
  <2>4. Append(Edit, c) = Edit \o <<c>>  BY <1>2, <2>1, AppendIsConcat
  <2>5. (Queue \o Edit) \o <<c>> = Queue \o (Edit \o <<c>>)  BY <2>1, <2>2, ConcatAssociative
  <2> QED  BY <1>11, <2>3, <2>4, <2>5
<1>13. Edit' = <<>>
  <2>1. Minus(Plus1(cons.e), Plus1(cons.e)) = 0  BY <1>0, NoDistance
  <2>2. Edit' = From(new, INPUT_BUF_SIZE, Plus1(cons.e), 0)  BY <1>1, <2>1 DEF Edit
  <2>3. new \in [0 .. INPUT_BUF_SIZE - 1 -> InBuf]  BY <1>2, Ring
  <2>4. Plus1(cons.e) \in Nat  BY <1>0, Indices
  <2>5. From(new, INPUT_BUF_SIZE, Plus1(cons.e), 0) = <<>>
    <3> HIDE DEF new
    <3> QED  BY <2>3, <2>4, Ring, FromEmpty, Zenon
  <2> QED  BY <2>2, <2>5
<1> QED  BY <1>12, <1>13

-----------------------------------------------------------------------------
(* cons with its three indices is the terminal.                             *)

\* Nothing else touches cons.buf or an index.
LEMMA Unseen ==
  ASSUME UNCHANGED <<cons.buf, cons.r, cons.w, cons.e>>
  PROVE  Queue' = Queue /\ Edit' = Edit
BY DEF Queue, Edit

LEMMA TtyReads ==
  ASSUME ConInv, NEW p \in Readers, ReadByte(p)
  PROVE  [Terminal!Next]_<<Queue, Edit>>
<1>1. CASE Queue # <<>> /\ Queue' = Tail(Queue) /\ Edit' = Edit
  <2>1. Terminal!Read  BY <1>1 DEF Terminal!Read, Queue, Edit
  <2> QED  BY <2>1 DEF Terminal!Next
<1>2. CASE Queue' = Queue /\ Edit' = Edit  BY <1>2
<1> QED  BY <1>1, <1>2, ReadTakes

LEMMA TtyTypes ==
  ASSUME ConInv, NEW c \in Chars, ConsErase(c) \/ ConsKill(c) \/ ConsStore(c)
  PROVE  [Terminal!Next]_<<Queue, Edit>>
<1>1. CASE ConsErase(c) \/ ConsKill(c)
  <2>1. Queue' = Queue  BY <1>1, ErasesLine
  <2>2. CASE Edit # <<>> /\ Edit' = Front(Edit)
    <3>1. Terminal!Erase  BY <2>1, <2>2 DEF Terminal!Erase, Terminal!Front, Front, Queue, Edit
    <3> QED  BY <3>1 DEF Terminal!Next
  <2>3. CASE Edit' = <<>>
    <3>1. Terminal!EraseLine  BY <2>1, <2>3 DEF Terminal!EraseLine, Queue, Edit
    <3> QED  BY <3>1 DEF Terminal!Next
  <2>4. CASE Edit' = Edit  BY <2>1, <2>4
  <2> QED  BY <1>1, <2>2, <2>3, <2>4, ErasesLine
<1>2. CASE ConsStore(c)
  <2>1. Len(Queue) + Len(Edit) = Minus(cons.e, cons.r)
    <3>1. Len(Queue) = Minus(cons.w, cons.r) /\ Len(Edit) = Minus(cons.e, cons.w)  BY QueueIs
    <3>2. Minus(cons.w, cons.r) \in Nat /\ Minus(cons.e, cons.r) \in Nat  BY Shape
    <3>3. Minus(cons.e, cons.w) = Minus(cons.e, cons.r) - Minus(cons.w, cons.r)  BY Shape
    <3> QED  BY <3>1, <3>2, <3>3
  <2>2. CASE cons' = [cons EXCEPT !.lock = None]
    <3>1. UNCHANGED <<cons.buf, cons.r, cons.w, cons.e>>  BY <2>2 DEF ConInv, ConTypes
    <3> QED  BY <3>1, Unseen
  <2>3. CASE Minus(cons.e, cons.r) < INPUT_BUF_SIZE /\ ~Whole(c) /\ Put(c, cons.w)
    <3>1. Queue' = Queue /\ Edit' = Append(Edit, c)  BY <2>3, PutGoesOn
    <3>2. c \notin {"nl", "^D"} /\ Len(Queue) + Len(Edit) # INPUT_BUF_SIZE - 1
      BY <2>1, <2>3 DEF Whole
    <3>3. Terminal!Type(c)  BY <2>1, <2>3, <3>1, <3>2 DEF Terminal!Type, Queue, Edit
    <3> QED  BY <3>3 DEF Terminal!Next
  <2>4. CASE Minus(cons.e, cons.r) < INPUT_BUF_SIZE /\ Whole(c) /\ Put(c, Plus1(cons.e))
    <3>1. Queue' = Queue \o Append(Edit, c) /\ Edit' = <<>>  BY <2>4, PutEnds
    <3>2. c \in {"nl", "^D"} \/ Len(Queue) + Len(Edit) = INPUT_BUF_SIZE - 1
      BY <2>1, <2>4 DEF Whole
    <3>3. Terminal!Type(c)  BY <2>1, <2>4, <3>1, <3>2 DEF Terminal!Type, Queue, Edit
    <3> QED  BY <3>3 DEF Terminal!Next
  <2> QED  BY <1>2, <2>2, <2>3, <2>4, Stores
<1> QED  BY <1>1, <1>2

LEMMA TtyStep == ASSUME ConInv, [Next]_vars PROVE [Terminal!Next]_<<Queue, Edit>>
<1>1. \* The steps that leave cons alone, or touch its lock only.
      ASSUME \/ cons' = cons
             \/ cons' = [cons EXCEPT !.lock = cons'.lock]
      PROVE  [Terminal!Next]_<<Queue, Edit>>
  <2>1. UNCHANGED <<cons.buf, cons.r, cons.w, cons.e>>  BY <1>1 DEF ConInv, ConTypes
  <2> QED  BY <2>1, Unseen
<1>2. CASE Handler
  <2>1. CASE IntrChar
    <3>1. Head(rx) \in Chars  BY <2>1 DEF ConInv, ConTypes, IntrChar
    <3> QED  BY <2>1, <3>1, TtyTypes DEF IntrChar
  <2>2. CASE uartintr \/ EchoTest \/ EchoSend
    <3>1. \/ cons' = cons
          \/ cons' = [cons EXCEPT !.lock = cons'.lock]
      BY <2>2 DEF uartintr, uartstart, IntrBegin, IntrNoChar, StartTest, StartSend, StartEnd,
                  EchoTest, EchoSend, conVars, ConInv, ConTypes
    <3> QED  BY <1>1, <3>1
  <2> QED  BY <1>2, <2>1, <2>2 DEF Handler, consoleintr
<1>3. CASE \E p \in Readers : consoleread(p)
  <2>1. PICK p \in Readers : consoleread(p)  BY <1>3
  <2>2. CASE ReadByte(p)  BY <2>2, TtyReads
  <2>3. CASE Read(p) \/ ReadWaits(p) \/ ReadSleeps(p)
    <3>1. cons' = cons \/ cons' = [cons EXCEPT !.lock = cons'.lock]
      BY <2>3 DEF Read, ReadWaits, ReadSleeps, ConInv, ConTypes
    <3> QED  BY <1>1, <3>1
  <2> QED  BY <2>1, <2>2, <2>3 DEF consoleread
<1>4. CASE \E p \in Writers : uartputc(p) \/ uartstart(p)
  <2>1. cons' = cons
    BY <1>4 DEF uartputc, PutFull, PutByte, uartstart, StartTest, StartSend, StartEnd
  <2> QED  BY <1>1, <2>1
<1>5. CASE (\E p \in Procs : Kill(p)) \/ (\E c \in Chars : Typing(c)) \/ Transmit
  <2>1. cons' = cons  BY <1>5 DEF Kill, Typing, Transmit, conVars
  <2> QED  BY <1>1, <2>1
<1>6. CASE UNCHANGED vars
  <2>1. cons' = cons  BY <1>6 DEF vars
  <2> QED  BY <1>1, <2>1
<1> QED  BY <1>2, <1>3, <1>4, <1>5, <1>6 DEF Next

\* What is read is what was typed: the ring buffer, whose three indices are
\* compared and subtracted while they wrap around, is a queue of the lines that
\* have ended and the line that is edited, with room for INPUT_BUF_SIZE bytes
\* altogether.
THEOREM ConsoleIsATerminal == Spec => ImplementsTty
<1>1. Init => Terminal!Init
  <2> SUFFICES ASSUME Init PROVE Terminal!Init  OBVIOUS
  <2>1. ConInv  BY ConInit
  <2>2. Minus(cons.w, cons.r) = 0 /\ Minus(cons.e, cons.w) = 0
    <3>1. cons.r = 0 /\ cons.w = 0 /\ cons.e = 0 /\ 0 \in Index  BY Indices DEF Init
    <3>2. Minus(0, 0) = 0  BY <3>1, NoDistance
    <3> QED  BY <3>1, <3>2
  <2>3. From(cons.buf, INPUT_BUF_SIZE, cons.r, 0) = <<>>  BY <2>1, Ring, FromEmpty, Zenon
  <2>4. From(cons.buf, INPUT_BUF_SIZE, cons.w, 0) = <<>>  BY <2>1, Ring, FromEmpty, Zenon
  <2> QED  BY <2>2, <2>3, <2>4 DEF Terminal!Init
<1>2. ConInv /\ [Next]_vars => [Terminal!Next]_<<Queue, Edit>>  BY TtyStep
<1> QED  BY <1>1, <1>2, ConAlways, PTL DEF Spec, ImplementsTty, Terminal!Spec, Queue, Edit

-----------------------------------------------------------------------------
(* What is still to be sent.                                                *)

\* A byte of p, and its number.
Mine(p, x) == x # None /\ x[1] = p
Num(x) == x[2]

\* The bytes of p in out are those from hi down to lo + 1, once each.
Orderly(p, out, lo, hi) ==
  /\ \A i \in 1 .. Len(out) : Mine(p, out[i]) => Num(out[i]) \in lo + 1 .. hi
  /\ \A k \in lo + 1 .. hi : \E i \in 1 .. Len(out) : Mine(p, out[i]) /\ Num(out[i]) = k
  /\ \A i, j \in 1 .. Len(out) :
       i < j /\ Mine(p, out[i]) /\ Mine(p, out[j]) => Num(out[i]) > Num(out[j])

\* Who has seen that the UART is idle, and writes to it next: one with
\* uart_tx_lock at most, and the handler with an echo.
Sending == intr = "send" \/ \E p \in Writers : pc[p] = "send"

OutTypes ==
  /\ fifo \in Seq(OutBuf)
  /\ sent \in [Writers -> Nat]
  /\ Minus(tx.w, tx.r) <= UART_TX_BUF_SIZE

Senders ==
  /\ intr \in {"start", "send"} => tx.lock = Intr
  /\ \A p \in Writers : pc[p] \in {"start", "send"} => tx.lock = p
  /\ Sending => tx.w # tx.r

FifoRoom ==
  /\ Len(fifo) <= 2
  /\ Sending \/ intr = "echosend" => Len(fifo) <= 1
  /\ Sending /\ intr = "echosend" => Len(fifo) = 0

InTurn ==
  \A p \in Writers : n[p] + sent[p] <= Bytes[p] /\ Orderly(p, Out, n[p], Bytes[p] - sent[p])

OutInv == OutTypes /\ Senders /\ FifoRoom /\ InTurn

-----------------------------------------------------------------------------
(* Sequences of bytes to be sent.                                           *)

\* A byte of p is put behind the others of p.
LEMMA OrderlyPut ==
  ASSUME NEW T, NEW out \in Seq(T), NEW c \in T, NEW p, NEW lo \in Nat, NEW hi \in Nat,
         1 <= lo, lo <= hi, Orderly(p, out, lo, hi), Mine(p, c), Num(c) = lo
  PROVE  Orderly(p, Append(out, c), lo - 1, hi)
<1> DEFINE new == Append(out, c)
<1>1. /\ Len(new) = Len(out) + 1 /\ Len(out) \in Nat /\ new[Len(out) + 1] = c
      /\ \A i \in 1 .. Len(out) : new[i] = out[i]
  OBVIOUS
<1> HIDE DEF new
<1>2. ASSUME NEW i \in 1 .. Len(new), Mine(p, new[i])
      PROVE  Num(new[i]) \in lo .. hi /\ (i <= Len(out) => Num(new[i]) > lo)
  <2>1. CASE i = Len(out) + 1  BY <1>1, <2>1
  <2>2. CASE i \in 1 .. Len(out)  BY <1>1, <1>2, <2>2 DEF Orderly
  <2> QED  BY <1>1, <2>1, <2>2
<1>3. ASSUME NEW k \in lo .. hi PROVE \E i \in 1 .. Len(new) : Mine(p, new[i]) /\ Num(new[i]) = k
  <2>1. CASE k = lo  BY <1>1, <2>1
  <2>2. CASE k \in lo + 1 .. hi  BY <1>1, <2>2 DEF Orderly
  <2> QED  BY <2>1, <2>2
<1>4. ASSUME NEW i \in 1 .. Len(new), NEW j \in 1 .. Len(new), i < j, Mine(p, new[i]), Mine(p, new[j])
      PROVE  Num(new[i]) > Num(new[j])
  <2>1. CASE j = Len(out) + 1  BY <1>1, <1>2, <1>4, <2>1
  <2>2. CASE j \in 1 .. Len(out)  BY <1>1, <1>4, <2>2 DEF Orderly
  <2> QED  BY <1>1, <2>1, <2>2
<1>5. lo - 1 + 1 = lo  OBVIOUS
<1>6. Orderly(p, new, lo - 1, hi)  BY <1>2, <1>3, <1>4, <1>5 DEF Orderly
<1> QED  BY <1>6 DEF new

\* A byte of another writer is put behind them.
LEMMA OrderlyOther ==
  ASSUME NEW T, NEW out \in Seq(T), NEW c \in T, NEW p, NEW lo \in Nat, NEW hi \in Nat,
         Orderly(p, out, lo, hi), ~Mine(p, c)
  PROVE  Orderly(p, Append(out, c), lo, hi)
<1> DEFINE new == Append(out, c)
<1>1. /\ Len(new) = Len(out) + 1 /\ Len(out) \in Nat /\ new[Len(out) + 1] = c
      /\ \A i \in 1 .. Len(out) : new[i] = out[i]
  OBVIOUS
<1> HIDE DEF new
<1>2. ASSUME NEW i \in 1 .. Len(new), Mine(p, new[i]) PROVE i \in 1 .. Len(out)
  BY <1>1, <1>2
<1>3. \A i \in 1 .. Len(new) : Mine(p, new[i]) => Num(new[i]) \in lo + 1 .. hi
  BY <1>1, <1>2 DEF Orderly
<1>4. \A k \in lo + 1 .. hi : \E i \in 1 .. Len(new) : Mine(p, new[i]) /\ Num(new[i]) = k
  <2>1. \A i \in 1 .. Len(out) : i \in 1 .. Len(new)  BY <1>1
  <2> QED  BY <1>1, <2>1 DEF Orderly
<1>5. \A i, j \in 1 .. Len(new) :
        i < j /\ Mine(p, new[i]) /\ Mine(p, new[j]) => Num(new[i]) > Num(new[j])
  BY <1>1, <1>2 DEF Orderly
<1>6. Orderly(p, new, lo, hi)  BY <1>3, <1>4, <1>5 DEF Orderly
<1> QED  BY <1>6 DEF new

\* An echo goes to the UART, before what is in the buffer.
LEMMA OrderlyEcho ==
  ASSUME NEW T, NEW f \in Seq(T), NEW g \in Seq(T), NEW c \in T, NEW p,
         NEW lo \in Nat, NEW hi \in Nat,
         Orderly(p, f \o g, lo, hi), ~Mine(p, c)
  PROVE  Orderly(p, Append(f, c) \o g, lo, hi)
<1> DEFINE old == f \o g
           new == Append(f, c) \o g
           Place(i) == IF i <= Len(f) THEN i ELSE i + 1
<1>1. /\ Len(f) \in Nat /\ Len(g) \in Nat
      /\ Len(old) = Len(f) + Len(g) /\ Len(new) = Len(f) + Len(g) + 1
      /\ new[Len(f) + 1] = c
      /\ \A i \in 1 .. Len(old) : new[Place(i)] = old[i]
  <2>1. /\ Len(f) \in Nat /\ Len(g) \in Nat
        /\ Len(old) = Len(f) + Len(g)
        /\ \A i \in 1 .. Len(old) : old[i] = IF i <= Len(f) THEN f[i] ELSE g[i - Len(f)]
    OBVIOUS
  <2>0. Append(f, c) \in Seq(T)  OBVIOUS
  <2>2. PICK h \in Seq(T) : h = Append(f, c)  BY <2>0
  <2>3. Len(h) = Len(f) + 1 /\ h[Len(f) + 1] = c /\ \A i \in 1 .. Len(f) : h[i] = f[i]
    BY <2>2
  <2>4. /\ Len(h \o g) = Len(h) + Len(g)
        /\ \A i \in 1 .. Len(h) + Len(g) : (h \o g)[i] = IF i <= Len(h) THEN h[i] ELSE g[i - Len(h)]
    OBVIOUS
  <2>5. new = h \o g  BY <2>2
  <2> HIDE DEF old, new
  <2>6. new[Len(f) + 1] = c
    <3>1. Len(f) + 1 \in 1 .. Len(h) + Len(g) /\ Len(f) + 1 <= Len(h)  BY <2>1, <2>3
    <3>2. new[Len(f) + 1] = h[Len(f) + 1]  BY <2>4, <2>5, <3>1, Zenon
    <3> QED  BY <2>3, <3>2
  <2>7. ASSUME NEW i \in 1 .. Len(old) PROVE new[Place(i)] = old[i]
    <3>1. CASE i <= Len(f)
      <4>1. Place(i) = i /\ i \in 1 .. Len(h) + Len(g) /\ i <= Len(h) /\ i \in 1 .. Len(f)
        BY <2>1, <2>3, <3>1
      <4>2. new[i] = h[i]  BY <2>4, <2>5, <4>1, Zenon
      <4>3. h[i] = f[i]  BY <2>3, <4>1, Zenon
      <4>4. old[i] = f[i]  BY <2>1, <3>1, Zenon
      <4> QED  BY <4>1, <4>2, <4>3, <4>4, Zenon
    <3>2. CASE i > Len(f)
      <4>1. Place(i) = i + 1 /\ i + 1 \in 1 .. Len(h) + Len(g) /\ ~(i + 1 <= Len(h))  BY <2>1, <2>3, <3>2
      <4>2. (i + 1) - Len(h) = i - Len(f)  BY <2>1, <2>3
      <4>3. new[i + 1] = g[(i + 1) - Len(h)]  BY <2>4, <2>5, <4>1, Zenon
      <4>4. ~(i <= Len(f))  BY <2>1, <3>2
      <4>5. old[i] = g[i - Len(f)]  BY <2>1, <4>4, Zenon
      <4> QED  BY <4>1, <4>2, <4>3, <4>5, Zenon
    <3> QED  BY <2>1, <3>1, <3>2
  <2> QED  BY <2>1, <2>3, <2>4, <2>5, <2>6, <2>7
<1> HIDE DEF old, new
<1>2. \* Every byte of p is at the place of one there was.
      ASSUME NEW j \in 1 .. Len(new), Mine(p, new[j])
      PROVE  \E i \in 1 .. Len(old) : j = Place(i) /\ new[j] = old[i]
  <2>1. j # Len(f) + 1  BY <1>1, <1>2
  <2>2. CASE j <= Len(f)
    <3>1. j \in 1 .. Len(old) /\ j = Place(j)  BY <1>1, <2>2
    <3> QED  BY <1>1, <3>1
  <2>3. CASE j > Len(f) + 1
    <3>1. j - 1 \in 1 .. Len(old) /\ j = Place(j - 1)  BY <1>1, <2>3
    <3> QED  BY <1>1, <3>1
  <2> QED  BY <1>1, <2>1, <2>2, <2>3
<1>3. \A i \in 1 .. Len(old) : Place(i) \in 1 .. Len(new)  BY <1>1
<1>4. \A i, j \in 1 .. Len(old) : Place(i) < Place(j) => i < j  BY <1>1
<1> HIDE DEF Place
<1>5. Orderly(p, old, lo, hi)  BY DEF old
<1>6. \A i \in 1 .. Len(new) : Mine(p, new[i]) => Num(new[i]) \in lo + 1 .. hi
  BY <1>2, <1>5 DEF Orderly
<1>7. \A k \in lo + 1 .. hi : \E i \in 1 .. Len(new) : Mine(p, new[i]) /\ Num(new[i]) = k
  BY <1>1, <1>3, <1>5 DEF Orderly
<1>8. ASSUME NEW i \in 1 .. Len(new), NEW j \in 1 .. Len(new), i < j, Mine(p, new[i]), Mine(p, new[j])
      PROVE  Num(new[i]) > Num(new[j])
  <2>1. PICK a \in 1 .. Len(old) : i = Place(a) /\ new[i] = old[a]  BY <1>2, <1>8
  <2>2. PICK b \in 1 .. Len(old) : j = Place(b) /\ new[j] = old[b]  BY <1>2, <1>8
  <2>3. a < b  BY <1>4, <1>8, <2>1, <2>2
  <2> QED  BY <1>5, <1>8, <2>1, <2>2, <2>3 DEF Orderly
<1>9. Orderly(p, new, lo, hi)  BY <1>6, <1>7, <1>8 DEF Orderly
<1> QED  BY <1>9 DEF new

\* A byte goes out. The first byte of p that does is the greatest one.
LEMMA OrderlySent ==
  ASSUME NEW T, NEW out \in Seq(T), out # <<>>, NEW p, NEW lo \in Nat, NEW hi \in Nat,
         Orderly(p, out, lo, hi)
  PROVE  /\ ~Mine(p, Head(out)) => Orderly(p, Tail(out), lo, hi)
         /\ Mine(p, Head(out)) => lo < hi /\ Orderly(p, Tail(out), lo, hi - 1)
<1> DEFINE new == Tail(out)
<1>1. /\ Len(out) \in Nat /\ Len(out) >= 1 /\ Len(new) = Len(out) - 1 /\ Head(out) = out[1]
      /\ \A i \in 1 .. Len(new) : new[i] = out[i + 1] /\ i + 1 \in 1 .. Len(out)
  BY HeadTailProperties
<1> HIDE DEF new
<1>2. \A i \in 2 .. Len(out) : i - 1 \in 1 .. Len(new) /\ new[i - 1] = out[i]
  <2> SUFFICES ASSUME NEW i \in 2 .. Len(out) PROVE i - 1 \in 1 .. Len(new) /\ new[i - 1] = out[i]
    OBVIOUS
  <2>1. i - 1 \in 1 .. Len(new) /\ (i - 1) + 1 = i  BY <1>1
  <2> QED  BY <1>1, <2>1
<1>3. \* The order stays.
      ASSUME NEW i \in 1 .. Len(new), NEW j \in 1 .. Len(new), i < j, Mine(p, new[i]), Mine(p, new[j])
      PROVE  Num(new[i]) > Num(new[j])
  <2>1. i + 1 \in 1 .. Len(out) /\ j + 1 \in 1 .. Len(out) /\ i + 1 < j + 1  BY <1>1, <1>3
  <2> QED  BY <1>1, <1>3, <2>1 DEF Orderly
<1>4. ASSUME ~Mine(p, Head(out)) PROVE Orderly(p, new, lo, hi)
  <2>1. \A i \in 1 .. Len(new) : Mine(p, new[i]) => Num(new[i]) \in lo + 1 .. hi
    BY <1>1 DEF Orderly
  <2>2. ASSUME NEW k \in lo + 1 .. hi PROVE \E i \in 1 .. Len(new) : Mine(p, new[i]) /\ Num(new[i]) = k
    <3>1. PICK i \in 1 .. Len(out) : Mine(p, out[i]) /\ Num(out[i]) = k  BY DEF Orderly
    <3>2. i # 1  BY <1>1, <1>4, <3>1
    <3>3. i \in 2 .. Len(out)  BY <1>1, <3>2
    <3> QED  BY <1>2, <3>1, <3>3
  <2> QED  BY <1>3, <2>1, <2>2 DEF Orderly
<1>5. ASSUME Mine(p, Head(out)) PROVE lo < hi /\ Orderly(p, new, lo, hi - 1)
  <2>1. 1 \in 1 .. Len(out) /\ Mine(p, out[1])  BY <1>1, <1>5
  <2>2. Num(out[1]) \in lo + 1 .. hi  BY <2>1 DEF Orderly
  <2>3. lo < hi  BY <2>2
  <2>4. Num(out[1]) = hi
    <3>1. hi \in lo + 1 .. hi  BY <2>3
    <3>2. PICK i \in 1 .. Len(out) : Mine(p, out[i]) /\ Num(out[i]) = hi  BY <3>1 DEF Orderly
    <3>3. CASE i > 1
      <4>1. Num(out[1]) > Num(out[i])  BY <2>1, <3>2, <3>3 DEF Orderly
      <4> QED  BY <2>2, <3>2, <4>1
    <3> QED  BY <1>1, <3>2, <3>3
  <2>5. ASSUME NEW i \in 1 .. Len(new), Mine(p, new[i]) PROVE Num(new[i]) \in lo + 1 .. hi - 1
    <3>1. i + 1 \in 1 .. Len(out) /\ 1 < i + 1 /\ Mine(p, out[i + 1])  BY <1>1, <2>5
    <3>2. Num(out[i + 1]) \in lo + 1 .. hi  BY <3>1 DEF Orderly
    <3>3. hi > Num(out[i + 1])  BY <2>1, <2>4, <3>1 DEF Orderly
    <3> QED  BY <1>1, <3>2, <3>3
  <2>6. ASSUME NEW k \in lo + 1 .. hi - 1 PROVE \E i \in 1 .. Len(new) : Mine(p, new[i]) /\ Num(new[i]) = k
    <3>0. k \in lo + 1 .. hi /\ k # hi  OBVIOUS
    <3>1. PICK i \in 1 .. Len(out) : Mine(p, out[i]) /\ Num(out[i]) = k  BY <3>0 DEF Orderly
    <3>2. i # 1  BY <2>4, <3>0, <3>1
    <3>3. i \in 2 .. Len(out)  BY <1>1, <3>2
    <3> QED  BY <1>2, <3>1, <3>3
  <2> QED  BY <1>3, <2>3, <2>5, <2>6 DEF Orderly
<1> QED  BY <1>4, <1>5 DEF new

\* The first byte of the buffer goes to the UART: what is to be sent stays.
LEMMA Passes ==
  ASSUME NEW T, NEW f \in Seq(T), NEW g \in Seq(T), g # <<>>
  PROVE  Append(f, Head(g)) \o Tail(g) = f \o g
<1>1. /\ Head(g) \in T /\ Head(g) = g[1] /\ Len(g) \in Nat \ {0}
      /\ Tail(g) \in Seq(T) /\ Len(Tail(g)) = Len(g) - 1
      /\ \A i \in 1 .. Len(g) - 1 : Tail(g)[i] = g[i + 1]
  BY HeadTailProperties
<1>0. <<Head(g)>> \in Seq(T)  BY <1>1
<1>2. PICK one \in Seq(T) : one = <<Head(g)>>  BY <1>0
<1>3. one \o Tail(g) = g
  <2>1. Len(one) = 1 /\ one[1] = g[1]  BY <1>1, <1>2
  <2>2. /\ one \o Tail(g) \in Seq(T) /\ Len(one \o Tail(g)) = Len(g)
        /\ \A i \in 1 .. Len(g) : (one \o Tail(g))[i] = IF i <= 1 THEN one[i] ELSE Tail(g)[i - 1]
    <3>1. /\ one \o Tail(g) \in Seq(T) /\ Len(one \o Tail(g)) = 1 + (Len(g) - 1)
          /\ \A i \in 1 .. 1 + (Len(g) - 1) :
               (one \o Tail(g))[i] = IF i <= 1 THEN one[i] ELSE Tail(g)[i - 1]
      <4>1. Tail(g) \in Seq(T)  BY <1>1
      <4>2. PICK rest \in Seq(T) : rest = Tail(g)  BY <4>1
      <4>3. /\ one \o rest \in Seq(T) /\ Len(one \o rest) = Len(one) + Len(rest)
            /\ \A i \in 1 .. Len(one) + Len(rest) :
                 (one \o rest)[i] = IF i <= Len(one) THEN one[i] ELSE rest[i - Len(one)]
        BY ConcatProperties
      <4> QED  BY <1>1, <2>1, <4>2, <4>3
    <3>2. 1 + (Len(g) - 1) = Len(g)  BY <1>1
    <3> QED  BY <3>1, <3>2
  <2>3. ASSUME NEW i \in 1 .. Len(g) PROVE (one \o Tail(g))[i] = g[i]
    <3>1. CASE i = 1  BY <2>1, <2>2, <3>1
    <3>2. CASE i > 1
      <4>1. i - 1 \in 1 .. Len(g) - 1 /\ (i - 1) + 1 = i /\ ~(i <= 1)  BY <1>1, <3>2
      <4> QED  BY <1>1, <2>2, <4>1
    <3>3. i = 1 \/ i > 1  BY <1>1
    <3> QED  BY <3>1, <3>2, <3>3
  <2> QED  BY <2>2, <2>3, SeqEqual
<1>4. Append(f, Head(g)) = f \o one  BY <1>1, <1>2, AppendIsConcat
<1>5. PICK rest \in Seq(T) : rest = Tail(g)
  <2>1. Tail(g) \in Seq(T)  BY <1>1
  <2> QED  BY <2>1
<1>6. (f \o one) \o rest = f \o (one \o rest)  BY ConcatAssociative
<1> QED  BY <1>3, <1>4, <1>5, <1>6, Zenon

\* A byte that is put behind the second part of what is to be sent.
LEMMA PutBehind ==
  ASSUME NEW T, NEW f \in Seq(T), NEW g \in Seq(T), NEW c \in T
  PROVE  f \o Append(g, c) = Append(f \o g, c)
<1>1. PICK one \in Seq(T) : one = <<c>>
  <2>1. <<c>> \in Seq(T)  OBVIOUS
  <2> QED  BY <2>1
<1>2. f \o g \in Seq(T)  OBVIOUS
<1>3. Append(g, c) = g \o one /\ Append(f \o g, c) = (f \o g) \o one
  BY <1>1, <1>2, AppendIsConcat
<1> QED  BY <1>3, ConcatAssociative

\* The first byte of both parts is that of the first one, if it has one.
LEMMA TailOfBoth ==
  ASSUME NEW T, NEW f \in Seq(T), NEW g \in Seq(T), f # <<>>
  PROVE  f \o g # <<>> /\ Head(f \o g) = Head(f) /\ Tail(f \o g) = Tail(f) \o g
<1>1. /\ Head(f) \in T /\ Head(f) = f[1] /\ Len(f) \in Nat \ {0}
      /\ Tail(f) \in Seq(T) /\ Len(Tail(f)) = Len(f) - 1
      /\ \A i \in 1 .. Len(f) - 1 : Tail(f)[i] = f[i + 1]
  BY HeadTailProperties
<1>2. PICK both \in Seq(T) : both = f \o g  BY ConcatProperties
<1>3. /\ Len(both) = Len(f) + Len(g) /\ Len(g) \in Nat
      /\ \A i \in 1 .. Len(f) + Len(g) : both[i] = IF i <= Len(f) THEN f[i] ELSE g[i - Len(f)]
  BY <1>2, ConcatProperties
<1>4. both # <<>> /\ Head(both) = both[1] /\ both[1] = f[1]  BY <1>1, <1>3
<1>5. /\ Tail(both) \in Seq(T) /\ Len(Tail(both)) = Len(both) - 1
      /\ \A i \in 1 .. Len(both) - 1 : Tail(both)[i] = both[i + 1]
  BY <1>4, HeadTailProperties
<1>6. /\ Tail(f) \o g \in Seq(T) /\ Len(Tail(f) \o g) = Len(f) - 1 + Len(g)
      /\ \A i \in 1 .. Len(f) - 1 + Len(g) :
           (Tail(f) \o g)[i] = IF i <= Len(f) - 1 THEN Tail(f)[i] ELSE g[i - (Len(f) - 1)]
  BY <1>1, ConcatProperties
<1>7. ASSUME NEW i \in 1 .. Len(f) - 1 + Len(g) PROVE Tail(both)[i] = (Tail(f) \o g)[i]
  <2>1. Tail(both)[i] = both[i + 1] /\ i + 1 \in 1 .. Len(f) + Len(g)  BY <1>1, <1>3, <1>5
  <2>2. CASE i <= Len(f) - 1
    <3>1. i \in 1 .. Len(f) - 1 /\ i + 1 <= Len(f)  BY <1>1, <2>2
    <3> QED  BY <1>1, <1>3, <1>6, <2>1, <3>1
  <2>3. CASE ~(i <= Len(f) - 1)
    <3>1. ~(i + 1 <= Len(f)) /\ (i + 1) - Len(f) = i - (Len(f) - 1)  BY <1>1, <2>3
    <3>2. both[i + 1] = g[(i + 1) - Len(f)]  BY <1>3, <2>1, <3>1
    <3>3. (Tail(f) \o g)[i] = g[i - (Len(f) - 1)]  BY <1>6, <2>3
    <3> QED  BY <2>1, <3>1, <3>2, <3>3
  <2> QED  BY <2>2, <2>3
<1>8. Len(Tail(both)) = Len(f) - 1 + Len(g)
  <2>1. PICK a \in Nat, b \in Nat : a = Len(f) /\ b = Len(g)  BY <1>1, <1>3, Zenon
  <2>2. Len(Tail(both)) = (a + b) - 1  BY <1>3, <1>5, <2>1, Zenon
  <2>3. (a + b) - 1 = a - 1 + b  BY SMTT(30)
  <2> QED  BY <2>1, <2>2, <2>3, Zenon
<1>9. Tail(both) = Tail(f) \o g  BY <1>5, <1>6, <1>7, <1>8, SeqEqual
<1> QED  BY <1>2, <1>4, <1>9

-----------------------------------------------------------------------------
(* The bytes of each writer are sent in their order.                        *)

Waiting == From(tx.buf, UART_TX_BUF_SIZE, tx.r, Minus(tx.w, tx.r))

\* What is known of the buffer.
LEMMA OutShape ==
  ASSUME ConInv, OutInv
  PROVE  /\ tx.r \in Index /\ tx.w \in Index /\ tx.r \in Nat /\ Minus(tx.w, tx.r) \in Nat
         /\ tx.buf \in [0 .. UART_TX_BUF_SIZE - 1 -> OutBuf]
         /\ Waiting \in Seq(OutBuf) /\ Out \in Seq(OutBuf) /\ Out = fifo \o Waiting
<1>1. tx.r \in Index /\ tx.w \in Index /\ tx.buf \in [0 .. UART_TX_BUF_SIZE - 1 -> OutBuf]
  BY DEF ConInv, ConTypes
<1>2. tx.r \in Nat /\ Minus(tx.w, tx.r) \in Nat
  <2>1. tx.r \in Nat  BY <1>1, Indices
  <2> QED  BY <1>1, <2>1, NoDistance
<1>3. Waiting \in Seq(OutBuf)  BY <1>1, <1>2, FromSeq, Sizes, Zenon DEF Waiting
<1>4. fifo \in Seq(OutBuf)  BY DEF OutInv, OutTypes
<1>5. Out = fifo \o Waiting  BY DEF Out, Waiting
<1>6. Out \in Seq(OutBuf)  BY <1>3, <1>4, <1>5
<1> QED  BY <1>1, <1>2, <1>3, <1>5, <1>6

\* A writer is no reader, nor the handler, and its bytes are no echo.
LEMMA Apart ==
  ASSUME NEW p \in Writers
  PROVE  /\ p \notin Readers /\ p # None /\ p # Intr /\ None # Intr /\ p \in Procs
         /\ Bytes[p] \in Nat /\ ~Mine(p, None)
         /\ \A k \in 1 .. Bytes[p] : Mine(p, <<p, k>>) /\ Num(<<p, k>>) = k
         /\ \A q \in Writers : \A k : q # p => ~Mine(q, <<p, k>>)
BY ConsoleAssumption DEF Procs, Intr, Mine, Num

LEMMA OutInit == ASSUME Init PROVE OutInv
<1>1. ConInv  BY ConInit
<1>2. tx.r = 0 /\ tx.w = 0 /\ Minus(tx.w, tx.r) = 0
  <2>1. tx.r = 0 /\ tx.w = 0 /\ 0 \in Index  BY Indices DEF Init
  <2>2. Minus(0, 0) = 0  BY <2>1, NoDistance
  <2> QED  BY <2>1, <2>2
<1>3. intr = "none" /\ fifo = <<>> /\ \A p \in Writers : pc[p] = "put"
  BY ConsoleAssumption DEF Init, Procs
<1>4. OutTypes  BY <1>2, <1>3, Sizes DEF OutTypes, Init
<1>5. ~Sending  BY <1>3 DEF Sending
<1>6. Senders /\ FifoRoom  BY <1>3, <1>5 DEF Senders, FifoRoom
<1>7. Out = <<>>
  <2>1. tx.buf \in [0 .. UART_TX_BUF_SIZE - 1 -> OutBuf] /\ tx.r \in Nat
    BY <1>1, <1>2 DEF ConInv, ConTypes
  <2>2. From(tx.buf, UART_TX_BUF_SIZE, tx.r, 0) = <<>>  BY <2>1, FromEmpty, Sizes, Zenon
  <2> QED  BY <1>2, <1>3, <2>2 DEF Out
<1>8. InTurn
  <2> SUFFICES ASSUME NEW p \in Writers
               PROVE  n[p] + sent[p] <= Bytes[p] /\ Orderly(p, Out, n[p], Bytes[p] - sent[p])
    BY DEF InTurn
  <2>1. n[p] = Bytes[p] /\ sent[p] = 0 /\ Bytes[p] \in Nat  BY Apart DEF Init
  <2> QED  BY <1>7, <2>1 DEF Orderly
<1> QED  BY <1>4, <1>6, <1>8 DEF OutInv

\* What leaves the bytes to be sent alone, and where those are who send them.
LEMMA OutStays ==
  ASSUME ConInv, OutInv, UNCHANGED <<tx, fifo, sent>>,
         \A p \in Writers : n'[p] = n[p],
         \A p \in Writers : pc'[p] # pc[p] => pc'[p] \notin {"start", "send"} /\ pc[p] \notin {"start", "send"},
         intr' # intr => intr' \notin {"start", "send", "echosend"} /\ intr \notin {"start", "send", "echosend"}
  PROVE  OutInv'
<1>1. Sending' = Sending  BY DEF Sending
<1>2. OutTypes'  BY DEF OutInv, OutTypes
<1>3. Senders'  BY <1>1 DEF OutInv, Senders
<1>4. FifoRoom'
  <2>1. (intr' = "echosend") <=> (intr = "echosend")  OBVIOUS
  <2> QED  BY <1>1, <2>1 DEF OutInv, FifoRoom
<1>5. Out' = Out  BY DEF Out
<1>6. InTurn'  BY <1>5 DEF OutInv, InTurn
<1> QED  BY <1>2, <1>3, <1>4, <1>6 DEF OutInv

LEMMA OutReads == ASSUME ConInv, OutInv, NEW p \in Readers, consoleread(p) PROVE OutInv'
<1>1. p \in Procs /\ p \notin Writers  BY ConsoleAssumption DEF Procs
<1>2. UNCHANGED <<tx, fifo, sent, intr>>
  BY DEF consoleread, Read, ReadWaits, ReadSleeps, ReadByte, uartVars
<1>3. \A q \in Writers : n'[q] = n[q] /\ pc'[q] = pc[q]
  BY <1>1 DEF consoleread, Read, ReadWaits, ReadSleeps, ReadByte, Goto, ConInv, ConTypes, Procs
<1> QED  BY <1>2, <1>3, OutStays

LEMMA OutFull == ASSUME ConInv, OutInv, NEW p \in Writers, PutFull(p) PROVE OutInv'
<1>1. UNCHANGED <<tx, fifo, sent, intr, n>>  BY DEF PutFull, uartVars
<1>2. \A q \in Writers : pc'[q] # pc[q] => pc'[q] = "full" /\ pc[q] = "put"
  BY DEF PutFull, Goto, ConInv, ConTypes, Procs
<1> QED  BY <1>1, <1>2, OutStays

LEMMA OutPut == ASSUME ConInv, OutInv, NEW p \in Writers, PutByte(p) PROVE OutInv'
<1>0. /\ tx.r \in Index /\ tx.w \in Index /\ tx.r \in Nat /\ Minus(tx.w, tx.r) \in Nat
      /\ tx.buf \in [0 .. UART_TX_BUF_SIZE - 1 -> OutBuf]
      /\ Waiting \in Seq(OutBuf) /\ Out \in Seq(OutBuf) /\ Out = fifo \o Waiting
      /\ fifo \in Seq(OutBuf)
  BY OutShape DEF OutInv, OutTypes
<1> DEFINE c == <<p, n[p]>>
           k == Minus(tx.w, tx.r)
<1>1. n[p] \in Nat /\ n[p] >= 1 /\ n[p] <= Bytes[p] /\ p \in Procs /\ c \in OutBuf
  BY DEF PutByte, ConInv, ConTypes, OutBuf, Procs
<1>2. k < UART_TX_BUF_SIZE /\ k < Wrap - 1
  <2>1. k <= UART_TX_BUF_SIZE /\ k # UART_TX_BUF_SIZE  BY DEF OutInv, OutTypes, PutByte
  <2> QED  BY <1>0, <2>1, Sizes
<1>3. /\ tx'.buf = [tx.buf EXCEPT ![tx.w % UART_TX_BUF_SIZE] = c]
      /\ tx'.r = tx.r /\ tx'.w = Plus1(tx.w) /\ tx'.lock = p /\ tx.lock = None
      /\ UNCHANGED <<fifo, sent, intr>>
  BY DEF PutByte, ConInv, ConTypes, uartVars
<1>4. Minus(tx'.w, tx'.r) = k + 1  BY <1>0, <1>2, <1>3, PutIn
<1>5. Out' = Append(Out, c)
  <2>1. (tx.r + k) % UART_TX_BUF_SIZE = tx.w % UART_TX_BUF_SIZE  BY <1>0, Behind, Sizes
  <2>2. Lengthens(tx.buf, UART_TX_BUF_SIZE, tx.r, k, c)
    BY <1>0, <1>1, <1>2, FromAppend, Sizes, Zenon
  <2>3. From(tx'.buf, UART_TX_BUF_SIZE, tx'.r, k + 1) = Append(Waiting, c)
    BY <1>3, <2>1, <2>2 DEF Lengthens, Waiting
  <2>4. Out' = fifo \o Append(Waiting, c)  BY <1>3, <1>4, <2>3 DEF Out
  <2>5. fifo \o Append(Waiting, c) = Append(fifo \o Waiting, c)
    <3>1. c \in OutBuf /\ Waiting \in Seq(OutBuf) /\ fifo \in Seq(OutBuf)  BY <1>0, <1>1
    <3> HIDE DEF c
    <3> QED  BY <3>1, PutBehind
  <2> QED  BY <1>0, <2>4, <2>5
<1>6. Senders'
  <2>1. intr \notin {"start", "send"} /\ \A q \in Writers : pc[q] \notin {"start", "send"}
    BY <1>3, Apart DEF OutInv, Senders
  <2>2. \A q \in Writers : pc'[q] = IF q = p THEN "start" ELSE pc[q]
    BY DEF PutByte, Goto, ConInv, ConTypes, Procs
  <2>3. ~Sending /\ ~Sending'  BY <1>3, <2>1, <2>2 DEF Sending
  <2> QED  BY <1>3, <2>1, <2>2, <2>3 DEF Senders
<1>7. FifoRoom'
  <2>1. intr \notin {"start", "send"} /\ \A q \in Writers : pc[q] \notin {"start", "send"}
    BY <1>3, Apart DEF OutInv, Senders
  <2>2. \A q \in Writers : pc'[q] = IF q = p THEN "start" ELSE pc[q]
    BY DEF PutByte, Goto, ConInv, ConTypes, Procs
  <2>3. ~Sending /\ ~Sending'  BY <1>3, <2>1, <2>2 DEF Sending
  <2> QED  BY <1>3, <2>3 DEF OutInv, FifoRoom
<1>8. OutTypes'  BY <1>0, <1>2, <1>3, <1>4, Sizes DEF OutInv, OutTypes
<1>9. InTurn'
  <2> SUFFICES ASSUME NEW q \in Writers
               PROVE  n'[q] + sent'[q] <= Bytes[q] /\ Orderly(q, Out', n'[q], Bytes[q] - sent'[q])
    BY DEF InTurn
  <2>1. /\ n[q] + sent[q] <= Bytes[q] /\ Orderly(q, Out, n[q], Bytes[q] - sent[q])
        /\ n[q] \in Nat /\ sent[q] \in Nat /\ Bytes[q] \in Nat
        /\ Bytes[q] - sent[q] \in Nat /\ n[q] <= Bytes[q] - sent[q]
    BY Apart DEF OutInv, InTurn, OutTypes, ConInv, ConTypes, Procs
  <2>2. CASE q = p
    <3>1. n'[q] = n[q] - 1  BY <2>2, <1>1 DEF PutByte, ConInv, ConTypes
    <3>2. Mine(p, c) /\ Num(c) = n[p]  BY <1>1, Apart
    <3> HIDE DEF c
    <3>3. Orderly(p, Append(Out, c), n[p] - 1, Bytes[p] - sent[p])
      BY <1>0, <1>1, <2>1, <2>2, <3>2, OrderlyPut
    <3> QED  BY <1>3, <1>5, <2>1, <2>2, <3>1, <3>3
  <2>3. CASE q # p
    <3>1. n'[q] = n[q]  BY <2>3, <1>1, Apart DEF PutByte, ConInv, ConTypes
    <3>2. ~Mine(q, c)  BY <2>3, Apart
    <3> HIDE DEF c
    <3>3. Orderly(q, Append(Out, c), n[q], Bytes[q] - sent[q])
      BY <1>0, <1>1, <2>1, <3>2, OrderlyOther
    <3> QED  BY <1>3, <1>5, <2>1, <3>1, <3>3
  <2> QED  BY <2>2, <2>3
<1> QED  BY <1>6, <1>7, <1>8, <1>9 DEF OutInv

\* With uart_tx_lock: a byte goes from the buffer to the UART, and what is to be
\* sent stays.
LEMMA OutStart == ASSUME ConInv, OutInv, NEW q \in Writers \cup {Intr}, uartstart(q) PROVE OutInv'
<1>0. /\ tx.r \in Index /\ tx.w \in Index /\ tx.r \in Nat /\ Minus(tx.w, tx.r) \in Nat
      /\ tx.buf \in [0 .. UART_TX_BUF_SIZE - 1 -> OutBuf]
      /\ Waiting \in Seq(OutBuf) /\ Out \in Seq(OutBuf) /\ Out = fifo \o Waiting
      /\ fifo \in Seq(OutBuf)
  BY OutShape DEF OutInv, OutTypes
<1>1. \* Nobody else has the lock.
      /\ tx.lock = q /\ UNCHANGED <<n, sent>>
      /\ \A p \in Writers : p # q => pc[p] \notin {"start", "send"}
      /\ q # Intr => intr \notin {"start", "send"}
      /\ q # None
  <2>1. tx.lock = q /\ UNCHANGED <<n, sent>>
    BY DEF uartstart, StartTest, StartSend, StartEnd, uartVars
  <2>2. q # None  BY Apart, ConsoleAssumption DEF Intr
  <2> QED  BY <2>1, <2>2, Apart DEF OutInv, Senders
<1>2. CASE StartTest(q)
  <2>1. UNCHANGED <<tx, fifo>> /\ fifo = <<>> /\ tx.w # tx.r  BY <1>2 DEF StartTest, uartVars
  <2>2. /\ q = Intr => intr = "start" /\ intr' = "send" /\ \A p \in Writers : pc'[p] = pc[p]
        /\ q # Intr => intr' = intr /\ \A p \in Writers : pc'[p] = IF p = q THEN "send" ELSE pc[p]
    BY <1>2 DEF StartTest, Goto, ConInv, ConTypes, Procs
  <2>3. Senders'  BY <1>1, <2>1, <2>2, Apart DEF OutInv, Senders
  <2>4. FifoRoom'
    <3>1. Len(fifo) = 0  BY <2>1
    <3> QED  BY <2>1, <3>1 DEF FifoRoom
  <2>5. OutTypes'  BY <2>1, <1>1 DEF OutInv, OutTypes
  <2>6. Out' = Out  BY <2>1 DEF Out
  <2>7. InTurn'  BY <1>1, <2>6 DEF OutInv, InTurn
  <2> QED  BY <2>3, <2>4, <2>5, <2>7 DEF OutInv
<1>3. CASE StartEnd(q)
  <2>1. /\ tx'.buf = tx.buf /\ tx'.r = tx.r /\ tx'.w = tx.w /\ tx'.lock = None /\ UNCHANGED fifo
    BY <1>3 DEF StartEnd, uartVars, ConInv, ConTypes
  <2>2. /\ q = Intr => intr = "start" /\ intr' = "none" /\ \A p \in Writers : pc'[p] = pc[p]
        /\ q # Intr => intr' = intr /\ pc[q] = "start"
                       /\ \A p \in Writers : pc'[p] = IF p = q THEN "put" ELSE pc[p]
    BY <1>3 DEF StartEnd, Goto, ConInv, ConTypes, Procs
  <2>3. intr' \notin {"start", "send"} /\ \A p \in Writers : pc'[p] \notin {"start", "send"}
    BY <1>1, <2>2, Apart
  <2>4. ~Sending'  BY <2>3 DEF Sending
  <2>5. Senders'  BY <2>3, <2>4 DEF Senders
  <2>6. FifoRoom'
    <3>1. intr' = "echosend" => intr = "echosend"  BY <2>2
    <3>2. Len(fifo) \in Nat  BY <1>0
    <3> QED  BY <2>1, <2>4, <3>1, <3>2 DEF OutInv, FifoRoom
  <2>7. OutTypes'  BY <2>1, <1>1 DEF OutInv, OutTypes
  <2>8. Out' = Out  BY <2>1 DEF Out
  <2>9. InTurn'  BY <1>1, <2>8 DEF OutInv, InTurn
  <2> QED  BY <2>5, <2>6, <2>7, <2>9 DEF OutInv
<1>4. CASE StartSend(q)
  <2> DEFINE k == Minus(tx.w, tx.r)
             c == tx.buf[tx.r % UART_TX_BUF_SIZE]
  <2>1. /\ tx'.buf = tx.buf /\ tx'.w = tx.w /\ tx'.r = Plus1(tx.r) /\ tx'.lock = q
        /\ fifo' = Append(fifo, c)
    BY <1>1, <1>4 DEF StartSend, ConInv, ConTypes
  <2>2. /\ q = Intr => intr = "send" /\ intr' = "start"
                       /\ \A p \in Writers : pc'[p] = IF pc[p] = "full" THEN "put" ELSE pc[p]
        /\ q # Intr => intr' = intr /\ pc[q] = "send"
                       /\ \A p \in Writers :
                            pc'[p] = IF p = q THEN "start" ELSE IF pc[p] = "full" THEN "put" ELSE pc[p]
    BY <1>4 DEF StartSend, Wakeup, ConInv, ConTypes, Procs
  <2>3. Sending /\ tx.w # tx.r  BY <2>2 DEF Sending, OutInv, Senders
  <2>4. ~Sending'  BY <1>1, <2>2, Apart DEF Sending
  <2>5. Senders'
    <3>1. intr' \in {"start", "send"} => tx'.lock = Intr  BY <1>1, <2>1, <2>2
    <3>2. \A p \in Writers : pc'[p] \in {"start", "send"} => tx'.lock = p
      BY <1>1, <2>1, <2>2, Apart
    <3> QED  BY <2>4, <3>1, <3>2 DEF Senders
  <2>6. k >= 1 /\ Minus(tx'.w, tx'.r) = k - 1
    <3>1. k # 0  BY <1>0, <2>3, NoDistance
    <3> QED  BY <1>0, <2>1, <2>3, <3>1, TakenOut
  <2>7. /\ Waiting # <<>> /\ Head(Waiting) = c /\ Waiting' = Tail(Waiting)
    <3>1. k \in Nat \ {0}  BY <1>0, <2>6
    <3>2. TailIs(tx.buf, UART_TX_BUF_SIZE, tx.r, k)  BY <1>0, <3>1, FromTail, Sizes
    <3>3. RingOf(OutBuf, tx.buf, UART_TX_BUF_SIZE, tx.r, k)  BY <1>0, FromIs, Sizes
    <3>4. Waiting[1] = tx.buf[(tx.r + 1 - 1) % UART_TX_BUF_SIZE] /\ tx.r + 1 - 1 = tx.r
      BY <1>0, <3>1, <3>3 DEF RingOf, Waiting
    <3>5. Waiting' = From(tx.buf, UART_TX_BUF_SIZE, Plus1(tx.r), k - 1)
      BY <2>1, <2>6 DEF Waiting
    <3>6. Head(Waiting) = Waiting[1]  BY <1>0, <3>2 DEF TailIs, Waiting
    <3> QED  BY <3>2, <3>4, <3>5, <3>6 DEF TailIs, Waiting
  <2> HIDE DEF k, c
  <2>8. c \in OutBuf /\ fifo' \in Seq(OutBuf) /\ Len(fifo') = Len(fifo) + 1 /\ Len(fifo) \in Nat
    <3>1. Head(Waiting) \in OutBuf  BY <1>0, <2>7
    <3> QED  BY <1>0, <2>1, <2>7, <3>1
  <2>9. Out' = Out
    <3>1. Out' = fifo' \o Waiting'  BY DEF Out, Waiting
    <3>2. Append(fifo, Head(Waiting)) \o Tail(Waiting) = fifo \o Waiting  BY <1>0, <2>7, Passes
    <3> QED  BY <1>0, <2>1, <2>7, <3>1, <3>2
  <2>10. FifoRoom'
    <3>1. intr' = "echosend" => intr = "echosend"  BY <2>2
    <3> QED  BY <2>3, <2>4, <2>8, <3>1 DEF OutInv, FifoRoom
  <2>11. OutTypes'
    <3>1. k <= UART_TX_BUF_SIZE /\ k \in Nat  BY <1>0 DEF OutInv, OutTypes, k
    <3> QED  BY <1>1, <2>6, <2>8, <3>1, Sizes DEF OutInv, OutTypes
  <2>12. InTurn'  BY <1>1, <2>9 DEF OutInv, InTurn
  <2> QED  BY <2>5, <2>10, <2>11, <2>12 DEF OutInv
<1> QED  BY <1>2, <1>3, <1>4 DEF uartstart

LEMMA OutIntr ==
  ASSUME ConInv, OutInv, IntrBegin \/ IntrNoChar \/ IntrChar \/ EchoTest PROVE OutInv'
<1>1. UNCHANGED <<fifo, sent, n>>
  BY DEF IntrBegin, IntrNoChar, IntrChar, EchoTest, conVars, uartVars
<1>2. CASE IntrBegin \/ IntrChar
  <2>1. UNCHANGED tx /\ intr \in {"none", "getc"} /\ intr' \in {"getc", "echo"}
    BY <1>2 DEF IntrBegin, IntrChar, ConsErase, ConsKill, ConsStore, Edits
  <2>2. \A p \in Writers : pc'[p] # pc[p] => pc'[p] = "read" /\ pc[p] = "asleep"
    BY <1>2 DEF IntrBegin, IntrChar, ConsErase, ConsKill, ConsStore, Wakeup, conVars,
                ConInv, ConTypes, Procs
  <2> QED  BY <1>1, <2>1, <2>2, OutStays
<1>3. CASE IntrNoChar \/ EchoTest
  <2>1. /\ UNCHANGED pc
        /\ tx'.buf = tx.buf /\ tx'.r = tx.r /\ tx'.w = tx.w
        /\ \/ intr' = "start" /\ intr = "getc" /\ tx'.lock = Intr /\ tx.lock = None
           \/ intr' = "echosend" /\ intr = "echo" /\ tx'.lock = tx.lock /\ fifo = <<>>
    BY <1>3 DEF IntrNoChar, EchoTest, conVars, ConInv, ConTypes
  <2>2. Sending' <=> Sending  BY <2>1 DEF Sending
  <2>3. Senders'
    <3>1. tx.lock = None => \A p \in Writers : pc[p] \notin {"start", "send"}
      BY Apart DEF OutInv, Senders
    <3> QED  BY <2>1, <2>2, <3>1 DEF OutInv, Senders
  <2>4. FifoRoom'
    <3>1. fifo = <<>> => Len(fifo) = 0  OBVIOUS
    <3>2. Len(fifo) \in Nat  BY DEF OutInv, OutTypes
    <3> QED  BY <1>1, <2>1, <2>2, <3>1, <3>2 DEF OutInv, FifoRoom
  <2>5. OutTypes'  BY <1>1, <2>1 DEF OutInv, OutTypes
  <2>6. Out' = Out  BY <1>1, <2>1 DEF Out
  <2>7. InTurn'  BY <1>1, <2>6 DEF OutInv, InTurn
  <2> QED  BY <2>3, <2>4, <2>5, <2>7 DEF OutInv
<1> QED  BY <1>2, <1>3

\* An echo is behind what the UART has, and before what is in the buffer.
LEMMA OutEcho == ASSUME ConInv, OutInv, EchoSend PROVE OutInv'
<1>0. Waiting \in Seq(OutBuf) /\ Out = fifo \o Waiting /\ fifo \in Seq(OutBuf) /\ None \in OutBuf
  BY OutShape DEF OutInv, OutTypes, OutBuf
<1>1. /\ UNCHANGED <<tx, pc, n, sent>> /\ fifo' = Append(fifo, None)
      /\ intr = "echosend" /\ intr' = "getc"
  BY DEF EchoSend
<1>2. fifo' \in Seq(OutBuf) /\ Len(fifo') = Len(fifo) + 1 /\ Len(fifo) \in Nat  BY <1>0, <1>1
<1>3. Sending' <=> Sending  BY <1>1 DEF Sending
<1>4. Senders'  BY <1>1, <1>3 DEF OutInv, Senders
<1>5. FifoRoom'  BY <1>1, <1>2, <1>3 DEF OutInv, FifoRoom
<1>6. OutTypes'  BY <1>1, <1>2 DEF OutInv, OutTypes
<1>7. Out' = Append(fifo, None) \o Waiting  BY <1>1 DEF Out, Waiting
<1>8. InTurn'
  <2> SUFFICES ASSUME NEW p \in Writers
               PROVE  n[p] + sent[p] <= Bytes[p] /\ Orderly(p, Out', n[p], Bytes[p] - sent[p])
    BY <1>1 DEF InTurn
  <2>1. /\ n[p] + sent[p] <= Bytes[p] /\ Orderly(p, Out, n[p], Bytes[p] - sent[p])
        /\ n[p] \in Nat /\ Bytes[p] - sent[p] \in Nat /\ ~Mine(p, None)
    BY Apart DEF OutInv, InTurn, OutTypes, ConInv, ConTypes, Procs
  <2> QED  BY <1>0, <1>7, <2>1, OrderlyEcho
<1> QED  BY <1>4, <1>5, <1>6, <1>8 DEF OutInv

\* A byte goes out, and it is the next one of its writer.
LEMMA OutSent == ASSUME ConInv, OutInv, Transmit PROVE OutInv'
<1>0. /\ Waiting \in Seq(OutBuf) /\ Out = fifo \o Waiting /\ Out \in Seq(OutBuf)
      /\ fifo \in Seq(OutBuf) /\ sent \in [Writers -> Nat]
  BY OutShape DEF OutInv, OutTypes
<1>1. UNCHANGED <<tx, pc, n, intr>> /\ fifo # <<>> /\ fifo' = Tail(fifo)
  BY DEF Transmit, conVars
<1>2. fifo' \in Seq(OutBuf) /\ Len(fifo') = Len(fifo) - 1 /\ Len(fifo) \in Nat
  BY <1>0, <1>1, HeadTailProperties
<1>3. Sending' <=> Sending  BY <1>1 DEF Sending
<1>4. Senders'  BY <1>1, <1>3 DEF OutInv, Senders
<1>5. FifoRoom'  BY <1>1, <1>2, <1>3 DEF OutInv, FifoRoom
<1>6. Out # <<>> /\ Head(Out) = Head(fifo) /\ Out' = Tail(Out)
  <2>1. Out' = Tail(fifo) \o Waiting  BY <1>1 DEF Out, Waiting
  <2> QED  BY <1>0, <1>1, <2>1, TailOfBoth
<1>7. \A p \in Writers : sent'[p] = IF Mine(p, Head(Out)) THEN sent[p] + 1 ELSE sent[p]
  BY <1>0, <1>6 DEF Transmit, Mine
<1>8. sent' \in [Writers -> Nat]
  <2>1. sent' = sent \/ sent' = [sent EXCEPT ![Head(fifo)[1]] = @ + 1]  BY DEF Transmit
  <2> QED  BY <1>0, <2>1
<1>9. OutTypes'  BY <1>1, <1>2, <1>8 DEF OutInv, OutTypes
<1>10. InTurn'
  <2> SUFFICES ASSUME NEW p \in Writers
               PROVE  n[p] + sent'[p] <= Bytes[p] /\ Orderly(p, Out', n[p], Bytes[p] - sent'[p])
    BY <1>1 DEF InTurn
  <2>1. /\ n[p] + sent[p] <= Bytes[p] /\ Orderly(p, Out, n[p], Bytes[p] - sent[p])
        /\ n[p] \in Nat /\ sent[p] \in Nat /\ Bytes[p] \in Nat /\ Bytes[p] - sent[p] \in Nat
    BY Apart DEF OutInv, InTurn, OutTypes, ConInv, ConTypes, Procs
  <2>2. /\ ~Mine(p, Head(Out)) => Orderly(p, Tail(Out), n[p], Bytes[p] - sent[p])
        /\ Mine(p, Head(Out)) => /\ n[p] < Bytes[p] - sent[p]
                                /\ Orderly(p, Tail(Out), n[p], Bytes[p] - sent[p] - 1)
    BY <1>0, <1>6, <2>1, OrderlySent
  <2>3. CASE Mine(p, Head(Out))
    <3>1. sent'[p] = sent[p] + 1 /\ Bytes[p] - sent'[p] = Bytes[p] - sent[p] - 1
      BY <1>7, <2>1, <2>3
    <3>2. n[p] + sent'[p] <= Bytes[p]  BY <2>1, <2>2, <2>3, <3>1
    <3> QED  BY <1>6, <2>2, <2>3, <3>1, <3>2
  <2>4. CASE ~Mine(p, Head(Out))  BY <1>6, <1>7, <2>1, <2>2, <2>4
  <2> QED  BY <2>3, <2>4
<1> QED  BY <1>4, <1>5, <1>9, <1>10 DEF OutInv

LEMMA OutWorld ==
  ASSUME ConInv, OutInv, (\E c \in Chars : Typing(c)) \/ (\E p \in Procs : Kill(p)) PROVE OutInv'
<1>1. UNCHANGED <<tx, fifo, sent, n, intr>>  BY DEF Typing, Kill, conVars, uartVars
<1>2. \A p \in Writers : pc'[p] # pc[p] => pc'[p] \in {"read", "put"} /\ pc[p] \in {"asleep", "full"}
  <2>1. CASE \E c \in Chars : Typing(c)  BY <2>1 DEF Typing, conVars
  <2>2. CASE \E p \in Procs : Kill(p)
    <3>1. PICK q \in Procs : Kill(q)  BY <2>2
    <3>2. CASE pc[q] = "asleep"  BY <3>1, <3>2 DEF Kill, ConInv, ConTypes, Procs
    <3>3. CASE pc[q] = "full"  BY <3>1, <3>3 DEF Kill, ConInv, ConTypes, Procs
    <3>4. CASE pc[q] # "asleep" /\ pc[q] # "full"  BY <3>1, <3>4 DEF Kill
    <3> QED  BY <3>2, <3>3, <3>4
  <2> QED  BY <2>1, <2>2
<1> QED  BY <1>1, <1>2, OutStays

LEMMA OutStutters == ASSUME ConInv, OutInv, UNCHANGED vars PROVE OutInv'
<1>1. UNCHANGED <<tx, fifo, sent, n, intr, pc>>  BY DEF vars
<1> QED  BY <1>1, OutStays

LEMMA OutStep == ASSUME ConInv, OutInv, [Next]_vars PROVE OutInv'
<1>1. CASE Handler
  <2>1. CASE uartstart(Intr)  BY <2>1, OutStart
  <2>2. CASE EchoSend  BY <2>2, OutEcho
  <2>3. CASE IntrBegin \/ IntrNoChar \/ IntrChar \/ EchoTest  BY <2>3, OutIntr
  <2> QED  BY <1>1, <2>1, <2>2, <2>3 DEF Handler, uartintr, consoleintr
<1>2. CASE \E p \in Readers : consoleread(p)  BY <1>2, OutReads
<1>3. CASE \E p \in Writers : uartputc(p) \/ uartstart(p)
  BY <1>3, OutFull, OutPut, OutStart DEF uartputc
<1>4. CASE (\E p \in Procs : Kill(p)) \/ (\E c \in Chars : Typing(c))  BY <1>4, OutWorld
<1>5. CASE Transmit  BY <1>5, OutSent
<1>6. CASE UNCHANGED vars  BY <1>6, OutStutters
<1> QED  BY <1>1, <1>2, <1>3, <1>4, <1>5, <1>6 DEF Next

LEMMA InOrderIs == ASSUME ConInv, OutInv PROVE WritesInOrder
<1>1. Len(fifo) <= 2
  <2>1. Len(fifo) \in Nat  BY DEF OutInv, OutTypes
  <2> QED  BY <2>1 DEF OutInv, FifoRoom
<1>2. ASSUME NEW p \in Writers
      PROVE  /\ {Out[i][2] : i \in Of(p)} = n[p] + 1 .. Bytes[p] - sent[p]
             /\ \A i, j \in Of(p) : i < j => Out[i][2] > Out[j][2]
  <2>1. Orderly(p, Out, n[p], Bytes[p] - sent[p])  BY DEF OutInv, InTurn
  <2>2. DOMAIN Out = 1 .. Len(Out)  BY OutShape
  <2>3. \A i : i \in Of(p) <=> i \in 1 .. Len(Out) /\ Mine(p, Out[i])  BY <2>2 DEF Of, Mine
  <2>4. \A i : Out[i][2] = Num(Out[i])  BY DEF Num
  <2>5. \A i \in Of(p) : Out[i][2] \in n[p] + 1 .. Bytes[p] - sent[p]  BY <2>1, <2>3, <2>4 DEF Orderly
  <2>6. \A k \in n[p] + 1 .. Bytes[p] - sent[p] : \E i \in Of(p) : Out[i][2] = k
    BY <2>1, <2>3, <2>4 DEF Orderly
  <2>7. \A i, j \in Of(p) : i < j => Out[i][2] > Out[j][2]  BY <2>1, <2>3, <2>4 DEF Orderly
  <2> QED  BY <2>5, <2>6, <2>7
<1> QED  BY <1>1, <1>2 DEF WritesInOrder

\* What is written is sent, once and in order: of each writer, the bytes that it has
\* put into uart_tx_buf and that are not sent yet are in the UART and in the ring
\* buffer, the earlier one first, whatever the echoes of uartputc_sync() and the
\* other writers do; and the UART never has more than two bytes to send.
THEOREM BytesAreSentInOrder == Spec => []WritesInOrder
<1>1. Init => OutInv  BY OutInit
<1>2. ConInv /\ OutInv /\ [Next]_vars => OutInv'  BY OutStep
<1>3. ConInv /\ OutInv => WritesInOrder  BY InOrderIs
<1> QED  BY <1>1, <1>2, <1>3, ConAlways, PTL DEF Spec

=============================================================================
