------------------------------- MODULE Console -------------------------------
(***************************************************************************)
(* The console: kernel/console.c and kernel/uart.c, with processes that    *)
(* read and write, the interrupt handler, and the UART, whose FIFOs        *)
(* uartinit() enables. An output FIFO that is empty shows as LSR_TX_IDLE;  *)
(* the test of it and the write of a byte are two accesses, between which  *)
(* another CPU may write.                                                  *)
(*                                                                         *)
(* A step is what happens between two accesses to the UART, two waits, or  *)
(* two bytes of a read(). The indices wrap around as unsigned integers do. *)
(***************************************************************************)
EXTENDS Integers, SequencesExt

CONSTANTS
  Readers, Writers,
  Chars,             \* what is typed: "^D", "^U", "^H", "nl" or others
  INPUT_BUF_SIZE, UART_TX_BUF_SIZE,
  Wrap,              \* one more than the greatest index; both sizes divide it
  MaxTyped,          \* how much is typed
  MaxAhead,          \* how much of it before it is looked at
  Bytes,             \* how much a process writes, or asks for
  None               \* no process, no byte

ASSUME ConsoleAssumption ==
  /\ {INPUT_BUF_SIZE, UART_TX_BUF_SIZE} \subseteq Nat \ {0}
  /\ Bytes \in [Readers \cup Writers -> Nat]
  /\ \A p \in Readers : Bytes[p] > 0   \* a read() of no bytes does not look at cons
  /\ {Wrap, MaxTyped} \subseteq Nat
  /\ Wrap % INPUT_BUF_SIZE = 0 /\ Wrap % UART_TX_BUF_SIZE = 0
  /\ Wrap > INPUT_BUF_SIZE /\ Wrap > UART_TX_BUF_SIZE
  /\ Readers \cap Writers = {}
  /\ {None, "intr"} \cap (Readers \cup Writers) = {} /\ None # "intr"
  /\ \A p \in Writers : \A k \in 1 .. Bytes[p] : <<p, k>> # None

VARIABLES
  cons,        \* buf, r, w, e, and who holds lock
  tx,          \* uart_tx_buf, uart_tx_w, uart_tx_r, and who holds uart_tx_lock
  rx, fifo,    \* the UART: what has been typed, and what is to be sent
  irq,         \* it has raised an interrupt
  intr,        \* where the handler is
  pc, n,       \* where a process is, and how many bytes are left to it
  killed,
  typed, sent  \* how much has been typed, and has been sent of each writer

Procs == Readers \cup Writers
Intr == "intr"

conVars == <<cons, pc, n, killed>>
uartVars == <<rx, fifo, irq, typed, sent>>
vars == <<cons, tx, rx, fifo, irq, intr, pc, n, killed, typed, sent>>

Init ==
  /\ cons = [buf |-> [i \in 0 .. INPUT_BUF_SIZE - 1 |-> None], r |-> 0, w |-> 0, e |-> 0, lock |-> None]
  /\ tx = [buf |-> [i \in 0 .. UART_TX_BUF_SIZE - 1 |-> None], r |-> 0, w |-> 0, lock |-> None]
  /\ rx = <<>> /\ fifo = <<>> /\ irq = FALSE
  /\ intr = "none"
  /\ pc = [p \in Procs |-> IF p \in Readers THEN "user" ELSE "put"]
  /\ n = Bytes
  /\ killed = [p \in Readers |-> FALSE]
  /\ typed = 0
  /\ sent = [p \in Writers |-> 0]

Minus(a, b) == (a - b) % Wrap
Plus1(a) == (a + 1) % Wrap
Goto(p, l) == pc' = [pc EXCEPT ![p] = l]
\* wakeup() of those that sleep at l, who then look again at m.
Wakeup(ps, l, m) == [p \in Procs |-> IF p \in ps /\ pc[p] = l THEN m ELSE pc[p]]

-----------------------------------------------------------------------------
(* consoleread()                                                            *)

Read(p) ==
  /\ pc[p] = "user"
  /\ Goto(p, "read")
  /\ n' = [n EXCEPT ![p] = Bytes[p]]
  /\ UNCHANGED <<cons, tx, intr, killed, uartVars>>

\* Nothing to read: a killed process leaves, another one keeps the lock and is
\* about to sleep.
ReadWaits(p) ==
  /\ pc[p] = "read"
  /\ cons.lock = None
  /\ cons.r = cons.w
  /\ IF killed[p] THEN Goto(p, "gone") /\ UNCHANGED cons
                  ELSE Goto(p, "sleep") /\ cons' = [cons EXCEPT !.lock = p]
  /\ UNCHANGED <<tx, intr, n, killed, uartVars>>

\* sleep(). Who has been killed since killed() was called sleeps all the same.
ReadSleeps(p) ==
  /\ pc[p] = "sleep"
  /\ Goto(p, "asleep")
  /\ cons' = [cons EXCEPT !.lock = None]
  /\ UNCHANGED <<tx, intr, n, killed, uartVars>>

\* A byte. The end of the line or of the file ends the read; but the end of the
\* file is left for the next one, which then has no bytes, if this one has some.
ReadByte(p) ==
  LET c == cons.buf[cons.r % INPUT_BUF_SIZE]
      left == n[p] - 1
  IN  /\ pc[p] = "read"
      /\ cons.lock = None
      /\ cons.r # cons.w
      /\ cons' = [cons EXCEPT !.r = IF c = "^D" /\ n[p] < Bytes[p] THEN @ ELSE Plus1(@)]
      /\ n' = [n EXCEPT ![p] = IF c = "^D" THEN @ ELSE left]
      /\ Goto(p, IF c \in {"^D", "nl"} \/ left = 0 THEN "user" ELSE "read")
      /\ UNCHANGED <<tx, intr, killed, uartVars>>

consoleread(p) == Read(p) \/ ReadWaits(p) \/ ReadSleeps(p) \/ ReadByte(p)

-----------------------------------------------------------------------------
(* consolewrite(): uartputc() of each byte.                                 *)

PutFull(p) ==
  /\ pc[p] = "put"
  /\ n[p] > 0
  /\ tx.lock = None
  /\ Minus(tx.w, tx.r) = UART_TX_BUF_SIZE
  /\ Goto(p, "full")
  /\ UNCHANGED <<cons, tx, intr, n, killed, uartVars>>

\* Mutant: a byte is put into the buffer, full or not.
PutByte_Full(p) ==
  /\ pc[p] = "put"
  /\ n[p] > 0
  /\ tx.lock = None
  /\ tx' = [tx EXCEPT !.buf[tx.w % UART_TX_BUF_SIZE] = <<p, n[p]>>, !.w = Plus1(@), !.lock = p]
  /\ n' = [n EXCEPT ![p] = @ - 1]
  /\ Goto(p, "start")
  /\ UNCHANGED <<cons, intr, killed, uartVars>>

PutByte(p) ==
  /\ pc[p] = "put"
  /\ n[p] > 0
  /\ tx.lock = None
  /\ Minus(tx.w, tx.r) # UART_TX_BUF_SIZE
  /\ tx' = [tx EXCEPT !.buf[tx.w % UART_TX_BUF_SIZE] = <<p, n[p]>>, !.w = Plus1(@), !.lock = p]
  /\ n' = [n EXCEPT ![p] = @ - 1]
  /\ Goto(p, "start")
  /\ UNCHANGED <<cons, intr, killed, uartVars>>

\* uartstart(), of a process or of the handler, with the lock: it has seen that
\* there is a byte to send and that the UART is idle.
StartTest(q) ==
  /\ tx.lock = q
  /\ tx.w # tx.r
  /\ fifo = <<>>
  /\ IF q = Intr THEN intr = "start" /\ intr' = "send" /\ UNCHANGED pc
                 ELSE pc[q] = "start" /\ Goto(q, "send") /\ UNCHANGED intr
  /\ UNCHANGED <<cons, tx, n, killed, uartVars>>

StartSend(q) ==
  /\ tx.lock = q
  /\ fifo' = Append(fifo, tx.buf[tx.r % UART_TX_BUF_SIZE])
  /\ tx' = [tx EXCEPT !.r = Plus1(@)]
  /\ IF q = Intr THEN intr = "send" /\ intr' = "start"
                        /\ pc' = Wakeup(Writers, "full", "put")
                 ELSE pc[q] = "send" /\ UNCHANGED intr
                        /\ pc' = [Wakeup(Writers, "full", "put") EXCEPT ![q] = "start"]
  /\ UNCHANGED <<cons, n, killed, rx, irq, typed, sent>>

StartEnd(q) ==
  /\ tx.lock = q
  /\ tx.w = tx.r \/ fifo # <<>>
  /\ tx' = [tx EXCEPT !.lock = None]
  /\ IF q = Intr THEN intr = "start" /\ intr' = "none" /\ UNCHANGED pc
                 ELSE pc[q] = "start" /\ Goto(q, "put") /\ UNCHANGED intr
  /\ UNCHANGED <<cons, n, killed, uartVars>>

uartstart(q) == StartTest(q) \/ StartSend(q) \/ StartEnd(q)
uartputc(p) == PutFull(p) \/ PutByte(p)

-----------------------------------------------------------------------------
(* uartintr() and consoleintr()                                             *)

IntrBegin ==
  /\ intr = "none"
  /\ irq
  /\ irq' = FALSE
  /\ intr' = "getc"
  /\ UNCHANGED <<conVars, tx, rx, fifo, typed, sent>>

\* Mutant: the handler does not send what is in the buffer.
IntrNoChar_NoStart ==
  /\ intr = "getc"
  /\ rx = <<>>
  /\ intr' = "none"
  /\ UNCHANGED <<conVars, tx, uartVars>>

\* Nothing has been typed, any more; then it sends what is in the buffer.
IntrNoChar ==
  /\ intr = "getc"
  /\ rx = <<>>
  /\ tx.lock = None
  /\ tx' = [tx EXCEPT !.lock = Intr]
  /\ intr' = "start"
  /\ UNCHANGED <<conVars, uartVars>>

\* What consoleintr() makes of a character. An echo comes before the lock is
\* given up.
Edits(c, echo) ==
  /\ cons' = [c EXCEPT !.lock = IF echo THEN Intr ELSE None]
  /\ intr' = IF echo THEN "echo" ELSE "getc"

ConsErase(c) ==
  /\ c = "^H"
  /\ Edits([cons EXCEPT !.e = IF @ # cons.w THEN Minus(@, 1) ELSE @], cons.e # cons.w)
  /\ UNCHANGED pc

\* One byte of the line after the other, each with an echo.
ConsKill(c) ==
  /\ c = "^U"
  /\ LET more == cons.e # cons.w /\ cons.buf[Minus(cons.e, 1) % INPUT_BUF_SIZE] # "nl"
     IN  Edits([cons EXCEPT !.e = IF more THEN cons.w ELSE @], more)
  /\ UNCHANGED pc

Stored(c) == [cons EXCEPT !.buf[cons.e % INPUT_BUF_SIZE] = c, !.e = Plus1(@)]

\* Mutant: a byte is stored though the buffer is full of unread ones.
ConsStore_Full(c) ==
  /\ c \notin {"^U", "^H"}
  /\ LET whole == c \in {"nl", "^D"} \/ Minus(Stored(c).e, cons.r) = INPUT_BUF_SIZE
     IN  /\ Edits([Stored(c) EXCEPT !.w = IF whole THEN Stored(c).e ELSE @], TRUE)
         /\ pc' = IF whole THEN Wakeup(Readers, "asleep", "read") ELSE pc

\* Mutant: a buffer that is full of a line without an end does not wake anybody.
ConsStore_LinesOnly(c) ==
  /\ c \notin {"^U", "^H"}
  /\ LET whole == c \in {"nl", "^D"} \/ Minus(Stored(c).e, cons.r) = INPUT_BUF_SIZE
     IN  IF Minus(cons.e, cons.r) < INPUT_BUF_SIZE
           THEN /\ Edits([Stored(c) EXCEPT !.w = IF whole THEN Stored(c).e ELSE @], TRUE)
                /\ pc' = IF c \in {"nl", "^D"} THEN Wakeup(Readers, "asleep", "read") ELSE pc
           ELSE Edits(cons, FALSE) /\ UNCHANGED pc

\* A byte that ends a line, or fills the buffer, wakes the readers up.
ConsStore(c) ==
  /\ c \notin {"^U", "^H"}
  /\ LET whole == c \in {"nl", "^D"} \/ Minus(Stored(c).e, cons.r) = INPUT_BUF_SIZE
     IN  IF Minus(cons.e, cons.r) < INPUT_BUF_SIZE
           THEN /\ Edits([Stored(c) EXCEPT !.w = IF whole THEN Stored(c).e ELSE @], TRUE)
                /\ pc' = IF whole THEN Wakeup(Readers, "asleep", "read") ELSE pc
           ELSE Edits(cons, FALSE) /\ UNCHANGED pc

\* uartgetc(), and consoleintr() of what it returns, which waits for cons.lock.
IntrChar ==
  /\ intr = "getc"
  /\ rx # <<>>
  /\ cons.lock = None
  /\ rx' = Tail(rx)
  /\ ConsErase(Head(rx)) \/ ConsKill(Head(rx)) \/ ConsStore(Head(rx))
  /\ UNCHANGED <<tx, n, killed, fifo, irq, typed, sent>>

\* uartputc_sync(): with cons.lock, but not with uart_tx_lock.
EchoTest ==
  /\ intr = "echo"
  /\ fifo = <<>>
  /\ intr' = "echosend"
  /\ UNCHANGED <<conVars, tx, uartVars>>
EchoSend ==
  /\ intr = "echosend"
  /\ fifo' = Append(fifo, None)
  /\ cons' = [cons EXCEPT !.lock = None]
  /\ intr' = "getc"
  /\ UNCHANGED <<tx, pc, n, killed, rx, irq, typed, sent>>

consoleintr == IntrChar \/ EchoTest \/ EchoSend
uartintr == IntrBegin \/ IntrNoChar \/ uartstart(Intr)

-----------------------------------------------------------------------------
(* The UART, the user at the terminal, and kill().                          *)

Typing(c) ==
  /\ typed < MaxTyped
  /\ Len(rx) < MaxAhead
  /\ typed' = typed + 1
  /\ rx' = Append(rx, c)
  /\ irq' = TRUE
  /\ UNCHANGED <<conVars, tx, fifo, intr, sent>>

\* A byte goes out; when it was the last one, the UART interrupts.
Transmit ==
  /\ fifo # <<>>
  /\ fifo' = Tail(fifo)
  /\ irq' = (irq \/ Len(fifo) = 1)
  /\ sent' = IF Head(fifo) = None THEN sent ELSE [sent EXCEPT ![Head(fifo)[1]] = @ + 1]
  /\ UNCHANGED <<conVars, tx, rx, intr, typed>>

\* It takes p->lock only. A reader that sleeps is woken, and leaves; one that is
\* about to sleep is not told. A writer that sleeps looks once more.
Kill(p) ==
  /\ IF p \in Readers THEN ~killed[p] /\ killed' = [killed EXCEPT ![p] = TRUE]
                      ELSE pc[p] = "full" /\ UNCHANGED killed
  /\ pc' = CASE pc[p] = "asleep" -> [pc EXCEPT ![p] = "read"]
             [] pc[p] = "full" -> [pc EXCEPT ![p] = "put"]
             [] OTHER -> pc
  /\ UNCHANGED <<cons, n, tx, intr, uartVars>>

Handler == uartintr \/ consoleintr
Process(p) == IF p \in Readers THEN consoleread(p) ELSE uartputc(p) \/ uartstart(p)

Next ==
  \/ Handler
  \/ \E p \in Readers : consoleread(p)
  \/ \E p \in Writers : uartputc(p) \/ uartstart(p)
  \/ \E p \in Procs : Kill(p)
  \/ \E c \in Chars : Typing(c)
  \/ Transmit

\* The UART sends, the handler runs, and processes are scheduled.
Fairness ==
  /\ WF_vars(Transmit)
  /\ WF_vars(Handler)
  /\ \A p \in Procs : WF_vars(Process(p))

Spec == Init /\ [][Next]_vars /\ Fairness

-----------------------------------------------------------------------------
Index == 0 .. Wrap - 1

TypeOK ==
  /\ cons.buf \in [0 .. INPUT_BUF_SIZE - 1 -> Chars \cup {None}]
  /\ {cons.r, cons.w, cons.e, tx.r, tx.w} \subseteq Index
  /\ cons.lock \in Readers \cup {None, Intr}
  /\ tx.lock \in Writers \cup {None, Intr}
  /\ intr \in {"none", "getc", "echo", "echosend", "start", "send"}
  /\ pc \in [Procs -> {"user", "read", "sleep", "asleep", "gone", "put", "full", "start", "send"}]
  /\ \A p \in Procs : n[p] \in 0 .. Bytes[p]
  /\ typed \in 0 .. MaxTyped

\* Nobody sleeps while there is what it waits for: a line, or room in the buffer.
NobodyWaitsInVain ==
  /\ TypeOK
  /\ \A p \in Readers : pc[p] = "asleep" => cons.r = cons.w
  /\ \A p \in Writers : pc[p] = "full" => Minus(tx.w, tx.r) = UART_TX_BUF_SIZE

\* What is in a ring buffer, from its first byte on.
From(buf, size, r, count) == [i \in 1 .. count |-> buf[(r + i - 1) % size]]

\* What is still to be sent, and where the bytes of a writer are in it.
Out == fifo \o From(tx.buf, UART_TX_BUF_SIZE, tx.r, Minus(tx.w, tx.r))
Of(p) == {i \in DOMAIN Out : Out[i] # None /\ Out[i][1] = p}

\* The bytes of each writer go out once and in their order, echoes and other
\* writers between them or not, and the UART never has more than two to send.
WritesInOrder ==
  /\ Len(fifo) <= 2
  /\ \A p \in Writers :
       /\ {Out[i][2] : i \in Of(p)} = n[p] + 1 .. Bytes[p] - sent[p]
       /\ \A i, j \in Of(p) : i < j => Out[i][2] > Out[j][2]

\* The ring buffer of bytes that wrap around is the terminal that Tty promises.
Terminal ==
  INSTANCE Tty WITH Room <- INPUT_BUF_SIZE, Chars <- Chars, Ends <- {"nl", "^D"},
                    queue <- From(cons.buf, INPUT_BUF_SIZE, cons.r, Minus(cons.w, cons.r)),
                    edit <- From(cons.buf, INPUT_BUF_SIZE, cons.w, Minus(cons.e, cons.w))
ImplementsTty == Terminal!Spec

\* Every write() returns, also when it has slept for room and is killed there; and
\* all it wrote is sent.
WritesEnd == <>[](\A p \in Writers : sent[p] = Bytes[p])
=============================================================================
