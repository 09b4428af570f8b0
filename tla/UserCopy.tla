-------------------------------- MODULE UserCopy --------------------------------
(***************************************************************************)
(* How the kernel reads and writes the memory of a program: walkaddr(),    *)
(* copyout(), copyin() and copyinstr() of vm.c, and what system calls make *)
(* of them (syscall.c, either_copyin() and either_copyout() of proc.c).    *)
(* They go page by page: neighbours in the program's address space may lie *)
(* anywhere in memory, or not be there. Addresses are unsigned and wrap;   *)
(* MAXVA is far below the largest.                                         *)
(***************************************************************************)
EXTENDS Integers, Sequences

CONSTANTS
  PageBytes,   \* PGSIZE: bytes per page
  VPages,      \* virtual pages below MAXVA
  PPages,      \* pages of physical memory
  Word         \* sizeof(uint64)

MAXVA == VPages * PageBytes
Wrap(a) == a % (4 * MAXVA)
PGROUNDDOWN(a) == a - (a % PageBytes)
Phys == 0 .. PPages * PageBytes - 1

\* A page table: for each page, whether it is there (PTE_V), whether it is the
\* program's (PTE_U), and the physical page.
PageTables == [0 .. VPages - 1 -> [v : BOOLEAN, u : BOOLEAN, page : 0 .. PPages - 1]]

\* The physical address of a page, or -1: not mapped, or not for the program.
walkaddr(pt, va) ==
  IF va >= MAXVA THEN -1
  ELSE LET pte == pt[va \div PageBytes]
       IN  IF ~pte.v \/ ~pte.u THEN -1 ELSE pte.page * PageBytes

\* What of len bytes lies in the page of va, where, and what is next.
InPage(va, len) == LET n == PageBytes - (va % PageBytes) IN IF n > len THEN len ELSE n
NextPage(va) == Wrap(PGROUNDDOWN(va) + PageBytes)
InPhys(pa0, va) == pa0 + (va % PageBytes)

-----------------------------------------------------------------------------
(* mem is physical memory, buf a buffer of the kernel that starts at 1.     *)

RECURSIVE OutPage(_, _, _, _), InPiece(_, _, _, _, _), StrPage(_, _, _, _, _)

\* copyout(): the first part of src, then the rest of it at the next page.
OutPage(pt, mem, dstva, src) ==
  LET pa0 == walkaddr(pt, PGROUNDDOWN(dstva))
      n == InPage(dstva, Len(src))
      at == InPhys(pa0, dstva)
      after == [a \in Phys |-> IF a \in at .. at + n - 1 THEN src[a - at + 1] ELSE mem[a]]
  IN  IF src = <<>> THEN [ok |-> TRUE, mem |-> mem]
      ELSE IF pa0 = -1 THEN [ok |-> FALSE, mem |-> mem]
      ELSE OutPage(pt, after, NextPage(dstva), SubSeq(src, n + 1, Len(src)))
copyout(pt, mem, dstva, src) == OutPage(pt, mem, dstva, src)

\* copyin(): what has been read so far, then the rest.
InPiece(pt, mem, buf, srcva, len) ==
  LET pa0 == walkaddr(pt, PGROUNDDOWN(srcva))
      n == InPage(srcva, len)
      piece == [i \in 1 .. n |-> mem[InPhys(pa0, srcva) + i - 1]]
  IN  IF len = 0 THEN [ok |-> TRUE, buf |-> buf]
      ELSE IF pa0 = -1 THEN [ok |-> FALSE, buf |-> buf]
      ELSE InPiece(pt, mem, buf \o piece, NextPage(srcva), len - n)
copyin(pt, mem, srcva, len) == InPiece(pt, mem, <<>>, srcva, len)

\* copyinstr(): the same up to a 0, which is copied too, or max bytes.
StrPage(pt, mem, buf, srcva, max) ==
  LET pa0 == walkaddr(pt, PGROUNDDOWN(srcva))
      n == InPage(srcva, max)
      at == InPhys(pa0, srcva)
      zeros == {i \in 1 .. n : mem[at + i - 1] = 0}
      last == IF zeros = {} THEN n ELSE CHOOSE i \in zeros : \A j \in zeros : i <= j
      more == buf \o [i \in 1 .. last |-> mem[at + i - 1]]
  IN  IF max = 0 \/ pa0 = -1 THEN [ok |-> FALSE, buf |-> buf]
      ELSE IF zeros # {} THEN [ok |-> TRUE, buf |-> more]
      ELSE StrPage(pt, mem, more, NextPage(srcva), max - n)
copyinstr(pt, mem, srcva, max) == StrPage(pt, mem, <<>>, srcva, max)

\* The kernel's own memory is copied without a page table.
either_copyout(user, pt, mem, dst, src) ==
  IF user THEN copyout(pt, mem, dst, src)
  ELSE [ok |-> TRUE, mem |-> [a \in Phys |-> IF a \in dst .. dst + Len(src) - 1
                                               THEN src[a - dst + 1] ELSE mem[a]]]
either_copyin(user, pt, mem, src, len) ==
  IF user THEN copyin(pt, mem, src, len)
  ELSE [ok |-> TRUE, buf |-> [i \in 1 .. len |-> mem[src + i - 1]]]

\* Both tests are needed: addr + sizeof(uint64) may wrap.
fetchaddr(pt, mem, sz, addr) ==
  IF addr >= sz \/ Wrap(addr + Word) > sz THEN [ok |-> FALSE, buf |-> <<>>]
  ELSE copyin(pt, mem, addr, Word)

\* The length of a string argument, or -1.
fetchstr(pt, mem, addr, max) ==
  LET r == copyinstr(pt, mem, addr, max)
  IN  IF r.ok THEN Len(r.buf) - 1 ELSE -1
argstr(pt, mem, addr, max) == fetchstr(pt, mem, addr, max)

-----------------------------------------------------------------------------
\* The program's own view: the byte at va, if va is one of its addresses.
Mine(pt, va) == va < MAXVA /\ pt[va \div PageBytes].v /\ pt[va \div PageBytes].u
PhysAt(pt, va) == pt[va \div PageBytes].page * PageBytes + (va % PageBytes)

\* How many of the len bytes from va on are the program's, without a gap.
Readable(pt, va, len) ==
  CHOOSE k \in 0 .. len :
    /\ \A i \in 0 .. k - 1 : Mine(pt, va + i)
    /\ k < len => ~Mine(pt, va + k)

\* Whatever the address, the length and the page table: the copies succeed
\* exactly when all of the bytes are the program's, they move each byte to or
\* from the address it has for the program, they change nothing else, and what
\* fails has gone as far as the first page that is missing (vm.c:348-438). A
\* string is accepted exactly when it ends within max bytes, and its length is
\* returned (syscall.c:22-31).
UserCopyRight(pt, mem, va, len) ==
  LET k == Readable(pt, va, len)
      src == [i \in 1 .. len |-> 10 + i]
      there == {PhysAt(pt, va + i) : i \in 0 .. k - 1}
      out == copyout(pt, mem, va, src)
      in == copyin(pt, mem, va, len)
      str == copyinstr(pt, mem, va, len)
      ends == {i \in 0 .. k - 1 : mem[PhysAt(pt, va + i)] = 0}
      end == CHOOSE i \in ends : \A j \in ends : i <= j
      word == fetchaddr(pt, mem, MAXVA - PageBytes, va)
  IN  /\ out.ok = (k = len) /\ in.ok = (k = len)
      /\ \A i \in 0 .. k - 1 : out.mem[PhysAt(pt, va + i)] = 11 + i
      /\ \A a \in Phys \ there : out.mem[a] = mem[a]
      /\ k = len => in.buf = [i \in 1 .. len |-> mem[PhysAt(pt, va + i - 1)]]
      /\ str.ok = (ends # {})
      /\ ends # {} => str.buf = [i \in 1 .. end + 1 |-> mem[PhysAt(pt, va + i - 1)]]
      /\ Len(str.buf) <= len
      /\ argstr(pt, mem, va, len) = IF ends = {} THEN -1 ELSE end
      /\ word.ok = (va + Word <= MAXVA - PageBytes /\ Readable(pt, va, Word) = Word)
      /\ either_copyin(TRUE, pt, out.mem, va, k).buf = SubSeq(src, 1, k)
      /\ va + len <= PPages * PageBytes =>
           either_copyin(FALSE, pt, either_copyout(FALSE, pt, mem, va, src).mem, va, len).buf = src
=============================================================================
