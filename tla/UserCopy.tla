------------------------------ MODULE UserCopy ------------------------------
(***************************************************************************)
(* How the kernel reaches the user buffer of a read from or a write to a   *)
(* pipe.  check_mem looks at the page table when the call is made; the     *)
(* copies of pipe_read and pipe_write come at once or later, when the      *)
(* other end of the pipe calls, and translate an address with U2K at the   *)
(* start and at every page boundary.  What the ring holds is left open     *)
(* (see Pipe): a copy moves any number of bytes that the call still        *)
(* allows.  The two tables of a process map the same pages (see Cow), so   *)
(* there is one here.                                                      *)
(***************************************************************************)
EXTENDS Naturals

CONSTANTS
  PGSIZE,     \* bytes in a page
  NPAGES,     \* user pages looked at; no page is mapped from here on
  MaxSize     \* bytes a call asks for, at most

VARIABLES
  pgtbl,      \* the flags of every page; {} if it is not present
  op,         \* the call that is made: "none", "read" or "write"
  addr, siz,  \* its buffer
  ptr,        \* bytes of a write that are copied
  rax,        \* the result of the last call
  used        \* the pages that U2K translated for this call

vars == <<pgtbl, op, addr, siz, ptr, rax, used>>

PTE_P == "P"
PTE_U == "U"
PTE_W == "W"

PageOf(a) == a \div PGSIZE
Pte(p) == IF p < NPAGES THEN pgtbl[p] ELSE {}
PAGEADDR(a) == PageOf(a) * PGSIZE

(* The walk of check_mem, from the page of a to before end.                *)
check_mem(a, n, flags) ==
  LET first == PAGEADDR(a)
      end == PAGEADDR(first + n) + PGSIZE
  IN  \A p \in PageOf(first) .. PageOf(end) - 1 : flags \cup {PTE_P} \subseteq Pte(p)

Needs(o) == IF o = "read" THEN {PTE_U, PTE_W} ELSE {PTE_U}

Init ==
  /\ pgtbl \in [0 .. NPAGES - 1 -> {{}, {PTE_P, PTE_U}, {PTE_P, PTE_U, PTE_W}}]
  /\ op = "none" /\ addr = 0 /\ siz = 0 /\ ptr = 0
  /\ rax = "none"
  /\ used = {}

(* sys_read and sys_write of a pipe.  A call of no bytes is refused, a     *)
(* write without a word: the error goes to rbx.  So is one whose           *)
(* descriptor is bad or busy, after the check of its buffer.               *)
Call(o, a, n) ==
  /\ op = "none"
  /\ \/ /\ n = 0
        /\ rax' = IF o = "read" THEN "EINVAL" ELSE rax
        /\ UNCHANGED <<op, addr, siz, ptr>>
     \/ /\ n > 0 /\ ~check_mem(a, n, Needs(o))
        /\ rax' = "EFAULT"
        /\ UNCHANGED <<op, addr, siz, ptr>>
     \/ /\ n > 0 /\ check_mem(a, n, Needs(o))
        /\ rax' \in {"EBADF", "EBUSY"}
        /\ UNCHANGED <<op, addr, siz, ptr>>
     \/ /\ n > 0 /\ check_mem(a, n, Needs(o))
        /\ op' = o /\ addr' = a /\ siz' = n /\ ptr' = 0
        /\ UNCHANGED rax
  /\ used' = {}
  /\ UNCHANGED pgtbl

(* The addresses that a copy of n bytes from b on gives to U2K.            *)
Translated(b, n) == {b} \cup {b + i : i \in {k \in 1 .. n : (b + k) % PGSIZE = 0}}

pipe_read(n) ==
  /\ op = "read" /\ n <= siz
  /\ used' = {PageOf(x) : x \in Translated(addr, n)}
  /\ op' = "none" /\ rax' = "ok"
  /\ UNCHANGED <<pgtbl, addr, siz, ptr>>

pipe_write(n) ==
  /\ op = "write" /\ n <= siz - ptr
  /\ used' = used \cup {PageOf(x) : x \in Translated(addr + ptr, n)}
  /\ ptr' = ptr + n
  /\ IF ptr' = siz THEN op' = "none" /\ rax' = "ok" ELSE UNCHANGED <<op, rax>>
  /\ UNCHANGED <<pgtbl, addr, siz>>

Next ==
  \/ \E o \in {"read", "write"}, a \in 0 .. NPAGES * PGSIZE - 1, n \in 0 .. MaxSize : Call(o, a, n)
  \/ \E n \in 1 .. MaxSize : pipe_read(n) \/ pipe_write(n)

Spec == Init /\ [][Next]_vars
-----------------------------------------------------------------------------
(***************************************************************************)
(* Every page that a copy reaches is present and has PTE_U, the assertion  *)
(* of U2K; it relies on check_mem, which is to check the whole range of    *)
(* the buffer, its end included.                                           *)
(***************************************************************************)
ReachesCheckedPages == \A p \in used : {PTE_P, PTE_U} \subseteq Pte(p)
=============================================================================
