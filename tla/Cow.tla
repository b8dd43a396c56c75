-------------------------------- MODULE Cow ---------------------------------
(***************************************************************************)
(* User memory: the page lists and reference counts of kernel/mem.c, the   *)
(* two page tables of a process, copy-on-write fork, the page fault        *)
(* handler, exec, sbrk, the end of a process, and the ways in which the    *)
(* kernel writes into user memory.                                         *)
(*                                                                         *)
(* `pgtbl` is the table the processor uses, `p_pgtbl` the table with the   *)
(* permissions the process really has; a page is shared after fork as long *)
(* as `pgtbl` lacks the write flag that `p_pgtbl` has.  The pages in which *)
(* the tables and the pipes lie are not counted here.  One word stands for *)
(* the contents of a page.                                                 *)
(***************************************************************************)
EXTENDS Integers, FiniteSets

CONSTANTS
  NPROCS,       \* slots of the process table
  Pages,        \* physical pages behind end_kmem
  NoPage,       \* the page of an entry that is not present
  NIMG,         \* pages of a program image, its stack and arguments included
  UMAX,         \* end of the user addresses, in pages
  LOWWATER,     \* FREEPAGES_LOWWATER
  Vals,         \* bound: contents of pages
  DirectWrites  \* do system calls write through the current page table?

ASSUME CowAssumption ==
  /\ NPROCS \in Nat \ {0}
  /\ IsFiniteSet(Pages) /\ NoPage \notin Pages
  /\ NIMG \in Nat /\ UMAX \in Nat /\ NIMG <= UMAX
  /\ LOWWATER \in Nat
  /\ 0 \in Vals
  /\ DirectWrites \in BOOLEAN

VARIABLES
  curproc,      \* the process on the processor, or IDLE
  state,        \* state of each process
  pgtbl, p_pgtbl, end_umem,
  ref,          \* page_info.ref
  free,         \* the free page list (its order is left open)
  data,         \* contents of each page
  tlb,          \* translations of curproc that the processor holds
  view,         \* history: what each process last wrote, or inherited
  halted        \* the kernel stopped in panic, assert or a fault of its own

vars == <<curproc, state, pgtbl, p_pgtbl, end_umem, ref, free, data, tlb, view, halted>>

Procs == 0 .. NPROCS - 1
Addrs == 0 .. UMAX - 1
IDLE == -1
PTE == [pg : Pages \cup {NoPage}, w : BOOLEAN]
Absent == [pg |-> NoPage, w |-> FALSE]
NoTable == [v \in Addrs |-> Absent]
Fresh == [v \in Addrs |-> 0]

(* The addresses at which table t maps page g, and all mappings of g.      *)
At(t, g) == {v \in Addrs : t[v].pg = g}
Mappers(g) == {pv \in Procs \X Addrs : pgtbl[pv[1]][pv[2]].pg = g}

Runs(p) == ~halted /\ curproc = p /\ state[p] = "LIVE"

Halt ==
  /\ halted' = TRUE
  /\ UNCHANGED <<curproc, state, pgtbl, p_pgtbl, end_umem, ref, free, data, tlb, view>>

(* alloc_page looks at the page behind the one it takes, so n pages can be *)
(* had only when there is one more.                                        *)
CanAlloc(n) == Cardinality(free) > n

-----------------------------------------------------------------------------
(* The processor, on its own: it keeps a translation it has walked.        *)
TlbFill(p, v) ==
  /\ Runs(p)
  /\ pgtbl[p][v].pg # NoPage
  /\ tlb[v].pg = NoPage
  /\ tlb' = [tlb EXCEPT ![v] = pgtbl[p][v]]
  /\ UNCHANGED <<curproc, state, pgtbl, p_pgtbl, end_umem, ref, free, data, view, halted>>

(* The translation of v that an access of p uses.                          *)
Walk(p, v) == IF tlb[v].pg # NoPage THEN tlb[v] ELSE pgtbl[p][v]

(* A program writes x at v, where it may.                                  *)
Store(p, v, x) ==
  /\ Runs(p)
  /\ Walk(p, v).w
  /\ data' = [data EXCEPT ![Walk(p, v).pg] = x]
  /\ view' = [view EXCEPT ![p][v] = x]
  /\ UNCHANGED <<curproc, state, pgtbl, p_pgtbl, end_umem, ref, free, tlb, halted>>

(* lcr3(rcr3()): the cached translations are dropped.  Its mutant: they    *)
(* are not.                                                                *)
MutantTlbStays(t) == t

Reload(t) == NoTable

(* Mutants of OwnPage: only pgtbl is changed; the page is not copied.      *)
MutantForgetsPTable(p, v, x) ==
  \E g \in free :
    /\ pgtbl' = [pgtbl EXCEPT ![p][v] = [pg |-> g, w |-> TRUE]]
    /\ ref' = [ref EXCEPT ![pgtbl[p][v].pg] = @ - 1, ![g] = 1]
    /\ free' = free \ {g}
    /\ data' = [data EXCEPT ![g] = x]
    /\ UNCHANGED p_pgtbl

MutantNoCopy(p, v, x) ==
  \E g \in free :
    /\ pgtbl' = [pgtbl EXCEPT ![p][v] = [pg |-> g, w |-> TRUE]]
    /\ p_pgtbl' = [p_pgtbl EXCEPT ![p][v] = [pg |-> g, w |-> TRUE]]
    /\ ref' = [ref EXCEPT ![pgtbl[p][v].pg] = @ - 1, ![g] = 1]
    /\ free' = free \ {g}
    /\ UNCHANGED data

(* Process p gets a page of its own at v, with contents x.                 *)
OwnPage(p, v, x) ==
  \E g \in free :
    /\ pgtbl' = [pgtbl EXCEPT ![p][v] = [pg |-> g, w |-> TRUE]]
    /\ p_pgtbl' = [p_pgtbl EXCEPT ![p][v] = [pg |-> g, w |-> TRUE]]
    /\ ref' = [ref EXCEPT ![pgtbl[p][v].pg] = @ - 1, ![g] = 1]
    /\ free' = free \ {g}
    /\ data' = [data EXCEPT ![g] = x]

(***************************************************************************)
(* page_fault_handler for a write to a shared page: its last user gets the *)
(* write flag back, another one a copy.  The program then tries again.     *)
(* (Every page of a process is writable in its p_pgtbl; a write elsewhere  *)
(* ends the process.)                                                      *)
(***************************************************************************)
PageFault(p, v) ==
  /\ Runs(p)
  /\ p_pgtbl[p][v].w /\ ~Walk(p, v).w
  /\ \/ /\ ref[pgtbl[p][v].pg] = 1
        /\ pgtbl' = [pgtbl EXCEPT ![p][v].w = TRUE]
        /\ tlb' = Reload(tlb)
        /\ UNCHANGED <<curproc, state, p_pgtbl, end_umem, ref, free, data, view, halted>>
     \/ /\ ref[pgtbl[p][v].pg] # 1
        /\ CanAlloc(1)
        /\ OwnPage(p, v, data[pgtbl[p][v].pg])
        /\ tlb' = Reload(tlb)
        /\ UNCHANGED <<curproc, state, end_umem, view, halted>>
     \/ /\ ref[pgtbl[p][v].pg] # 1
        /\ ~CanAlloc(1)
        /\ Halt

(***************************************************************************)
(* A system call of p writes x to user address v.  check_mem has looked at *)
(* p_pgtbl; CR0.WP is off, so the missing write flag stops nothing.        *)
(***************************************************************************)
DirectWrite(p, v, x) ==
  /\ DirectWrites
  /\ Runs(p)
  /\ p_pgtbl[p][v].w
  /\ data' = [data EXCEPT ![pgtbl[p][v].pg] = x]
  /\ view' = [view EXCEPT ![p][v] = x]
  /\ UNCHANGED <<curproc, state, pgtbl, p_pgtbl, end_umem, ref, free, tlb, halted>>

(***************************************************************************)
(* The kernel writes x to address v of process q through U2K(q, v, 1): the *)
(* wait status, or bytes of a pipe.  q is asleep, or is the process on the *)
(* processor, whose translations are not flushed.                          *)
(***************************************************************************)
U2KWrite(q, v, x) ==
  /\ ~halted /\ curproc # IDLE
  /\ state[q] = "LIVE" /\ p_pgtbl[q][v].w
  /\ \/ /\ pgtbl[q][v].w
        /\ data' = [data EXCEPT ![pgtbl[q][v].pg] = x]
        /\ view' = [view EXCEPT ![q][v] = x]
        /\ UNCHANGED <<curproc, state, pgtbl, p_pgtbl, end_umem, ref, free, tlb, halted>>
     \/ /\ ~pgtbl[q][v].w /\ CanAlloc(1)
        /\ OwnPage(q, v, x)
        /\ view' = [view EXCEPT ![q][v] = x]
        /\ UNCHANGED <<curproc, state, end_umem, tlb, halted>>
     \/ /\ ~pgtbl[q][v].w /\ ~CanAlloc(1)
        /\ Halt

-----------------------------------------------------------------------------
(* Mutant of ReadOnly: fork forgets to clear the write flag.              *)
MutantStaysWritable(t) == t

(* pgtbl_clearflags(t, PTE_W).                                             *)
ReadOnly(t) == [v \in Addrs |-> [t[v] EXCEPT !.w = FALSE]]

(* Mutant of Counted: copy_pgtbl without CPY_PGTBL_CNTREF.                 *)
MutantNotCounted(t, g) == 0

Counted(t, g) == Cardinality(At(t, g))

(* sys_fork, into the first closed slot.                                   *)
Fork(p) ==
  /\ Runs(p)
  /\ \E n \in Procs :
       /\ state[n] = "CLOSE"
       /\ \A m \in Procs : m < n => state[m] # "CLOSE"
       /\ state' = [state EXCEPT ![n] = "LIVE"]
       /\ pgtbl' = [pgtbl EXCEPT ![n] = ReadOnly(p_pgtbl[p]), ![p] = ReadOnly(@)]
       /\ p_pgtbl' = [p_pgtbl EXCEPT ![n] = p_pgtbl[p]]
       /\ ref' = [g \in Pages |-> ref[g] + Counted(p_pgtbl[p], g)]
       /\ end_umem' = [end_umem EXCEPT ![n] = end_umem[p]]
       /\ view' = [view EXCEPT ![n] = view[p]]
  /\ tlb' = Reload(tlb)
  /\ UNCHANGED <<curproc, free, data, halted>>

(* free_pgtbl(pgtbl[p], FREE_PGTBL_DECREF) panics on a count that is zero. *)
FreeFails(p) == \E g \in Pages : ref[g] < Cardinality(At(pgtbl[p], g))

(* Mutant of RefsWithout: both tables are freed with FREE_PGTBL_DECREF.    *)
MutantFreedTwice(p) == [g \in Pages |-> ref[g] - 2 * Cardinality(At(pgtbl[p], g))]

RefsWithout(p) == [g \in Pages |-> ref[g] - Cardinality(At(pgtbl[p], g))]

FreeWithout(p) == free \cup {g \in Pages : At(pgtbl[p], g) # {} /\ RefsWithout(p)[g] = 0}

(* clear_proc(z), after which `next` is on the processor.                  *)
ClearProc(z, next, cache) ==
  IF FreeFails(z) THEN Halt
  ELSE /\ state' = [state EXCEPT ![z] = "CLOSE"]
       /\ pgtbl' = [pgtbl EXCEPT ![z] = NoTable]
       /\ p_pgtbl' = [p_pgtbl EXCEPT ![z] = NoTable]
       /\ end_umem' = [end_umem EXCEPT ![z] = 0]
       /\ ref' = RefsWithout(z)
       /\ free' = FreeWithout(z)
       /\ view' = [view EXCEPT ![z] = Fresh]
       /\ curproc' = next /\ tlb' = cache
       /\ UNCHANGED <<data, halted>>

(* A process ends: cleared at once, or as a zombie that is reaped later.   *)
Exit(p) == Runs(p) /\ ClearProc(p, IDLE, NoTable)

ExitZombie(p) ==
  /\ Runs(p)
  /\ state' = [state EXCEPT ![p] = "ZOMBIE"]
  /\ curproc' = IDLE /\ tlb' = NoTable
  /\ UNCHANGED <<pgtbl, p_pgtbl, end_umem, ref, free, data, view, halted>>

Reap(z) ==
  /\ \E p \in Procs : Runs(p)
  /\ state[z] = "ZOMBIE"
  /\ ClearProc(z, curproc, tlb)

(* sched() and run_proc, which loads cr3.                                  *)
Switch(q) ==
  /\ ~halted
  /\ state[q] = "LIVE"
  /\ curproc' = q /\ tlb' = NoTable
  /\ UNCHANGED <<state, pgtbl, p_pgtbl, end_umem, ref, free, data, view, halted>>

-----------------------------------------------------------------------------
(* New pages f[v] for the addresses v in A of process p.                   *)
MapNew(A, f, t) == [v \in Addrs |-> IF v \in A THEN [pg |-> f[v], w |-> TRUE] ELSE t[v]]

Injective(A, G) == {f \in [A -> G] : \A u, v \in A : f[u] = f[v] => u = v}

(***************************************************************************)
(* sys_sbrk for k pages.  The wanted number is compared after nfreepages   *)
(* was subtracted from it.                                                 *)
(***************************************************************************)
SbrkRefuses(p, k) ==
  \/ end_umem[p] + k >= UMAX
  \/ k - Cardinality(free) >= Cardinality(free) - LOWWATER

Sbrk(p, k) ==
  LET A == end_umem[p] .. end_umem[p] + k - 1
  IN  /\ Runs(p)
      /\ ~SbrkRefuses(p, k)
      /\ CanAlloc(k)
      /\ \E f \in Injective(A, free) :
           /\ pgtbl' = [pgtbl EXCEPT ![p] = MapNew(A, f, @)]
           /\ p_pgtbl' = [p_pgtbl EXCEPT ![p] = MapNew(A, f, @)]
           /\ ref' = [g \in Pages |-> IF \E v \in A : f[v] = g THEN 1 ELSE ref[g]]
           /\ free' = {g \in free : ~\E v \in A : f[v] = g}
           /\ data' = [g \in Pages |-> IF \E v \in A : f[v] = g THEN 0 ELSE data[g]]
      /\ end_umem' = [end_umem EXCEPT ![p] = @ + k]
      /\ view' = [view EXCEPT ![p] = [v \in Addrs |-> IF v \in A THEN 0 ELSE @[v]]]
      /\ UNCHANGED <<curproc, state, tlb, halted>>

SbrkHalts(p, k) ==
  /\ Runs(p)
  /\ ~SbrkRefuses(p, k)
  /\ ~CanAlloc(k)
  /\ Halt

(***************************************************************************)
(* sys_exec: the image is read into pages of its own, T; a bad image       *)
(* changes nothing; otherwise the old memory is released, the new one is   *)
(* mapped at the NIMG lowest addresses and filled with x, and T goes back. *)
(* end_umem never shrinks (load_img).                                      *)
(***************************************************************************)
Image == 0 .. NIMG - 1

LoadImage(p, x) ==
  /\ \E T \in SUBSET free :
       /\ Cardinality(T) = NIMG
       /\ \E f \in Injective(Image, FreeWithout(p) \ T) :
            /\ pgtbl' = [pgtbl EXCEPT ![p] = MapNew(Image, f, NoTable)]
            /\ p_pgtbl' = [p_pgtbl EXCEPT ![p] = MapNew(Image, f, NoTable)]
            /\ ref' = [g \in Pages |-> IF \E v \in Image : f[v] = g THEN 1 ELSE RefsWithout(p)[g]]
            /\ free' = {g \in FreeWithout(p) : ~\E v \in Image : f[v] = g}
            /\ data' = [g \in Pages |-> IF \E v \in Image : f[v] = g THEN x ELSE data[g]]
  /\ end_umem' = [end_umem EXCEPT ![p] = IF @ >= NIMG THEN @ ELSE NIMG]
  /\ view' = [view EXCEPT ![p] = [v \in Addrs |-> IF v \in Image THEN x ELSE 0]]
  /\ curproc' = IDLE /\ tlb' = NoTable
  /\ UNCHANGED <<state, halted>>

(* No page may be left for the copy of the image, or for the new memory.   *)
Exec(p, x) ==
  /\ Runs(p)
  /\ IF FreeFails(p) \/ ~CanAlloc(NIMG) \/ Cardinality(FreeWithout(p)) - NIMG <= NIMG
     THEN Halt
     ELSE LoadImage(p, x)

-----------------------------------------------------------------------------
(* create_proc has loaded one program, into pages taken from the list.     *)
Init ==
  /\ \E f \in Injective(Image, Pages) :
       /\ pgtbl = [p \in Procs |-> IF p = 0 THEN MapNew(Image, f, NoTable) ELSE NoTable]
       /\ ref = [g \in Pages |-> IF \E v \in Image : f[v] = g THEN 1 ELSE 0]
       /\ free = {g \in Pages : ~\E v \in Image : f[v] = g}
  /\ p_pgtbl = pgtbl
  /\ state = [p \in Procs |-> IF p = 0 THEN "LIVE" ELSE "CLOSE"]
  /\ end_umem = [p \in Procs |-> IF p = 0 THEN NIMG ELSE 0]
  /\ data = [g \in Pages |-> 0]
  /\ view = [p \in Procs |-> Fresh]
  /\ curproc = IDLE /\ tlb = NoTable
  /\ halted = FALSE

Next ==
  \E p \in Procs :
    \/ Switch(p) \/ Fork(p) \/ Exit(p) \/ ExitZombie(p) \/ Reap(p)
    \/ \E k \in 1 .. UMAX : Sbrk(p, k) \/ SbrkHalts(p, k)
    \/ \E x \in Vals : Exec(p, x)
    \/ \E v \in Addrs :
         \/ TlbFill(p, v) \/ PageFault(p, v)
         \/ \E x \in Vals : Store(p, v, x) \/ DirectWrite(p, v, x) \/ U2KWrite(p, v, x)

Spec == Init /\ [][Next]_vars
-----------------------------------------------------------------------------
(* Every variable stays in its type; no count goes below zero.             *)
TypeOK ==
  /\ curproc \in Procs \cup {IDLE}
  /\ state \in [Procs -> {"LIVE", "ZOMBIE", "CLOSE"}]
  /\ pgtbl \in [Procs -> [Addrs -> PTE]]
  /\ p_pgtbl \in [Procs -> [Addrs -> PTE]]
  /\ end_umem \in [Procs -> Nat]
  /\ ref \in [Pages -> Nat]
  /\ free \subseteq Pages
  /\ data \in [Pages -> Vals]
  /\ tlb \in [Addrs -> PTE]
  /\ view \in [Procs -> [Addrs -> Vals]]
  /\ halted \in BOOLEAN

(***************************************************************************)
(* The reference count of every page is the number of its mappings in all  *)
(* processes, and a page on the free list has none (copy_pgtbl,            *)
(* free_pgtbl, page_fault_handler, U2K, exec, sbrk).                       *)
(***************************************************************************)
RefExact ==
  \A g \in Pages :
    /\ ref[g] = Cardinality(Mappers(g))
    /\ g \in free => ref[g] = 0

(* free_page never panics: whenever a process ends, every page it maps is  *)
(* counted at least as often as it maps it.                                *)
NoPanic == \A p \in Procs : ~FreeFails(p)

(***************************************************************************)
(* A page that a process can write is mapped nowhere else: fork has taken  *)
(* the write flag from both sides, and only a fault, or U2K, gives it      *)
(* back.                                                                   *)
(***************************************************************************)
WritableIsPrivate ==
  \A p, q \in Procs, u, v \in Addrs :
    pgtbl[p][u].w /\ pgtbl[q][v].pg = pgtbl[p][u].pg => p = q /\ u = v

(***************************************************************************)
(* The asserts of U2K: both tables of a process map the same pages, and    *)
(* differ at most in a write flag that only p_pgtbl has.                   *)
(***************************************************************************)
TablesAgree ==
  \A p \in Procs, v \in Addrs :
    /\ pgtbl[p][v].pg = p_pgtbl[p][v].pg
    /\ pgtbl[p][v].w => p_pgtbl[p][v].w

(***************************************************************************)
(* A cached translation that allows writing is the one in the page table:  *)
(* fork, faults and switches reload cr3 before the program runs on.        *)
(***************************************************************************)
CachedWritesSafe == \A v \in Addrs : tlb[v].w => curproc # IDLE /\ tlb[v] = pgtbl[curproc][v]

(***************************************************************************)
(* User processes are isolated: each finds in its memory what it, or the   *)
(* kernel for it, wrote last, whatever the others do.                      *)
(***************************************************************************)
Isolated ==
  \A p \in Procs, v \in Addrs :
    pgtbl[p][v].pg # NoPage => data[pgtbl[p][v].pg] = view[p][v]
=============================================================================
