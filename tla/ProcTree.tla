------------------------------ MODULE ProcTree ------------------------------
(***************************************************************************)
(* The process table of the kernel: allocation of slots, the family tree   *)
(* kept in sibling lists, fork, exit, wait, the two ways of being killed,  *)
(* and the round-robin scheduler (kernel/proc.c, kernel/sched.c, and the   *)
(* process system calls of kernel/syscall.c and kernel/intr.c).            *)
(*                                                                         *)
(* There is one processor and every trap handler runs with interrupts      *)
(* disabled until it returns to user mode or calls sched(), so a handler   *)
(* is one step.  `procs` is the array of struct proc; a pointer to a       *)
(* struct proc is a slot number or NULL.                                   *)
(***************************************************************************)
EXTENDS Integers

CONSTANTS
  NPROCS,       \* slots of the process table (1024 in proc.h)
  MaxPid,       \* bound: fork is not explored once this pid was given out
  ExitVals,     \* the values programs pass to exit
  EarlyExit,    \* may a child end while its parent lives and is not in wait?
  BadSyscall    \* do programs issue system call numbers that do not exist?

ASSUME ConstantsAssumption ==
  /\ NPROCS \in Nat /\ NPROCS >= 2
  /\ MaxPid \in Nat
  /\ ExitVals \subseteq Int
  /\ EarlyExit \in BOOLEAN
  /\ BadSyscall \in BOOLEAN

VARIABLES
  procs,        \* the process table
  curproc,      \* the slot whose program is on the processor
  g_pid,        \* last process id given out
  halted,       \* the machine hangs, has panicked or has reset
  reaped        \* history: who was last told of the end of which process

vars == <<procs, curproc, g_pid, halted, reaped>>

Slots == 0 .. NPROCS - 1
NULL == -1
Ptr == Slots \cup {NULL}
Idle == 0
Shell == 1
States == {"CLOSE", "PENDING", "READY", "RUNNING", "ZOMBIE"}
KILLED == -255

(***************************************************************************)
(* struct proc.  `pgtbl` says whether the slot has page tables; `forker`   *)
(* is a history field, the pid of the process whose fork made this one.    *)
(***************************************************************************)
Proc ==
  [ state   : States,      pgtbl  : BOOLEAN, pid    : Nat,
    parent  : Ptr,         living : Ptr,     zombie : Ptr,
    prev    : Ptr,         next   : Ptr,     waiting : BOOLEAN,
    exit_val : Int,        forker : Nat ]

(* What memset(proc, 0, sizeof(struct proc)) leaves behind.                *)
Cleared ==
  [ state   |-> "CLOSE",   pgtbl  |-> FALSE, pid    |-> 0,
    parent  |-> NULL,      living |-> NULL,  zombie |-> NULL,
    prev    |-> NULL,      next   |-> NULL,  waiting |-> FALSE,
    exit_val |-> 0,        forker |-> 0 ]

(* create_proc, which main() calls for idle and then for the shell.        *)
Created(pid) ==
  [Cleared EXCEPT !.state = "READY", !.pgtbl = TRUE, !.pid = pid]

(***************************************************************************)
(* Walking a sibling list: the slots a loop that starts at `head` and      *)
(* follows next_sibling visits, and whether that loop never ends.          *)
(***************************************************************************)
Chain(ps, head) ==
  { q \in Slots :
      \A S \in SUBSET Slots :
        (/\ head \in Slots => head \in S
         /\ \A s \in S : ps[s].next \in Slots => ps[s].next \in S)
        => q \in S }

Endless(ps, head) ==
  \E q \in Chain(ps, head) : q \in Chain(ps, ps[q].next)

(* The table ps after slot p was overwritten by r.                         *)
Put(ps, p, r) == [q \in Slots |-> IF q = p THEN r ELSE ps[q]]

(***************************************************************************)
(* clear_proc of the slots of S.  It panics, in free_pgtbl, on a slot that *)
(* has no page table any more.                                             *)
(***************************************************************************)
ClearProc(ps, S) == [q \in Slots |-> IF q \in S THEN Cleared ELSE ps[q]]

(* Mutant of Orphan: the parent ends without telling its children.         *)
MutantOrphanKeepsParent(ps, p) == ps

(* First loop of exit_as_parent: the living children lose their parent.    *)
Orphan(ps, p) ==
  LET orphans == Chain(ps, ps[p].living)
  IN  [q \in Slots |-> IF q \in orphans THEN [ps[q] EXCEPT !.parent = NULL] ELSE ps[q]]

(* exit_as_parent, with its second loop: the zombie children are cleared.  *)
ExitAsParent(ps, p) ==
  LET o == Orphan(ps, p) IN ClearProc(o, Chain(o, o[p].zombie))

ExitAsParentFails(ps, p) ==
  \/ Endless(ps, ps[p].living)
  \/ Endless(ps, ps[p].zombie)
  \/ \E z \in Chain(ps, ps[p].zombie) : ~ps[z].pgtbl

(* exit_as_child when the parent is not in wait: join its zombie list.     *)
BecomeZombie(ps, p, val) ==
  LET par   == ps[p].parent
      ohead == ps[par].zombie
      a == IF ohead = NULL
           THEN Put(ps, p, [ps[p] EXCEPT !.prev = NULL, !.next = NULL])
           ELSE LET o == Put(ps, ohead, [ps[ohead] EXCEPT !.prev = p])
                IN  Put(o, p, [o[p] EXCEPT !.next = ohead])
      b == Put(a, par, [a[par] EXCEPT !.zombie = p])
  IN  Put(b, p, [b[p] EXCEPT !.exit_val = val, !.state = "ZOMBIE"])

(* Mutants of WakeParent: the head of the living list is not handed over;  *)
(* the parent is made READY but stays marked as waiting.                   *)
MutantWakeKeepsHead(ps, p) ==
  LET par == ps[p].parent
      pr  == ps[p].prev
      nx  == ps[p].next
      a   == Put(ps, par, [ps[par] EXCEPT !.waiting = FALSE, !.state = "READY"])
      b   == IF pr = NULL THEN a ELSE Put(a, pr, [a[pr] EXCEPT !.next = nx])
  IN  IF nx = NULL THEN b ELSE Put(b, nx, [b[nx] EXCEPT !.prev = pr])

MutantWakeKeepsWaiting(ps, p) ==
  LET par == ps[p].parent
      w   == MutantWakeKeepsHead(ps, p)
  IN  Put(w, par, [w[par] EXCEPT !.waiting = TRUE,
                                 !.living = IF @ = p THEN ps[p].next ELSE @])

(* exit_as_child when the parent is in wait: wake it, leave the lists.     *)
WakeParent(ps, p) ==
  LET par == ps[p].parent
      pr  == ps[p].prev
      nx  == ps[p].next
      a   == Put(ps, par, [ps[par] EXCEPT !.waiting = FALSE, !.state = "READY"])
      b   == IF pr = NULL THEN a ELSE Put(a, pr, [a[pr] EXCEPT !.next = nx])
      c   == IF nx = NULL THEN b ELSE Put(b, nx, [b[nx] EXCEPT !.prev = pr])
  IN  Put(c, par, [c[par] EXCEPT !.living = IF @ = p THEN nx ELSE @,
                                 !.zombie = IF @ = p THEN nx ELSE @])

ExitAsChild(ps, p, val) ==
  LET par == ps[p].parent
  IN  IF par = NULL THEN ClearProc(ps, {p})
      ELSE IF ~ps[par].waiting THEN BecomeZombie(ps, p, val)
      ELSE ClearProc(WakeParent(ps, p), {p})

ExitAsChildFails(ps, p) ==
  /\ ps[p].parent # NULL => ps[ps[p].parent].waiting
  /\ ~ps[p].pgtbl

(* kill_proc(p, val), and whether it hangs or panics on the way.           *)
KillProc(ps, p, val) == ExitAsChild(ExitAsParent(ps, p), p, val)

KillProcFails(ps, p) ==
  \/ ExitAsParentFails(ps, p)
  \/ ExitAsChildFails(ExitAsParent(ps, p), p)

(* What kill_proc(p, val) tells a waiting parent.                          *)
KillProcReports(ps, p, val) ==
  LET o   == ExitAsParent(ps, p)
      par == o[p].parent
  IN  IF par # NULL /\ o[par].waiting
      THEN [waiter |-> o[par].pid, child |-> o[p].pid, forker |-> o[p].forker,
            ended |-> TRUE, val |-> val]
      ELSE reaped

-----------------------------------------------------------------------------
(***************************************************************************)
(* sched(): the first READY slot after the current one, the current one    *)
(* being tried last.  run_proc loads its page table: without one the       *)
(* processor faults on the next fetch.  sched() spins, with interrupts     *)
(* disabled, for as long as no slot is READY.                              *)
(***************************************************************************)
MutantDistanceFromZero(from, q) == q    \* the scan starts at slot 0 each time

Distance(from, q) == IF q > from THEN q - from ELSE q - from + NPROCS

Sched(ps) ==
  \E q \in Slots :
    /\ ps[q].state = "READY"
    /\ \A r \in Slots :
         ps[r].state = "READY" => Distance(curproc, q) <= Distance(curproc, r)
    /\ procs' = Put(ps, q, [ps[q] EXCEPT !.state = "RUNNING"])
    /\ curproc' = q
    /\ halted' = ~ps[q].pgtbl

Halt ==
  /\ halted' = TRUE
  /\ UNCHANGED <<procs, curproc, g_pid, reaped>>

MutantInProgram == ~halted              \* idle may end like any program

(* The idle program only loops: it makes no system call and never faults.  *)
InProgram == ~halted /\ curproc # Idle

(* Whether the running program may end now (see EarlyExit).                *)
MayEnd ==
  LET par == procs[curproc].parent
  IN  par # NULL /\ ~EarlyExit => procs[par].waiting

-----------------------------------------------------------------------------
(* Trap 33, the timer.                                                     *)
Timer ==
  /\ ~halted
  /\ Sched(Put(procs, curproc, [procs[curproc] EXCEPT !.state = "READY"]))
  /\ UNCHANGED <<g_pid, reaped>>

(* alloc_proc: the first closed slot, which keeps its stale pointers.      *)
AllocProc(n) ==
  /\ procs[n].state = "CLOSE"
  /\ \A m \in Slots : m < n => procs[m].state # "CLOSE"

(* Mutant of AddChild: the parent is recorded by its pid, not its slot.    *)
MutantParentPid(ps, p, n, pid) ==
  Put(Put(ps, p, [ps[p] EXCEPT !.living = n]), n,
      [ps[n] EXCEPT !.pgtbl = TRUE, !.pid = pid, !.prev = NULL, !.next = ps[p].living,
                    !.parent = ps[p].pid, !.state = "READY", !.forker = ps[p].pid])

(* sys_fork of slot n by p: n becomes the head of the living list of p.    *)
AddChild(ps, p, n, pid) ==
  LET ohead == ps[p].living
      a == Put(ps, n, [ps[n] EXCEPT !.pgtbl = TRUE, !.pid = pid])
      b == IF ohead = NULL
           THEN Put(a, n, [a[n] EXCEPT !.prev = NULL, !.next = NULL])
           ELSE LET o == Put(a, ohead, [a[ohead] EXCEPT !.prev = n])
                IN  Put(o, n, [o[n] EXCEPT !.next = ohead])
      c == Put(b, p, [b[p] EXCEPT !.living = n])
  IN  Put(c, n, [c[n] EXCEPT !.parent = p, !.state = "READY", !.forker = ps[p].pid])

(* sys_fork.  The new slot may be the caller's own, if that was cleared.   *)
Fork ==
  /\ InProgram
  /\ g_pid < MaxPid
  /\ \E n \in Slots :
       /\ AllocProc(n)
       /\ procs' = AddChild(procs, curproc, n, g_pid + 1)
  /\ g_pid' = g_pid + 1
  /\ UNCHANGED <<curproc, halted, reaped>>

(* sys_fork with no closed slot: it writes through the NULL of alloc_proc. *)
ForkTableFull ==
  /\ InProgram
  /\ \A n \in Slots : procs[n].state # "CLOSE"
  /\ Halt

(* kill_proc followed by sched().                                          *)
KillAndSched(val) ==
  /\ MayEnd
  /\ ~KillProcFails(procs, curproc)
  /\ Sched(KillProc(procs, curproc, val))
  /\ reaped' = KillProcReports(procs, curproc, val)
  /\ UNCHANGED g_pid

(* sys_exit.                                                               *)
Exit(val) == InProgram /\ KillAndSched(val)

(* Trap 0 and the page faults that are not copy-on-write.                  *)
Fault == InProgram /\ KillAndSched(KILLED)

(* kill_proc loops for ever or panics.                                     *)
ExitHangs ==
  /\ InProgram
  /\ MayEnd
  /\ KillProcFails(procs, curproc)
  /\ Halt

(* The default case of syscall(): kill_proc, and then back to the program. *)
UnknownSyscall ==
  /\ InProgram
  /\ BadSyscall
  /\ MayEnd
  /\ ~KillProcFails(procs, curproc)
  /\ procs' = KillProc(procs, curproc, KILLED)
  /\ reaped' = KillProcReports(procs, curproc, KILLED)
  /\ UNCHANGED <<curproc, g_pid, halted>>

(* sys_wait with a zombie child: report it and clear it.                   *)
WaitReap ==
  LET ohead == procs[curproc].zombie
      nhead == procs[ohead].next
      a     == Put(procs, curproc, [procs[curproc] EXCEPT !.zombie = nhead])
      b     == IF nhead = NULL THEN a ELSE Put(a, nhead, [a[nhead] EXCEPT !.prev = NULL])
  IN  /\ InProgram
      /\ ohead # NULL
      /\ procs[ohead].pgtbl
      /\ procs' = ClearProc(b, {ohead})
      /\ reaped' = [waiter |-> procs[curproc].pid, child |-> procs[ohead].pid,
                    forker |-> procs[ohead].forker,
                    ended |-> procs[ohead].state = "ZOMBIE",
                    val |-> procs[ohead].exit_val]
      /\ UNCHANGED <<curproc, g_pid, halted>>

(* sys_wait whose zombie list leads to a slot that is already cleared:      *)
(* clear_proc panics.                                                      *)
WaitPanics ==
  LET ohead == procs[curproc].zombie
  IN  /\ InProgram
      /\ ohead # NULL
      /\ ~procs[ohead].pgtbl
      /\ Halt

(* sys_wait without any child returns -ECHILD.                             *)
WaitNoChild ==
  /\ InProgram
  /\ procs[curproc].zombie = NULL
  /\ procs[curproc].living = NULL
  /\ UNCHANGED vars

(* Mutant of WaitSleep: the zombie list is not looked at first.            *)
MutantSleepUnchecked ==
  /\ InProgram
  /\ procs[curproc].living # NULL
  /\ Sched(Put(procs, curproc, [procs[curproc] EXCEPT !.waiting = TRUE, !.state = "PENDING"]))
  /\ UNCHANGED <<g_pid, reaped>>

(* sys_wait with only living children: sleep.                              *)
WaitSleep ==
  /\ InProgram
  /\ procs[curproc].zombie = NULL
  /\ procs[curproc].living # NULL
  /\ Sched(Put(procs, curproc, [procs[curproc] EXCEPT !.waiting = TRUE, !.state = "PENDING"]))
  /\ UNCHANGED <<g_pid, reaped>>

-----------------------------------------------------------------------------
(* main(): idle and the shell are created, and sched() finds the shell     *)
(* first because it starts after slot 0.                                   *)
Init ==
  /\ procs = [q \in Slots |->
                IF q = Idle THEN Created(1)
                ELSE IF q = Shell THEN [Created(2) EXCEPT !.state = "RUNNING"]
                ELSE Cleared]
  /\ curproc = Shell
  /\ g_pid = 2
  /\ halted = FALSE
  /\ reaped = [waiter |-> 0, child |-> 0, forker |-> 0, ended |-> TRUE, val |-> 0]

Next ==
  \/ Timer
  \/ Fork
  \/ ForkTableFull
  \/ \E v \in ExitVals : Exit(v)
  \/ Fault
  \/ ExitHangs
  \/ UnknownSyscall
  \/ WaitReap
  \/ WaitPanics
  \/ WaitNoChild
  \/ WaitSleep

Spec == Init /\ [][Next]_vars

(* The timer interrupt keeps coming.                                       *)
FairSpec == Spec /\ WF_vars(Timer)
-----------------------------------------------------------------------------
(* Every variable, and every field of struct proc, stays in its type.      *)
TypeOK ==
  /\ procs \in [Slots -> Proc]
  /\ curproc \in Slots
  /\ g_pid \in Nat
  /\ halted \in BOOLEAN
  /\ reaped \in [waiter : Nat, child : Nat, forker : Nat, ended : BOOLEAN, val : Int]

(***************************************************************************)
(* No end of a child is missed (sys_wait against exit_as_child): a process *)
(* that sleeps in wait has no zombie child and is not runnable, so it is   *)
(* in wait that the next child to end finds it; and nobody else sleeps.    *)
(* It holds whatever the stale pointers of the tree do.                    *)
(***************************************************************************)
NoLostWakeup ==
  \A p \in Slots :
    /\ procs[p].waiting => procs[p].zombie = NULL /\ procs[p].state = "PENDING"
    /\ procs[p].state = "PENDING" => procs[p].waiting

(***************************************************************************)
(* sched() always has a process to run: while the machine is up, idle is   *)
(* on the processor or READY, and still has its page table.  Otherwise     *)
(* sched() would spin with interrupts disabled.                            *)
(***************************************************************************)
IdleSchedulable ==
  procs[Idle].state \in {"READY", "RUNNING"} /\ procs[Idle].pgtbl

(***************************************************************************)
(* The children of a process, as the tree should know them.                *)
(***************************************************************************)
LivingChildren(p) ==
  {c \in Slots : procs[c].parent = p /\ procs[c].state \notin {"CLOSE", "ZOMBIE"}}

(***************************************************************************)
(* The living list of a process, as sys_fork and exit_as_child maintain    *)
(* it, is finite, holds exactly its living children, and prev_sibling is   *)
(* the inverse of next_sibling along it.                                   *)
(***************************************************************************)
LivingListExact ==
  \A p \in Slots :
    /\ ~Endless(procs, procs[p].living)
    /\ Chain(procs, procs[p].living) = LivingChildren(p)
    /\ \A c \in LivingChildren(p) :
         /\ procs[c].next # NULL => procs[procs[c].next].prev = c
         /\ procs[c].prev = NULL <=> procs[p].living = c

(***************************************************************************)
(* sys_wait only sleeps when it can be woken: a process asleep in wait has *)
(* a living child, whose end will wake it.                                 *)
(***************************************************************************)
WaiterHasLivingChild ==
  \A p \in Slots : procs[p].waiting => LivingChildren(p) # {}

(***************************************************************************)
(* What wait reports is true: the pid it returns is that of a process      *)
(* which the caller itself forked and which has ended.                     *)
(***************************************************************************)
WaitReportsOwnChild == reaped.waiter = reaped.forker /\ reaped.ended

(***************************************************************************)
(* Round robin starves nobody: a READY process does not stay READY for     *)
(* ever unless the machine halts.                                          *)
(***************************************************************************)
NoStarvation ==
  \A p \in Slots : procs[p].state = "READY" ~> (procs[p].state # "READY" \/ halted)
=============================================================================
