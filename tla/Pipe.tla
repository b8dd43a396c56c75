-------------------------------- MODULE Pipe --------------------------------
(***************************************************************************)
(* Pipes: the ring buffer of kernel/fs/pipe.c with its one pending reader  *)
(* and one pending writer, and everything that reaches it through file     *)
(* descriptors: the pipe branches of read and write, pipe, close, fork,    *)
(* and clear_proc at the end of a process.                                 *)
(*                                                                         *)
(* A system call is one step (see ProcTree).  Which process runs next is   *)
(* left open, so "READY" stands for READY and RUNNING.  The bytes written  *)
(* to a pipe are numbered 1, 2, 3... in the order of the write calls.      *)
(***************************************************************************)
EXTENDS Integers, FiniteSets

CONSTANTS
  NPROCS,       \* slots of the process table
  PIPES,        \* the pages pipes are allocated in
  NFD,          \* file descriptors of a process (64 in proc.h)
  BUFLEN,       \* PIPE_BUFLEN, 4096 - sizeof(struct pipe)
  MaxXfer,      \* bound: the most bytes one read or write asks for
  MaxBytes,     \* bound: bytes handed to the write calls of one pipe
  Closing       \* do programs call close? see CLOSING below

ASSUME PipeAssumption ==
  /\ NPROCS \in Nat \ {0}
  /\ NFD \in Nat
  /\ BUFLEN \in Nat /\ BUFLEN >= 2
  /\ MaxXfer \in Nat
  /\ MaxBytes \in Nat
  /\ Closing \in {"never", "careful", "any"}

VARIABLES
  state,        \* state of each process
  fdesc,        \* file descriptors of each process
  pipes,        \* the struct pipe in each page
  corrupt       \* a freed page or a cleared process was used, or a count
                \* went below zero: what follows is not explored

vars == <<state, fdesc, pipes, corrupt>>

Procs == 0 .. NPROCS - 1
Fds == 0 .. NFD - 1
Ring == 0 .. BUFLEN - 1
NULL == -1
Sizes == 1 .. MaxXfer

(***************************************************************************)
(* struct file_desc.  `open` is a history field: the program has not yet   *)
(* closed the descriptor.                                                  *)
(***************************************************************************)
FileDesc ==
  [ inuse : BOOLEAN, file_type : {"TTY", "RPIPE", "WPIPE"},
    pipe : PIPES \cup {NULL}, open : BOOLEAN ]

(***************************************************************************)
(* struct pipe.  History fields: `nb` counts the bytes of all write calls  *)
(* so far, `got` those that were read; `intact` says that every read got   *)
(* the bytes following the last one read; `ended` that a read returned 0.  *)
(***************************************************************************)
PipeRec ==
  [ live : BOOLEAN, rref : Nat, wref : Nat,
    head : Ring, len : Nat, buf : [Ring -> Nat],
    rsiz : Nat, wptr : Nat, wsiz : Nat,
    reader : Procs \cup {NULL}, writer : Procs \cup {NULL},
    nb : Nat, got : Nat, intact : BOOLEAN, ended : BOOLEAN ]

(* A page of alloc_page(FLAG_ZERO).  Nobody may look into a freed page, so *)
(* it counts as zeroed from when it is freed.                              *)
ZeroPipe ==
  [ live |-> FALSE, rref |-> 0, wref |-> 0,
    head |-> 0, len |-> 0, buf |-> [i \in Ring |-> 0],
    rsiz |-> 0, wptr |-> 0, wsiz |-> 0,
    reader |-> NULL, writer |-> NULL,
    nb |-> 0, got |-> 0, intact |-> TRUE, ended |-> FALSE ]

Least(a, b) == IF a <= b THEN a ELSE b

-----------------------------------------------------------------------------
(***************************************************************************)
(* pipe_read and pipe_write.  Each call of one makes at most one call of   *)
(* the other, which cannot call back because the caller has cleared its    *)
(* own field: CopyOut and CopyIn are the two without those calls.          *)
(***************************************************************************)
ReadSize(pp) == Least(pp.len, pp.rsiz)

(* Mutant of CopyOut: head is not wrapped.                                 *)
MutantHeadNotWrapped(pp) ==
  LET n == ReadSize(pp)
  IN  [pp EXCEPT !.len = @ - n, !.head = @ + n, !.rsiz = 0, !.reader = NULL, !.got = @ + n]

CopyOut(pp) ==
  LET n == ReadSize(pp)
  IN  [pp EXCEPT !.len = @ - n,
                 !.head = IF @ + n >= BUFLEN THEN @ + n - BUFLEN ELSE @ + n,
                 !.rsiz = 0, !.reader = NULL,
                 !.got = @ + n,
                 !.intact = @ /\ \A i \in 0 .. n - 1 :
                                   pp.buf[(pp.head + i) % BUFLEN] = pp.got + i + 1]

MutantNoFreeSlot(pp) == Least(BUFLEN - pp.len, pp.wsiz - pp.wptr)

WriteSize(pp) == Least(BUFLEN - pp.len - 1, pp.wsiz - pp.wptr)

(* The position in the ring, seen from the tail, of slot j.                *)
FromTail(pp, j) ==
  LET tail == (pp.head + pp.len) % BUFLEN
  IN  IF j >= tail THEN j - tail ELSE j - tail + BUFLEN

(* Mutants of CopyIn: it starts over at the beginning of the user's        *)
(* buffer; it takes every copy for the last one of its write.              *)
MutantStartsOver(pp) ==
  LET n    == WriteSize(pp)
      done == pp.wptr + n = pp.wsiz
  IN  [pp EXCEPT !.buf = [j \in Ring |-> IF FromTail(pp, j) < n
                                         THEN pp.nb - pp.wsiz + 1 + FromTail(pp, j)
                                         ELSE pp.buf[j]],
                 !.len = @ + n,
                 !.wptr = IF done THEN 0 ELSE @ + n,
                 !.wsiz = IF done THEN 0 ELSE @,
                 !.writer = IF done THEN NULL ELSE @]

MutantAlwaysDone(pp) ==
  [pp EXCEPT !.len = @ + WriteSize(pp), !.wptr = 0, !.wsiz = 0, !.writer = NULL]

CopyIn(pp) ==
  LET n    == WriteSize(pp)
      next == pp.nb - pp.wsiz + pp.wptr + 1
      done == pp.wptr + n = pp.wsiz
  IN  [pp EXCEPT !.buf = [j \in Ring |-> IF FromTail(pp, j) < n THEN next + FromTail(pp, j)
                                         ELSE pp.buf[j]],
                 !.len = @ + n,
                 !.wptr = IF done THEN 0 ELSE @ + n,
                 !.wsiz = IF done THEN 0 ELSE @,
                 !.writer = IF done THEN NULL ELSE @]

pipe_read(pp) ==
  LET r == CopyOut(pp)
  IN  IF ReadSize(pp) = 0 THEN pp
      ELSE IF r.writer # NULL /\ WriteSize(r) > 0 THEN CopyIn(r) ELSE r

pipe_write(pp) ==
  LET w == CopyIn(pp)
  IN  IF WriteSize(pp) = 0 THEN pp
      ELSE IF w.reader # NULL THEN pipe_read(w) ELSE w

-----------------------------------------------------------------------------
(* The descriptors of process p that are ends of pipe page g.              *)
Ends(p, g, type) ==
  {fd \in Fds : fdesc[p][fd].inuse /\ fdesc[p][fd].file_type = type /\ fdesc[p][fd].pipe = g}

May(p) == ~corrupt /\ state[p] = "READY"

(***************************************************************************)
(* CLOSING.  Because sys_close leaves the closed descriptor in use, close  *)
(* is explored in three ways: "any" program; a "careful" one, which uses   *)
(* only descriptors it has not closed, and neither forks nor ends once it  *)
(* has closed one; and programs that "never" close.                        *)
(***************************************************************************)
MayUse(p, fd) == fdesc[p][fd].inuse /\ (Closing = "careful" => fdesc[p][fd].open)

MayHandOn(p) ==
  Closing = "careful" => \A fd \in Fds : fdesc[p][fd].inuse => fdesc[p][fd].open

Corrupt == corrupt' = TRUE /\ UNCHANGED <<state, fdesc, pipes>>

(* sys_pipe: the two lowest free descriptors become the two ends.          *)
SysPipe(p) ==
  /\ May(p)
  /\ \E g \in PIPES, r, w \in Fds :
       /\ ~pipes[g].live
       /\ r < w
       /\ \A fd \in Fds : fd < w /\ fd # r => fdesc[p][fd].inuse
       /\ ~fdesc[p][r].inuse /\ ~fdesc[p][w].inuse
       /\ pipes' = [pipes EXCEPT ![g] = [ZeroPipe EXCEPT !.live = TRUE, !.rref = 1, !.wref = 1]]
       /\ fdesc' = [fdesc EXCEPT
            ![p][r] = [inuse |-> TRUE, file_type |-> "RPIPE", pipe |-> g, open |-> TRUE],
            ![p][w] = [inuse |-> TRUE, file_type |-> "WPIPE", pipe |-> g, open |-> TRUE]]
  /\ UNCHANGED <<state, corrupt>>

(* sys_pipe with fewer than two free descriptors: its scan goes on behind  *)
(* the table, in the following entries of procs.                           *)
SysPipeOverruns(p) ==
  /\ May(p)
  /\ ~\E f, h \in Fds : f # h /\ ~fdesc[p][f].inuse /\ ~fdesc[p][h].inuse
  /\ Corrupt

(* The registered reader has ended and its slot was cleared: it has no     *)
(* page table to copy into or to run on.                                   *)
DeadReader(pp) == pp.reader # NULL /\ state[pp.reader] = "CLOSE"

(* read and write of a descriptor whose pipe page was freed, and a write   *)
(* to a reader that is no more.                                            *)
SysUsesDead(p, fd) ==
  LET d == fdesc[p][fd]
  IN  /\ May(p)
      /\ MayUse(p, fd) /\ d.file_type \in {"RPIPE", "WPIPE"}
      /\ ~pipes[d.pipe].live \/ (d.file_type = "WPIPE" /\ DeadReader(pipes[d.pipe]))
      /\ Corrupt

(* The pipe branch of sys_read, for n bytes.  A second reader is refused   *)
(* with -EBUSY, which changes nothing.                                     *)
SysRead(p, fd, n) ==
  LET g  == fdesc[p][fd].pipe
      pp == [pipes[g] EXCEPT !.reader = p, !.rsiz = n]
      rr == pipe_read(pp)
  IN  /\ May(p)
      /\ MayUse(p, fd) /\ fdesc[p][fd].file_type = "RPIPE"
      /\ pipes[g].live
      /\ pipes[g].reader = NULL
      /\ \/ /\ pp.len > 0
            /\ pipes' = [pipes EXCEPT ![g] = rr]
            /\ state' = [q \in Procs |->
                           IF q = pp.writer /\ rr.writer = NULL THEN "READY" ELSE state[q]]
         \/ /\ pp.len = 0 /\ pp.wref = 0
            /\ pipes' = [pipes EXCEPT ![g] = [pp EXCEPT !.ended = TRUE]]
            /\ UNCHANGED state
         \/ /\ pp.len = 0 /\ pp.wref > 0
            /\ pipes' = [pipes EXCEPT ![g] = pp]
            /\ state' = [state EXCEPT ![p] = "PENDING"]
      /\ UNCHANGED <<fdesc, corrupt>>

(* The pipe branch of sys_write.  The writer sleeps when the first copy    *)
(* did not take all n bytes, even if a nested pipe_write took the rest.    *)
SysWrite(p, fd, n) ==
  LET g  == fdesc[p][fd].pipe
      pp == [pipes[g] EXCEPT !.writer = p, !.wsiz = n, !.wptr = 0, !.nb = @ + n]
      k  == WriteSize(pp)
  IN  /\ May(p)
      /\ MayUse(p, fd) /\ fdesc[p][fd].file_type = "WPIPE"
      /\ pipes[g].live
      /\ pipes[g].writer = NULL
      /\ ~DeadReader(pipes[g])
      /\ pipes[g].nb + n <= MaxBytes
      /\ pipes' = [pipes EXCEPT ![g] = pipe_write(pp)]
      /\ state' = [q \in Procs |->
                     IF q = p THEN IF k = n THEN "READY" ELSE "PENDING"
                     ELSE IF q = pp.reader /\ k > 0 THEN "READY" ELSE state[q]]
      /\ UNCHANGED <<fdesc, corrupt>>

-----------------------------------------------------------------------------
(***************************************************************************)
(* Dropping nr read ends and nw write ends of a pipe, as clear_proc and    *)
(* sys_close do: the last write end wakes the reader with 0 bytes and      *)
(* leaves it registered; the page goes back when no end is left.           *)
(***************************************************************************)
MutantWakesEarly(pp, nw) == nw > 0 /\ pp.reader # NULL

Wakes(pp, nw) == nw > 0 /\ pp.wref = nw /\ pp.reader # NULL

DropFails(pp, nr, nw) ==
  \/ nr + nw > 0 /\ (~pp.live \/ pp.rref < nr \/ pp.wref < nw)
  \/ Wakes(pp, nw) /\ DeadReader(pp)

(* Mutant of DropEnds: the page is freed when either side has no end left. *)
MutantFreesEarly(pp, nr, nw) ==
  IF nr + nw = 0 THEN pp
  ELSE IF pp.rref = nr \/ pp.wref = nw THEN ZeroPipe
  ELSE [pp EXCEPT !.rref = @ - nr, !.wref = @ - nw]

DropEnds(pp, nr, nw) ==
  IF nr + nw = 0 THEN pp
  ELSE IF pp.rref = nr /\ pp.wref = nw THEN ZeroPipe
  ELSE [pp EXCEPT !.rref = @ - nr, !.wref = @ - nw, !.ended = @ \/ Wakes(pp, nw)]

NoFds == [fd \in Fds |-> [inuse |-> FALSE, file_type |-> "TTY", pipe |-> NULL, open |-> FALSE]]

(* clear_proc(p), where p itself or its parent is on the processor.        *)
ClearProc(p) ==
  LET nr(g) == Cardinality(Ends(p, g, "RPIPE"))
      nw(g) == Cardinality(Ends(p, g, "WPIPE"))
  IN  IF \E g \in PIPES : DropFails(pipes[g], nr(g), nw(g))
      THEN Corrupt
      ELSE /\ pipes' = [g \in PIPES |-> DropEnds(pipes[g], nr(g), nw(g))]
           /\ state' = [q \in Procs |->
                IF q = p THEN "CLOSE"
                ELSE IF \E g \in PIPES : pipes[g].reader = q /\ Wakes(pipes[g], nw(g))
                THEN "READY" ELSE state[q]]
           /\ fdesc' = [fdesc EXCEPT ![p] = NoFds]
           /\ UNCHANGED corrupt

(* A process ends and is cleared at once: its parent is in wait, or dead.  *)
Exit(p) == May(p) /\ MayHandOn(p) /\ ClearProc(p)

(* A process ends as a zombie and keeps its descriptors until it is        *)
(* reaped.                                                                 *)
ExitZombie(p) ==
  /\ May(p) /\ MayHandOn(p)
  /\ state' = [state EXCEPT ![p] = "ZOMBIE"]
  /\ UNCHANGED <<fdesc, pipes, corrupt>>

(* Some other process waits for the zombie, or ends as its parent.         *)
Reap(p) ==
  /\ ~corrupt
  /\ state[p] = "ZOMBIE"
  /\ \E q \in Procs : state[q] = "READY"
  /\ ClearProc(p)

(***************************************************************************)
(* sys_close.  `fdesc` already points at descriptor fd, so the last line,  *)
(* fdesc[fd].inuse = 0, clears descriptor 2 * fd.  Beyond the modelled     *)
(* descriptors that is one which is not in use.                            *)
(***************************************************************************)
SysClose(p, fd) ==
  LET d  == fdesc[p][fd]
      g  == d.pipe
      nr == IF d.file_type = "RPIPE" THEN 1 ELSE 0
      nw == 1 - nr
  IN  /\ May(p)
      /\ Closing # "never"
      /\ MayUse(p, fd) /\ d.file_type \in {"RPIPE", "WPIPE"}
      /\ IF DropFails(pipes[g], nr, nw) THEN Corrupt
         ELSE /\ pipes' = [pipes EXCEPT ![g] = DropEnds(@, nr, nw)]
              /\ state' = [q \in Procs |->
                             IF pipes[g].reader = q /\ Wakes(pipes[g], nw) THEN "READY"
                             ELSE state[q]]
              /\ fdesc' = [fdesc EXCEPT ![p] =
                   [f \in Fds |-> [fdesc[p][f] EXCEPT !.open = @ /\ f # fd,
                                                      !.inuse = @ /\ f # 2 * fd]]]
              /\ UNCHANGED corrupt

(* sys_fork: the child, in the first closed slot, gets a copy of every     *)
(* descriptor and the counts of its pipes go up.                           *)
Fork(p) ==
  /\ May(p) /\ MayHandOn(p)
  /\ \E n \in Procs :
       /\ state[n] = "CLOSE"
       /\ \A m \in Procs : m < n => state[m] # "CLOSE"
       /\ IF \E g \in PIPES : ~pipes[g].live /\ Ends(p, g, "RPIPE") \cup Ends(p, g, "WPIPE") # {}
          THEN Corrupt
          ELSE /\ fdesc' = [fdesc EXCEPT ![n] = fdesc[p]]
               /\ pipes' = [g \in PIPES |->
                    [pipes[g] EXCEPT !.rref = @ + Cardinality(Ends(p, g, "RPIPE")),
                                     !.wref = @ + Cardinality(Ends(p, g, "WPIPE"))]]
               /\ state' = [state EXCEPT ![n] = "READY"]
               /\ UNCHANGED corrupt

-----------------------------------------------------------------------------
(* One program, whose descriptors 0, 1 and 2 are the terminal.             *)
Init ==
  /\ state = [p \in Procs |-> IF p = 0 THEN "READY" ELSE "CLOSE"]
  /\ fdesc = [p \in Procs |-> [fd \in Fds |->
                [inuse |-> p = 0 /\ fd < 3, file_type |-> "TTY", pipe |-> NULL,
                 open |-> p = 0 /\ fd < 3]]]
  /\ pipes = [g \in PIPES |-> ZeroPipe]
  /\ corrupt = FALSE

Next ==
  \E p \in Procs :
    \/ SysPipe(p)
    \/ SysPipeOverruns(p)
    \/ Fork(p)
    \/ Exit(p)
    \/ ExitZombie(p)
    \/ Reap(p)
    \/ \E fd \in Fds :
         \/ SysUsesDead(p, fd)
         \/ SysClose(p, fd)
         \/ \E n \in Sizes : SysRead(p, fd, n) \/ SysWrite(p, fd, n)

Spec == Init /\ [][Next]_vars
-----------------------------------------------------------------------------
(* Every variable stays in its type; no count is ever negative.            *)
TypeOK ==
  /\ state \in [Procs -> {"READY", "PENDING", "ZOMBIE", "CLOSE"}]
  /\ fdesc \in [Procs -> [Fds -> FileDesc]]
  /\ pipes \in [PIPES -> PipeRec]
  /\ corrupt \in BOOLEAN

(***************************************************************************)
(* The ring as pipe_read and pipe_write need it: one byte always stays     *)
(* free (or the copy loops, which stop when two positions are equal, would *)
(* copy nothing), a registered reader has nothing to read, and a           *)
(* registered writer faces a full buffer.                                  *)
(***************************************************************************)
RingOK(pp) ==
  /\ pp.len < BUFLEN
  /\ pp.reader # NULL => pp.len = 0 /\ pp.rsiz > 0
  /\ pp.writer # NULL => pp.len = BUFLEN - 1 /\ pp.wptr < pp.wsiz
  /\ pp.writer = NULL => pp.wptr = 0 /\ pp.wsiz = 0

NobodyWaitsInVain == \A g \in PIPES : RingOK(pipes[g])

(***************************************************************************)
(* A pipe is a byte stream: what was read, what is in the ring and what    *)
(* the pending writer has not yet copied are, in this order, exactly the   *)
(* bytes of the write calls.  It holds for every wrap-around, for partial  *)
(* writes, and for a reader and a writer that wake each other.             *)
(***************************************************************************)
InOrder(pp) ==
  /\ pp.intact
  /\ \A i \in 0 .. pp.len - 1 : pp.buf[(pp.head + i) % BUFLEN] = pp.got + i + 1
  /\ pp.got + pp.len = pp.nb - (pp.wsiz - pp.wptr)

StreamIntact == \A g \in PIPES : InOrder(pipes[g])

(***************************************************************************)
(* A process asleep in read or write is registered with a pipe, so that    *)
(* the other side can wake it: no wakeup is lost (sys_write against the    *)
(* pipe_read and pipe_write it calls).                                     *)
(***************************************************************************)
SleeperIsRegistered ==
  ~corrupt =>
    \A p \in Procs : state[p] = "PENDING" =>
      \E g \in PIPES : pipes[g].live /\ p \in {pipes[g].reader, pipes[g].writer}

(***************************************************************************)
(* End of file is final: once a read returned 0 no process holds a write   *)
(* end that it has not closed, and no byte is left in the pipe.            *)
(***************************************************************************)
EofIsFinal ==
  ~corrupt =>
    \A g \in PIPES : pipes[g].live /\ pipes[g].ended =>
      /\ pipes[g].len = 0
      /\ \A p \in Procs, fd \in Fds :
           ~(fdesc[p][fd].open /\ fdesc[p][fd].file_type = "WPIPE" /\ fdesc[p][fd].pipe = g)

(***************************************************************************)
(* The counts kept by sys_pipe, sys_fork, sys_close and clear_proc are the *)
(* numbers of descriptors, of all processes, that are ends of the pipe and *)
(* were not closed; the page is freed exactly when there is none; and no   *)
(* freed page is used.                                                     *)
(***************************************************************************)
EndsOf(g, type) ==
  {pf \in Procs \X Fds : pf[2] \in Ends(pf[1], g, type) /\ fdesc[pf[1]][pf[2]].open}

RefsExact ==
  /\ ~corrupt
  /\ \A g \in PIPES :
       /\ pipes[g].rref = Cardinality(EndsOf(g, "RPIPE"))
       /\ pipes[g].wref = Cardinality(EndsOf(g, "WPIPE"))
       /\ pipes[g].live <=> pipes[g].rref + pipes[g].wref > 0
=============================================================================
