--------------------------- MODULE PipeCareProofs ---------------------------
(***************************************************************************)
(* Proofs about programs that are careful with the ends of their pipes     *)
(* (module MCPipe), for every buffer length and every number of processes, *)
(* pipes and descriptors: the reference counts of a pipe are the numbers   *)
(* of its open ends, an end of file is reported only when nobody can write *)
(* any more, and every sleeper is recorded in a pipe that is in use.       *)
(***************************************************************************)
EXTENDS PipeProofs, MCPipe

-----------------------------------------------------------------------------
(***************************************************************************)
(* Careful programs.  Process p is counted on as the reader of g while     *)
(* some write end is left, and as the writer of g.                         *)
(***************************************************************************)
Reads(p, g) == pipes[g].reader = p /\ pipes[g].wref > 0

Writes(p, g) == pipes[g].writer = p

(* Descriptors: closed slots have none, zombies none that they closed.     *)
Descriptors ==
  /\ ~corrupt
  /\ \A p \in Procs, fd \in Fds :
       /\ fdesc[p][fd].open => fdesc[p][fd].inuse
       /\ fdesc[p][fd].inuse => state[p] # "CLOSE"
       /\ (fdesc[p][fd].inuse /\ fdesc[p][fd].file_type # "TTY") => fdesc[p][fd].pipe \in PIPES
       /\ (fdesc[p][fd].inuse /\ state[p] = "ZOMBIE") => fdesc[p][fd].open

(* Counts: as many ends as there are descriptors that were not closed.     *)
CountsOf(g) ==
  /\ pipes[g].rref = Cardinality(EndsOf(g, "RPIPE"))
  /\ pipes[g].wref = Cardinality(EndsOf(g, "WPIPE"))
  /\ pipes[g].live <=> pipes[g].rref + pipes[g].wref > 0
  /\ pipes[g].ended => (pipes[g].live /\ pipes[g].wref = 0 /\ pipes[g].len = 0)

(* Sleepers: a process sleeps exactly while one pipe counts on it.         *)
Sleepers ==
  /\ \A g \in PIPES :
       /\ ~pipes[g].live => (pipes[g].reader = NULL /\ pipes[g].writer = NULL)
       /\ pipes[g].writer # NULL =>
            \E fd \in Fds : <<pipes[g].writer, fd>> \in EndsOf(g, "WPIPE")
  /\ \A p \in Procs : state[p] = "PENDING" <=> \E g \in PIPES : Reads(p, g) \/ Writes(p, g)
  /\ \A p \in Procs, g, h \in PIPES :
       /\ ~(Reads(p, g) /\ Writes(p, h))
       /\ (Reads(p, g) /\ Reads(p, h)) => g = h
       /\ (Writes(p, g) /\ Writes(p, h)) => g = h

CareInv == Descriptors /\ (\A g \in PIPES : CountsOf(g)) /\ Sleepers

LEMMA NullIsNoProcess == ASSUME NEW q \in Procs PROVE q # NULL
BY PipeAssumption DEF Procs, NULL

LEMMA EndsFinite ==
  ASSUME NEW S \in SUBSET (Procs \X Fds)
  PROVE  IsFiniteSet(S) /\ Cardinality(S) \in Nat /\ (Cardinality(S) = 0 <=> S = {})
<1>1. IsFiniteSet(Procs) /\ IsFiniteSet(Fds)
  BY PipeAssumption, FS_Interval DEF Procs, Fds
<1>2. IsFiniteSet(Procs \X Fds)
  BY <1>1, FS_Product
<1>3. IsFiniteSet(S)
  BY <1>2, FS_Subset
<1> QED
  BY <1>3, FS_CardinalityType, FS_EmptySet

(* The ends of one process count once each.                                *)
LEMMA PairCount ==
  ASSUME NEW A, IsFiniteSet(A), NEW S, IsFiniteSet(S), NEW p, \A x \in A : x[1] # p
  PROVE  Cardinality(A \cup ({p} \X S)) = Cardinality(A) + Cardinality(S)
<1> DEFINE T == {p} \X S
           f == [x \in S |-> <<p, x>>]
<1>1. f \in Bijection(S, T)
  <2>1. f \in [S -> T]
    OBVIOUS
  <2>2. ASSUME NEW x \in S, NEW y \in S, f[x] = f[y] PROVE x = y
    BY <2>2
  <2>3. ASSUME NEW z \in T PROVE \E x \in S : f[x] = z
    <3>1. PICK x \in S : z = <<p, x>>
      BY <2>3
    <3> QED
      BY <3>1
  <2> QED
    BY Zenon, <2>1, <2>2, <2>3 DEF Bijection, Injection, Surjection, IsInjective
<1>2. ExistsBijection(S, T)
  BY Zenon, <1>1 DEF ExistsBijection
<1>3. IsFiniteSet(T) /\ Cardinality(T) = Cardinality(S)
  BY <1>2, FS_Bijection
<1>4. A \cap T = {}
  OBVIOUS
<1> HIDE DEF T
<1>5. Cardinality(A \cup T) = Cardinality(A) + Cardinality(T) - Cardinality(A \cap T)
  BY <1>3, FS_Union
<1>6. Cardinality(A) \in Nat /\ Cardinality(S) \in Nat /\ Cardinality(A \cap T) = 0
  BY Zenon, <1>4, FS_CardinalityType, FS_EmptySet
<1> QED
  BY <1>3, <1>5, <1>6 DEF T

(* An end that was not closed is counted: its pipe is alive.               *)
LEMMA OpenEndCounts ==
  ASSUME TypeOK, CareInv, NEW p \in Procs, NEW fd \in Fds,
         fdesc[p][fd].inuse, fdesc[p][fd].open, fdesc[p][fd].file_type \in {"RPIPE", "WPIPE"}
  PROVE  LET g == fdesc[p][fd].pipe
         IN  /\ g \in PIPES /\ pipes[g].live
             /\ fdesc[p][fd].file_type = "RPIPE" => pipes[g].rref > 0
             /\ fdesc[p][fd].file_type = "WPIPE" => pipes[g].wref > 0
<1> DEFINE g == fdesc[p][fd].pipe
           t == fdesc[p][fd].file_type
<1>1. g \in PIPES /\ t \in {"RPIPE", "WPIPE"}
  BY DEF CareInv, Descriptors
<1>2. <<p, fd>> \in EndsOf(g, t)
  BY DEF EndsOf, Ends
<1> HIDE DEF g, t
<1>3. Cardinality(EndsOf(g, t)) \in Nat /\ Cardinality(EndsOf(g, t)) > 0
  <2>1. EndsOf(g, t) \in SUBSET (Procs \X Fds)
    BY DEF EndsOf
  <2> QED
    BY <1>2, <2>1, EndsFinite
<1>4. CountsOf(g) /\ pipes[g].rref \in Nat /\ pipes[g].wref \in Nat
  BY <1>1, PipeFields DEF CareInv, TypeOK
<1> QED
  BY <1>1, <1>3, <1>4 DEF CountsOf, g, t

(* What the two functions do to the fields the counting is about.          *)
LEMMA CopyEnds ==
  ASSUME NEW pp \in PipeRec
  PROVE  LET r == CopyOut(pp)
             w == CopyIn(pp)
         IN  /\ r.rref = pp.rref /\ r.wref = pp.wref /\ r.ended = pp.ended
             /\ r.live = pp.live /\ r.writer = pp.writer /\ r.reader = NULL
             /\ w.rref = pp.rref /\ w.wref = pp.wref /\ w.ended = pp.ended
             /\ w.live = pp.live /\ w.reader = pp.reader
             /\ w.writer = IF pp.wptr + WriteSize(pp) = pp.wsiz THEN NULL ELSE pp.writer
BY DEF CopyOut, CopyIn, PipeRec

LEMMA PipeReadEnds ==
  ASSUME NEW pp \in PipeRec, InOrder(pp), pp.len < BUFLEN, pp.len > 0, pp.rsiz > 0
  PROVE  LET r == pipe_read(pp)
         IN  /\ r.rref = pp.rref /\ r.wref = pp.wref /\ r.ended = pp.ended
             /\ r.live = pp.live /\ r.reader = NULL /\ r.writer \in {NULL, pp.writer}
<1> DEFINE c == CopyOut(pp)
<1>1. c \in PipeRec /\ ReadSize(pp) # 0
  BY CopyOutOK, PipeFields
<1>2. pipe_read(pp) = CopyIn(c) \/ pipe_read(pp) = c
  BY <1>1 DEF pipe_read
<1>3. /\ c.rref = pp.rref /\ c.wref = pp.wref /\ c.ended = pp.ended
      /\ c.live = pp.live /\ c.writer = pp.writer /\ c.reader = NULL
  BY CopyEnds
<1> HIDE DEF c
<1>4. LET w == CopyIn(c)
      IN  /\ w.rref = c.rref /\ w.wref = c.wref /\ w.ended = c.ended
          /\ w.live = c.live /\ w.reader = c.reader /\ w.writer \in {NULL, c.writer}
  BY <1>1, CopyEnds
<1> QED
  BY <1>2, <1>3, <1>4

(* A write that fits into the ring finds the writer still registered only  *)
(* if it was not copied at once; a waiting reader takes all of it.         *)
LEMMA PipeWriteEnds ==
  ASSUME NEW pp \in PipeRec, InOrder(pp), pp.len < BUFLEN,
         pp.writer # NULL, pp.wptr = 0, pp.wsiz > 0, pp.wsiz < BUFLEN,
         pp.reader # NULL => pp.len = 0 /\ pp.rsiz > 0
  PROVE  LET r == pipe_write(pp)
             k == WriteSize(pp)
         IN  /\ r.rref = pp.rref /\ r.wref = pp.wref /\ r.ended = pp.ended
             /\ r.live = pp.live /\ r.reader = NULL
             /\ r.writer = IF k = pp.wsiz THEN NULL ELSE pp.writer
             /\ pp.reader # NULL => (k = pp.wsiz /\ k > 0)
<1> DEFINE w == CopyIn(pp)
           k == WriteSize(pp)
<1>0. BUFLEN \in Nat /\ BUFLEN >= 2 /\ pp.len \in Nat /\ pp.wsiz \in Nat /\ pp.rsiz \in Nat
  BY PipeAssumption, PipeFields
<1>1. /\ w \in PipeRec /\ InOrder(w) /\ k \in Nat
      /\ k <= BUFLEN - pp.len - 1 /\ k <= pp.wsiz - pp.wptr
      /\ k = BUFLEN - pp.len - 1 \/ k = pp.wsiz - pp.wptr
      /\ w.len = pp.len + k /\ w.rsiz = pp.rsiz
  BY <1>0, CopyInOK
<1>2. /\ w.rref = pp.rref /\ w.wref = pp.wref /\ w.ended = pp.ended
      /\ w.live = pp.live /\ w.reader = pp.reader
      /\ w.writer = IF pp.wptr + k = pp.wsiz THEN NULL ELSE pp.writer
  BY CopyEnds
<1>3. pipe_write(pp) = IF k = 0 THEN pp ELSE IF w.reader # NULL THEN pipe_read(w) ELSE w
  BY DEF pipe_write
<1> HIDE DEF w, k
<1>4. w.writer = IF k = pp.wsiz THEN NULL ELSE pp.writer
  BY <1>0, <1>1, <1>2
<1>5. CASE pp.reader = NULL
  BY <1>0, <1>2, <1>3, <1>4, <1>5 DEF k
<1>6. CASE pp.reader # NULL
  <2>1. k = pp.wsiz /\ k > 0 /\ w.len > 0 /\ w.len < BUFLEN /\ w.rsiz > 0
    BY <1>0, <1>1, <1>6
  <2>2. pipe_write(pp) = pipe_read(w)
    BY <1>2, <1>3, <1>6, <2>1
  <2>3. LET r == pipe_read(w)
        IN  /\ r.rref = w.rref /\ r.wref = w.wref /\ r.ended = w.ended
            /\ r.live = w.live /\ r.reader = NULL /\ r.writer \in {NULL, w.writer}
    BY <1>1, <2>1, PipeReadEnds
  <2> QED
    BY <1>2, <1>4, <2>1, <2>2, <2>3 DEF k
<1> QED
  BY <1>5, <1>6

(* Dropping ends: the counts go down, and with the last end all is gone.   *)
LEMMA DropView ==
  ASSUME NEW pp \in PipeRec, NEW nr \in Nat, NEW nw \in Nat, ~DropFails(pp, nr, nw),
         pp.live <=> pp.rref + pp.wref > 0,
         ~pp.live => (pp.reader = NULL /\ pp.writer = NULL /\ ~pp.ended)
  PROVE  LET q == DropEnds(pp, nr, nw)
         IN  /\ nr <= pp.rref /\ nw <= pp.wref
             /\ q.rref = pp.rref - nr /\ q.wref = pp.wref - nw
             /\ q.live <=> q.rref + q.wref > 0
             /\ \/ /\ q.reader = pp.reader /\ q.writer = pp.writer /\ q.len = pp.len
                   /\ q.live = pp.live
                   /\ q.ended => (pp.ended \/ Wakes(pp, nw))
                \/ /\ q.rref + q.wref = 0
                   /\ q.reader = NULL /\ q.writer = NULL /\ ~q.ended
<1> DEFINE q == DropEnds(pp, nr, nw)
<1>0. /\ pp.rref \in Nat /\ pp.wref \in Nat /\ pp.live \in BOOLEAN /\ pp.ended \in BOOLEAN
      /\ Wakes(pp, nw) \in BOOLEAN
  BY PipeFields DEF Wakes
<1>1. nr <= pp.rref /\ nw <= pp.wref
  BY <1>0 DEF DropFails
<1>2. CASE nr + nw = 0
  <2>1. q = pp /\ nr = 0 /\ nw = 0
    BY <1>2 DEF DropEnds
  <2> QED
    BY <1>0, <2>1
<1>3. CASE nr + nw # 0 /\ pp.rref = nr /\ pp.wref = nw
  <2>1. q = ZeroPipe
    BY <1>3 DEF DropEnds
  <2>2. /\ q.rref = 0 /\ q.wref = 0 /\ q.live = FALSE /\ q.ended = FALSE
        /\ q.reader = NULL /\ q.writer = NULL
    BY <2>1 DEF ZeroPipe
  <2> HIDE DEF q
  <2> QED
    BY <1>0, <1>3, <2>2 DEF q
<1>4. CASE nr + nw # 0 /\ ~(pp.rref = nr /\ pp.wref = nw)
  <2> DEFINE e == pp.ended \/ Wakes(pp, nw)
             a == pp.rref - nr
             b == pp.wref - nw
  <2>1. q = [pp EXCEPT !.rref = a, !.wref = b, !.ended = e]
    BY <1>4 DEF DropEnds
  <2>2. pp.live
    BY <1>0, <1>4 DEF DropFails
  <2>3. a \in Nat /\ b \in Nat /\ a + b > 0
    BY <1>0, <1>1, <1>4
  <2>4. e \in BOOLEAN /\ (e => (pp.ended \/ Wakes(pp, nw)))
    BY <1>0
  <2> HIDE DEF a, b, e, q
  <2>5. /\ q.rref = a /\ q.wref = b /\ q.ended = e /\ q.live = pp.live
        /\ q.reader = pp.reader /\ q.writer = pp.writer /\ q.len = pp.len
    BY <2>1 DEF PipeRec
  <2> QED
    BY <1>1, <2>2, <2>3, <2>4, <2>5 DEF a, b, q
<1> QED
  BY <1>0, <1>2, <1>3, <1>4

(***************************************************************************)
(* What sys_close and clear_proc have in common: process p, which does not *)
(* sleep, drops nr[g] read ends and nw[g] write ends of every pipe g.      *)
(***************************************************************************)
Drops(p, nr, nw) ==
  /\ \A g \in PIPES :
       /\ ~DropFails(pipes[g], nr[g], nw[g])
       /\ pipes'[g] = DropEnds(pipes[g], nr[g], nw[g])
       /\ Cardinality(EndsOf(g, "RPIPE")') = Cardinality(EndsOf(g, "RPIPE")) - nr[g]
       /\ Cardinality(EndsOf(g, "WPIPE")') = Cardinality(EndsOf(g, "WPIPE")) - nw[g]
  /\ \A q \in Procs \ {p} :
       /\ fdesc'[q] = fdesc[q]
       /\ state'[q] = IF \E g \in PIPES : pipes[g].reader = q /\ Wakes(pipes[g], nw[g])
                      THEN "READY" ELSE state[q]
  /\ state[p] # "PENDING" /\ state'[p] # "PENDING"

LEMMA DropsCare ==
  ASSUME IInv, CareInv, NEW p \in Procs, NEW nr \in [PIPES -> Nat], NEW nw \in [PIPES -> Nat],
         Drops(p, nr, nw)
  PROVE  (\A g \in PIPES : CountsOf(g)') /\ Sleepers'
<1>1. ASSUME NEW g \in PIPES
      PROVE  /\ nr[g] <= pipes[g].rref /\ nw[g] <= pipes[g].wref
             /\ pipes'[g].rref = pipes[g].rref - nr[g] /\ pipes'[g].wref = pipes[g].wref - nw[g]
             /\ pipes'[g].live <=> pipes'[g].rref + pipes'[g].wref > 0
             /\ \/ /\ pipes'[g].reader = pipes[g].reader /\ pipes'[g].writer = pipes[g].writer
                   /\ pipes'[g].len = pipes[g].len /\ pipes'[g].live = pipes[g].live
                   /\ pipes'[g].ended => (pipes[g].ended \/ Wakes(pipes[g], nw[g]))
                \/ /\ pipes'[g].rref + pipes'[g].wref = 0
                   /\ pipes'[g].reader = NULL /\ pipes'[g].writer = NULL /\ ~pipes'[g].ended
  <2> DEFINE pp == pipes[g]
             a == nr[g]
             b == nw[g]
  <2>1. pp \in PipeRec /\ a \in Nat /\ b \in Nat
    BY DEF IInv, TypeOK
  <2>2. ~DropFails(pp, a, b) /\ pipes'[g] = DropEnds(pp, a, b)
    BY DEF Drops
  <2>3. /\ pp.live <=> pp.rref + pp.wref > 0
        /\ ~pp.live => (pp.reader = NULL /\ pp.writer = NULL /\ ~pp.ended)
    BY DEF CareInv, CountsOf, Sleepers
  <2> HIDE DEF pp, a, b
  <2>4. LET q == DropEnds(pp, a, b)
        IN  /\ a <= pp.rref /\ b <= pp.wref
            /\ q.rref = pp.rref - a /\ q.wref = pp.wref - b
            /\ q.live <=> q.rref + q.wref > 0
            /\ \/ /\ q.reader = pp.reader /\ q.writer = pp.writer /\ q.len = pp.len
                  /\ q.live = pp.live
                  /\ q.ended => (pp.ended \/ Wakes(pp, b))
               \/ /\ q.rref + q.wref = 0
                  /\ q.reader = NULL /\ q.writer = NULL /\ ~q.ended
    BY <2>1, <2>2, <2>3, DropView
  <2> QED
    BY <2>2, <2>4 DEF pp, a, b
<1>2. ASSUME NEW g \in PIPES
      PROVE  /\ pipes[g].rref \in Nat /\ pipes[g].wref \in Nat /\ nr[g] \in Nat /\ nw[g] \in Nat
             /\ pipes[g].reader \in Procs \cup {NULL} /\ pipes[g].writer \in Procs \cup {NULL}
             /\ pipes'[g].rref \in Nat /\ pipes'[g].wref \in Nat
             /\ CountsOf(g) /\ RingOK(pipes[g])
  <2>1. pipes[g] \in PipeRec
    BY DEF IInv, TypeOK
  <2> QED
    BY <1>1, <2>1, PipeFields DEF IInv, Good, CareInv
<1>3. ASSUME NEW g \in PIPES PROVE CountsOf(g)'
  <2>1. /\ pipes'[g].rref = Cardinality(EndsOf(g, "RPIPE"))'
        /\ pipes'[g].wref = Cardinality(EndsOf(g, "WPIPE"))'
    BY <1>1, <1>2 DEF Drops, CountsOf
  <2>2. ASSUME pipes'[g].ended
        PROVE  pipes'[g].live /\ pipes'[g].wref = 0 /\ pipes'[g].len = 0
    <3>1. /\ pipes'[g].reader = pipes[g].reader /\ pipes'[g].len = pipes[g].len
          /\ pipes[g].ended \/ Wakes(pipes[g], nw[g])
          /\ pipes'[g].live = pipes[g].live
      BY <1>1, <2>2
    <3>2. CASE pipes[g].ended
      BY <1>1, <1>2, <3>1, <3>2 DEF CountsOf
    <3>3. CASE Wakes(pipes[g], nw[g])
      <4>1. nw[g] > 0 /\ pipes[g].wref = nw[g] /\ pipes[g].reader # NULL
        BY <3>3 DEF Wakes
      <4>2. pipes[g].len = 0 /\ pipes[g].live
        BY <1>2, <4>1 DEF RingOK, CountsOf
      <4>3. pipes'[g].wref = pipes[g].wref - nw[g]
        BY <1>1
      <4> QED
        BY <1>2, <3>1, <4>1, <4>2, <4>3
    <3> QED
      BY <3>1, <3>2, <3>3
  <2> QED
    BY <1>1, <2>1, <2>2 DEF CountsOf
<1>4. ASSUME NEW g \in PIPES
      PROVE  /\ ~pipes'[g].live => (pipes'[g].reader = NULL /\ pipes'[g].writer = NULL)
             /\ pipes'[g].writer = pipes[g].writer
             /\ pipes'[g].writer # NULL =>
                  \E fd \in Fds : <<pipes'[g].writer, fd>> \in EndsOf(g, "WPIPE")'
  <2>1. ~pipes'[g].live => (pipes'[g].reader = NULL /\ pipes'[g].writer = NULL)
    BY <1>1 DEF CareInv, Sleepers
  <2>2. CASE pipes[g].writer = NULL
    BY <1>1, <2>1, <2>2
  <2>3. CASE pipes[g].writer # NULL
    <3> DEFINE q == pipes[g].writer
    <3>1. q \in Procs /\ Writes(q, g)
      BY <1>2, <2>3 DEF Writes
    <3>2. state[q] = "PENDING" /\ q # p
      BY <3>1 DEF CareInv, Sleepers, Drops
    <3>3. PICK fd \in Fds : <<q, fd>> \in EndsOf(g, "WPIPE")
      BY <2>3 DEF CareInv, Sleepers
    <3>4. fdesc'[q] = fdesc[q]
      BY <3>1, <3>2 DEF Drops
    <3>5. <<q, fd>> \in EndsOf(g, "WPIPE")'
      BY <3>1, <3>3, <3>4 DEF EndsOf, Ends
    <3>6. Cardinality(EndsOf(g, "WPIPE")') # 0
      <4>1. EndsOf(g, "WPIPE")' \in SUBSET (Procs \X Fds)
        BY DEF EndsOf
      <4> QED
        BY <3>5, <4>1, EndsFinite
    <3>7. pipes'[g].wref # 0
      BY <1>3, <3>6 DEF CountsOf
    <3>8. pipes'[g].rref + pipes'[g].wref # 0
      BY <1>2, <3>7
    <3> QED
      BY <1>1, <2>1, <3>5, <3>8
  <2> QED
    BY <2>2, <2>3
<1>5. ASSUME NEW q \in Procs, NEW g \in PIPES
      PROVE  /\ Writes(q, g)' <=> Writes(q, g)
             /\ Reads(q, g)' <=> (Reads(q, g) /\ ~Wakes(pipes[g], nw[g]))
  <2>1. q # NULL
    BY NullIsNoProcess
  <2>2. Writes(q, g)' <=> Writes(q, g)
    BY <1>4 DEF Writes
  <2>3. ASSUME Reads(q, g)' PROVE Reads(q, g) /\ ~Wakes(pipes[g], nw[g])
    BY <1>1, <1>2, <2>1, <2>3 DEF Reads, Wakes
  <2>4. ASSUME Reads(q, g), ~Wakes(pipes[g], nw[g]) PROVE Reads(q, g)'
    <3>1. pipes[g].wref # nw[g]
      BY <1>2, <2>1, <2>4 DEF Reads, Wakes
    <3>2. pipes'[g].wref > 0
      <4>1. pipes'[g].wref = pipes[g].wref - nw[g] /\ nw[g] <= pipes[g].wref
        BY <1>1
      <4>2. pipes[g].wref \in Nat /\ nw[g] \in Nat
        BY <1>2
      <4> QED
        BY <3>1, <4>1, <4>2
    <3>3. pipes'[g].rref + pipes'[g].wref # 0
      BY <1>2, <3>2
    <3> QED
      BY <1>1, <2>4, <3>2, <3>3 DEF Reads
  <2> QED
    BY <2>2, <2>3, <2>4
<1>6. ASSUME NEW q \in Procs, NEW g \in PIPES, pipes[g].reader = q, Wakes(pipes[g], nw[g])
      PROVE  Reads(q, g)
  BY <1>2, <1>6 DEF Reads, Wakes
<1>7. ASSUME NEW q \in Procs
      PROVE  state'[q] = "PENDING" <=> \E g \in PIPES : Reads(q, g)' \/ Writes(q, g)'
  <2>1. /\ state[q] = "PENDING" <=> \E g \in PIPES : Reads(q, g) \/ Writes(q, g)
        /\ \A g, h \in PIPES : /\ ~(Reads(q, g) /\ Writes(q, h))
                               /\ (Reads(q, g) /\ Reads(q, h)) => g = h
    BY DEF CareInv, Sleepers
  <2>2. CASE q = p
    BY <1>5, <2>1, <2>2 DEF Drops
  <2>3. CASE q # p
    <3>1. state'[q] = IF \E g \in PIPES : pipes[g].reader = q /\ Wakes(pipes[g], nw[g])
                      THEN "READY" ELSE state[q]
      BY <2>3 DEF Drops
    <3>2. CASE \E g \in PIPES : pipes[g].reader = q /\ Wakes(pipes[g], nw[g])
      BY <1>5, <1>6, <2>1, <3>1, <3>2
    <3>3. CASE ~\E g \in PIPES : pipes[g].reader = q /\ Wakes(pipes[g], nw[g])
      <4>1. ASSUME NEW g \in PIPES PROVE Reads(q, g)' <=> Reads(q, g)
        BY <1>5, <3>3 DEF Reads
      <4> QED
        BY <1>5, <2>1, <3>1, <3>3, <4>1
    <3> QED
      BY <3>2, <3>3
  <2> QED
    BY <2>2, <2>3
<1>8. \A q \in Procs, g, h \in PIPES :
        /\ ~(Reads(q, g)' /\ Writes(q, h)')
        /\ (Reads(q, g)' /\ Reads(q, h)') => g = h
        /\ (Writes(q, g)' /\ Writes(q, h)') => g = h
  BY <1>5 DEF CareInv, Sleepers
<1>9. Sleepers'
  BY <1>4, <1>7, <1>8 DEF Sleepers
<1> QED
  BY <1>3, <1>9

(* A process that has closed nothing: its ends are all counted.            *)
HasAllOpen(p) == \A fd \in Fds : fdesc[p][fd].inuse => fdesc[p][fd].open

(* The counted ends of the others, and those of p.                         *)
Others(p, g, t) == {pf \in EndsOf(g, t) : pf[1] # p}

LEMMA CountSplit ==
  ASSUME NEW p \in Procs, HasAllOpen(p), NEW g, NEW t
  PROVE  /\ EndsOf(g, t) = Others(p, g, t) \cup ({p} \X Ends(p, g, t))
         /\ Cardinality(EndsOf(g, t)) = Cardinality(Others(p, g, t)) + Cardinality(Ends(p, g, t))
         /\ Cardinality(Others(p, g, t)) \in Nat /\ Cardinality(Ends(p, g, t)) \in Nat
         /\ Ends(p, g, t) # {} => Cardinality(EndsOf(g, t)) > 0
<1> DEFINE A == Others(p, g, t)
           S == Ends(p, g, t)
<1>1. EndsOf(g, t) = A \cup ({p} \X S)
  <2>1. ASSUME NEW x \in EndsOf(g, t) PROVE x \in A \cup ({p} \X S)
    <3>1. x \in Procs \X Fds /\ x[2] \in Ends(x[1], g, t)
      BY <2>1 DEF EndsOf
    <3>2. CASE x[1] = p
      <4>1. x = <<p, x[2]>> /\ x[2] \in S
        BY <3>1, <3>2
      <4> QED
        BY <4>1
    <3>3. CASE x[1] # p
      BY <2>1, <3>3 DEF Others
    <3> QED
      BY <3>2, <3>3
  <2>2. ASSUME NEW x \in {p} \X S PROVE x \in EndsOf(g, t)
    BY <2>2 DEF EndsOf, Ends, HasAllOpen
  <2> QED
    BY <2>1, <2>2 DEF Others
<1>2. A \in SUBSET (Procs \X Fds) /\ S \subseteq Fds
  BY DEF Others, EndsOf, Ends
<1>3. IsFiniteSet(A) /\ Cardinality(A) \in Nat
  BY <1>2, EndsFinite
<1>4. IsFiniteSet(S) /\ Cardinality(S) \in Nat
  <2>1. IsFiniteSet(Fds)
    BY PipeAssumption, FS_Interval DEF Fds
  <2> QED
    BY <1>2, <2>1, FS_Subset, FS_CardinalityType
<1>5. \A x \in A : x[1] # p
  BY DEF Others
<1>6. S # {} => Cardinality(S) > 0
  BY <1>4, FS_EmptySet
<1> HIDE DEF A, S
<1>7. Cardinality(A \cup ({p} \X S)) = Cardinality(A) + Cardinality(S)
  BY Zenon, <1>3, <1>4, <1>5, PairCount
<1> QED
  BY <1>1, <1>3, <1>4, <1>6, <1>7 DEF A, S

(* While a write end is left, the registered reader is asleep.             *)
LEMMA NoDeadReader ==
  ASSUME IInv, CareInv, NEW g \in PIPES, pipes[g].wref > 0
  PROVE  ~DeadReader(pipes[g])
<1> SUFFICES ASSUME pipes[g].reader # NULL PROVE state[pipes[g].reader] # "CLOSE"
  BY DEF DeadReader
<1>1. pipes[g].reader \in Procs
  BY PipeFields DEF IInv, TypeOK
<1>2. state[pipes[g].reader] = "PENDING"
  BY <1>1 DEF CareInv, Sleepers, Reads
<1> QED
  BY <1>2

(* clear_proc of a process that has closed nothing.                        *)
LEMMA ClearProcCare ==
  ASSUME IInv, CareInv, NEW p \in Procs, ClearProc(p), HasAllOpen(p), state[p] # "PENDING"
  PROVE  CareInv'
<1> DEFINE nr == [g \in PIPES |-> Cardinality(Ends(p, g, "RPIPE"))]
           nw == [g \in PIPES |-> Cardinality(Ends(p, g, "WPIPE"))]
<1>1. ASSUME NEW g \in PIPES
      PROVE  /\ nr[g] \in Nat /\ nw[g] \in Nat
             /\ pipes[g].rref = Cardinality(Others(p, g, "RPIPE")) + nr[g]
             /\ pipes[g].wref = Cardinality(Others(p, g, "WPIPE")) + nw[g]
             /\ Cardinality(Others(p, g, "RPIPE")) \in Nat
             /\ Cardinality(Others(p, g, "WPIPE")) \in Nat
  BY CountSplit DEF CareInv, CountsOf
<1>2. nr \in [PIPES -> Nat] /\ nw \in [PIPES -> Nat]
  BY <1>1
<1>3. ASSUME NEW g \in PIPES PROVE ~DropFails(pipes[g], nr[g], nw[g])
  <2>1. nr[g] + nw[g] > 0 => (pipes[g].live /\ pipes[g].rref >= nr[g] /\ pipes[g].wref >= nw[g])
    BY <1>1 DEF CareInv, CountsOf
  <2>2. Wakes(pipes[g], nw[g]) => ~DeadReader(pipes[g])
    BY <1>1, NoDeadReader DEF Wakes
  <2>3. nr[g] \in Nat /\ nw[g] \in Nat /\ pipes[g].rref \in Nat /\ pipes[g].wref \in Nat
    BY <1>1
  <2> HIDE DEF nr, nw
  <2> QED
    BY <2>1, <2>2, <2>3 DEF DropFails
<1>4. /\ pipes' = [g \in PIPES |-> DropEnds(pipes[g], nr[g], nw[g])]
      /\ state' = [q \in Procs |->
           IF q = p THEN "CLOSE"
           ELSE IF \E g \in PIPES : pipes[g].reader = q /\ Wakes(pipes[g], nw[g])
           THEN "READY" ELSE state[q]]
      /\ fdesc' = [fdesc EXCEPT ![p] = NoFds]
      /\ UNCHANGED corrupt
  <2>1. ~\E g \in PIPES : DropFails(pipes[g], Cardinality(Ends(p, g, "RPIPE")),
                                              Cardinality(Ends(p, g, "WPIPE")))
    BY <1>3
  <2> QED
    BY <2>1 DEF ClearProc
<1>5. ASSUME NEW g, NEW t PROVE EndsOf(g, t)' = Others(p, g, t)
  <2>1. fdesc \in [Procs -> [Fds -> FileDesc]]
    BY DEF IInv, TypeOK
  <2>2. \A fd \in Fds : fdesc'[p][fd].open = FALSE
    BY <1>4, <2>1 DEF NoFds
  <2>3. \A q \in Procs : q # p => fdesc'[q] = fdesc[q]
    BY <1>4, <2>1
  <2> QED
    BY <2>2, <2>3 DEF EndsOf, Ends, Others
<1>6. Drops(p, nr, nw)
  <2>1. ASSUME NEW g \in PIPES
        PROVE  /\ Cardinality(EndsOf(g, "RPIPE")') = Cardinality(EndsOf(g, "RPIPE")) - nr[g]
               /\ Cardinality(EndsOf(g, "WPIPE")') = Cardinality(EndsOf(g, "WPIPE")) - nw[g]
    <3>1. /\ Cardinality(EndsOf(g, "RPIPE")') = Cardinality(Others(p, g, "RPIPE"))
          /\ Cardinality(EndsOf(g, "WPIPE")') = Cardinality(Others(p, g, "WPIPE"))
      BY <1>5
    <3>2. /\ pipes[g].rref = Cardinality(EndsOf(g, "RPIPE"))
          /\ pipes[g].wref = Cardinality(EndsOf(g, "WPIPE"))
      BY DEF CareInv, CountsOf
    <3> QED
      BY <1>1, <3>1, <3>2
  <2>2. ASSUME NEW g \in PIPES PROVE pipes'[g] = DropEnds(pipes[g], nr[g], nw[g])
    BY <1>4
  <2>3. ASSUME NEW q \in Procs \ {p}
        PROVE  /\ fdesc'[q] = fdesc[q]
               /\ state'[q] = IF \E g \in PIPES : pipes[g].reader = q /\ Wakes(pipes[g], nw[g])
                              THEN "READY" ELSE state[q]
    BY <1>4 DEF IInv, TypeOK
  <2>4. state'[p] = "CLOSE"
    BY <1>4
  <2> HIDE DEF nr, nw
  <2> QED
    BY <1>3, <2>1, <2>2, <2>3, <2>4 DEF Drops
<1> HIDE DEF nr, nw
<1>7. (\A g \in PIPES : CountsOf(g)') /\ Sleepers'
  BY <1>2, <1>6, DropsCare
<1>8. Descriptors'
  <2>1. \A fd \in Fds : fdesc'[p][fd].open = FALSE /\ fdesc'[p][fd].inuse = FALSE
    BY <1>4 DEF IInv, TypeOK, NoFds
  <2>2. ASSUME NEW q \in Procs, q # p
        PROVE  /\ fdesc'[q] = fdesc[q]
               /\ state'[q] = state[q] \/ state'[q] = "READY"
    BY <1>6, <2>2 DEF Drops
  <2>3. ~corrupt'
    BY <1>4 DEF CareInv, Descriptors
  <2> QED
    BY <2>1, <2>2, <2>3 DEF CareInv, Descriptors
<1> QED
  BY <1>7, <1>8 DEF CareInv

(* sys_close of a descriptor that is open, when nothing uses 2 * fd.       *)
LEMMA SysCloseCare ==
  ASSUME IInv, CareInv, NEW p \in Procs, NEW fd \in Fds, SysClose(p, fd),
         fdesc[p][fd].open, SparesOthers(p, fd)
  PROVE  CareInv'
<1> DEFINE g == fdesc[p][fd].pipe
           t == fdesc[p][fd].file_type
           a == IF t = "RPIPE" THEN 1 ELSE 0
           b == 1 - a
           nr == [h \in PIPES |-> IF h = g THEN a ELSE 0]
           nw == [h \in PIPES |-> IF h = g THEN b ELSE 0]
<1>1. /\ state[p] = "READY" /\ fdesc[p][fd].inuse /\ t \in {"RPIPE", "WPIPE"}
  BY Zenon DEF SysClose, May, MayUse
<1>2. /\ g \in PIPES /\ pipes[g].live
      /\ t = "RPIPE" => pipes[g].rref > 0
      /\ t = "WPIPE" => pipes[g].wref > 0
  BY <1>1, OpenEndCounts DEF IInv
<1>3. /\ pipes[g].rref \in Nat /\ pipes[g].wref \in Nat
      /\ a \in Nat /\ b \in Nat /\ a + b = 1 /\ a <= pipes[g].rref /\ b <= pipes[g].wref
      /\ t = "RPIPE" => a = 1 /\ b = 0
      /\ t = "WPIPE" => a = 0 /\ b = 1
  BY <1>1, <1>2, PipeFields DEF IInv, TypeOK
<1> HIDE DEF a, b
<1>4. ~DropFails(pipes[g], a, b)
  <2>1. Wakes(pipes[g], b) => ~DeadReader(pipes[g])
    BY <1>1, <1>2, <1>3, NoDeadReader DEF Wakes
  <2> QED
    BY <1>2, <1>3, <2>1 DEF DropFails
<1>5. /\ pipes' = [pipes EXCEPT ![g] = DropEnds(@, a, b)]
      /\ state' = [q \in Procs |-> IF pipes[g].reader = q /\ Wakes(pipes[g], b) THEN "READY"
                                   ELSE state[q]]
      /\ fdesc' = [fdesc EXCEPT ![p] =
           [f \in Fds |-> [fdesc[p][f] EXCEPT !.open = @ /\ f # fd,
                                              !.inuse = @ /\ f # 2 * fd]]]
      /\ UNCHANGED corrupt
  BY Zenon, <1>4 DEF SysClose, a, b
<1>6. ASSUME NEW f \in Fds
      PROVE  /\ fdesc'[p][f].inuse = fdesc[p][f].inuse
             /\ fdesc'[p][f].open <=> (fdesc[p][f].open /\ f # fd)
             /\ fdesc'[p][f].file_type = fdesc[p][f].file_type
             /\ fdesc'[p][f].pipe = fdesc[p][f].pipe
  <2> DEFINE x == fdesc[p][f].open /\ f # fd
             y == fdesc[p][f].inuse /\ f # 2 * fd
  <2>1. fdesc \in [Procs -> [Fds -> FileDesc]] /\ fdesc[p][f] \in FileDesc
    BY DEF IInv, TypeOK
  <2>2. fdesc[p][f].inuse \in BOOLEAN
    BY <2>1 DEF FileDesc
  <2>3. y = fdesc[p][f].inuse
    BY <2>2 DEF SparesOthers
  <2>4. fdesc'[p][f] = [fdesc[p][f] EXCEPT !.open = x, !.inuse = y]
    BY Zenon, <1>5, <2>1
  <2> HIDE DEF x, y
  <2>5. /\ fdesc'[p][f].open = x /\ fdesc'[p][f].inuse = y
        /\ fdesc'[p][f].file_type = fdesc[p][f].file_type
        /\ fdesc'[p][f].pipe = fdesc[p][f].pipe
    BY <2>1, <2>4 DEF FileDesc
  <2> QED
    BY Zenon, <2>3, <2>5 DEF x
<1>7. \A q \in Procs : q # p => fdesc'[q] = fdesc[q]
  BY Zenon, <1>5 DEF IInv, TypeOK
<1>8. ASSUME NEW h \in PIPES, NEW u
      PROVE  EndsOf(h, u)' = IF h = g /\ u = t THEN EndsOf(h, u) \ {<<p, fd>>} ELSE EndsOf(h, u)
  <2>1. ASSUME NEW q \in Procs, NEW f \in Fds
        PROVE  <<q, f>> \in EndsOf(h, u)' <=>
                 (<<q, f>> \in EndsOf(h, u) /\ ~(q = p /\ f = fd))
    <3>1. CASE q = p
      BY <1>6, <3>1 DEF EndsOf, Ends
    <3>2. CASE q # p
      BY <1>7, <3>2 DEF EndsOf, Ends
    <3> QED
      BY <3>1, <3>2
  <2>2. <<p, fd>> \in EndsOf(h, u) => (h = g /\ u = t)
    BY DEF EndsOf, Ends
  <2>3. EndsOf(h, u) \subseteq Procs \X Fds /\ EndsOf(h, u)' \subseteq Procs \X Fds
    BY DEF EndsOf
  <2>4. EndsOf(h, u)' = EndsOf(h, u) \ {<<p, fd>>}
    BY <2>1, <2>3
  <2> QED
    BY <2>2, <2>4
<1>9. /\ <<p, fd>> \in EndsOf(g, t)
      /\ Cardinality(EndsOf(g, t) \ {<<p, fd>>}) = Cardinality(EndsOf(g, t)) - 1
  <2>1. <<p, fd>> \in EndsOf(g, t) /\ EndsOf(g, t) \in SUBSET (Procs \X Fds)
    BY <1>1 DEF EndsOf, Ends
  <2> QED
    BY <2>1, EndsFinite, FS_RemoveElement
<1>10. ASSUME NEW h \in PIPES
       PROVE  /\ ~DropFails(pipes[h], nr[h], nw[h])
              /\ pipes'[h] = DropEnds(pipes[h], nr[h], nw[h])
              /\ Cardinality(EndsOf(h, "RPIPE")') = Cardinality(EndsOf(h, "RPIPE")) - nr[h]
              /\ Cardinality(EndsOf(h, "WPIPE")') = Cardinality(EndsOf(h, "WPIPE")) - nw[h]
  <2>0. \A u : Cardinality(EndsOf(h, u)) \in Nat
    <3>1. \A u : EndsOf(h, u) \in SUBSET (Procs \X Fds)
      BY DEF EndsOf
    <3> QED
      BY <3>1, EndsFinite
  <2>1. CASE h = g
    <3>1. nr[h] = a /\ nw[h] = b
      BY <2>1
    <3>2. pipes'[h] = DropEnds(pipes[h], a, b)
      BY Zenon, <1>5, <2>1 DEF IInv, TypeOK
    <3>3. /\ Cardinality(EndsOf(h, "RPIPE")') = Cardinality(EndsOf(h, "RPIPE")) - a
          /\ Cardinality(EndsOf(h, "WPIPE")') = Cardinality(EndsOf(h, "WPIPE")) - b
      <4> HIDE DEF t, g
      <4>1. CASE t = "RPIPE"
        <5>1. EndsOf(h, "WPIPE")' = EndsOf(h, "WPIPE")
          BY <1>8, <4>1
        <5>2. EndsOf(h, "RPIPE")' = EndsOf(g, t) \ {<<p, fd>>}
          BY <1>8, <2>1, <4>1
        <5>3. Cardinality(EndsOf(h, "RPIPE")') = Cardinality(EndsOf(h, "RPIPE")) - 1
          BY <1>9, <2>1, <4>1, <5>2
        <5>4. Cardinality(EndsOf(h, "WPIPE")') = Cardinality(EndsOf(h, "WPIPE"))
          BY <5>1
        <5>5. a = 1 /\ b = 0
          BY <1>3, <4>1 DEF t
        <5> QED
          BY <2>0, <5>3, <5>4, <5>5
      <4>2. CASE t = "WPIPE"
        <5>1. EndsOf(h, "RPIPE")' = EndsOf(h, "RPIPE")
          BY <1>8, <4>2
        <5>2. EndsOf(h, "WPIPE")' = EndsOf(g, t) \ {<<p, fd>>}
          BY <1>8, <2>1, <4>2
        <5>3. Cardinality(EndsOf(h, "WPIPE")') = Cardinality(EndsOf(h, "WPIPE")) - 1
          BY <1>9, <2>1, <4>2, <5>2
        <5>4. Cardinality(EndsOf(h, "RPIPE")') = Cardinality(EndsOf(h, "RPIPE"))
          BY <5>1
        <5>5. b = 1 /\ a = 0
          BY <1>3, <4>2 DEF t
        <5> QED
          BY <2>0, <5>3, <5>4, <5>5
      <4> QED
        BY <1>1, <4>1, <4>2
    <3> HIDE DEF nr, nw, g
    <3> QED
      BY <1>4, <2>1, <3>1, <3>2, <3>3
  <2>2. CASE h # g
    <3>1. nr[h] = 0 /\ nw[h] = 0
      BY <2>2
    <3>2. pipes'[h] = pipes[h]
      BY Zenon, <1>5, <2>2 DEF IInv, TypeOK
    <3>3. DropEnds(pipes[h], 0, 0) = pipes[h]
      BY DEF DropEnds
    <3>4. ~DropFails(pipes[h], 0, 0)
      BY DEF DropFails, Wakes
    <3>5. EndsOf(h, "RPIPE")' = EndsOf(h, "RPIPE") /\ EndsOf(h, "WPIPE")' = EndsOf(h, "WPIPE")
      BY <1>8, <2>2
    <3> HIDE DEF nr, nw
    <3> QED
      BY <2>0, <3>1, <3>2, <3>3, <3>4, <3>5
  <2> QED
    BY Zenon, <2>1, <2>2
<1>11. ASSUME NEW q \in Procs
       PROVE  state'[q] = IF \E h \in PIPES : pipes[h].reader = q /\ Wakes(pipes[h], nw[h])
                          THEN "READY" ELSE state[q]
  <2>1. state'[q] = IF pipes[g].reader = q /\ Wakes(pipes[g], b) THEN "READY" ELSE state[q]
    BY Zenon, <1>5
  <2>2. nw[g] = b /\ \A h \in PIPES : h # g => nw[h] = 0
    BY <1>2
  <2>3. \A h \in PIPES : h # g => ~Wakes(pipes[h], nw[h])
    BY <2>2 DEF Wakes
  <2> HIDE DEF nw, g
  <2> QED
    BY <1>2, <2>1, <2>2, <2>3
<1>12. nr \in [PIPES -> Nat] /\ nw \in [PIPES -> Nat]
  BY <1>3
<1> HIDE DEF nr, nw, g, t
<1>13. state'[p] = "READY"
  BY <1>1, <1>11
<1>14. Drops(p, nr, nw)
  BY <1>1, <1>7, <1>10, <1>11, <1>13 DEF Drops
<1>15. (\A h \in PIPES : CountsOf(h)') /\ Sleepers'
  BY <1>12, <1>14, DropsCare
<1>16. Descriptors'
  <2>1. ~corrupt'
    BY Zenon, <1>5 DEF CareInv, Descriptors
  <2>2. ASSUME NEW q \in Procs, q # p PROVE state'[q] = state[q] \/ state'[q] = "READY"
    BY <1>11, <2>2
  <2>3. Descriptors
    BY DEF CareInv
  <2>4. ASSUME NEW q \in Procs, NEW f \in Fds
        PROVE  /\ fdesc'[q][f].open => fdesc'[q][f].inuse
               /\ fdesc'[q][f].inuse => state'[q] # "CLOSE"
               /\ (fdesc'[q][f].inuse /\ fdesc'[q][f].file_type # "TTY") => fdesc'[q][f].pipe \in PIPES
               /\ (fdesc'[q][f].inuse /\ state'[q] = "ZOMBIE") => fdesc'[q][f].open
    <3>0. /\ fdesc[q][f].open => fdesc[q][f].inuse
          /\ fdesc[q][f].inuse => state[q] # "CLOSE"
          /\ (fdesc[q][f].inuse /\ fdesc[q][f].file_type # "TTY") => fdesc[q][f].pipe \in PIPES
          /\ (fdesc[q][f].inuse /\ state[q] = "ZOMBIE") => fdesc[q][f].open
      BY Zenon, <2>3 DEF Descriptors
    <3>1. CASE q = p
      BY Zenon, <1>6, <1>13, <3>0, <3>1
    <3>2. CASE q # p
      <4>1. fdesc'[q] = fdesc[q]
        BY <1>7, <3>2
      <4>2. state'[q] = state[q] \/ state'[q] = "READY"
        BY <2>2, <3>2
      <4> QED
        BY Zenon, <3>0, <4>1, <4>2
    <3> QED
      BY Zenon, <3>1, <3>2
  <2> QED
    BY Zenon, <2>1, <2>4 DEF Descriptors
<1> QED
  BY <1>15, <1>16 DEF CareInv

(***************************************************************************)
(* A read or write of pipe g leaves each process alone, or awake and no    *)
(* longer counted on by g, or asleep and counted on by g in one role.      *)
(***************************************************************************)
Stays(x, g) ==
  /\ state'[x] = state[x]
  /\ Reads(x, g)' <=> Reads(x, g)
  /\ Writes(x, g)' <=> Writes(x, g)

Awake(x, g) ==
  /\ state[x] # "PENDING" \/ Reads(x, g) \/ Writes(x, g)
  /\ state'[x] = "READY" /\ ~Reads(x, g)' /\ ~Writes(x, g)'

Asleep(x, g) ==
  /\ state[x] # "PENDING" /\ state'[x] = "PENDING"
  /\ Reads(x, g)' <=> ~Writes(x, g)'

LEMMA OnePipeCare ==
  ASSUME CareInv, NEW g \in PIPES, pipes[g].live, UNCHANGED <<fdesc, corrupt>>,
         \A h \in PIPES : h # g => pipes'[h] = pipes[h],
         pipes'[g].live = pipes[g].live,
         pipes'[g].rref = pipes[g].rref, pipes'[g].wref = pipes[g].wref,
         pipes'[g].ended => (pipes'[g].wref = 0 /\ pipes'[g].len = 0),
         pipes'[g].writer # NULL => \E fd \in Fds : <<pipes'[g].writer, fd>> \in EndsOf(g, "WPIPE"),
         \A x \in Procs : Stays(x, g) \/ Awake(x, g) \/ Asleep(x, g)
  PROVE  CareInv'
<1>1. \A h, t : EndsOf(h, t)' = EndsOf(h, t)
  BY Zenon DEF EndsOf, Ends
<1>2. Descriptors'
  <2>1. Descriptors /\ fdesc' = fdesc /\ corrupt' = corrupt
    BY DEF CareInv
  <2>2. ASSUME NEW x \in Procs
        PROVE  /\ state'[x] = "CLOSE" => state[x] = "CLOSE"
               /\ state'[x] = "ZOMBIE" => state[x] = "ZOMBIE"
    BY DEF Stays, Awake, Asleep
  <2>3. ASSUME NEW x \in Procs, NEW fd \in Fds
        PROVE  /\ fdesc[x][fd].open => fdesc[x][fd].inuse
               /\ fdesc[x][fd].inuse => state'[x] # "CLOSE"
               /\ (fdesc[x][fd].inuse /\ fdesc[x][fd].file_type # "TTY") => fdesc[x][fd].pipe \in PIPES
               /\ (fdesc[x][fd].inuse /\ state'[x] = "ZOMBIE") => fdesc[x][fd].open
    BY Zenon, <2>1, <2>2 DEF Descriptors
  <2>4. ASSUME NEW x \in Procs, NEW fd \in Fds PROVE fdesc'[x][fd] = fdesc[x][fd]
    BY Zenon, <2>1
  <2>5. ~corrupt'
    <3>1. ~corrupt
      BY <2>1 DEF Descriptors
    <3> QED
      BY <2>1, <3>1
  <2> QED
    BY Zenon, <2>3, <2>4, <2>5 DEF Descriptors
<1>3. ASSUME NEW h \in PIPES PROVE CountsOf(h)'
  <2>1. CountsOf(h)
    BY DEF CareInv
  <2>2. CASE h = g
    BY Zenon, <1>1, <2>1, <2>2 DEF CountsOf
  <2>3. CASE h # g
    BY <1>1, <2>1, <2>3 DEF CountsOf
  <2> QED
    BY <2>2, <2>3
<1>4. Sleepers
  BY DEF CareInv
<1>5. ASSUME NEW h \in PIPES
      PROVE  /\ ~pipes'[h].live => (pipes'[h].reader = NULL /\ pipes'[h].writer = NULL)
             /\ pipes'[h].writer # NULL =>
                  \E fd \in Fds : <<pipes'[h].writer, fd>> \in EndsOf(h, "WPIPE")'
  <2>1. CASE h = g
    BY Zenon, <1>1, <2>1
  <2>2. CASE h # g
    BY <1>1, <1>4, <2>2 DEF Sleepers
  <2> QED
    BY <2>1, <2>2
<1>6. ASSUME NEW x \in Procs, NEW h \in PIPES, h # g
      PROVE  (Reads(x, h)' <=> Reads(x, h)) /\ (Writes(x, h)' <=> Writes(x, h))
  BY <1>6 DEF Reads, Writes
<1>7. ASSUME NEW x \in Procs
      PROVE  /\ state'[x] = "PENDING" <=> \E h \in PIPES : Reads(x, h)' \/ Writes(x, h)'
             /\ \A h, k \in PIPES :
                  /\ ~(Reads(x, h)' /\ Writes(x, k)')
                  /\ (Reads(x, h)' /\ Reads(x, k)') => h = k
                  /\ (Writes(x, h)' /\ Writes(x, k)') => h = k
  <2>1. /\ state[x] = "PENDING" <=> \E h \in PIPES : Reads(x, h) \/ Writes(x, h)
        /\ \A h, k \in PIPES :
             /\ ~(Reads(x, h) /\ Writes(x, k))
             /\ (Reads(x, h) /\ Reads(x, k)) => h = k
             /\ (Writes(x, h) /\ Writes(x, k)) => h = k
    BY <1>4 DEF Sleepers
  <2>2. CASE Stays(x, g)
    <3>1. \A h \in PIPES : (Reads(x, h)' <=> Reads(x, h)) /\ (Writes(x, h)' <=> Writes(x, h))
      BY <1>6, <2>2 DEF Stays
    <3> QED
      BY <2>1, <2>2, <3>1 DEF Stays
  <2>3. CASE Awake(x, g)
    <3>1. \A h \in PIPES : ~Reads(x, h)' /\ ~Writes(x, h)'
      BY <1>6, <2>1, <2>3 DEF Awake
    <3> QED
      BY <2>3, <3>1 DEF Awake
  <2>4. CASE Asleep(x, g)
    <3>1. \A h \in PIPES : h # g => ~Reads(x, h)' /\ ~Writes(x, h)'
      BY <1>6, <2>1, <2>4 DEF Asleep
    <3> QED
      BY <2>4, <3>1 DEF Asleep
  <2> QED
    BY <2>2, <2>3, <2>4
<1>8. Sleepers'
  BY <1>5, <1>7 DEF Sleepers
<1> QED
  BY Zenon, <1>2, <1>3, <1>8 DEF CareInv

(* Nobody who is ready is counted on.                                      *)
LEMMA ReadyIsFree ==
  ASSUME CareInv, NEW p \in Procs, state[p] = "READY", NEW g \in PIPES
  PROVE  ~Reads(p, g) /\ ~Writes(p, g)
BY DEF CareInv, Sleepers

LEMMA SysReadCare ==
  ASSUME IInv, CareInv, NEW p \in Procs, NEW fd \in Fds, NEW n \in Sizes, SysRead(p, fd, n),
         fdesc[p][fd].open
  PROVE  CareInv'
<1>0. PICK g : g = fdesc[p][fd].pipe
  OBVIOUS
<1> DEFINE P  == pipes[g]
           pp == [P EXCEPT !.reader = p, !.rsiz = n]
           rr == pipe_read(pp)
           ee == [pp EXCEPT !.ended = TRUE]
<1>1. /\ state[p] = "READY" /\ fdesc[p][fd].inuse /\ fdesc[p][fd].file_type = "RPIPE"
      /\ P.live /\ P.reader = NULL /\ UNCHANGED <<fdesc, corrupt>>
  BY Zenon, <1>0 DEF SysRead, May, MayUse
<1>2. g \in PIPES
  BY <1>0, <1>1, OpenEndCounts DEF IInv
<1>3. Good(P) /\ P \in PipeRec /\ pipes \in [PIPES -> PipeRec]
      /\ state \in [Procs -> {"READY", "PENDING", "ZOMBIE", "CLOSE"}]
  BY <1>2 DEF IInv, Good, TypeOK
<1>4. n \in Nat /\ n > 0 /\ p # NULL /\ \A x \in Procs : x # NULL
  BY PipeAssumption, NullIsNoProcess DEF Sizes
<1>5. pp \in PipeRec /\ ee \in PipeRec
  BY Zenon, <1>3, <1>4 DEF PipeRec
<1>6. /\ pp.len = P.len /\ pp.head = P.head /\ pp.buf = P.buf
      /\ pp.wptr = P.wptr /\ pp.wsiz = P.wsiz
      /\ pp.writer = P.writer /\ pp.nb = P.nb /\ pp.got = P.got
      /\ pp.intact = P.intact /\ pp.reader = p /\ pp.rsiz = n
      /\ pp.rref = P.rref /\ pp.wref = P.wref /\ pp.ended = P.ended /\ pp.live = P.live
  BY <1>3 DEF PipeRec
<1>7. /\ ee.len = pp.len /\ ee.writer = pp.writer /\ ee.reader = pp.reader
      /\ ee.rref = pp.rref /\ ee.wref = pp.wref /\ ee.live = pp.live
  BY <1>5 DEF PipeRec
<1>8. \/ /\ pp.len > 0
         /\ pipes' = [pipes EXCEPT ![g] = rr]
         /\ state' = [q \in Procs |->
                        IF q = pp.writer /\ rr.writer = NULL THEN "READY" ELSE state[q]]
      \/ /\ pp.len = 0 /\ pp.wref = 0
         /\ pipes' = [pipes EXCEPT ![g] = ee]
         /\ UNCHANGED state
      \/ /\ pp.len = 0 /\ pp.wref > 0
         /\ pipes' = [pipes EXCEPT ![g] = pp]
         /\ state' = [state EXCEPT ![p] = "PENDING"]
  BY Zenon, <1>0 DEF SysRead
<1>9. CountsOf(g) /\ Sleepers
  BY <1>2 DEF CareInv
<1>10. P.writer # NULL => \E f \in Fds : <<P.writer, f>> \in EndsOf(g, "WPIPE")
  BY <1>2, <1>9 DEF Sleepers
<1> HIDE DEF P, pp, ee
<1>11. CASE pp.len > 0
  <2>1. InOrder(pp) /\ pp.len < BUFLEN
    BY <1>3, <1>6 DEF Good, InOrder, RingOK
  <2>2. /\ rr.rref = pp.rref /\ rr.wref = pp.wref /\ rr.ended = pp.ended
        /\ rr.live = pp.live /\ rr.reader = NULL /\ rr.writer \in {NULL, pp.writer}
    BY <1>4, <1>5, <1>6, <1>11, <2>1, PipeReadEnds
  <2> HIDE DEF rr
  <2>3. /\ pipes'[g] = rr /\ \A h \in PIPES : h # g => pipes'[h] = pipes[h]
        /\ \A q \in Procs : state'[q] = IF q = P.writer /\ rr.writer = NULL THEN "READY"
                                        ELSE state[q]
    BY <1>2, <1>3, <1>6, <1>8, <1>11
  <2>4. ~rr.ended
    BY <1>6, <1>9, <1>11, <2>2 DEF CountsOf, P
  <2>5. ASSUME NEW x \in Procs PROVE Stays(x, g) \/ Awake(x, g)
    <3>1. ~Reads(x, g) /\ ~Reads(x, g)'
      BY <1>1, <1>4, <2>2, <2>3 DEF Reads, P
    <3>2. CASE x = P.writer /\ rr.writer = NULL
      <4>1. Writes(x, g) /\ ~Writes(x, g)'
        BY Zenon, <1>4, <2>3, <3>2 DEF Writes, P
      <4> QED
        BY Zenon, <2>3, <3>1, <3>2, <4>1 DEF Awake
    <3>3. CASE ~(x = P.writer /\ rr.writer = NULL)
      <4>1. Writes(x, g)' <=> Writes(x, g)
        BY <1>4, <1>6, <2>2, <2>3, <3>3 DEF Writes, P
      <4> QED
        BY <2>3, <3>1, <3>3, <4>1 DEF Stays
    <3> QED
      BY <3>2, <3>3
  <2>6. rr.writer # NULL => \E f \in Fds : <<rr.writer, f>> \in EndsOf(g, "WPIPE")
    BY <1>6, <1>10, <2>2
  <2> QED
    BY Zenon, <1>1, <1>2, <1>6, <2>2, <2>3, <2>4, <2>5, <2>6, OnePipeCare DEF P
<1>12. CASE pp.len = 0 /\ pp.wref = 0 /\ pipes' = [pipes EXCEPT ![g] = ee] /\ UNCHANGED state
  <2>1. pipes'[g] = ee /\ \A h \in PIPES : h # g => pipes'[h] = pipes[h]
    BY <1>2, <1>3, <1>12
  <2>2. ASSUME NEW x \in Procs PROVE Stays(x, g)
    BY <1>6, <1>7, <1>12, <2>1 DEF Stays, Reads, Writes, P
  <2>3. /\ pipes'[g].live = P.live /\ pipes'[g].rref = P.rref /\ pipes'[g].wref = P.wref
        /\ pipes'[g].wref = 0 /\ pipes'[g].len = 0 /\ pipes'[g].writer = P.writer
    BY <1>6, <1>7, <1>12, <2>1
  <2> QED
    BY Zenon, <1>1, <1>2, <1>10, <2>1, <2>2, <2>3, OnePipeCare DEF P
<1>13. CASE /\ pp.len = 0 /\ pp.wref > 0 /\ pipes' = [pipes EXCEPT ![g] = pp]
            /\ state' = [state EXCEPT ![p] = "PENDING"]
  <2>1. /\ pipes'[g] = pp /\ \A h \in PIPES : h # g => pipes'[h] = pipes[h]
        /\ state'[p] = "PENDING" /\ \A q \in Procs : q # p => state'[q] = state[q]
    BY <1>2, <1>3, <1>13
  <2>2. ~pp.ended
    <3>1. pp.wref # 0
      BY <1>5, <1>13, PipeFields
    <3> QED
      BY <1>6, <1>9, <3>1 DEF CountsOf, P
  <2>3. ~Writes(p, g)
    BY <1>1, <1>2, ReadyIsFree
  <2>4. ASSUME NEW x \in Procs PROVE Stays(x, g) \/ Asleep(x, g)
    <3>1. Writes(x, g)' <=> Writes(x, g)
      BY <1>6, <2>1 DEF Writes, P
    <3>2. CASE x = p
      <4>1. Reads(p, g)'
        BY <1>6, <1>13, <2>1 DEF Reads
      <4> QED
        BY <1>1, <2>1, <2>3, <3>1, <3>2, <4>1 DEF Asleep
    <3>3. CASE x # p
      <4>1. ~Reads(x, g) /\ ~Reads(x, g)'
        BY <1>1, <1>4, <1>6, <2>1, <3>3 DEF Reads, P
      <4> QED
        BY <2>1, <3>1, <3>3, <4>1 DEF Stays
    <3> QED
      BY <3>2, <3>3
  <2> QED
    BY Zenon, <1>1, <1>2, <1>6, <1>10, <2>1, <2>2, <2>4, OnePipeCare DEF P
<1> QED
  BY <1>8, <1>11, <1>12, <1>13

(* sys_write of no more bytes than fit into the ring.                      *)
LEMMA SysWriteCare ==
  ASSUME IInv, CareInv, NEW p \in Procs, NEW fd \in Fds, NEW n \in Sizes, SysWrite(p, fd, n),
         fdesc[p][fd].open, n < BUFLEN
  PROVE  CareInv'
<1>0. PICK g : g = fdesc[p][fd].pipe
  OBVIOUS
<1> DEFINE P  == pipes[g]
           pp == [P EXCEPT !.writer = p, !.wsiz = n, !.wptr = 0, !.nb = P.nb + n]
           rr == pipe_write(pp)
           k  == WriteSize(pp)
<1>1. /\ state[p] = "READY" /\ fdesc[p][fd].inuse /\ fdesc[p][fd].file_type = "WPIPE"
      /\ P.live /\ P.writer = NULL /\ UNCHANGED <<fdesc, corrupt>>
  BY <1>0 DEF SysWrite, May, MayUse
<1>2. g \in PIPES /\ P.wref > 0
  BY Zenon, <1>0, <1>1, OpenEndCounts DEF IInv
<1>3. Good(P) /\ P \in PipeRec /\ pipes \in [PIPES -> PipeRec]
      /\ state \in [Procs -> {"READY", "PENDING", "ZOMBIE", "CLOSE"}]
  BY <1>2 DEF IInv, Good, TypeOK
<1>4. n \in Nat /\ n > 0 /\ p # NULL /\ \A x \in Procs : x # NULL
  BY PipeAssumption, NullIsNoProcess DEF Sizes
<1>5. pp \in PipeRec
  <2>1. P.nb + n \in Nat
    BY <1>3, <1>4, PipeFields
  <2> QED
    BY Zenon, <1>3, <1>4, <2>1 DEF PipeRec
<1>6. /\ pp.len = P.len /\ pp.head = P.head /\ pp.buf = P.buf
      /\ pp.wptr = 0 /\ pp.wsiz = n /\ pp.writer = p /\ pp.nb = P.nb + n
      /\ pp.got = P.got /\ pp.intact = P.intact
      /\ pp.reader = P.reader /\ pp.rsiz = P.rsiz
      /\ pp.rref = P.rref /\ pp.wref = P.wref /\ pp.ended = P.ended /\ pp.live = P.live
  BY <1>3 DEF PipeRec
<1>7. /\ pipes' = [pipes EXCEPT ![g] = rr]
      /\ state' = [q \in Procs |->
                     IF q = p THEN IF k = n THEN "READY" ELSE "PENDING"
                     ELSE IF q = pp.reader /\ k > 0 THEN "READY" ELSE state[q]]
  BY <1>0 DEF SysWrite
<1>8. CountsOf(g)
  BY <1>2 DEF CareInv
<1>9. <<p, fd>> \in EndsOf(g, "WPIPE")
  BY <1>0, <1>1 DEF EndsOf, Ends
<1>10. ~P.ended
  <2>1. P.wref # 0
    BY <1>2, <1>3, PipeFields
  <2> QED
    BY <1>8, <2>1 DEF CountsOf, P
<1> HIDE DEF P, pp
<1>11. InOrder(pp) /\ pp.len < BUFLEN /\ (pp.reader # NULL => pp.len = 0 /\ pp.rsiz > 0)
  <2>1. P.got + P.len = P.nb
    BY <1>1, <1>3, PipeFields DEF Good, RingOK, InOrder
  <2>2. pp.got + pp.len = pp.nb - (pp.wsiz - pp.wptr)
    BY <1>3, <1>4, <1>6, <2>1, PipeFields
  <2> QED
    BY <1>3, <1>6, <2>2 DEF Good, RingOK, InOrder
<1>12. /\ rr.rref = pp.rref /\ rr.wref = pp.wref /\ rr.ended = pp.ended
       /\ rr.live = pp.live /\ rr.reader = NULL
       /\ rr.writer = IF k = pp.wsiz THEN NULL ELSE pp.writer
       /\ pp.reader # NULL => (k = pp.wsiz /\ k > 0)
  BY <1>4, <1>5, <1>6, <1>11, PipeWriteEnds
<1> HIDE DEF rr, k
<1>13. /\ pipes'[g] = rr /\ \A h \in PIPES : h # g => pipes'[h] = pipes[h]
       /\ state'[p] = IF k = n THEN "READY" ELSE "PENDING"
       /\ \A q \in Procs : q # p =>
            state'[q] = IF q = P.reader /\ k > 0 THEN "READY" ELSE state[q]
  BY <1>2, <1>3, <1>6, <1>7
<1>14. ASSUME NEW x \in Procs PROVE Stays(x, g) \/ Awake(x, g) \/ Asleep(x, g)
  <2>1. ~Reads(x, g)' /\ ~Writes(x, g)
    BY Zenon, <1>1, <1>4, <1>12, <1>13 DEF Reads, Writes, P
  <2>2. Writes(x, g)' <=> (x = p /\ k # n)
    BY Zenon, <1>4, <1>6, <1>12, <1>13 DEF Writes
  <2>3. CASE x = p
    <3>1. CASE k = n
      BY Zenon, <1>1, <1>13, <2>1, <2>2, <2>3, <3>1 DEF Awake
    <3>2. CASE k # n
      BY Zenon, <1>1, <1>13, <2>1, <2>2, <2>3, <3>2 DEF Asleep
    <3> QED
      BY <3>1, <3>2
  <2>4. CASE x # p /\ x = P.reader
    <3>1. k > 0 /\ Reads(x, g)
      BY <1>2, <1>4, <1>6, <1>12, <2>4 DEF Reads, P
    <3> QED
      BY Zenon, <1>13, <2>1, <2>2, <2>4, <3>1 DEF Awake
  <2>5. CASE x # p /\ x # P.reader
    <3>1. ~Reads(x, g)
      BY <2>5 DEF Reads, P
    <3>2. state'[x] = state[x]
      BY <1>13, <2>5
    <3> QED
      BY Zenon, <2>1, <2>2, <2>5, <3>1, <3>2 DEF Stays
  <2> QED
    BY <2>3, <2>4, <2>5
<1>15. /\ pipes'[g].live = P.live /\ pipes'[g].rref = P.rref /\ pipes'[g].wref = P.wref
       /\ ~pipes'[g].ended
       /\ pipes'[g].writer # NULL => pipes'[g].writer = p
  BY <1>6, <1>10, <1>12, <1>13
<1> QED
  BY Zenon, <1>1, <1>2, <1>9, <1>13, <1>14, <1>15, OnePipeCare DEF P

(* sys_fork by a process that has closed nothing: the child, in a slot     *)
(* that had no descriptor, holds as many new ends as the counts go up.     *)
LEMMA ForkCare ==
  ASSUME IInv, CareInv, NEW p \in Procs, Fork(p), HasAllOpen(p)
  PROVE  CareInv'
<1> DEFINE nr(g) == Cardinality(Ends(p, g, "RPIPE"))
           nw(g) == Cardinality(Ends(p, g, "WPIPE"))
<1>1. ASSUME NEW g \in PIPES
      PROVE  /\ nr(g) \in Nat /\ nw(g) \in Nat
             /\ pipes[g] \in PipeRec /\ pipes[g].rref \in Nat /\ pipes[g].wref \in Nat
             /\ Ends(p, g, "RPIPE") # {} => pipes[g].rref > 0
             /\ Ends(p, g, "WPIPE") # {} => pipes[g].wref > 0
             /\ Ends(p, g, "WPIPE") = {} => nw(g) = 0
             /\ nr(g) + nw(g) > 0 => pipes[g].live
             /\ pipes[g].live <=> pipes[g].rref + pipes[g].wref > 0
  <2>1. CountsOf(g) /\ pipes[g] \in PipeRec /\ pipes[g].rref \in Nat /\ pipes[g].wref \in Nat
    BY PipeFields DEF CareInv, IInv, TypeOK
  <2>2. /\ nr(g) \in Nat /\ nw(g) \in Nat
        /\ Ends(p, g, "RPIPE") # {} => Cardinality(EndsOf(g, "RPIPE")) > 0
        /\ Ends(p, g, "WPIPE") # {} => Cardinality(EndsOf(g, "WPIPE")) > 0
        /\ Cardinality(EndsOf(g, "RPIPE")) >= nr(g)
        /\ Cardinality(EndsOf(g, "WPIPE")) >= nw(g)
    BY CountSplit
  <2>3. Ends(p, g, "WPIPE") = {} => nw(g) = 0
    BY FS_EmptySet
  <2> HIDE DEF nr, nw
  <2> QED
    BY <2>1, <2>2, <2>3 DEF CountsOf
<1>2. state[p] = "READY" /\ ~corrupt
  BY Zenon DEF Fork, May
<1>3. PICK n \in Procs :
        /\ state[n] = "CLOSE"
        /\ fdesc' = [fdesc EXCEPT ![n] = fdesc[p]]
        /\ pipes' = [g \in PIPES |-> [pipes[g] EXCEPT !.rref = @ + nr(g), !.wref = @ + nw(g)]]
        /\ state' = [state EXCEPT ![n] = "READY"]
        /\ UNCHANGED corrupt
  <2>1. ~\E g \in PIPES : ~pipes[g].live /\ Ends(p, g, "RPIPE") \cup Ends(p, g, "WPIPE") # {}
    BY <1>1
  <2> QED
    BY Zenon, <2>1 DEF Fork
<1>4. /\ n # p /\ fdesc'[n] = fdesc[p] /\ \A q \in Procs : q # n => fdesc'[q] = fdesc[q]
      /\ state'[n] = "READY" /\ \A q \in Procs : q # n => state'[q] = state[q]
  BY Zenon, <1>2, <1>3 DEF IInv, TypeOK
<1>5. \A fd \in Fds : ~fdesc[n][fd].inuse
  BY Zenon, <1>3 DEF CareInv, Descriptors
<1>6. ASSUME NEW g, NEW t
      PROVE  /\ EndsOf(g, t)' = EndsOf(g, t) \cup ({n} \X Ends(p, g, t))
             /\ Cardinality(EndsOf(g, t)') = Cardinality(EndsOf(g, t)) + Cardinality(Ends(p, g, t))
  <2>1. ASSUME NEW q \in Procs, NEW fd \in Fds
        PROVE  <<q, fd>> \in EndsOf(g, t)' <=>
                 (<<q, fd>> \in EndsOf(g, t) \/ (q = n /\ fd \in Ends(p, g, t)))
    <3>1. CASE q = n
      BY <1>4, <1>5, <3>1 DEF EndsOf, Ends, HasAllOpen
    <3>2. CASE q # n
      BY <1>4, <3>2 DEF EndsOf, Ends
    <3> QED
      BY <3>1, <3>2
  <2>2. EndsOf(g, t) \in SUBSET (Procs \X Fds) /\ EndsOf(g, t)' \subseteq Procs \X Fds
    BY DEF EndsOf
  <2>3. Ends(p, g, t) \subseteq Fds
    BY DEF Ends
  <2>4. EndsOf(g, t)' = EndsOf(g, t) \cup ({n} \X Ends(p, g, t))
    BY <2>1, <2>2, <2>3
  <2>5. \A x \in EndsOf(g, t) : x[1] # n
    BY <1>5 DEF EndsOf, Ends
  <2>6. IsFiniteSet(EndsOf(g, t))
    BY <2>2, EndsFinite
  <2>7. IsFiniteSet(Ends(p, g, t))
    <3>1. IsFiniteSet(Fds)
      BY PipeAssumption, FS_Interval DEF Fds
    <3> QED
      BY <2>3, <3>1, FS_Subset
  <2>8. Cardinality(EndsOf(g, t) \cup ({n} \X Ends(p, g, t))) =
          Cardinality(EndsOf(g, t)) + Cardinality(Ends(p, g, t))
    BY ONLY Zenon, <2>5, <2>6, <2>7, PairCount
  <2> QED
    BY <2>4, <2>8
<1>7. ASSUME NEW g \in PIPES
      PROVE  /\ pipes'[g].rref = pipes[g].rref + nr(g) /\ pipes'[g].wref = pipes[g].wref + nw(g)
             /\ pipes'[g].live = pipes[g].live /\ pipes'[g].ended = pipes[g].ended
             /\ pipes'[g].len = pipes[g].len /\ pipes'[g].reader = pipes[g].reader
             /\ pipes'[g].writer = pipes[g].writer
  <2>1. pipes'[g] = [pipes[g] EXCEPT !.rref = pipes[g].rref + nr(g), !.wref = pipes[g].wref + nw(g)]
    BY Zenon, <1>3
  <2> HIDE DEF nr, nw
  <2> QED
    BY <1>1, <2>1 DEF PipeRec
<1>8. Descriptors'
  <2>1. Descriptors /\ ~corrupt'
    BY Zenon, <1>3 DEF CareInv, Descriptors
  <2> QED
    BY <1>2, <1>4, <2>1 DEF Descriptors
<1>9. ASSUME NEW g \in PIPES PROVE CountsOf(g)'
  <2>1. CountsOf(g)
    BY DEF CareInv
  <2>2. /\ pipes'[g].rref = Cardinality(EndsOf(g, "RPIPE")')
        /\ pipes'[g].wref = Cardinality(EndsOf(g, "WPIPE")')
    BY <1>6, <1>7, <2>1 DEF CountsOf
  <2> HIDE DEF nr, nw
  <2>3. pipes'[g].live <=> pipes'[g].rref + pipes'[g].wref > 0
    BY <1>1, <1>7
  <2>4. pipes'[g].ended => (pipes'[g].live /\ pipes'[g].wref = 0 /\ pipes'[g].len = 0)
    <3>1. pipes[g].wref = 0 => nw(g) = 0
      BY <1>1
    <3> QED
      BY <1>7, <2>1, <3>1 DEF CountsOf
  <2> QED
    BY <2>2, <2>3, <2>4 DEF CountsOf
<1>10. ASSUME NEW x \in Procs, NEW g \in PIPES
       PROVE  (Reads(x, g)' <=> Reads(x, g)) /\ (Writes(x, g)' <=> Writes(x, g))
  <2>1. pipes[g].wref = 0 <=> pipes'[g].wref = 0
    BY <1>1, <1>7
  <2>2. pipes[g].wref \in Nat /\ pipes'[g].wref \in Nat
    BY <1>1, <1>7
  <2> HIDE DEF nr, nw
  <2> QED
    BY <1>7, <2>1, <2>2 DEF Reads, Writes
<1>11. Sleepers'
  <2>1. Sleepers
    BY DEF CareInv
  <2>2. ASSUME NEW g \in PIPES
        PROVE  /\ ~pipes'[g].live => (pipes'[g].reader = NULL /\ pipes'[g].writer = NULL)
               /\ pipes'[g].writer # NULL =>
                    \E fd \in Fds : <<pipes'[g].writer, fd>> \in EndsOf(g, "WPIPE")'
    BY <1>6, <1>7, <2>1 DEF Sleepers
  <2>3. ASSUME NEW x \in Procs PROVE state'[x] = "PENDING" <=> state[x] = "PENDING"
    BY Zenon, <1>3, <1>4
  <2> QED
    BY Zenon, <1>10, <2>1, <2>2, <2>3 DEF Sleepers
<1> QED
  BY <1>8, <1>9, <1>11 DEF CareInv

(* sys_pipe: both ends of a page that had none.                            *)
LEMMA SysPipeCare ==
  ASSUME IInv, CareInv, NEW p \in Procs, SysPipe(p)
  PROVE  CareInv'
<1> DEFINE New == [ZeroPipe EXCEPT !.live = TRUE, !.rref = 1, !.wref = 1]
           RF(g) == [inuse |-> TRUE, file_type |-> "RPIPE", pipe |-> g, open |-> TRUE]
           WF(g) == [inuse |-> TRUE, file_type |-> "WPIPE", pipe |-> g, open |-> TRUE]
<1>1. PICK g \in PIPES, r \in Fds, w \in Fds :
        /\ ~pipes[g].live /\ r < w
        /\ ~fdesc[p][r].inuse /\ ~fdesc[p][w].inuse
        /\ pipes' = [pipes EXCEPT ![g] = New]
        /\ fdesc' = [fdesc EXCEPT ![p][r] = RF(g), ![p][w] = WF(g)]
  BY Zenon DEF SysPipe
<1>2. state[p] = "READY" /\ UNCHANGED <<state, corrupt>>
  BY DEF SysPipe, May
<1>3. r # w
  BY <1>1, PipeAssumption DEF Fds
<1>4. /\ New.live /\ New.rref = 1 /\ New.wref = 1 /\ New.reader = NULL /\ New.writer = NULL
      /\ New.ended = FALSE
  BY DEF ZeroPipe
<1> HIDE DEF New
<1>5. pipes'[g] = New /\ \A h \in PIPES : h # g => pipes'[h] = pipes[h]
  BY <1>1 DEF IInv, TypeOK
<1>6. /\ fdesc'[p][r] = RF(g) /\ fdesc'[p][w] = WF(g)
      /\ \A f \in Fds : (f # r /\ f # w) => fdesc'[p][f] = fdesc[p][f]
      /\ \A q \in Procs : q # p => fdesc'[q] = fdesc[q]
  BY <1>1, <1>3 DEF IInv, TypeOK
<1>7. ~fdesc[p][r].open /\ ~fdesc[p][w].open
  BY <1>1 DEF CareInv, Descriptors
<1>8. EndsOf(g, "RPIPE") = {} /\ EndsOf(g, "WPIPE") = {}
  <2>1. CountsOf(g) /\ pipes[g].rref \in Nat /\ pipes[g].wref \in Nat
    BY PipeFields DEF CareInv, IInv, TypeOK
  <2>2. pipes[g].rref = 0 /\ pipes[g].wref = 0
    BY <1>1, <2>1 DEF CountsOf
  <2>3. \A t : EndsOf(g, t) \in SUBSET (Procs \X Fds)
    BY DEF EndsOf
  <2> QED
    BY <2>1, <2>2, <2>3, EndsFinite DEF CountsOf
<1>9. ASSUME NEW h, NEW t, NEW q \in Procs, NEW f \in Fds
      PROVE  <<q, f>> \in EndsOf(h, t)' <=>
               \/ <<q, f>> \in EndsOf(h, t)
               \/ q = p /\ h = g /\ ((f = r /\ t = "RPIPE") \/ (f = w /\ t = "WPIPE"))
  <2>1. CASE q # p
    BY <1>6, <2>1 DEF EndsOf, Ends
  <2>2. CASE q = p /\ f # r /\ f # w
    BY <1>6, <2>2 DEF EndsOf, Ends
  <2>3. CASE q = p /\ f = r
    BY <1>3, <1>6, <1>7, <2>3 DEF EndsOf, Ends
  <2>4. CASE q = p /\ f = w
    BY <1>3, <1>6, <1>7, <2>4 DEF EndsOf, Ends
  <2> QED
    BY <2>1, <2>2, <2>3, <2>4
<1>10. \A h, t : EndsOf(h, t) \subseteq Procs \X Fds /\ EndsOf(h, t)' \subseteq Procs \X Fds
  BY DEF EndsOf
<1>11. EndsOf(g, "RPIPE")' = {<<p, r>>} /\ EndsOf(g, "WPIPE")' = {<<p, w>>}
  BY <1>8, <1>9, <1>10
<1>12. \A h, t : h # g => EndsOf(h, t)' = EndsOf(h, t)
  BY <1>9, <1>10
<1>13. Descriptors'
  <2>1. Descriptors
    BY DEF CareInv
  <2>2. ASSUME NEW q \in Procs, NEW f \in Fds
        PROVE  /\ fdesc'[q][f].open => fdesc'[q][f].inuse
               /\ fdesc'[q][f].inuse => state'[q] # "CLOSE"
               /\ (fdesc'[q][f].inuse /\ fdesc'[q][f].file_type # "TTY")
                     => fdesc'[q][f].pipe \in PIPES
               /\ (fdesc'[q][f].inuse /\ state'[q] = "ZOMBIE") => fdesc'[q][f].open
    <3>1. CASE q = p /\ (f = r \/ f = w)
      BY <1>2, <1>6, <3>1
    <3>2. CASE ~(q = p /\ (f = r \/ f = w))
      <4>1. fdesc'[q][f] = fdesc[q][f]
        BY <1>6, <3>2
      <4> QED
        BY <1>2, <2>1, <4>1 DEF Descriptors
    <3> QED
      BY Zenon, <3>1, <3>2
  <2> QED
    BY <1>2, <2>1, <2>2 DEF Descriptors
<1>14. ASSUME NEW h \in PIPES PROVE CountsOf(h)'
  <2>1. CASE h = g
    <3>1. Cardinality(EndsOf(h, "RPIPE")') = 1 /\ Cardinality(EndsOf(h, "WPIPE")') = 1
      BY Zenon, <1>11, <2>1, FS_Singleton
    <3> QED
      BY <1>4, <1>5, <2>1, <3>1 DEF CountsOf
  <2>2. CASE h # g
    BY <1>5, <1>12, <2>2 DEF CareInv, CountsOf
  <2> QED
    BY <2>1, <2>2
<1>15. ASSUME NEW x \in Procs, NEW h \in PIPES
       PROVE  (Reads(x, h)' <=> Reads(x, h)) /\ (Writes(x, h)' <=> Writes(x, h))
  <2>1. CASE h = g
    <3>1. pipes[g].reader = NULL /\ pipes[g].writer = NULL
      BY <1>1 DEF CareInv, Sleepers
    <3> QED
      BY <1>4, <1>5, <2>1, <3>1, NullIsNoProcess DEF Reads, Writes
  <2>2. CASE h # g
    BY <1>5, <2>2 DEF Reads, Writes
  <2> QED
    BY <2>1, <2>2
<1>16. Sleepers'
  <2>1. Sleepers
    BY DEF CareInv
  <2>2. ASSUME NEW h \in PIPES
        PROVE  /\ ~pipes'[h].live => (pipes'[h].reader = NULL /\ pipes'[h].writer = NULL)
               /\ pipes'[h].writer # NULL =>
                    \E fd \in Fds : <<pipes'[h].writer, fd>> \in EndsOf(h, "WPIPE")'
    <3>1. CASE h = g
      BY <1>4, <1>5, <3>1
    <3>2. CASE h # g
      <4>1. pipes'[h] = pipes[h] /\ EndsOf(h, "WPIPE")' = EndsOf(h, "WPIPE")
        BY <1>5, <1>12, <3>2
      <4> QED
        BY <2>1, <4>1 DEF Sleepers
    <3> QED
      BY <3>1, <3>2
  <2> QED
    BY Zenon, <1>2, <1>15, <2>1, <2>2 DEF Sleepers
<1> QED
  BY <1>13, <1>14, <1>16 DEF CareInv

LEMMA ExitZombieCare ==
  ASSUME IInv, CareInv, NEW p \in Procs, ExitZombie(p), HasAllOpen(p)
  PROVE  CareInv'
<1>1. /\ state[p] = "READY" /\ state'[p] = "ZOMBIE" /\ UNCHANGED <<fdesc, pipes, corrupt>>
      /\ \A q \in Procs : q # p => state'[q] = state[q]
  BY DEF ExitZombie, May, IInv, TypeOK
<1>2. \A g, t : EndsOf(g, t)' = EndsOf(g, t)
  BY <1>1 DEF EndsOf, Ends
<1>3. Descriptors'
  BY <1>1 DEF CareInv, Descriptors, HasAllOpen
<1>4. ASSUME NEW g \in PIPES PROVE CountsOf(g)'
  BY <1>1, <1>2 DEF CareInv, CountsOf
<1>5. \A x \in Procs, g \in PIPES :
        (Reads(x, g)' <=> Reads(x, g)) /\ (Writes(x, g)' <=> Writes(x, g))
  BY <1>1 DEF Reads, Writes
<1>6. \A x \in Procs : state'[x] = "PENDING" <=> state[x] = "PENDING"
  BY <1>1
<1>7. Sleepers'
  BY Zenon, <1>1, <1>2, <1>5, <1>6 DEF CareInv, Sleepers
<1> QED
  BY <1>3, <1>4, <1>7 DEF CareInv

(* No freed page, and no cleared reader, is met through an open end.       *)
LEMMA NothingDead ==
  ASSUME IInv, CareInv, NEW p \in Procs, NEW fd \in Fds, fdesc[p][fd].open
  PROVE  ~SysUsesDead(p, fd)
<1> SUFFICES ASSUME SysUsesDead(p, fd) PROVE FALSE
  OBVIOUS
<1>1. /\ fdesc[p][fd].inuse /\ fdesc[p][fd].file_type \in {"RPIPE", "WPIPE"}
      /\ \/ ~pipes[fdesc[p][fd].pipe].live
         \/ fdesc[p][fd].file_type = "WPIPE" /\ DeadReader(pipes[fdesc[p][fd].pipe])
  BY DEF SysUsesDead, MayUse
<1>2. LET g == fdesc[p][fd].pipe
      IN  /\ g \in PIPES /\ pipes[g].live
          /\ fdesc[p][fd].file_type = "WPIPE" => pipes[g].wref > 0
  BY Zenon, <1>1, OpenEndCounts DEF IInv
<1> QED
  BY <1>1, <1>2, NoDeadReader

LEMMA InitCare == Init => CareInv
<1> SUFFICES ASSUME Init PROVE CareInv
  OBVIOUS
<1>1. Descriptors
  BY Zenon DEF Init, Descriptors
<1>2. \A g \in PIPES : EndsOf(g, "RPIPE") = {} /\ EndsOf(g, "WPIPE") = {}
  BY DEF Init, EndsOf, Ends
<1>3. ASSUME NEW g \in PIPES
      PROVE  /\ pipes[g].rref = 0 /\ pipes[g].wref = 0 /\ ~pipes[g].live /\ ~pipes[g].ended
             /\ pipes[g].reader = NULL /\ pipes[g].writer = NULL
  BY DEF Init, ZeroPipe
<1>4. ASSUME NEW g \in PIPES PROVE CountsOf(g)
  BY <1>2, <1>3, FS_EmptySet DEF CountsOf
<1>5. \A p \in Procs, g \in PIPES : ~Reads(p, g) /\ ~Writes(p, g)
  BY <1>3, NullIsNoProcess DEF Reads, Writes
<1>6. \A p \in Procs : state[p] # "PENDING"
  BY DEF Init
<1>7. Sleepers
  BY <1>3, <1>5, <1>6 DEF Sleepers
<1> QED
  BY <1>1, <1>4, <1>7 DEF CareInv

LEMMA NextCare == IInv /\ (careful => CareInv) /\ [MCNext]_mcvars => (careful => CareInv)'
<1> SUFFICES ASSUME IInv, careful => CareInv, [MCNext]_mcvars, careful' PROVE CareInv'
  OBVIOUS
<1>1. CASE UNCHANGED mcvars
  <2>1. UNCHANGED <<state, fdesc, pipes, corrupt>> /\ Descriptors /\ Sleepers
    BY <1>1 DEF mcvars, CareInv
  <2>2. \A g, t : EndsOf(g, t)' = EndsOf(g, t)
    BY <2>1 DEF EndsOf, Ends
  <2>3. \A q \in Procs, g \in PIPES :
          (Reads(q, g)' <=> Reads(q, g)) /\ (Writes(q, g)' <=> Writes(q, g))
    BY <2>1 DEF Reads, Writes
  <2>4. Descriptors'
    BY <2>1 DEF Descriptors
  <2>5. ASSUME NEW g \in PIPES PROVE CountsOf(g)'
    <3>1. CountsOf(g)
      BY <1>1 DEF CareInv, mcvars
    <3> QED
      BY <2>1, <2>2, <3>1 DEF CountsOf
  <2>6. Sleepers'
    BY Zenon, <2>1, <2>2, <2>3 DEF Sleepers
  <2> QED
    BY <2>4, <2>5, <2>6 DEF CareInv
<1>2. ASSUME NEW p \in Procs, SysPipe(p), UNCHANGED careful PROVE CareInv'
  BY <1>2, SysPipeCare
<1>3. ASSUME NEW p \in Procs, HandsOn(Fork(p), p) PROVE CareInv'
  BY Zenon, <1>3, ForkCare DEF HandsOn, HasAllOpen
<1>4. ASSUME NEW p \in Procs, HandsOn(Exit(p), p) PROVE CareInv'
  BY Zenon, <1>4, ClearProcCare DEF HandsOn, HasAllOpen, Exit, May
<1>5. ASSUME NEW p \in Procs, HandsOn(ExitZombie(p), p) PROVE CareInv'
  BY Zenon, <1>5, ExitZombieCare DEF HandsOn, HasAllOpen
<1>6. ASSUME NEW p \in Procs, Reap(p), UNCHANGED careful PROVE CareInv'
  <2>1. CareInv /\ state[p] = "ZOMBIE" /\ ClearProc(p)
    BY <1>6 DEF Reap
  <2>2. HasAllOpen(p)
    BY <2>1 DEF CareInv, Descriptors, HasAllOpen
  <2> QED
    BY <2>1, <2>2, ClearProcCare
<1>7. ASSUME NEW p \in Procs, NEW fd \in Fds, Uses(SysUsesDead(p, fd), p, fd) PROVE CareInv'
  BY Zenon, <1>7, NothingDead DEF Uses
<1>8. ASSUME NEW p \in Procs, NEW fd \in Fds, SysClose(p, fd),
             careful' = (careful /\ fdesc[p][fd].open /\ SparesOthers(p, fd))
      PROVE  CareInv'
  BY Zenon, <1>8, SysCloseCare
<1>9. ASSUME NEW p \in Procs, NEW fd \in Fds, NEW n \in Sizes, Uses(SysRead(p, fd, n), p, fd)
      PROVE  CareInv'
  BY Zenon, <1>9, SysReadCare DEF Uses
<1>10. ASSUME NEW p \in Procs, NEW fd \in Fds, NEW n \in Sizes, SysWrite(p, fd, n),
              careful' = (careful /\ fdesc[p][fd].open /\ n < BUFLEN)
       PROVE  CareInv'
  BY Zenon, <1>10, SysWriteCare
<1> QED
  BY Zenon, <1>1, <1>2, <1>3, <1>4, <1>5, <1>6, <1>7, <1>8, <1>9, <1>10 DEF MCNext

(* The histories of careful programs are behaviours of the kernel.         *)
LEMMA MCNextIsNext == [MCNext]_mcvars => [Next]_vars
BY DEF MCNext, Next, mcvars, vars, Uses, HandsOn

LEMMA CareInvariance == MCSpec => [](IInv /\ (careful => CareInv))
<1>1. MCInit => IInv /\ (careful => CareInv)
  BY InitIInv, InitCare DEF MCInit
<1>2. IInv /\ [MCNext]_mcvars => IInv'
  BY MCNextIsNext, NextIInv
<1>3. IInv /\ (careful => CareInv) /\ [MCNext]_mcvars => IInv' /\ (careful => CareInv)'
  BY <1>2, NextCare
<1> QED
  BY <1>1, <1>3, PTL DEF MCSpec

(***************************************************************************)
(* For every number of processes, descriptors and pipes, and every length  *)
(* of the ring: as long as all programs are careful, the counts kept by    *)
(* sys_pipe, sys_fork, sys_close and clear_proc are exact and no freed     *)
(* page is used.                                                           *)
(***************************************************************************)
THEOREM CarefulCounts == MCSpec => []CarefulRefs
<1>1. (careful => CareInv) => CarefulRefs
  BY DEF CareInv, Descriptors, CountsOf, CarefulRefs, RefsExact
<1> QED
  BY <1>1, CareInvariance, PTL

(***************************************************************************)
(* As long as all programs are careful, a read that returned 0 (sys_read,  *)
(* or woken by sys_close or clear_proc) was right: nobody holds a write    *)
(* end any more, and nothing is left in the ring.                          *)
(***************************************************************************)
THEOREM CarefulEnd == MCSpec => []CarefulEof
<1>1. ASSUME IInv, CareInv PROVE EofIsFinal
  <2>1. ASSUME NEW g \in PIPES, pipes[g].ended, NEW p \in Procs, NEW fd \in Fds,
               fdesc[p][fd].open, fdesc[p][fd].file_type = "WPIPE", fdesc[p][fd].pipe = g
        PROVE  FALSE
    <3>1. fdesc[p][fd].inuse
      BY <1>1, <2>1 DEF CareInv, Descriptors
    <3>2. pipes[g].wref > 0
      BY <1>1, <2>1, <3>1, OpenEndCounts DEF IInv
    <3>3. pipes[g].wref = 0
      BY <1>1, <2>1 DEF CareInv, CountsOf
    <3> QED
      BY <3>2, <3>3
  <2>2. \A g \in PIPES : pipes[g].ended => pipes[g].len = 0
    BY <1>1 DEF CareInv, CountsOf
  <2> QED
    BY <2>1, <2>2 DEF EofIsFinal
<1>2. IInv /\ (careful => CareInv) => CarefulEof
  BY <1>1 DEF CarefulEof
<1> QED
  BY <1>2, CareInvariance, PTL

(***************************************************************************)
(* As long as all programs are careful, whoever sleeps in sys_read or      *)
(* sys_write is registered with a live pipe: no wakeup is lost.            *)
(***************************************************************************)
THEOREM CarefulWakeups == MCSpec => []CarefulSleep
<1>1. ASSUME CareInv PROVE SleeperIsRegistered
  <2> SUFFICES ASSUME NEW p \in Procs, state[p] = "PENDING"
               PROVE  \E g \in PIPES : pipes[g].live /\ p \in {pipes[g].reader, pipes[g].writer}
    BY DEF SleeperIsRegistered
  <2>1. PICK g \in PIPES : Reads(p, g) \/ Writes(p, g)
    BY <1>1 DEF CareInv, Sleepers
  <2>2. p \in {pipes[g].reader, pipes[g].writer}
    BY <2>1 DEF Reads, Writes
  <2>3. pipes[g].live
    BY <1>1, <2>2, NullIsNoProcess DEF CareInv, Sleepers
  <2> QED
    BY <2>2, <2>3
<1>2. (careful => CareInv) => CarefulSleep
  BY <1>1 DEF CarefulSleep
<1> QED
  BY <1>2, CareInvariance, PTL
=============================================================================
