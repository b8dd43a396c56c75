----------------------------- MODULE PipeProofs -----------------------------
(***************************************************************************)
(* Proofs, for every buffer length, every number of processes, pipes and   *)
(* descriptors, and every size of read and write, that a pipe is a byte    *)
(* stream, that neither side waits for what is already there, and that a   *)
(* pipe implements the byte stream of Channel.                             *)
(***************************************************************************)
EXTENDS PipeStream, FiniteSetTheorems, TLAPS

USE DEF NULL

(* Positions of the ring, without the modulus.                             *)
LEMMA Wrap ==
  ASSUME NEW x \in Nat, x < 2 * BUFLEN
  PROVE  x % BUFLEN = IF x < BUFLEN THEN x ELSE x - BUFLEN
<1> DEFINE q == x \div BUFLEN
           r == x % BUFLEN
<1>0. BUFLEN \in Nat /\ BUFLEN > 0
  BY PipeAssumption
<1>1. q \in Int /\ r \in Int /\ x = BUFLEN * q + r /\ 0 <= r /\ r < BUFLEN
  BY <1>0
<1> HIDE DEF q, r
<1>2. q >= 0
  BY <1>0, <1>1
<1>3. q < 2
  BY <1>0, <1>1
<1>4. CASE q = 0
  BY <1>0, <1>1, <1>4 DEF r
<1>5. CASE q = 1
  BY <1>0, <1>1, <1>5 DEF r
<1> QED
  BY <1>1, <1>2, <1>3, <1>4, <1>5

LEMMA WrapLow == ASSUME NEW x \in Nat, x < BUFLEN PROVE x % BUFLEN = x
BY Wrap, PipeAssumption

LEMMA WrapHigh ==
  ASSUME NEW x \in Nat, BUFLEN <= x, x < 2 * BUFLEN PROVE x % BUFLEN = x - BUFLEN
<1>1. ~(x < BUFLEN)
  BY PipeAssumption
<1> QED
  BY <1>1, Wrap

(* The part of struct pipe that pipe_read and pipe_write work on.          *)
LEMMA PipeFields ==
  ASSUME NEW pp \in PipeRec
  PROVE  /\ pp.live \in BOOLEAN /\ pp.rref \in Nat /\ pp.wref \in Nat
         /\ pp.head \in Nat /\ pp.head < BUFLEN /\ pp.head \in Ring
         /\ pp.len \in Nat /\ pp.buf \in [Ring -> Nat]
         /\ pp.rsiz \in Nat /\ pp.wptr \in Nat /\ pp.wsiz \in Nat
         /\ pp.reader \in Procs \cup {NULL} /\ pp.writer \in Procs \cup {NULL}
         /\ pp.nb \in Nat /\ pp.got \in Nat /\ pp.intact \in BOOLEAN /\ pp.ended \in BOOLEAN
BY PipeAssumption DEF PipeRec, Ring

(* The copy loop of pipe_read: the bytes leave in order.                   *)
LEMMA CopyOutOK ==
  ASSUME NEW pp \in PipeRec, pp.len < BUFLEN, InOrder(pp)
  PROVE  LET n == ReadSize(pp)
             r == CopyOut(pp)
         IN  /\ r \in PipeRec /\ InOrder(r)
             /\ n \in Nat /\ n <= pp.len /\ n <= pp.rsiz /\ (n = pp.len \/ n = pp.rsiz)
             /\ r.len = pp.len - n /\ r.reader = NULL /\ r.writer = pp.writer
             /\ r.wptr = pp.wptr /\ r.wsiz = pp.wsiz
<1> DEFINE n == ReadSize(pp)
           r == CopyOut(pp)
           h == IF pp.head + n >= BUFLEN THEN pp.head + n - BUFLEN ELSE pp.head + n
           ok == pp.intact /\ \A i \in 0 .. n - 1 :
                   pp.buf[(pp.head + i) % BUFLEN] = pp.got + i + 1
<1>0. BUFLEN \in Nat /\ BUFLEN >= 2
  BY PipeAssumption
<1>1. n \in Nat /\ n <= pp.len /\ n <= pp.rsiz /\ (n = pp.len \/ n = pp.rsiz)
  BY PipeFields DEF ReadSize, Least
<1>2. ok
  BY <1>1, PipeFields DEF InOrder
<1>3. h \in Ring
  BY <1>0, <1>1, PipeFields DEF Ring
<1>4. r = [pp EXCEPT !.len = pp.len - n, !.head = h, !.rsiz = 0, !.reader = NULL,
                     !.got = pp.got + n, !.intact = TRUE]
  <2>1. r = [pp EXCEPT !.len = pp.len - n, !.head = h, !.rsiz = 0, !.reader = NULL,
                       !.got = pp.got + n, !.intact = ok]
    BY DEF CopyOut
  <2>2. ok = TRUE
    BY <1>2
  <2> QED
    BY Zenon, <2>1, <2>2
<1> HIDE DEF r, n, h, ok
<1>5. r \in PipeRec
  <2>1. pp.len - n \in Nat /\ pp.got + n \in Nat
    BY <1>1, PipeFields
  <2>2. 0 \in Nat /\ NULL \in Procs \cup {NULL} /\ TRUE \in BOOLEAN
    OBVIOUS
  <2> QED
    BY Zenon, <1>3, <1>4, <2>1, <2>2 DEF PipeRec
<1>6. /\ r.len = pp.len - n /\ r.reader = NULL /\ r.writer = pp.writer
      /\ r.wptr = pp.wptr /\ r.wsiz = pp.wsiz /\ r.nb = pp.nb /\ r.got = pp.got + n
      /\ r.head = h /\ r.buf = pp.buf /\ r.intact = TRUE
  BY <1>4 DEF PipeRec
<1>7. ASSUME NEW i \in 0 .. r.len - 1
      PROVE  r.buf[(r.head + i) % BUFLEN] = r.got + i + 1
  <2> DEFINE x == pp.head + (n + i)
  <2>1. i \in Nat /\ n + i < pp.len /\ n + i \in 0 .. pp.len - 1
    BY <1>1, <1>6, PipeFields
  <2>2. pp.buf[x % BUFLEN] = pp.got + (n + i) + 1
    BY <2>1 DEF InOrder
  <2>3. x \in Nat /\ x < 2 * BUFLEN /\ x - BUFLEN < pp.len /\ x - n - i = pp.head
    BY <1>0, <1>1, <2>1, PipeFields
  <2>4. h + i = IF pp.head + n < BUFLEN THEN x ELSE x - BUFLEN
    BY <1>0, <1>1, <2>1, PipeFields DEF h
  <2>5. pp.head + n >= BUFLEN => BUFLEN <= x
    BY <1>0, <1>1, <2>1, PipeFields
  <2>6. x - BUFLEN < BUFLEN
    BY <1>0, <2>3, PipeFields
  <2> HIDE DEF x
  <2>7. (h + i) % BUFLEN = x % BUFLEN
    <3>1. CASE pp.head + n < BUFLEN
      BY <2>4, <3>1
    <3>2. CASE ~(pp.head + n < BUFLEN)
      <4>1. h + i = x - BUFLEN /\ BUFLEN <= x
        BY <1>0, <1>1, <2>4, <2>5, <3>2, PipeFields
      <4> DEFINE y == h + i
      <4>2. y \in Nat /\ y < BUFLEN /\ y = x - BUFLEN
        BY <1>0, <2>3, <2>6, <4>1
      <4> HIDE DEF y
      <4>3. y % BUFLEN = y
        BY <4>2, WrapLow
      <4>4. x % BUFLEN = x - BUFLEN
        BY <2>3, <4>1, WrapHigh
      <4>5. y % BUFLEN = x % BUFLEN
        BY <4>2, <4>3, <4>4
      <4> QED
        BY <4>5 DEF y
    <3> QED
      BY <3>1, <3>2
  <2> QED
    BY <1>1, <1>6, <2>1, <2>2, <2>7, PipeFields
<1>8. InOrder(r)
  <2>1. r.got + r.len = r.nb - (r.wsiz - r.wptr)
    BY <1>1, <1>6, PipeFields DEF InOrder
  <2> QED
    BY <1>6, <1>7, <2>1 DEF InOrder
<1> QED
  BY <1>1, <1>5, <1>6, <1>8 DEF n, r

(* The copy loop of pipe_write: the bytes enter in order, behind those     *)
(* that are there, and overwrite none of them.                             *)
LEMMA CopyInOK ==
  ASSUME NEW pp \in PipeRec, pp.len < BUFLEN, pp.wptr <= pp.wsiz, InOrder(pp)
  PROVE  LET n == WriteSize(pp)
             w == CopyIn(pp)
         IN  /\ w \in PipeRec /\ InOrder(w)
             /\ n \in Nat /\ n <= BUFLEN - pp.len - 1 /\ n <= pp.wsiz - pp.wptr
             /\ n = BUFLEN - pp.len - 1 \/ n = pp.wsiz - pp.wptr
             /\ w.len = pp.len + n /\ w.reader = pp.reader /\ w.rsiz = pp.rsiz
             /\ IF pp.wptr + n = pp.wsiz
                THEN w.writer = NULL /\ w.wptr = 0 /\ w.wsiz = 0
                ELSE w.writer = pp.writer /\ w.wptr = pp.wptr + n /\ w.wsiz = pp.wsiz
<1> DEFINE n    == WriteSize(pp)
           w    == CopyIn(pp)
           next == pp.nb - pp.wsiz + pp.wptr + 1
           done == pp.wptr + n = pp.wsiz
           tail == (pp.head + pp.len) % BUFLEN
           b    == [j \in Ring |-> IF FromTail(pp, j) < n THEN next + FromTail(pp, j)
                                   ELSE pp.buf[j]]
           wp   == IF done THEN 0 ELSE pp.wptr + n
           ws   == IF done THEN 0 ELSE pp.wsiz
           wr   == IF done THEN NULL ELSE pp.writer
<1>0. BUFLEN \in Nat /\ BUFLEN >= 2
  BY PipeAssumption
<1>1. /\ n \in Nat /\ n <= BUFLEN - pp.len - 1 /\ n <= pp.wsiz - pp.wptr
      /\ n = BUFLEN - pp.len - 1 \/ n = pp.wsiz - pp.wptr
  BY <1>0, PipeFields DEF WriteSize, Least
<1>2. next = pp.got + pp.len + 1
  BY PipeFields DEF InOrder
<1>3. /\ tail \in Nat /\ tail < BUFLEN
      /\ pp.head + pp.len < BUFLEN => tail = pp.head + pp.len
      /\ pp.head + pp.len >= BUFLEN => tail = pp.head + pp.len - BUFLEN
  <2> DEFINE x == pp.head + pp.len
  <2>1. x \in Nat /\ x < 2 * BUFLEN
    BY <1>0, PipeFields
  <2>2. tail = x % BUFLEN
    OBVIOUS
  <2> HIDE DEF x, tail
  <2>3. tail = IF x < BUFLEN THEN x ELSE x - BUFLEN
    BY <2>1, <2>2, Wrap
  <2>4. tail \in Nat /\ tail < BUFLEN
    BY <1>0, <2>1, <2>3
  <2> QED
    BY <1>0, <2>1, <2>3, <2>4, PipeFields DEF x
<1>4. \A j \in Ring : FromTail(pp, j) = IF j >= tail THEN j - tail ELSE j - tail + BUFLEN
  BY DEF FromTail
<1> HIDE DEF tail
<1>5. \A j \in Ring : FromTail(pp, j) \in Nat
  BY <1>0, <1>3, <1>4 DEF Ring
<1>6. b \in [Ring -> Nat]
  <2>1. ASSUME NEW j \in Ring
        PROVE  (IF FromTail(pp, j) < n THEN next + FromTail(pp, j) ELSE pp.buf[j]) \in Nat
    BY <1>2, <1>5, PipeFields
  <2> QED
    BY <2>1
<1>7. wp \in Nat /\ ws \in Nat /\ wr \in Procs \cup {NULL} /\ pp.len + n \in Nat
  BY <1>1, PipeFields
<1>8. w = [pp EXCEPT !.buf = b, !.len = pp.len + n, !.wptr = wp, !.wsiz = ws, !.writer = wr]
  BY DEF CopyIn
<1> HIDE DEF w, b, wp, ws, wr
<1>9. w \in PipeRec
  BY Zenon, <1>6, <1>7, <1>8 DEF PipeRec
<1>10. /\ w.len = pp.len + n /\ w.reader = pp.reader /\ w.rsiz = pp.rsiz
       /\ w.writer = wr /\ w.wptr = wp /\ w.wsiz = ws /\ w.buf = b
       /\ w.head = pp.head /\ w.got = pp.got /\ w.nb = pp.nb /\ w.intact = pp.intact
  BY <1>8 DEF PipeRec
<1>11. ws - wp = (pp.wsiz - pp.wptr) - n
  BY <1>1, PipeFields DEF ws, wp
<1> HIDE DEF n, next
<1>12. ASSUME NEW i \in 0 .. w.len - 1
       PROVE  w.buf[(w.head + i) % BUFLEN] = w.got + i + 1
  <2> DEFINE x == pp.head + i
             j == x % BUFLEN
  <2>1. i \in Nat /\ i < pp.len + n /\ x \in Nat /\ x < 2 * BUFLEN
    BY <1>0, <1>1, <1>10, PipeFields
  <2> HIDE DEF x
  <2>2. j = IF x < BUFLEN THEN x ELSE x - BUFLEN
    BY <2>1, Wrap
  <2> HIDE DEF j
  <2>3. j \in Ring /\ j \in Nat /\ j < BUFLEN
    BY <1>0, <2>1, <2>2 DEF Ring
  <2>4. CASE i < pp.len
    <3>1. FromTail(pp, j) = BUFLEN - pp.len + i
      BY <1>0, <1>3, <1>4, <2>1, <2>2, <2>3, <2>4, PipeFields DEF x
    <3>2. ~(FromTail(pp, j) < n)
      BY <1>0, <1>1, <2>1, <3>1, PipeFields
    <3>3. b[j] = pp.buf[j]
      BY <2>3, <3>2 DEF b
    <3>4. pp.buf[(pp.head + i) % BUFLEN] = pp.got + i + 1
      BY <2>1, <2>4, PipeFields DEF InOrder
    <3> QED
      BY <1>10, <3>3, <3>4 DEF j, x
  <2>5. CASE i >= pp.len
    <3>1. FromTail(pp, j) = i - pp.len
      BY <1>0, <1>1, <1>3, <1>4, <2>1, <2>2, <2>3, <2>5, PipeFields DEF x
    <3>2. FromTail(pp, j) < n
      BY <1>1, <2>1, <3>1, PipeFields
    <3>3. b[j] = next + (i - pp.len)
      BY <2>3, <3>1, <3>2 DEF b
    <3>4. b[j] = pp.got + i + 1
      BY <1>2, <2>1, <3>3, PipeFields
    <3> QED
      BY <1>10, <3>4 DEF j, x
  <2> QED
    BY <2>1, <2>4, <2>5, PipeFields
<1>13. InOrder(w)
  <2>1. w.got + w.len = w.nb - (w.wsiz - w.wptr)
    BY <1>1, <1>7, <1>10, <1>11, PipeFields DEF InOrder
  <2>2. w.intact
    BY <1>10 DEF InOrder
  <2> QED
    BY <1>12, <2>1, <2>2 DEF InOrder
<1> QED
  BY <1>1, <1>9, <1>10, <1>13 DEF n, w, wp, ws, wr

(* What holds of every pipe page between two system calls.                 *)
Good(pp) == pp \in PipeRec /\ RingOK(pp) /\ InOrder(pp)

(***************************************************************************)
(* pipe_read, called with something to read: the reader is served and no   *)
(* writer stays behind unless the buffer is full again.                    *)
(***************************************************************************)
LEMMA PipeReadGood ==
  ASSUME NEW pp \in PipeRec, InOrder(pp), pp.len < BUFLEN, pp.len > 0, pp.rsiz > 0,
         pp.writer # NULL => pp.len = BUFLEN - 1 /\ pp.wptr < pp.wsiz,
         pp.writer = NULL => pp.wptr = 0 /\ pp.wsiz = 0
  PROVE  Good(pipe_read(pp))
<1> DEFINE r == CopyOut(pp)
           n == ReadSize(pp)
           m == WriteSize(r)
<1>0. BUFLEN \in Nat /\ BUFLEN >= 2
  BY PipeAssumption
<1>1. /\ r \in PipeRec /\ InOrder(r)
      /\ n \in Nat /\ n <= pp.len /\ n <= pp.rsiz /\ (n = pp.len \/ n = pp.rsiz)
      /\ r.len = pp.len - n /\ r.reader = NULL /\ r.writer = pp.writer
      /\ r.wptr = pp.wptr /\ r.wsiz = pp.wsiz
  BY CopyOutOK
<1> HIDE DEF r, n
<1>2. n > 0 /\ r.len < BUFLEN - 1 /\ r.len \in Nat
  BY <1>0, <1>1, PipeFields
<1>3. CASE r.writer = NULL
  <2>1. pipe_read(pp) = r
    BY <1>2, <1>3 DEF pipe_read, r, n
  <2>2. RingOK(r)
    BY <1>0, <1>1, <1>2, <1>3 DEF RingOK
  <2> QED
    BY <1>1, <2>1, <2>2 DEF Good
<1>4. CASE r.writer # NULL
  <2> DEFINE w == CopyIn(r)
  <2>1. r.wptr < r.wsiz
    BY <1>1, <1>4
  <2>2. /\ w \in PipeRec /\ InOrder(w)
        /\ m \in Nat /\ m <= BUFLEN - r.len - 1 /\ m <= r.wsiz - r.wptr
        /\ m = BUFLEN - r.len - 1 \/ m = r.wsiz - r.wptr
        /\ w.len = r.len + m /\ w.reader = r.reader /\ w.rsiz = r.rsiz
        /\ IF r.wptr + m = r.wsiz
           THEN w.writer = NULL /\ w.wptr = 0 /\ w.wsiz = 0
           ELSE w.writer = r.writer /\ w.wptr = r.wptr + m /\ w.wsiz = r.wsiz
    <3>1. r.len < BUFLEN /\ r.wptr <= r.wsiz
      BY <1>0, <1>1, <1>2, <2>1, PipeFields
    <3> QED
      BY <1>1, <3>1, CopyInOK
  <2> HIDE DEF w, m
  <2>3. m > 0
    BY <1>0, <1>1, <1>2, <2>1, <2>2, PipeFields
  <2>4. pipe_read(pp) = w
    BY <1>2, <1>4, <2>3 DEF pipe_read, r, n, w, m
  <2>5. RingOK(w)
    <3>1. r.wptr \in Nat /\ r.wsiz \in Nat
      BY <1>1, PipeFields
    <3>2. CASE r.wptr + m = r.wsiz
      BY <1>0, <1>1, <1>2, <2>2, <3>1, <3>2 DEF RingOK
    <3>3. CASE r.wptr + m # r.wsiz
      <4>1. m = BUFLEN - r.len - 1 /\ r.wptr + m < r.wsiz
        BY <1>0, <1>2, <2>2, <3>1, <3>3
      <4>2. w.len = BUFLEN - 1
        BY <1>0, <1>1, <2>2, <4>1, PipeFields
      <4>3. w.writer # NULL /\ w.wptr < w.wsiz
        BY <1>4, <2>2, <3>3, <4>1
      <4>4. w.reader = NULL
        BY <1>1, <2>2
      <4> QED
        BY <1>0, <4>2, <4>3, <4>4 DEF RingOK
    <3> QED
      BY <3>2, <3>3
  <2> QED
    BY <2>2, <2>4, <2>5 DEF Good
<1> QED
  BY <1>3, <1>4

(***************************************************************************)
(* pipe_write, as sys_write calls it: the new writer is registered, and    *)
(* whatever it finds, the ring is in order afterwards.                     *)
(***************************************************************************)
LEMMA PipeWriteGood ==
  ASSUME NEW pp \in PipeRec, InOrder(pp), pp.len < BUFLEN,
         pp.writer # NULL, pp.wptr = 0, pp.wsiz > 0,
         pp.reader # NULL => pp.len = 0 /\ pp.rsiz > 0
  PROVE  Good(pipe_write(pp))
<1> DEFINE w == CopyIn(pp)
           n == WriteSize(pp)
<1>0. BUFLEN \in Nat /\ BUFLEN >= 2
  BY PipeAssumption
<1>1. /\ w \in PipeRec /\ InOrder(w)
      /\ n \in Nat /\ n <= BUFLEN - pp.len - 1 /\ n <= pp.wsiz - pp.wptr
      /\ n = BUFLEN - pp.len - 1 \/ n = pp.wsiz - pp.wptr
      /\ w.len = pp.len + n /\ w.reader = pp.reader /\ w.rsiz = pp.rsiz
      /\ IF pp.wptr + n = pp.wsiz
         THEN w.writer = NULL /\ w.wptr = 0 /\ w.wsiz = 0
         ELSE w.writer = pp.writer /\ w.wptr = pp.wptr + n /\ w.wsiz = pp.wsiz
  <2>1. pp.wptr <= pp.wsiz
    BY PipeFields
  <2> QED
    BY <2>1, CopyInOK
<1> HIDE DEF w, n
<1>2. pp.len \in Nat /\ pp.wsiz \in Nat
  BY PipeFields
<1>3. CASE n = 0
  <2>1. pp.len = BUFLEN - 1
    BY <1>0, <1>1, <1>2, <1>3
  <2>2. RingOK(pp)
    BY <1>0, <1>2, <2>1 DEF RingOK
  <2>3. pipe_write(pp) = pp
    BY <1>3 DEF pipe_write, n
  <2> QED
    BY <2>2, <2>3 DEF Good
<1>4. CASE n # 0
  <2>1. n > 0 /\ w.len > 0 /\ w.len < BUFLEN
    BY <1>0, <1>1, <1>2, <1>4
  <2>2. w.writer # NULL => w.len = BUFLEN - 1 /\ w.wptr < w.wsiz
    BY <1>0, <1>1, <1>2
  <2>3. w.writer = NULL => w.wptr = 0 /\ w.wsiz = 0
    BY <1>1
  <2>4. CASE w.reader = NULL
    <3>1. pipe_write(pp) = w
      BY <1>4, <2>4 DEF pipe_write, n, w
    <3>2. RingOK(w)
      BY <2>1, <2>2, <2>3, <2>4 DEF RingOK
    <3> QED
      BY <1>1, <3>1, <3>2 DEF Good
  <2>5. CASE w.reader # NULL
    <3>1. pipe_write(pp) = pipe_read(w)
      BY <1>4, <2>5 DEF pipe_write, n, w
    <3>2. w.rsiz > 0
      BY <1>1, <2>5
    <3>3. Good(pipe_read(w))
      BY <1>1, <2>1, <2>2, <2>3, <3>2, PipeReadGood
    <3> QED
      BY <3>1, <3>3
  <2> QED
    BY <2>4, <2>5
<1> QED
  BY <1>3, <1>4

LEMMA ZeroPipeGood == Good(ZeroPipe)
<1>0. BUFLEN \in Nat /\ BUFLEN >= 2
  BY PipeAssumption
<1>1. ZeroPipe \in PipeRec
  BY <1>0 DEF ZeroPipe, PipeRec, Ring
<1>2. RingOK(ZeroPipe) /\ InOrder(ZeroPipe)
  BY <1>0 DEF ZeroPipe, RingOK, InOrder
<1> QED
  BY <1>1, <1>2 DEF Good

(* Changing the counts, the marks and nothing else keeps a pipe good.      *)
SameRing(pp, q) ==
  /\ q \in PipeRec
  /\ q.head = pp.head /\ q.len = pp.len /\ q.buf = pp.buf /\ q.rsiz = pp.rsiz
  /\ q.wptr = pp.wptr /\ q.wsiz = pp.wsiz /\ q.reader = pp.reader
  /\ q.writer = pp.writer /\ q.nb = pp.nb /\ q.got = pp.got /\ q.intact = pp.intact

LEMMA SameRingGood ==
  ASSUME NEW pp, Good(pp), NEW q, SameRing(pp, q)
  PROVE  Good(q)
BY DEF Good, SameRing, RingOK, InOrder

(* The inductive invariant: the types, and every pipe page good.           *)
IInv == TypeOK /\ \A g \in PIPES : Good(pipes[g])

LEMMA EndsCounted ==
  ASSUME NEW p, NEW g, NEW t
  PROVE  Cardinality(Ends(p, g, t)) \in Nat
<1>1. IsFiniteSet(Fds)
  BY PipeAssumption, FS_Interval DEF Fds
<1>2. Ends(p, g, t) \subseteq Fds
  BY DEF Ends
<1> QED
  BY <1>1, <1>2, FS_Subset, FS_CardinalityType

LEMMA DropEndsGood ==
  ASSUME NEW pp, Good(pp), NEW nr \in Nat, NEW nw \in Nat, ~DropFails(pp, nr, nw)
  PROVE  Good(DropEnds(pp, nr, nw))
<1>1. pp \in PipeRec
  BY DEF Good
<1>2. CASE nr + nw = 0
  BY <1>2 DEF DropEnds
<1>3. CASE nr + nw # 0 /\ pp.rref = nr /\ pp.wref = nw
  BY <1>3, ZeroPipeGood DEF DropEnds
<1>4. CASE nr + nw # 0 /\ ~(pp.rref = nr /\ pp.wref = nw)
  <2> DEFINE r == pp.rref - nr
             w == pp.wref - nw
             e == pp.ended \/ Wakes(pp, nw)
             q == [pp EXCEPT !.rref = r, !.wref = w, !.ended = e]
  <2>1. r \in Nat /\ w \in Nat /\ e \in BOOLEAN
    BY <1>1, <1>4, PipeFields DEF DropFails
  <2>2. DropEnds(pp, nr, nw) = q
    BY <1>4 DEF DropEnds
  <2> HIDE DEF r, w, e
  <2>3. SameRing(pp, q)
    BY Zenon, <1>1, <2>1 DEF PipeRec, SameRing
  <2> QED
    BY <2>2, <2>3, SameRingGood
<1> QED
  BY <1>2, <1>3, <1>4

LEMMA InitIInv == Init => IInv
<1> SUFFICES ASSUME Init PROVE IInv
  OBVIOUS
<1>1. \A g \in PIPES : Good(pipes[g])
  BY ZeroPipeGood DEF Init
<1>2. pipes \in [PIPES -> PipeRec]
  BY ZeroPipeGood DEF Init, Good
<1>3. fdesc \in [Procs -> [Fds -> FileDesc]]
  <2>1. ASSUME NEW p \in Procs, NEW fd \in Fds
        PROVE  [inuse |-> p = 0 /\ fd < 3, file_type |-> "TTY", pipe |-> NULL,
                open |-> p = 0 /\ fd < 3] \in FileDesc
    BY DEF FileDesc
  <2> QED
    BY <2>1 DEF Init
<1> QED
  BY Zenon, <1>1, <1>2, <1>3 DEF IInv, TypeOK, Init

(* sys_read on a good pipe.                                                *)
LEMMA SysReadGood ==
  ASSUME IInv, NEW p \in Procs, NEW fd \in Fds, NEW n \in Sizes, SysRead(p, fd, n)
  PROVE  IInv'
<1> DEFINE g  == fdesc[p][fd].pipe
           pp == [pipes[g] EXCEPT !.reader = p, !.rsiz = n]
           ee == [pp EXCEPT !.ended = TRUE]
<1>1. state' \in [Procs -> {"READY", "PENDING", "ZOMBIE", "CLOSE"}]
  BY Zenon DEF IInv, TypeOK, SysRead
<1>2. UNCHANGED <<fdesc, corrupt>>
  BY Zenon DEF SysRead
<1>3. CASE g \notin PIPES
  <2>0. \E x : pipes' = [pipes EXCEPT ![g] = x]
    BY Zenon DEF SysRead
  <2>1. pipes' = pipes
    BY <1>3, <2>0 DEF IInv, TypeOK
  <2> QED
    BY <1>1, <1>2, <2>1 DEF IInv, TypeOK
<1>4. CASE g \in PIPES
  <2>1. Good(pipes[g]) /\ pipes[g] \in PipeRec
    BY <1>4 DEF IInv, Good
  <2>2. n \in Nat /\ n > 0
    BY PipeAssumption DEF Sizes
  <2>3. pp \in PipeRec
    BY Zenon, <2>1, <2>2 DEF PipeRec
  <2>4. /\ pp.len = pipes[g].len /\ pp.head = pipes[g].head /\ pp.buf = pipes[g].buf
        /\ pp.wptr = pipes[g].wptr /\ pp.wsiz = pipes[g].wsiz
        /\ pp.writer = pipes[g].writer /\ pp.nb = pipes[g].nb /\ pp.got = pipes[g].got
        /\ pp.intact = pipes[g].intact /\ pp.reader = p /\ pp.rsiz = n
    BY <2>1 DEF PipeRec
  <2>5. /\ pp.len > 0 /\ pipes' = [pipes EXCEPT ![g] = pipe_read(pp)]
        \/ /\ pp.len = 0 /\ pipes' = [pipes EXCEPT ![g] = ee]
        \/ /\ pp.len = 0 /\ pipes' = [pipes EXCEPT ![g] = pp]
    BY Zenon DEF SysRead
  <2>6. SameRing(pp, ee)
    BY Zenon, <2>3 DEF PipeRec, SameRing
  <2> HIDE DEF pp, g
  <2>7. InOrder(pp)
    BY <2>1, <2>4 DEF Good, InOrder
  <2>8. CASE pp.len > 0 /\ pipes' = [pipes EXCEPT ![g] = pipe_read(pp)]
    <3>1. Good(pipe_read(pp))
      BY <2>1, <2>2, <2>3, <2>4, <2>7, <2>8, PipeReadGood DEF Good, RingOK
    <3> QED
      BY <1>1, <1>2, <1>4, <2>8, <3>1 DEF IInv, TypeOK, Good
  <2>9. CASE pp.len = 0
    <3>1. Good(pp)
      BY <2>1, <2>2, <2>3, <2>4, <2>7, <2>9 DEF Good, RingOK
    <3>2. Good(ee)
      BY <2>6, <3>1, SameRingGood
    <3> HIDE DEF ee
    <3> QED
      BY <1>1, <1>2, <1>4, <2>5, <2>9, <3>1, <3>2 DEF IInv, TypeOK, Good
  <2> QED
    BY <2>5, <2>8, <2>9
<1> QED
  BY <1>3, <1>4

(* sys_write on a good pipe.                                               *)
LEMMA SysWriteGood ==
  ASSUME IInv, NEW p \in Procs, NEW fd \in Fds, NEW n \in Sizes, SysWrite(p, fd, n)
  PROVE  IInv'
<1> DEFINE g  == fdesc[p][fd].pipe
           pp == [pipes[g] EXCEPT !.writer = p, !.wsiz = n, !.wptr = 0, !.nb = pipes[g].nb + n]
<1>1. state' \in [Procs -> {"READY", "PENDING", "ZOMBIE", "CLOSE"}]
  BY DEF IInv, TypeOK, SysWrite
<1>2. UNCHANGED <<fdesc, corrupt>>
  BY DEF SysWrite
<1>3. pipes' = [pipes EXCEPT ![g] = pipe_write(pp)] /\ pipes[g].writer = NULL
  BY DEF SysWrite
<1>4. CASE g \notin PIPES
  <2>1. pipes' = pipes
    BY <1>3, <1>4 DEF IInv, TypeOK
  <2> QED
    BY <1>1, <1>2, <2>1 DEF IInv, TypeOK
<1>5. CASE g \in PIPES
  <2>1. Good(pipes[g]) /\ pipes[g] \in PipeRec
    BY <1>5 DEF IInv, Good
  <2>2. n \in Nat /\ n > 0 /\ p # NULL
    BY PipeAssumption DEF Sizes, Procs
  <2>3. pipes[g].nb + n \in Nat
    <3>1. pipes[g].nb \in Nat
      BY <2>1 DEF PipeRec
    <3> QED
      BY <2>2, <3>1
  <2>4. pp \in PipeRec
    BY Zenon, <2>1, <2>2, <2>3 DEF PipeRec
  <2>5. /\ pp.len = pipes[g].len /\ pp.head = pipes[g].head /\ pp.buf = pipes[g].buf
        /\ pp.wptr = 0 /\ pp.wsiz = n /\ pp.writer = p /\ pp.nb = pipes[g].nb + n
        /\ pp.got = pipes[g].got /\ pp.intact = pipes[g].intact
        /\ pp.reader = pipes[g].reader /\ pp.rsiz = pipes[g].rsiz
    BY <2>1 DEF PipeRec
  <2> HIDE DEF pp, g
  <2>6. InOrder(pp)
    <3>1. pipes[g].got + pipes[g].len = pipes[g].nb
      BY <1>3, <2>1, PipeFields DEF Good, RingOK, InOrder
    <3>2. pp.got + pp.len = pp.nb - (pp.wsiz - pp.wptr)
      BY <2>1, <2>2, <2>5, <3>1, PipeFields
    <3> QED
      BY <2>1, <2>5, <3>2 DEF Good, InOrder
  <2>7. Good(pipe_write(pp))
    BY <2>1, <2>2, <2>4, <2>5, <2>6, PipeWriteGood DEF Good, RingOK
  <2> QED
    BY <1>1, <1>2, <1>3, <1>5, <2>7 DEF IInv, TypeOK, Good
<1> QED
  BY <1>4, <1>5

(* clear_proc, sys_close, sys_pipe and sys_fork only change counts.        *)
LEMMA CorruptGood == ASSUME IInv, Corrupt PROVE IInv'
BY DEF IInv, TypeOK, Corrupt

LEMMA ClearProcGood ==
  ASSUME IInv, NEW p \in Procs, ClearProc(p)
  PROVE  IInv'
<1> DEFINE nr(g) == Cardinality(Ends(p, g, "RPIPE"))
           nw(g) == Cardinality(Ends(p, g, "WPIPE"))
<1>1. CASE \E g \in PIPES : DropFails(pipes[g], nr(g), nw(g))
  BY <1>1, CorruptGood DEF ClearProc
<1>2. CASE ~\E g \in PIPES : DropFails(pipes[g], nr(g), nw(g))
  <2>1. /\ pipes' = [g \in PIPES |-> DropEnds(pipes[g], nr(g), nw(g))]
        /\ state' \in [Procs -> {"READY", "PENDING", "ZOMBIE", "CLOSE"}]
        /\ fdesc' = [fdesc EXCEPT ![p] = NoFds]
        /\ UNCHANGED corrupt
    BY <1>2 DEF ClearProc, IInv, TypeOK
  <2>2. ASSUME NEW g \in PIPES PROVE Good(pipes'[g])
    <3>1. nr(g) \in Nat /\ nw(g) \in Nat
      BY EndsCounted
    <3>2. ~DropFails(pipes[g], nr(g), nw(g)) /\ Good(pipes[g])
      BY <1>2 DEF IInv
    <3> HIDE DEF nr, nw
    <3>3. Good(DropEnds(pipes[g], nr(g), nw(g)))
      BY <3>1, <3>2, DropEndsGood
    <3> QED
      BY <2>1, <3>3
  <2>3. NoFds \in [Fds -> FileDesc]
    BY DEF NoFds, FileDesc
  <2>4. fdesc' \in [Procs -> [Fds -> FileDesc]]
    BY <2>1, <2>3 DEF IInv, TypeOK
  <2>5. pipes' \in [PIPES -> PipeRec]
    <3> HIDE DEF nr, nw
    <3> QED  BY <2>1, <2>2 DEF Good
  <2> QED
    BY <2>1, <2>2, <2>4, <2>5 DEF IInv, TypeOK
<1> QED
  BY <1>1, <1>2

LEMMA SysCloseGood ==
  ASSUME IInv, NEW p \in Procs, NEW fd \in Fds, SysClose(p, fd)
  PROVE  IInv'
<1> DEFINE d  == fdesc[p][fd]
           g  == d.pipe
           nr == IF d.file_type = "RPIPE" THEN 1 ELSE 0
           nw == 1 - nr
           F  == [f \in Fds |-> [fdesc[p][f] EXCEPT !.open = @ /\ f # fd,
                                                    !.inuse = @ /\ f # 2 * fd]]
<1>1. CASE DropFails(pipes[g], nr, nw)
  BY <1>1, CorruptGood DEF SysClose
<1>2. CASE ~DropFails(pipes[g], nr, nw)
  <2>1. /\ pipes' = [pipes EXCEPT ![g] = DropEnds(pipes[g], nr, nw)]
        /\ state' \in [Procs -> {"READY", "PENDING", "ZOMBIE", "CLOSE"}]
        /\ UNCHANGED corrupt
    BY Zenon, <1>2 DEF SysClose, IInv, TypeOK
  <2>2. fdesc' = [fdesc EXCEPT ![p] = F]
    BY Zenon, <1>2 DEF SysClose
  <2>3. F \in [Fds -> FileDesc]
    <3>1. ASSUME NEW f \in Fds
          PROVE  [fdesc[p][f] EXCEPT !.open = @ /\ f # fd, !.inuse = @ /\ f # 2 * fd] \in FileDesc
      <4> DEFINE a == fdesc[p][f].open /\ f # fd
                 b == fdesc[p][f].inuse /\ f # 2 * fd
      <4>1. fdesc[p][f] \in FileDesc /\ a \in BOOLEAN /\ b \in BOOLEAN
        BY DEF IInv, TypeOK
      <4> HIDE DEF a, b
      <4>2. [fdesc[p][f] EXCEPT !.open = a, !.inuse = b] \in FileDesc
        BY Zenon, <4>1 DEF FileDesc
      <4> QED
        BY <4>2 DEF a, b
    <3> QED
      BY Zenon, <3>1
  <2>4. fdesc' \in [Procs -> [Fds -> FileDesc]]
    <3> HIDE DEF F
    <3> QED  BY <2>2, <2>3 DEF IInv, TypeOK
  <2>5. nr \in Nat /\ nw \in Nat
    OBVIOUS
  <2> HIDE DEF nr, nw, g
  <2>6. CASE g \in PIPES
    <3>1. Good(DropEnds(pipes[g], nr, nw))
      BY <1>2, <2>5, <2>6, DropEndsGood DEF IInv
    <3> QED
      BY <2>1, <2>4, <2>6, <3>1 DEF IInv, TypeOK, Good
  <2>7. CASE g \notin PIPES
    <3>1. pipes' = pipes
      BY <2>1, <2>7 DEF IInv, TypeOK
    <3> QED
      BY Zenon, <2>1, <2>4, <3>1 DEF IInv, TypeOK
  <2> QED
    BY <2>6, <2>7
<1> QED
  BY <1>1, <1>2

LEMMA SysPipeGood ==
  ASSUME IInv, NEW p \in Procs, SysPipe(p)
  PROVE  IInv'
<1> DEFINE New == [ZeroPipe EXCEPT !.live = TRUE, !.rref = 1, !.wref = 1]
           RF(g) == [inuse |-> TRUE, file_type |-> "RPIPE", pipe |-> g, open |-> TRUE]
           WF(g) == [inuse |-> TRUE, file_type |-> "WPIPE", pipe |-> g, open |-> TRUE]
<1>1. PICK g \in PIPES, r \in Fds, w \in Fds :
        /\ pipes' = [pipes EXCEPT ![g] = New]
        /\ fdesc' = [fdesc EXCEPT ![p][r] = RF(g), ![p][w] = WF(g)]
  BY Zenon DEF SysPipe
<1>2. UNCHANGED <<state, corrupt>>
  BY DEF SysPipe
<1>3. Good(New)
  <2>1. Good(ZeroPipe) /\ ZeroPipe \in PipeRec
    BY ZeroPipeGood DEF Good
  <2>2. SameRing(ZeroPipe, New)
    BY Zenon, <2>1 DEF PipeRec, SameRing
  <2> HIDE DEF New
  <2> QED
    BY <2>1, <2>2, SameRingGood
<1>4. RF(g) \in FileDesc /\ WF(g) \in FileDesc
  BY DEF FileDesc
<1> HIDE DEF New, RF, WF
<1>5. fdesc' \in [Procs -> [Fds -> FileDesc]]
  BY <1>1, <1>4 DEF IInv, TypeOK
<1> QED
  BY <1>1, <1>2, <1>3, <1>5 DEF IInv, TypeOK, Good

LEMMA ForkGood ==
  ASSUME IInv, NEW p \in Procs, Fork(p)
  PROVE  IInv'
<1> DEFINE nr(g) == Cardinality(Ends(p, g, "RPIPE"))
           nw(g) == Cardinality(Ends(p, g, "WPIPE"))
           q(g) == [pipes[g] EXCEPT !.rref = @ + nr(g), !.wref = @ + nw(g)]
<1>1. CASE Corrupt
  BY <1>1, CorruptGood
<1>2. CASE ~Corrupt
  <2>1. PICK n \in Procs :
          /\ fdesc' = [fdesc EXCEPT ![n] = fdesc[p]]
          /\ pipes' = [g \in PIPES |-> q(g)]
          /\ state' = [state EXCEPT ![n] = "READY"]
          /\ UNCHANGED corrupt
    BY Zenon, <1>2 DEF Fork
  <2>2. ASSUME NEW g \in PIPES PROVE Good(q(g))
    <3> DEFINE r == pipes[g].rref + nr(g)
               w == pipes[g].wref + nw(g)
    <3>1. nr(g) \in Nat /\ nw(g) \in Nat /\ Good(pipes[g]) /\ pipes[g] \in PipeRec
      BY EndsCounted DEF IInv, Good
    <3> HIDE DEF nr, nw
    <3>2. r \in Nat /\ w \in Nat
      BY <3>1, PipeFields
    <3>3. q(g) = [pipes[g] EXCEPT !.rref = r, !.wref = w]
      OBVIOUS
    <3> HIDE DEF r, w
    <3>4. SameRing(pipes[g], [pipes[g] EXCEPT !.rref = r, !.wref = w])
      BY Zenon, <3>1, <3>2 DEF PipeRec, SameRing
    <3> HIDE DEF q
    <3> QED
      BY <3>1, <3>3, <3>4, SameRingGood
  <2> HIDE DEF q
  <2> QED
    BY <2>1, <2>2 DEF IInv, TypeOK, Good
<1> QED
  BY <1>1, <1>2

LEMMA NextIInv == IInv /\ [Next]_vars => IInv'
<1> SUFFICES ASSUME IInv, [Next]_vars PROVE IInv'
  OBVIOUS
<1>1. CASE UNCHANGED vars
  BY <1>1 DEF vars, IInv, TypeOK
<1>2. ASSUME NEW p \in Procs, SysPipe(p) PROVE IInv'
  BY <1>2, SysPipeGood
<1>3. ASSUME NEW p \in Procs, Fork(p) PROVE IInv'
  BY <1>3, ForkGood
<1>4. ASSUME NEW p \in Procs, Exit(p) \/ Reap(p) PROVE IInv'
  BY <1>4, ClearProcGood DEF Exit, Reap
<1>5. ASSUME NEW p \in Procs, ExitZombie(p) PROVE IInv'
  BY <1>5 DEF ExitZombie, IInv, TypeOK
<1>6. ASSUME NEW p \in Procs, NEW fd \in Fds, SysUsesDead(p, fd) PROVE IInv'
  BY <1>6, CorruptGood DEF SysUsesDead
<1>9. ASSUME NEW p \in Procs, SysPipeOverruns(p) PROVE IInv'
  BY <1>9, CorruptGood DEF SysPipeOverruns
<1>7. ASSUME NEW p \in Procs, NEW fd \in Fds, SysClose(p, fd) PROVE IInv'
  BY <1>7, SysCloseGood
<1>8. ASSUME NEW p \in Procs, NEW fd \in Fds, NEW n \in Sizes,
             SysRead(p, fd, n) \/ SysWrite(p, fd, n)
      PROVE  IInv'
  BY <1>8, SysReadGood, SysWriteGood
<1> QED
  BY <1>1, <1>2, <1>3, <1>4, <1>5, <1>6, <1>7, <1>8, <1>9 DEF Next

(***************************************************************************)
(* The inductive invariant holds: whatever the sizes of the table, the     *)
(* ring and the transfers, and with any number of pipes.                   *)
(***************************************************************************)
THEOREM Invariance == Spec => []IInv
BY InitIInv, NextIInv, PTL DEF Spec

(***************************************************************************)
(* Type correctness of the pipe layer: head stays inside the buffer and no *)
(* reference count or length goes below zero (pipe_read, pipe_write,       *)
(* clear_proc, sys_close).                                                 *)
(***************************************************************************)
THEOREM TypeCorrect == Spec => []TypeOK
<1>1. IInv => TypeOK
  BY DEF IInv
<1> QED
  BY <1>1, Invariance, PTL

(***************************************************************************)
(* One slot of the ring stays free, a registered reader faces an empty     *)
(* ring and a registered writer a full one (pipe_read and pipe_write,      *)
(* which serve the other side before they return).                         *)
(***************************************************************************)
THEOREM RingSound == Spec => []NobodyWaitsInVain
<1>1. IInv => NobodyWaitsInVain
  BY DEF IInv, Good, NobodyWaitsInVain
<1> QED
  BY <1>1, Invariance, PTL

(***************************************************************************)
(* A pipe delivers the bytes of its write calls in order, each once: for   *)
(* every buffer length, every split into reads and writes and every        *)
(* wrap-around (the copy loops of pipe_read and pipe_write).               *)
(***************************************************************************)
THEOREM ByteStream == Spec => []StreamIntact
<1>1. IInv => StreamIntact
  BY DEF IInv, Good, StreamIntact
<1> QED
  BY <1>1, Invariance, PTL

-----------------------------------------------------------------------------
(***************************************************************************)
(* A pipe implements the byte stream of Channel.  By the invariant the     *)
(* bytes in the ring and those still pending are numbered from got + 1 to  *)
(* nb; so the queue of the abstract stream is determined by these two      *)
(* numbers, and every step is simulated by saying what it adds to each.    *)
(***************************************************************************)
LEMMA ContentsNumbered ==
  ASSUME NEW pp, Good(pp)
  PROVE  /\ pp.nb - pp.got \in Nat
         /\ Contents(pp) = Stream!Numbered(pp.got, pp.nb - pp.got)
         /\ pp.writer # NULL <=> pp.nb - pp.got > BUFLEN - 1
<1>1. /\ pp \in PipeRec
      /\ pp.len \in Nat /\ pp.wptr \in Nat /\ pp.wsiz \in Nat /\ pp.nb \in Nat /\ pp.got \in Nat
      /\ pp.head \in Nat /\ BUFLEN \in Nat
  BY PipeFields, PipeAssumption DEF Good
<1>2. /\ pp.len < BUFLEN
      /\ pp.writer # NULL => pp.len = BUFLEN - 1 /\ pp.wptr < pp.wsiz
      /\ pp.writer = NULL => pp.wptr = 0 /\ pp.wsiz = 0
      /\ pp.got + pp.len = pp.nb - (pp.wsiz - pp.wptr)
  BY DEF Good, RingOK, InOrder
<1>3. \A i \in 0 .. pp.len - 1 : pp.buf[(pp.head + i) % BUFLEN] = pp.got + i + 1
  BY DEF Good, InOrder
<1>4. /\ pp.nb - pp.got \in Nat
      /\ pp.nb - pp.got = pp.len + (pp.wsiz - pp.wptr)
      /\ pp.writer # NULL <=> pp.nb - pp.got > BUFLEN - 1
  BY <1>1, <1>2
<1>5. ASSUME NEW i \in 1 .. pp.nb - pp.got, i <= pp.len
      PROVE  pp.buf[(pp.head + i - 1) % BUFLEN] = pp.got + i
  <2>1. i - 1 \in 0 .. pp.len - 1 /\ pp.head + (i - 1) = pp.head + i - 1 /\ pp.got + (i - 1) + 1 = pp.got + i
    BY <1>1, <1>4, <1>5
  <2>2. pp.buf[(pp.head + (i - 1)) % BUFLEN] = pp.got + (i - 1) + 1
    BY <1>3, <2>1
  <2> QED
    BY <2>1, <2>2
<1>6. ASSUME NEW i \in 1 .. pp.nb - pp.got, ~(i <= pp.len)
      PROVE  pp.nb - pp.wsiz + pp.wptr + (i - pp.len) = pp.got + i
  BY <1>1, <1>2, <1>4, <1>6
<1> QED
  BY <1>4, <1>5, <1>6 DEF Contents, Stream!Numbered

LEMMA StreamInit == Init => Stream!Nothing
BY ThePipeAssumption, PipeAssumption DEF Init, Stream!Nothing, ZeroPipe, Contents, Want

(***************************************************************************)
(* What one system call may do to a pipe, in terms of the two numbers.     *)
(***************************************************************************)
Same(q, r) == r.live = q.live /\ r.nb = q.nb /\ r.got = q.got /\ Want(r) = Want(q)

Fresh(r) == r.nb = 0 /\ r.got = 0 /\ Want(r) = 0

Took(q, r, n) ==
  /\ q.live /\ r.live /\ r.nb = q.nb /\ Want(q) = 0 /\ Want(r) = 0
  /\ \E k \in 1 .. n : k <= q.nb - q.got /\ r.got = q.got + k

Waits(q, r, n) ==
  /\ q.live /\ r.live /\ r.nb = q.nb /\ r.got = q.got /\ q.nb = q.got
  /\ Want(q) = 0 /\ Want(r) = n

Gave(q, r, n) ==
  /\ q.live /\ r.live /\ q.writer = NULL /\ r.nb = q.nb + n /\ Want(r) = 0
  /\ Want(q) = 0 => r.got = q.got
  /\ Want(q) # 0 => \E k \in 1 .. n : k <= Want(q) /\ r.got = q.got + k

Move(q, r) ==
  \/ Same(q, r)
  \/ ~q.live /\ r.live /\ Fresh(r)
  \/ q.live /\ ~r.live /\ Fresh(r)
  \/ \E n \in Sizes : Took(q, r, n) \/ Waits(q, r, n) \/ Gave(q, r, n)

(* Nothing is left of a pipe in a page that was freed.                     *)
DeadIsFresh == \A g \in PIPES : ~pipes[g].live => Fresh(pipes[g])

LEMMA RestNumbered ==
  ASSUME NEW a \in Nat, NEW m \in Nat, NEW k \in Nat, k <= m
  PROVE  Stream!Rest(Stream!Numbered(a, m), k) = Stream!Numbered(a + k, m - k)
<1> DEFINE s == [i \in 1 .. m |-> a + i]
<1>1. Len(s) = m
  OBVIOUS
<1>2. ASSUME NEW i \in 1 .. m - k PROVE s[i + k] = a + k + i
  <2>1. i + k \in 1 .. m
    OBVIOUS
  <2> QED
    BY <2>1
<1> HIDE DEF s
<1>3. Stream!Rest(s, k) = [i \in 1 .. m - k |-> a + k + i]
  BY <1>1, <1>2 DEF Stream!Rest
<1> QED
  BY <1>3 DEF s, Stream!Numbered

(* Joining two sequences of byte numbers, and when two of them are equal. *)
LEMMA JoinedBytes ==
  ASSUME NEW s \in Seq(Nat), NEW t \in Seq(Nat)
  PROVE  /\ s \o t \in Seq(Nat)
         /\ Len(s \o t) = Len(s) + Len(t)
         /\ \A i \in 1 .. Len(s) + Len(t) :
               (s \o t)[i] = IF i <= Len(s) THEN s[i] ELSE t[i - Len(s)]
OBVIOUS

LEMMA SameBytes ==
  ASSUME NEW s \in Seq(Nat), NEW t \in Seq(Nat), Len(s) = Len(t),
         \A i \in 1 .. Len(s) : s[i] = t[i]
  PROVE  s = t
OBVIOUS

LEMMA AppendNumbered ==
  ASSUME NEW a \in Nat, NEW m \in Nat, NEW n \in Nat
  PROVE  Stream!Numbered(a, m) \o Stream!Numbered(a + m, n) = Stream!Numbered(a, m + n)
<1> DEFINE s == [i \in 1 .. m |-> a + i]
           t == [i \in 1 .. n |-> a + m + i]
           u == [i \in 1 .. m + n |-> a + i]
<1>1. s \in Seq(Nat) /\ t \in Seq(Nat) /\ u \in Seq(Nat) /\ Len(s) = m /\ Len(t) = n /\ Len(u) = m + n
  OBVIOUS
<1>2. \A i \in 1 .. m : s[i] = a + i
  OBVIOUS
<1>3. \A i \in 1 .. n : t[i] = a + m + i
  OBVIOUS
<1>4. \A i \in 1 .. m + n : u[i] = a + i
  OBVIOUS
<1> HIDE DEF s, t, u
<1>5. s \o t \in Seq(Nat) /\ Len(s \o t) = m + n
      /\ \A i \in 1 .. m + n : (s \o t)[i] = IF i <= m THEN s[i] ELSE t[i - m]
  BY Zenon, <1>1, JoinedBytes
<1>6. ASSUME NEW i \in 1 .. m + n PROVE (s \o t)[i] = u[i]
  <2>1. CASE i <= m
    BY <1>2, <1>4, <1>5, <2>1
  <2>2. CASE ~(i <= m)
    <3>1. i - m \in 1 .. n
      BY <2>2
    <3>2. t[i - m] = a + m + (i - m) /\ u[i] = a + i
      BY <1>3, <1>4, <3>1
    <3> QED
      BY <1>5, <2>2, <3>2
  <2> QED
    BY Zenon, <2>1, <2>2
<1>7. s \o t = u
  BY Zenon, <1>1, <1>5, <1>6, SameBytes
<1> QED
  BY <1>7 DEF s, t, u, Stream!Numbered

(* What the copies and the two functions do to the counters.              *)
LEMMA CopyOutCounts ==
  ASSUME NEW pp \in PipeRec
  PROVE  LET r == CopyOut(pp)
         IN  /\ r.live = pp.live /\ r.nb = pp.nb /\ r.got = pp.got + ReadSize(pp)
             /\ r.reader = NULL
BY DEF CopyOut, PipeRec

LEMMA CopyInCounts ==
  ASSUME NEW pp \in PipeRec
  PROVE  LET w == CopyIn(pp)
         IN  /\ w.live = pp.live /\ w.nb = pp.nb /\ w.got = pp.got
             /\ w.reader = pp.reader /\ w.rsiz = pp.rsiz
BY DEF CopyIn, PipeRec

LEMMA PipeReadCounts ==
  ASSUME NEW pp \in PipeRec, InOrder(pp), pp.len < BUFLEN, pp.len > 0, pp.rsiz > 0
  PROVE  LET r == pipe_read(pp)
         IN  /\ r.live = pp.live /\ r.nb = pp.nb /\ r.reader = NULL
             /\ \E k \in 1 .. pp.rsiz : k <= pp.len /\ r.got = pp.got + k
<1> DEFINE c == CopyOut(pp)
           k == ReadSize(pp)
<1>1. c \in PipeRec /\ k \in 1 .. pp.rsiz /\ k <= pp.len
  BY CopyOutOK, PipeFields
<1>2. c.live = pp.live /\ c.nb = pp.nb /\ c.got = pp.got + k /\ c.reader = NULL
  BY CopyOutCounts
<1>3. pipe_read(pp) = CopyIn(c) \/ pipe_read(pp) = c
  BY <1>1 DEF pipe_read
<1> HIDE DEF c, k
<1>4. CopyIn(c).live = c.live /\ CopyIn(c).nb = c.nb /\ CopyIn(c).got = c.got
      /\ CopyIn(c).reader = c.reader
  BY <1>1, CopyInCounts
<1> QED
  BY <1>1, <1>2, <1>3, <1>4

LEMMA PipeWriteCounts ==
  ASSUME NEW pp \in PipeRec, InOrder(pp), pp.len < BUFLEN,
         pp.writer # NULL, pp.wptr = 0, pp.wsiz > 0,
         pp.reader # NULL => pp.len = 0 /\ pp.rsiz > 0
  PROVE  LET r == pipe_write(pp)
         IN  /\ r.live = pp.live /\ r.nb = pp.nb /\ r.reader = NULL
             /\ pp.reader = NULL => r.got = pp.got
             /\ pp.reader # NULL =>
                  \E k \in 1 .. pp.wsiz : k <= pp.rsiz /\ r.got = pp.got + k
<1> DEFINE w == CopyIn(pp)
           n == WriteSize(pp)
<1>0. BUFLEN \in Nat /\ BUFLEN >= 2 /\ pp.len \in Nat /\ pp.wsiz \in Nat /\ pp.rsiz \in Nat
  BY PipeAssumption, PipeFields
<1>1. /\ w \in PipeRec /\ InOrder(w)
      /\ n \in Nat /\ n <= BUFLEN - pp.len - 1 /\ n <= pp.wsiz
      /\ n = BUFLEN - pp.len - 1 \/ n = pp.wsiz
      /\ w.len = pp.len + n
  <2>1. pp.wptr <= pp.wsiz
    BY <1>0
  <2>2. /\ w \in PipeRec /\ InOrder(w)
        /\ n \in Nat /\ n <= BUFLEN - pp.len - 1 /\ n <= pp.wsiz - pp.wptr
        /\ n = BUFLEN - pp.len - 1 \/ n = pp.wsiz - pp.wptr
        /\ w.len = pp.len + n
    BY <2>1, CopyInOK
  <2> HIDE DEF w, n
  <2> QED
    BY <1>0, <2>2
<1>2. w.live = pp.live /\ w.nb = pp.nb /\ w.got = pp.got /\ w.reader = pp.reader /\ w.rsiz = pp.rsiz
  BY CopyInCounts
<1>3. pipe_write(pp) = IF n = 0 THEN pp ELSE IF w.reader # NULL THEN pipe_read(w) ELSE w
  BY DEF pipe_write
<1> HIDE DEF w, n
<1>4. CASE pp.reader = NULL
  BY <1>2, <1>3, <1>4
<1>5. CASE pp.reader # NULL
  <2>1. n > 0 /\ w.len = n /\ w.len < BUFLEN /\ w.rsiz > 0
    BY <1>0, <1>1, <1>2, <1>5
  <2>2. pipe_write(pp) = pipe_read(w)
    BY <1>2, <1>3, <1>5, <2>1
  <2>3. /\ pipe_read(w).live = w.live /\ pipe_read(w).nb = w.nb /\ pipe_read(w).reader = NULL
        /\ \E k \in 1 .. w.rsiz : k <= w.len /\ pipe_read(w).got = w.got + k
    BY <1>1, <2>1, PipeReadCounts
  <2>4. PICK k \in 1 .. w.rsiz : k <= w.len /\ pipe_read(w).got = w.got + k
    BY <2>3
  <2>5. k \in 1 .. pp.wsiz /\ k <= pp.rsiz
    BY <1>0, <1>1, <1>2, <2>1, <2>4
  <2> QED
    BY <1>2, <1>5, <2>2, <2>3, <2>4, <2>5
<1> QED
  BY <1>4, <1>5

(* A move of the two numbers is a step of the byte stream.                 *)
LEMMA MoveSimulated ==
  ASSUME IInv, IInv', DeadIsFresh, Move(pipes[ThePipe], pipes'[ThePipe])
  PROVE  [Stream!Next]_Stream!chan
<1> DEFINE q == pipes[ThePipe]
           r == pipes'[ThePipe]
           m == q.nb - q.got
<1>g. Good(q) /\ Good(r)
  BY ThePipeAssumption DEF IInv
<1>q. /\ m \in Nat
      /\ Contents(q) = Stream!Numbered(q.got, m)
      /\ q.writer # NULL <=> m > BUFLEN - 1
  BY <1>g, ContentsNumbered
<1>r. /\ r.nb - r.got \in Nat
      /\ Contents(r) = Stream!Numbered(r.got, r.nb - r.got)
      /\ r.writer # NULL <=> r.nb - r.got > BUFLEN - 1
  BY <1>g, ContentsNumbered
<1>t. /\ q.nb \in Nat /\ q.got \in Nat /\ q.live \in BOOLEAN
      /\ r.nb \in Nat /\ r.got \in Nat /\ r.live \in BOOLEAN
      /\ Want(q) \in Nat /\ Want(r) \in Nat
  BY <1>g, PipeFields DEF Good, Want
<1>l. Len(Contents(r)) = r.nb - r.got /\ Len(Contents(q)) = m
  BY <1>q, <1>r DEF Stream!Numbered
<1>d. ~q.live => Fresh(q)
  BY ThePipeAssumption DEF DeadIsFresh
<1>m. Move(q, r)
  OBVIOUS
<1> HIDE DEF q, r, m
<1>1. CASE Same(q, r)
  <2>1. Contents(r) = Contents(q) /\ (r.writer # NULL <=> q.writer # NULL)
    BY <1>1, <1>q, <1>r DEF Same, m
  <2> QED
    BY <1>1, <2>1 DEF Same, Stream!chan, q, r
<1>2. CASE ~q.live /\ r.live /\ Fresh(r)
  <2>1. Fresh(q)
    BY <1>2, <1>d
  <2>2. Contents(r) = Contents(q) /\ (r.writer # NULL <=> q.writer # NULL)
    BY <1>2, <2>1, <1>q, <1>r DEF Fresh, m
  <2>3. Stream!Open
    BY <1>2, <2>1, <2>2 DEF Fresh, Stream!Open, q, r
  <2> QED
    BY <2>3 DEF Stream!Next
<1>3. CASE q.live /\ ~r.live /\ Fresh(r)
  <2>1. Contents(r) = << >> /\ r.writer = NULL
    BY <1>3, <1>r, PipeAssumption DEF Fresh, Stream!Numbered
  <2>2. Stream!Shut
    BY <1>3, <2>1 DEF Fresh, Stream!Shut, Stream!Nothing, q, r
  <2> QED
    BY <2>2 DEF Stream!Next
<1>4. ASSUME NEW n \in Sizes, Took(q, r, n) PROVE Stream!Next
  <2>1. PICK k \in 1 .. n : k <= m /\ r.got = q.got + k
    BY <1>4 DEF Took, m
  <2>2. k \in Nat /\ r.nb - r.got = m - k
    BY <1>4, <1>t, <2>1, PipeAssumption DEF Took, m, Sizes
  <2>3. Contents(r) = Stream!Rest(Contents(q), k)
    <3>0. PICK a \in Nat, b \in Nat, j \in Nat : a = q.got /\ b = m /\ j = k
      BY <1>q, <1>t, <2>2
    <3>1. Stream!Rest(Stream!Numbered(a, b), j) = Stream!Numbered(a + j, b - j)
      <4>1. j <= b
        BY <2>1, <3>0
      <4> QED
        BY ONLY <4>1, RestNumbered
    <3>2. Contents(r) = Stream!Numbered(q.got + k, m - k)
      BY <1>r, <2>1, <2>2
    <3> QED
      BY <3>0, <3>1, <3>2, <1>q
  <2>4. (r.writer # NULL) = (Len(Contents(r)) > BUFLEN - 1)
    BY <1>r, <1>l
  <2>5. Stream!Read(n)
    BY <1>4, <1>l, <2>1, <2>3, <2>4 DEF Took, Stream!Read, q, r
  <2> QED
    BY <2>5 DEF Stream!Next
<1>5. ASSUME NEW n \in Sizes, Waits(q, r, n) PROVE Stream!Next
  <2>1. m = 0 /\ r.nb - r.got = m /\ r.got = q.got
    BY <1>5, <1>t DEF Waits, m
  <2>2. Contents(q) = << >> /\ Contents(r) = Contents(q) /\ (r.writer # NULL <=> q.writer # NULL)
    BY <2>1, <1>q, <1>r DEF Stream!Numbered
  <2>3. Stream!Wait(n)
    BY <1>5, <2>2 DEF Waits, Stream!Wait, q, r
  <2> QED
    BY <2>3 DEF Stream!Next
<1>6. ASSUME NEW n \in Sizes, Gave(q, r, n) PROVE Stream!Next
  <2> DEFINE c == Contents(q) \o Stream!Numbered(q.nb, n)
  <2>0. n \in Nat /\ q.nb = q.got + m
    BY <1>t, PipeAssumption DEF Sizes, m
  <2>1. c = Stream!Numbered(q.got, m + n)
    <3>0. PICK a \in Nat, b \in Nat, j \in Nat : a = q.got /\ b = m /\ j = n
      BY <1>q, <1>t, <2>0
    <3>1. Stream!Numbered(a, b) \o Stream!Numbered(a + b, j) = Stream!Numbered(a, b + j)
      BY ONLY Zenon, AppendNumbered
    <3> QED
      BY <3>0, <3>1, <1>q, <2>0
  <2>2. (r.writer # NULL) = (Len(Contents(r)) > BUFLEN - 1)
    BY <1>r, <1>l
  <2> HIDE DEF c
  <2>3. ASSUME Want(q) = 0 PROVE Contents(r) = c
    <3>1. r.got = q.got /\ r.nb - r.got = m + n
      BY <1>6, <1>q, <1>t, <2>0, <2>3 DEF Gave
    <3>2. Contents(r) = Stream!Numbered(q.got, m + n)
      BY <1>r, <3>1
    <3> QED
      BY <2>1, <3>2
  <2>4. ASSUME Want(q) # 0 PROVE \E k \in 1 .. n : k <= Want(q) /\ Contents(r) = Stream!Rest(c, k)
    <3>1. PICK k \in 1 .. n : k <= Want(q) /\ r.got = q.got + k
      BY <1>6, <2>4 DEF Gave
    <3>2. k \in Nat /\ k <= m + n /\ r.nb - r.got = m + n - k
      BY <1>6, <1>q, <2>0, <1>t, <3>1 DEF Gave
    <3>0. PICK a \in Nat, b \in Nat, j \in Nat : a = q.got /\ b = m + n /\ j = k
      BY <1>q, <1>t, <2>0, <3>2
    <3>3. Stream!Rest(Stream!Numbered(a, b), j) = Stream!Numbered(a + j, b - j)
      <4>1. j <= b
        BY <3>0, <3>2
      <4> QED
        BY ONLY <4>1, RestNumbered
    <3>4. r.got = a + j /\ r.nb - r.got = b - j
      BY <1>q, <1>t, <2>0, <3>0, <3>1, <3>2
    <3>5. Contents(r) = Stream!Rest(c, k)
      <4>1. c = Stream!Numbered(a, b)
        BY <2>1, <3>0
      <4>2. Contents(r) = Stream!Numbered(a + j, b - j)
        BY <1>r, <3>4
      <4> QED
        BY <3>0, <3>3, <4>1, <4>2
    <3> QED
      BY <3>1, <3>5
  <2>5. Want(q) = 0 \/ Want(q) > 0
    BY <1>t
  <2>6. /\ q.live /\ ~(q.writer # NULL)
        /\ \/ Want(q) = 0 /\ Contents(r) = c
           \/ Want(q) > 0 /\ \E k \in 1 .. n : k <= Want(q) /\ Contents(r) = Stream!Rest(c, k)
        /\ r.nb = q.nb + n /\ Want(r) = 0
        /\ (r.writer # NULL) = (Len(Contents(r)) > BUFLEN - 1)
        /\ r.live = q.live
    BY <1>6, <2>2, <2>3, <2>4, <2>5 DEF Gave
  <2>7. Stream!Write(n)
    BY <2>6 DEF Stream!Write, q, r, c
  <2> QED
    BY <2>7 DEF Stream!Next
<1> QED
  BY <1>1, <1>2, <1>3, <1>4, <1>5, <1>6, <1>m DEF Move

-----------------------------------------------------------------------------
(* Every action moves every pipe as Move says.                             *)
LEMMA SysReadMoves ==
  ASSUME IInv, NEW p \in Procs, NEW fd \in Fds, NEW n \in Sizes, SysRead(p, fd, n),
         NEW h \in PIPES
  PROVE  Move(pipes[h], pipes'[h])
<1> DEFINE g  == fdesc[p][fd].pipe
           q  == pipes[g]
           pp == [q EXCEPT !.reader = p, !.rsiz = n]
           ee == [pp EXCEPT !.ended = TRUE]
<1>1. /\ \/ pp.len > 0 /\ pipes' = [pipes EXCEPT ![g] = pipe_read(pp)]
         \/ pp.len = 0 /\ pipes' = [pipes EXCEPT ![g] = ee]
         \/ pp.len = 0 /\ pipes' = [pipes EXCEPT ![g] = pp]
      /\ q.live /\ q.reader = NULL
  BY Zenon DEF SysRead
<1>2. pipes \in [PIPES -> PipeRec]
  BY DEF IInv, TypeOK
<1>3. CASE h # g
  <2>1. pipes'[h] = pipes[h]
    BY <1>1, <1>2, <1>3
  <2> QED
    BY <2>1 DEF Move, Same
<1>4. CASE h = g
  <2>1. Good(q) /\ q \in PipeRec
    BY <1>4 DEF IInv, Good
  <2>2. n \in Nat /\ n > 0 /\ p # NULL
    BY PipeAssumption DEF Sizes, Procs, NULL
  <2>3. pp \in PipeRec
    BY Zenon, <2>1, <2>2 DEF PipeRec
  <2>4. /\ pp.len = q.len /\ pp.head = q.head /\ pp.buf = q.buf
        /\ pp.wptr = q.wptr /\ pp.wsiz = q.wsiz /\ pp.live = q.live
        /\ pp.writer = q.writer /\ pp.nb = q.nb /\ pp.got = q.got
        /\ pp.intact = q.intact /\ pp.reader = p /\ pp.rsiz = n
    BY <2>1 DEF PipeRec
  <2>5. /\ ee.nb = q.nb /\ ee.got = q.got /\ ee.reader = p /\ ee.rsiz = n /\ ee.live = q.live
    BY <2>1 DEF PipeRec
  <2> HIDE DEF pp, ee, q, g
  <2>6. InOrder(pp)
    BY <2>1, <2>4 DEF Good, InOrder
  <2>7. q.len \in Nat /\ q.nb \in Nat /\ q.got \in Nat /\ q.wsiz \in Nat /\ q.wptr \in Nat
    BY <2>1, PipeFields
  <2>8. Want(q) = 0
    BY <1>1 DEF Want
  <2>9. CASE pp.len > 0 /\ pipes'[h] = pipe_read(pp)
    <3>1. pp.len < BUFLEN
      BY <2>1, <2>4 DEF Good, RingOK
    <3>2. /\ pipe_read(pp).live = pp.live /\ pipe_read(pp).nb = pp.nb
          /\ pipe_read(pp).reader = NULL
          /\ \E k \in 1 .. pp.rsiz : k <= pp.len /\ pipe_read(pp).got = pp.got + k
      BY <2>2, <2>3, <2>4, <2>6, <2>9, <3>1, PipeReadCounts
    <3>3. q.len <= q.nb - q.got
      BY <2>1, <2>7, PipeAssumption DEF Good, RingOK, InOrder
    <3>4. Took(q, pipes'[h], n)
      <4>1. PICK k \in 1 .. n : k <= q.len /\ pipe_read(pp).got = q.got + k
        BY <2>4, <3>2
      <4>2. k <= q.nb - q.got
        BY <2>2, <2>7, <3>3, <4>1
      <4> QED
        BY <1>1, <2>4, <2>8, <2>9, <3>2, <4>1, <4>2 DEF Took, Want
    <3> QED
      BY <1>4, <3>4 DEF Move, q
  <2>10. CASE pp.len = 0 /\ pipes'[h] \in {pp, ee}
    <3>1. q.nb = q.got
      BY <2>1, <2>4, <2>7, <2>10, PipeAssumption DEF Good, RingOK, InOrder
    <3>2. Want(pp) = n /\ Want(ee) = n
      BY <2>2, <2>4, <2>5 DEF Want
    <3>3. Waits(q, pipes'[h], n)
      BY Zenon, <1>1, <2>4, <2>5, <2>8, <2>10, <3>1, <3>2 DEF Waits
    <3> QED
      BY <1>4, <3>3 DEF Move, q
  <2> QED
    BY <1>1, <1>2, <1>4, <2>9, <2>10
<1> QED
  BY <1>3, <1>4

LEMMA SysWriteMoves ==
  ASSUME IInv, NEW p \in Procs, NEW fd \in Fds, NEW n \in Sizes, SysWrite(p, fd, n),
         NEW h \in PIPES
  PROVE  Move(pipes[h], pipes'[h])
<1> DEFINE g  == fdesc[p][fd].pipe
           q  == pipes[g]
           pp == [q EXCEPT !.writer = p, !.wsiz = n, !.wptr = 0, !.nb = q.nb + n]
<1>1. pipes' = [pipes EXCEPT ![g] = pipe_write(pp)] /\ q.live /\ q.writer = NULL
  BY DEF SysWrite
<1>2. pipes \in [PIPES -> PipeRec]
  BY DEF IInv, TypeOK
<1>3. CASE h # g
  <2>1. pipes'[h] = pipes[h]
    BY <1>1, <1>2, <1>3
  <2> QED
    BY <2>1 DEF Move, Same
<1>4. CASE h = g
  <2>1. Good(q) /\ q \in PipeRec
    BY <1>4 DEF IInv, Good
  <2>2. n \in Nat /\ n > 0 /\ p # NULL
    BY PipeAssumption DEF Sizes, Procs, NULL
  <2>3. q.len \in Nat /\ q.nb \in Nat /\ q.got \in Nat /\ q.rsiz \in Nat /\ q.nb + n \in Nat
    BY <2>1, <2>2, PipeFields
  <2>4. pp \in PipeRec
    BY Zenon, <2>1, <2>2, <2>3 DEF PipeRec
  <2>5. /\ pp.len = q.len /\ pp.head = q.head /\ pp.buf = q.buf
        /\ pp.wptr = 0 /\ pp.wsiz = n /\ pp.writer = p /\ pp.nb = q.nb + n
        /\ pp.got = q.got /\ pp.intact = q.intact /\ pp.live = q.live
        /\ pp.reader = q.reader /\ pp.rsiz = q.rsiz
    BY <2>1 DEF PipeRec
  <2> HIDE DEF pp, q, g
  <2>6. InOrder(pp)
    <3>1. q.got + q.len = q.nb
      BY <1>1, <2>1, PipeFields DEF Good, RingOK, InOrder
    <3>2. pp.got + pp.len = pp.nb - (pp.wsiz - pp.wptr)
      BY <2>2, <2>3, <2>5, <3>1
    <3> QED
      BY <2>1, <2>5, <3>2 DEF Good, InOrder
  <2>7. /\ pp.len < BUFLEN /\ (pp.reader # NULL => pp.len = 0 /\ pp.rsiz > 0)
    BY <2>1, <2>5 DEF Good, RingOK
  <2>8. /\ pipe_write(pp).live = pp.live /\ pipe_write(pp).nb = pp.nb
        /\ pipe_write(pp).reader = NULL
        /\ pp.reader = NULL => pipe_write(pp).got = pp.got
        /\ pp.reader # NULL =>
             \E k \in 1 .. pp.wsiz : k <= pp.rsiz /\ pipe_write(pp).got = pp.got + k
    BY <2>2, <2>4, <2>5, <2>6, <2>7, PipeWriteCounts
  <2>9. Want(q) = 0 <=> q.reader = NULL
    BY <2>5, <2>7 DEF Want
  <2>10. Gave(q, pipe_write(pp), n)
    BY <1>1, <2>5, <2>8, <2>9 DEF Gave, Want
  <2>11. pipes'[h] = pipe_write(pp)
    BY <1>1, <1>2, <1>4
  <2> QED
    BY <1>4, <2>10, <2>11 DEF Move, q
<1> QED
  BY <1>3, <1>4

LEMMA DropEndsMoves ==
  ASSUME NEW pp, Good(pp), NEW nr \in Nat, NEW nw \in Nat, ~DropFails(pp, nr, nw)
  PROVE  Move(pp, DropEnds(pp, nr, nw))
<1>1. pp \in PipeRec
  BY DEF Good
<1>2. CASE nr + nw = 0
  BY <1>2 DEF DropEnds, Move, Same
<1>3. CASE nr + nw # 0 /\ pp.rref = nr /\ pp.wref = nw
  <2>1. DropEnds(pp, nr, nw) = ZeroPipe /\ pp.live
    BY <1>3 DEF DropEnds, DropFails
  <2>2. ~ZeroPipe.live /\ Fresh(ZeroPipe)
    BY DEF ZeroPipe, Fresh, Want
  <2> QED
    BY <2>1, <2>2 DEF Move
<1>4. CASE nr + nw # 0 /\ ~(pp.rref = nr /\ pp.wref = nw)
  <2> DEFINE r == pp.rref - nr
             w == pp.wref - nw
             e == pp.ended \/ Wakes(pp, nw)
             q == [pp EXCEPT !.rref = r, !.wref = w, !.ended = e]
  <2>1. DropEnds(pp, nr, nw) = q
    BY <1>4 DEF DropEnds
  <2> HIDE DEF r, w, e
  <2>2. q.live = pp.live /\ q.nb = pp.nb /\ q.got = pp.got /\ q.reader = pp.reader /\ q.rsiz = pp.rsiz
    BY <1>1 DEF PipeRec
  <2> QED
    BY <2>1, <2>2 DEF Move, Same, Want
<1> QED
  BY <1>2, <1>3, <1>4

LEMMA StillMoves == ASSUME UNCHANGED pipes, NEW h \in PIPES PROVE Move(pipes[h], pipes'[h])
BY DEF Move, Same

LEMMA ClearProcMoves ==
  ASSUME IInv, NEW p \in Procs, ClearProc(p), NEW h \in PIPES
  PROVE  Move(pipes[h], pipes'[h])
<1> DEFINE nr(g) == Cardinality(Ends(p, g, "RPIPE"))
           nw(g) == Cardinality(Ends(p, g, "WPIPE"))
<1>1. CASE \E g \in PIPES : DropFails(pipes[g], nr(g), nw(g))
  BY <1>1, StillMoves DEF ClearProc, Corrupt
<1>2. CASE ~\E g \in PIPES : DropFails(pipes[g], nr(g), nw(g))
  <2>1. pipes' = [g \in PIPES |-> DropEnds(pipes[g], nr(g), nw(g))]
    BY <1>2 DEF ClearProc
  <2>2. nr(h) \in Nat /\ nw(h) \in Nat
    BY EndsCounted
  <2>3. ~DropFails(pipes[h], nr(h), nw(h)) /\ Good(pipes[h])
    BY <1>2 DEF IInv
  <2> HIDE DEF nr, nw
  <2>4. Move(pipes[h], DropEnds(pipes[h], nr(h), nw(h)))
    BY <2>2, <2>3, DropEndsMoves
  <2> QED
    BY <2>1, <2>4
<1> QED
  BY <1>1, <1>2

LEMMA SysCloseMoves ==
  ASSUME IInv, NEW p \in Procs, NEW fd \in Fds, SysClose(p, fd), NEW h \in PIPES
  PROVE  Move(pipes[h], pipes'[h])
<1> DEFINE g  == fdesc[p][fd].pipe
           nr == IF fdesc[p][fd].file_type = "RPIPE" THEN 1 ELSE 0
           nw == 1 - nr
<1>1. CASE DropFails(pipes[g], nr, nw)
  BY <1>1, StillMoves DEF SysClose, Corrupt
<1>2. CASE ~DropFails(pipes[g], nr, nw)
  <2>1. pipes' = [pipes EXCEPT ![g] = DropEnds(pipes[g], nr, nw)]
    BY Zenon, <1>2 DEF SysClose
  <2>2. nr \in Nat /\ nw \in Nat
    OBVIOUS
  <2>3. pipes \in [PIPES -> PipeRec] /\ Good(pipes[h])
    BY DEF IInv, TypeOK
  <2> HIDE DEF nr, nw, g
  <2>4. CASE h = g
    <3>1. Move(pipes[g], DropEnds(pipes[g], nr, nw))
      BY <1>2, <2>2, <2>3, <2>4, DropEndsMoves
    <3> QED
      BY <2>1, <2>3, <2>4, <3>1
  <2>5. CASE h # g
    <3>1. pipes'[h] = pipes[h]
      BY <2>1, <2>3, <2>5
    <3> QED
      BY <3>1 DEF Move, Same
  <2> QED
    BY <2>4, <2>5
<1> QED
  BY <1>1, <1>2

LEMMA SysPipeMoves ==
  ASSUME IInv, NEW p \in Procs, SysPipe(p), NEW h \in PIPES
  PROVE  Move(pipes[h], pipes'[h])
<1> DEFINE New == [ZeroPipe EXCEPT !.live = TRUE, !.rref = 1, !.wref = 1]
<1>1. PICK g \in PIPES : ~pipes[g].live /\ pipes' = [pipes EXCEPT ![g] = New]
  BY Zenon DEF SysPipe
<1>2. New.live /\ Fresh(New)
  BY DEF ZeroPipe, Fresh, Want
<1>3. pipes \in [PIPES -> PipeRec]
  BY DEF IInv, TypeOK
<1> HIDE DEF New
<1>4. pipes'[h] = IF h = g THEN New ELSE pipes[h]
  BY <1>1, <1>3
<1> QED
  BY <1>1, <1>2, <1>4 DEF Move, Same

LEMMA ForkMoves ==
  ASSUME IInv, NEW p \in Procs, Fork(p), NEW h \in PIPES
  PROVE  Move(pipes[h], pipes'[h])
<1> DEFINE nr(g) == Cardinality(Ends(p, g, "RPIPE"))
           nw(g) == Cardinality(Ends(p, g, "WPIPE"))
           q(g) == [pipes[g] EXCEPT !.rref = @ + nr(g), !.wref = @ + nw(g)]
<1>1. CASE Corrupt
  BY <1>1, StillMoves DEF Corrupt
<1>2. CASE ~Corrupt
  <2>1. pipes' = [g \in PIPES |-> q(g)]
    BY Zenon, <1>2 DEF Fork
  <2>2. pipes[h] \in PipeRec
    BY DEF IInv, TypeOK
  <2>3. /\ q(h).live = pipes[h].live /\ q(h).nb = pipes[h].nb /\ q(h).got = pipes[h].got
        /\ q(h).reader = pipes[h].reader /\ q(h).rsiz = pipes[h].rsiz
    BY <2>2 DEF PipeRec
  <2> HIDE DEF q
  <2> QED
    BY <2>1, <2>3 DEF Move, Same, Want
<1> QED
  BY <1>1, <1>2

LEMMA NextMoves ==
  ASSUME IInv, [Next]_vars, NEW h \in PIPES
  PROVE  Move(pipes[h], pipes'[h])
<1>1. CASE UNCHANGED vars
  BY <1>1, StillMoves DEF vars
<1>2. ASSUME NEW p \in Procs, SysPipe(p) \/ Fork(p) PROVE Move(pipes[h], pipes'[h])
  BY <1>2, SysPipeMoves, ForkMoves
<1>3. ASSUME NEW p \in Procs, Exit(p) \/ Reap(p) PROVE Move(pipes[h], pipes'[h])
  BY <1>3, ClearProcMoves DEF Exit, Reap
<1>4. ASSUME NEW p \in Procs, ExitZombie(p) PROVE Move(pipes[h], pipes'[h])
  BY <1>4, StillMoves DEF ExitZombie
<1>5. ASSUME NEW p \in Procs, NEW fd \in Fds, SysUsesDead(p, fd)
      PROVE  Move(pipes[h], pipes'[h])
  BY <1>5, StillMoves DEF SysUsesDead, Corrupt
<1>8. ASSUME NEW p \in Procs, SysPipeOverruns(p) PROVE Move(pipes[h], pipes'[h])
  BY <1>8, StillMoves DEF SysPipeOverruns, Corrupt
<1>6. ASSUME NEW p \in Procs, NEW fd \in Fds, SysClose(p, fd)
      PROVE  Move(pipes[h], pipes'[h])
  BY <1>6, SysCloseMoves
<1>7. ASSUME NEW p \in Procs, NEW fd \in Fds, NEW n \in Sizes,
             SysRead(p, fd, n) \/ SysWrite(p, fd, n)
      PROVE  Move(pipes[h], pipes'[h])
  BY <1>7, SysReadMoves, SysWriteMoves
<1> QED
  BY <1>1, <1>2, <1>3, <1>4, <1>5, <1>6, <1>7, <1>8 DEF Next

LEMMA StaysFresh == ASSUME IInv, DeadIsFresh, [Next]_vars PROVE DeadIsFresh'
<1> SUFFICES ASSUME NEW h \in PIPES, ~pipes'[h].live PROVE Fresh(pipes'[h])
  BY DEF DeadIsFresh
<1>1. Move(pipes[h], pipes'[h])
  BY NextMoves
<1>2. ~pipes[h].live => Fresh(pipes[h])
  BY DEF DeadIsFresh
<1> QED
  BY <1>1, <1>2 DEF Move, Same, Fresh, Took, Waits, Gave

(***************************************************************************)
(* Every pipe implements the byte stream of Channel, for every size of the *)
(* ring, of the transfers and of the process table and whatever programs   *)
(* close: the ring of pipe_read and pipe_write, their calls of each other, *)
(* and the counting of ends are invisible to the users of the pipe.        *)
(***************************************************************************)
THEOREM Implements == Spec => PipeIsChannel
<1>1. Init => IInv /\ DeadIsFresh
  <2>1. Init => DeadIsFresh
    BY DEF Init, DeadIsFresh, Fresh, ZeroPipe, Want
  <2> QED
    BY <2>1, InitIInv
<1>2. IInv /\ DeadIsFresh /\ [Next]_vars => (IInv /\ DeadIsFresh)'
  BY NextIInv, StaysFresh
<1>3. IInv /\ IInv' /\ DeadIsFresh /\ [Next]_vars => [Stream!Next]_Stream!chan
  BY NextMoves, MoveSimulated, ThePipeAssumption
<1> QED
  BY <1>1, <1>2, <1>3, StreamInit, PTL DEF Spec, PipeIsChannel, Stream!Spec
=============================================================================
