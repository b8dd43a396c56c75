--------------------------- MODULE ProcTreeProofs ---------------------------
(***************************************************************************)
(* Proofs, for every number of slots and every program behaviour, that no  *)
(* end of a child is missed by wait and that sched() always has a process  *)
(* to run; and, as long as programs are orderly, that the lists of the     *)
(* family tree hold exactly the children, that whoever waits has a living  *)
(* child and that wait reports the end of a child of the caller.           *)
(***************************************************************************)
EXTENDS MCProcTree, WellFoundedInduction, TLAPS

(***************************************************************************)
(* What the handlers keep true of the table.  To NoLostWakeup and          *)
(* IdleSchedulable it adds that no list of the family tree reaches idle,   *)
(* so that neither loop of exit_as_parent nor sys_wait can clear it.       *)
(***************************************************************************)
Wakeful(r) ==
  /\ r.waiting => r.zombie = NULL /\ r.state = "PENDING"
  /\ r.state = "PENDING" => r.waiting

AvoidsIdle(r) == r.living # Idle /\ r.zombie # Idle /\ r.next # Idle

Sound(ps) ==
  /\ ps \in [Slots -> Proc]
  /\ \A q \in Slots : Wakeful(ps[q]) /\ AvoidsIdle(ps[q])
  /\ ps[Idle].state \in {"READY", "RUNNING"} /\ ps[Idle].pgtbl

(* The program on the processor is not asleep in wait.                     *)
IInv == TypeOK /\ Sound(procs) /\ ~procs[curproc].waiting

USE DEF Idle, Shell, NULL

LEMMA IdleIsSlot == Idle \in Slots /\ Shell \in Slots
BY ConstantsAssumption DEF Slots

LEMMA ClearedSound == Cleared \in Proc /\ Wakeful(Cleared) /\ AvoidsIdle(Cleared)
BY DEF Cleared, Proc, States, Ptr, Wakeful, AvoidsIdle

(* Overwriting a slot other than idle with a sound record keeps the table. *)
LEMMA PutSound ==
  ASSUME NEW ps, Sound(ps), NEW p \in Slots, NEW r \in Proc,
         Wakeful(r), AvoidsIdle(r),
         p = Idle => r.state \in {"READY", "RUNNING"} /\ r.pgtbl
  PROVE  Sound(Put(ps, p, r))
BY IdleIsSlot DEF Sound, Put

(* So does clearing any slots but idle's (clear_proc).                     *)
LEMMA ClearProcSound ==
  ASSUME NEW ps, Sound(ps), NEW S, Idle \notin S
  PROVE  Sound(ClearProc(ps, S))
BY IdleIsSlot, ClearedSound DEF Sound, ClearProc

(* No sibling list that does not start at idle reaches idle: the slots     *)
(* other than idle are closed under next_sibling.                          *)
LEMMA ChainAvoidsIdle ==
  ASSUME NEW ps, Sound(ps), NEW head \in Ptr, head # Idle
  PROVE  Idle \notin Chain(ps, head)
<1> DEFINE S == Slots \ {Idle}
<1>1. S \in SUBSET Slots
  OBVIOUS
<1>2. head \in Slots => head \in S
  OBVIOUS
<1>3. \A s \in S : ps[s].next \in Slots => ps[s].next \in S
  BY DEF Sound, AvoidsIdle
<1> HIDE DEF S
<1>4. Idle \notin S
  BY DEF S
<1> QED
  BY <1>1, <1>2, <1>3, <1>4 DEF Chain

(* The first loop of exit_as_parent only writes parent pointers.           *)
LEMMA OrphanSound ==
  ASSUME NEW ps, Sound(ps), NEW p \in Slots
  PROVE  Sound(Orphan(ps, p)) /\ Orphan(ps, p)[p].waiting = ps[p].waiting
<1>1. \A q \in Slots : [ps[q] EXCEPT !.parent = -1] \in Proc
  BY DEF Sound, Proc, Ptr
<1> QED
  BY <1>1, IdleIsSlot DEF Sound, Orphan, Wakeful, AvoidsIdle, Proc

LEMMA ExitAsParentSound ==
  ASSUME NEW ps, Sound(ps), NEW p \in Slots, ~ps[p].waiting
  PROVE  Sound(ExitAsParent(ps, p)) /\ ~ExitAsParent(ps, p)[p].waiting
<1> DEFINE o == Orphan(ps, p)
<1>1. Sound(o) /\ ~o[p].waiting
  BY OrphanSound
<1>2. o[p].zombie \in Ptr /\ o[p].zombie # Idle
  BY <1>1 DEF Sound, AvoidsIdle, Proc
<1>3. Idle \notin Chain(o, o[p].zombie)
  BY <1>1, <1>2, ChainAvoidsIdle
<1>4. Sound(ClearProc(o, Chain(o, o[p].zombie)))
  BY <1>1, <1>3, ClearProcSound
<1>5. ~ClearProc(o, Chain(o, o[p].zombie))[p].waiting
  BY <1>1 DEF ClearProc, Cleared
<1> QED
  BY <1>4, <1>5 DEF ExitAsParent

(* A child that joins the zombie list of a parent which is not in wait.    *)
LEMMA BecomeZombieSound ==
  ASSUME NEW ps, Sound(ps), NEW p \in Slots, p # Idle, ~ps[p].waiting,
         NEW val \in Int, ps[p].parent \in Slots, ~ps[ps[p].parent].waiting
  PROVE  Sound(BecomeZombie(ps, p, val)) /\ ~BecomeZombie(ps, p, val)[p].waiting
<1> DEFINE par   == ps[p].parent
           ohead == ps[par].zombie
           r0 == [ps[p] EXCEPT !.prev = NULL, !.next = NULL]
           ro == [ps[ohead] EXCEPT !.prev = p]
           o  == Put(ps, ohead, ro)
           ra == [o[p] EXCEPT !.next = ohead]
           a  == IF ohead = NULL THEN Put(ps, p, r0) ELSE Put(o, p, ra)
           rb == [a[par] EXCEPT !.zombie = p]
           b  == Put(a, par, rb)
           rc == [b[p] EXCEPT !.exit_val = val, !.state = "ZOMBIE"]
<1>1. ohead \in Ptr /\ ohead # Idle
  BY DEF Sound, AvoidsIdle, Proc
<1>2. Sound(a) /\ ~a[p].waiting /\ ~a[par].waiting
  <2>1. CASE ohead = NULL
    <3>1. r0 \in Proc /\ Wakeful(r0) /\ AvoidsIdle(r0) /\ ~r0.waiting
      <4>1. ps[p] \in Proc /\ Wakeful(ps[p]) /\ AvoidsIdle(ps[p])
        BY DEF Sound
      <4>2. r0 \in Proc
        BY Zenon, <4>1 DEF Proc, Ptr
      <4>3. /\ r0.state = ps[p].state /\ r0.waiting = ps[p].waiting
            /\ r0.living = ps[p].living /\ r0.zombie = ps[p].zombie /\ r0.next = NULL
        BY <4>1 DEF Proc
      <4> HIDE DEF r0
      <4> QED
        BY <4>1, <4>2, <4>3 DEF Wakeful, AvoidsIdle
    <3> HIDE DEF r0
    <3>2. a = Put(ps, p, r0)
      BY <2>1
    <3>3. ~Put(ps, p, r0)[p].waiting /\ ~Put(ps, p, r0)[par].waiting
      BY <3>1 DEF Put
    <3> QED
      BY Zenon, <3>1, <3>2, <3>3, PutSound
  <2>2. CASE ohead # NULL
    <3>1. ohead \in Slots
      BY <1>1, <2>2 DEF Ptr
    <3>2. ro \in Proc /\ Wakeful(ro) /\ AvoidsIdle(ro) /\ ro.waiting = ps[ohead].waiting
      <4>1. ps[ohead] \in Proc /\ Wakeful(ps[ohead]) /\ AvoidsIdle(ps[ohead])
        BY <3>1 DEF Sound
      <4>2. ro \in Proc /\ ro.waiting = ps[ohead].waiting /\ ro.state = ps[ohead].state
        BY Zenon, <4>1 DEF Proc, Ptr
      <4>3. /\ ro.living = ps[ohead].living /\ ro.zombie = ps[ohead].zombie
            /\ ro.next = ps[ohead].next
        BY Zenon, <4>1 DEF Proc
      <4> HIDE DEF ro
      <4> QED
        BY Zenon, <4>1, <4>2, <4>3 DEF Wakeful, AvoidsIdle
    <3> HIDE DEF ro
    <3>3. Sound(o) /\ ~o[p].waiting /\ ~o[par].waiting
      <4>1. Sound(o)
        BY <1>1, <3>1, <3>2, PutSound
      <4> QED
        BY <3>2, <4>1 DEF Put
    <3> HIDE DEF o
    <3>4. ra \in Proc /\ Wakeful(ra) /\ AvoidsIdle(ra) /\ ~ra.waiting
      <4>1. o[p] \in Proc /\ Wakeful(o[p]) /\ AvoidsIdle(o[p])
        BY <3>3 DEF Sound
      <4>2. ra \in Proc /\ ra.waiting = o[p].waiting /\ ra.state = o[p].state
        BY <1>1, <4>1 DEF Proc
      <4>3. ra.living = o[p].living /\ ra.zombie = o[p].zombie /\ ra.next = ohead
        BY <4>1 DEF Proc
      <4> HIDE DEF ra
      <4> QED
        BY <1>1, <3>3, <4>1, <4>2, <4>3 DEF Wakeful, AvoidsIdle
    <3> HIDE DEF ra
    <3>5. a = Put(o, p, ra)
      BY <2>2
    <3>6. ~Put(o, p, ra)[p].waiting /\ ~Put(o, p, ra)[par].waiting
      BY <3>3, <3>4 DEF Put
    <3> QED
      BY Zenon, <3>3, <3>4, <3>5, <3>6, PutSound
  <2> QED
    BY Zenon, <2>1, <2>2
<1> HIDE DEF a
<1>3. Sound(b) /\ ~b[p].waiting
  <2>1. rb \in Proc /\ Wakeful(rb) /\ AvoidsIdle(rb) /\ ~rb.waiting
    <3>1. a[par] \in Proc /\ Wakeful(a[par]) /\ AvoidsIdle(a[par])
      BY <1>2 DEF Sound
    <3>2. rb \in Proc
      BY <3>1 DEF Proc, Ptr
    <3>3. /\ rb.state = a[par].state /\ rb.waiting = a[par].waiting
          /\ rb.living = a[par].living /\ rb.zombie = p /\ rb.next = a[par].next
      BY <3>1 DEF Proc
    <3> HIDE DEF rb
    <3> QED
      BY <1>2, <3>1, <3>2, <3>3 DEF Wakeful, AvoidsIdle
  <2>2. par = Idle => rb.state \in {"READY", "RUNNING"} /\ rb.pgtbl
    BY <1>2 DEF Sound, Proc
  <2> HIDE DEF rb
  <2>3. ~b[p].waiting
    BY <1>2, <2>1 DEF Put
  <2> QED
    BY <1>2, <2>1, <2>2, <2>3, PutSound
<1> HIDE DEF b
<1>4. rc \in Proc /\ Wakeful(rc) /\ AvoidsIdle(rc) /\ ~rc.waiting
  <2>1. b[p] \in Proc /\ AvoidsIdle(b[p])
    BY <1>3 DEF Sound
  <2>2. rc \in Proc
    BY Zenon, <2>1 DEF Proc, States
  <2>3. /\ rc.state = "ZOMBIE" /\ rc.waiting = b[p].waiting
        /\ rc.living = b[p].living /\ rc.zombie = b[p].zombie /\ rc.next = b[p].next
    BY <2>1 DEF Proc
  <2> HIDE DEF rc
  <2> QED
    BY <1>3, <2>1, <2>2, <2>3 DEF Wakeful, AvoidsIdle
<1>5. BecomeZombie(ps, p, val) = Put(b, p, rc)
  BY DEF BecomeZombie, a, b
<1> HIDE DEF rc
<1> QED
  BY <1>3, <1>4, <1>5, PutSound DEF Put

(* A child that ends while its parent is in wait.                          *)
LEMMA WakeParentSound ==
  ASSUME NEW ps, Sound(ps), NEW p \in Slots, p # Idle,
         ps[p].parent \in Slots, ps[ps[p].parent].waiting
  PROVE  Sound(WakeParent(ps, p))
<1> DEFINE par == ps[p].parent
           pr  == ps[p].prev
           nx  == ps[p].next
           ra  == [ps[par] EXCEPT !.waiting = FALSE, !.state = "READY"]
           a   == Put(ps, par, ra)
           rb  == [a[pr] EXCEPT !.next = nx]
           b   == IF pr = NULL THEN a ELSE Put(a, pr, rb)
           rc  == [b[nx] EXCEPT !.prev = pr]
           c   == IF nx = NULL THEN b ELSE Put(b, nx, rc)
           rd  == [c[par] EXCEPT !.living = IF @ = p THEN nx ELSE @,
                                 !.zombie = IF @ = p THEN nx ELSE @]
<1>0. pr \in Ptr /\ nx \in Ptr /\ nx # Idle
  BY DEF Sound, AvoidsIdle, Proc
<1>1. Sound(a) /\ ~a[par].waiting
  <2>1. ra \in Proc /\ ra.state = "READY" /\ ~ra.waiting /\ AvoidsIdle(ra)
    <3>1. ps[par] \in Proc /\ AvoidsIdle(ps[par])
      BY DEF Sound
    <3>2. ra \in Proc /\ ra.waiting = FALSE /\ ra.state = "READY"
      BY Zenon, <3>1 DEF Proc, States
    <3>3. ra.living = ps[par].living /\ ra.zombie = ps[par].zombie /\ ra.next = ps[par].next
      BY <3>1 DEF Proc
    <3> HIDE DEF ra
    <3> QED
      BY <3>1, <3>2, <3>3 DEF AvoidsIdle
  <2>2. Wakeful(ra)
    BY <2>1 DEF Wakeful
  <2>3. par = Idle => ra.pgtbl
    BY DEF Sound, Proc
  <2> HIDE DEF ra
  <2>4. ~a[par].waiting
    BY <2>1 DEF Put
  <2> QED
    BY <2>1, <2>2, <2>3, <2>4, PutSound
<1> HIDE DEF a
<1>2. Sound(b) /\ ~b[par].waiting
  <2>1. CASE pr # NULL
    <3>1. pr \in Slots
      BY <1>0, <2>1 DEF Ptr
    <3>2. rb \in Proc /\ Wakeful(rb) /\ AvoidsIdle(rb) /\ rb.waiting = a[pr].waiting
      <4>1. a[pr] \in Proc /\ Wakeful(a[pr]) /\ AvoidsIdle(a[pr])
        BY <1>1, <3>1 DEF Sound
      <4>2. rb \in Proc /\ rb.waiting = a[pr].waiting /\ rb.state = a[pr].state
        BY <1>0, <4>1 DEF Proc
      <4>3. rb.living = a[pr].living /\ rb.zombie = a[pr].zombie /\ rb.next = nx
        BY <4>1 DEF Proc
      <4> HIDE DEF rb
      <4> QED
        BY <1>0, <4>1, <4>2, <4>3 DEF Wakeful, AvoidsIdle
    <3>3. pr = Idle => rb.state \in {"READY", "RUNNING"} /\ rb.pgtbl
      BY <1>1, <3>1 DEF Sound, Proc
    <3> HIDE DEF rb
    <3>4. ~Put(a, pr, rb)[par].waiting
      BY <1>1, <3>2 DEF Put
    <3> QED
      BY <1>1, <2>1, <3>1, <3>2, <3>3, <3>4, PutSound
  <2> QED
    BY <1>1, <2>1
<1> HIDE DEF b
<1>3. Sound(c) /\ ~c[par].waiting
  <2>1. CASE nx # NULL
    <3>1. nx \in Slots
      BY <1>0, <2>1 DEF Ptr
    <3>2. rc \in Proc /\ Wakeful(rc) /\ AvoidsIdle(rc) /\ rc.waiting = b[nx].waiting
      <4>1. b[nx] \in Proc /\ Wakeful(b[nx]) /\ AvoidsIdle(b[nx])
        BY <1>2, <3>1 DEF Sound
      <4>2. rc \in Proc /\ rc.waiting = b[nx].waiting /\ rc.state = b[nx].state
        BY <1>0, <4>1 DEF Proc
      <4>3. rc.living = b[nx].living /\ rc.zombie = b[nx].zombie /\ rc.next = b[nx].next
        BY <4>1 DEF Proc
      <4> HIDE DEF rc
      <4> QED
        BY <4>1, <4>2, <4>3 DEF Wakeful, AvoidsIdle
    <3> HIDE DEF rc
    <3>3. ~Put(b, nx, rc)[par].waiting
      BY <1>2, <3>2 DEF Put
    <3> QED
      BY <1>0, <1>2, <2>1, <3>1, <3>2, <3>3, PutSound
  <2> QED
    BY <1>2, <2>1
<1> HIDE DEF c
<1>4. Sound(Put(c, par, rd))
  <2> DEFINE l == IF c[par].living = p THEN nx ELSE c[par].living
             z == IF c[par].zombie = p THEN nx ELSE c[par].zombie
  <2>1. l \in Ptr /\ l # Idle /\ z \in Ptr /\ z # Idle
    BY <1>0, <1>3 DEF Sound, Proc, AvoidsIdle
  <2>2. rd = [c[par] EXCEPT !.living = l, !.zombie = z]
    BY <1>3 DEF Sound, Proc
  <2> HIDE DEF rd, l, z
  <2>3. rd \in Proc /\ rd.state = c[par].state /\ rd.waiting = c[par].waiting
    <3>1. c[par] \in Proc
      BY <1>3 DEF Sound
    <3>2. rd \in Proc
      BY Zenon, <2>1, <2>2, <3>1 DEF Proc
    <3> QED
      BY <2>2, <3>1, <3>2 DEF Proc
  <2>4. AvoidsIdle(rd) /\ Wakeful(rd)
    <3>1. rd.living = l /\ rd.zombie = z /\ rd.next = c[par].next
      BY <1>3, <2>2 DEF Sound, Proc
    <3> QED
      BY <1>3, <2>1, <2>3, <3>1 DEF Sound, Wakeful, AvoidsIdle
  <2>5. par = Idle => rd.state \in {"READY", "RUNNING"} /\ rd.pgtbl
    BY <1>3, <2>2 DEF Sound, Proc
  <2> QED
    BY <1>3, <2>3, <2>4, <2>5, PutSound
<1> QED
  BY Zenon, <1>4 DEF WakeParent, a, b, c

LEMMA ExitAsChildSound ==
  ASSUME NEW ps, Sound(ps), NEW p \in Slots, p # Idle, ~ps[p].waiting, NEW val \in Int
  PROVE  Sound(ExitAsChild(ps, p, val)) /\ ~ExitAsChild(ps, p, val)[p].waiting
<1>1. ps[p].parent \in Ptr
  BY DEF Sound, Proc
<1>2. CASE ps[p].parent = NULL
  BY Zenon, <1>2, ClearProcSound DEF ExitAsChild, ClearProc, Cleared
<1>3. CASE ps[p].parent # NULL /\ ~ps[ps[p].parent].waiting
  BY <1>1, <1>3, BecomeZombieSound DEF ExitAsChild, Ptr
<1>4. CASE ps[p].parent # NULL /\ ps[ps[p].parent].waiting
  <2>1. Sound(WakeParent(ps, p))
    BY <1>1, <1>4, WakeParentSound DEF Ptr
  <2>2. ExitAsChild(ps, p, val) = ClearProc(WakeParent(ps, p), {p})
    BY <1>4 DEF ExitAsChild
  <2>3. ~ClearProc(WakeParent(ps, p), {p})[p].waiting
    BY DEF ClearProc, Cleared
  <2> QED
    BY <2>1, <2>2, <2>3, ClearProcSound
<1> QED
  BY <1>2, <1>3, <1>4

LEMMA KillProcSound ==
  ASSUME NEW ps, Sound(ps), NEW p \in Slots, p # Idle, ~ps[p].waiting, NEW val \in Int
  PROVE  Sound(KillProc(ps, p, val)) /\ ~KillProc(ps, p, val)[p].waiting
BY ExitAsParentSound, ExitAsChildSound DEF KillProc

(* sched() hands the processor to a process that is not asleep.            *)
LEMMA SchedSound ==
  ASSUME NEW ps, Sound(ps), Sched(ps)
  PROVE  /\ Sound(procs') /\ ~procs'[curproc'].waiting
         /\ curproc' \in Slots /\ halted' \in BOOLEAN
<1>1. PICK q \in Slots :
        /\ ps[q].state = "READY"
        /\ procs' = Put(ps, q, [ps[q] EXCEPT !.state = "RUNNING"])
        /\ curproc' = q
        /\ halted' = ~ps[q].pgtbl
  BY DEF Sched
<1> DEFINE r == [ps[q] EXCEPT !.state = "RUNNING"]
<1>2. ps[q] \in Proc /\ Wakeful(ps[q]) /\ AvoidsIdle(ps[q])
  BY DEF Sound
<1>3. r \in Proc /\ r.waiting = ps[q].waiting /\ r.pgtbl = ps[q].pgtbl
      /\ r.state = "RUNNING" /\ r.zombie = ps[q].zombie
      /\ r.living = ps[q].living /\ r.next = ps[q].next
  BY <1>2 DEF Proc, States
<1>4. ~ps[q].waiting
  BY <1>1, <1>2 DEF Wakeful
<1> HIDE DEF r
<1>5. Wakeful(r) /\ AvoidsIdle(r)
  BY <1>2, <1>3, <1>4 DEF Wakeful, AvoidsIdle
<1>6. q = Idle => r.pgtbl
  BY <1>3 DEF Sound
<1>7. procs' = Put(ps, q, r)
  BY <1>1 DEF r
<1>8. Sound(procs')
  BY <1>3, <1>5, <1>6, <1>7, PutSound
<1>9. procs'[curproc'] = r
  BY <1>1, <1>7 DEF Put
<1> QED
  BY <1>1, <1>3, <1>4, <1>8, <1>9

(* What is reported to a waiting parent is made of pids and an exit value. *)
LEMMA ReportTyped ==
  ASSUME IInv, NEW val \in Int
  PROVE  KillProcReports(procs, curproc, val)
           \in [waiter : Nat, child : Nat, forker : Nat, ended : BOOLEAN, val : Int]
<1> DEFINE o == ExitAsParent(procs, curproc)
<1>1. Sound(o)
  BY ExitAsParentSound DEF IInv, TypeOK
<1>2. o[curproc] \in Proc
  BY <1>1 DEF Sound, IInv, TypeOK
<1>3. o[curproc].parent # NULL => o[o[curproc].parent] \in Proc
  BY <1>1, <1>2 DEF Sound, Proc, Ptr
<1>4. /\ o[curproc].pid \in Nat /\ o[curproc].forker \in Nat
      /\ o[curproc].parent # NULL => o[o[curproc].parent].pid \in Nat
  BY <1>2, <1>3 DEF Proc
<1> HIDE DEF o
<1> QED
  BY <1>4 DEF KillProcReports, IInv, TypeOK, o

(* create_proc makes a sound record, and so does running it.              *)
LEMMA CreatedSound ==
  ASSUME NEW pid \in Nat
  PROVE  /\ Created(pid) \in Proc /\ Wakeful(Created(pid)) /\ AvoidsIdle(Created(pid))
         /\ ~Created(pid).waiting /\ Created(pid).pgtbl /\ Created(pid).state = "READY"
<1>1. Cleared \in Proc /\ AvoidsIdle(Cleared) /\ ~Cleared.waiting
  BY ClearedSound DEF Cleared
<1>2. Created(pid) \in Proc
  BY Zenon, <1>1 DEF Created, Proc, States
<1>3. /\ Created(pid).state = "READY" /\ Created(pid).pgtbl
      /\ Created(pid).waiting = Cleared.waiting /\ Created(pid).living = Cleared.living
      /\ Created(pid).zombie = Cleared.zombie /\ Created(pid).next = Cleared.next
  BY <1>1 DEF Created, Proc
<1>4. Wakeful(Created(pid)) /\ AvoidsIdle(Created(pid))
  BY <1>1, <1>3 DEF Wakeful, AvoidsIdle
<1> QED
  BY <1>1, <1>2, <1>3, <1>4

LEMMA InitIInv == Init => IInv
<1> SUFFICES ASSUME Init PROVE IInv
  OBVIOUS
<1> DEFINE sh == [Created(2) EXCEPT !.state = "RUNNING"]
<1>1. Created(1) \in Proc /\ Wakeful(Created(1)) /\ AvoidsIdle(Created(1))
      /\ Created(1).state = "READY" /\ Created(1).pgtbl
  BY CreatedSound
<1>2. sh \in Proc /\ Wakeful(sh) /\ AvoidsIdle(sh) /\ ~sh.waiting
  <2>0. Created(2) \in Proc
    BY CreatedSound
  <2>1. sh \in Proc
    BY <2>0 DEF Proc, States
  <2>2. sh.state = "RUNNING" /\ sh.waiting = Created(2).waiting /\ sh.living = Created(2).living
        /\ sh.zombie = Created(2).zombie /\ sh.next = Created(2).next
    BY <2>0 DEF Proc
  <2> HIDE DEF sh
  <2> QED
    BY <2>1, <2>2, CreatedSound DEF Wakeful, AvoidsIdle
<1>3. procs = [q \in Slots |-> IF q = Idle THEN Created(1)
                               ELSE IF q = Shell THEN sh ELSE Cleared]
  BY DEF Init
<1> HIDE DEF sh
<1>4. Sound(procs) /\ ~procs[Shell].waiting
  BY <1>1, <1>2, <1>3, ClearedSound, IdleIsSlot DEF Sound
<1>5. TypeOK
  <2>1. reaped \in [waiter : Nat, child : Nat, forker : Nat, ended : BOOLEAN, val : Int]
    BY DEF Init
  <2> QED
    BY Zenon, <1>4, <2>1, IdleIsSlot DEF Init, TypeOK, Sound
<1> QED
  BY <1>4, <1>5 DEF IInv, Init

(* sys_fork writes a closed slot, which is neither idle's nor asleep.      *)
LEMMA AddChildSound ==
  ASSUME NEW ps, Sound(ps), NEW p \in Slots, ~ps[p].waiting, NEW n \in Slots,
         ps[n].state = "CLOSE", NEW pid \in Nat
  PROVE  Sound(AddChild(ps, p, n, pid)) /\ ~AddChild(ps, p, n, pid)[p].waiting
<1> DEFINE ohead == ps[p].living
           ra == [ps[n] EXCEPT !.pgtbl = TRUE, !.pid = pid]
           a  == Put(ps, n, ra)
           r0 == [a[n] EXCEPT !.prev = NULL, !.next = NULL]
           ro == [a[ohead] EXCEPT !.prev = n]
           o  == Put(a, ohead, ro)
           rn == [o[n] EXCEPT !.next = ohead]
           b  == IF ohead = NULL THEN Put(a, n, r0) ELSE Put(o, n, rn)
           rc == [b[p] EXCEPT !.living = n]
           c  == Put(b, p, rc)
           rd == [c[n] EXCEPT !.parent = p, !.state = "READY", !.forker = ps[p].pid]
<1>0. n # Idle /\ ~ps[n].waiting /\ ohead \in Ptr /\ ohead # Idle
  BY IdleIsSlot DEF Sound, Wakeful, AvoidsIdle, Proc
<1>1. Sound(a) /\ ~a[n].waiting /\ ~a[p].waiting
  <2>1. ps[n] \in Proc /\ Wakeful(ps[n]) /\ AvoidsIdle(ps[n])
    BY DEF Sound
  <2>2. ra \in Proc /\ ra.waiting = ps[n].waiting /\ ra.state = ps[n].state
        /\ ra.zombie = ps[n].zombie /\ ra.living = ps[n].living /\ ra.next = ps[n].next
    BY Zenon, <2>1 DEF Proc
  <2> HIDE DEF ra
  <2>3. Wakeful(ra) /\ AvoidsIdle(ra)
    BY <2>1, <2>2 DEF Wakeful, AvoidsIdle
  <2>4. Sound(a)
    BY <1>0, <2>2, <2>3, PutSound
  <2> QED
    BY <1>0, <2>2, <2>4 DEF Put
<1> HIDE DEF a
<1>2. Sound(b) /\ ~b[n].waiting /\ ~b[p].waiting
  <2>1. CASE ohead = NULL
    <3>1. a[n] \in Proc /\ Wakeful(a[n]) /\ AvoidsIdle(a[n])
      BY <1>1 DEF Sound
    <3>2. r0 \in Proc /\ r0.waiting = a[n].waiting /\ r0.state = a[n].state
          /\ r0.zombie = a[n].zombie /\ r0.living = a[n].living /\ r0.next = NULL
      BY Zenon, <3>1 DEF Proc, Ptr
    <3> HIDE DEF r0
    <3>3. Wakeful(r0) /\ AvoidsIdle(r0)
      BY <3>1, <3>2 DEF Wakeful, AvoidsIdle
    <3>4. Sound(Put(a, n, r0))
      BY <1>0, <1>1, <3>2, <3>3, PutSound
    <3>5. ~Put(a, n, r0)[n].waiting /\ ~Put(a, n, r0)[p].waiting
      BY <1>1, <3>2 DEF Put
    <3> QED
      BY <2>1, <3>4, <3>5
  <2>2. CASE ohead # NULL
    <3>1. ohead \in Slots
      BY <1>0, <2>2 DEF Ptr
    <3>2. a[ohead] \in Proc /\ Wakeful(a[ohead]) /\ AvoidsIdle(a[ohead])
      BY <1>1, <3>1 DEF Sound
    <3>3. ro \in Proc /\ ro.waiting = a[ohead].waiting /\ ro.state = a[ohead].state
          /\ ro.zombie = a[ohead].zombie /\ ro.living = a[ohead].living
          /\ ro.next = a[ohead].next
      BY <3>2 DEF Proc, Ptr
    <3> HIDE DEF ro
    <3>4. Wakeful(ro) /\ AvoidsIdle(ro)
      BY <3>2, <3>3 DEF Wakeful, AvoidsIdle
    <3>5. Sound(o)
      BY <1>0, <1>1, <3>1, <3>3, <3>4, PutSound
    <3>6. ~o[n].waiting /\ ~o[p].waiting
      BY <1>1, <3>3 DEF Put
    <3> HIDE DEF o
    <3>7. o[n] \in Proc /\ Wakeful(o[n]) /\ AvoidsIdle(o[n])
      BY <3>5 DEF Sound
    <3>8. rn \in Proc /\ rn.waiting = o[n].waiting /\ rn.state = o[n].state
          /\ rn.zombie = o[n].zombie /\ rn.living = o[n].living /\ rn.next = ohead
      BY <1>0, <3>7 DEF Proc
    <3> HIDE DEF rn
    <3>9. Wakeful(rn) /\ AvoidsIdle(rn)
      BY <1>0, <3>7, <3>8 DEF Wakeful, AvoidsIdle
    <3>10. Sound(Put(o, n, rn))
      BY <1>0, <3>5, <3>8, <3>9, PutSound
    <3>11. ~Put(o, n, rn)[n].waiting /\ ~Put(o, n, rn)[p].waiting
      BY <3>6, <3>8 DEF Put
    <3> QED
      BY <2>2, <3>10, <3>11
  <2> QED
    BY Zenon, <2>1, <2>2
<1> HIDE DEF b
<1>3. Sound(c) /\ ~c[n].waiting /\ ~c[p].waiting
  <2>1. b[p] \in Proc /\ Wakeful(b[p]) /\ AvoidsIdle(b[p])
    BY <1>2 DEF Sound
  <2>2. rc \in Proc /\ rc.waiting = b[p].waiting /\ rc.state = b[p].state
        /\ rc.pgtbl = b[p].pgtbl /\ rc.zombie = b[p].zombie /\ rc.living = n
        /\ rc.next = b[p].next
    BY <2>1 DEF Proc, Ptr
  <2> HIDE DEF rc
  <2>3. Wakeful(rc) /\ AvoidsIdle(rc)
    BY <1>0, <2>1, <2>2 DEF Wakeful, AvoidsIdle
  <2>4. p = Idle => rc.state \in {"READY", "RUNNING"} /\ rc.pgtbl
    BY <1>2, <2>2 DEF Sound
  <2>5. Sound(c)
    BY <1>2, <2>2, <2>3, <2>4, PutSound
  <2> QED
    BY <1>2, <2>2, <2>5 DEF Put
<1> HIDE DEF c
<1>4. ps[p].pid \in Nat
  BY DEF Sound, Proc
<1>5. c[n] \in Proc /\ AvoidsIdle(c[n])
  BY <1>3 DEF Sound
<1>6. rd \in Proc /\ rd.waiting = c[n].waiting /\ rd.state = "READY"
      /\ rd.zombie = c[n].zombie /\ rd.living = c[n].living /\ rd.next = c[n].next
  BY Zenon, <1>4, <1>5 DEF Proc, Ptr, States
<1>7. AddChild(ps, p, n, pid) = Put(c, n, rd)
  BY DEF AddChild, a, b, c
<1> HIDE DEF rd
<1>8. Wakeful(rd) /\ AvoidsIdle(rd)
  BY <1>3, <1>5, <1>6 DEF Wakeful, AvoidsIdle
<1>9. Sound(Put(c, n, rd))
  BY <1>0, <1>3, <1>6, <1>8, PutSound
<1>10. ~Put(c, n, rd)[p].waiting
  BY <1>3, <1>6 DEF Put
<1> QED
  BY <1>7, <1>9, <1>10

(* Changing only the state and the waiting flag of a slot.                 *)
LEMMA StateSound ==
  ASSUME NEW ps, Sound(ps), NEW p \in Slots, NEW st \in States, NEW w \in BOOLEAN,
         w => st = "PENDING" /\ ps[p].zombie = NULL, st = "PENDING" => w,
         p = Idle => st \in {"READY", "RUNNING"}
  PROVE  Sound(Put(ps, p, [ps[p] EXCEPT !.waiting = w, !.state = st]))
<1> DEFINE r == [ps[p] EXCEPT !.waiting = w, !.state = st]
<1>1. ps[p] \in Proc /\ AvoidsIdle(ps[p])
  BY DEF Sound
<1>2. r \in Proc /\ r.waiting = w /\ r.state = st /\ r.pgtbl = ps[p].pgtbl
      /\ r.zombie = ps[p].zombie /\ r.living = ps[p].living /\ r.next = ps[p].next
  BY Zenon, <1>1 DEF Proc
<1> HIDE DEF r
<1>3. Wakeful(r) /\ AvoidsIdle(r)
  BY <1>1, <1>2 DEF Wakeful, AvoidsIdle
<1>4. p = Idle => r.pgtbl
  BY <1>2 DEF Sound
<1>5. Sound(Put(ps, p, r))
  BY <1>2, <1>3, <1>4, PutSound
<1> QED
  BY <1>5 DEF r

LEMMA WaitReapSound ==
  ASSUME IInv, WaitReap
  PROVE  IInv'
<1> DEFINE ohead == procs[curproc].zombie
           nhead == procs[ohead].next
           ra    == [procs[curproc] EXCEPT !.zombie = nhead]
           a     == Put(procs, curproc, ra)
           rb    == [a[nhead] EXCEPT !.prev = NULL]
           b     == IF nhead = NULL THEN a ELSE Put(a, nhead, rb)
<1>1. Sound(procs) /\ curproc \in Slots /\ ~procs[curproc].waiting
  BY DEF IInv, TypeOK
<1>2. ohead \in Slots /\ ohead # Idle
  BY <1>1 DEF WaitReap, Sound, AvoidsIdle, Proc, Ptr
<1>3. nhead \in Ptr /\ nhead # Idle
  BY <1>1, <1>2 DEF Sound, AvoidsIdle, Proc
<1>4. Sound(a) /\ ~a[curproc].waiting
  <2>1. procs[curproc] \in Proc /\ Wakeful(procs[curproc]) /\ AvoidsIdle(procs[curproc])
    BY <1>1 DEF Sound
  <2>2. /\ ra \in Proc /\ ra.waiting = procs[curproc].waiting
        /\ ra.state = procs[curproc].state /\ ra.pgtbl = procs[curproc].pgtbl
        /\ ra.zombie = nhead /\ ra.living = procs[curproc].living
        /\ ra.next = procs[curproc].next
    BY <1>3, <2>1 DEF Proc
  <2> HIDE DEF ra
  <2>3. Wakeful(ra) /\ AvoidsIdle(ra)
    BY <1>1, <1>3, <2>1, <2>2 DEF Wakeful, AvoidsIdle
  <2>4. curproc = Idle => ra.state \in {"READY", "RUNNING"} /\ ra.pgtbl
    BY <1>1, <2>2 DEF Sound
  <2>5. Sound(a)
    BY <1>1, <2>2, <2>3, <2>4, PutSound
  <2> QED
    BY <1>1, <2>2, <2>5 DEF Put
<1> HIDE DEF a
<1>5. Sound(b) /\ ~b[curproc].waiting
  <2>1. CASE nhead # NULL
    <3>1. nhead \in Slots
      BY <1>3, <2>1 DEF Ptr
    <3>2. a[nhead] \in Proc /\ Wakeful(a[nhead]) /\ AvoidsIdle(a[nhead])
      BY <1>4, <3>1 DEF Sound
    <3>3. /\ rb \in Proc /\ rb.waiting = a[nhead].waiting /\ rb.state = a[nhead].state
          /\ rb.zombie = a[nhead].zombie /\ rb.living = a[nhead].living
          /\ rb.next = a[nhead].next
      BY Zenon, <3>2 DEF Proc, Ptr
    <3> HIDE DEF rb
    <3>4. Wakeful(rb) /\ AvoidsIdle(rb)
      BY Zenon, <3>2, <3>3 DEF Wakeful, AvoidsIdle
    <3>5. Sound(Put(a, nhead, rb))
      BY <1>3, <1>4, <3>1, <3>3, <3>4, PutSound
    <3>6. ~Put(a, nhead, rb)[curproc].waiting
      BY <1>1, <1>4, <3>3 DEF Put
    <3> QED
      BY <2>1, <3>5, <3>6
  <2> QED
    BY Zenon, <1>4, <2>1
<1>6. procs' = ClearProc(b, {ohead})
  BY DEF WaitReap, a
<1> HIDE DEF b
<1>7. Sound(procs')
  BY <1>2, <1>5, <1>6, ClearProcSound
<1>8. ~procs'[curproc].waiting
  BY <1>1, <1>5, <1>6 DEF ClearProc, Cleared
<1>9. reaped' \in [waiter : Nat, child : Nat, forker : Nat, ended : BOOLEAN, val : Int]
  <2>1. procs[curproc] \in Proc /\ procs[ohead] \in Proc
    BY <1>1, <1>2 DEF Sound
  <2>2. /\ procs[curproc].pid \in Nat /\ procs[ohead].pid \in Nat
        /\ procs[ohead].forker \in Nat /\ procs[ohead].exit_val \in Int
    BY <2>1 DEF Proc
  <2> QED
    BY <2>2 DEF WaitReap
<1>10. UNCHANGED <<curproc, g_pid, halted>>
  BY DEF WaitReap
<1> QED
  BY <1>1, <1>7, <1>8, <1>9, <1>10 DEF IInv, TypeOK, Sound

(* What kill_proc followed by sched() does, for exit and for faults.       *)
LEMMA KillAndSchedSound ==
  ASSUME IInv, InProgram, NEW val \in Int, KillAndSched(val)
  PROVE  IInv'
<1>1. Sound(KillProc(procs, curproc, val))
  BY KillProcSound DEF IInv, TypeOK, InProgram
<1>2. /\ Sound(procs') /\ ~procs'[curproc'].waiting
      /\ curproc' \in Slots /\ halted' \in BOOLEAN
  BY <1>1, SchedSound DEF KillAndSched
<1>3. reaped' \in [waiter : Nat, child : Nat, forker : Nat, ended : BOOLEAN, val : Int]
  BY ReportTyped DEF KillAndSched
<1> QED
  BY <1>2, <1>3 DEF IInv, TypeOK, Sound, KillAndSched

LEMMA NextIInv == IInv /\ [Next]_vars => IInv'
<1> SUFFICES ASSUME IInv, [Next]_vars PROVE IInv'
  OBVIOUS
<1>0. Sound(procs) /\ curproc \in Slots /\ ~procs[curproc].waiting /\ g_pid \in Nat
  BY DEF IInv, TypeOK
<1> DEFINE Report == [waiter : Nat, child : Nat, forker : Nat, ended : BOOLEAN, val : Int]
<1>1. CASE Timer
  <2> DEFINE r  == [procs[curproc] EXCEPT !.state = "READY"]
             r2 == [procs[curproc] EXCEPT !.waiting = FALSE, !.state = "READY"]
  <2>1. procs[curproc] \in Proc
    BY <1>0 DEF Sound
  <2>2. r = r2
    BY Zenon, <1>0, <2>1 DEF Proc
  <2>3. Sound(Put(procs, curproc, r2))
    BY Zenon, <1>0, StateSound DEF States
  <2>4. Sched(Put(procs, curproc, r))
    BY <1>1 DEF Timer
  <2> HIDE DEF r, r2
  <2>5. /\ Sound(procs') /\ ~procs'[curproc'].waiting
        /\ curproc' \in Slots /\ halted' \in BOOLEAN
    BY <2>2, <2>3, <2>4, SchedSound
  <2> QED
    BY <1>1, <2>5 DEF IInv, TypeOK, Sound, Timer
<1>2. CASE Fork
  <2>1. PICK n \in Slots : procs[n].state = "CLOSE"
                           /\ procs' = AddChild(procs, curproc, n, g_pid + 1)
    BY <1>2 DEF Fork, AllocProc
  <2>2. Sound(procs') /\ ~procs'[curproc].waiting
    BY <1>0, <2>1, AddChildSound
  <2> QED
    BY <1>0, <1>2, <2>2 DEF IInv, TypeOK, Sound, Fork
<1>3. CASE ForkTableFull \/ ExitHangs \/ WaitPanics
  BY Zenon, <1>3 DEF IInv, TypeOK, Sound, Wakeful, AvoidsIdle, ForkTableFull, ExitHangs, WaitPanics, Halt
<1>4. ASSUME NEW v \in ExitVals, Exit(v)
      PROVE  IInv'
  BY <1>4, ConstantsAssumption, KillAndSchedSound DEF Exit
<1>5. CASE Fault
  BY <1>5, KillAndSchedSound DEF Fault, KILLED
<1>6. CASE UnknownSyscall
  <2>1. Sound(procs') /\ ~procs'[curproc].waiting
    BY <1>0, <1>6, KillProcSound DEF UnknownSyscall, InProgram, KILLED
  <2>2. reaped' \in Report
    BY <1>6, ReportTyped DEF UnknownSyscall, KILLED
  <2> QED
    BY <1>6, <2>1, <2>2 DEF IInv, TypeOK, Sound, UnknownSyscall
<1>7. CASE WaitReap
  BY <1>7, WaitReapSound
<1>8. CASE WaitSleep
  <2> DEFINE r == [procs[curproc] EXCEPT !.waiting = TRUE, !.state = "PENDING"]
  <2>1. Sound(Put(procs, curproc, r))
    BY Zenon, <1>0, <1>8, StateSound DEF WaitSleep, InProgram, States
  <2>2. Sched(Put(procs, curproc, r))
    BY <1>8 DEF WaitSleep
  <2> HIDE DEF r
  <2>3. /\ Sound(procs') /\ ~procs'[curproc'].waiting
        /\ curproc' \in Slots /\ halted' \in BOOLEAN
    BY <2>1, <2>2, SchedSound
  <2> QED
    BY <1>8, <2>3 DEF IInv, TypeOK, Sound, WaitSleep
<1>9. CASE WaitNoChild \/ UNCHANGED vars
  BY <1>9 DEF WaitNoChild, vars, IInv, TypeOK, Sound, Wakeful, AvoidsIdle
<1> QED
  BY <1>1, <1>2, <1>3, <1>4, <1>5, <1>6, <1>7, <1>8, <1>9 DEF Next

(***************************************************************************)
(* IInv is an invariant of the process table of kernel/proc.c, for every   *)
(* size of the table and whatever programs do: stale sibling pointers,     *)
(* early exits and system calls that do not exist included.                *)
(***************************************************************************)
THEOREM Invariance == Spec => []IInv
BY InitIInv, NextIInv, PTL DEF Spec

(* Every field of struct proc stays in its type (kernel/proc.c).           *)
THEOREM TypeCorrect == Spec => []TypeOK
<1>1. IInv => TypeOK
  BY DEF IInv
<1> QED
  BY <1>1, Invariance, PTL

(***************************************************************************)
(* sys_wait and exit_as_child never miss each other: a process asleep in   *)
(* wait has no zombie child, is PENDING, and nobody else is.               *)
(***************************************************************************)
THEOREM NoWakeupLost == Spec => []NoLostWakeup
<1>1. IInv => NoLostWakeup
  BY DEF IInv, Sound, Wakeful, NoLostWakeup
<1> QED
  BY <1>1, Invariance, PTL

(***************************************************************************)
(* The loop of sched() always ends: idle is never killed, reaped through a *)
(* stale list, or put to sleep.                                            *)
(***************************************************************************)
THEOREM IdleAlwaysSchedulable == Spec => []IdleSchedulable
<1>1. IInv => IdleSchedulable
  BY DEF IInv, Sound, IdleSchedulable
<1> QED
  BY <1>1, Invariance, PTL
-----------------------------------------------------------------------------

-----------------------------------------------------------------------------
(***************************************************************************)
(* Orderly behaviours.  What the family lists look like while no process   *)
(* has ended early.  Links(ps, c): the parent of c lives, and c is where   *)
(* the sibling pointers say, before a sibling that was forked earlier.     *)
(***************************************************************************)
Links(ps, c) ==
  LET p == ps[c].parent
  IN  /\ p # c /\ ps[p].state # "CLOSE"
      /\ ps[c].forker = ps[p].pid
      /\ ps[c].prev = NULL <=> ps[p].living = c
      /\ ps[c].prev # NULL => ps[ps[c].prev].parent = p /\ ps[ps[c].prev].next = c
      /\ ps[c].next # NULL => /\ ps[ps[c].next].parent = p
                              /\ ps[ps[c].next].prev = c
                              /\ ps[ps[c].next].pid < ps[c].pid

Tidy(ps, top) ==
  \A q \in Slots :
    /\ ps[q].state = "CLOSE" => ps[q] = Cleared
    /\ ps[q].state # "ZOMBIE" /\ ps[q].zombie = NULL
    /\ ps[q].pid <= top
    /\ ps[q].parent # NULL => Links(ps, q)
    /\ ps[q].living # NULL => ps[ps[q].living].parent = q
    /\ ps[q].waiting => ps[q].living # NULL

Kids(ps, p) == {c \in Slots : ps[c].parent = p}

TreeInv ==
  /\ Tidy(procs, g_pid)
  /\ procs[curproc].state = "RUNNING"
  /\ WaitReportsOwnChild

(* Every set of numbers that is not empty has a least element.             *)
LEMMA LeastNumber ==
  ASSUME NEW T \in SUBSET Nat, T # {}
  PROVE  \E x \in T : \A y \in T : x <= y
<1> DEFINE R == {ss \in Nat \X Nat : ss[1] < ss[2]}
<1>1. IsWellFoundedOn(R, Nat)
  BY Zenon, NatLessThanWellFounded DEF OpToRel
<1> HIDE DEF R
<1>2. PICK x \in T : \A y \in T : ~(<<y, x>> \in R)
  BY Zenon, <1>1, WFMin
<1>3. \A y \in T : ~(y < x)
  BY Zenon, <1>2 DEF R
<1> QED
  BY <1>3

(* Of some processes, one was forked last.                                 *)
LEMMA Youngest ==
  ASSUME NEW ps \in [Slots -> Proc], NEW top \in Nat, \A q \in Slots : ps[q].pid <= top,
         NEW X \in SUBSET Slots, X # {}
  PROVE  \E c \in X : \A d \in X : ps[d].pid <= ps[c].pid
<1> DEFINE T == {top - ps[c].pid : c \in X}
<1>1. \A c \in X : ps[c].pid \in Nat /\ ps[c].pid <= top
  BY DEF Proc
<1>2. T \in SUBSET Nat /\ T # {}
  BY <1>1
<1> HIDE DEF T
<1>3. PICK x \in T : \A y \in T : x <= y
  BY <1>2, LeastNumber
<1>4. PICK c \in X : x = top - ps[c].pid
  BY DEF T
<1>5. ASSUME NEW d \in X PROVE ps[d].pid <= ps[c].pid
  <2>1. top - ps[d].pid \in T
    BY DEF T
  <2>2. top - ps[c].pid <= top - ps[d].pid
    BY Zenon, <1>3, <1>4, <2>1
  <2> QED
    BY <1>1, <2>2
<1> QED
  BY <1>5

(***************************************************************************)
(* In a tidy table the walk over the living list of p visits exactly the   *)
(* children of p: nothing else, because the children are closed under      *)
(* next_sibling; and every child, because of those left out the youngest   *)
(* would have a predecessor, which is left out too.                        *)
(***************************************************************************)
LEMMA ListIsKids ==
  ASSUME NEW ps \in [Slots -> Proc], NEW top \in Nat, Tidy(ps, top), NEW p \in Slots
  PROVE  Chain(ps, ps[p].living) = Kids(ps, p)
<1> DEFINE h == ps[p].living
<1>0. ASSUME NEW c \in Kids(ps, p)
      PROVE  /\ c \in Slots /\ Links(ps, c) /\ ps[c].parent = p
             /\ ps[c].prev \in Ptr /\ ps[c].next \in Ptr /\ ps[c].pid \in Nat
  <2>1. c \in Slots /\ ps[c].parent = p
    BY DEF Kids
  <2>2. p # NULL
    BY ConstantsAssumption DEF Slots
  <2>3. Links(ps, c)
    BY <2>1, <2>2 DEF Tidy
  <2> QED
    BY <2>1, <2>3 DEF Proc
<1>1. Chain(ps, h) \subseteq Kids(ps, p)
  <2>1. Kids(ps, p) \in SUBSET Slots
    BY DEF Kids
  <2>2. h \in Slots => h \in Kids(ps, p)
    <3>1. h \in Slots => h # NULL
      BY ConstantsAssumption DEF Slots
    <3> QED
      BY <3>1 DEF Kids, Tidy
  <2>3. \A s \in Kids(ps, p) : ps[s].next \in Slots => ps[s].next \in Kids(ps, p)
    <3> TAKE s \in Kids(ps, p)
    <3> HAVE ps[s].next \in Slots
    <3>1. ps[s].next # NULL
      BY ConstantsAssumption DEF Slots
    <3> QED
      BY <1>0, <3>1 DEF Links, Kids
  <2> QED
    BY <2>1, <2>2, <2>3 DEF Chain
<1>2. ASSUME NEW S \in SUBSET Slots, h \in Slots => h \in S,
             \A s \in S : ps[s].next \in Slots => ps[s].next \in S
      PROVE  Kids(ps, p) \subseteq S
  <2> DEFINE X == Kids(ps, p) \ S
  <2> SUFFICES ASSUME X # {} PROVE FALSE
    OBVIOUS
  <2>1. X \in SUBSET Slots
    BY DEF Kids
  <2>2. \A q \in Slots : ps[q].pid <= top
    BY DEF Tidy
  <2>3. PICK c \in X : \A d \in X : ps[d].pid <= ps[c].pid
    <3> HIDE DEF X
    <3> QED
      BY <2>1, <2>2, Youngest
  <2>4. c # h
    BY <1>2, <2>1
  <2>5. /\ ps[c].prev # NULL /\ ps[c].prev \in Slots
        /\ ps[ps[c].prev].parent = p /\ ps[ps[c].prev].next = c
    BY <1>0, <2>4 DEF Links, Ptr
  <2> DEFINE d == ps[c].prev
  <2>6. d \in Kids(ps, p)
    BY <2>5 DEF Kids
  <2>7. d \notin S
    BY <1>2, <2>1, <2>5
  <2>8. c # NULL
    BY <2>1, ConstantsAssumption DEF Slots
  <2>9. ps[c].pid < ps[d].pid
    BY <1>0, <2>5, <2>6, <2>8 DEF Links
  <2>10. ps[d].pid <= ps[c].pid
    BY <2>3, <2>6, <2>7
  <2>11. ps[c].pid \in Nat /\ ps[d].pid \in Nat
    BY <1>0, <2>6
  <2> QED
    BY <2>9, <2>10, <2>11
<1>3. Kids(ps, p) \subseteq Chain(ps, h)
  <2>1. Kids(ps, p) \subseteq Slots
    BY DEF Kids
  <2> QED
    BY <1>2, <2>1 DEF Chain
<1> QED
  BY Zenon, <1>1, <1>3

(* The walk ends, because it goes to processes forked earlier.             *)
LEMMA ListEnds ==
  ASSUME NEW ps \in [Slots -> Proc], NEW top \in Nat, Tidy(ps, top), NEW p \in Slots
  PROVE  ~Endless(ps, ps[p].living)
<1> SUFFICES ASSUME NEW q \in Kids(ps, p), q \in Chain(ps, ps[q].next)
             PROVE  FALSE
  BY ListIsKids DEF Endless
<1>1. p # NULL /\ \A s \in Slots : s # NULL
  BY ConstantsAssumption DEF Slots
<1>2. \A c \in Kids(ps, p) : c \in Slots /\ Links(ps, c) /\ ps[c].parent = p /\ ps[c].pid \in Nat
  BY <1>1 DEF Kids, Tidy, Proc
<1> DEFINE S == {c \in Kids(ps, p) : ps[c].pid < ps[q].pid}
<1>3. S \in SUBSET Slots
  BY DEF Kids
<1>4. ps[q].next \in Slots => ps[q].next \in S
  BY <1>1, <1>2 DEF Links, Kids
<1>5. \A s \in S : ps[s].next \in Slots => ps[s].next \in S
  <2> TAKE s \in S
  <2> HAVE ps[s].next \in Slots
  <2>1. ps[s].next \in Kids(ps, p) /\ ps[ps[s].next].pid < ps[s].pid
    BY <1>1, <1>2 DEF Links, Kids
  <2> QED
    BY <1>2, <2>1
<1>6. q \in S
  <2> HIDE DEF S
  <2> QED
    BY <1>3, <1>4, <1>5 DEF Chain
<1> QED
  BY <1>2, <1>6

LEMMA SlotIsNoNull == ASSUME NEW q \in Slots PROVE q # NULL
BY ConstantsAssumption DEF Slots

(* A step that leaves the lists alone and sends nobody to sleep childless. *)
LEMMA SameTidy ==
  ASSUME NEW ps, NEW top, Tidy(ps, top), NEW t,
         \A q \in Slots :
           /\ t[q].parent = ps[q].parent /\ t[q].living = ps[q].living
           /\ t[q].prev = ps[q].prev /\ t[q].next = ps[q].next /\ t[q].zombie = ps[q].zombie
           /\ t[q].pid = ps[q].pid /\ t[q].forker = ps[q].forker
           /\ t[q].state # "ZOMBIE"
           /\ t[q].state = "CLOSE" <=> ps[q].state = "CLOSE"
           /\ ps[q].state = "CLOSE" => t[q] = ps[q]
           /\ t[q].waiting => ps[q].living # NULL,
         ps \in [Slots -> Proc]
  PROVE  Tidy(t, top)
<1> SUFFICES ASSUME NEW q \in Slots
             PROVE  /\ t[q].state = "CLOSE" => t[q] = Cleared
                    /\ t[q].state # "ZOMBIE" /\ t[q].zombie = NULL
                    /\ t[q].pid <= top
                    /\ t[q].parent # NULL => Links(t, q)
                    /\ t[q].living # NULL => t[t[q].living].parent = q
                    /\ t[q].waiting => t[q].living # NULL
  BY DEF Tidy
<1>1. /\ ps[q].parent \in Ptr /\ ps[q].living \in Ptr /\ ps[q].prev \in Ptr /\ ps[q].next \in Ptr
  BY DEF Proc
<1>2. t[q].parent # NULL => Links(t, q)
  <2> HAVE t[q].parent # NULL
  <2>1. Links(ps, q)
    BY DEF Tidy
  <2>2. /\ ps[q].parent \in Slots
        /\ ps[q].prev # NULL => ps[q].prev \in Slots
        /\ ps[q].next # NULL => ps[q].next \in Slots
    BY <1>1 DEF Ptr
  <2> QED
    BY <2>1, <2>2 DEF Links
<1>3. t[q].living # NULL => t[t[q].living].parent = q
  BY <1>1 DEF Ptr, Tidy
<1> QED
  BY <1>2, <1>3 DEF Tidy

LEMMA StateTidy ==
  ASSUME NEW ps \in [Slots -> Proc], NEW top, Tidy(ps, top), NEW p \in Slots,
         ps[p].state # "CLOSE", NEW s \in States \ {"CLOSE", "ZOMBIE"}, NEW w \in BOOLEAN,
         w => ps[p].living # NULL
  PROVE  Tidy(Put(ps, p, [ps[p] EXCEPT !.waiting = w, !.state = s]), top)
<1> DEFINE r == [ps[p] EXCEPT !.waiting = w, !.state = s]
           t == Put(ps, p, r)
<1>1. /\ r.parent = ps[p].parent /\ r.living = ps[p].living /\ r.prev = ps[p].prev
      /\ r.next = ps[p].next /\ r.zombie = ps[p].zombie /\ r.pid = ps[p].pid
      /\ r.forker = ps[p].forker /\ r.state = s /\ r.waiting = w
  BY DEF Proc
<1> HIDE DEF r
<1>2. t[p] = r /\ \A q \in Slots : q # p => t[q] = ps[q]
  BY DEF Put
<1> HIDE DEF t
<1>3. ASSUME NEW q \in Slots
      PROVE  /\ t[q].parent = ps[q].parent /\ t[q].living = ps[q].living
             /\ t[q].prev = ps[q].prev /\ t[q].next = ps[q].next /\ t[q].zombie = ps[q].zombie
             /\ t[q].pid = ps[q].pid /\ t[q].forker = ps[q].forker
             /\ t[q].state # "ZOMBIE"
             /\ t[q].state = "CLOSE" <=> ps[q].state = "CLOSE"
             /\ ps[q].state = "CLOSE" => t[q] = ps[q]
             /\ t[q].waiting => ps[q].living # NULL
  <2>1. CASE q = p
    BY <1>1, <1>2, <2>1
  <2>2. CASE q # p
    BY <1>2, <2>2 DEF Tidy
  <2> QED
    BY <2>1, <2>2
<1>4. Tidy(t, top)
  BY <1>3, SameTidy
<1> QED
  BY <1>4 DEF t, r

LEMMA SchedTidy ==
  ASSUME NEW ps \in [Slots -> Proc], NEW top, Tidy(ps, top), Sched(ps)
  PROVE  Tidy(procs', top) /\ procs'[curproc'].state = "RUNNING"
<1>1. PICK q \in Slots :
        /\ ps[q].state = "READY"
        /\ procs' = Put(ps, q, [ps[q] EXCEPT !.state = "RUNNING"])
        /\ curproc' = q
  BY DEF Sched
<1>2. ps[q] \in Proc /\ ps[q].waiting \in BOOLEAN
  BY DEF Proc
<1>3. [ps[q] EXCEPT !.state = "RUNNING"] =
        [ps[q] EXCEPT !.waiting = ps[q].waiting, !.state = "RUNNING"]
  BY Zenon, <1>2 DEF Proc
<1>4. ps[q].waiting => ps[q].living # NULL
  BY DEF Tidy
<1>5. Tidy(Put(ps, q, [ps[q] EXCEPT !.waiting = ps[q].waiting, !.state = "RUNNING"]), top)
  BY Zenon, <1>1, <1>2, <1>4, StateTidy DEF States
<1>6. procs'[curproc'].state = "RUNNING"
  BY <1>1, <1>2 DEF Put, Proc
<1> QED
  BY <1>1, <1>3, <1>5, <1>6

(* What AddChild leaves in the four kinds of slots.                        *)
LEMMA AddChildView ==
  ASSUME NEW ps \in [Slots -> Proc], NEW p \in Slots, NEW n \in Slots, n # p,
         ps[n] = Cleared, NEW pid, ps[p].living \notin {n, p}
  PROVE  \A h, t : h = ps[p].living /\ t = AddChild(ps, p, n, pid) =>
         /\ t[n].state = "READY" /\ t[n].zombie = NULL /\ t[n].pid = pid /\ t[n].parent = p
         /\ t[n].living = NULL /\ t[n].prev = NULL /\ t[n].next = h /\ ~t[n].waiting
         /\ t[n].forker = ps[p].pid
         /\ \A q \in Slots \ {n} :
              /\ t[q].state = ps[q].state /\ t[q].zombie = ps[q].zombie /\ t[q].pid = ps[q].pid
              /\ t[q].parent = ps[q].parent /\ t[q].next = ps[q].next
              /\ t[q].waiting = ps[q].waiting /\ t[q].forker = ps[q].forker
              /\ t[q].living = IF q = p THEN n ELSE ps[q].living
              /\ t[q].prev = IF q = h THEN n ELSE ps[q].prev
              /\ q \notin {p, h} => t[q] = ps[q]
<1> TAKE h, t
<1> HAVE h = ps[p].living /\ t = AddChild(ps, p, n, pid)
<1> h \in Ptr /\ h # n /\ h # p
  BY DEF Proc
<1> DEFINE ra == [ps[n] EXCEPT !.pgtbl = TRUE, !.pid = pid]
           a == Put(ps, n, ra)
           o == Put(a, h, [a[h] EXCEPT !.prev = n])
           b == IF h = NULL THEN Put(a, n, [a[n] EXCEPT !.prev = NULL, !.next = NULL])
                ELSE Put(o, n, [o[n] EXCEPT !.next = h])
           c == Put(b, p, [b[p] EXCEPT !.living = n])
           rb == IF h = NULL THEN [ra EXCEPT !.prev = NULL, !.next = NULL]
                 ELSE [ra EXCEPT !.next = h]
<1>0. t = Put(c, n, [c[n] EXCEPT !.parent = p, !.state = "READY", !.forker = ps[p].pid])
  BY Zenon DEF AddChild
<1>1. a[n] = ra /\ \A q \in Slots : q # n => a[q] = ps[q]
  BY DEF Put
<1>2. h # NULL => h \in Slots
  BY DEF Ptr
<1>3. h # NULL => o[h] = [ps[h] EXCEPT !.prev = n] /\ \A q \in Slots : q # h => o[q] = a[q]
  BY <1>1, <1>2 DEF Put
<1>4. b[n] = rb
  BY Zenon, <1>1, <1>3 DEF Put
<1>5. /\ h # NULL => b[h] = [ps[h] EXCEPT !.prev = n]
      /\ \A q \in Slots : q # n /\ q # h => b[q] = ps[q]
  <2>1. CASE h = NULL
    BY <1>1, <2>1 DEF Put
  <2>2. CASE h # NULL
    BY <1>1, <1>2, <1>3, <2>2 DEF Put
  <2> QED
    BY Zenon, <2>1, <2>2
<1> HIDE DEF b
<1>6. /\ c[p] = [ps[p] EXCEPT !.living = n] /\ \A q \in Slots : q # p => c[q] = b[q]
  BY <1>5 DEF Put
<1> HIDE DEF c
<1>7. t[n] = [c[n] EXCEPT !.parent = p, !.state = "READY", !.forker = ps[p].pid]
      /\ \A q \in Slots : q # n => t[q] = c[q]
  BY <1>0 DEF Put
<1>8. t[n] = [rb EXCEPT !.parent = p, !.state = "READY", !.forker = ps[p].pid]
  BY Zenon, <1>4, <1>6, <1>7
<1>9. /\ t[n].state = "READY" /\ t[n].zombie = NULL /\ t[n].pid = pid /\ t[n].parent = p
      /\ t[n].living = NULL /\ t[n].prev = NULL /\ t[n].next = h /\ ~t[n].waiting
      /\ t[n].forker = ps[p].pid
  <2>1. CASE h = NULL
    BY <1>8, <2>1 DEF Cleared
  <2>2. CASE h # NULL
    BY <1>8, <2>2 DEF Cleared
  <2> QED
    BY <2>1, <2>2
<1>10. h # NULL => t[h] = [ps[h] EXCEPT !.prev = n]
  BY <1>2, <1>5, <1>6, <1>7
<1>11. t[p] = [ps[p] EXCEPT !.living = n]
  BY <1>6, <1>7
<1>12. \A q \in Slots : q \notin {n, p, h} => t[q] = ps[q]
  BY <1>5, <1>6, <1>7
<1>13. ASSUME NEW q \in Slots \ {n}
       PROVE  /\ t[q].state = ps[q].state /\ t[q].zombie = ps[q].zombie /\ t[q].pid = ps[q].pid
              /\ t[q].parent = ps[q].parent /\ t[q].next = ps[q].next
              /\ t[q].waiting = ps[q].waiting /\ t[q].forker = ps[q].forker
              /\ t[q].living = IF q = p THEN n ELSE ps[q].living
              /\ t[q].prev = IF q = h THEN n ELSE ps[q].prev
              /\ q \notin {p, h} => t[q] = ps[q]
  <2>0. ps[q] \in Proc
    OBVIOUS
  <2>1. CASE q = p
    BY <1>11, <2>0, <2>1 DEF Proc
  <2>2. CASE q = h
    <3>1. q # NULL
      BY SlotIsNoNull
    <3> QED
      BY <1>10, <2>0, <2>2, <3>1 DEF Proc
  <2>3. CASE q # p /\ q # h
    BY <1>12, <2>3
  <2> QED
    BY <2>1, <2>2, <2>3
<1> QED
  BY <1>9, <1>13

LEMMA AddChildTidy ==
  ASSUME NEW ps \in [Slots -> Proc], NEW top \in Nat, Tidy(ps, top), NEW p \in Slots,
         ps[p].state # "CLOSE", NEW n \in Slots, ps[n].state = "CLOSE"
  PROVE  Tidy(AddChild(ps, p, n, top + 1), top + 1)
<1>1. ps[n] = Cleared /\ n # p /\ ps[n].parent = NULL
  BY DEF Tidy, Cleared
<1>2. PICK h \in Ptr : h = ps[p].living
  BY DEF Proc
<1>3. h # NULL => h \in Slots /\ ps[h].parent = p /\ h # n /\ h # p /\ Links(ps, h) /\ ps[h].prev = NULL
  <2> HAVE h # NULL
  <2>1. h \in Slots /\ ps[h].parent = p
    BY <1>2 DEF Tidy, Ptr
  <2>2. Links(ps, h)
    BY <2>1, SlotIsNoNull DEF Tidy
  <2> QED
    BY <1>1, <1>2, <2>1, <2>2, SlotIsNoNull DEF Links
<1>4. h # n /\ h # p
  BY <1>3, SlotIsNoNull
<1>0. PICK t, pid : pid = top + 1 /\ t = AddChild(ps, p, n, pid)
  OBVIOUS
<1>10. ps[p].living \notin {n, p}
  BY <1>2, <1>4
<1>6. /\ t[n].state = "READY" /\ t[n].zombie = NULL /\ t[n].pid = pid /\ t[n].parent = p
      /\ t[n].living = NULL /\ t[n].prev = NULL /\ t[n].next = h /\ ~t[n].waiting
      /\ t[n].forker = ps[p].pid
  BY <1>0, <1>1, <1>2, <1>10, AddChildView
<1>7. ASSUME NEW q \in Slots, q # n
      PROVE  /\ t[q].state = ps[q].state /\ t[q].zombie = ps[q].zombie /\ t[q].pid = ps[q].pid
             /\ t[q].parent = ps[q].parent /\ t[q].next = ps[q].next
             /\ t[q].waiting = ps[q].waiting /\ t[q].forker = ps[q].forker
             /\ t[q].living = IF q = p THEN n ELSE ps[q].living
             /\ t[q].prev = IF q = h THEN n ELSE ps[q].prev
             /\ ps[q].state = "CLOSE" => t[q] = ps[q]
  <2>1. q \in Slots \ {n}
    BY <1>7
  <2>2. /\ t[q].state = ps[q].state /\ t[q].zombie = ps[q].zombie /\ t[q].pid = ps[q].pid
        /\ t[q].parent = ps[q].parent /\ t[q].next = ps[q].next
        /\ t[q].waiting = ps[q].waiting /\ t[q].forker = ps[q].forker
        /\ t[q].living = IF q = p THEN n ELSE ps[q].living
        /\ t[q].prev = IF q = h THEN n ELSE ps[q].prev
        /\ q \notin {p, h} => t[q] = ps[q]
    BY <1>0, <1>1, <1>2, <1>10, <2>1, AddChildView
  <2>3. ps[q].state = "CLOSE" => q \notin {p, h}
    BY <1>3, SlotIsNoNull DEF Tidy, Cleared
  <2> QED
    BY <2>2, <2>3
<1>8. ASSUME NEW q \in Slots
      PROVE  /\ t[q].state = "CLOSE" => t[q] = Cleared
             /\ t[q].state # "ZOMBIE" /\ t[q].zombie = NULL
             /\ t[q].pid <= top + 1
             /\ t[q].parent # NULL => Links(t, q)
             /\ t[q].living # NULL => t[t[q].living].parent = q
             /\ t[q].waiting => t[q].living # NULL
  <2>0. /\ ps[q].parent \in Ptr /\ ps[q].living \in Ptr /\ ps[q].prev \in Ptr /\ ps[q].next \in Ptr
        /\ ps[q].pid \in Nat
    BY DEF Proc
  <2>1. /\ t[q].state = "CLOSE" => t[q] = Cleared
        /\ t[q].state # "ZOMBIE" /\ t[q].zombie = NULL
        /\ t[q].pid <= top + 1
        /\ t[q].waiting => t[q].living # NULL
    <3>1. CASE q = n
      BY <1>0, <1>6, <3>1
    <3>2. CASE q # n
      BY <1>7, <2>0, <3>2, SlotIsNoNull DEF Tidy
    <3> QED
      BY <3>1, <3>2
  <2>2. t[q].living # NULL => t[t[q].living].parent = q
    <3> HAVE t[q].living # NULL
    <3>1. q # n
      BY <1>6
    <3>2. CASE q = p
      BY <1>6, <1>7, <3>1, <3>2
    <3>3. CASE q # p
      <4>1. t[q].living = ps[q].living /\ ps[q].living \in Slots
        BY <1>7, <2>0, <3>1, <3>3 DEF Ptr
      <4>2. ps[ps[q].living].parent = q
        BY <4>1, SlotIsNoNull DEF Tidy
      <4>3. ps[q].living # n
        BY <1>1, <4>2, SlotIsNoNull
      <4> QED
        BY <1>7, <4>1, <4>2, <4>3
    <3> QED
      BY <3>2, <3>3
  <2>3. t[q].parent # NULL => Links(t, q)
    <3> HAVE t[q].parent # NULL
    <3>1. CASE q = n
      <4>1. t[p].state # "CLOSE" /\ t[p].pid = ps[p].pid /\ t[p].living = n
        BY <1>1, <1>7
      <4>2. h # NULL => t[h].parent = p /\ t[h].prev = n /\ t[h].pid = ps[h].pid /\ ps[h].pid <= top
                        /\ ps[h].pid \in Nat
        BY <1>3, <1>7 DEF Tidy, Proc
      <4>3. h # NULL => t[h].pid < t[n].pid
        BY <1>0, <1>6, <4>2
      <4> QED
        BY <1>1, <1>6, <3>1, <4>1, <4>2, <4>3 DEF Links
    <3>2. CASE q # n
      <4>1. PICK r \in Slots : r = ps[q].parent /\ t[q].parent = r
        BY <1>7, <2>0, <3>2 DEF Ptr
      <4>2. Links(ps, q)
        BY <4>1, SlotIsNoNull DEF Tidy
      <4>3. r # n /\ r # q
        BY <1>1, <4>1, <4>2 DEF Links
      <4>4. t[r].state # "CLOSE" /\ t[q].forker = t[r].pid
        BY <1>7, <3>2, <4>1, <4>2, <4>3 DEF Links
      <4>5. t[q].prev = NULL <=> t[r].living = q
        <5>1. CASE q = h
          BY <1>3, <1>7, <3>2, <4>1, <4>3, <5>1, SlotIsNoNull
        <5>2. CASE q # h
          <6>1. t[q].prev = ps[q].prev
            BY <1>7, <3>2, <5>2
          <6>2. CASE r = p
            <7>1. t[r].living = n /\ ps[q].prev # NULL
              BY <1>2, <1>7, <4>1, <4>2, <4>3, <5>2, <6>2 DEF Links
            <7> QED
              BY <3>2, <6>1, <7>1
          <6>3. CASE r # p
            BY <1>7, <4>1, <4>2, <4>3, <6>1, <6>3 DEF Links
          <6> QED
            BY <6>2, <6>3
        <5> QED
          BY <5>1, <5>2
      <4>6. t[q].prev # NULL => t[t[q].prev].parent = r /\ t[t[q].prev].next = q
        <5> HAVE t[q].prev # NULL
        <5>1. CASE q = h
          BY <1>3, <1>6, <1>7, <3>2, <4>1, <5>1, SlotIsNoNull
        <5>2. CASE q # h
          <6>1. PICK x \in Slots : x = ps[q].prev /\ t[q].prev = x
            BY <1>7, <2>0, <3>2, <5>2 DEF Ptr
          <6>2. ps[x].parent = r /\ ps[x].next = q
            BY <4>1, <4>2, <6>1, SlotIsNoNull DEF Links
          <6>3. x # n
            BY <1>1, <6>2, SlotIsNoNull
          <6> QED
            BY <1>7, <6>1, <6>2, <6>3
        <5> QED
          BY <5>1, <5>2
      <4>7. t[q].next # NULL => t[t[q].next].parent = r /\ t[t[q].next].prev = q
                                /\ t[t[q].next].pid < t[q].pid
        <5> HAVE t[q].next # NULL
        <5>1. PICK y \in Slots : y = ps[q].next /\ t[q].next = y
          BY <1>7, <2>0, <3>2 DEF Ptr
        <5>2. ps[y].parent = r /\ ps[y].prev = q /\ ps[y].pid < ps[q].pid
          BY <4>1, <4>2, <5>1, SlotIsNoNull DEF Links
        <5>3. y # n /\ y # h
          BY <1>1, <1>3, <5>2, SlotIsNoNull
        <5> QED
          BY <1>7, <3>2, <5>1, <5>2, <5>3
      <4> QED
        BY <4>1, <4>3, <4>4, <4>5, <4>6, <4>7 DEF Links
    <3> QED
      BY <3>1, <3>2
  <2> QED
    BY <2>1, <2>2, <2>3
<1>9. Tidy(t, top + 1)
  BY <1>8 DEF Tidy
<1> QED
  BY <1>0, <1>9

(* The table t is ps without the process p: its children have no parent    *)
(* any more, its brothers close the gap, the parent it reports to is READY. *)
RemovedAt(ps, t, p, par, pr, nx, q) ==
  /\ t[q].parent = IF ps[q].parent = p THEN NULL ELSE ps[q].parent
  /\ t[q].living = IF ps[q].living = p THEN nx ELSE ps[q].living
  /\ t[q].next = IF par # NULL /\ q = pr THEN nx ELSE ps[q].next
  /\ t[q].prev = IF par # NULL /\ q = nx THEN pr ELSE ps[q].prev
  /\ t[q].zombie = ps[q].zombie /\ t[q].pid = ps[q].pid /\ t[q].forker = ps[q].forker
  /\ t[q].state = IF q = par THEN "READY" ELSE ps[q].state
  /\ t[q].waiting = IF q = par THEN FALSE ELSE ps[q].waiting
  /\ ps[q].state = "CLOSE" => t[q] = ps[q]

Removed(ps, t, p) ==
  /\ t[p] = Cleared
  /\ \A q \in Slots \ {p} : RemovedAt(ps, t, p, ps[p].parent, ps[p].prev, ps[p].next, q)

(* The neighbours of a process in a tidy table.                            *)
LEMMA Neighbours ==
  ASSUME NEW ps \in [Slots -> Proc], NEW top \in Nat, Tidy(ps, top), NEW p \in Slots,
         ps[p].parent # NULL
  PROVE  /\ ps[p].parent \in Slots /\ ps[p].parent # p /\ ps[ps[p].parent].state # "CLOSE"
         /\ Links(ps, p)
         /\ ps[p].prev # NULL => /\ ps[p].prev \in Slots /\ ps[p].prev # p
                                 /\ ps[ps[p].prev].parent = ps[p].parent
                                 /\ ps[ps[p].prev].next = p
                                 /\ ps[p].pid < ps[ps[p].prev].pid
                                 /\ ps[p].prev # ps[p].parent
         /\ ps[p].next # NULL => /\ ps[p].next \in Slots /\ ps[p].next # p
                                 /\ ps[ps[p].next].parent = ps[p].parent
                                 /\ ps[ps[p].next].prev = p
                                 /\ ps[ps[p].next].pid < ps[p].pid
                                 /\ ps[p].next # ps[p].parent
                                 /\ ps[p].next # ps[p].prev
<1>1. /\ ps[p].parent \in Slots /\ ps[p].prev \in Ptr /\ ps[p].next \in Ptr
  BY DEF Proc, Ptr
<1>2. \A q \in Slots : ps[q].pid \in Nat
  BY DEF Proc
<1>3. \A q \in Slots : ps[q].parent # NULL => Links(ps, q)
  BY DEF Tidy
<1>4. ps[p].next # NULL => /\ ps[p].next \in Slots
                           /\ ps[ps[p].next].parent = ps[p].parent
                           /\ ps[ps[p].next].prev = p
                           /\ ps[ps[p].next].pid < ps[p].pid
  BY <1>1, <1>3 DEF Links, Ptr
<1>5. ps[p].prev # NULL => /\ ps[p].prev \in Slots
                           /\ ps[ps[p].prev].parent = ps[p].parent
                           /\ ps[ps[p].prev].next = p
  BY <1>1, <1>3 DEF Links, Ptr
<1>6. ps[p].prev # NULL => ps[p].pid < ps[ps[p].prev].pid /\ ps[p].prev # ps[p].parent
  BY <1>1, <1>3, <1>5, SlotIsNoNull DEF Links
<1>7. ps[p].next # NULL => ps[p].next # ps[p].parent
  BY <1>1, <1>3, <1>4, SlotIsNoNull DEF Links
<1>8. ps[p].next # NULL => ps[p].next # ps[p].prev
  <2> HAVE ps[p].next # NULL
  <2>1. CASE ps[p].prev = NULL
    BY <2>1
  <2>2. CASE ps[p].prev # NULL
    <3>1. ps[ps[p].next].pid < ps[p].pid /\ ps[p].pid < ps[ps[p].prev].pid
      BY <1>4, <1>6, <2>2
    <3>2. ps[ps[p].next].pid \in Nat /\ ps[p].pid \in Nat
      BY <1>2, <1>4
    <3> QED
      BY <3>1, <3>2
  <2> QED
    BY <2>1, <2>2
<1>9. ps[p].parent # p /\ ps[ps[p].parent].state # "CLOSE" /\ Links(ps, p)
  BY <1>3 DEF Links
<1>10. /\ ps[p].next # NULL => ps[p].next # p
       /\ ps[p].prev # NULL => ps[p].prev # p
  BY <1>2, <1>4, <1>6
<1> QED
  BY <1>1, <1>4, <1>5, <1>6, <1>7, <1>8, <1>9, <1>10

LEMMA RemovedTidy ==
  ASSUME NEW ps \in [Slots -> Proc], NEW top \in Nat, Tidy(ps, top), NEW p \in Slots,
         NEW t, Removed(ps, t, p)
  PROVE  Tidy(t, top)
<1> DEFINE par == ps[p].parent
           pr == ps[p].prev
           nx == ps[p].next
<1> SUFFICES ASSUME NEW q \in Slots
             PROVE  /\ t[q].state = "CLOSE" => t[q] = Cleared
                    /\ t[q].state # "ZOMBIE" /\ t[q].zombie = NULL
                    /\ t[q].pid <= top
                    /\ t[q].parent # NULL => Links(t, q)
                    /\ t[q].living # NULL => t[t[q].living].parent = q
                    /\ t[q].waiting => t[q].living # NULL
  BY DEF Tidy
<1>1. CASE q = p
  BY <1>1 DEF Removed, Cleared
<1>2. CASE q # p
  <2>1. ASSUME NEW x \in Slots, x # p
        PROVE  /\ t[x].parent = IF ps[x].parent = p THEN NULL ELSE ps[x].parent
               /\ t[x].living = IF ps[x].living = p THEN nx ELSE ps[x].living
               /\ t[x].next = IF par # NULL /\ x = pr THEN nx ELSE ps[x].next
               /\ t[x].prev = IF par # NULL /\ x = nx THEN pr ELSE ps[x].prev
               /\ t[x].pid = ps[x].pid /\ t[x].forker = ps[x].forker
               /\ t[x].state = IF x = par THEN "READY" ELSE ps[x].state
    BY Zenon, <2>1 DEF Removed, RemovedAt
  <2>0. /\ t[q].zombie = ps[q].zombie
        /\ t[q].waiting = IF q = par THEN FALSE ELSE ps[q].waiting
        /\ ps[q].state = "CLOSE" => t[q] = ps[q]
    BY Zenon, <1>2 DEF Removed, RemovedAt
  <2>2. /\ t[q].state = "CLOSE" => t[q] = Cleared
        /\ t[q].state # "ZOMBIE" /\ t[q].zombie = NULL
        /\ t[q].pid <= top
    BY <1>2, <2>0, <2>1 DEF Tidy
  <2>3. ps[q].living = p => q = par /\ par # NULL
    BY SlotIsNoNull DEF Tidy
  <2>4. t[q].waiting => t[q].living # NULL
    <3> HAVE t[q].waiting
    <3>1. q # par /\ ps[q].waiting
      BY Zenon, <2>0
    <3>2. ps[q].living # NULL
      BY <3>1 DEF Tidy
    <3> QED
      BY <1>2, <2>1, <2>3, <3>1, <3>2
  <2>5. t[q].living # NULL => t[t[q].living].parent = q
    <3> HAVE t[q].living # NULL
    <3>1. CASE ps[q].living = p
      <4>1. t[q].living = nx /\ nx # NULL /\ par # NULL /\ q = par
        BY <1>2, <2>1, <2>3, <3>1
      <4>2. nx \in Slots /\ nx # p /\ ps[nx].parent = par
        BY <4>1, Neighbours
      <4> QED
        BY <1>2, <2>1, <4>1, <4>2
    <3>2. CASE ps[q].living # p
      <4>1. t[q].living = ps[q].living /\ ps[q].living \in Slots /\ ps[ps[q].living].parent = q
        BY <1>2, <2>1, <3>2 DEF Tidy, Proc, Ptr
      <4> QED
        BY <1>2, <2>1, <3>2, <4>1
    <3> QED
      BY <3>1, <3>2
  <2>6. t[q].parent # NULL => Links(t, q)
    <3> HAVE t[q].parent # NULL
    <3>1. PICK r \in Slots : r = ps[q].parent /\ t[q].parent = r /\ r # p
      BY <1>2, <2>1, Neighbours
    <3>2. ps[q].parent # NULL
      BY <3>1, SlotIsNoNull
    <3>3. Links(ps, q) /\ r # q
      BY <3>1, <3>2, Neighbours
    <3>4. t[r].state # "CLOSE" /\ t[q].forker = t[r].pid
      BY <1>2, <2>1, <3>1, <3>3 DEF Links
    <3>5. ps[r].living = p => r = par /\ par # NULL
      BY SlotIsNoNull DEF Tidy
    <3>6. t[q].prev = NULL <=> t[r].living = q
      <4>1. CASE par # NULL /\ q = nx
        <5>1. ps[q].prev = p /\ r = par /\ t[q].prev = pr
          BY <1>2, <2>1, <3>1, <4>1, SlotIsNoNull, Neighbours
        <5>2. pr = NULL <=> ps[par].living = p
          BY <4>1, Neighbours DEF Links
        <5>3. ps[par].living # q
          BY <3>1, <3>3, <5>1, SlotIsNoNull DEF Links
        <5> QED
          BY <2>1, <3>1, <4>1, <5>1, <5>2, <5>3
      <4>2. CASE ~(par # NULL /\ q = nx)
        <5>1. t[q].prev = ps[q].prev
          BY <1>2, <2>1, <4>2
        <5>2. ps[q].prev = NULL <=> ps[r].living = q
          BY <3>1, <3>3 DEF Links
        <5> QED
          BY <1>2, <2>1, <3>1, <3>5, <4>2, <5>1, <5>2
      <4> QED
        BY <4>1, <4>2
    <3>7. t[q].prev # NULL => t[t[q].prev].parent = r /\ t[t[q].prev].next = q
      <4> HAVE t[q].prev # NULL
      <4>1. CASE par # NULL /\ q = nx
        <5>1. ps[q].prev = p /\ r = par /\ t[q].prev = pr
          BY <1>2, <2>1, <3>1, <4>1, SlotIsNoNull, Neighbours
        <5>2. pr \in Slots /\ pr # p /\ ps[pr].parent = par
          BY <4>1, <5>1, Neighbours
        <5> QED
          BY <2>1, <3>1, <4>1, <5>1, <5>2
      <4>2. CASE ~(par # NULL /\ q = nx)
        <5>1. PICK x \in Slots : x = ps[q].prev /\ t[q].prev = x
          BY <1>2, <2>1, <3>2, <4>2, Neighbours
        <5>2. ps[x].parent = r /\ ps[x].next = q
          BY <3>1, <3>2, <5>1, SlotIsNoNull, Neighbours
        <5>3. x # p
          BY <3>1, <4>2, <5>2, SlotIsNoNull
        <5>4. ~(par # NULL /\ x = pr)
          BY <1>2, <5>1, <5>2, SlotIsNoNull, Neighbours
        <5> QED
          BY <2>1, <3>1, <5>1, <5>2, <5>3, <5>4
      <4> QED
        BY <4>1, <4>2
    <3>8. t[q].next # NULL => t[t[q].next].parent = r /\ t[t[q].next].prev = q
                              /\ t[t[q].next].pid < t[q].pid
      <4> HAVE t[q].next # NULL
      <4>1. CASE par # NULL /\ q = pr
        <5>1. t[q].next = nx /\ r = par /\ ps[p].pid < ps[q].pid
          BY <1>2, <2>1, <3>1, <4>1, SlotIsNoNull, Neighbours
        <5>2. nx \in Slots /\ nx # p /\ ps[nx].parent = par /\ ps[nx].pid < ps[p].pid
          BY <4>1, <5>1, Neighbours
        <5>3. ps[nx].pid \in Nat /\ ps[p].pid \in Nat /\ ps[q].pid \in Nat
          BY <5>2 DEF Proc
        <5>4. ps[nx].pid < ps[q].pid
          BY <5>1, <5>2, <5>3
        <5> QED
          BY <1>2, <2>1, <3>1, <4>1, <5>1, <5>2, <5>4
      <4>2. CASE ~(par # NULL /\ q = pr)
        <5>1. PICK y \in Slots : y = ps[q].next /\ t[q].next = y
          BY <1>2, <2>1, <3>2, <4>2, Neighbours
        <5>2. ps[y].parent = r /\ ps[y].prev = q /\ ps[y].pid < ps[q].pid
          BY <3>1, <3>2, <5>1, SlotIsNoNull, Neighbours
        <5>3. y # p
          BY <3>1, <4>2, <5>2, SlotIsNoNull
        <5>4. ~(par # NULL /\ y = nx)
          BY <1>2, <5>1, <5>2, SlotIsNoNull, Neighbours
        <5> QED
          BY <1>2, <2>1, <3>1, <5>1, <5>2, <5>3, <5>4
      <4> QED
        BY <4>1, <4>2
    <3> QED
      BY <3>1, <3>3, <3>4, <3>6, <3>7, <3>8 DEF Links
  <2> QED
    BY <2>2, <2>4, <2>5, <2>6
<1> QED
  BY <1>1, <1>2

(* exit_as_parent in a tidy table only takes the parent from the children. *)
LEMMA ExitAsParentView ==
  ASSUME NEW ps \in [Slots -> Proc], NEW top \in Nat, Tidy(ps, top), NEW p \in Slots
  PROVE  ExitAsParent(ps, p) = [q \in Slots |-> IF q \in Kids(ps, p)
                                                THEN [ps[q] EXCEPT !.parent = NULL] ELSE ps[q]]
<1> DEFINE o == [q \in Slots |-> IF q \in Kids(ps, p) THEN [ps[q] EXCEPT !.parent = NULL]
                                                      ELSE ps[q]]
<1>1. Orphan(ps, p) = o
  BY ListIsKids DEF Orphan
<1>2. o[p].zombie = NULL
  <2>1. ps[p].zombie = NULL
    BY DEF Tidy
  <2> QED
    BY <2>1 DEF Proc
<1>3. NULL \notin Slots
  BY SlotIsNoNull
<1>4. Chain(o, NULL) = {}
  <2>1. {} \in SUBSET Slots
    OBVIOUS
  <2> QED
    BY Zenon, <1>3, <2>1 DEF Chain
<1>5. ClearProc(o, {}) = o
  BY DEF ClearProc
<1> QED
  BY <1>1, <1>2, <1>4, <1>5 DEF ExitAsParent

LEMMA KillRemoves ==
  ASSUME NEW ps \in [Slots -> Proc], NEW top \in Nat, Tidy(ps, top), NEW p \in Slots, NEW val,
         ps[p].parent # NULL => ps[ps[p].parent].waiting
  PROVE  Removed(ps, KillProc(ps, p, val), p)
<1> DEFINE orphaned == [q \in Slots |-> IF q \in Kids(ps, p) THEN [ps[q] EXCEPT !.parent = NULL]
                                                           ELSE ps[q]]
<1>1. PICK o : o = orphaned
  <2> HIDE DEF orphaned
  <2> QED
    OBVIOUS
<1>2. ExitAsParent(ps, p) = o
  BY <1>1, ExitAsParentView
<1>3. ASSUME NEW q \in Slots
      PROVE  /\ o[q].parent = IF ps[q].parent = p THEN NULL ELSE ps[q].parent
             /\ o[q].living = ps[q].living /\ o[q].next = ps[q].next /\ o[q].prev = ps[q].prev
             /\ o[q].zombie = ps[q].zombie /\ o[q].pid = ps[q].pid /\ o[q].forker = ps[q].forker
             /\ o[q].state = ps[q].state
  <2>0. ps[q] \in Proc
    OBVIOUS
  <2>1. CASE ps[q].parent = p
    BY <1>1, <2>0, <2>1 DEF Kids, Proc
  <2>2. CASE ps[q].parent # p
    BY <1>1, <2>2 DEF Kids
  <2> QED
    BY <2>1, <2>2
<1>10. ASSUME NEW q \in Slots
       PROVE  o[q].waiting = ps[q].waiting
  <2>0. ps[q] \in Proc
    OBVIOUS
  <2>1. CASE ps[q].parent = p
    BY <1>1, <2>0, <2>1 DEF Kids, Proc
  <2>2. CASE ps[q].parent # p
    BY <1>1, <2>2 DEF Kids
  <2> QED
    BY <2>1, <2>2
<1>11. ASSUME NEW q \in Slots
       PROVE  /\ ps[q].parent # p => o[q] = ps[q]
              /\ ps[q].parent = p => o[q] = [ps[q] EXCEPT !.parent = NULL]
  BY <1>1 DEF Kids
<1>4. ASSUME NEW q \in Slots, ps[q].state = "CLOSE"
      PROVE  ps[q].parent = NULL /\ o[q] = ps[q]
  <2>1. ps[q].parent = NULL
    BY <1>4 DEF Tidy, Cleared
  <2> QED
    BY Zenon, <1>11, <2>1, SlotIsNoNull
<1>5. ASSUME NEW q \in Slots, ps[q].living = p
      PROVE  ps[p].parent = q
  BY <1>5, SlotIsNoNull DEF Tidy
<1>6. p \notin Kids(ps, p) /\ ps[p].parent # p
  <2>1. ps[p].parent # p
    BY SlotIsNoNull DEF Tidy, Links
  <2> QED
    BY <2>1 DEF Kids
<1>7. /\ o[p].parent = ps[p].parent /\ o[p].prev = ps[p].prev /\ o[p].next = ps[p].next
  BY <1>3, <1>6
<1>8. CASE ps[p].parent = NULL
  <2>1. KillProc(ps, p, val) = ClearProc(o, {p})
    BY <1>2, <1>7, <1>8 DEF KillProc, ExitAsChild
  <2>2. PICK t : t = ClearProc(o, {p})
    OBVIOUS
  <2>3. t[p] = Cleared /\ \A q \in Slots : q # p => t[q] = o[q]
    BY <2>2 DEF ClearProc
  <2>4. ASSUME NEW q \in Slots \ {p}
        PROVE  /\ t[q].parent = IF ps[q].parent = p THEN NULL ELSE ps[q].parent
               /\ t[q].living = IF ps[q].living = p THEN ps[p].next ELSE ps[q].living
               /\ t[q].next = ps[q].next /\ t[q].prev = ps[q].prev
               /\ t[q].zombie = ps[q].zombie /\ t[q].pid = ps[q].pid /\ t[q].forker = ps[q].forker
               /\ t[q].state = ps[q].state
               /\ t[q].waiting = ps[q].waiting
               /\ ps[q].state = "CLOSE" => t[q] = ps[q]
               /\ q # ps[p].parent
    <3>1. t[q] = o[q] /\ q # NULL
      BY <2>3, SlotIsNoNull
    <3>2. ps[q].living # p
      BY <1>5, <1>8, SlotIsNoNull
    <3>3. t[q].waiting = ps[q].waiting
      BY <1>10, <3>1
    <3>4. ps[q].state = "CLOSE" => t[q] = ps[q]
      BY <1>4, <3>1
    <3> QED
      BY <1>3, <1>8, <3>1, <3>2, <3>3, <3>4
  <2>5. Removed(ps, t, p)
    BY Zenon, <1>8, <2>3, <2>4 DEF Removed, RemovedAt
  <2> QED
    BY <2>1, <2>2, <2>5
<1>9. CASE ps[p].parent # NULL
  <2>1. PICK par, pr, nx : par = ps[p].parent /\ pr = ps[p].prev /\ nx = ps[p].next
    OBVIOUS
  <2>2. /\ par \in Slots /\ par # p
        /\ pr # NULL => /\ pr \in Slots /\ pr # p /\ pr # par
                        /\ ps[pr].parent = par
        /\ nx # NULL => /\ nx \in Slots /\ nx # p /\ nx # par /\ nx # pr
                        /\ ps[nx].parent = par
        /\ ps[par].state # "CLOSE"
    BY <1>9, <2>1, Neighbours
  <2>3. KillProc(ps, p, val) = ClearProc(WakeParent(o, p), {p})
    <3>1. o[par].waiting
      BY <1>9, <1>10, <2>1, <2>2
    <3> QED
      BY <1>2, <1>7, <1>9, <2>1, <3>1 DEF KillProc, ExitAsChild
  <2> DEFINE ra == [o[par] EXCEPT !.waiting = FALSE, !.state = "READY"]
             a == Put(o, par, ra)
             b == IF pr = NULL THEN a ELSE Put(a, pr, [a[pr] EXCEPT !.next = nx])
             c == IF nx = NULL THEN b ELSE Put(b, nx, [b[nx] EXCEPT !.prev = pr])
             rw == [c[par] EXCEPT !.living = IF @ = p THEN nx ELSE @,
                                  !.zombie = IF @ = p THEN nx ELSE @]
  <2>4. WakeParent(o, p) = Put(c, par, rw)
    BY <1>7, <2>1 DEF WakeParent
  <2>5. a[par] = ra /\ \A q \in Slots : q # par => a[q] = o[q]
    BY <2>2 DEF Put
  <2> HIDE DEF a
  <2>6. /\ pr # NULL => b[pr] = [o[pr] EXCEPT !.next = nx]
        /\ \A q \in Slots : q # pr => b[q] = a[q]
    <3>1. CASE pr = NULL
      BY <3>1
    <3>2. CASE pr # NULL
      BY <2>2, <2>5, <3>2 DEF Put
    <3> QED
      BY <3>1, <3>2
  <2> HIDE DEF b
  <2>7. /\ nx # NULL => c[nx] = [o[nx] EXCEPT !.prev = pr]
        /\ \A q \in Slots : q # nx => c[q] = b[q]
    <3>1. CASE nx = NULL
      BY <3>1
    <3>2. CASE nx # NULL
      BY <2>2, <2>5, <2>6, <3>2 DEF Put
    <3> QED
      BY <3>1, <3>2
  <2> HIDE DEF c
  <2>8. PICK t : t = KillProc(ps, p, val)
    OBVIOUS
  <2>9. t[p] = Cleared /\ t[par] = rw /\ \A q \in Slots : q # p /\ q # par => t[q] = c[q]
    BY <2>2, <2>3, <2>4, <2>8 DEF Put, ClearProc
  <2>10. c[par] = ra
    BY <2>2, <2>5, <2>6, <2>7, SlotIsNoNull
  <2>11. /\ t[par].parent = o[par].parent
         /\ t[par].living = IF ps[par].living = p THEN nx ELSE ps[par].living
         /\ t[par].next = ps[par].next /\ t[par].prev = ps[par].prev
         /\ t[par].zombie = ps[par].zombie /\ t[par].pid = ps[par].pid
         /\ t[par].forker = ps[par].forker
         /\ t[par].state = "READY"
         /\ ~t[par].waiting
    <3>1. PICK r : r = o[par]
      OBVIOUS
    <3>2. r \in Proc
      <4>1. ps[par] \in Proc /\ [ps[par] EXCEPT !.parent = NULL] \in Proc
        BY <2>2 DEF Proc, Ptr
      <4> QED
        BY <1>11, <2>2, <3>1, <4>1
    <3>3. r.zombie # p
      <4>1. ps[par].zombie = NULL
        BY <2>2 DEF Tidy
      <4> QED
        BY <1>3, <2>2, <3>1, <4>1, SlotIsNoNull
    <3>4. t[par] = [[r EXCEPT !.waiting = FALSE, !.state = "READY"] EXCEPT
                      !.living = IF r.living = p THEN nx ELSE r.living, !.zombie = r.zombie]
      BY <2>9, <2>10, <3>1, <3>2, <3>3 DEF Proc
    <3>5. /\ t[par].parent = r.parent
          /\ t[par].living = IF r.living = p THEN nx ELSE r.living
          /\ t[par].next = r.next /\ t[par].prev = r.prev /\ t[par].zombie = r.zombie
          /\ t[par].pid = r.pid /\ t[par].forker = r.forker /\ t[par].state = "READY"
          /\ ~t[par].waiting
      BY <3>2, <3>4 DEF Proc
    <3> QED
      BY <1>3, <2>2, <3>1, <3>5
  <2>12. ASSUME NEW q \in Slots \ {p}
         PROVE  /\ t[q].parent = IF ps[q].parent = p THEN NULL ELSE ps[q].parent
                /\ t[q].living = IF ps[q].living = p THEN nx ELSE ps[q].living
                /\ t[q].next = IF par # NULL /\ q = pr THEN nx ELSE ps[q].next
                /\ t[q].prev = IF par # NULL /\ q = nx THEN pr ELSE ps[q].prev
                /\ t[q].zombie = ps[q].zombie /\ t[q].pid = ps[q].pid /\ t[q].forker = ps[q].forker
                /\ t[q].state = IF q = par THEN "READY" ELSE ps[q].state
                /\ t[q].waiting = IF q = par THEN FALSE ELSE ps[q].waiting
                /\ ps[q].state = "CLOSE" => t[q] = ps[q]
    <3>0. q \in Slots /\ q # p /\ q # NULL /\ par # NULL
      BY <1>9, <2>1, SlotIsNoNull
    <3>1. CASE q = par
      <4>1. q # pr /\ q # nx
        BY <2>2, <3>0, <3>1
      <4>2. t[q].waiting = FALSE
        BY <2>11, <3>1
      <4>3. ps[q].state = "CLOSE" => t[q] = ps[q]
        BY <2>2, <3>1
      <4> QED
        BY Zenon, <1>3, <2>11, <3>0, <3>1, <4>1, <4>2, <4>3
    <3>2. CASE q # par
      <4>1. t[q] = c[q] /\ ps[q].living # p
        BY <1>5, <2>1, <2>9, <3>0, <3>2
      <4>2. CASE q = pr
        <5>1. t[q] = [o[q] EXCEPT !.next = nx]
          BY <2>2, <2>6, <2>7, <3>0, <4>1, <4>2
        <5>2. ps[q].state # "CLOSE" /\ ps[q].parent # p /\ q # nx
          BY <1>4, <2>2, <3>0, <4>2
        <5>3. o[q] = ps[q] /\ ps[q] \in Proc
          BY Zenon, <1>11, <3>0, <5>2
        <5> QED
          BY <3>0, <3>2, <4>1, <4>2, <5>1, <5>2, <5>3 DEF Proc
      <4>3. CASE q = nx
        <5>1. t[q] = [o[q] EXCEPT !.prev = pr]
          BY <2>2, <2>7, <3>0, <4>1, <4>3
        <5>2. ps[q].state # "CLOSE" /\ ps[q].parent # p /\ q # pr
          BY <1>4, <2>2, <3>0, <4>3
        <5>3. o[q] = ps[q] /\ ps[q] \in Proc
          BY Zenon, <1>11, <3>0, <5>2
        <5> QED
          BY <3>0, <3>2, <4>1, <4>3, <5>1, <5>2, <5>3 DEF Proc
      <4>4. CASE q # pr /\ q # nx
        <5>1. t[q] = o[q]
          BY <2>5, <2>6, <2>7, <3>0, <3>2, <4>1, <4>4
        <5>2. t[q].waiting = ps[q].waiting
          BY <1>10, <3>0, <5>1
        <5>3. ps[q].state = "CLOSE" => t[q] = ps[q]
          BY <1>4, <3>0, <5>1
        <5> QED
          BY <1>3, <3>0, <3>2, <4>1, <4>4, <5>1, <5>2, <5>3
      <4> QED
        BY Zenon, <4>2, <4>3, <4>4
    <3> QED
      BY Zenon, <3>1, <3>2
  <2>13. ASSUME NEW q \in Slots \ {p} PROVE RemovedAt(ps, t, p, par, pr, nx, q)
    BY Zenon, <2>12 DEF RemovedAt
  <2>14. Removed(ps, t, p)
    BY Zenon, <2>1, <2>9, <2>13 DEF Removed
  <2> QED
    BY <2>8, <2>14
<1> QED
  BY <1>8, <1>9

(* A process that ends while nobody but its waiting parent looks at it.    *)
LEMMA KillTree ==
  ASSUME IInv, TreeInv, InProgram, ~Early, NEW val \in Int, KillAndSched(val)
  PROVE  TreeInv'
<1>1. /\ procs \in [Slots -> Proc] /\ curproc \in Slots /\ g_pid \in Nat
      /\ Sound(procs) /\ ~procs[curproc].waiting /\ curproc # Idle
  BY DEF IInv, TypeOK, InProgram
<1>2. PICK p, t : p = curproc /\ t = KillProc(procs, curproc, val)
  OBVIOUS
<1>3. procs[p].parent # NULL => procs[procs[p].parent].waiting
  BY <1>2 DEF Early
<1>4. Removed(procs, t, p)
  BY <1>1, <1>2, <1>3, KillRemoves DEF TreeInv
<1>5. Tidy(t, g_pid)
  BY <1>1, <1>2, <1>4, RemovedTidy DEF TreeInv
<1>6. t \in [Slots -> Proc]
  BY <1>1, <1>2, KillProcSound DEF Sound
<1>7. Sched(t) /\ g_pid' = g_pid /\ reaped' = KillProcReports(procs, p, val)
  BY <1>2 DEF KillAndSched
<1>8. Tidy(procs', g_pid) /\ procs'[curproc'].state = "RUNNING"
  BY <1>5, <1>6, <1>7, SchedTidy
<1>9. WaitReportsOwnChild'
  <2>1. PICK o : o = ExitAsParent(procs, p)
    OBVIOUS
  <2>2. o = [q \in Slots |-> IF q \in Kids(procs, p) THEN [procs[q] EXCEPT !.parent = NULL]
                                                     ELSE procs[q]]
    BY <1>1, <1>2, <2>1, ExitAsParentView DEF TreeInv
  <2>3. \A q \in Slots : o[q].pid = procs[q].pid /\ o[q].forker = procs[q].forker
    <3> TAKE q \in Slots
    <3>1. procs[q] \in Proc
      BY <1>1
    <3>2. CASE q \in Kids(procs, p)
      BY <2>2, <3>1, <3>2 DEF Proc
    <3>3. CASE q \notin Kids(procs, p)
      BY <2>2, <3>3
    <3> QED
      BY <3>2, <3>3
  <2>4. CASE o[p].parent = NULL \/ ~o[o[p].parent].waiting
    <3>1. reaped' = reaped
      BY <1>7, <2>1, <2>4 DEF KillProcReports
    <3> QED
      BY <3>1 DEF TreeInv, WaitReportsOwnChild
  <2>5. CASE o[p].parent # NULL /\ o[o[p].parent].waiting
    <3>1. PICK par : par = o[p].parent
      OBVIOUS
    <3>2. p \notin Kids(procs, p)
      <4>1. procs[p].parent # p
        BY <1>1, <1>2, SlotIsNoNull DEF TreeInv, Tidy, Links
      <4> QED
        BY <4>1 DEF Kids
    <3>3. o[p] = procs[p]
      BY <1>1, <1>2, <2>2, <3>2
    <3>4. par # NULL /\ procs[p].parent = par
      BY <2>5, <3>1, <3>3
    <3>5. par \in Slots /\ Links(procs, p)
      BY <1>1, <1>2, <3>4, Neighbours DEF TreeInv
    <3>6. procs[p].forker = procs[par].pid
      BY <3>4, <3>5 DEF Links
    <3>7. reaped' = [waiter |-> o[par].pid, child |-> o[p].pid, forker |-> o[p].forker,
                     ended |-> TRUE, val |-> val]
      BY <1>7, <2>1, <2>5, <3>1 DEF KillProcReports
    <3>8. reaped'.waiter = reaped'.forker /\ reaped'.ended
      BY <1>1, <1>2, <2>3, <3>5, <3>6, <3>7
    <3> QED
      BY <3>8 DEF WaitReportsOwnChild
  <2> QED
    BY <2>4, <2>5
<1> QED
  BY <1>7, <1>8, <1>9 DEF TreeInv

LEMMA InitTree == Init => TreeInv
<1> SUFFICES ASSUME Init PROVE TreeInv
  OBVIOUS
<1>1. /\ procs \in [Slots -> Proc] /\ curproc = Shell /\ g_pid = 2 /\ Shell \in Slots
  BY InitIInv, IdleIsSlot DEF IInv, TypeOK, Init
<1>2. ASSUME NEW q \in Slots
      PROVE  /\ procs[q].state = "CLOSE" => procs[q] = Cleared
             /\ procs[q].state # "ZOMBIE" /\ procs[q].zombie = NULL
             /\ procs[q].pid <= g_pid
             /\ procs[q].parent = NULL /\ procs[q].living = NULL /\ ~procs[q].waiting
             /\ q = Shell => procs[q].state = "RUNNING"
  <2>1. procs[q] = IF q = Idle THEN Created(1)
                   ELSE IF q = Shell THEN [Created(2) EXCEPT !.state = "RUNNING"] ELSE Cleared
    BY DEF Init
  <2>2. CASE q = Idle
    BY <1>1, <2>1, <2>2 DEF Created, Cleared
  <2>3. CASE q = Shell
    BY <1>1, <2>1, <2>3 DEF Created, Cleared
  <2>4. CASE q # Idle /\ q # Shell
    BY <1>1, <2>1, <2>4 DEF Cleared
  <2> QED
    BY <2>2, <2>3, <2>4
<1>3. Tidy(procs, g_pid)
  BY <1>2 DEF Tidy
<1>4. WaitReportsOwnChild
  BY DEF Init, WaitReportsOwnChild
<1> QED
  BY <1>1, <1>2, <1>3, <1>4 DEF TreeInv

(* Every step of an orderly behaviour keeps the family lists exact.        *)
LEMMA NextTree ==
  ASSUME IInv, orderly => TreeInv, [MCNext]_mcvars
  PROVE  orderly' => TreeInv'
<1> SUFFICES ASSUME orderly' PROVE TreeInv'
  OBVIOUS
<1>0. /\ procs \in [Slots -> Proc] /\ curproc \in Slots /\ g_pid \in Nat
      /\ Sound(procs) /\ ~procs[curproc].waiting
  BY DEF IInv, TypeOK
<1>1. CASE Timer /\ UNCHANGED orderly
  <2> DEFINE r  == [procs[curproc] EXCEPT !.state = "READY"]
             r2 == [procs[curproc] EXCEPT !.waiting = FALSE, !.state = "READY"]
  <2>0. TreeInv
    BY <1>1
  <2>1. procs[curproc] \in Proc
    BY <1>0
  <2>2. r = r2
    BY Zenon, <1>0, <2>1 DEF Proc
  <2>3. Sound(Put(procs, curproc, r2))
    BY Zenon, <1>0, StateSound DEF States
  <2>4. Tidy(Put(procs, curproc, r2), g_pid)
    BY Zenon, <1>0, <2>0, StateTidy DEF States, TreeInv
  <2>5. Sched(Put(procs, curproc, r)) /\ g_pid' = g_pid /\ reaped' = reaped
    BY <1>1 DEF Timer
  <2> HIDE DEF r, r2
  <2>6. Tidy(procs', g_pid) /\ procs'[curproc'].state = "RUNNING"
    BY <2>2, <2>3, <2>4, <2>5, SchedTidy DEF Sound
  <2> QED
    BY <2>0, <2>5, <2>6 DEF TreeInv, WaitReportsOwnChild
<1>2. CASE Fork /\ UNCHANGED orderly
  <2>0. TreeInv
    BY <1>2
  <2>1. PICK n \in Slots : procs[n].state = "CLOSE"
                           /\ procs' = AddChild(procs, curproc, n, g_pid + 1)
    BY <1>2 DEF Fork, AllocProc
  <2>2. procs[curproc].state = "RUNNING"
    BY <2>0 DEF TreeInv
  <2>3. Tidy(procs', g_pid + 1)
    BY <1>0, <2>0, <2>1, <2>2, AddChildTidy DEF TreeInv
  <2>4. procs'[curproc].state = "RUNNING"
    <3>1. procs[n] = Cleared /\ n # curproc
      BY <2>0, <2>1, <2>2 DEF TreeInv, Tidy
    <3>2. procs[curproc].living # NULL =>
            /\ procs[curproc].living \in Slots
            /\ procs[procs[curproc].living].parent = curproc
      BY <1>0, <2>0 DEF TreeInv, Tidy, Proc, Ptr
    <3>3. procs[curproc].living \notin {n, curproc}
      BY <1>0, <2>0, <2>1, <3>1, <3>2, SlotIsNoNull, Neighbours DEF TreeInv, Cleared
    <3> QED
      BY <1>0, <2>1, <2>2, <3>1, <3>3, AddChildView
  <2>5. g_pid' = g_pid + 1 /\ curproc' = curproc /\ reaped' = reaped
    BY <1>2 DEF Fork
  <2> QED
    BY <2>0, <2>3, <2>4, <2>5 DEF TreeInv, WaitReportsOwnChild
<1>3. CASE \/ ForkTableFull /\ UNCHANGED orderly
           \/ Ends(ExitHangs)
           \/ WaitPanics /\ UNCHANGED orderly
           \/ WaitNoChild /\ UNCHANGED orderly
           \/ UNCHANGED mcvars
  <2>1. TreeInv
    BY Zenon, <1>3 DEF Ends, mcvars
  <2>2. UNCHANGED <<procs, curproc, g_pid, reaped>>
    BY Zenon, <1>3 DEF Ends, mcvars, vars, ForkTableFull, ExitHangs, WaitPanics, WaitNoChild, Halt
  <2> QED
    BY <2>1, <2>2 DEF TreeInv, Tidy, Links, WaitReportsOwnChild
<1>4. ASSUME NEW v \in ExitVals, Ends(Exit(v))
      PROVE  TreeInv'
  <2>1. TreeInv /\ ~Early /\ Exit(v)
    BY Zenon, <1>4 DEF Ends
  <2> QED
    BY <2>1, ConstantsAssumption, KillTree DEF Exit
<1>5. CASE Ends(Fault)
  <2>1. TreeInv /\ ~Early /\ Fault
    BY Zenon, <1>5 DEF Ends
  <2> QED
    BY <2>1, KillTree DEF Fault, KILLED
<1>6. CASE UnknownSyscall /\ orderly' = FALSE /\ Bounded
  BY <1>6
<1>7. CASE WaitReap /\ UNCHANGED orderly
  <2>1. TreeInv /\ procs[curproc].zombie # NULL
    BY <1>7 DEF WaitReap
  <2> QED
    BY <1>0, <2>1 DEF TreeInv, Tidy
<1>8. CASE WaitSleep /\ UNCHANGED orderly
  <2> DEFINE r == [procs[curproc] EXCEPT !.waiting = TRUE, !.state = "PENDING"]
  <2>0. TreeInv /\ procs[curproc].living # NULL /\ procs[curproc].zombie = NULL
    BY <1>8 DEF WaitSleep
  <2>1. Sound(Put(procs, curproc, r))
    BY Zenon, <1>0, <1>8, StateSound DEF WaitSleep, InProgram, States
  <2>2. Tidy(Put(procs, curproc, r), g_pid)
    BY Zenon, <1>0, <2>0, StateTidy DEF States, TreeInv
  <2>3. Sched(Put(procs, curproc, r)) /\ g_pid' = g_pid /\ reaped' = reaped
    BY <1>8 DEF WaitSleep
  <2> HIDE DEF r
  <2>4. Tidy(procs', g_pid) /\ procs'[curproc'].state = "RUNNING"
    BY <2>1, <2>2, <2>3, SchedTidy DEF Sound
  <2> QED
    BY <2>0, <2>3, <2>4 DEF TreeInv, WaitReportsOwnChild
<1> QED
  BY Zenon, <1>1, <1>2, <1>3, <1>4, <1>5, <1>6, <1>7, <1>8 DEF MCNext

LEMMA MCNextIsNext == [MCNext]_mcvars => [Next]_vars
BY DEF MCNext, Next, mcvars, vars, Ends

LEMMA OrderlyInvariance == MCSpec => [](IInv /\ (orderly => TreeInv))
<1>1. MCInit => IInv /\ (orderly => TreeInv)
  BY InitIInv, InitTree DEF MCInit
<1>2. IInv /\ (orderly => TreeInv) /\ [MCNext]_mcvars => (IInv /\ (orderly => TreeInv))'
  BY NextIInv, MCNextIsNext, NextTree
<1> QED
  BY <1>1, <1>2, PTL DEF MCSpec

(* In a tidy table the children of a process are its living children.      *)
LEMMA KidsLive ==
  ASSUME IInv, TreeInv, NEW p \in Slots
  PROVE  LivingChildren(p) = Kids(procs, p)
<1>1. procs \in [Slots -> Proc] /\ p # NULL
  BY SlotIsNoNull DEF IInv, TypeOK
<1>2. \A c \in Slots : procs[c].parent = p => procs[c].state \notin {"CLOSE", "ZOMBIE"}
  BY <1>1 DEF TreeInv, Tidy, Cleared
<1> QED
  BY <1>2 DEF LivingChildren, Kids

(***************************************************************************)
(* As long as nobody ends before its parent waits, sys_fork and            *)
(* exit_as_child keep every living list exact, whatever the number of      *)
(* processes: the list is finite, holds the living children and nobody     *)
(* else, and can be walked both ways.                                      *)
(***************************************************************************)
THEOREM OrderlyTree == MCSpec => []OrderlyLists
<1>1. IInv /\ (orderly => TreeInv) => OrderlyLists
  <2> SUFFICES ASSUME IInv, TreeInv PROVE LivingListExact
    BY DEF OrderlyLists
  <2> SUFFICES ASSUME NEW p \in Slots
               PROVE  /\ ~Endless(procs, procs[p].living)
                      /\ Chain(procs, procs[p].living) = LivingChildren(p)
                      /\ \A c \in LivingChildren(p) :
                           /\ procs[c].next # NULL => procs[procs[c].next].prev = c
                           /\ procs[c].prev = NULL <=> procs[p].living = c
    BY DEF LivingListExact
  <2>1. procs \in [Slots -> Proc] /\ g_pid \in Nat /\ Tidy(procs, g_pid)
    BY DEF IInv, TypeOK, TreeInv
  <2>2. ~Endless(procs, procs[p].living)
    BY <2>1, ListEnds
  <2>3. Chain(procs, procs[p].living) = LivingChildren(p)
    BY <2>1, ListIsKids, KidsLive
  <2>4. ASSUME NEW c \in LivingChildren(p)
        PROVE  /\ procs[c].next # NULL => procs[procs[c].next].prev = c
               /\ procs[c].prev = NULL <=> procs[p].living = c
    <3>1. c \in Slots /\ procs[c].parent = p
      BY DEF LivingChildren
    <3>2. Links(procs, c)
      BY <2>1, <3>1, SlotIsNoNull DEF Tidy
    <3> QED
      BY <3>1, <3>2 DEF Links
  <2> QED
    BY <2>2, <2>3, <2>4
<1> QED
  BY <1>1, OrderlyInvariance, PTL

(***************************************************************************)
(* As long as nobody ends before its parent waits, sys_wait puts a process *)
(* to sleep only while a living child is there to wake it.                 *)
(***************************************************************************)
THEOREM OrderlySleep == MCSpec => []OrderlyWaits
<1>1. IInv /\ (orderly => TreeInv) => OrderlyWaits
  <2> SUFFICES ASSUME IInv, TreeInv, NEW p \in Slots, procs[p].waiting
               PROVE  LivingChildren(p) # {}
    BY DEF OrderlyWaits, WaiterHasLivingChild
  <2>1. procs[p].living # NULL /\ procs[p].living \in Ptr
    BY DEF IInv, TypeOK, Proc, TreeInv, Tidy
  <2>2. procs[p].living \in Slots /\ procs[procs[p].living].parent = p
    BY <2>1 DEF TreeInv, Tidy, Ptr
  <2>3. procs[p].living \in LivingChildren(p)
    BY <2>2, KidsLive DEF Kids
  <2> QED
    BY <2>3
<1> QED
  BY <1>1, OrderlyInvariance, PTL

(***************************************************************************)
(* As long as nobody ends before its parent waits, what sys_wait returns   *)
(* is the pid of a process that the caller forked and that has ended.      *)
(***************************************************************************)
THEOREM OrderlyReturns == MCSpec => []OrderlyReports
<1>1. IInv /\ (orderly => TreeInv) => OrderlyReports
  BY DEF OrderlyReports, TreeInv
<1> QED
  BY <1>1, OrderlyInvariance, PTL
=============================================================================
