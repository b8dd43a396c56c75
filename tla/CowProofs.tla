----------------------------- MODULE CowProofs ------------------------------
(***************************************************************************)
(* Proofs about user memory (module Cow), for every number of processes,   *)
(* pages and addresses: reference counts are exact, a writable page is     *)
(* private, the asserts of U2K hold, and processes are isolated as long as *)
(* system calls do not write through the current page table.               *)
(***************************************************************************)
EXTENDS MCCow, FiniteSetTheorems, TLAPS

-----------------------------------------------------------------------------
(* An entry with the write flag is present; a closed slot maps nothing;    *)
(* nothing is mapped at or above end_umem.                                 *)
Present(t) == \A v \in Addrs : t[v].w => t[v].pg # NoPage

Tidy ==
  /\ Present(tlb)
  /\ \A p \in Procs : Present(pgtbl[p]) /\ Present(p_pgtbl[p])
  /\ \A p \in Procs : state[p] = "CLOSE" => pgtbl[p] = NoTable /\ p_pgtbl[p] = NoTable
  /\ \A p \in Procs, v \in Addrs : pgtbl[p][v].pg # NoPage => v < end_umem[p]

(* The inductive invariant; with iso, processes are still isolated.        *)
IInv(iso) ==
  /\ TypeOK
  /\ Tidy
  /\ TablesAgree
  /\ WritableIsPrivate
  /\ RefExact
  /\ CachedWritesSafe
  /\ iso => Isolated

-----------------------------------------------------------------------------
(* Counting mappings.                                                      *)
LEMMA FiniteMappers ==
  /\ IsFiniteSet(Addrs) /\ IsFiniteSet(Procs) /\ IsFiniteSet(Procs \X Addrs)
  /\ \A g : IsFiniteSet(Mappers(g)) /\ Cardinality(Mappers(g)) \in Nat
  /\ \A t, g : IsFiniteSet(At(t, g)) /\ Cardinality(At(t, g)) \in Nat
<1>1. IsFiniteSet(Addrs) /\ IsFiniteSet(Procs)
  BY CowAssumption, FS_Interval DEF Addrs, Procs
<1>2. IsFiniteSet(Procs \X Addrs)
  BY <1>1, FS_Product
<1>3. \A g : Mappers(g) \subseteq Procs \X Addrs
  BY DEF Mappers
<1>4. \A t, g : At(t, g) \subseteq Addrs
  BY DEF At
<1>5. \A g : IsFiniteSet(Mappers(g)) /\ Cardinality(Mappers(g)) \in Nat
  BY <1>2, <1>3, FS_Subset, FS_CardinalityType
<1>6. \A t, g : IsFiniteSet(At(t, g)) /\ Cardinality(At(t, g)) \in Nat
  BY <1>1, <1>4, FS_Subset, FS_CardinalityType
<1> QED
  BY <1>1, <1>2, <1>5, <1>6

(* A row of mappings, those of one process, counts as its addresses.       *)
LEMMA RowCount ==
  ASSUME NEW p, NEW S, IsFiniteSet(S)
  PROVE  IsFiniteSet({p} \X S) /\ Cardinality({p} \X S) = Cardinality(S)
<1>1. IsFiniteSet({p}) /\ Cardinality({p}) = 1
  BY FS_Singleton
<1>2. Cardinality(S) \in Nat
  BY FS_CardinalityType
<1>3. IsFiniteSet({p} \X S) /\ Cardinality({p} \X S) = Cardinality({p}) * Cardinality(S)
  BY <1>1, FS_Product
<1> QED
  BY <1>1, <1>2, <1>3

(* A free page is mapped nowhere.                                          *)
LEMMA FreeUnmapped ==
  ASSUME RefExact, NEW g \in Pages, ref[g] = 0
  PROVE  Mappers(g) = {} /\ \A q \in Procs, u \in Addrs : pgtbl[q][u].pg # g
<1>1. Mappers(g) = {}
  BY FiniteMappers, FS_EmptySet DEF RefExact
<1>2. ASSUME NEW q \in Procs, NEW u \in Addrs, pgtbl[q][u].pg = g PROVE FALSE
  <2>1. <<q, u>> \in Mappers(g)
    BY <1>2 DEF Mappers
  <2> QED
    BY <1>1, <2>1
<1> QED
  BY <1>1, <1>2

(* A page with count one has one mapping.                                  *)
LEMMA CountOne ==
  ASSUME RefExact, NEW g \in Pages, ref[g] = 1,
         NEW p \in Procs, NEW u \in Addrs, pgtbl[p][u].pg = g,
         NEW q \in Procs, NEW v \in Addrs, pgtbl[q][v].pg = g
  PROVE  p = q /\ u = v
<1>1. PICK x : Mappers(g) = {x}
  BY Zenon, FiniteMappers, FS_Singleton DEF RefExact
<1>2. <<p, u>> \in Mappers(g) /\ <<q, v>> \in Mappers(g)
  BY DEF Mappers
<1> QED
  BY <1>1, <1>2

(* A page that is writable somewhere has count one.                        *)
LEMMA PrivateCount ==
  ASSUME RefExact, WritableIsPrivate, NEW p \in Procs, NEW v \in Addrs,
         pgtbl[p][v].w, pgtbl[p][v].pg \in Pages
  PROVE  ref[pgtbl[p][v].pg] = 1
<1> DEFINE g == pgtbl[p][v].pg
<1>1. Mappers(g) = {<<p, v>>}
  BY DEF WritableIsPrivate, Mappers
<1> QED
  BY Zenon, <1>1, FS_Singleton DEF RefExact

(* The counts after the mappings of process p are dropped.                 *)
LEMMA Without ==
  ASSUME RefExact, NEW p \in Procs, NEW g \in Pages
  PROVE  LET M == Mappers(g) \ ({p} \X At(pgtbl[p], g))
         IN  /\ ref[g] >= Cardinality(At(pgtbl[p], g))
             /\ IsFiniteSet(M)
             /\ Cardinality(M) = ref[g] - Cardinality(At(pgtbl[p], g))
<1> DEFINE R == {p} \X At(pgtbl[p], g)
           M == Mappers(g) \ R
<1>1. IsFiniteSet(Mappers(g)) /\ IsFiniteSet(R) /\ Cardinality(R) = Cardinality(At(pgtbl[p], g))
  BY Zenon, FiniteMappers, RowCount
<1>2. R \subseteq Mappers(g)
  BY DEF At, Mappers
<1> HIDE DEF R
<1>3. IsFiniteSet(M) /\ Cardinality(M) = Cardinality(Mappers(g)) - Cardinality(Mappers(g) \cap R)
  BY Zenon, <1>1, FS_Difference
<1>4. Mappers(g) \cap R = R
  BY <1>2
<1>5. Cardinality(R) <= Cardinality(Mappers(g))
  BY <1>1, <1>2, FS_Subset
<1>6. ref[g] = Cardinality(Mappers(g))
  BY DEF RefExact
<1>7. Cardinality(Mappers(g)) \in Nat /\ Cardinality(R) \in Nat
  BY <1>1, FS_CardinalityType
<1> QED
  BY Zenon, <1>1, <1>3, <1>4, <1>5, <1>6, <1>7 DEF R

-----------------------------------------------------------------------------
(* Steps that move no mapping.                                             *)
LEMMA SameMapping ==
  ASSUME RefExact, UNCHANGED <<ref, free>>,
         \A p \in Procs, v \in Addrs : pgtbl'[p][v].pg = pgtbl[p][v].pg
  PROVE  RefExact'
<1>1. \A g : Mappers(g)' = Mappers(g)
  BY DEF Mappers
<1> QED
  BY <1>1 DEF RefExact

LEMMA HaltInv == ASSUME NEW iso \in BOOLEAN, IInv(iso), Halt PROVE IInv(iso)'
<1>1. RefExact'
  BY SameMapping DEF IInv, Halt
<1> QED
  BY <1>1 DEF IInv, Halt, TypeOK, Tidy, TablesAgree, WritableIsPrivate, CachedWritesSafe, Isolated, Present

LEMMA EmptyTlb ==
  /\ NoTable \in [Addrs -> PTE] /\ Present(NoTable)
  /\ \A v \in Addrs : NoTable[v].w = FALSE /\ NoTable[v].pg = NoPage
BY DEF NoTable, Absent, PTE, Present

LEMMA SwitchInv == ASSUME NEW iso \in BOOLEAN, IInv(iso), NEW p \in Procs, Switch(p) PROVE IInv(iso)'
<1>1. RefExact'
  BY SameMapping DEF IInv, Switch
<1>2. TypeOK'
  BY EmptyTlb DEF IInv, Switch, TypeOK
<1>3. Tidy' /\ CachedWritesSafe'
  BY EmptyTlb DEF IInv, Switch, Tidy, CachedWritesSafe
<1> QED
  BY <1>1, <1>2, <1>3 DEF IInv, Switch, TablesAgree, WritableIsPrivate, Isolated

LEMMA ExitZombieInv == ASSUME NEW iso \in BOOLEAN, IInv(iso), NEW p \in Procs, ExitZombie(p) PROVE IInv(iso)'
<1>1. RefExact'
  BY SameMapping DEF IInv, ExitZombie
<1>2. TypeOK'
  BY EmptyTlb DEF IInv, ExitZombie, TypeOK
<1>3. CachedWritesSafe'
  BY EmptyTlb DEF ExitZombie, CachedWritesSafe
<1>4. \A q \in Procs : state'[q] = "CLOSE" => state[q] = "CLOSE"
  BY DEF IInv, ExitZombie, TypeOK
<1>5. Tidy'
  BY <1>4, EmptyTlb DEF IInv, ExitZombie, Tidy
<1> QED
  BY <1>1, <1>2, <1>3, <1>5 DEF IInv, ExitZombie, TablesAgree, WritableIsPrivate, Isolated

LEMMA TlbFillInv == ASSUME NEW iso \in BOOLEAN, IInv(iso), NEW p \in Procs, NEW v \in Addrs, TlbFill(p, v) PROVE IInv(iso)'
<1>1. RefExact'
  BY SameMapping DEF IInv, TlbFill
<1>2. TypeOK'
  BY DEF IInv, TlbFill, TypeOK
<1>3. CachedWritesSafe'
  <2>1. ASSUME NEW u \in Addrs, tlb'[u].w PROVE curproc' # IDLE /\ tlb'[u] = pgtbl'[curproc'][u]
    <3>1. CASE u = v
      BY <3>1 DEF IInv, TlbFill, TypeOK, Runs, Procs, IDLE
    <3>2. CASE u # v
      BY <2>1, <3>2 DEF IInv, TlbFill, TypeOK, CachedWritesSafe
    <3> QED
      BY <3>1, <3>2
  <2> QED
    BY <2>1 DEF CachedWritesSafe
<1>4. Present(tlb')
  BY DEF IInv, TlbFill, TypeOK, Tidy, Present
<1>5. Tidy'
  BY <1>4 DEF IInv, TlbFill, Tidy
<1> QED
  BY <1>1, <1>2, <1>3, <1>5 DEF IInv, TlbFill, TablesAgree, WritableIsPrivate, Isolated

(* A step that writes x into page g, mapped by p at v and by nobody else   *)
(* that matters, and changes no table.                                     *)
LEMMA WriteInv ==
  ASSUME NEW iso \in BOOLEAN, IInv(iso), NEW p \in Procs, NEW v \in Addrs, NEW x \in Vals, NEW g \in Pages,
         data' = [data EXCEPT ![g] = x],
         view' = [view EXCEPT ![p][v] = x],
         UNCHANGED <<curproc, state, pgtbl, p_pgtbl, end_umem, ref, free, tlb, halted>>,
         iso => pgtbl[p][v].w /\ pgtbl[p][v].pg = g
  PROVE  IInv(iso)'
<1>1. RefExact'
  BY SameMapping DEF IInv
<1>2. TypeOK'
  BY DEF IInv, TypeOK
<1>3. iso => Isolated'
  <2> SUFFICES ASSUME iso, NEW q \in Procs, NEW u \in Addrs, pgtbl[q][u].pg # NoPage
               PROVE  data'[pgtbl[q][u].pg] = view'[q][u]
    BY DEF Isolated
  <2>1. pgtbl[q][u].pg \in Pages
    BY DEF IInv, TypeOK, PTE
  <2>2. CASE q = p /\ u = v
    BY <2>1, <2>2 DEF IInv, TypeOK
  <2>3. CASE ~(q = p /\ u = v)
    <3>1. pgtbl[q][u].pg # g
      BY <2>3 DEF IInv, WritableIsPrivate
    <3>2. view'[q][u] = view[q][u]
      BY <2>3 DEF IInv, TypeOK
    <3>3. data'[pgtbl[q][u].pg] = data[pgtbl[q][u].pg]
      BY <2>1, <3>1 DEF IInv, TypeOK
    <3> QED
      BY <3>2, <3>3 DEF IInv, Isolated
  <2> QED
    BY <2>2, <2>3
<1> QED
  BY <1>1, <1>2, <1>3 DEF IInv, Tidy, TablesAgree, WritableIsPrivate, CachedWritesSafe, Present

LEMMA StoreInv ==
  ASSUME NEW iso \in BOOLEAN, IInv(iso), NEW p \in Procs, NEW v \in Addrs, NEW x \in Vals, Store(p, v, x)
  PROVE  IInv(iso)'
<1>1. Walk(p, v) = pgtbl[p][v] /\ pgtbl[p][v].w
  BY DEF IInv, Store, Walk, Runs, CachedWritesSafe, Tidy, Present
<1>2. pgtbl[p][v].pg \in Pages
  BY <1>1 DEF IInv, Tidy, Present, TypeOK, PTE
<1> QED
  BY Zenon, <1>1, <1>2, WriteInv DEF Store

LEMMA DirectWriteInv ==
  ASSUME NEW iso \in BOOLEAN, IInv(iso), NEW p \in Procs, NEW v \in Addrs, NEW x \in Vals, DirectWrite(p, v, x), ~iso
  PROVE  IInv(iso)'
<1>1. pgtbl[p][v].pg \in Pages
  BY DEF IInv, DirectWrite, Tidy, Present, TypeOK, PTE, TablesAgree
<1> QED
  BY Zenon, <1>1, WriteInv DEF DirectWrite

-----------------------------------------------------------------------------
(***************************************************************************)
(* A private copy: p gets a free page at v, where it mapped a shared one.  *)
(***************************************************************************)
LEMMA OwnPageInv ==
  ASSUME NEW iso \in BOOLEAN, IInv(iso), NEW p \in Procs, NEW v \in Addrs, NEW x \in Vals,
         p_pgtbl[p][v].w, ~pgtbl[p][v].w, OwnPage(p, v, x),
         state[p] # "CLOSE",
         UNCHANGED <<curproc, state, end_umem, halted>>,
         tlb' \in [Addrs -> PTE], Present(tlb'),
         \A u \in Addrs : tlb'[u].w => tlb'[u] = tlb[u],
         view' \in [Procs -> [Addrs -> Vals]],
         \A q \in Procs, u \in Addrs : ~(q = p /\ u = v) => view'[q][u] = view[q][u],
         iso => view'[p][v] = x
  PROVE  IInv(iso)'
<1> DEFINE old == pgtbl[p][v].pg
           E(g) == [pg |-> g, w |-> TRUE]
<1>1. PICK g \in free :
        /\ pgtbl' = [pgtbl EXCEPT ![p][v] = E(g)]
        /\ p_pgtbl' = [p_pgtbl EXCEPT ![p][v] = E(g)]
        /\ ref' = [ref EXCEPT ![old] = ref[old] - 1, ![g] = 1]
        /\ free' = free \ {g}
        /\ data' = [data EXCEPT ![g] = x]
  BY Zenon DEF OwnPage
<1>2. old \in Pages /\ g \in Pages
  BY DEF IInv, Tidy, Present, TypeOK, PTE, TablesAgree
<1>3. ref[g] = 0 /\ Mappers(g) = {} /\ \A q \in Procs, u \in Addrs : pgtbl[q][u].pg # g
  BY <1>2, FreeUnmapped DEF IInv, RefExact
<1>4. old # g
  BY <1>3
<1>5. E(g) \in PTE /\ E(g).pg = g /\ E(g).w
  BY <1>2 DEF PTE
<1> HIDE DEF E
<1>6. /\ pgtbl'[p][v] = E(g) /\ p_pgtbl'[p][v] = E(g)
      /\ \A q \in Procs, u \in Addrs : ~(q = p /\ u = v) =>
           pgtbl'[q][u] = pgtbl[q][u] /\ p_pgtbl'[q][u] = p_pgtbl[q][u]
  BY <1>1 DEF IInv, TypeOK
<1>7. <<p, v>> \in Mappers(old)
  BY DEF Mappers
<1>8. ref[old] \in Nat /\ ref[old] > 0 /\ IsFiniteSet(Mappers(old))
      /\ Cardinality(Mappers(old) \ {<<p, v>>}) = ref[old] - 1
  <2>1. IsFiniteSet(Mappers(old)) /\ ref[old] = Cardinality(Mappers(old))
    BY <1>2, FiniteMappers DEF IInv, RefExact
  <2>2. Mappers(old) # {}
    BY <1>7
  <2>3. ref[old] \in Nat /\ ref[old] # 0
    <3>1. Cardinality(Mappers(old)) \in Nat
      BY <2>1, FS_CardinalityType
    <3>2. Cardinality(Mappers(old)) # 0
      BY <2>1, <2>2, FS_EmptySet
    <3> QED
      BY <2>1, <3>1, <3>2
  <2> HIDE DEF old
  <2>4. Cardinality(Mappers(old) \ {<<p, v>>}) = Cardinality(Mappers(old)) - 1
    BY Zenon, <1>7, <2>1, FS_RemoveElement
  <2> QED
    BY <2>1, <2>3, <2>4
<1>9. TypeOK'
  <2>1. pgtbl' \in [Procs -> [Addrs -> PTE]] /\ p_pgtbl' \in [Procs -> [Addrs -> PTE]]
    BY <1>1, <1>5 DEF IInv, TypeOK
  <2>2. ref' \in [Pages -> Nat]
    <3> DEFINE r == ref[old] - 1
    <3>1. r \in Nat
      BY <1>8
    <3> HIDE DEF r, old
    <3> QED
      BY Zenon, <1>1, <1>2, <3>1 DEF IInv, TypeOK, r
  <2>3. data' \in [Pages -> Vals] /\ free' \subseteq Pages
    BY <1>1 DEF IInv, TypeOK
  <2> QED
    BY <2>1, <2>2, <2>3 DEF IInv, TypeOK
<1>10. RefExact'
  <2> SUFFICES ASSUME NEW h \in Pages
               PROVE  ref'[h] = Cardinality(Mappers(h)') /\ (h \in free' => ref'[h] = 0)
    BY DEF RefExact
  <2>1. CASE h = g
    <3>1. Mappers(h)' = {<<p, v>>}
      BY <1>3, <1>5, <1>6, <2>1 DEF Mappers
    <3>2. ref'[h] = 1 /\ h \notin free'
      BY <1>1, <1>2, <2>1 DEF IInv, TypeOK
    <3> QED
      BY Zenon, <3>1, <3>2, FS_Singleton
  <2>2. CASE h = old
    <3>1. Mappers(h)' = Mappers(h) \ {<<p, v>>}
      BY <1>4, <1>5, <1>6, <2>2 DEF Mappers
    <3>2. ref'[h] = ref[old] - 1
      BY <1>1, <1>2, <1>4, <2>2 DEF IInv, TypeOK
    <3>3. h \notin free
      BY <1>8, <2>2 DEF IInv, RefExact
    <3> QED
      BY <1>1, <1>8, <2>2, <3>1, <3>2, <3>3
  <2>3. CASE h # g /\ h # old
    <3>1. Mappers(h)' = Mappers(h)
      <4>1. ASSUME NEW q \in Procs, NEW u \in Addrs
            PROVE  pgtbl'[q][u].pg = h <=> pgtbl[q][u].pg = h
        <5>1. CASE q = p /\ u = v
          BY <1>5, <1>6, <2>3, <5>1
        <5>2. CASE ~(q = p /\ u = v)
          BY Zenon, <1>6, <5>2
        <5> QED
          BY Zenon, <5>1, <5>2
      <4> QED
        BY <4>1 DEF Mappers
    <3>2. ref'[h] = ref[h]
      BY <1>1, <2>3 DEF IInv, TypeOK
    <3> QED
      BY <1>1, <2>3, <3>1, <3>2 DEF IInv, RefExact
  <2> QED
    BY <2>1, <2>2, <2>3
<1>11. TablesAgree'
  <2> SUFFICES ASSUME NEW q \in Procs, NEW u \in Addrs
               PROVE  pgtbl'[q][u].pg = p_pgtbl'[q][u].pg /\ (pgtbl'[q][u].w => p_pgtbl'[q][u].w)
    BY DEF TablesAgree
  <2>1. CASE q = p /\ u = v
    BY <1>6, <2>1
  <2>2. CASE ~(q = p /\ u = v)
    BY <1>6, <2>2 DEF IInv, TablesAgree
  <2> QED
    BY <2>1, <2>2
<1>12. WritableIsPrivate'
  <2> SUFFICES ASSUME NEW q \in Procs, NEW r \in Procs, NEW u \in Addrs, NEW t \in Addrs,
                      pgtbl'[q][u].w, pgtbl'[r][t].pg = pgtbl'[q][u].pg
               PROVE  q = r /\ u = t
    BY DEF WritableIsPrivate
  <2>1. CASE (q = p /\ u = v) \/ (r = p /\ t = v)
    BY <1>3, <1>5, <1>6, <2>1
  <2>2. CASE ~(q = p /\ u = v) /\ ~(r = p /\ t = v)
    <3>1. pgtbl'[q][u] = pgtbl[q][u] /\ pgtbl'[r][t] = pgtbl[r][t]
      BY <1>6, <2>2
    <3>2. pgtbl[q][u].w /\ pgtbl[r][t].pg = pgtbl[q][u].pg
      BY <3>1
    <3> QED
      BY <3>2, Zenon DEF IInv, WritableIsPrivate
  <2> QED
    BY <2>1, <2>2
<1>13. Tidy'
  <2>1. \A q \in Procs : Present(pgtbl'[q]) /\ Present(p_pgtbl'[q])
    <3> SUFFICES ASSUME NEW q \in Procs, NEW u \in Addrs
                 PROVE  /\ pgtbl'[q][u].w => pgtbl'[q][u].pg # NoPage
                        /\ p_pgtbl'[q][u].w => p_pgtbl'[q][u].pg # NoPage
      BY DEF Present
    <3>1. CASE q = p /\ u = v
      BY <1>2, <1>5, <1>6, <3>1, CowAssumption
    <3>2. CASE ~(q = p /\ u = v)
      BY <1>6, <3>2 DEF IInv, Tidy, Present
    <3> QED
      BY <3>1, <3>2
  <2>2. old # NoPage
    BY <1>2, CowAssumption
  <2>3. \A q \in Procs, u \in Addrs : pgtbl'[q][u].pg # NoPage => u < end_umem'[q]
    BY <1>6, <2>2 DEF IInv, Tidy
  <2>4. \A q \in Procs : state'[q] = "CLOSE" => pgtbl'[q] = pgtbl[q] /\ p_pgtbl'[q] = p_pgtbl[q]
    BY <1>1 DEF IInv, TypeOK
  <2> QED
    BY <2>1, <2>3, <2>4 DEF IInv, Tidy
<1>14. CachedWritesSafe'
  <2> SUFFICES ASSUME NEW u \in Addrs, tlb'[u].w
               PROVE  curproc # IDLE /\ tlb'[u] = pgtbl'[curproc][u]
    BY DEF CachedWritesSafe
  <2>1. tlb[u].w /\ curproc # IDLE /\ tlb'[u] = pgtbl[curproc][u] /\ pgtbl[curproc][u].w
    BY DEF IInv, CachedWritesSafe
  <2>2. curproc \in Procs /\ ~(curproc = p /\ u = v)
    BY <2>1 DEF IInv, TypeOK
  <2> QED
    BY <1>6, <2>1, <2>2
<1>15. iso => Isolated'
  <2> SUFFICES ASSUME iso, NEW q \in Procs, NEW u \in Addrs, pgtbl'[q][u].pg # NoPage
               PROVE  data'[pgtbl'[q][u].pg] = view'[q][u]
    BY DEF Isolated
  <2>1. CASE q = p /\ u = v
    BY <1>1, <1>2, <1>5, <1>6, <2>1 DEF IInv, TypeOK
  <2>2. CASE ~(q = p /\ u = v)
    <3>1. pgtbl'[q][u] = pgtbl[q][u] /\ pgtbl[q][u].pg # g
      BY <1>3, <1>6, <2>2
    <3>2. data'[pgtbl[q][u].pg] = data[pgtbl[q][u].pg]
      BY <1>1, <3>1 DEF IInv, TypeOK, PTE
    <3> QED
      BY <2>2, <3>1, <3>2 DEF IInv, Isolated
  <2> QED
    BY <2>1, <2>2
<1> QED
  BY <1>9, <1>10, <1>11, <1>12, <1>13, <1>14, <1>15 DEF IInv

LEMMA PageFaultInv ==
  ASSUME NEW iso \in BOOLEAN, IInv(iso), NEW p \in Procs, NEW v \in Addrs, PageFault(p, v)
  PROVE  IInv(iso)'
<1> DEFINE old == pgtbl[p][v].pg
<1>0. /\ p_pgtbl[p][v].w /\ ~Walk(p, v).w /\ state[p] = "LIVE" /\ old \in Pages
  BY DEF PageFault, Runs, IInv, Tidy, Present, TypeOK, PTE, TablesAgree
<1>1. CASE /\ ref[old] = 1
           /\ pgtbl' = [pgtbl EXCEPT ![p][v].w = TRUE]
           /\ tlb' = Reload(tlb)
           /\ UNCHANGED <<curproc, state, p_pgtbl, end_umem, ref, free, data, view, halted>>
  <2>1. /\ pgtbl'[p][v].pg = old /\ pgtbl'[p][v].w /\ pgtbl' \in [Procs -> [Addrs -> PTE]]
        /\ \A q \in Procs, u \in Addrs : ~(q = p /\ u = v) => pgtbl'[q][u] = pgtbl[q][u]
    <3> DEFINE e == [pgtbl[p][v] EXCEPT !.w = TRUE]
    <3>1. pgtbl[p][v] \in PTE
      BY DEF IInv, TypeOK
    <3>2. e \in PTE /\ e.pg = old /\ e.w
      BY Zenon, <3>1 DEF PTE
    <3>3. pgtbl' = [pgtbl EXCEPT ![p][v] = e]
      BY <1>1 DEF IInv, TypeOK
    <3> HIDE DEF e
    <3> QED
      BY <3>2, <3>3 DEF IInv, TypeOK
  <2>2. RefExact'
    BY <1>1, <2>1, SameMapping DEF IInv
  <2>3. TypeOK'
    BY <1>1, <2>1, EmptyTlb DEF IInv, TypeOK, Reload
  <2>4. TablesAgree'
    BY <1>0, <1>1, <2>1 DEF IInv, TablesAgree
  <2>5. CachedWritesSafe'
    BY <1>1, EmptyTlb DEF CachedWritesSafe, Reload
  <2>6. WritableIsPrivate'
    <3>1. \A q \in Procs, u \in Addrs : pgtbl[q][u].pg = old => q = p /\ u = v
      BY <1>0, <1>1, CountOne DEF IInv
    <3> QED
      BY <2>1, <3>1 DEF IInv, WritableIsPrivate
  <2>7. Tidy'
    <3>1. old # NoPage
      BY <1>0, CowAssumption
    <3>2. \A q \in Procs : Present(pgtbl'[q])
      BY <2>1, <3>1 DEF IInv, Tidy, Present
    <3>3. \A q \in Procs : state'[q] = "CLOSE" => pgtbl'[q] = pgtbl[q]
      BY <1>0, <1>1 DEF IInv, TypeOK
    <3>4. \A q \in Procs, u \in Addrs : pgtbl'[q][u].pg # NoPage => u < end_umem'[q]
      BY <1>1, <2>1 DEF IInv, Tidy
    <3> QED
      BY Zenon, <1>1, <3>2, <3>3, <3>4, EmptyTlb DEF IInv, Tidy, Reload
  <2>8. iso => Isolated'
    BY <1>1, <2>1 DEF IInv, Isolated
  <2> QED
    BY <2>2, <2>3, <2>4, <2>5, <2>6, <2>7, <2>8 DEF IInv
<1>2. CASE /\ ref[old] # 1
           /\ CanAlloc(1)
           /\ OwnPage(p, v, data[old])
           /\ tlb' = Reload(tlb)
           /\ UNCHANGED <<curproc, state, end_umem, view, halted>>
  <2>1. ~pgtbl[p][v].w
    BY <1>0, <1>2, PrivateCount DEF IInv
  <2>2. data[old] \in Vals /\ (iso => view[p][v] = data[old])
    BY Zenon, <1>0, CowAssumption DEF IInv, TypeOK, Isolated
  <2>3. tlb' = NoTable
    BY <1>2 DEF Reload
  <2>4. view' = view /\ view \in [Procs -> [Addrs -> Vals]]
    BY <1>2 DEF IInv, TypeOK
  <2> QED
    BY Zenon, <1>0, <1>2, <2>1, <2>2, <2>3, <2>4, EmptyTlb, OwnPageInv
<1>3. CASE Halt
  BY <1>3, HaltInv
<1> QED
  BY <1>1, <1>2, <1>3 DEF PageFault

LEMMA U2KWriteInv ==
  ASSUME NEW iso \in BOOLEAN, IInv(iso), NEW q \in Procs, NEW v \in Addrs, NEW x \in Vals, U2KWrite(q, v, x)
  PROVE  IInv(iso)'
<1>0. state[q] = "LIVE" /\ p_pgtbl[q][v].w /\ pgtbl[q][v].pg \in Pages
  BY DEF U2KWrite, IInv, Tidy, Present, TypeOK, PTE, TablesAgree
<1>1. CASE /\ pgtbl[q][v].w
           /\ data' = [data EXCEPT ![pgtbl[q][v].pg] = x]
           /\ view' = [view EXCEPT ![q][v] = x]
           /\ UNCHANGED <<curproc, state, pgtbl, p_pgtbl, end_umem, ref, free, tlb, halted>>
  BY Zenon, <1>0, <1>1, WriteInv
<1>2. CASE /\ ~pgtbl[q][v].w
           /\ OwnPage(q, v, x)
           /\ view' = [view EXCEPT ![q][v] = x]
           /\ UNCHANGED <<curproc, state, end_umem, tlb, halted>>
  <2>1. /\ view' \in [Procs -> [Addrs -> Vals]] /\ view'[q][v] = x
        /\ \A r \in Procs, u \in Addrs : ~(r = q /\ u = v) => view'[r][u] = view[r][u]
    BY <1>2 DEF IInv, TypeOK
  <2>2. tlb' = tlb /\ tlb \in [Addrs -> PTE] /\ Present(tlb)
    BY <1>2 DEF IInv, TypeOK, Tidy
  <2> QED
    BY <1>0, <1>2, <2>1, <2>2, OwnPageInv
<1>3. CASE Halt
  BY <1>3, HaltInv
<1> QED
  BY <1>1, <1>2, <1>3 DEF U2KWrite

-----------------------------------------------------------------------------
(* fork.                                                                   *)
LEMMA ReadOnlyTable ==
  ASSUME NEW t \in [Addrs -> PTE]
  PROVE  /\ ReadOnly(t) \in [Addrs -> PTE]
         /\ \A v \in Addrs : ReadOnly(t)[v].pg = t[v].pg /\ ReadOnly(t)[v].w = FALSE
         /\ Present(ReadOnly(t))
<1>1. ASSUME NEW v \in Addrs
      PROVE  ReadOnly(t)[v] \in PTE /\ ReadOnly(t)[v].pg = t[v].pg /\ ReadOnly(t)[v].w = FALSE
  <2>1. t[v] \in PTE
    OBVIOUS
  <2>2. ReadOnly(t)[v] = [t[v] EXCEPT !.w = FALSE]
    BY DEF ReadOnly
  <2> QED
    BY Zenon, <2>1, <2>2 DEF PTE
<1>2. ReadOnly(t) = [v \in Addrs |-> ReadOnly(t)[v]]
  BY DEF ReadOnly
<1> QED
  BY Zenon, <1>1, <1>2 DEF Present

LEMMA ForkInv == ASSUME NEW iso \in BOOLEAN, IInv(iso), NEW p \in Procs, Fork(p) PROVE IInv(iso)'
<1> DEFINE tp == pgtbl[p]
           tq == p_pgtbl[p]
<1>0. /\ tp \in [Addrs -> PTE] /\ tq \in [Addrs -> PTE] /\ state[p] = "LIVE"
  BY DEF IInv, TypeOK, Fork, Runs
<1>1. PICK n \in Procs :
        /\ state[n] = "CLOSE"
        /\ state' = [state EXCEPT ![n] = "LIVE"]
        /\ pgtbl' = [pgtbl EXCEPT ![n] = ReadOnly(tq), ![p] = ReadOnly(tp)]
        /\ p_pgtbl' = [p_pgtbl EXCEPT ![n] = tq]
        /\ ref' = [g \in Pages |-> ref[g] + Counted(tq, g)]
        /\ end_umem' = [end_umem EXCEPT ![n] = end_umem[p]]
        /\ view' = [view EXCEPT ![n] = view[p]]
  <2>1. \A n \in Procs : state[n] = "CLOSE" => n # p
    BY <1>0
  <2> QED
    BY Zenon, <2>1 DEF Fork, IInv, TypeOK
<1>2. tlb' = NoTable /\ UNCHANGED <<curproc, free, data, halted>>
  BY DEF Fork, Reload
<1>3. n # p /\ pgtbl[n] = NoTable
  BY <1>0, <1>1 DEF IInv, Tidy
<1>4. /\ pgtbl'[n] = ReadOnly(tq) /\ pgtbl'[p] = ReadOnly(tp)
      /\ \A q \in Procs : q # n /\ q # p => pgtbl'[q] = pgtbl[q]
      /\ p_pgtbl'[n] = tq /\ p_pgtbl'[p] = tq
      /\ \A q \in Procs : q # n => p_pgtbl'[q] = p_pgtbl[q]
  BY <1>1, <1>3 DEF IInv, TypeOK
<1>5. \A v \in Addrs : tp[v].pg = tq[v].pg
  BY DEF IInv, TablesAgree
<1> HIDE DEF tp, tq
<1>6. /\ ReadOnly(tp) \in [Addrs -> PTE] /\ ReadOnly(tq) \in [Addrs -> PTE]
      /\ Present(ReadOnly(tp)) /\ Present(ReadOnly(tq))
      /\ \A v \in Addrs : /\ ReadOnly(tp)[v].pg = tp[v].pg /\ ReadOnly(tp)[v].w = FALSE
                          /\ ReadOnly(tq)[v].pg = tp[v].pg /\ ReadOnly(tq)[v].w = FALSE
  BY Zenon, <1>0, <1>5, ReadOnlyTable
<1>7. TypeOK'
  <2>1. pgtbl' \in [Procs -> [Addrs -> PTE]] /\ p_pgtbl' \in [Procs -> [Addrs -> PTE]]
    BY Zenon, <1>0, <1>1, <1>6 DEF IInv, TypeOK
  <2>2. ref' \in [Pages -> Nat]
    <3>1. \A g \in Pages : ref[g] \in Nat /\ Counted(tq, g) \in Nat
      BY FiniteMappers DEF IInv, TypeOK, Counted
    <3> QED
      BY <1>1, <3>1
  <2>3. /\ state' \in [Procs -> {"LIVE", "ZOMBIE", "CLOSE"}]
        /\ end_umem' \in [Procs -> Nat] /\ view' \in [Procs -> [Addrs -> Vals]]
    BY <1>1 DEF IInv, TypeOK
  <2> QED
    BY <1>2, <2>1, <2>2, <2>3, EmptyTlb DEF IInv, TypeOK
<1>8. RefExact'
  <2> SUFFICES ASSUME NEW g \in Pages
               PROVE  ref'[g] = Cardinality(Mappers(g)') /\ (g \in free' => ref'[g] = 0)
    BY DEF RefExact
  <2> DEFINE R == {n} \X At(tq, g)
  <2>1. Mappers(g)' = Mappers(g) \cup R
    <3>1. NoPage # g
      BY CowAssumption
    <3>2. \A q \in Procs, v \in Addrs :
            pgtbl'[q][v].pg = g <=> (pgtbl[q][v].pg = g \/ (q = n /\ tq[v].pg = g))
      <4> SUFFICES ASSUME NEW q \in Procs, NEW v \in Addrs
                   PROVE  pgtbl'[q][v].pg = g <=> (pgtbl[q][v].pg = g \/ (q = n /\ tq[v].pg = g))
        OBVIOUS
      <4>1. CASE q = n
        <5>1. pgtbl'[q][v].pg = tq[v].pg
          BY <1>4, <1>5, <1>6, <4>1
        <5>2. pgtbl[q][v].pg = NoPage
          BY <1>3, <4>1, EmptyTlb
        <5> QED
          BY <3>1, <4>1, <5>1, <5>2
      <4>2. CASE q = p
        <5>1. pgtbl'[q][v].pg = tp[v].pg /\ tp[v].pg = pgtbl[q][v].pg /\ q # n
          BY <1>3, <1>4, <1>6, <4>2 DEF tp
        <5> QED
          BY Zenon, <5>1
      <4>3. CASE q # n /\ q # p
        BY <1>4, <4>3
      <4> QED
        BY Zenon, <4>1, <4>2, <4>3
    <3> QED
      BY <3>2 DEF Mappers, At
  <2>2. Mappers(g) \cap R = {}
    BY <1>3, EmptyTlb, CowAssumption DEF Mappers
  <2>3. IsFiniteSet(Mappers(g)) /\ IsFiniteSet(R) /\ Cardinality(R) = Counted(tq, g)
    BY Zenon, FiniteMappers, RowCount DEF Counted
  <2> HIDE DEF R
  <2>4. Cardinality(Mappers(g)') = Cardinality(Mappers(g)) + Cardinality(R)
    <3>1. Cardinality(Mappers(g) \cup R)
            = Cardinality(Mappers(g)) + Cardinality(R) - Cardinality(Mappers(g) \cap R)
      BY <2>3, FS_Union
    <3>2. Cardinality(Mappers(g) \cap R) = 0
      BY <2>2, FS_EmptySet
    <3>3. Cardinality(Mappers(g)) \in Nat /\ Cardinality(R) \in Nat
      BY <2>3, FS_CardinalityType
    <3> QED
      BY <2>1, <3>1, <3>2, <3>3
  <2>5. ref'[g] = Cardinality(Mappers(g)')
    BY <1>1, <2>3, <2>4 DEF IInv, RefExact
  <2>6. ASSUME g \in free' PROVE ref'[g] = 0
    <3>1. ref[g] = 0
      BY <1>2, <2>6 DEF IInv, RefExact
    <3>2. \A v \in Addrs : tq[v].pg # g
      BY <1>5, <3>1, FreeUnmapped DEF IInv, tp
    <3>3. At(tq, g) = {}
      BY <3>2 DEF At
    <3>4. Counted(tq, g) = 0
      BY <3>3, FS_EmptySet DEF Counted
    <3> QED
      BY <1>1, <3>1, <3>4
  <2> QED
    BY <2>5, <2>6
<1>9. TablesAgree'
  BY <1>4, <1>5, <1>6 DEF IInv, TablesAgree, tq
<1>10. WritableIsPrivate'
  <2>1. \A q \in Procs, v \in Addrs : pgtbl'[q][v].w => q # n /\ q # p /\ pgtbl'[q][v] = pgtbl[q][v]
    BY <1>4, <1>6
  <2>2. \A q \in Procs, v \in Addrs :
          pgtbl'[q][v].pg = pgtbl[q][v].pg \/ (q = n /\ pgtbl'[q][v].pg = pgtbl[p][v].pg)
    BY <1>4, <1>6 DEF tp
  <2> QED
    BY <2>1, <2>2 DEF IInv, WritableIsPrivate
<1>11. Tidy'
  <2>1. \A q \in Procs : Present(pgtbl'[q]) /\ Present(p_pgtbl'[q])
    BY <1>4, <1>6 DEF IInv, Tidy, tq
  <2>2. \A q \in Procs : state'[q] = "CLOSE" => pgtbl'[q] = NoTable /\ p_pgtbl'[q] = NoTable
    BY <1>0, <1>1, <1>4 DEF IInv, Tidy, TypeOK
  <2>3. \A q \in Procs, v \in Addrs : pgtbl'[q][v].pg # NoPage => v < end_umem'[q]
    BY <1>1, <1>3, <1>4, <1>6 DEF IInv, Tidy, TypeOK, tp
  <2> QED
    BY <1>2, <2>1, <2>2, <2>3, EmptyTlb DEF Tidy
<1>12. CachedWritesSafe'
  BY <1>2, EmptyTlb DEF CachedWritesSafe
<1>13. iso => Isolated'
  <2> SUFFICES ASSUME iso, NEW q \in Procs, NEW v \in Addrs, pgtbl'[q][v].pg # NoPage
               PROVE  data[pgtbl'[q][v].pg] = view'[q][v]
    BY <1>2 DEF Isolated
  <2>1. CASE q = n
    <3>1. pgtbl'[q][v].pg = pgtbl[p][v].pg
      BY <1>4, <1>6, <2>1 DEF tp
    <3>2. view'[q][v] = view[p][v]
      BY <1>1, <2>1 DEF IInv, TypeOK
    <3> QED
      BY <3>1, <3>2 DEF IInv, Isolated
  <2>2. CASE q # n
    <3>1. pgtbl'[q][v].pg = pgtbl[q][v].pg
      BY <1>4, <1>6, <2>2 DEF tp
    <3>2. view'[q][v] = view[q][v]
      BY <1>1, <2>2 DEF IInv, TypeOK
    <3> QED
      BY <3>1, <3>2 DEF IInv, Isolated
  <2> QED
    BY <2>1, <2>2
<1> QED
  BY <1>7, <1>8, <1>9, <1>10, <1>11, <1>12, <1>13 DEF IInv

-----------------------------------------------------------------------------
(* The end of a process.                                                   *)
LEMMA NeverFails == ASSUME NEW iso \in BOOLEAN, IInv(iso), NEW p \in Procs PROVE ~FreeFails(p)
<1> SUFFICES ASSUME NEW g \in Pages, ref[g] < Cardinality(At(pgtbl[p], g)) PROVE FALSE
  BY DEF FreeFails
<1>1. ref[g] >= Cardinality(At(pgtbl[p], g))
  BY Zenon, Without DEF IInv
<1>2. ref[g] \in Nat /\ Cardinality(At(pgtbl[p], g)) \in Nat
  BY FiniteMappers DEF IInv, TypeOK
<1> QED
  BY <1>1, <1>2

(* What is left of the counts and the free list without process p.         *)
LEMMA WithoutExact ==
  ASSUME NEW iso \in BOOLEAN, IInv(iso), NEW p \in Procs
  PROVE  /\ RefsWithout(p) \in [Pages -> Nat]
         /\ FreeWithout(p) \subseteq Pages
         /\ \A g \in FreeWithout(p) : RefsWithout(p)[g] = 0
         /\ \A g \in Pages : LET M == Mappers(g) \ ({p} \X At(pgtbl[p], g))
                             IN  IsFiniteSet(M) /\ Cardinality(M) = RefsWithout(p)[g]
         /\ \A g \in FreeWithout(p), q \in Procs, u \in Addrs : q # p => pgtbl[q][u].pg # g
<1> DEFINE M(g) == Mappers(g) \ ({p} \X At(pgtbl[p], g))
<1>1. ASSUME NEW g \in Pages
      PROVE  /\ RefsWithout(p)[g] = ref[g] - Cardinality(At(pgtbl[p], g))
             /\ RefsWithout(p)[g] \in Nat
             /\ IsFiniteSet(M(g)) /\ Cardinality(M(g)) = RefsWithout(p)[g]
  <2>1. /\ ref[g] >= Cardinality(At(pgtbl[p], g)) /\ IsFiniteSet(M(g))
        /\ Cardinality(M(g)) = ref[g] - Cardinality(At(pgtbl[p], g))
    BY Without DEF IInv
  <2>2. ref[g] \in Nat /\ Cardinality(At(pgtbl[p], g)) \in Nat
    BY FiniteMappers DEF IInv, TypeOK
  <2>3. RefsWithout(p)[g] = ref[g] - Cardinality(At(pgtbl[p], g))
    BY DEF RefsWithout
  <2> HIDE DEF M
  <2> QED
    BY <2>1, <2>2, <2>3
<1>2. RefsWithout(p) \in [Pages -> Nat]
  BY Zenon, <1>1 DEF RefsWithout
<1>3. FreeWithout(p) \subseteq Pages
  BY DEF FreeWithout, IInv, TypeOK
<1>4. ASSUME NEW g \in FreeWithout(p) PROVE RefsWithout(p)[g] = 0
  <2>1. CASE g \in free
    <3>1. g \in Pages /\ ref[g] = 0
      BY <2>1 DEF IInv, TypeOK, RefExact
    <3>2. At(pgtbl[p], g) = {}
      BY <3>1, FreeUnmapped DEF IInv, At
    <3>3. Cardinality(At(pgtbl[p], g)) = 0
      BY <3>2, FS_EmptySet
    <3>4. RefsWithout(p)[g] = ref[g] - Cardinality(At(pgtbl[p], g))
      BY <3>1 DEF RefsWithout
    <3> QED
      BY <3>1, <3>3, <3>4
  <2>2. CASE g \notin free
    BY <2>2 DEF FreeWithout
  <2> QED
    BY <2>1, <2>2
<1>5. ASSUME NEW g \in FreeWithout(p), NEW q \in Procs, NEW u \in Addrs, q # p, pgtbl[q][u].pg = g
      PROVE  FALSE
  <2>1. <<q, u>> \in M(g)
    BY <1>5 DEF Mappers
  <2>2. M(g) = {}
    BY Zenon, <1>1, <1>3, <1>4, FS_EmptySet
  <2> QED
    BY <2>1, <2>2
<1> HIDE DEF M
<1> QED
  BY <1>1, <1>2, <1>3, <1>4, <1>5 DEF M

LEMMA ClearProcInv ==
  ASSUME NEW iso \in BOOLEAN, IInv(iso), NEW z \in Procs, NEW next \in Procs \cup {IDLE}, NEW cache,
         ClearProc(z, next, cache),
         \/ next = IDLE /\ cache = NoTable
         \/ next = curproc /\ cache = tlb /\ next # z
  PROVE  IInv(iso)'
<1>1. /\ state' = [state EXCEPT ![z] = "CLOSE"]
      /\ pgtbl' = [pgtbl EXCEPT ![z] = NoTable]
      /\ p_pgtbl' = [p_pgtbl EXCEPT ![z] = NoTable]
      /\ end_umem' = [end_umem EXCEPT ![z] = 0]
      /\ ref' = RefsWithout(z)
      /\ free' = FreeWithout(z)
      /\ view' = [view EXCEPT ![z] = Fresh]
      /\ curproc' = next /\ tlb' = cache
      /\ UNCHANGED <<data, halted>>
  BY NeverFails DEF ClearProc
<1>2. /\ pgtbl'[z] = NoTable /\ p_pgtbl'[z] = NoTable
      /\ \A q \in Procs : q # z => pgtbl'[q] = pgtbl[q] /\ p_pgtbl'[q] = p_pgtbl[q]
  BY <1>1 DEF IInv, TypeOK
<1>3. cache \in [Addrs -> PTE] /\ Present(cache)
  BY EmptyTlb DEF IInv, TypeOK, Tidy
<1>4. TypeOK'
  <2>1. pgtbl' \in [Procs -> [Addrs -> PTE]] /\ p_pgtbl' \in [Procs -> [Addrs -> PTE]]
    BY <1>1, EmptyTlb DEF IInv, TypeOK
  <2>2. view' \in [Procs -> [Addrs -> Vals]]
    BY <1>1, CowAssumption DEF IInv, TypeOK, Fresh
  <2>3. state' \in [Procs -> {"LIVE", "ZOMBIE", "CLOSE"}] /\ end_umem' \in [Procs -> Nat]
    BY <1>1 DEF IInv, TypeOK
  <2> QED
    BY Zenon, <1>1, <1>3, <2>1, <2>2, <2>3, WithoutExact DEF IInv, TypeOK
<1>5. RefExact'
  <2> SUFFICES ASSUME NEW g \in Pages
               PROVE  ref'[g] = Cardinality(Mappers(g)') /\ (g \in free' => ref'[g] = 0)
    BY DEF RefExact
  <2>1. Mappers(g)' = Mappers(g) \ ({z} \X At(pgtbl[z], g))
    <3>1. g # NoPage
      BY CowAssumption
    <3>2. \A q \in Procs, u \in Addrs : pgtbl'[q][u].pg = g <=> pgtbl[q][u].pg = g /\ q # z
      BY <1>2, <3>1, EmptyTlb
    <3> QED
      BY <3>2 DEF Mappers, At
  <2> QED
    BY Zenon, <1>1, <2>1, WithoutExact
<1>6. TablesAgree'
  BY <1>2, EmptyTlb DEF IInv, TablesAgree
<1>7. WritableIsPrivate'
  <2> SUFFICES ASSUME NEW p \in Procs, NEW q \in Procs, NEW u \in Addrs, NEW v \in Addrs,
                      pgtbl'[p][u].w, pgtbl'[q][v].pg = pgtbl'[p][u].pg
               PROVE  p = q /\ u = v
    BY DEF WritableIsPrivate
  <2>1. p # z /\ pgtbl[p][u].w /\ pgtbl[p][u].pg # NoPage
    BY <1>2, EmptyTlb DEF IInv, Tidy, Present
  <2>2. q # z
    BY <1>2, <2>1, EmptyTlb
  <2> QED
    BY <1>2, <2>1, <2>2 DEF IInv, WritableIsPrivate
<1>8. Tidy'
  <2>1. \A q \in Procs : Present(pgtbl'[q]) /\ Present(p_pgtbl'[q])
    BY <1>2, EmptyTlb DEF IInv, Tidy
  <2>2. \A q \in Procs : state'[q] = "CLOSE" => pgtbl'[q] = NoTable /\ p_pgtbl'[q] = NoTable
    BY <1>1, <1>2 DEF IInv, Tidy, TypeOK
  <2>3. \A q \in Procs, v \in Addrs : pgtbl'[q][v].pg # NoPage => v < end_umem'[q]
    BY <1>1, <1>2, EmptyTlb DEF IInv, Tidy, TypeOK
  <2> QED
    BY Zenon, <1>1, <1>3, <2>1, <2>2, <2>3 DEF Tidy
<1>9. CachedWritesSafe'
  BY <1>1, <1>2, EmptyTlb DEF IInv, CachedWritesSafe, TypeOK
<1>10. iso => Isolated'
  <2> SUFFICES ASSUME iso, NEW q \in Procs, NEW v \in Addrs, pgtbl'[q][v].pg # NoPage
               PROVE  data[pgtbl'[q][v].pg] = view'[q][v]
    BY <1>1 DEF Isolated
  <2>1. q # z
    BY <1>2, EmptyTlb
  <2>2. view'[q][v] = view[q][v] /\ pgtbl'[q][v] = pgtbl[q][v]
    BY <1>1, <1>2, <2>1 DEF IInv, TypeOK
  <2> QED
    BY <2>2 DEF IInv, Isolated
<1> QED
  BY <1>4, <1>5, <1>6, <1>7, <1>8, <1>9, <1>10 DEF IInv

-----------------------------------------------------------------------------
(***************************************************************************)
(* New pages f[v], filled with x, for the addresses A of process p, whose  *)
(* tables tb and tq map nothing there.  Sbrk keeps the old tables, exec    *)
(* starts from empty ones; BM holds the other mappings of each page.       *)
(***************************************************************************)
LEMMA MapNewTable ==
  ASSUME NEW A \in SUBSET Addrs, NEW f \in [A -> Pages], NEW t \in [Addrs -> PTE], Present(t)
  PROVE  /\ MapNew(A, f, t) \in [Addrs -> PTE]
         /\ Present(MapNew(A, f, t))
         /\ \A v \in A : MapNew(A, f, t)[v].pg = f[v] /\ MapNew(A, f, t)[v].w
         /\ \A v \in Addrs \ A : MapNew(A, f, t)[v] = t[v]
<1>1. ASSUME NEW v \in A
      PROVE  /\ MapNew(A, f, t)[v] \in PTE /\ MapNew(A, f, t)[v].pg = f[v]
             /\ MapNew(A, f, t)[v].w /\ f[v] # NoPage
  BY CowAssumption DEF MapNew, PTE
<1>2. \A v \in Addrs \ A : MapNew(A, f, t)[v] = t[v]
  BY DEF MapNew
<1>3. MapNew(A, f, t) = [v \in Addrs |-> MapNew(A, f, t)[v]]
  BY DEF MapNew
<1> QED
  BY Zenon, <1>1, <1>2, <1>3 DEF Present

Remaps(iso, p, x, A, F, f, tb, tq, rb, BM, vb) ==
  /\ p \in Procs /\ state[p] # "CLOSE" /\ x \in Vals
  /\ A \in SUBSET Addrs /\ F \in SUBSET Pages /\ f \in Injective(A, F)
  /\ tb \in [Addrs -> PTE] /\ tq \in [Addrs -> PTE] /\ Present(tb) /\ Present(tq)
  /\ tb = pgtbl[p] \/ tb = NoTable
  /\ \A v \in Addrs : tb[v].pg = tq[v].pg /\ (tb[v].w => tq[v].w)
  /\ \A v \in A : tb[v].pg = NoPage
  /\ rb \in [Pages -> Nat] /\ \A g \in F : rb[g] = 0
  /\ BM \in [Pages -> SUBSET (Procs \X Addrs)]
  /\ \A g \in Pages, q \in Procs, v \in Addrs :
       <<q, v>> \in BM[g] <=> (q = p /\ tb[v].pg = g) \/ (q # p /\ pgtbl[q][v].pg = g)
  /\ \A g \in Pages : IsFiniteSet(BM[g]) /\ Cardinality(BM[g]) = rb[g]
  /\ vb \in [Addrs -> Vals]
  /\ iso => \A v \in Addrs : tb[v].pg # NoPage => data[tb[v].pg] = vb[v]
  /\ pgtbl' = [pgtbl EXCEPT ![p] = MapNew(A, f, tb)]
  /\ p_pgtbl' = [p_pgtbl EXCEPT ![p] = MapNew(A, f, tq)]
  /\ ref' = [g \in Pages |-> IF \E v \in A : f[v] = g THEN 1 ELSE rb[g]]
  /\ free' = {g \in F : ~\E v \in A : f[v] = g}
  /\ data' = [g \in Pages |-> IF \E v \in A : f[v] = g THEN x ELSE data[g]]
  /\ view' = [view EXCEPT ![p] = [v \in Addrs |-> IF v \in A THEN x ELSE vb[v]]]
  /\ end_umem' \in [Procs -> Nat]
  /\ \A q \in Procs : q # p => end_umem'[q] = end_umem[q]
  /\ \A v \in Addrs : tb[v].pg # NoPage \/ v \in A => v < end_umem'[p]
  /\ UNCHANGED <<state, halted>>
  /\ \/ curproc' = curproc /\ tlb' = tlb /\ tb = pgtbl[p]
     \/ curproc' = IDLE /\ tlb' = NoTable

LEMMA MapNewInv ==
  ASSUME NEW iso \in BOOLEAN, IInv(iso), NEW p, NEW x, NEW A, NEW F, NEW f, NEW tb, NEW tq, NEW rb, NEW BM, NEW vb,
         Remaps(iso, p, x, A, F, f, tb, tq, rb, BM, vb)
  PROVE  IInv(iso)'
<1>types. /\ p \in Procs /\ x \in Vals
          /\ A \in SUBSET Addrs /\ F \in SUBSET Pages /\ f \in Injective(A, F)
          /\ tb \in [Addrs -> PTE] /\ tq \in [Addrs -> PTE]
          /\ rb \in [Pages -> Nat] /\ vb \in [Addrs -> Vals]
  BY DEF Remaps
<1>base. /\ Present(tb) /\ Present(tq)
         /\ tb = pgtbl[p] \/ tb = NoTable
         /\ \A v \in Addrs : tb[v].pg = tq[v].pg /\ (tb[v].w => tq[v].w)
         /\ \A v \in A : tb[v].pg = NoPage
  BY DEF Remaps
<1>count. /\ BM \in [Pages -> SUBSET (Procs \X Addrs)]
          /\ \A g \in Pages, q \in Procs, v \in Addrs :
               <<q, v>> \in BM[g] <=> (q = p /\ tb[v].pg = g) \/ (q # p /\ pgtbl[q][v].pg = g)
          /\ \A g \in Pages : IsFiniteSet(BM[g]) /\ Cardinality(BM[g]) = rb[g]
          /\ \A g \in F : rb[g] = 0
  BY DEF Remaps
<1>tables. /\ pgtbl' = [pgtbl EXCEPT ![p] = MapNew(A, f, tb)]
           /\ p_pgtbl' = [p_pgtbl EXCEPT ![p] = MapNew(A, f, tq)]
  BY DEF Remaps
<1>pages. /\ ref' = [g \in Pages |-> IF \E v \in A : f[v] = g THEN 1 ELSE rb[g]]
          /\ free' = {g \in F : ~\E v \in A : f[v] = g}
          /\ data' = [g \in Pages |-> IF \E v \in A : f[v] = g THEN x ELSE data[g]]
  BY DEF Remaps
<1>view. /\ view' = [view EXCEPT ![p] = [v \in Addrs |-> IF v \in A THEN x ELSE vb[v]]]
         /\ iso => \A v \in Addrs : tb[v].pg # NoPage => data[tb[v].pg] = vb[v]
  BY DEF Remaps
<1>end. /\ end_umem' \in [Procs -> Nat]
        /\ \A q \in Procs : q # p => end_umem'[q] = end_umem[q]
        /\ \A v \in Addrs : tb[v].pg # NoPage \/ v \in A => v < end_umem'[p]
  BY DEF Remaps
<1>rest. /\ state[p] # "CLOSE" /\ UNCHANGED <<state, halted>>
         /\ \/ curproc' = curproc /\ tlb' = tlb /\ tb = pgtbl[p]
            \/ curproc' = IDLE /\ tlb' = NoTable
  BY DEF Remaps
<1> DEFINE N == MapNew(A, f, tb)
           Q == MapNew(A, f, tq)
           New(g) == \E v \in A : f[v] = g
<1>1. f \in [A -> F] /\ f \in [A -> Pages] /\ \A u, v \in A : f[u] = f[v] => u = v
  BY <1>types DEF Injective
<1>2. /\ N \in [Addrs -> PTE] /\ Present(N)
      /\ \A v \in A : N[v].pg = f[v] /\ N[v].w
      /\ \A v \in Addrs \ A : N[v] = tb[v]
  <2>1. f \in [A -> Pages] /\ tb \in [Addrs -> PTE] /\ Present(tb) /\ A \in SUBSET Addrs
    BY <1>types, <1>base, <1>1
  <2> QED
    BY ONLY <2>1, MapNewTable, ZenonT(30)
<1>3. /\ Q \in [Addrs -> PTE] /\ Present(Q)
      /\ \A v \in A : Q[v].pg = f[v] /\ Q[v].w
      /\ \A v \in Addrs \ A : Q[v] = tq[v]
  <2>1. f \in [A -> Pages] /\ tq \in [Addrs -> PTE] /\ Present(tq) /\ A \in SUBSET Addrs
    BY <1>types, <1>base, <1>1
  <2> QED
    BY ONLY <2>1, MapNewTable, ZenonT(30)
<1>4. /\ pgtbl'[p] = N /\ p_pgtbl'[p] = Q
      /\ \A q \in Procs : q # p => pgtbl'[q] = pgtbl[q] /\ p_pgtbl'[q] = p_pgtbl[q]
  BY <1>types, <1>tables DEF IInv, TypeOK
<1>5. ASSUME NEW g \in F
      PROVE  /\ \A v \in Addrs : tb[v].pg # g
             /\ \A q \in Procs, v \in Addrs : q # p => pgtbl[q][v].pg # g
  <2>1. BM[g] = {}
    BY <1>types, <1>count, FS_EmptySet
  <2>2. \A q \in Procs, v \in Addrs :
          ~((q = p /\ tb[v].pg = g) \/ (q # p /\ pgtbl[q][v].pg = g))
    <3> SUFFICES ASSUME NEW q \in Procs, NEW v \in Addrs,
                        (q = p /\ tb[v].pg = g) \/ (q # p /\ pgtbl[q][v].pg = g)
                 PROVE  FALSE
      BY Zenon
    <3>1. <<q, v>> \in BM[g]
      BY Zenon, <1>types, <1>count
    <3> QED
      BY <2>1, <3>1
  <2> QED
    BY Zenon, <1>types, <2>2
<1>new. /\ A \subseteq Addrs /\ p \in Procs
        /\ \A u \in A : /\ pgtbl'[p][u].pg = f[u] /\ pgtbl'[p][u].w
                        /\ p_pgtbl'[p][u].pg = f[u] /\ p_pgtbl'[p][u].w
                        /\ f[u] \in F
        /\ \A u, v \in A : f[u] = f[v] => u = v
  BY Zenon, <1>1, <1>2, <1>3, <1>4, <1>types
<1>old. /\ \A u \in Addrs : u \notin A => pgtbl'[p][u] = tb[u] /\ p_pgtbl'[p][u] = tq[u]
        /\ \A q \in Procs, u \in Addrs : q # p => pgtbl'[q][u] = pgtbl[q][u] /\ p_pgtbl'[q][u] = p_pgtbl[q][u]
  BY Zenon, <1>2, <1>3, <1>4
<1>apart. \A g \in F, q \in Procs, u \in Addrs : pgtbl'[q][u].pg = g => q = p /\ u \in A
  BY <1>5, <1>old
<1> HIDE DEF N, Q
<1>6. TypeOK'
  <2>1. pgtbl' \in [Procs -> [Addrs -> PTE]] /\ p_pgtbl' \in [Procs -> [Addrs -> PTE]]
    BY Zenon, <1>2, <1>3, <1>types, <1>tables DEF IInv, TypeOK, N, Q
  <2>2. ref' \in [Pages -> Nat] /\ free' \subseteq Pages
    BY Zenon, <1>types, <1>pages
  <2>3. data' \in [Pages -> Vals] /\ view' \in [Procs -> [Addrs -> Vals]]
    BY Zenon, <1>types, <1>pages, <1>view DEF IInv, TypeOK
  <2>4. tlb' \in [Addrs -> PTE] /\ curproc' \in Procs \cup {IDLE}
    BY <1>rest, EmptyTlb DEF IInv, TypeOK
  <2> QED
    BY <1>end, <1>rest, <2>1, <2>2, <2>3, <2>4 DEF IInv, TypeOK
<1>7. RefExact'
  <2> SUFFICES ASSUME NEW g \in Pages
               PROVE  ref'[g] = Cardinality(Mappers(g)') /\ (g \in free' => ref'[g] = 0)
    BY DEF RefExact
  <2>1. CASE New(g)
    <3>1. PICK v \in A : f[v] = g
      BY <2>1
    <3>2. g \in F
      BY <1>1, <3>1
    <3>3. Mappers(g)' = {<<p, v>>}
      <4>1. ASSUME NEW q \in Procs, NEW u \in Addrs, pgtbl'[q][u].pg = g
            PROVE  q = p /\ u = v
        <5>1. q = p /\ u \in A
          BY <1>apart, <3>2, <4>1
        <5>2. f[u] = g
          BY <1>new, <4>1, <5>1
        <5> QED
          BY Zenon, <1>new, <3>1, <5>1, <5>2
      <4>2. pgtbl'[p][v].pg = g /\ v \in Addrs
        BY <1>new, <3>1
      <4> QED
        BY <1>new, <4>1, <4>2 DEF Mappers
    <3>4. ref'[g] = 1 /\ g \notin free'
      BY <1>pages, <2>1
    <3>5. Cardinality({<<p, v>>}) = 1
      BY ONLY Zenon, FS_Singleton
    <3> QED
      BY <3>3, <3>4, <3>5
  <2>2. CASE ~New(g)
    <3>1. \A q \in Procs, v \in Addrs :
            pgtbl'[q][v].pg = g <=> ((q = p /\ tb[v].pg = g) \/ (q # p /\ pgtbl[q][v].pg = g))
      <4>1. g # NoPage
        BY CowAssumption
      <4> SUFFICES ASSUME NEW q \in Procs, NEW v \in Addrs
                   PROVE  pgtbl'[q][v].pg = g <=> ((q = p /\ tb[v].pg = g) \/ (q # p /\ pgtbl[q][v].pg = g))
        OBVIOUS
      <4>2. CASE q = p /\ v \in A
        <5>1. pgtbl'[p][v].pg = f[v] /\ f[v] # g /\ tb[v].pg # g
          BY Zenon, <1>new, <1>base, <2>2, <4>1, <4>2
        <5> QED
          BY <4>2, <5>1
      <4>3. CASE ~(q = p /\ v \in A)
        BY <1>old, <4>3
      <4> QED
        BY Zenon, <4>2, <4>3
    <3>2. Mappers(g)' = BM[g]
      <4>1. BM[g] \subseteq Procs \X Addrs
        BY <1>count
      <4> QED
        <5>1. \A q \in Procs, v \in Addrs : <<q, v>> \in Mappers(g)' <=> <<q, v>> \in BM[g]
          <6>1. \A q \in Procs, v \in Addrs : <<q, v>> \in Mappers(g)' <=> pgtbl'[q][v].pg = g
            BY DEF Mappers
          <6>2. \A q \in Procs, v \in Addrs :
                  <<q, v>> \in BM[g] <=> (q = p /\ tb[v].pg = g) \/ (q # p /\ pgtbl[q][v].pg = g)
            BY <1>count, Zenon
          <6> HIDE DEF New
          <6> QED
            BY ONLY <3>1, <6>1, <6>2, Zenon
        <5>2. Mappers(g)' \subseteq Procs \X Addrs
          BY DEF Mappers
        <5> HIDE DEF New
        <5> QED
          BY ONLY <4>1, <5>1, <5>2
    <3>3. ref'[g] = rb[g]
      BY <1>pages, <2>2
    <3>4. g \in free' => g \in F
      BY <1>pages
    <3> QED
      BY Zenon, <1>count, <3>2, <3>3, <3>4
  <2> QED
    BY Zenon, <2>1, <2>2
<1>8. TablesAgree'
  <2> SUFFICES ASSUME NEW q \in Procs, NEW v \in Addrs
               PROVE  pgtbl'[q][v].pg = p_pgtbl'[q][v].pg /\ (pgtbl'[q][v].w => p_pgtbl'[q][v].w)
    BY Zenon DEF TablesAgree
  <2>1. CASE q = p /\ v \in A
    BY <1>new, <2>1
  <2>2. CASE q = p /\ v \notin A
    BY Zenon, <1>base, <1>old, <2>2
  <2>3. CASE q # p
    <3>1. TablesAgree
      BY Zenon DEF IInv
    <3>2. pgtbl'[q][v] = pgtbl[q][v] /\ p_pgtbl'[q][v] = p_pgtbl[q][v]
      BY Zenon, <1>old, <2>3
    <3> QED
      BY Zenon, <3>1, <3>2 DEF TablesAgree
  <2> QED
    BY Zenon, <2>1, <2>2, <2>3
<1>9. WritableIsPrivate'
  <2> SUFFICES ASSUME NEW q \in Procs, NEW r \in Procs, NEW u \in Addrs, NEW v \in Addrs,
                      pgtbl'[q][u].w, pgtbl'[r][v].pg = pgtbl'[q][u].pg
               PROVE  q = r /\ u = v
    BY DEF WritableIsPrivate
  <2>1. CASE q = p /\ u \in A
    <3>1. pgtbl'[q][u].pg = f[u] /\ f[u] \in F
      BY <1>new, <2>1
    <3>2. r = p /\ v \in A
      BY <1>apart, <3>1
    <3> QED
      BY Zenon, <1>new, <2>1, <3>1, <3>2
  <2>2. CASE ~(q = p /\ u \in A)
    <3>1. pgtbl'[q][u] = pgtbl[q][u]
      <4>1. CASE q # p
        BY Zenon, <1>old, <4>1
      <4>2. CASE q = p
        <5>1. u \notin A /\ pgtbl'[p][u] = tb[u]
          BY Zenon, <1>old, <2>2, <4>2
        <5>2. tb # NoTable
          BY <4>2, <5>1, EmptyTlb
        <5> QED
          BY Zenon, <1>base, <4>2, <5>1, <5>2
      <4> QED
        BY Zenon, <4>1, <4>2
    <3>2. ~(r = p /\ v \in A)
      <4> SUFFICES ASSUME r = p, v \in A PROVE FALSE
        OBVIOUS
      <4>1. pgtbl'[r][v].pg = f[v] /\ f[v] \in F
        BY <1>new
      <4> QED
        BY <1>apart, <2>2, <4>1
    <3>3. pgtbl'[r][v] = pgtbl[r][v] \/ pgtbl'[r][v].pg = NoPage
      <4>1. CASE r # p
        BY <1>old, <4>1
      <4>2. CASE r = p
        <5>1. pgtbl'[p][v] = tb[v]
          BY Zenon, <1>old, <3>2, <4>2
        <5> QED
          BY Zenon, <1>base, <4>2, <5>1, EmptyTlb
      <4> QED
        BY Zenon, <4>1, <4>2
    <3>4. pgtbl[q][u].pg # NoPage
      BY <3>1 DEF IInv, Tidy, Present
    <3> QED
      BY <3>1, <3>3, <3>4 DEF IInv, WritableIsPrivate
  <2> QED
    BY <2>1, <2>2
<1>10. Tidy'
  <2>1. \A q \in Procs : Present(pgtbl'[q]) /\ Present(p_pgtbl'[q])
    BY Zenon, <1>2, <1>3, <1>4 DEF IInv, Tidy
  <2>2. \A q \in Procs : state'[q] = "CLOSE" => pgtbl'[q] = NoTable /\ p_pgtbl'[q] = NoTable
    BY Zenon, <1>rest, <1>4 DEF IInv, Tidy
  <2>3. \A q \in Procs, v \in Addrs : pgtbl'[q][v].pg # NoPage => v < end_umem'[q]
    <3> SUFFICES ASSUME NEW q \in Procs, NEW v \in Addrs, pgtbl'[q][v].pg # NoPage
                 PROVE  v < end_umem'[q]
      OBVIOUS
    <3>1. CASE q = p
      BY <1>end, <1>old, <3>1
    <3>2. CASE q # p
      BY Zenon, <1>end, <1>old, <3>2 DEF IInv, Tidy
    <3> QED
      BY Zenon, <3>1, <3>2
  <2>4. Present(tlb')
    BY Zenon, <1>rest, EmptyTlb DEF IInv, Tidy
  <2> QED
    BY <2>1, <2>2, <2>3, <2>4 DEF Tidy
<1>11. CachedWritesSafe'
  <2>1. CASE tlb' = NoTable
    BY <2>1, EmptyTlb DEF CachedWritesSafe
  <2>2. CASE curproc' = curproc /\ tlb' = tlb /\ tb = pgtbl[p]
    <3> SUFFICES ASSUME NEW v \in Addrs, tlb[v].w
                 PROVE  curproc # IDLE /\ tlb[v] = pgtbl'[curproc][v]
      BY Zenon, <2>2 DEF CachedWritesSafe
    <3>1. curproc # IDLE /\ tlb[v] = pgtbl[curproc][v] /\ tlb[v].pg # NoPage /\ curproc \in Procs
      BY DEF IInv, CachedWritesSafe, Tidy, Present, TypeOK
    <3> QED
      <4>1. CASE curproc # p
        BY <1>old, <3>1, <4>1
      <4>2. CASE curproc = p
        <5>1. v \notin A
          BY Zenon, <1>base, <2>2, <3>1, <4>2
        <5> QED
          BY Zenon, <1>old, <2>2, <3>1, <4>2, <5>1
      <4> QED
        BY <4>1, <4>2
  <2> QED
    BY <1>rest, <2>1, <2>2
<1>12. iso => Isolated'
  <2> SUFFICES ASSUME iso, NEW q \in Procs, NEW v \in Addrs, pgtbl'[q][v].pg # NoPage
               PROVE  data'[pgtbl'[q][v].pg] = view'[q][v]
    BY Zenon DEF Isolated
  <2>0. pgtbl'[q][v].pg \in Pages
    BY <1>6 DEF TypeOK, PTE
  <2>1. CASE q = p /\ v \in A
    <3>1. pgtbl'[q][v].pg = f[v]
      BY Zenon, <1>new, <2>1
    <3>2. data'[f[v]] = x
      BY Zenon, <1>pages, <2>0, <2>1, <3>1
    <3>3. view'[q][v] = x
      BY Zenon, <1>view, <1>types, <2>1 DEF IInv, TypeOK
    <3> QED
      BY Zenon, <3>1, <3>2, <3>3
  <2>2. CASE q = p /\ v \notin A
    <3>1. pgtbl'[q][v] = tb[v]
      BY Zenon, <1>old, <2>2
    <3>2. ~New(tb[v].pg)
      BY Zenon, <1>1, <1>5
    <3>3. view'[q][v] = vb[v]
      BY Zenon, <1>view, <1>types, <2>2 DEF IInv, TypeOK
    <3> QED
      BY Zenon, <1>view, <1>pages, <2>0, <3>1, <3>2, <3>3
  <2>3. CASE q # p
    <3>1. pgtbl'[q][v] = pgtbl[q][v]
      BY Zenon, <1>old, <2>3
    <3>2. ~New(pgtbl[q][v].pg)
      BY <1>1, <1>5, <2>3
    <3>3. view'[q][v] = view[q][v]
      BY <1>view, <1>types, <2>3 DEF IInv, TypeOK
    <3>4. data[pgtbl[q][v].pg] = view[q][v]
      BY <3>1 DEF IInv, Isolated
    <3> QED
      BY Zenon, <1>pages, <2>0, <3>1, <3>2, <3>3, <3>4
  <2> QED
    BY <2>1, <2>2, <2>3
<1> QED
  BY <1>6, <1>7, <1>8, <1>9, <1>10, <1>11, <1>12 DEF IInv

LEMMA SbrkInv ==
  ASSUME NEW iso \in BOOLEAN, IInv(iso), NEW p \in Procs, NEW k \in 1 .. UMAX, Sbrk(p, k) PROVE IInv(iso)'
<1> DEFINE A == end_umem[p] .. end_umem[p] + k - 1
           BM == [g \in Pages |-> Mappers(g)]
<1>1. end_umem[p] \in Nat /\ state[p] # "CLOSE" /\ 0 \in Vals /\ UMAX \in Nat
  BY CowAssumption DEF IInv, TypeOK, Sbrk, Runs
<1>2. A \in SUBSET Addrs
  <2>1. ~(end_umem[p] + k >= UMAX)
    BY Zenon DEF Sbrk, SbrkRefuses
  <2> QED
    BY <1>1, <2>1 DEF Addrs
<1>3. PICK f \in Injective(A, free) :
        /\ pgtbl' = [pgtbl EXCEPT ![p] = MapNew(A, f, pgtbl[p])]
        /\ p_pgtbl' = [p_pgtbl EXCEPT ![p] = MapNew(A, f, p_pgtbl[p])]
        /\ ref' = [g \in Pages |-> IF \E v \in A : f[v] = g THEN 1 ELSE ref[g]]
        /\ free' = {g \in free : ~\E v \in A : f[v] = g}
        /\ data' = [g \in Pages |-> IF \E v \in A : f[v] = g THEN 0 ELSE data[g]]
  BY Zenon DEF Sbrk
<1>4. /\ end_umem' = [end_umem EXCEPT ![p] = @ + k]
      /\ view' = [view EXCEPT ![p] = [v \in Addrs |-> IF v \in A THEN 0 ELSE view[p][v]]]
      /\ UNCHANGED <<curproc, state, tlb, halted>>
  BY Zenon DEF Sbrk
<1>5. /\ pgtbl[p] \in [Addrs -> PTE] /\ p_pgtbl[p] \in [Addrs -> PTE]
      /\ view[p] \in [Addrs -> Vals] /\ free \in SUBSET Pages /\ ref \in [Pages -> Nat]
  BY DEF IInv, TypeOK
<1>6. /\ Present(pgtbl[p]) /\ Present(p_pgtbl[p])
      /\ \A v \in Addrs : pgtbl[p][v].pg = p_pgtbl[p][v].pg /\ (pgtbl[p][v].w => p_pgtbl[p][v].w)
  BY Zenon DEF IInv, Tidy, TablesAgree
<1>7. \A v \in A : pgtbl[p][v].pg = NoPage
  <2> TAKE v \in A
  <2>1. v \in Addrs /\ ~(v < end_umem[p])
    BY <1>1, <1>2
  <2>2. Tidy
    BY Zenon DEF IInv
  <2> QED
    BY Zenon, <2>1, <2>2 DEF Tidy
<1>8. \A g \in free : ref[g] = 0
  BY Zenon, <1>5 DEF IInv, RefExact
<1>9. /\ BM \in [Pages -> SUBSET (Procs \X Addrs)]
      /\ \A g \in Pages, q \in Procs, v \in Addrs :
           <<q, v>> \in BM[g] <=> (q = p /\ pgtbl[p][v].pg = g) \/ (q # p /\ pgtbl[q][v].pg = g)
      /\ \A g \in Pages : IsFiniteSet(BM[g]) /\ Cardinality(BM[g]) = ref[g]
  <2>1. BM \in [Pages -> SUBSET (Procs \X Addrs)]
    BY DEF Mappers
  <2>2. \A g \in Pages, q \in Procs, v \in Addrs :
           <<q, v>> \in BM[g] <=> (q = p /\ pgtbl[p][v].pg = g) \/ (q # p /\ pgtbl[q][v].pg = g)
    BY Zenon DEF Mappers
  <2>3. \A g \in Pages : IsFiniteSet(BM[g]) /\ Cardinality(BM[g]) = ref[g]
    BY Zenon, FiniteMappers DEF IInv, RefExact
  <2> QED
    BY Zenon, <2>1, <2>2, <2>3
<1>10. iso => \A v \in Addrs : pgtbl[p][v].pg # NoPage => data[pgtbl[p][v].pg] = view[p][v]
  BY DEF IInv, Isolated
<1>11. /\ end_umem' \in [Procs -> Nat]
       /\ \A q \in Procs : q # p => end_umem'[q] = end_umem[q]
       /\ end_umem'[p] = end_umem[p] + k
  BY <1>1, <1>4 DEF IInv, TypeOK
<1>12. \A v \in Addrs : pgtbl[p][v].pg # NoPage \/ v \in A => v < end_umem'[p]
  <2>1. \A v \in Addrs : pgtbl[p][v].pg # NoPage => v < end_umem[p]
    BY Zenon DEF IInv, Tidy
  <2> QED
    BY <1>1, <1>11, <2>1 DEF Addrs
<1> HIDE DEF A, BM
<1>13. Remaps(iso, p, 0, A, free, f, pgtbl[p], p_pgtbl[p], ref, BM, view[p])
  BY Zenon, <1>1, <1>2, <1>3, <1>4, <1>5, <1>6, <1>7, <1>8, <1>9, <1>10, <1>11, <1>12 DEF Remaps
<1> QED
  BY <1>13, MapNewInv

LEMMA LoadImageInv ==
  ASSUME NEW iso \in BOOLEAN, IInv(iso), NEW p \in Procs, NEW x \in Vals, state[p] # "CLOSE", LoadImage(p, x) PROVE IInv(iso)'
<1> DEFINE BM == [g \in Pages |-> Mappers(g) \ ({p} \X At(pgtbl[p], g))]
<1>1. Image \in SUBSET Addrs
  BY CowAssumption DEF Image, Addrs
<1>2. PICK T \in SUBSET free : \E f \in Injective(Image, FreeWithout(p) \ T) :
            /\ pgtbl' = [pgtbl EXCEPT ![p] = MapNew(Image, f, NoTable)]
            /\ p_pgtbl' = [p_pgtbl EXCEPT ![p] = MapNew(Image, f, NoTable)]
            /\ ref' = [g \in Pages |-> IF \E v \in Image : f[v] = g THEN 1 ELSE RefsWithout(p)[g]]
            /\ free' = {g \in FreeWithout(p) : ~\E v \in Image : f[v] = g}
            /\ data' = [g \in Pages |-> IF \E v \in Image : f[v] = g THEN x ELSE data[g]]
  BY Zenon DEF LoadImage
<1>3. PICK f \in Injective(Image, FreeWithout(p)) :
            /\ pgtbl' = [pgtbl EXCEPT ![p] = MapNew(Image, f, NoTable)]
            /\ p_pgtbl' = [p_pgtbl EXCEPT ![p] = MapNew(Image, f, NoTable)]
            /\ ref' = [g \in Pages |-> IF \E v \in Image : f[v] = g THEN 1 ELSE RefsWithout(p)[g]]
            /\ free' = {g \in FreeWithout(p) : ~\E v \in Image : f[v] = g}
            /\ data' = [g \in Pages |-> IF \E v \in Image : f[v] = g THEN x ELSE data[g]]
  <2>1. \A f \in Injective(Image, FreeWithout(p) \ T) : f \in Injective(Image, FreeWithout(p))
    BY DEF Injective
  <2>2. PICK f \in Injective(Image, FreeWithout(p) \ T) :
            /\ pgtbl' = [pgtbl EXCEPT ![p] = MapNew(Image, f, NoTable)]
            /\ p_pgtbl' = [p_pgtbl EXCEPT ![p] = MapNew(Image, f, NoTable)]
            /\ ref' = [g \in Pages |-> IF \E v \in Image : f[v] = g THEN 1 ELSE RefsWithout(p)[g]]
            /\ free' = {g \in FreeWithout(p) : ~\E v \in Image : f[v] = g}
            /\ data' = [g \in Pages |-> IF \E v \in Image : f[v] = g THEN x ELSE data[g]]
    BY <1>2, Zenon
  <2>3. f \in Injective(Image, FreeWithout(p))
    BY <2>1
  <2> QED
    BY <2>2, <2>3, Zenon
<1>4. /\ end_umem' = [end_umem EXCEPT ![p] = IF @ >= NIMG THEN @ ELSE NIMG]
      /\ view' = [view EXCEPT ![p] = [v \in Addrs |-> IF v \in Image THEN x ELSE 0]]
      /\ curproc' = IDLE /\ tlb' = NoTable
      /\ UNCHANGED <<state, halted>>
  BY DEF LoadImage
<1>5. /\ Fresh \in [Addrs -> Vals] /\ \A v \in Addrs : Fresh[v] = 0
      /\ view' = [view EXCEPT ![p] = [v \in Addrs |-> IF v \in Image THEN x ELSE Fresh[v]]]
  BY Zenon, <1>4, CowAssumption DEF Fresh
<1>6. /\ NoTable \in [Addrs -> PTE] /\ Present(NoTable)
      /\ \A v \in Addrs : NoTable[v].pg = NoPage
  BY EmptyTlb
<1>7. /\ BM \in [Pages -> SUBSET (Procs \X Addrs)]
      /\ \A g \in Pages, q \in Procs, v \in Addrs :
           <<q, v>> \in BM[g] <=> (q = p /\ NoTable[v].pg = g) \/ (q # p /\ pgtbl[q][v].pg = g)
      /\ \A g \in Pages : IsFiniteSet(BM[g]) /\ Cardinality(BM[g]) = RefsWithout(p)[g]
  <2>1. BM \in [Pages -> SUBSET (Procs \X Addrs)]
    BY Zenon DEF Mappers
  <2>2. \A g \in Pages, q \in Procs, v \in Addrs :
           <<q, v>> \in BM[g] <=> (q = p /\ NoTable[v].pg = g) \/ (q # p /\ pgtbl[q][v].pg = g)
    BY Zenon, <1>6, CowAssumption DEF Mappers, At
  <2>3. \A g \in Pages : IsFiniteSet(BM[g]) /\ Cardinality(BM[g]) = RefsWithout(p)[g]
    BY Zenon, WithoutExact
  <2> QED
    BY Zenon, <2>1, <2>2, <2>3
<1>8. /\ end_umem' \in [Procs -> Nat]
      /\ \A q \in Procs : q # p => end_umem'[q] = end_umem[q]
      /\ end_umem'[p] >= NIMG
  BY <1>4, CowAssumption DEF IInv, TypeOK
<1>9. \A v \in Addrs : NoTable[v].pg # NoPage \/ v \in Image => v < end_umem'[p]
  <2>1. end_umem'[p] \in Nat
    BY Zenon, <1>8
  <2>2. \A v \in Image : v < end_umem'[p]
    <3> TAKE v \in Image
    <3>1. v \in Nat /\ v < NIMG /\ NIMG \in Nat
      BY CowAssumption DEF Image
    <3>2. PICK e \in Nat : e = end_umem'[p] /\ e >= NIMG
      BY Zenon, <1>8, <2>1
    <3>3. v < e
      BY <3>1, <3>2
    <3> QED
      BY Zenon, <3>2, <3>3
  <2> QED
    BY Zenon, <1>6, <2>2
<1>10. FreeWithout(p) \in SUBSET Pages /\ RefsWithout(p) \in [Pages -> Nat]
       /\ \A g \in FreeWithout(p) : RefsWithout(p)[g] = 0
  BY Zenon, WithoutExact
<1> HIDE DEF BM
<1>11. Remaps(iso, p, x, Image, FreeWithout(p), f, NoTable, NoTable, RefsWithout(p), BM, Fresh)
  BY Zenon, <1>1, <1>3, <1>4, <1>5, <1>6, <1>7, <1>8, <1>9, <1>10 DEF Remaps
<1> QED
  BY <1>11, MapNewInv

LEMMA ExecInv ==
  ASSUME NEW iso \in BOOLEAN, IInv(iso), NEW p \in Procs, NEW x \in Vals, Exec(p, x) PROVE IInv(iso)'
<1>1. state[p] # "CLOSE"
  BY DEF Exec, Runs
<1>2. CASE Halt
  BY <1>2, HaltInv
<1>3. CASE LoadImage(p, x)
  BY <1>1, <1>3, LoadImageInv
<1> QED
  BY <1>2, <1>3 DEF Exec

-----------------------------------------------------------------------------
LEMMA InitIInv == ASSUME NEW iso \in BOOLEAN, Init PROVE IInv(iso)
<1>1. PICK f \in Injective(Image, Pages) :
       /\ pgtbl = [p \in Procs |-> IF p = 0 THEN MapNew(Image, f, NoTable) ELSE NoTable]
       /\ ref = [g \in Pages |-> IF \E v \in Image : f[v] = g THEN 1 ELSE 0]
       /\ free = {g \in Pages : ~\E v \in Image : f[v] = g}
  BY Zenon DEF Init
<1>2. /\ p_pgtbl = pgtbl
      /\ state = [p \in Procs |-> IF p = 0 THEN "LIVE" ELSE "CLOSE"]
      /\ end_umem = [p \in Procs |-> IF p = 0 THEN NIMG ELSE 0]
      /\ data = [g \in Pages |-> 0]
      /\ view = [p \in Procs |-> Fresh]
      /\ curproc = IDLE /\ tlb = NoTable
      /\ halted = FALSE
  BY DEF Init
<1> DEFINE N == MapNew(Image, f, NoTable)
<1>3. Image \in SUBSET Addrs /\ 0 \in Procs
  BY CowAssumption DEF Image, Addrs, Procs
<1>4. f \in [Image -> Pages] /\ \A u, v \in Image : f[u] = f[v] => u = v
  BY DEF Injective
<1>5. /\ N \in [Addrs -> PTE] /\ Present(N)
      /\ \A v \in Image : N[v].pg = f[v] /\ N[v].w
      /\ \A v \in Addrs \ Image : N[v] = NoTable[v]
  <2>1. NoTable \in [Addrs -> PTE] /\ Present(NoTable)
    BY EmptyTlb
  <2> QED
    BY ONLY <1>3, <1>4, <2>1, MapNewTable, ZenonT(30)
<1>6. pgtbl = [p \in Procs |-> IF p = 0 THEN N ELSE NoTable]
  BY <1>1
<1> HIDE DEF N
<1>7. TypeOK
  <2>1. pgtbl \in [Procs -> [Addrs -> PTE]]
    BY <1>5, <1>6, EmptyTlb
  <2>2. ref \in [Pages -> Nat] /\ free \subseteq Pages
    BY <1>1
  <2>3. /\ view \in [Procs -> [Addrs -> Vals]] /\ end_umem \in [Procs -> Nat]
        /\ data \in [Pages -> Vals]
    BY <1>2, CowAssumption DEF Fresh
  <2>4. state \in [Procs -> {"LIVE", "ZOMBIE", "CLOSE"}]
    BY <1>2
  <2> QED
    BY Zenon, <1>2, <2>1, <2>2, <2>3, <2>4, EmptyTlb DEF TypeOK
<1>8. Tidy
  <2>1. \A p \in Procs : Present(pgtbl[p])
    BY <1>5, <1>6, EmptyTlb
  <2>2. \A p \in Procs : state[p] = "CLOSE" => pgtbl[p] = NoTable
    BY <1>2, <1>6
  <2>3. \A p \in Procs, v \in Addrs : pgtbl[p][v].pg # NoPage => v < end_umem[p]
    <3> SUFFICES ASSUME NEW p \in Procs, NEW v \in Addrs, pgtbl[p][v].pg # NoPage
                 PROVE  v < end_umem[p]
      OBVIOUS
    <3>1. p = 0 /\ v \in Image
      BY <1>5, <1>6, EmptyTlb
    <3> QED
      BY <1>2, <3>1, CowAssumption DEF Image
  <2> QED
    BY <1>2, <2>1, <2>2, <2>3, EmptyTlb DEF Tidy
<1>9. TablesAgree
  BY <1>2 DEF TablesAgree
<1>10. WritableIsPrivate
  <2> SUFFICES ASSUME NEW p \in Procs, NEW q \in Procs, NEW u \in Addrs, NEW v \in Addrs,
                      pgtbl[p][u].w, pgtbl[q][v].pg = pgtbl[p][u].pg
               PROVE  p = q /\ u = v
    BY DEF WritableIsPrivate
  <2>1. p = 0 /\ u \in Image /\ pgtbl[p][u].pg = f[u] /\ f[u] # NoPage
    BY <1>4, <1>5, <1>6, EmptyTlb, CowAssumption
  <2>2. q = 0 /\ v \in Image /\ pgtbl[q][v].pg = f[v]
    BY Zenon, <1>5, <1>6, <2>1, EmptyTlb
  <2> QED
    BY <1>4, <2>1, <2>2
<1>11. RefExact
  <2> SUFFICES ASSUME NEW g \in Pages
               PROVE  ref[g] = Cardinality(Mappers(g)) /\ (g \in free => ref[g] = 0)
    BY DEF RefExact
  <2>1. CASE \E v \in Image : f[v] = g
    <3>1. PICK v \in Image : f[v] = g
      BY <2>1
    <3>2. g # NoPage
      BY CowAssumption
    <3>3. \A q \in Procs, u \in Addrs : pgtbl[q][u].pg = g <=> q = 0 /\ u = v
      BY <1>3, <1>4, <1>5, <1>6, <3>1, <3>2, EmptyTlb
    <3>4. Mappers(g) = {<<0, v>>}
      BY <1>3, <3>3 DEF Mappers
    <3>5. Cardinality({<<0, v>>}) = 1
      BY ONLY Zenon, FS_Singleton
    <3>6. ref[g] = 1 /\ g \notin free
      BY <1>1, <2>1
    <3> QED
      BY <3>4, <3>5, <3>6
  <2>2. CASE ~\E v \in Image : f[v] = g
    <3>1. g # NoPage
      BY CowAssumption
    <3>2. \A q \in Procs, u \in Addrs : pgtbl[q][u].pg # g
      BY <1>5, <1>6, <2>2, <3>1, EmptyTlb
    <3>3. Mappers(g) = {}
      BY <3>2 DEF Mappers
    <3>4. ref[g] = 0
      BY <1>1, <2>2
    <3> QED
      BY <3>3, <3>4, FS_EmptySet
  <2> QED
    BY <2>1, <2>2
<1>12. CachedWritesSafe
  BY <1>2, EmptyTlb DEF CachedWritesSafe
<1>13. Isolated
  <2> SUFFICES ASSUME NEW p \in Procs, NEW v \in Addrs, pgtbl[p][v].pg # NoPage
               PROVE  data[pgtbl[p][v].pg] = view[p][v]
    BY Zenon DEF Isolated
  <2>1. pgtbl[p][v].pg \in Pages
    BY <1>7 DEF TypeOK, PTE
  <2> QED
    BY <1>2, <2>1 DEF Fresh
<1> QED
  BY <1>7, <1>8, <1>9, <1>10, <1>11, <1>12, <1>13 DEF IInv

LEMMA StutterIInv == ASSUME NEW iso \in BOOLEAN, IInv(iso), UNCHANGED vars PROVE IInv(iso)'
<1>1. RefExact'
  BY SameMapping DEF IInv, vars
<1>2. TypeOK' /\ Tidy'
  BY Zenon DEF IInv, vars, TypeOK, Tidy, Present
<1>3. TablesAgree' /\ WritableIsPrivate' /\ CachedWritesSafe'
  BY DEF IInv, vars, TablesAgree, WritableIsPrivate, CachedWritesSafe
<1>4. iso => Isolated'
  BY DEF IInv, vars, Isolated
<1> QED
  BY <1>1, <1>2, <1>3, <1>4 DEF IInv

(* Every step but a direct write of a system call.                         *)
Keeps(p) ==
  \/ Switch(p) \/ Fork(p) \/ Exit(p) \/ ExitZombie(p) \/ Reap(p)
  \/ \E k \in 1 .. UMAX : Sbrk(p, k) \/ SbrkHalts(p, k)
  \/ \E x \in Vals : Exec(p, x)
  \/ \E v \in Addrs :
       \/ TlbFill(p, v) \/ PageFault(p, v)
       \/ \E x \in Vals : Store(p, v, x) \/ U2KWrite(p, v, x)

LEMMA KeepsIInv ==
  ASSUME NEW iso \in BOOLEAN, IInv(iso), NEW p \in Procs, Keeps(p) PROVE IInv(iso)'
<1>1. CASE Switch(p)
  BY <1>1, SwitchInv
<1>2. CASE Fork(p)
  BY <1>2, ForkInv
<1>3. CASE Exit(p)
  <2>1. ClearProc(p, IDLE, NoTable)
    BY <1>3 DEF Exit
  <2> QED
    BY <2>1, ClearProcInv
<1>4. CASE ExitZombie(p)
  BY <1>4, ExitZombieInv
<1>5. CASE Reap(p)
  <2>1. ClearProc(p, curproc, tlb) /\ curproc \in Procs /\ curproc # p
    BY <1>5 DEF Reap, Runs
  <2> QED
    BY <2>1, ClearProcInv
<1>6. ASSUME NEW k \in 1 .. UMAX, Sbrk(p, k) PROVE IInv(iso)'
  BY <1>6, SbrkInv
<1>7. ASSUME NEW k \in 1 .. UMAX, SbrkHalts(p, k) PROVE IInv(iso)'
  BY <1>7, HaltInv DEF SbrkHalts
<1>8. ASSUME NEW x \in Vals, Exec(p, x) PROVE IInv(iso)'
  BY <1>8, ExecInv
<1>9. ASSUME NEW v \in Addrs, TlbFill(p, v) PROVE IInv(iso)'
  BY <1>9, TlbFillInv
<1>10. ASSUME NEW v \in Addrs, PageFault(p, v) PROVE IInv(iso)'
  BY <1>10, PageFaultInv
<1>11. ASSUME NEW v \in Addrs, NEW x \in Vals, Store(p, v, x) PROVE IInv(iso)'
  BY <1>11, StoreInv
<1>12. ASSUME NEW v \in Addrs, NEW x \in Vals, U2KWrite(p, v, x) PROVE IInv(iso)'
  BY <1>12, U2KWriteInv
<1> QED
  BY <1>1, <1>2, <1>3, <1>4, <1>5, <1>6, <1>7, <1>8, <1>9, <1>10, <1>11, <1>12 DEF Keeps

LEMMA NextIInv == ASSUME IInv(FALSE), [Next]_vars PROVE IInv(FALSE)'
<1>1. CASE UNCHANGED vars
  BY Zenon, <1>1, StutterIInv
<1>2. ASSUME NEW p \in Procs, Keeps(p) PROVE IInv(FALSE)'
  BY Zenon, <1>2, KeepsIInv
<1>3. ASSUME NEW p \in Procs, NEW v \in Addrs, NEW x \in Vals, DirectWrite(p, v, x)
      PROVE  IInv(FALSE)'
  BY Zenon, <1>3, DirectWriteInv
<1> QED
  BY Zenon, <1>1, <1>2, <1>3 DEF Next, Keeps

-----------------------------------------------------------------------------
(* IInv holds in every reachable state, whatever the number of processes,  *)
(* pages, addresses and page contents.                                     *)
THEOREM Invariance == Spec => []IInv(FALSE)
<1>1. Init => IInv(FALSE)
  BY Zenon, InitIInv
<1>2. IInv(FALSE) /\ [Next]_vars => IInv(FALSE)'
  BY Zenon, NextIInv
<1> QED
  BY <1>1, <1>2, PTL DEF Spec

(* No variable leaves its type; in particular no reference count that      *)
(* page_fault_handler, U2K or free_page counts down goes below zero.       *)
THEOREM TypeCorrect == Spec => []TypeOK
<1>1. IInv(FALSE) => TypeOK
  BY DEF IInv
<1> QED
  BY <1>1, Invariance, PTL

(* The count of every page is the number of its mappings, through fork,    *)
(* faults, U2K, sbrk, exec and the ends of processes; free pages have none.*)
THEOREM CountsExact == Spec => []RefExact
<1>1. IInv(FALSE) => RefExact
  BY DEF IInv
<1> QED
  BY <1>1, Invariance, PTL

(* The panic of free_page cannot be reached by freeing a page table.       *)
THEOREM FreeNeverPanics == Spec => []NoPanic
<1>1. IInv(FALSE) => NoPanic
  BY Zenon, NeverFails DEF NoPanic
<1> QED
  BY <1>1, Invariance, PTL

(* A page that some pgtbl maps writable is mapped only there: copy-on-     *)
(* write gives no two processes write access to the same page.             *)
THEOREM WritablePrivate == Spec => []WritableIsPrivate
<1>1. IInv(FALSE) => WritableIsPrivate
  BY DEF IInv
<1> QED
  BY <1>1, Invariance, PTL

(* The asserts of U2K hold: the two tables of a process map the same pages *)
(* and pgtbl grants no write that p_pgtbl does not.                        *)
THEOREM U2KAsserts == Spec => []TablesAgree
<1>1. IInv(FALSE) => TablesAgree
  BY DEF IInv
<1> QED
  BY <1>1, Invariance, PTL

(* A stale translation never lets the program write: fork, the page fault  *)
(* handler and run_proc reload cr3 where they must, and the missing reload *)
(* after U2K changes a read-only entry only.                               *)
THEOREM NoStaleWrite == Spec => []CachedWritesSafe
<1>1. IInv(FALSE) => CachedWritesSafe
  BY DEF IInv
<1> QED
  BY <1>1, Invariance, PTL

(* Processes are isolated if no system call writes through the current     *)
(* page table; direct writes are the only way to break isolation.          *)
THEOREM Isolation == ~DirectWrites /\ Spec => []Isolated
<1>1. CASE ~DirectWrites
  <2>1. Init => IInv(TRUE)
    BY Zenon, InitIInv
  <2>2. IInv(TRUE) /\ [Next]_vars => IInv(TRUE)'
    BY Zenon, <1>1, KeepsIInv, StutterIInv DEF Next, Keeps, DirectWrite
  <2>3. IInv(TRUE) => Isolated
    BY DEF IInv
  <2> QED
    BY <2>1, <2>2, <2>3, PTL DEF Spec
<1>2. CASE DirectWrites
  BY <1>2
<1> QED
  BY <1>1, <1>2

(***************************************************************************)
(* Isolation with the history of direct writes: the counts and the tables  *)
(* are right in any case, and the contents are as long as no system call   *)
(* has stored through the current page table.                              *)
(***************************************************************************)
IsoInv == IInv(FALSE) /\ direct \in BOOLEAN /\ (~direct => Isolated)

LEMMA IsoStep == ASSUME IsoInv, [MCNext]_mcvars PROVE IsoInv'
<1>1. ASSUME IInv(TRUE)' PROVE IInv(FALSE)' /\ Isolated'
  BY <1>1 DEF IInv
<1>2. ~direct => IInv(TRUE)
  BY DEF IsoInv, IInv
<1>3. ASSUME NEW p \in Procs, Keeps(p), direct' = direct PROVE IsoInv'
  <2>1. IInv(FALSE)'
    BY Zenon, <1>3, KeepsIInv DEF IsoInv
  <2>2. ~direct => IInv(TRUE)'
    BY Zenon, <1>2, <1>3, KeepsIInv
  <2> QED
    BY Zenon, <1>1, <1>3, <2>1, <2>2 DEF IsoInv
<1>4. ASSUME NEW p \in Procs, NEW v \in Addrs, NEW x \in Vals, DirectWrite(p, v, x), direct' = TRUE
      PROVE  IsoInv'
  BY Zenon, <1>4, DirectWriteInv DEF IsoInv
<1>5. CASE UNCHANGED mcvars
  <2>1. UNCHANGED vars /\ direct' = direct
    BY <1>5 DEF mcvars, vars
  <2>2. IInv(FALSE)' /\ (~direct => IInv(TRUE)')
    BY Zenon, <1>2, <2>1, StutterIInv DEF IsoInv
  <2> QED
    BY Zenon, <1>1, <2>1, <2>2 DEF IsoInv
<1> QED
  BY Zenon, <1>3, <1>4, <1>5 DEF MCNext, Keeps

(* Until a system call stores through the current page table with CR0.WP   *)
(* clear, every process reads what it, or the kernel through U2K, wrote    *)
(* last, whatever other processes and the kernel do to shared pages.       *)
THEOREM IsolationByU2K == MCSpec => []IsolatedByU2K
<1>1. MCInit => IsoInv
  <2> SUFFICES ASSUME MCInit PROVE IsoInv
    OBVIOUS
  <2>1. Init /\ direct = FALSE
    BY DEF MCInit
  <2>2. IInv(TRUE)
    BY Zenon, <2>1, InitIInv
  <2> QED
    BY Zenon, <2>1, <2>2 DEF IsoInv, IInv
<1>2. IsoInv /\ [MCNext]_mcvars => IsoInv'
  BY IsoStep
<1>3. IsoInv => IsolatedByU2K
  BY DEF IsoInv, IsolatedByU2K
<1> QED
  BY <1>1, <1>2, <1>3, PTL DEF MCSpec
=============================================================================
