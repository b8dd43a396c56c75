-------------------------- MODULE FreePagesProofs ---------------------------
(***************************************************************************)
(* Proofs about FreePages, for every memory map and every size of the      *)
(* kernel's structures: the free list is exact and it holds only pages     *)
(* that are usable and clear of the kernel.                                *)
(***************************************************************************)
EXTENDS FreePages, TLAPS, SequenceTheorems

(* fp and the words w spell the list l of n pages, each once.              *)
IsList(w, fp, n, l) ==
  /\ n = Len(l)
  /\ fp = IF l = << >> THEN NULL ELSE PageInfo(l[1])
  /\ \A i \in 1 .. Len(l) : w[l[i]] = IF i = Len(l) THEN NULL ELSE PageInfo(l[i + 1])
  /\ \A i, j \in 1 .. Len(l) : l[i] = l[j] => i = j

On(f, l) == \E i \in 1 .. Len(l) : l[i] = f

-----------------------------------------------------------------------------
(* ROUNDUP, which places the tables, the processes and the FPU areas, does *)
(* not go down.                                                            *)
LEMMA RoundUp ==
  ASSUME NEW x \in Nat, NEW n \in Nat \ {0}
  PROVE  ROUNDUP(x, n) \in Nat /\ ROUNDUP(x, n) >= x
<1> DEFINE y == x + n - 1
           q == y \div n
<1>1. y \in Nat
  OBVIOUS
<1>2. q \in Nat /\ y = n * q + (y % n) /\ y % n < n
  BY <1>1
<1>3. y = n * q + (y % n) /\ y % n \in Nat /\ n * q \in Nat /\ n * q = q * n
  BY <1>1, <1>2
<1>4. q * n >= x
  <2> HIDE DEF q
  <2> QED BY <1>1, <1>2, <1>3
<1> QED
  BY <1>1, <1>2, <1>3, <1>4 DEF ROUNDUP

(* A later page lies at a higher address (free_page compares addresses).   *)
LEMMA Scale ==
  ASSUME NEW m \in Nat, NEW f \in Nat, f < m
  PROVE  f * PER \in Nat /\ f * PER < m * PER /\ (f + 1) * PER = f * PER + PER
BY MemAssumption

(* Taking the first page leaves the rest (alloc_page).                     *)
LEMMA PopList ==
  ASSUME NEW w \in [Frames -> Int], NEW fp, NEW n, NEW l \in Seq(Frames), NEW g \in Frames,
         IsList(w, fp, n, l), fp = PageInfo(g), NEW x \in Int
  PROVE  /\ l # << >> /\ l[1] = g /\ Len(l) >= 1
         /\ Tail(l) \in Seq(Frames)
         /\ IsList([w EXCEPT ![g] = x], w[g], n - 1, Tail(l))
         /\ ~On(g, Tail(l))
         /\ \A f \in Frames : f # g /\ On(f, l) => On(f, Tail(l))
         /\ \A f \in Frames : On(f, Tail(l)) => On(f, l)
<1>1. l # << >> /\ l[1] = g /\ Len(l) \in Nat /\ Len(l) >= 1
  <2>1. l # << >>
    BY DEF IsList, PageInfo, NULL, Frames
  <2>2. Len(l) \in Nat /\ Len(l) >= 1 /\ l[1] \in Frames
    BY <2>1
  <2>3. PageInfo(l[1]) = PageInfo(g)
    BY <2>1 DEF IsList
  <2> QED
    BY <2>1, <2>2, <2>3 DEF PageInfo, Frames
<1> DEFINE t == Tail(l)
<1>2. t \in Seq(Frames) /\ Len(t) = Len(l) - 1 /\ \A i \in 1 .. Len(t) : t[i] = l[i + 1]
  BY <1>1
<1> HIDE DEF t
<1>3. \A i \in 1 .. Len(t) : i + 1 \in 1 .. Len(l) /\ t[i] # g
  BY <1>1, <1>2 DEF IsList
<1>4. ~On(g, t)
  BY <1>3 DEF On
<1>5. \A f \in Frames : On(f, t) => On(f, l)
  BY Zenon, <1>2, <1>3 DEF On
<1>6. ASSUME NEW f \in Frames, f # g, On(f, l) PROVE On(f, t)
  <2>1. PICK i \in 1 .. Len(l) : l[i] = f
    BY <1>6 DEF On
  <2>2. i # 1 /\ i - 1 \in 1 .. Len(t) /\ (i - 1) + 1 = i
    BY <2>1, <1>1, <1>2, <1>6
  <2> QED
    BY Zenon, <2>1, <2>2, <1>2 DEF On
<1>7. w[g] = IF t = << >> THEN NULL ELSE PageInfo(t[1])
  <2>1. t = << >> <=> Len(l) = 1
    <3>1. t = << >> <=> Len(t) = 0
      BY <1>2, EmptySeq
    <3> QED
      BY <3>1, <1>1, <1>2
  <2>2. 1 \in 1 .. Len(l)
    BY <1>1
  <2>3. w[l[1]] = IF 1 = Len(l) THEN NULL ELSE PageInfo(l[1 + 1])
    BY <2>2 DEF IsList
  <2>4. Len(l) # 1 => t[1] = l[1 + 1]
    BY <1>1, <1>2
  <2> QED
    BY <1>1, <2>1, <2>3, <2>4
<1>8. \A i \in 1 .. Len(t) :
        [w EXCEPT ![g] = x][t[i]] = IF i = Len(t) THEN NULL ELSE PageInfo(t[i + 1])
  <2> SUFFICES ASSUME NEW i \in 1 .. Len(t)
               PROVE  [w EXCEPT ![g] = x][t[i]] = IF i = Len(t) THEN NULL ELSE PageInfo(t[i + 1])
    OBVIOUS
  <2>1. t[i] \in Frames /\ t[i] # g /\ t[i] = l[i + 1] /\ i + 1 \in 1 .. Len(l)
    <3>1. t[i] \in Frames
      BY <1>2
    <3>2. t[i] # g /\ i + 1 \in 1 .. Len(l)
      BY <1>3
    <3> QED
      BY Zenon, <1>2, <3>1, <3>2
  <2>2. [w EXCEPT ![g] = x][t[i]] = w[l[i + 1]]
    BY <2>1
  <2>3. w[l[i + 1]] = IF i + 1 = Len(l) THEN NULL ELSE PageInfo(l[(i + 1) + 1])
    BY <2>1 DEF IsList
  <2>4. i # Len(t) => t[i + 1] = l[(i + 1) + 1]
    <3> HAVE i # Len(t)
    <3>1. i + 1 \in 1 .. Len(t)
      BY <1>1, <1>2
    <3> QED
      BY <3>1, <1>2
  <2> QED
    BY <2>2, <2>3, <2>4, <1>2, <2>1
<1>9. \A i, j \in 1 .. Len(t) : t[i] = t[j] => i = j
  <2> SUFFICES ASSUME NEW i \in 1 .. Len(t), NEW j \in 1 .. Len(t), t[i] = t[j]
               PROVE  i = j
    OBVIOUS
  <2>1. i + 1 \in 1 .. Len(l) /\ j + 1 \in 1 .. Len(l) /\ l[i + 1] = l[j + 1]
    BY Zenon, <1>2, <1>3
  <2>2. i + 1 = j + 1
    BY <2>1 DEF IsList
  <2> QED
    BY <2>2, <1>1, <1>2
<1>10. IsList([w EXCEPT ![g] = x], w[g], n - 1, t)
  BY <1>1, <1>2, <1>7, <1>8, <1>9 DEF IsList
<1> QED
  BY <1>1, <1>2, <1>4, <1>5, <1>6, <1>10 DEF t

(* Putting a page in front that is not on the list (free_page).            *)
LEMMA PushList ==
  ASSUME NEW w \in [Frames -> Int], NEW fp \in Int, NEW n \in Nat, NEW l \in Seq(Frames),
         NEW f \in Frames, IsList(w, fp, n, l), ~On(f, l)
  PROVE  /\ <<f>> \o l \in Seq(Frames)
         /\ IsList([w EXCEPT ![f] = fp], PageInfo(f), n + 1, <<f>> \o l)
         /\ \A e \in Frames : On(e, <<f>> \o l) <=> e = f \/ On(e, l)
<1> DEFINE k == <<f>> \o l
<1>1. k \in Seq(Frames) /\ Len(k) = Len(l) + 1 /\ k # << >> /\ k[1] = f
      /\ \A i \in 1 .. Len(l) : k[i + 1] = l[i]
  <2>1. <<f>> \in Seq(Frames) /\ Len(<<f>>) = 1 /\ <<f>>[1] = f
    OBVIOUS
  <2>2. /\ k \in Seq(Frames) /\ Len(k) = 1 + Len(l)
        /\ \A i \in 1 .. 1 + Len(l) : k[i] = IF i <= 1 THEN <<f>>[i] ELSE l[i - 1]
    BY <2>1, ConcatProperties
  <2> HIDE DEF k
  <2>3. Len(l) \in Nat
    OBVIOUS
  <2>4. \A i \in 1 .. Len(l) : k[i + 1] = l[i]
    <3> TAKE i \in 1 .. Len(l)
    <3>1. i + 1 \in 1 .. 1 + Len(l) /\ ~(i + 1 <= 1) /\ (i + 1) - 1 = i
      BY <2>3
    <3> QED
      BY <2>2, <3>1
  <2>5. k[1] = f /\ k # << >>
    BY <2>1, <2>2, <2>3
  <2> QED
    BY <2>2, <2>3, <2>4, <2>5
<1> HIDE DEF k
<1>2. \A i \in 1 .. Len(k) : i = 1 \/ (i - 1 \in 1 .. Len(l) /\ k[i] = l[i - 1])
  <2> SUFFICES ASSUME NEW i \in 1 .. Len(k), i # 1
               PROVE  i - 1 \in 1 .. Len(l) /\ k[i] = l[i - 1]
    OBVIOUS
  <2>1. Len(l) \in Nat
    OBVIOUS
  <2>2. i - 1 \in 1 .. Len(l) /\ (i - 1) + 1 = i
    BY <1>1, <2>1
  <2> QED
    BY Zenon, <1>1, <2>2
<1>3. \A e \in Frames : On(e, k) <=> e = f \/ On(e, l)
  <2>1. ASSUME NEW e \in Frames, On(e, k) PROVE e = f \/ On(e, l)
    BY Zenon, <2>1, <1>1, <1>2 DEF On
  <2>2. ASSUME NEW e \in Frames, e = f \/ On(e, l) PROVE On(e, k)
    <3>1. CASE e = f
      <4>1. 1 \in 1 .. Len(k)
        BY <1>1
      <4> QED
        BY <3>1, <4>1, <1>1 DEF On
    <3>2. CASE On(e, l)
      <4>1. PICK i \in 1 .. Len(l) : l[i] = e
        BY <3>2 DEF On
      <4>2. i + 1 \in 1 .. Len(k) /\ k[i + 1] = e
        BY <4>1, <1>1
      <4> QED
        BY <4>2 DEF On
    <3> QED
      BY <2>2, <3>1, <3>2
  <2> QED
    BY <2>1, <2>2
<1>4. \A i \in 1 .. Len(l) : l[i] # f /\ l[i] \in Frames
  BY DEF On
<1>5. \A i \in 1 .. Len(k) :
        [w EXCEPT ![f] = fp][k[i]] = IF i = Len(k) THEN NULL ELSE PageInfo(k[i + 1])
  <2> SUFFICES ASSUME NEW i \in 1 .. Len(k)
               PROVE  [w EXCEPT ![f] = fp][k[i]] = IF i = Len(k) THEN NULL ELSE PageInfo(k[i + 1])
    OBVIOUS
  <2>1. CASE i = 1
    <3>1. [w EXCEPT ![f] = fp][k[i]] = fp
      BY <2>1, <1>1
    <3>2. l = << >> <=> Len(k) = 1
      BY <1>1
    <3>3. l # << >> => k[2] = l[1]
      <4> HAVE l # << >>
      <4>1. 1 \in 1 .. Len(l)
        OBVIOUS
      <4> QED
        BY <4>1, <1>1
    <3> QED
      BY <2>1, <3>1, <3>2, <3>3 DEF IsList
  <2>2. CASE i # 1
    <3>1. i - 1 \in 1 .. Len(l) /\ k[i] = l[i - 1]
      BY <2>2, <1>2
    <3>2. [w EXCEPT ![f] = fp][k[i]] = w[l[i - 1]]
      BY <3>1, <1>4
    <3>3. w[l[i - 1]] = IF i - 1 = Len(l) THEN NULL ELSE PageInfo(l[(i - 1) + 1])
      BY <3>1 DEF IsList
    <3>4. i # Len(k) => i \in 1 .. Len(l) /\ k[i + 1] = l[i]
      BY <1>1
    <3> QED
      BY <3>1, <3>2, <3>3, <3>4, <1>1
  <2> QED
    BY <2>1, <2>2
<1>6. \A i, j \in 1 .. Len(k) : k[i] = k[j] => i = j
  <2> SUFFICES ASSUME NEW i \in 1 .. Len(k), NEW j \in 1 .. Len(k), k[i] = k[j]
               PROVE  i = j
    OBVIOUS
  <2>1. CASE i = 1 \/ j = 1
    BY Zenon, <2>1, <1>1, <1>2, <1>4
  <2>2. CASE i # 1 /\ j # 1
    <3>1. i - 1 \in 1 .. Len(l) /\ j - 1 \in 1 .. Len(l) /\ l[i - 1] = l[j - 1]
      BY <2>2, <1>2
    <3>2. i - 1 = j - 1
      BY <3>1 DEF IsList
    <3> QED
      BY <3>2, <1>1
  <2> QED
    BY <2>1, <2>2
<1>7. IsList([w EXCEPT ![f] = fp], PageInfo(f), n + 1, k)
  BY <1>1, <1>5, <1>6 DEF IsList
<1> QED
  BY <1>1, <1>3, <1>7 DEF k

(* Writing the word of a page that is not on the list (Share, free_page).  *)
LEMMA KeepList ==
  ASSUME NEW w \in [Frames -> Int], NEW fp, NEW n, NEW l \in Seq(Frames), NEW f \in Frames,
         IsList(w, fp, n, l), ~On(f, l), NEW x \in Int
  PROVE  IsList([w EXCEPT ![f] = x], fp, n, l)
<1>1. \A i \in 1 .. Len(l) : l[i] # f /\ l[i] \in Frames
  BY DEF On
<1>2. \A i \in 1 .. Len(l) : [w EXCEPT ![f] = x][l[i]] = w[l[i]]
  BY <1>1
<1> QED
  BY <1>2 DEF IsList
-----------------------------------------------------------------------------
(***************************************************************************)
(* The inductive invariant.  Everything that was placed lies below         *)
(* end_kmem; the list is exact already while init_freepages builds it,     *)
(* because the words behind it are still 0.                                *)
(***************************************************************************)
LayoutOf(A, e) ==
  /\ \A s \in Structures : A[s][1] <= A[s][2] /\ A[s][2] <= e
  /\ \A s, t \in Structures : s # t => Apart(A[s], A[t])

Layout == LayoutOf(area, end_kmem)

Nobody == held = [f \in Frames |-> 0] /\ lost = {} /\ halted = "no"

Before ==
  /\ list = << >> /\ freepages = NULL /\ nfreepages = 0
  /\ pginfo = 0 /\ last_page = NULL
  /\ word = [f \in Frames |-> 0]

Building ==
  /\ last_page = IF list = << >> THEN NULL ELSE PageInfo(list[Len(list)])
  /\ \A f \in Frames : f >= pginfo => word[f] = 0
  /\ \A i \in 1 .. Len(list) : list[i] < pginfo
  /\ \A f \in Managed : f < pginfo => On(f, list)

CountedBy(w, h, o, l) ==
  /\ \A f \in Managed : h[f] > 0 \/ f \in o \/ On(f, l)
  /\ \A f \in Frames : h[f] > 0 => w[f] = h[f] /\ f \in Managed /\ ~On(f, l)

Counted == CountedBy(word, held, lost, list)

Placing == phase \in {"pageinfo", "pgtbl", "pcb", "intr"}

MemInv ==
  /\ MemTypeOK
  /\ Layout
  /\ phase # "pageinfo" => paddr = [f \in Frames |-> IF f \in conv THEN f * PER ELSE 0]
  /\ phase # "pageinfo" => end_kmem >= max
  /\ \A i \in 1 .. Len(list) : list[i] \in Managed
  /\ halted # "panic"
  /\ halted = "no" => IsList(word, freepages, nfreepages, list)
  /\ Placing => Nobody /\ Before
  /\ phase = "freepages" => Nobody /\ Building
  /\ Up => Counted

(* The next structure lies behind all others.                              *)
LEMMA Placed ==
  ASSUME NEW A \in [Structures -> Nat \X Nat], NEW e \in Nat, LayoutOf(A, e),
         NEW s \in Structures, NEW a \in Nat, a >= e, NEW n \in Nat
  PROVE  /\ [A EXCEPT ![s] = <<a, a + n>>] \in [Structures -> Nat \X Nat]
         /\ a + n \in Nat
         /\ LayoutOf([A EXCEPT ![s] = <<a, a + n>>], a + n)
<1> DEFINE B == [A EXCEPT ![s] = <<a, a + n>>]
<1>1. B \in [Structures -> Nat \X Nat] /\ a + n \in Nat /\ B[s] = <<a, a + n>>
      /\ \A t \in Structures : t # s => B[t] = A[t]
  OBVIOUS
<1>2. \A t \in Structures : A[t][1] \in Nat /\ A[t][2] \in Nat
                            /\ A[t][1] <= A[t][2] /\ A[t][2] <= e
  BY DEF LayoutOf
<1> HIDE DEF B
<1>3. B[s][1] = a /\ B[s][2] = a + n
  BY <1>1
<1>4. \A t \in Structures : B[t][1] <= B[t][2] /\ B[t][2] <= a + n
  <2> TAKE t \in Structures
  <2>1. CASE t = s
    BY <2>1, <1>3
  <2>2. CASE t # s
    <3>1. B[t] = A[t]
      BY <2>2, <1>1
    <3> QED
      BY <3>1, <1>2
  <2> QED
    BY <2>1, <2>2
<1>5. ASSUME NEW t \in Structures, t # s PROVE Apart(B[s], B[t]) /\ Apart(B[t], B[s])
  <2>1. B[t][2] <= B[s][1]
    BY <1>1, <1>2, <1>3, <1>5
  <2> QED
    BY <2>1 DEF Apart
<1>6. \A t, u \in Structures : t # u => Apart(B[t], B[u])
  <2> SUFFICES ASSUME NEW t \in Structures, NEW u \in Structures, t # u
               PROVE  Apart(B[t], B[u])
    OBVIOUS
  <2>1. CASE t = s \/ u = s
    BY <2>1, <1>5
  <2>2. CASE t # s /\ u # s
    <3>1. B[t] = A[t] /\ B[u] = A[u] /\ Apart(A[t], A[u])
      BY <2>2, <1>1 DEF LayoutOf
    <3> QED
      BY <3>1
  <2> QED
    BY <2>1, <2>2
<1>7. LayoutOf(B, a + n)
  BY <1>4, <1>6 DEF LayoutOf
<1> QED
  BY <1>1, <1>7 DEF B

(* A memory map with nothing placed but the image satisfies the invariant. *)
LEMMA InitInv ==
  ASSUME NEW m \in 0 .. MaxFrames, NEW c \in SUBSET Frames, c \subseteq 0 .. m - 1, MemInit(m, c)
  PROVE  MemInv
<1> USE MemAssumption
<1>1. MemTypeOK
  BY DEF MemTypeOK, MemInit, Phases, Structures, Frames
<1>2. Layout
  <2>1. \A s \in Structures : area[s] = <<0, 0>> \/ (s = "image" /\ area[s] = <<0, IMG>>)
    BY DEF MemInit
  <2>2. \A s \in Structures : area[s][1] = 0 /\ (area[s][2] = 0 \/ area[s][2] = IMG)
                              /\ (s # "image" => area[s][2] = 0)
    BY <2>1
  <2> QED
    BY <2>2 DEF Layout, LayoutOf, Apart, MemInit
<1>3. IsList(word, freepages, nfreepages, list)
  BY DEF IsList, MemInit
<1> QED
  BY <1>1, <1>2, <1>3 DEF MemInv, MemInit, Placing, Nobody, Before, Up

(* The image is followed by the page_info array.                           *)
LEMMA PageinfoInv ==
  ASSUME MemInv, init_kpageinfo
  PROVE  MemInv'
<1> USE DEF init_kpageinfo
<1>1. max \in Nat /\ end_kmem \in Nat /\ area \in [Structures -> Nat \X Nat]
      /\ "k_pageinfo" \in Structures /\ Layout
  BY MemAssumption DEF MemInv, MemTypeOK, Structures
<1>2. area' \in [Structures -> Nat \X Nat] /\ end_kmem' \in Nat /\ Layout'
  <2>1. end_kmem >= end_kmem /\ LayoutOf(area, end_kmem)
    BY <1>1 DEF Layout
  <2>2. area' = [area EXCEPT !["k_pageinfo"] = <<end_kmem, end_kmem + max>>]
        /\ end_kmem' = end_kmem + max
    BY DEF Place
  <2> QED
    BY Zenon, <1>1, <2>1, <2>2, Placed DEF Layout
<1>3. Placing /\ Nobody /\ Before /\ IsList(word, freepages, nfreepages, list)
  BY DEF MemInv, Placing, Nobody
<1>4. word' = word /\ UNCHANGED <<freepages, nfreepages, list>>
  BY <1>3 DEF Before
<1>5. MemTypeOK'
  <2>1. paddr' \in [Frames -> Nat]
    BY MemAssumption DEF Frames
  <2> QED
    BY <1>2, <1>4, <2>1 DEF MemInv, MemTypeOK, Phases, Frames
<1>6. list' = << >> /\ Nobody' /\ Before' /\ IsList(word, freepages, nfreepages, list)'
  BY <1>3, <1>4 DEF Nobody, Before, IsList
<1>7. \A i \in 1 .. Len(list') : list'[i] \in Managed'
  BY <1>6
<1>8. paddr' = [f \in Frames |-> IF f \in conv' THEN f * PER ELSE 0]
  OBVIOUS
<1>9. end_kmem' >= max'
  BY <1>1 DEF Place
<1> QED
  BY <1>2, <1>5, <1>6, <1>7, <1>8, <1>9 DEF MemInv, Placing, Up, Nobody

(* Then come the page tables, the processes with their FPU areas, and the  *)
(* gates, each behind what was there.                                      *)
LEMMA PlacingInv ==
  ASSUME MemInv, phase \in {"pgtbl", "pcb", "intr"},
         phase' \in {"pcb", "intr", "freepages"},
         area' \in [Structures -> Nat \X Nat], end_kmem' \in Nat, Layout',
         end_kmem' >= end_kmem,
         UNCHANGED <<max, conv, paddr, word, freepages, nfreepages, pginfo, last_page,
                     held, list, lost, halted>>
  PROVE  MemInv'
<1>1. Nobody /\ Before /\ IsList(word, freepages, nfreepages, list)
  BY DEF MemInv, Placing, Nobody
<1>2. MemTypeOK'
  BY DEF MemInv, MemTypeOK, Phases
<1>3. list' = << >> /\ Nobody' /\ Before' /\ IsList(word, freepages, nfreepages, list)'
  BY <1>1 DEF Nobody, Before, IsList
<1>4. \A i \in 1 .. Len(list') : list'[i] \in Managed'
  BY <1>3
<1>5. paddr' = [f \in Frames |-> IF f \in conv' THEN f * PER ELSE 0]
  BY DEF MemInv
<1>6. Building'
  <2>1. \A f \in Managed' : ~(f < pginfo')
    BY <1>3 DEF Managed, Before
  <2>2. \A f \in Frames : word'[f] = 0
    BY <1>3 DEF Before
  <2> QED
    BY <1>3, <2>1, <2>2 DEF Building, Before
<1>7. end_kmem' >= max'
  <2>1. max \in Nat /\ end_kmem \in Nat /\ end_kmem >= max
    BY MemAssumption DEF MemInv, MemTypeOK
  <2> QED
    BY <2>1
<1> QED
  BY <1>2, <1>3, <1>4, <1>5, <1>6, <1>7 DEF MemInv, Placing, Up, Nobody

LEMMA TablesInv ==
  ASSUME MemInv, init_kpgtbl \/ init_pcb \/ init_intr
  PROVE  MemInv'
<1>1. end_kmem \in Nat /\ area \in [Structures -> Nat \X Nat] /\ LayoutOf(area, end_kmem)
  BY DEF MemInv, MemTypeOK, Layout
<1>2. CASE init_kpgtbl
  <2>1. ROUNDUP(end_kmem, PER) \in Nat /\ ROUNDUP(end_kmem, PER) >= end_kmem
    BY <1>1, RoundUp, MemAssumption
  <2>2. NTABLES * PER \in Nat /\ "k_pgtbl" \in Structures
    BY MemAssumption DEF Structures
  <2>3. area' \in [Structures -> Nat \X Nat] /\ end_kmem' \in Nat /\ Layout'
    BY Zenon, <1>1, <1>2, <2>1, <2>2, Placed DEF init_kpgtbl, Place, Layout
  <2>4. end_kmem' >= end_kmem
    BY <1>1, <1>2, <2>1, <2>2 DEF init_kpgtbl, Place
  <2> QED
    BY <1>2, <2>3, <2>4, PlacingInv DEF init_kpgtbl
<1>3. CASE init_pcb
  <2> DEFINE p == ROUNDUP(end_kmem, PROC)
             n == NPROCS * PROC
             q == ROUNDUP(p + n, PER)
             k == NPROCS * FX
             A == [area EXCEPT !["procs"] = <<p, p + n>>]
  <2>1. n \in Nat /\ k \in Nat /\ "procs" \in Structures /\ "fx_ctxs" \in Structures
    BY MemAssumption DEF Structures
  <2>2. p \in Nat /\ p >= end_kmem
    BY <1>1, RoundUp, MemAssumption
  <2>3. p + n \in Nat
    BY <2>1, <2>2
  <2>4. q \in Nat /\ q >= p + n
    <3> HIDE DEF p, n
    <3> QED BY <2>3, RoundUp, MemAssumption
  <2>5. area' = [A EXCEPT !["fx_ctxs"] = <<q, q + k>>] /\ end_kmem' = q + k
    BY <1>3 DEF init_pcb
  <2> HIDE DEF p, n, q, k
  <2>6. A \in [Structures -> Nat \X Nat] /\ LayoutOf(A, p + n)
    BY Zenon, <1>1, <2>1, <2>2, Placed
  <2> HIDE DEF A
  <2>7. area' \in [Structures -> Nat \X Nat] /\ end_kmem' \in Nat /\ Layout'
    BY Zenon, <2>1, <2>3, <2>4, <2>5, <2>6, Placed DEF Layout
  <2>8. end_kmem' >= end_kmem
    BY <1>1, <2>1, <2>2, <2>3, <2>4, <2>5
  <2> QED
    BY <1>3, <2>7, <2>8, PlacingInv DEF init_pcb
<1>4. CASE init_intr
  <2>1. IDT \in Nat /\ "idt" \in Structures
    BY MemAssumption DEF Structures
  <2>2. area' \in [Structures -> Nat \X Nat] /\ end_kmem' \in Nat /\ Layout'
    <3>1. end_kmem >= end_kmem
      BY <1>1
    <3>2. area' = [area EXCEPT !["idt"] = <<end_kmem, end_kmem + IDT>>]
          /\ end_kmem' = end_kmem + IDT
      BY <1>4 DEF init_intr, Place
    <3> QED
      BY Zenon, <1>1, <2>1, <3>1, <3>2, Placed DEF Layout
  <2>3. end_kmem' >= end_kmem
    BY <1>1, <1>4, <2>1 DEF init_intr, Place
  <2> QED
    BY <1>4, <2>2, <2>3, PlacingInv DEF init_intr, Place
<1> QED
  BY <1>2, <1>3, <1>4

(* Linking a page behind the last one (the loop of init_freepages).        *)
Linked(w, fp, l, f, last, v, h) ==
  /\ ~On(f, l) /\ w[f] = NULL
  /\ last = IF l = << >> THEN NULL ELSE PageInfo(l[Len(l)])
  /\ \A e \in Frames : v[e] = IF PageInfo(e) = last THEN PageInfo(f) ELSE w[e]
  /\ h = IF last # NULL THEN fp ELSE PageInfo(f)

(* The list is longer by that page.                                        *)
LEMMA LinkList ==
  ASSUME NEW w \in [Frames -> Int], NEW fp, NEW n \in Nat, NEW l \in Seq(Frames),
         NEW f \in Frames, NEW last, NEW v, NEW h,
         IsList(w, fp, n, l), Linked(w, fp, l, f, last, v, h)
  PROVE  /\ IsList(v, h, n + 1, Append(l, f))
         /\ \A e \in Frames : On(e, Append(l, f)) <=> e = f \/ On(e, l)
<1>0. /\ ~On(f, l) /\ w[f] = NULL
      /\ last = IF l = << >> THEN NULL ELSE PageInfo(l[Len(l)])
      /\ \A e \in Frames : v[e] = IF PageInfo(e) = last THEN PageInfo(f) ELSE w[e]
      /\ h = IF last # NULL THEN fp ELSE PageInfo(f)
  BY DEF Linked
<1> USE <1>0
<1> DEFINE k == Append(l, f)
<1>1. k \in Seq(Frames) /\ Len(k) = Len(l) + 1 /\ k # << >> /\ k[Len(l) + 1] = f
      /\ \A i \in 1 .. Len(l) : k[i] = l[i]
  OBVIOUS
<1>2. Len(l) \in Nat /\ (l = << >> <=> Len(l) = 0) /\ \A i \in 1 .. Len(l) : l[i] \in Frames
  BY EmptySeq
<1> HIDE DEF k
<1>3. \A i \in 1 .. Len(k) : (i \in 1 .. Len(l) /\ k[i] = l[i]) \/ (i = Len(k) /\ k[i] = f)
  BY <1>1, <1>2
<1>4. \A i \in 1 .. Len(l) : l[i] # f
  BY DEF On
<1>5. \A e \in Frames : PageInfo(e) = last <=> l # << >> /\ e = l[Len(l)]
  <2>1. l # << >> => l[Len(l)] \in Frames
    BY <1>2
  <2> QED
    BY <2>1 DEF PageInfo, NULL, Frames
<1>6. \A i \in 1 .. Len(k) : v[k[i]] = IF i = Len(k) THEN NULL ELSE PageInfo(k[i + 1])
  <2> SUFFICES ASSUME NEW i \in 1 .. Len(k)
               PROVE  v[k[i]] = IF i = Len(k) THEN NULL ELSE PageInfo(k[i + 1])
    OBVIOUS
  <2>1. CASE i = Len(k)
    <3>1. k[i] = f
      BY <2>1, <1>1
    <3>2. ~(l # << >> /\ f = l[Len(l)])
      BY <1>2, <1>4
    <3>3. v[f] = w[f]
      BY <1>5, <3>2
    <3> QED
      BY <2>1, <3>1, <3>3
  <2>2. CASE i = Len(l) /\ i \in 1 .. Len(l)
    <3>1. k[i] = l[Len(l)] /\ l # << >> /\ k[i] \in Frames /\ i # Len(k) /\ k[i + 1] = f
      BY <2>2, <1>1, <1>2
    <3>2. PageInfo(k[i]) = last
      BY <3>1, <1>5
    <3>3. v[k[i]] = PageInfo(f)
      BY <3>1, <3>2
    <3> QED
      BY <3>1, <3>3
  <2>3. CASE i # Len(l) /\ i \in 1 .. Len(l)
    <3>1. k[i] = l[i] /\ l[i] \in Frames /\ i # Len(k) /\ i + 1 \in 1 .. Len(l)
          /\ k[i + 1] = l[i + 1] /\ Len(l) \in 1 .. Len(l)
      BY <2>3, <1>1, <1>2
    <3>2. l[i] # l[Len(l)]
      BY <2>3, <3>1 DEF IsList
    <3>3. PageInfo(l[i]) # last
      BY <3>1, <3>2, <1>5
    <3>4. v[l[i]] = w[l[i]]
      BY <3>1, <3>3
    <3>5. w[l[i]] = PageInfo(l[i + 1])
      BY <2>3, <3>1 DEF IsList
    <3> QED
      BY <3>1, <3>4, <3>5
  <2> QED
    BY <2>1, <2>2, <2>3, <1>3
<1>7. \A i, j \in 1 .. Len(k) : k[i] = k[j] => i = j
  <2> SUFFICES ASSUME NEW i \in 1 .. Len(k), NEW j \in 1 .. Len(k), k[i] = k[j]
               PROVE  i = j
    OBVIOUS
  <2> QED
    BY <1>3, <1>4 DEF IsList
<1>8. h = PageInfo(k[1])
  <2>1. CASE l = << >>
    BY <2>1, <1>1, <1>2
  <2>2. CASE l # << >>
    <3>1. 1 \in 1 .. Len(l) /\ Len(l) \in 1 .. Len(l) /\ k[1] = l[1] /\ l[Len(l)] \in Frames
      BY <2>2, <1>1, <1>2
    <3>2. last # NULL
      BY <2>2, <3>1 DEF PageInfo, NULL, Frames
    <3> QED
      BY <2>2, <3>1, <3>2 DEF IsList
  <2> QED
    BY <2>1, <2>2
<1>9. IsList(v, h, n + 1, k)
  <2>1. n + 1 = Len(k)
    BY <1>1 DEF IsList
  <2> QED
    BY <1>1, <1>6, <1>7, <1>8, <2>1 DEF IsList
<1>10. \A e \in Frames : On(e, k) <=> e = f \/ On(e, l)
  <2> TAKE e \in Frames
  <2>1. ASSUME On(e, k) PROVE e = f \/ On(e, l)
    BY <2>1, <1>3 DEF On
  <2>2. ASSUME On(e, l) PROVE On(e, k)
    <3>1. PICK i \in 1 .. Len(l) : l[i] = e
      BY <2>2 DEF On
    <3>2. i \in 1 .. Len(k) /\ k[i] = e
      BY <3>1, <1>1, <1>2
    <3> QED
      BY <3>2 DEF On
  <2>3. On(f, k)
    <3>1. Len(l) + 1 \in 1 .. Len(k)
      BY <1>1, <1>2
    <3> QED
      BY <3>1, <1>1 DEF On
  <2> QED
    BY <2>1, <2>2, <2>3
<1> QED
  BY <1>9, <1>10 DEF k

(* A round of init_freepages takes a page if, and only if, it is usable.   *)
LEMMA ListPageInv ==
  ASSUME MemInv, ListPage
  PROVE  MemInv'
<1> USE DEF ListPage
<1>1. /\ phase = "freepages" /\ MemTypeOK /\ Nobody /\ Building
      /\ IsList(word, freepages, nfreepages, list)
      /\ \A i \in 1 .. Len(list) : list[i] \in Managed
      /\ paddr = [f \in Frames |-> IF f \in conv THEN f * PER ELSE 0] /\ end_kmem >= max
  BY DEF MemInv, Nobody
<1>2. /\ max \in Nat /\ pginfo \in Frames /\ pginfo \in Nat /\ pginfo < max /\ end_kmem \in Nat
      /\ word \in [Frames -> Int] /\ nfreepages \in Nat /\ list \in Seq(Frames)
  BY <1>1, MemAssumption DEF MemTypeOK, Frames
<1>3. ~InKernel <=> pginfo \in Managed
  <2>1. paddr[pginfo] = IF pginfo \in conv THEN pginfo * PER ELSE 0
    BY <1>1, <1>2
  <2>2. pginfo * PER \in Nat
    BY <1>2, Scale
  <2> QED
    BY <1>1, <1>2, <2>1, <2>2 DEF InKernel, Managed
<1>4. Nobody' /\ Layout' /\ Managed' = Managed
  BY <1>1 DEF Nobody, MemInv, Layout, Managed
<1>0. \A i \in 1 .. Len(list) : list[i] \in Frames /\ list[i] \in Nat /\ list[i] < pginfo
  <2>1. \A i \in 1 .. Len(list) : list[i] \in Frames /\ list[i] < pginfo
    BY <1>1, <1>2 DEF Building
  <2> QED
    BY <2>1 DEF Frames
<1>5. CASE InKernel
  <2>1. UNCHANGED <<word, freepages, nfreepages, list, last_page>>
    <3>1. word[pginfo] = NULL
      BY <1>1, <1>2 DEF Building, NULL
    <3>2. [word EXCEPT ![pginfo] = NULL] = word
      BY <3>1, <1>2
    <3> QED
      BY <1>5, <3>2
  <2>2. MemTypeOK'
    BY <2>1, <1>1, <1>2 DEF MemTypeOK
  <2>3. IsList(word, freepages, nfreepages, list)' /\ \A i \in 1 .. Len(list') : list'[i] \in Managed'
    BY <2>1, <1>1, <1>4
  <2>4. Building'
    <3>1. \A f \in Managed : f < pginfo + 1 => On(f, list)
      <4>1. \A f \in Managed : f \in Nat
        BY <1>2 DEF Managed
      <4> QED
        BY <4>1, <1>1, <1>2, <1>3, <1>5 DEF Building
    <3>2. \A i \in 1 .. Len(list) : list[i] < pginfo + 1
      BY <1>0, <1>2
    <3>3. \A f \in Frames : f >= pginfo + 1 => word[f] = 0
      BY <1>1, <1>2 DEF Building, Frames
    <3> QED
      BY <2>1, <1>1, <1>4, <3>1, <3>2, <3>3 DEF Building
  <2> QED
    BY <2>2, <2>3, <2>4, <1>1, <1>4 DEF MemInv, Placing, Up, Nobody
<1>6. CASE ~InKernel
  <2>1. /\ last_page = IF list = << >> THEN NULL ELSE PageInfo(list[Len(list)])
        /\ word[pginfo] = NULL
        /\ ~On(pginfo, list)
    BY <1>1, <1>2 DEF Building, NULL, On
  <2>2. /\ word' = [e \in Frames |-> IF PageInfo(e) = last_page THEN PageInfo(pginfo) ELSE word[e]]
        /\ freepages' = IF last_page # NULL THEN freepages ELSE PageInfo(pginfo)
        /\ nfreepages' = nfreepages + 1 /\ list' = Append(list, pginfo)
        /\ last_page' = PageInfo(pginfo)
    BY <1>6
  <2>4. IsList(word, freepages, nfreepages, list)'
        /\ \A e \in Frames : On(e, list') <=> e = pginfo \/ On(e, list)
    <3>1. PICK v, h : v = word' /\ h = freepages'
      OBVIOUS
    <3>2. Linked(word, freepages, list, pginfo, last_page, v, h)
      BY <2>1, <2>2, <3>1 DEF Linked
    <3>3. IsList(word, freepages, nfreepages, list)
      BY <1>1
    <3>4. /\ IsList(v, h, nfreepages + 1, Append(list, pginfo))
          /\ \A e \in Frames : On(e, Append(list, pginfo)) <=> e = pginfo \/ On(e, list)
      BY ONLY Zenon, <3>2, <3>3, <1>2, LinkList
    <3> QED
      BY <2>2, <3>1, <3>4
  <2>5. list' \in Seq(Frames) /\ Len(list') = Len(list) + 1 /\ Len(list) \in Nat
        /\ list'[Len(list')] = pginfo /\ list' # << >>
        /\ \A i \in 1 .. Len(list') : list'[i] = pginfo \/ \E j \in 1 .. Len(list) : list'[i] = list[j]
    BY <2>2, <1>2
  <2>6. \A f \in Frames : PageInfo(f) \in Int
    BY DEF PageInfo, Frames
  <2>7. MemTypeOK'
    <3>1. word' \in [Frames -> Int]
      BY <2>2, <2>6, <1>2
    <3>2. freepages' \in {NULL} \cup {PageInfo(f) : f \in Frames}
          /\ last_page' \in {NULL} \cup {PageInfo(f) : f \in Frames}
      <4>1. freepages \in {NULL} \cup {PageInfo(f) : f \in Frames}
        BY <1>1 DEF MemTypeOK
      <4>2. PageInfo(pginfo) \in {PageInfo(f) : f \in Frames}
        BY <1>2
      <4> QED
        BY <2>2, <4>1, <4>2
    <3> QED
      BY <2>2, <2>5, <3>1, <3>2, <1>1, <1>2 DEF MemTypeOK
  <2>8. \A i \in 1 .. Len(list') : list'[i] \in Managed'
    BY <2>5, <1>1, <1>3, <1>4, <1>6
  <2>9. Building'
    <3>1. \A f \in Managed : f < pginfo + 1 => On(f, list')
      <4>1. \A f \in Managed : f \in Nat /\ f \in Frames
        <5>1. max \in 0 .. MaxFrames
          BY <1>1 DEF MemTypeOK
        <5> QED
          BY <5>1, MemAssumption DEF Managed, Frames
      <4> QED
        BY <4>1, <1>1, <1>2, <2>4 DEF Building
    <3>2. \A i \in 1 .. Len(list') : list'[i] < pginfo + 1
      <4> TAKE i \in 1 .. Len(list')
      <4>1. list'[i] = pginfo \/ (list'[i] \in Nat /\ list'[i] < pginfo)
        BY <2>5, <1>0
      <4> QED
        BY <4>1, <1>2
    <3>3. \A f \in Frames : f >= pginfo + 1 => word'[f] = 0
      <4> SUFFICES ASSUME NEW f \in Frames, f >= pginfo + 1 PROVE word'[f] = 0
        OBVIOUS
      <4>1. word[f] = 0 /\ f \in Nat
        BY <1>1, <1>2 DEF Building, Frames
      <4>2. PageInfo(f) # last_page
        <5>1. list # << >> => list[Len(list)] \in Nat /\ list[Len(list)] < pginfo
          <6> HAVE list # << >>
          <6>1. Len(list) \in 1 .. Len(list)
            BY <1>2
          <6> QED
            BY <6>1, <1>0
        <5> QED
          BY <5>1, <2>1, <1>2, <4>1 DEF PageInfo, NULL
      <4> QED
        BY <4>1, <4>2, <2>2
    <3>4. last_page' = PageInfo(list'[Len(list')])
      BY <2>2, <2>5
    <3> QED
      BY <2>5, <1>4, <3>1, <3>2, <3>3, <3>4 DEF Building
  <2> QED
    BY <2>4, <2>7, <2>8, <2>9, <1>1, <1>4 DEF MemInv, Placing, Up, Nobody
<1> QED
  BY <1>5, <1>6

(* The end of init_freepages and the first process.                        *)
LEMMA ListEndInv ==
  ASSUME MemInv, ListEnd
  PROVE  MemInv'
<1> USE DEF ListEnd
<1>1. /\ MemTypeOK /\ Nobody /\ Building /\ IsList(word, freepages, nfreepages, list)
      /\ max \in Nat /\ pginfo = max /\ list \in Seq(Frames) /\ word \in [Frames -> Int]
  BY MemAssumption DEF MemInv, MemTypeOK, Nobody
<1>2. word' = word
  <2>1. ASSUME NEW f \in Frames, PageInfo(f) = last_page PROVE word[f] = NULL
    <3>1. list # << >> /\ PageInfo(list[Len(list)]) = PageInfo(f)
      BY <2>1, <1>1 DEF Building, PageInfo, NULL, Frames
    <3>2. Len(list) \in 1 .. Len(list) /\ list[Len(list)] \in Frames
      BY <3>1, <1>1
    <3>3. list[Len(list)] = f
      BY <3>1, <3>2 DEF PageInfo, Frames
    <3> QED
      BY <3>2, <3>3, <1>1 DEF IsList
  <2>2. word' \in [Frames -> Int] /\ \A f \in Frames : word'[f] = word[f]
    BY <2>1, <1>1 DEF NULL
  <2> QED
    BY <2>2, <1>1
<1>3. MemTypeOK' /\ Layout' /\ Managed' = Managed /\ Nobody'
      /\ IsList(word, freepages, nfreepages, list)'
  BY Zenon, <1>1, <1>2 DEF MemInv, MemTypeOK, Layout, Managed, Nobody, Phases
<1>4. Counted'
  <2>1. \A f \in Managed : f \in Nat /\ f < max
    BY <1>1 DEF Managed
  <2>2. \A f \in Managed : On(f, list)
    BY <2>1, <1>1 DEF Building
  <2>3. \A f \in Frames : ~(held'[f] > 0)
    BY <1>3 DEF Nobody
  <2> QED
    BY Zenon, <2>2, <2>3, <1>3 DEF Counted, CountedBy
<1> QED
  BY <1>3, <1>4 DEF MemInv, Placing, Up, Nobody

LEMMA FirstProcInv ==
  ASSUME MemInv, FirstProc
  PROVE  MemInv'
BY DEF MemInv, FirstProc, MemTypeOK, Phases, Layout, Managed, Placing, Up, Counted, CountedBy

(* Every page that is managed has a page_info.                             *)
LEMMA ManagedFrames ==
  ASSUME MemTypeOK
  PROVE  Managed \subseteq Frames
<1>1. max \in 0 .. MaxFrames
  BY DEF MemTypeOK
<1> QED
  BY <1>1, MemAssumption DEF Managed, Frames

(***************************************************************************)
(* A page is taken after the words, the references and the lost pages      *)
(* became W, H and O: nothing for alloc_page, one reference given up for   *)
(* the copy of a page.                                                     *)
(***************************************************************************)
LEMMA AllocInv ==
  ASSUME MemInv, Up, UNCHANGED booted, NEW g \in Frames,
         NEW W \in [Frames -> Int], NEW H \in [Frames -> Nat], NEW O \in SUBSET Frames,
         IsList(W, freepages, nfreepages, list), W[g] = word[g], CountedBy(W, H, O, list),
         AllocFrom(W, H, O, g)
  PROVE  MemInv'
<1>1. /\ MemTypeOK /\ phase \in {"boot", "run"} /\ halted = "no"
      /\ list \in Seq(Frames) /\ nfreepages \in Nat /\ freepages = PageInfo(g)
      /\ \A i \in 1 .. Len(list) : list[i] \in Managed
  BY Zenon DEF MemInv, MemTypeOK, Up, AllocFrom
<1>2. Layout' /\ Managed' = Managed /\ UNCHANGED <<phase, max, conv, area, end_kmem, paddr>>
  BY DEF MemInv, Layout, Managed, booted
<1>3. /\ list # << >> /\ list[1] = g /\ Len(list) >= 1
      /\ Tail(list) \in Seq(Frames)
      /\ IsList([W EXCEPT ![g] = 1], W[g], nfreepages - 1, Tail(list))
      /\ ~On(g, Tail(list))
      /\ \A f \in Frames : f # g /\ On(f, list) => On(f, Tail(list))
      /\ \A f \in Frames : On(f, Tail(list)) => On(f, list)
  BY ONLY <1>1, IsList(W, freepages, nfreepages, list), PopList, 1 \in Int,
          W \in [Frames -> Int], g \in Frames, Zenon
<1>4. freepages' = W[g] /\ freepages' \in {NULL} \cup {PageInfo(f) : f \in Frames}
  <2>1. freepages' = W[g]
    BY DEF AllocFrom
  <2>2. W[g] = IF Tail(list) = << >> THEN NULL ELSE PageInfo(Tail(list)[1])
    BY <1>3 DEF IsList
  <2>3. Tail(list) # << >> => Tail(list)[1] \in Frames
    BY <1>3
  <2> QED
    BY <2>1, <2>2, <2>3
<1>5. CASE word' = W /\ halted' = "fault" /\ UNCHANGED <<nfreepages, held, list, lost>>
  <2>1. MemTypeOK'
    BY <1>1, <1>2, <1>4, <1>5 DEF MemTypeOK, booted
  <2> QED
    BY <2>1, <1>1, <1>2, <1>5 DEF MemInv, Placing, Up
<1>6. CASE /\ word' = [W EXCEPT ![g] = 1] /\ nfreepages' = nfreepages - 1
           /\ held' = [H EXCEPT ![g] = 1] /\ list' = Tail(list) /\ lost' = O
           /\ UNCHANGED halted
  <2>1. nfreepages' \in Nat
    BY <1>1, <1>3, <1>6 DEF IsList
  <2>2. word' \in [Frames -> Int] /\ held' \in [Frames -> Nat]
    BY <1>6
  <2>3. MemTypeOK'
    BY Zenon, <1>1, <1>2, <1>3, <1>4, <1>6, <2>1, <2>2 DEF MemTypeOK, booted
  <2>4. IsList(word, freepages, nfreepages, list)'
    BY <1>3, <1>4, <1>6
  <2>5. \A i \in 1 .. Len(list') : list'[i] \in Managed'
    <3>1. \A i \in 1 .. Len(Tail(list)) : i + 1 \in 1 .. Len(list) /\ Tail(list)[i] = list[i + 1]
      BY <1>1, <1>3
    <3> QED
      BY Zenon, <3>1, <1>1, <1>2, <1>6
  <2>6. Counted'
    <3>1. 1 \in 1 .. Len(list) /\ g \in Managed
      BY <1>1, <1>3
    <3>2. \A f \in Frames : f # g => held'[f] = H[f] /\ word'[f] = W[f]
      BY <1>6
    <3>3. held'[g] = 1 /\ word'[g] = 1
      BY <1>6
    <3>4. Managed \subseteq Frames
      BY <1>1, ManagedFrames
    <3>5. \A f \in Managed : held'[f] > 0 \/ f \in O \/ On(f, Tail(list))
      BY <1>3, <3>2, <3>3, <3>4 DEF CountedBy
    <3>6. \A f \in Frames : held'[f] > 0 =>
            word'[f] = held'[f] /\ f \in Managed /\ ~On(f, Tail(list))
      BY <1>3, <3>1, <3>2, <3>3 DEF CountedBy
    <3> QED
      BY <1>2, <1>6, <3>5, <3>6 DEF Counted, CountedBy
  <2> QED
    BY <2>3, <2>4, <2>5, <2>6, <1>1, <1>2, <1>6 DEF MemInv, Placing, Up
<1> QED
  BY <1>5, <1>6 DEF AllocFrom

LEMMA AllocPageInv ==
  ASSUME MemInv, NEW g \in Frames, alloc_page(g)
  PROVE  MemInv'
<1>1. /\ Up /\ UNCHANGED booted /\ AllocFrom(word, held, lost, g)
      /\ word \in [Frames -> Int] /\ held \in [Frames -> Nat] /\ lost \in SUBSET Frames
      /\ IsList(word, freepages, nfreepages, list) /\ CountedBy(word, held, lost, list)
  BY DEF alloc_page, MemInv, MemTypeOK, Up, Counted
<1> QED
  BY <1>1, AllocInv

(* U2K and the page fault handler give up a reference and take a page.     *)
LEMMA CopyPageInv ==
  ASSUME MemInv, NEW f \in Frames, NEW g \in Frames, CopyPage(f, g)
  PROVE  MemInv'
<1> DEFINE W == [word EXCEPT ![f] = @ - 1]
           H == [held EXCEPT ![f] = @ - 1]
           O == IF held[f] = 1 THEN lost \cup {f} ELSE lost
<1>1. /\ Up /\ UNCHANGED booted /\ AllocFrom(W, H, O, g) /\ held[f] > 0
      /\ word \in [Frames -> Int] /\ held \in [Frames -> Nat] /\ lost \in SUBSET Frames
      /\ list \in Seq(Frames) /\ freepages = PageInfo(g)
      /\ IsList(word, freepages, nfreepages, list) /\ CountedBy(word, held, lost, list)
  BY Zenon DEF CopyPage, MemInv, MemTypeOK, Up, Counted, AllocFrom
<1>2. word[f] = held[f] /\ f \in Managed /\ ~On(f, list)
  BY <1>1 DEF CountedBy
<1>3. W \in [Frames -> Int] /\ H \in [Frames -> Nat] /\ O \in SUBSET Frames
      /\ word[f] - 1 \in Int
  BY <1>1
<1>4. IsList(W, freepages, nfreepages, list)
  BY ONLY Zenon, <1>1, <1>2, <1>3, KeepList, f \in Frames
<1>5. g # f
  <2>1. list # << >> /\ list[1] = g /\ Len(list) >= 1
    BY ONLY <1>1, PopList, g \in Frames, 1 \in Int
  <2>2. On(g, list)
    BY <2>1, <1>1 DEF On
  <2> QED
    BY <2>2, <1>2
<1>6. W[g] = word[g]
  BY <1>5, <1>1
<1>7. CountedBy(W, H, O, list)
  <2>1. \A e \in Frames : e # f => W[e] = word[e] /\ H[e] = held[e]
    BY <1>1
  <2>2. W[f] = word[f] - 1 /\ H[f] = held[f] - 1
    BY <1>1
  <2>3. (H[f] > 0 \/ f \in O) /\ lost \subseteq O
    BY <2>2, <1>1
  <2>4. MemTypeOK
    BY DEF MemInv
  <2> HIDE DEF W, H, O
  <2>5. \A e \in Managed : H[e] > 0 \/ e \in O \/ On(e, list)
    BY <2>1, <2>3, <2>4, <1>1, ManagedFrames DEF CountedBy
  <2>6. \A e \in Frames : H[e] > 0 => W[e] = H[e] /\ e \in Managed /\ ~On(e, list)
    BY Zenon, <2>1, <2>2, <1>1, <1>2 DEF CountedBy
  <2> QED
    BY <2>5, <2>6 DEF CountedBy
<1> HIDE DEF W, H, O
<1> QED
  BY Zenon, <1>1, <1>3, <1>4, <1>6, <1>7, AllocInv

(* copy_pgtbl counts another owner.                                        *)
LEMMA ShareInv ==
  ASSUME MemInv, NEW f \in Frames, Share(f)
  PROVE  MemInv'
<1>1. /\ MemTypeOK /\ Up /\ UNCHANGED <<freepages, nfreepages, list, lost, halted>>
      /\ UNCHANGED <<phase, max, conv, area, end_kmem, paddr, pginfo, last_page>>
      /\ word' = [word EXCEPT ![f] = @ + 1] /\ held' = [held EXCEPT ![f] = @ + 1]
      /\ word \in [Frames -> Int] /\ held \in [Frames -> Nat] /\ list \in Seq(Frames)
      /\ held[f] > 0
      /\ IsList(word, freepages, nfreepages, list) /\ CountedBy(word, held, lost, list)
  <2>1. held[f] \in 1 .. MaxRef - 1 /\ held \in [Frames -> Nat]
    BY DEF Share, MemInv, MemTypeOK
  <2>2. held[f] > 0
    BY <2>1, MemAssumption
  <2> QED
    BY <2>2 DEF Share, booted, MemInv, MemTypeOK, Up, Counted
<1>2. word[f] = held[f] /\ f \in Managed /\ ~On(f, list) /\ word[f] + 1 \in Int
  BY <1>1 DEF CountedBy
<1>3. IsList(word, freepages, nfreepages, list)'
  <2>1. IsList([word EXCEPT ![f] = word[f] + 1], freepages, nfreepages, list)
    BY ONLY Zenon, <1>1, <1>2, KeepList, f \in Frames
  <2> QED
    BY <2>1, <1>1
<1>4. MemTypeOK' /\ Layout' /\ Managed' = Managed
  BY <1>1 DEF MemTypeOK, MemInv, Layout, Managed
<1>5. Counted'
  <2>1. \A e \in Frames : e # f => word'[e] = word[e] /\ held'[e] = held[e]
    BY <1>1
  <2>2. word'[f] = held'[f] /\ held'[f] > 0
    BY <1>1, <1>2
  <2>3. \A e \in Managed : held'[e] > 0 \/ e \in lost \/ On(e, list)
    BY <2>1, <2>2, <1>1, ManagedFrames DEF CountedBy
  <2>4. \A e \in Frames : held'[e] > 0 => word'[e] = held'[e] /\ e \in Managed /\ ~On(e, list)
    BY <2>1, <2>2, <1>1, <1>2 DEF CountedBy
  <2> QED
    BY <2>3, <2>4, <1>1, <1>4 DEF Counted, CountedBy
<1>6. \A i \in 1 .. Len(list') : list'[i] \in Managed'
  BY <1>1, <1>4 DEF MemInv
<1> QED
  BY <1>1, <1>3, <1>4, <1>5, <1>6 DEF MemInv, Placing, Up

(* free_page never panics; the last reference puts the page on the list.   *)
LEMMA FreePageInv ==
  ASSUME MemInv, NEW f \in Frames, free_page(f)
  PROVE  MemInv'
<1>1. /\ MemTypeOK /\ Up /\ halted = "no" /\ phase \in {"boot", "run"}
      /\ UNCHANGED <<phase, max, conv, area, end_kmem, paddr, pginfo, last_page, lost>>
      /\ held' = [held EXCEPT ![f] = @ - 1] /\ held[f] > 0
      /\ word \in [Frames -> Int] /\ held \in [Frames -> Nat] /\ list \in Seq(Frames)
      /\ nfreepages \in Nat /\ max \in Nat /\ end_kmem \in Nat
      /\ \A i \in 1 .. Len(list) : list[i] \in Managed
      /\ paddr = [e \in Frames |-> IF e \in conv THEN e * PER ELSE 0]
      /\ IsList(word, freepages, nfreepages, list) /\ CountedBy(word, held, lost, list)
  <2>1. /\ Up /\ held[f] > 0 /\ held' = [held EXCEPT ![f] = @ - 1]
        /\ UNCHANGED <<phase, max, conv, area, end_kmem, paddr, pginfo, last_page, lost>>
    BY DEF free_page, booted
  <2>2. /\ MemTypeOK /\ halted = "no" /\ phase \in {"boot", "run"}
        /\ \A i \in 1 .. Len(list) : list[i] \in Managed
        /\ paddr = [e \in Frames |-> IF e \in conv THEN e * PER ELSE 0]
        /\ IsList(word, freepages, nfreepages, list) /\ CountedBy(word, held, lost, list)
    BY <2>1 DEF MemInv, Up, Counted
  <2>3. /\ word \in [Frames -> Int] /\ held \in [Frames -> Nat] /\ list \in Seq(Frames)
        /\ nfreepages \in Nat /\ max \in Nat /\ end_kmem \in Nat
    BY <2>2, MemAssumption DEF MemTypeOK
  <2> QED
    BY <2>1, <2>2, <2>3
<1>2. word[f] = held[f] /\ f \in Managed /\ ~On(f, list) /\ held[f] \in Nat
  BY <1>1 DEF CountedBy
<1>3. ~(paddr[f] < end_kmem \/ paddr[f] >= max * PER \/ word[f] <= 0)
  <2>1. paddr[f] = f * PER /\ f * PER >= end_kmem /\ f \in Nat /\ f < max
    BY <1>1, <1>2 DEF Managed
  <2>2. f * PER \in Nat /\ f * PER < max * PER
    BY <2>1, <1>1, Scale
  <2>3. max * PER \in Nat
    BY <1>1, MemAssumption
  <2> QED
    BY <2>1, <2>2, <2>3, <1>1, <1>2
<1>4. Layout' /\ Managed' = Managed /\ halted' = halted /\ held' \in [Frames -> Nat]
  BY <1>1, <1>3 DEF MemInv, Layout, Managed, free_page
<1>5. \A e \in Frames : e # f => held'[e] = held[e]
  BY <1>1
<1>6. CASE LastRef(f)
  <2>1. /\ word' = [word EXCEPT ![f] = freepages] /\ freepages' = PageInfo(f)
        /\ nfreepages' = nfreepages + 1 /\ list' = <<f>> \o list
    BY <1>3, <1>6 DEF free_page
  <2>2. freepages \in Int
    BY <1>1 DEF MemTypeOK, PageInfo, NULL, Frames
  <2>3. /\ <<f>> \o list \in Seq(Frames)
        /\ IsList([word EXCEPT ![f] = freepages], PageInfo(f), nfreepages + 1, <<f>> \o list)
        /\ \A e \in Frames : On(e, <<f>> \o list) <=> e = f \/ On(e, list)
    BY ONLY Zenon, <1>1, <1>2, <2>2, PushList, f \in Frames
  <2>4. IsList(word, freepages, nfreepages, list)'
    BY <2>1, <2>3
  <2>5. held[f] = 1 /\ held'[f] = 0
    BY <1>1, <1>2, <1>6 DEF LastRef
  <2>6. MemTypeOK'
    <3>1. word' \in [Frames -> Int] /\ nfreepages' \in Nat /\ list' \in Seq(Frames)
      BY <2>1, <2>2, <2>3, <1>1
    <3>2. freepages' \in {NULL} \cup {PageInfo(e) : e \in Frames}
      BY <2>1
    <3> QED
      BY <3>1, <3>2, <1>1, <1>4 DEF MemTypeOK
  <2>7. \A i \in 1 .. Len(list') : list'[i] \in Managed'
    <3> SUFFICES ASSUME NEW i \in 1 .. Len(list') PROVE list'[i] \in Managed
      BY <1>4
    <3>1. list'[i] \in Frames /\ On(list'[i], list')
      BY <2>1, <2>3 DEF On
    <3>2. list'[i] = f \/ On(list'[i], list)
      BY <3>1, <2>1, <2>3
    <3> QED
      BY <3>2, <1>1, <1>2 DEF On
  <2>8. Counted'
    <3>1. \A e \in Frames : e # f => word'[e] = word[e]
      BY <2>1, <1>1
    <3>2. \A e \in Managed : held'[e] > 0 \/ e \in lost \/ On(e, list')
      BY Zenon, <2>1, <2>3, <1>1, <1>5, ManagedFrames DEF CountedBy
    <3>3. \A e \in Frames : held'[e] > 0 => word'[e] = held'[e] /\ e \in Managed /\ ~On(e, list')
      <4> SUFFICES ASSUME NEW e \in Frames, held'[e] > 0
                   PROVE  word'[e] = held'[e] /\ e \in Managed /\ ~On(e, list')
        OBVIOUS
      <4>1. e # f
        BY <2>5
      <4>2. held'[e] = held[e] /\ word'[e] = word[e]
        BY <4>1, <3>1, <1>5
      <4>3. word[e] = held[e] /\ e \in Managed /\ ~On(e, list)
        BY <4>2, <1>1 DEF CountedBy
      <4> QED
        BY <4>1, <4>2, <4>3, <2>1, <2>3
    <3> QED
      BY <3>2, <3>3, <1>1, <1>4 DEF Counted, CountedBy
  <2> QED
    BY <2>4, <2>6, <2>7, <2>8, <1>1, <1>4 DEF MemInv, Placing, Up
<1>7. CASE ~LastRef(f)
  <2>1. word' = [word EXCEPT ![f] = @ - 1] /\ UNCHANGED <<freepages, nfreepages, list>>
    BY <1>3, <1>7 DEF free_page
  <2>2. word[f] - 1 \in Int
    BY <1>1
  <2>3. IsList([word EXCEPT ![f] = word[f] - 1], freepages, nfreepages, list)
    BY ONLY Zenon, <1>1, <1>2, <2>2, KeepList, f \in Frames
  <2>4. IsList(word, freepages, nfreepages, list)'
    BY <2>1, <2>3
  <2>5. word'[f] = held'[f] /\ held'[f] > 0
    BY <2>1, <1>1, <1>2, <1>7 DEF LastRef
  <2>6. MemTypeOK'
    <3>1. word' \in [Frames -> Int]
      BY <2>1, <1>1
    <3> QED
      BY <2>1, <3>1, <1>1, <1>4 DEF MemTypeOK
  <2>7. Counted'
    <3>1. \A e \in Frames : e # f => word'[e] = word[e]
      BY <2>1, <1>1
    <3>2. \A e \in Managed : held'[e] > 0 \/ e \in lost \/ On(e, list)
      BY <2>5, <1>1, <1>5, ManagedFrames DEF CountedBy
    <3>3. \A e \in Frames : held'[e] > 0 => word'[e] = held'[e] /\ e \in Managed /\ ~On(e, list)
      BY <3>1, <2>5, <1>1, <1>2, <1>5 DEF CountedBy
    <3> QED
      BY <3>2, <3>3, <2>1, <1>1, <1>4 DEF Counted, CountedBy
  <2> QED
    BY <2>1, <2>4, <2>6, <2>7, <1>1, <1>4 DEF MemInv, Placing, Up
<1> QED
  BY <1>6, <1>7

(* Every step of memory preserves the invariant.                           *)
LEMMA StepInv ==
  ASSUME MemInv, [MemNext]_mem
  PROVE  MemInv'
<1>1. CASE InitMem
  BY <1>1, PageinfoInv, TablesInv, ListPageInv, ListEndInv DEF InitMem
<1>2. CASE FirstProc
  BY <1>2, FirstProcInv
<1>3. ASSUME NEW g \in Frames, alloc_page(g) PROVE MemInv'
  BY <1>3, AllocPageInv
<1>4. ASSUME NEW f \in Frames, Share(f) \/ free_page(f) PROVE MemInv'
  BY <1>4, ShareInv, FreePageInv
<1>5. ASSUME NEW f \in Frames, NEW g \in Frames, CopyPage(f, g) PROVE MemInv'
  BY <1>5, CopyPageInv
<1>6. CASE UNCHANGED mem
  BY <1>6 DEF mem, MemInv, MemTypeOK, Layout, Managed, Placing, Nobody, Before, Building, Up,
              Counted, CountedBy
<1> QED
  BY <1>1, <1>2, <1>3, <1>4, <1>5, <1>6 DEF MemNext

(* The invariant contains what is claimed of the free list.                *)
LEMMA InvImplies ==
  ASSUME MemInv
  PROVE  FreeListExact /\ FreeIsUsable
<1>1. FreeListExact
  <2>1. Up => IsList(word, freepages, nfreepages, list) /\ CountedBy(word, held, lost, list)
    BY DEF MemInv, Up, Counted
  <2> QED
    BY <2>1 DEF FreeListExact, MemInv, IsList, CountedBy, On
<1>2. ASSUME NEW i \in 1 .. Len(list), NEW s \in Structures
      PROVE  list[i] \in conv /\ Apart(area[s], <<list[i] * PER, (list[i] + 1) * PER>>)
  <2>1. list[i] \in conv /\ list[i] * PER >= end_kmem /\ list[i] \in Nat /\ list[i] < max
        /\ max \in Nat
    <3>1. list[i] \in Managed /\ max \in Nat
      BY MemAssumption DEF MemInv, MemTypeOK
    <3> QED
      BY <3>1 DEF Managed
  <2>2. area[s][2] <= end_kmem /\ area[s][2] \in Nat /\ end_kmem \in Nat
    BY DEF MemInv, MemTypeOK, Layout, LayoutOf
  <2>3. list[i] * PER \in Nat
    BY <2>1, Scale
  <2>4. area[s][2] <= list[i] * PER
    BY <2>1, <2>2, <2>3
  <2> QED
    BY Zenon, <2>1, <2>4 DEF Apart
<1>3. FreeIsUsable
  <2>1. \A i \in 1 .. Len(list) : list[i] \in conv
    BY DEF MemInv, Managed
  <2> QED
    BY Zenon, <1>2, <2>1 DEF FreeIsUsable, MemInv, Layout, LayoutOf
<1> QED
  BY <1>1, <1>3

(* Memory keeps its invariant.                                             *)
THEOREM MemInvariant == MemSpec => []MemInv
<1>1. (\E m \in 0 .. MaxFrames, c \in SUBSET Frames :
         c \subseteq 0 .. m - 1 /\ MemInit(m, c)) => MemInv
  BY InitInv
<1>2. MemInv /\ [MemNext]_mem => MemInv'
  BY StepInv
<1> QED
  BY <1>1, <1>2, PTL DEF MemSpec

(* The free list spells exactly the free pages, the words of held pages    *)
(* count their references, and free_page never panics (init_freepages,     *)
(* alloc_page, free_page).                                                 *)
THEOREM ExactList == MemSpec => []FreeListExact
<1>1. MemInv => FreeListExact
  BY InvImplies
<1> QED
  BY <1>1, MemInvariant, PTL

(* No page that can be handed out belongs to the firmware or overlaps a    *)
(* structure of the kernel (init_kpageinfo to init_freepages).             *)
THEOREM UsableList == MemSpec => []FreeIsUsable
<1>1. MemInv => FreeIsUsable
  BY InvImplies
<1> QED
  BY <1>1, MemInvariant, PTL
=============================================================================
