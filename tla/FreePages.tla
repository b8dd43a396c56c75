----------------------------- MODULE FreePages ------------------------------
(***************************************************************************)
(* Physical memory, from the loader's memory map to the free page list:    *)
(* init_kpageinfo, init_kpgtbl, init_pcb, init_intr and init_freepages,    *)
(* which place the kernel's own data behind its image one after the other, *)
(* and alloc_page, free_page and the counting of references afterwards.    *)
(*                                                                         *)
(* Addresses are counted in units of one struct page_info.  `ref` and      *)
(* `next` of a page_info share one word (a union), which is read as a      *)
(* signed number: a pointer into the kernel is negative, NULL is 0.        *)
(*                                                                         *)
(* That callers only free, share or give up what they hold is their        *)
(* obligation; for user pages Cow shows that they meet it.                 *)
(***************************************************************************)
EXTENDS Integers, Sequences

CONSTANTS
  PER,          \* units in a page, PGSIZE / sizeof(struct page_info)
  IMG,          \* end_kernel_img, in units
  NTABLES,      \* pages of k_pgtbl, k_pdpt and the tables of the stack
  NPROCS, PROC, FX, IDT,  \* slots; units of struct proc, fx_context, all gates
  MaxFrames,    \* bound: pages below max_addr
  MaxRef        \* bound: references to one page

ASSUME MemAssumption ==
  /\ PER \in Nat \ {0} /\ PROC \in Nat \ {0}
  /\ IMG \in Nat /\ NTABLES \in Nat /\ NPROCS \in Nat /\ FX \in Nat /\ IDT \in Nat
  /\ MaxFrames \in Nat /\ MaxRef \in Nat

VARIABLES
  phase,        \* how far init() has come; "run" once processes run
  max,          \* max_addr, in pages
  conv,         \* pages that the memory map calls conventional
  area,         \* where each structure of the kernel lies
  end_kmem,
  paddr, word,  \* the page_info array: its two words
  freepages, nfreepages,
  pginfo, last_page,    \* locals of init_freepages
  held,         \* history: references to each page that were not given back
  list,         \* history: the free list, as the sequence it stands for
  lost,         \* history: pages that U2K gave up as their only owner
  halted        \* "no", or how the kernel stopped

mem == <<phase, max, conv, area, end_kmem, paddr, word, freepages, nfreepages,
         pginfo, last_page, held, list, lost, halted>>

booted == <<phase, max, conv, area, end_kmem, paddr, pginfo, last_page>>

Frames == 0 .. MaxFrames - 1
NULL == 0
PageInfo(f) == -1 - f   \* the address of page f's page_info, as a number
ROUNDUP(x, n) == ((x + n - 1) \div n) * n

Structures == {"image", "k_pageinfo", "k_pgtbl", "procs", "fx_ctxs", "idt"}

-----------------------------------------------------------------------------
(* The next structure of n units at address a.                             *)
Place(s, a, n) ==
  /\ area' = [area EXCEPT ![s] = <<a, a + n>>]
  /\ end_kmem' = a + n

(* Nothing lies in memory but the kernel image, at its end address.        *)
MemInit(m, c) ==
  /\ phase = "pageinfo"
  /\ max = m
  /\ conv = c
  /\ area = [s \in Structures |-> IF s = "image" THEN <<0, IMG>> ELSE <<0, 0>>]
  /\ end_kmem = IMG
  /\ paddr = [f \in Frames |-> 0]
  /\ word = [f \in Frames |-> 0]
  /\ freepages = NULL /\ nfreepages = 0
  /\ pginfo = 0 /\ last_page = NULL
  /\ held = [f \in Frames |-> 0]
  /\ list = << >>
  /\ lost = {}
  /\ halted = "no"

(* One page_info for every page below max_addr.  Only a conventional page  *)
(* gets its address.                                                       *)
init_kpageinfo ==
  /\ phase = "pageinfo"
  /\ phase' = "pgtbl"
  /\ Place("k_pageinfo", end_kmem, max)
  /\ paddr' = [f \in Frames |-> IF f \in conv THEN f * PER ELSE 0]
  /\ word' = [f \in Frames |-> 0]
  /\ UNCHANGED <<max, conv, freepages, nfreepages, pginfo, last_page, held, list, lost, halted>>

init_kpgtbl ==
  /\ phase = "pgtbl"
  /\ phase' = "pcb"
  /\ Place("k_pgtbl", ROUNDUP(end_kmem, PER), NTABLES * PER)
  /\ UNCHANGED <<max, conv, paddr, word, freepages, nfreepages, pginfo, last_page,
                 held, list, lost, halted>>

init_pcb ==
  LET procs   == ROUNDUP(end_kmem, PROC)
      fx_ctxs == ROUNDUP(procs + NPROCS * PROC, PER)
  IN  /\ phase = "pcb"
      /\ phase' = "intr"
      /\ area' = [area EXCEPT !["procs"] = <<procs, procs + NPROCS * PROC>>,
                              !["fx_ctxs"] = <<fx_ctxs, fx_ctxs + NPROCS * FX>>]
      /\ end_kmem' = fx_ctxs + NPROCS * FX
      /\ UNCHANGED <<max, conv, paddr, word, freepages, nfreepages, pginfo, last_page,
                     held, list, lost, halted>>

(* A gate has the size of a page_info, so there is nothing to round up.    *)
init_intr ==
  /\ phase = "intr"
  /\ phase' = "freepages"
  /\ Place("idt", end_kmem, IDT)
  /\ UNCHANGED <<max, conv, paddr, word, freepages, nfreepages, pginfo, last_page,
                 held, list, lost, halted>>

(***************************************************************************)
(* One round of the loop of init_freepages.  A page below end_kmem gets    *)
(* ref = 1 and then next = NULL, which is the same word.                   *)
(***************************************************************************)
MutantKeepsLastFrame == paddr[pginfo] + PER <= end_kmem

InKernel == paddr[pginfo] < end_kmem

ListPage ==
  /\ phase = "freepages" /\ pginfo < max
  /\ pginfo' = pginfo + 1
  /\ IF InKernel
     THEN /\ word' = [word EXCEPT ![pginfo] = NULL]
          /\ UNCHANGED <<freepages, nfreepages, last_page, list>>
     ELSE /\ word' = [f \in Frames |-> IF PageInfo(f) = last_page THEN PageInfo(pginfo)
                                       ELSE word[f]]
          /\ freepages' = IF last_page # NULL THEN freepages ELSE PageInfo(pginfo)
          /\ last_page' = PageInfo(pginfo)
          /\ nfreepages' = nfreepages + 1
          /\ list' = Append(list, pginfo)
  /\ UNCHANGED <<phase, max, conv, area, end_kmem, paddr, held, lost, halted>>

(* With no page to list, the last line writes to address 8, which k_pgtbl  *)
(* maps.                                                                   *)
ListEnd ==
  /\ phase = "freepages" /\ pginfo = max
  /\ phase' = "boot"
  /\ word' = [f \in Frames |-> IF PageInfo(f) = last_page THEN NULL ELSE word[f]]
  /\ UNCHANGED <<max, conv, area, end_kmem, paddr, freepages, nfreepages, pginfo, last_page,
                 held, list, lost, halted>>

(* The first process runs, on a table without the pages at 0.              *)
FirstProc ==
  /\ phase = "boot" /\ halted = "no"
  /\ phase' = "run"
  /\ UNCHANGED <<max, conv, area, end_kmem, paddr, word, freepages, nfreepages,
                 pginfo, last_page, held, list, lost, halted>>
-----------------------------------------------------------------------------
Up == phase \in {"boot", "run"} /\ halted = "no"

(***************************************************************************)
(* alloc_page takes page g off the list; w, h and l are the words and the  *)
(* history so far.  It looks at the page behind g.  If there is none, that *)
(* is a read at address 0: in a process the kernel faults, and while       *)
(* k_pgtbl is in use it finds some number there and panics or goes on.     *)
(***************************************************************************)
AllocFrom(w, h, l, g) ==
  /\ freepages = PageInfo(g)
  /\ freepages' = word[g]
  /\ \/ /\ word[g] = NULL
        /\ word' = w
        /\ halted' = "fault"
        /\ UNCHANGED <<nfreepages, held, list, lost>>
     \/ /\ word[g] = NULL => phase = "boot"
        /\ word' = [w EXCEPT ![g] = 1]
        /\ nfreepages' = nfreepages - 1
        /\ held' = [h EXCEPT ![g] = 1]
        /\ list' = Tail(list)
        /\ lost' = l
        /\ UNCHANGED halted

alloc_page(g) == Up /\ AllocFrom(word, held, lost, g) /\ UNCHANGED booted

(* copy_pgtbl counts another table that maps page f.                       *)
Share(f) ==
  /\ Up
  /\ held[f] \in 1 .. MaxRef - 1
  /\ word' = [word EXCEPT ![f] = @ + 1]
  /\ held' = [held EXCEPT ![f] = @ + 1]
  /\ UNCHANGED <<booted, freepages, nfreepages, list, lost, halted>>

MutantFreesShared(f) == TRUE

LastRef(f) == word[f] = 1

free_page(f) ==
  /\ Up
  /\ held[f] > 0
  /\ held' = [held EXCEPT ![f] = @ - 1]
  /\ IF paddr[f] < end_kmem \/ paddr[f] >= max * PER \/ word[f] <= 0
     THEN halted' = "panic" /\ UNCHANGED <<word, freepages, nfreepages, list>>
     ELSE /\ IF LastRef(f)
             THEN /\ word' = [word EXCEPT ![f] = freepages]
                  /\ freepages' = PageInfo(f)
                  /\ nfreepages' = nfreepages + 1
                  /\ list' = <<f>> \o list
             ELSE /\ word' = [word EXCEPT ![f] = @ - 1]
                  /\ UNCHANGED <<freepages, nfreepages, list>>
          /\ UNCHANGED halted
  /\ UNCHANGED <<booted, lost>>

(***************************************************************************)
(* U2K and page_fault_handler exchange a shared page f for a copy in page  *)
(* g: they take one from ref and call alloc_page.  U2K does so even if it  *)
(* is the only owner; then f is on no list any more.                       *)
(***************************************************************************)
CopyPage(f, g) ==
  /\ Up
  /\ held[f] > 0
  /\ AllocFrom([word EXCEPT ![f] = @ - 1], [held EXCEPT ![f] = @ - 1],
               IF held[f] = 1 THEN lost \cup {f} ELSE lost, g)
  /\ UNCHANGED booted

-----------------------------------------------------------------------------
InitMem == init_kpageinfo \/ init_kpgtbl \/ init_pcb \/ init_intr \/ ListPage \/ ListEnd

MemNext ==
  \/ InitMem
  \/ FirstProc
  \/ \E g \in Frames : alloc_page(g)
  \/ \E f \in Frames : Share(f) \/ free_page(f)
  \/ \E f, g \in Frames : CopyPage(f, g)

(* Every memory map with all its pages below MaxFrames.                    *)
MemSpec == (\E m \in 0 .. MaxFrames, c \in SUBSET Frames :
              c \subseteq 0 .. m - 1 /\ MemInit(m, c)) /\ [][MemNext]_mem
-----------------------------------------------------------------------------
Phases == {"pageinfo", "pgtbl", "pcb", "intr", "freepages", "boot", "run"}

(* The variables of physical memory stay in their types.                   *)
MemTypeOK ==
  /\ phase \in Phases
  /\ max \in 0 .. MaxFrames
  /\ conv \in SUBSET (0 .. max - 1)
  /\ area \in [Structures -> Nat \X Nat]
  /\ end_kmem \in Nat
  /\ paddr \in [Frames -> Nat]
  /\ word \in [Frames -> Int]
  /\ freepages \in {NULL} \cup {PageInfo(f) : f \in Frames}
  /\ last_page \in {NULL} \cup {PageInfo(f) : f \in Frames}
  /\ nfreepages \in Nat
  /\ pginfo \in 0 .. max
  /\ held \in [Frames -> Nat]
  /\ list \in Seq(Frames)
  /\ lost \in SUBSET Frames
  /\ halted \in {"no", "fault", "panic"}

Managed == {f \in 0 .. max - 1 : f \in conv /\ f * PER >= end_kmem}

(***************************************************************************)
(* The free list is a list: its links spell exactly the pages that nobody  *)
(* holds, each once, nfreepages counts them, the word of a held page is    *)
(* its number of references although it served as a link before, and       *)
(* free_page never panics (init_freepages, alloc_page, free_page and the   *)
(* places that count in page_info.ref).                                    *)
(***************************************************************************)
FreeListExact ==
  /\ halted # "panic"
  /\ Up =>
    /\ nfreepages = Len(list)
    /\ freepages = IF list = << >> THEN NULL ELSE PageInfo(list[1])
    /\ \A i \in 1 .. Len(list) :
         word[list[i]] = IF i = Len(list) THEN NULL ELSE PageInfo(list[i + 1])
    /\ \A i, j \in 1 .. Len(list) : list[i] = list[j] => i = j
    /\ \A f \in Managed : held[f] > 0 \/ f \in lost \/ \E i \in 1 .. Len(list) : list[i] = f
    /\ \A f \in Frames : held[f] > 0 =>
         word[f] = held[f] /\ f \in Managed /\ \A i \in 1 .. Len(list) : list[i] # f

Apart(r, s) == r[2] <= s[1] \/ s[2] <= r[1] \/ r[1] = r[2] \/ s[1] = s[2]

(***************************************************************************)
(* No page that can be handed out is memory that the firmware keeps or     *)
(* that the kernel uses: its image, the page_info array, the tables, the   *)
(* process table, the FPU areas and the gates lie one behind the other and *)
(* below every such page (init_kpageinfo to init_freepages).               *)
(***************************************************************************)
FreeIsUsable ==
  /\ \A s, t \in Structures : s # t => Apart(area[s], area[t])
  /\ \A i \in 1 .. Len(list) :
       /\ list[i] \in conv
       /\ \A s \in Structures : Apart(area[s], <<list[i] * PER, (list[i] + 1) * PER>>)
=============================================================================
