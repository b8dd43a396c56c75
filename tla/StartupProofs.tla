--------------------------- MODULE StartupProofs ----------------------------
(***************************************************************************)
(* Proofs about Startup, for every machine and memory map: the memory of   *)
(* the composition behaves as FreePages says, the pages of the drivers     *)
(* stay apart, and with one controller every cached block is the right     *)
(* one.                                                                    *)
(***************************************************************************)
EXTENDS DriverSteps, FreePagesProofs

-----------------------------------------------------------------------------
(* Memory behaves as FreePages says: every step of the kernel is one of    *)
(* its steps, or leaves it alone.                                          *)
LEMMA MemorySteps ==
  ASSUME [StartupNext]_all
  PROVE  [MemNext]_mem
<1>1. CASE UNCHANGED all
  BY <1>1 DEF all
<1>2. CASE Boot \/ Run
  BY <1>2 DEF Boot, Run, Quiet, MemNext
<1>3. CASE Driver \/ NoPageLeft \/ Hardware \/ \E r \in Requests : ProcReads(r)
  BY <1>3 DEF Driver, NoPageLeft, Hardware, ProcReads
<1>4. CASE \E g \in Frames : TablePage(g) \/ TakesList(g) \/ TakesTable(g) \/ TakesBlock(g)
  BY <1>4 DEF TablePage, TakesList, TakesTable, TakesBlock, Takes, MemNext
<1>5. CASE \E g \in Frames : ProcTakes(g) \/ ProcShares(g) \/ ProcFrees(g)
  BY <1>5 DEF ProcTakes, ProcShares, ProcFrees, MemNext
<1>6. CASE \E f, g \in Frames : ProcCopies(f, g)
  BY <1>6 DEF ProcCopies, MemNext
<1> QED
  BY <1>1, <1>2, <1>3, <1>4, <1>5, <1>6 DEF StartupNext

(* The composition of memory, drivers and processes uses memory only as    *)
(* FreePages allows (alloc_page and its callers).                          *)
THEOREM MemoryIsFreePages == StartupSpec => MemSpec
<1>1. StartupInit => \E m \in 0 .. MaxFrames, c \in SUBSET Frames :
                       c \subseteq 0 .. m - 1 /\ MemInit(m, c)
  <2> SUFFICES ASSUME StartupInit
               PROVE  \E m \in 0 .. MaxFrames, c \in SUBSET Frames :
                        c \subseteq 0 .. m - 1 /\ MemInit(m, c)
    OBVIOUS
  <2>1. PICK b \in Boots : MemInit(b[2][1], b[2][2])
    BY DEF StartupInit
  <2>2. b[2] \in Maps
    BY StartupAssumption
  <2>3. b[2][1] \in 0 .. MaxFrames /\ b[2][2] \subseteq 0 .. b[2][1] - 1
    BY <2>2, StartupAssumption
  <2>4. b[2][2] \in SUBSET Frames
    BY <2>3, MemAssumption DEF Frames
  <2> QED
    BY <2>1, <2>3, <2>4
<1>2. [StartupNext]_all => [MemNext]_mem
  BY MemorySteps
<1> QED
  BY <1>1, <1>2, PTL DEF StartupSpec, MemSpec

(* The drivers and processes together keep the free list exact (see        *)
(* FreeListExact).                                                         *)
THEOREM StartupListExact == StartupSpec => []FreeListExact
BY MemoryIsFreePages, ExactList, PTL

(* No page that they are given belongs to the firmware or the kernel (see  *)
(* FreeIsUsable).                                                          *)
THEOREM StartupListUsable == StartupSpec => []FreeIsUsable
BY MemoryIsFreePages, UsableList, PTL

-----------------------------------------------------------------------------
(* The kernel image is not empty, so that page 0 is never handed out; what *)
(* drivers took has one reference.                                         *)
Keeps ==
  /\ kpages \subseteq Frames \ {NoPage}
  /\ end_kmem >= IMG
  /\ halted = "no" => \A k \in kpages : held[k] = 1

(* A page that alloc_page returns is new to the drivers.                   *)
LEMMA FreshPage ==
  ASSUME MemInv, Keeps, NEW g \in Frames, alloc_page(g)
  PROVE  /\ g # NoPage /\ g \notin kpages
         /\ halted' = "no" => held' = [held EXCEPT ![g] = 1]
         /\ end_kmem' = end_kmem
<1> USE MemAssumption
<1>1. /\ freepages = PageInfo(g) /\ Up /\ halted = "no" /\ end_kmem' = end_kmem
      /\ halted' = "no" => held' = [held EXCEPT ![g] = 1]
  BY DEF alloc_page, AllocFrom, Up, booted
<1>2. IsList(word, freepages, nfreepages, list) /\ FreeListExact /\ MemTypeOK
      /\ \A i \in 1 .. Len(list) : list[i] \in Managed
  BY <1>1, InvImplies DEF MemInv, Up
<1>3. list # << >> /\ list[1] = g /\ Len(list) >= 1
  <2>1. word \in [Frames -> Int] /\ list \in Seq(Frames) /\ 0 \in Int
    BY <1>2 DEF MemTypeOK
  <2> QED
    BY ONLY <2>1, <1>1, <1>2, g \in Frames, PopList
<1>4. 1 \in 1 .. Len(list)
  BY <1>2, <1>3 DEF MemTypeOK
<1>5. g \in Managed /\ held[g] \in Nat
  BY <1>2, <1>3, <1>4 DEF MemTypeOK
<1>6. ~(held[g] > 0)
  BY <1>1, <1>2, <1>3, <1>4 DEF FreeListExact
<1>7. g \notin kpages
  BY <1>1, <1>6 DEF Keeps
<1>8. g # NoPage
  <2>1. g * PER >= end_kmem /\ end_kmem \in Nat
    BY <1>2, <1>5 DEF Managed, MemTypeOK
  <2> QED
    BY <2>1, StartupAssumption DEF NoPage, Keeps
<1> QED
  BY <1>1, <1>7, <1>8

(* The structures of the kernel are only put one behind the other.         *)
LEMMA EndGrows ==
  ASSUME MemTypeOK, InitMem
  PROVE  end_kmem' >= end_kmem /\ held' = held /\ halted' = halted
<1> USE MemAssumption
<1>0. end_kmem \in Nat /\ max \in Nat
  BY DEF MemTypeOK
<1>1. CASE init_kpageinfo
  BY <1>0, <1>1 DEF init_kpageinfo, Place
<1>2. CASE init_kpgtbl
  <2>1. ROUNDUP(end_kmem, PER) \in Nat /\ ROUNDUP(end_kmem, PER) >= end_kmem
    BY <1>0, RoundUp
  <2>2. NTABLES * PER \in Nat
    OBVIOUS
  <2> QED
    BY <1>0, <1>2, <2>1, <2>2 DEF init_kpgtbl, Place
<1>3. CASE init_pcb
  <2> DEFINE P == ROUNDUP(end_kmem, PROC)
             F == ROUNDUP(P + NPROCS * PROC, PER)
  <2>1. P \in Nat /\ P >= end_kmem
    BY <1>0, RoundUp
  <2>2. NPROCS * PROC \in Nat /\ NPROCS * FX \in Nat
    OBVIOUS
  <2>3. P + NPROCS * PROC \in Nat
    BY <2>1, <2>2
  <2>4. F \in Nat /\ F >= P + NPROCS * PROC
    BY <2>3, RoundUp
  <2>5. end_kmem' = F + NPROCS * FX /\ held' = held /\ halted' = halted
    BY <1>3 DEF init_pcb
  <2> HIDE DEF P, F
  <2> QED
    BY <1>0, <2>1, <2>2, <2>4, <2>5
<1>4. CASE init_intr
  BY <1>0, <1>4 DEF init_intr, Place
<1>5. CASE ListPage \/ ListEnd
  BY <1>0, <1>5 DEF ListPage, ListEnd
<1> QED
  BY <1>1, <1>2, <1>3, <1>4, <1>5 DEF InitMem

(* Processes only give up, share or copy pages that are theirs.            *)
LEMMA KeepsStep ==
  ASSUME MemInv, Keeps, [StartupNext]_all
  PROVE  Keeps'
<1> USE MemAssumption
<1>0. /\ MemTypeOK /\ end_kmem \in Nat /\ held \in [Frames -> Nat]
      /\ kpages \subseteq Frames \ {NoPage} /\ end_kmem >= IMG
      /\ halted = "no" => \A k \in kpages : held[k] = 1
  BY DEF MemInv, MemTypeOK, Keeps
<1>1. CASE UNCHANGED <<mem, kpages>>
  BY <1>0, <1>1 DEF Keeps, mem
<1>2. CASE Boot
  <2>1. end_kmem' >= end_kmem /\ held' = held /\ halted' = halted /\ kpages' = kpages
    BY <1>0, <1>2, EndGrows DEF Boot
  <2>2. end_kmem' \in Nat
    BY <1>2, MemorySteps, StepInv DEF MemInv, MemTypeOK
  <2> QED
    BY <1>0, <2>1, <2>2 DEF Keeps
<1>3. CASE Run
  BY <1>0, <1>3 DEF Run, Quiet, FirstProc, Keeps
<1>4. ASSUME NEW g \in Frames, alloc_page(g),
             kpages' = kpages \/ (halted' = "no" /\ kpages' = kpages \cup {g})
      PROVE  Keeps'
  <2>1. /\ g # NoPage /\ g \notin kpages /\ end_kmem' = end_kmem
        /\ halted' = "no" => held' = [held EXCEPT ![g] = 1]
    BY <1>4, FreshPage
  <2>2. halted = "no"
    BY <1>4 DEF alloc_page, Up
  <2> QED
    BY <1>0, <1>4, <2>1, <2>2 DEF Keeps
<1>5. ASSUME NEW g \in Frames, TablePage(g) \/ TakesList(g) \/ TakesTable(g) \/ TakesBlock(g)
      PROVE  Keeps'
  <2>1. alloc_page(g) /\ (kpages' = kpages \/ (halted' = "no" /\ kpages' = kpages \cup {g}))
    BY <1>5 DEF TablePage, TakesList, TakesTable, TakesBlock, Takes
  <2> QED
    BY ONLY <2>1, <1>4, g \in Frames
<1>6. ASSUME NEW g \in Frames, ProcTakes(g)
      PROVE  Keeps'
  <2>1. alloc_page(g) /\ kpages' = kpages
    BY <1>6 DEF ProcTakes, Quiet
  <2> QED
    BY ONLY <2>1, <1>4, g \in Frames
<1>7. ASSUME NEW f \in Frames, ProcShares(f) \/ ProcFrees(f)
      PROVE  Keeps'
  <2>1. /\ f \notin kpages /\ kpages' = kpages /\ end_kmem' = end_kmem /\ halted = "no"
        /\ held' = [held EXCEPT ![f] = @ + 1] \/ held' = [held EXCEPT ![f] = @ - 1]
    BY <1>7 DEF ProcShares, ProcFrees, Share, free_page, Quiet, User, Up, booted
  <2> QED
    BY <1>0, <2>1 DEF Keeps
<1>8. ASSUME NEW f \in Frames, NEW g \in Frames, ProcCopies(f, g)
      PROVE  Keeps'
  <2>1. /\ f \notin kpages /\ kpages' = kpages /\ end_kmem' = end_kmem /\ Up
        /\ AllocFrom([word EXCEPT ![f] = @ - 1], [held EXCEPT ![f] = @ - 1],
                     IF held[f] = 1 THEN lost \cup {f} ELSE lost, g)
        /\ freepages = PageInfo(g)
    BY <1>8 DEF ProcCopies, CopyPage, AllocFrom, Quiet, User, booted
  <2>2. halted' = "no" => held' = [[held EXCEPT ![f] = @ - 1] EXCEPT ![g] = 1]
    BY <2>1 DEF AllocFrom
  <2>3. halted = "no"
    BY <2>1 DEF Up
  <2>4. \A k \in kpages : k # f
    BY <2>1
  <2> QED
    BY <1>0, <2>1, <2>2, <2>3, <2>4 DEF Keeps
<1>9. CASE Driver \/ NoPageLeft \/ Hardware \/ \E r \in Requests : ProcReads(r)
  BY <1>9, <1>1 DEF Driver, NoPageLeft, Hardware, ProcReads
<1> QED
  BY <1>1, <1>2, <1>3, <1>5, <1>6, <1>7, <1>8, <1>9 DEF StartupNext, all

-----------------------------------------------------------------------------
(* Steps that only go to another place: waits that end, ports without a    *)
(* disk, and the end of the ports, of the array or of memory.              *)
Moved ==
  /\ UNCHANGED <<hw, port, stack, pcie_dev_list, ctl, cmd_list, disk, agenda, cmd_tbl, cache,
                 page, kpages>>
  /\ \/ /\ pc \in {"wait_fr", "wait_cr"} /\ pc' \in {"wait_cr", "setup", "reset"}
        /\ UNCHANGED portno
     \/ pc \in {"port", "setup", "table", "issue"} /\ pc' = "overrun" /\ UNCHANGED portno
     \/ pc = "port" /\ pc' = "scan" /\ portno = NPORTS /\ UNCHANGED portno
     \/ /\ pc = "port" /\ pc' = "port" /\ portno < NPORTS /\ portno' = portno + 1
        /\ hw.unit[ctl][portno] # "disk"

(* Going to another place keeps it.                                        *)
LEMMA MovedInv ==
  ASSUME DriverInv, Moved
  PROVE  DriverInv'
<1> USE Sizes
<1>0. DriverTypes /\ DriverPlace /\ DriverPorts /\ DriverPages /\ DriverContents /\ DriverDisks
  BY DEF DriverInv
<1>a. /\ UNCHANGED <<hw, port, stack, pcie_dev_list, ctl, cmd_list, disk, agenda, cmd_tbl, cache,
                     page, kpages>>
      /\ ~Asked /\ ~Asked' /\ ~Reading' /\ portno \in 0 .. NPORTS
  BY Zenon, <1>0 DEF Moved, Asked, Reading, DriverTypes
<1>1. DriverTypes'
  BY <1>0, <1>a DEF DriverTypes, PCs, Moved
<1>2. DriverPlace'
  <2>1. Cached' = Cached
    BY Zenon, <1>a DEF Cached, BlockAt
  <2>2. CASE pc' = "overrun"
    BY Zenon, <1>0, <1>a, <2>2 DEF DriverPlace, InPorts, Scanning
  <2>3. CASE pc' # "overrun"
    <3>1. /\ Scanning /\ InPorts /\ stack # << >> /\ ctl \in Ctls /\ agenda = << >> /\ Cached = {}
      BY <1>0, <2>3 DEF DriverPlace, Moved, Scanning, InPorts
    <3>2. pc' \in {"wait_fr", "wait_cr", "setup"} =>
            pc \in {"wait_fr", "wait_cr"} /\ UNCHANGED portno
      BY <2>3 DEF Moved
    <3> QED
      BY <1>0, <1>a, <2>1, <3>1, <3>2 DEF DriverPlace
  <2> QED
    BY <2>2, <2>3
<1>3. DriverPorts'
  <2>1. \A c \in Ctls, n \in Ports : ~port[c][n].ci
    BY Zenon, <1>0, <1>a DEF DriverPorts
  <2>2. (\A d \in 1 .. Len(disk) :
           \/ cmd_list[disk[d].disk_ind] # NoPage
           \/ pc \in {"wait_fr", "wait_cr", "setup"} /\ d = Len(disk)
           \/ Stuck)'
    BY Zenon, <1>0, <1>a DEF DriverPorts, Stuck, Moved
  <2>3. (ctl \in Ctls => \A n \in Ports :
           hw.unit[ctl][n] = "disk" => IsSetUp(n) \/ (InPorts /\ n >= portno) \/ Stuck)'
    <3> SUFFICES ASSUME ctl \in Ctls, NEW n \in Ports, hw.unit[ctl][n] = "disk", ~Stuck'
                 PROVE  IsSetUp(n) \/ (InPorts' /\ n >= portno')
      BY Zenon, <1>a DEF IsSetUp
    <3>1. IsSetUp(n) \/ (InPorts /\ n >= portno)
      BY Zenon, <1>0 DEF DriverPorts, Stuck, Moved
    <3>2. n \in Nat /\ n < NPORTS
      BY DEF Ports
    <3> QED
      BY <1>a, <3>1, <3>2 DEF Moved, InPorts, Stuck
  <2> QED
    BY Zenon, <1>0, <1>a, <2>1, <2>2, <2>3 DEF DriverPorts
<1>4. DriverPages'
  BY <1>0, <1>a, PagesKept
<1>5. DriverContents'
  <2>1. Cached' = Cached /\ \A y \in Cached : BlockAt(y)' = BlockAt(y)
    BY <1>a DEF Cached, BlockAt
  <2> QED
    BY Zenon, <1>0, <1>a, <2>1 DEF DriverContents
<1>6. DriverDisks'
  <2> SUFFICES ASSUME OneController' PROVE DriverDisks'
    BY Zenon DEF DriverDisks
  <2>1. OneController
    BY Zenon, <1>a DEF OneController, FnAt
  <2>2. ReadsItsDisk'
    BY Zenon, <1>0, <1>a, <2>1 DEF DriverDisks, ReadsItsDisk, Asked
  <2> QED
    BY Zenon, <1>0, <1>a, <2>1, <2>2 DEF DriverDisks, FnAt
<1> QED
  BY <1>1, <1>2, <1>3, <1>4, <1>5, <1>6 DEF DriverInv

(* A disk is found and its port told to stop, if it runs.                  *)
LEMMA DiskFoundInv ==
  ASSUME DriverInv, UNCHANGED kpages, pc = "port", portno < NPORTS,
         hw.unit[ctl][portno] = "disk", Len(disk) < NDISK, AhciPort
  PROVE  DriverInv'
<1> USE Sizes
<1> DEFINE new == [disk_ind |-> portno, from |-> <<ctl, portno>>, part |-> << >>]
<1>0. DriverTypes /\ DriverPlace /\ DriverPorts /\ DriverPages /\ DriverContents /\ DriverDisks
  BY DEF DriverInv
<1>a. /\ UNCHANGED <<hw, stack, pcie_dev_list, ctl, portno, cmd_list, agenda, cmd_tbl, cache, page, kpages>>
      /\ disk' = Append(disk, new) /\ pc' \in {"wait_fr", "wait_cr", "setup"}
      /\ port' = port \/ port' = [port EXCEPT ![ctl][portno] = ToldToStop(@)]
  BY <1>0 DEF AhciPort, DriverTypes
<1>b. /\ disk \in Seq(Disks) /\ Len(disk) \in Nat /\ portno \in Ports /\ ctl \in Ctls
      /\ Scanning /\ agenda = << >> /\ Cached = {}
      /\ port \in [Ctls -> [Ports -> Registers]]
  BY SMTT(30), <1>0 DEF DriverTypes, DriverPlace, Ports, InPorts, Scanning
<1>c. /\ disk' \in Seq(Disks) /\ Len(disk') = Len(disk) + 1 /\ disk' # << >>
      /\ disk'[Len(disk')] = new /\ \A d \in 1 .. Len(disk) : disk'[d] = disk[d]
  <2>1. new \in Disks
    <3>1. << >> \in Seq(Blocks)
      OBVIOUS
    <3> QED
      BY Zenon, <1>b, <3>1 DEF Disks
  <2> HIDE DEF new
  <2> QED
    BY <1>a, <1>b, <2>1
<1>e. /\ ToldToStop(port[ctl][portno]) \in Registers
      /\ ToldToStop(port[ctl][portno]).clb = port[ctl][portno].clb
      /\ ToldToStop(port[ctl][portno]).ci = port[ctl][portno].ci
      /\ ToldToStop(port[ctl][portno]).st = FALSE
  <2>1. port[ctl][portno] \in Registers
    BY <1>b
  <2> QED
    BY Zenon, <2>1 DEF ToldToStop, Registers
<1>d. \A c \in Ctls, n \in Ports :
        /\ port'[c][n].clb = port[c][n].clb /\ port'[c][n].ci = port[c][n].ci
        /\ (port'[c][n].st => port[c][n].st) /\ (<<c, n>> # <<ctl, portno>> => port'[c][n] = port[c][n])
  <2>1. CASE port' = port
    BY Zenon, <1>b, <2>1
  <2>2. CASE port' = [port EXCEPT ![ctl][portno] = ToldToStop(@)]
    <3>2. \A c \in Ctls, n \in Ports :
            port'[c][n] = IF c = ctl /\ n = portno THEN ToldToStop(port[ctl][portno]) ELSE port[c][n]
      BY Zenon, <1>b, <2>2
    <3> QED
      BY Zenon, <1>e, <3>2
  <2> QED
    BY Zenon, <1>a, <2>1, <2>2
<1>1. DriverTypes'
  <2>1. port' \in [Ctls -> [Ports -> Registers]]
    <3>1. CASE port' = port
      BY <3>1, <1>b
    <3>2. CASE port' = [port EXCEPT ![ctl][portno] = ToldToStop(@)]
      BY Zenon, <3>2, <1>b, <1>e
    <3> QED
      BY <3>1, <3>2, <1>a
  <2>2. agenda' \in Seq(Tasks(disk'))
    BY <1>a, <1>b
  <2>3. Len(disk') <= NDISK
    BY <1>b, <1>c
  <2> QED
    BY Zenon, <1>0, <1>a, <1>c, <2>1, <2>2, <2>3 DEF DriverTypes, PCs
<1>2. DriverPlace'
  <2>1. Cached' = {}
    BY Zenon, <1>a, <1>b DEF Cached, BlockAt
  <2>2. stack # << >>
    BY <1>0 DEF DriverPlace, InPorts
  <2> QED
    BY <1>a, <1>b, <1>c, <2>1, <2>2 DEF DriverPlace, Reading
<1>3. DriverPorts'
  <2>1. \A c \in Ctls, n \in Ports : ~port[c][n].ci
    BY Zenon, <1>0 DEF DriverPorts, Asked
  <2>2. (\A d \in 1 .. Len(disk) :
           \/ cmd_list[disk[d].disk_ind] # NoPage
           \/ pc \in {"wait_fr", "wait_cr", "setup"} /\ d = Len(disk)
           \/ Stuck)'
    <3>1. \A d \in 1 .. Len(disk) : cmd_list[disk[d].disk_ind] # NoPage
      BY Zenon, <1>0 DEF DriverPorts, Stuck
    <3>2. \A d \in 1 .. Len(disk') : d \in 1 .. Len(disk) \/ d = Len(disk')
      BY <1>b, <1>c
    <3> QED
      BY <1>a, <1>c, <3>1, <3>2
  <2>3. (ctl \in Ctls => \A n \in Ports :
           hw.unit[ctl][n] = "disk" => IsSetUp(n) \/ (InPorts /\ n >= portno) \/ Stuck)'
    <3> SUFFICES ASSUME NEW n \in Ports, hw.unit[ctl][n] = "disk", ~(n >= portno)
                 PROVE  IsSetUp(n)'
      BY <1>a DEF InPorts
    <3>1. IsSetUp(n)
      BY Zenon, <1>0, <1>b DEF DriverPorts, Stuck
    <3>2. n # portno
      BY <1>b DEF Ports
    <3> QED
      BY Zenon, <1>a, <1>b, <1>d, <3>1, <3>2 DEF IsSetUp
  <2>4. (\A n \in Ports : cmd_list[n] # NoPage => \E c \in Ctls : port[c][n].clb = cmd_list[n])'
    BY <1>0, <1>a, <1>d DEF DriverPorts
  <2>5. (\A c \in Ctls, n \in Ports : port[c][n].st => hw.unit[c][n] = "disk")'
    BY Zenon, <1>0, <1>a, <1>d DEF DriverPorts
  <2>6. (\A c \in Ctls, n \in Ports : ~port[c][n].ci)'
    BY Zenon, <1>d, <2>1
  <2> QED
    BY Zenon, <2>2, <2>3, <2>4, <2>5, <2>6 DEF DriverPorts
<1>4. DriverPages'
  BY Zenon, <1>0, <1>a, <1>d, PagesKept
<1>5. DriverContents'
  <2>1. Cached' = {}
    BY Zenon, <1>a, <1>b DEF Cached, BlockAt
  <2> QED
    BY Zenon, <1>0, <1>a, <2>1 DEF DriverContents, Asked
<1>6. DriverDisks'
  <2> SUFFICES ASSUME OneController' PROVE DriverDisks'
    BY Zenon DEF DriverDisks
  <2>1. OneController /\ ~Asked'
    BY Zenon, <1>a DEF OneController, FnAt, Asked
  <2>2. ReadsItsDisk'
    <3> SUFFICES ASSUME NEW d \in 1 .. Len(disk'), NEW b \in Blocks
                 PROVE  cache[d][b] = NoPage
      BY <1>a DEF ReadsItsDisk
    <3>1. d \in 1 .. NDISK
      BY <1>b, <1>c
    <3>2. <<d, b>> \notin Cached
      BY Zenon, <1>b
    <3> QED
      BY <3>1, <3>2 DEF Cached, BlockAt
  <2>3. (\A d \in 1 .. Len(disk) :
           disk[d].from = <<ctl, disk[d].disk_ind>> /\ hw.unit[ctl][disk[d].disk_ind] = "disk")'
    <3>1. \A d \in 1 .. Len(disk') : d \in 1 .. Len(disk) \/ d = Len(disk')
      BY <1>b, <1>c
    <3>2. \A d \in 1 .. Len(disk) :
            disk[d].from = <<ctl, disk[d].disk_ind>> /\ hw.unit[ctl][disk[d].disk_ind] = "disk"
      BY Zenon, <1>0, <2>1 DEF DriverDisks
    <3> QED
      BY SMTT(30), <1>a, <1>c, <3>1, <3>2
  <2> QED
    BY Zenon, <1>0, <1>a, <2>1, <2>2, <2>3 DEF DriverDisks, FnAt
<1> QED
  BY Zenon, <1>1, <1>2, <1>3, <1>4, <1>5, <1>6 DEF DriverInv

(* The port gets a page for its list and is started.                       *)
LEMMA PortSetupInv ==
  ASSUME DriverInv, NEW g \in Pages, g # NoPage, g \notin kpages, PortSetup(g),
         kpages' = kpages \cup {g}
  PROVE  DriverInv'
<1> USE Sizes
<1> DEFINE reg == [port[ctl][portno] EXCEPT !.clb = g, !.st = TRUE, !.cr = TRUE,
                                            !.fre = TRUE, !.fr = TRUE]
<1>0. DriverTypes /\ DriverPlace /\ DriverPorts /\ DriverPages /\ DriverContents /\ DriverDisks
  BY DEF DriverInv
<1>a. /\ UNCHANGED <<hw, stack, pcie_dev_list, ctl, disk, agenda, cmd_tbl, cache>>
      /\ pc = "setup" /\ pc' = "port" /\ portno' = portno + 1
      /\ cmd_list' = [cmd_list EXCEPT ![portno] = g]
      /\ page' = [page EXCEPT ![g] = Zero]
      /\ port' = [port EXCEPT ![ctl][portno] = reg]
  BY DEF PortSetup, ListFor
<1>b. /\ disk \in Seq(Disks) /\ Len(disk) \in Nat /\ portno \in Ports /\ ctl \in Ctls
      /\ hw.unit[ctl][portno] = "disk" /\ disk # << >> /\ disk[Len(disk)].disk_ind = portno
      /\ agenda = << >> /\ Cached = {} /\ stack # << >>
      /\ port \in [Ctls -> [Ports -> Registers]] /\ cmd_list \in [Ports -> Pages]
      /\ DOMAIN page = Pages /\ page[NoPage] = Zero
  BY SMTT(30), <1>0, <1>a DEF DriverTypes, DriverPlace, DriverContents, Ports, InPorts, Scanning
<1>c. reg \in Registers /\ reg.clb = g /\ reg.st /\ reg.ci = port[ctl][portno].ci
  <2>1. port[ctl][portno] \in Registers
    BY <1>b
  <2> QED
    BY Zenon, <2>1 DEF Registers
<1> HIDE DEF reg
<1>d. /\ \A c \in Ctls, n \in Ports :
           port'[c][n] = IF c = ctl /\ n = portno THEN reg ELSE port[c][n]
      /\ \A n \in Ports : cmd_list'[n] = IF n = portno THEN g ELSE cmd_list[n]
  BY Zenon, <1>a, <1>b
<1>e. Cached' = {}
  BY Zenon, <1>a, <1>b DEF Cached, BlockAt
<1>1. DriverTypes'
  <2>1. port' \in [Ctls -> [Ports -> Registers]] /\ cmd_list' \in [Ports -> Pages]
    BY Zenon, <1>a, <1>b, <1>c
  <2>2. portno' \in 0 .. NPORTS
    BY SMTT(30), <1>a, <1>b DEF Ports
  <2>3. DOMAIN page' = Pages
    BY Zenon, <1>a, <1>b
  <2> QED
    BY Zenon, <1>0, <1>a, <2>1, <2>2, <2>3 DEF DriverTypes, PCs
<1>2. DriverPlace'
  BY Zenon, <1>a, <1>b, <1>e DEF DriverPlace, Reading
<1>3. DriverPorts'
  <2>1. \A c \in Ctls, n \in Ports : ~port[c][n].ci
    BY <1>0, <1>a DEF DriverPorts, Asked
  <2>2. (\A d \in 1 .. Len(disk) : cmd_list[disk[d].disk_ind] # NoPage)'
    <3> SUFFICES ASSUME NEW d \in 1 .. Len(disk)
                 PROVE  cmd_list'[disk[d].disk_ind] # NoPage
      BY <1>a
    <3>0. disk[d] \in Disks
      BY <1>b
    <3>1. disk[d].disk_ind \in Ports
      BY Zenon, <3>0 DEF Disks
    <3>2. cmd_list[disk[d].disk_ind] # NoPage \/ d = Len(disk)
      BY <1>0, <1>a DEF DriverPorts, Stuck
    <3> QED
      BY Zenon, <1>b, <1>d, <3>1, <3>2
  <2>3. (ctl \in Ctls => \A n \in Ports :
           hw.unit[ctl][n] = "disk" => IsSetUp(n) \/ (InPorts /\ n >= portno) \/ Stuck)'
    <3> SUFFICES ASSUME NEW n \in Ports, hw.unit[ctl][n] = "disk", ~(n >= portno + 1)
                 PROVE  IsSetUp(n)'
      BY <1>a DEF InPorts
    <3>1. CASE n = portno
      BY Zenon, <1>a, <1>b, <1>c, <1>d, <3>1 DEF IsSetUp
    <3>2. CASE n # portno
      <4>1. ~(n >= portno)
        BY <1>b, <3>2 DEF Ports
      <4>2. IsSetUp(n)
        BY Zenon, <1>0, <1>a, <1>b, <4>1 DEF DriverPorts, Stuck
      <4> QED
        BY Zenon, <1>a, <1>b, <1>d, <3>2, <4>2 DEF IsSetUp
    <3> QED
      BY Zenon, <3>1, <3>2
  <2>4. (\A n \in Ports : cmd_list[n] # NoPage => \E c \in Ctls : port[c][n].clb = cmd_list[n])'
    <3> SUFFICES ASSUME NEW n \in Ports, cmd_list'[n] # NoPage
                 PROVE  \E c \in Ctls : port'[c][n].clb = cmd_list'[n]
      OBVIOUS
    <3>1. CASE n = portno
      BY Zenon, <1>b, <1>c, <1>d, <3>1
    <3>2. CASE n # portno
      <4>1. PICK c \in Ctls : port[c][n].clb = cmd_list[n]
        BY Zenon, <1>0, <1>d, <3>2 DEF DriverPorts
      <4> QED
        BY Zenon, <1>d, <3>2, <4>1
    <3> QED
      BY Zenon, <3>1, <3>2
  <2>5. (\A c \in Ctls, n \in Ports : port[c][n].st => hw.unit[c][n] = "disk")'
    BY SMTT(30), <1>0, <1>a, <1>b, <1>d DEF DriverPorts
  <2>6. (\A c \in Ctls, n \in Ports : ~port[c][n].ci)'
    <3> SUFFICES ASSUME NEW c \in Ctls, NEW n \in Ports PROVE ~port'[c][n].ci
      OBVIOUS
    <3>1. CASE c = ctl /\ n = portno
      BY Zenon, <1>c, <1>d, <2>1, <3>1
    <3>2. CASE ~(c = ctl /\ n = portno)
      BY Zenon, <1>d, <2>1, <3>2
    <3> QED
      BY Zenon, <3>1, <3>2
  <2> QED
    BY Zenon, <2>2, <2>3, <2>4, <2>5, <2>6 DEF DriverPorts
<1>4. DriverPages'
  <2>1. \A x \in Lists' : (x = <<ctl, portno>> /\ ListAt(x)' = g)
                          \/ (x \in Lists /\ ListAt(x)' = ListAt(x))
    <3> SUFFICES ASSUME NEW x \in Lists'
                 PROVE  (x = <<ctl, portno>> /\ ListAt(x)' = g)
                        \/ (x \in Lists /\ ListAt(x)' = ListAt(x))
      OBVIOUS
    <3>1. x \in Ctls \X Ports /\ port'[x[1]][x[2]].clb # NoPage
      BY DEF Lists, ListAt
    <3>2. x[1] \in Ctls /\ x[2] \in Ports /\ x = <<x[1], x[2]>>
      BY <3>1
    <3>3. CASE x[1] = ctl /\ x[2] = portno
      BY <1>c, <1>d, <3>2, <3>3 DEF ListAt
    <3>4. CASE ~(x[1] = ctl /\ x[2] = portno)
      BY Zenon, <1>d, <3>1, <3>2, <3>4 DEF ListAt, Lists
    <3> QED
      BY <3>3, <3>4
  <2>2. \A x \in Lists : ListAt(x) # g /\ ListAt(x) \in kpages
    BY <1>0 DEF DriverPages
  <2>3. cmd_tbl # g
    BY <1>0 DEF DriverPages
  <2> QED
    BY ZenonT(30), <1>0, <1>a, <1>e, <2>1, <2>2, <2>3 DEF DriverPages
<1>5. DriverContents'
  <2>1. page'[NoPage] = Zero
    BY <1>a, <1>b DEF NoPage, Pages
  <2> QED
    BY <1>a, <1>e, <2>1 DEF DriverContents, Asked
<1>6. DriverDisks'
  <2> SUFFICES ASSUME OneController' PROVE DriverDisks'
    BY Zenon DEF DriverDisks
  <2>1. OneController /\ ~Asked'
    BY <1>a DEF OneController, FnAt, Asked
  <2>2. ReadsItsDisk'
    <3> SUFFICES ASSUME NEW d \in 1 .. Len(disk), NEW b \in Blocks
                 PROVE  cache[d][b] = NoPage
      BY <1>a DEF ReadsItsDisk
    <3>1. d \in 1 .. NDISK
      BY <1>0, <1>b DEF DriverTypes
    <3>2. <<d, b>> \notin Cached
      BY Zenon, <1>b
    <3> QED
      BY Zenon, <3>1, <3>2 DEF Cached, BlockAt
  <2> QED
    BY Zenon, <1>0, <1>a, <2>1, <2>2 DEF DriverDisks, FnAt
<1> QED
  BY <1>1, <1>2, <1>3, <1>4, <1>5, <1>6 DEF DriverInv

(* The one command table gets its page.                                    *)
LEMMA TableSetInv ==
  ASSUME DriverInv, NEW g \in Pages, g # NoPage, g \notin kpages, TableSet(g),
         kpages' = kpages \cup {g}
  PROVE  DriverInv'
<1>0. DriverTypes /\ DriverPlace /\ DriverPorts /\ DriverPages /\ DriverContents /\ DriverDisks
  BY DEF DriverInv
<1>a. /\ UNCHANGED <<hw, port, stack, pcie_dev_list, ctl, portno, cmd_list, disk, agenda, cache, page>>
      /\ pc = "table" /\ pc' = "issue" /\ cmd_tbl' = g
  BY DEF TableSet
<1>b. Lists' = Lists /\ Cached' = Cached /\ (\A x : ListAt(x)' = ListAt(x) /\ BlockAt(x)' = BlockAt(x))
  BY Zenon, <1>a DEF Lists, ListAt, Cached, BlockAt
<1>1. DriverTypes'
  BY <1>0, <1>a DEF DriverTypes, PCs
<1>2. DriverPlace'
  BY Zenon, <1>0, <1>a DEF DriverPlace, InPorts, Scanning, Reading, Job
<1>3. DriverPorts'
  <2>1. \A c \in Ctls, n \in Ports : ~port[c][n].ci
    BY Zenon, <1>0, <1>a DEF DriverPorts, Asked
  <2> QED
    BY Zenon, <1>0, <1>a, <2>1 DEF DriverPorts, IsSetUp, Stuck, InPorts
<1>4. DriverPages'
  BY Zenon, <1>0, <1>a, <1>b DEF DriverPages
<1>5. DriverContents'
  BY Zenon, <1>0, <1>a, <1>b DEF DriverContents, Asked
<1>6. DriverDisks'
  <2> SUFFICES ASSUME OneController' PROVE DriverDisks'
    BY Zenon DEF DriverDisks
  <2>1. OneController /\ ~Asked'
    BY Zenon, <1>a DEF OneController, FnAt, Asked
  <2>2. ReadsItsDisk'
    BY Zenon, <1>0, <1>a, <2>1 DEF DriverDisks, ReadsItsDisk
  <2> QED
    BY Zenon, <1>0, <1>a, <2>1, <2>2 DEF DriverDisks, FnAt
<1> QED
  BY <1>1, <1>2, <1>3, <1>4, <1>5, <1>6 DEF DriverInv

(* A block is asked for.  Page g is the one it is cached in, or a new one; *)
(* the command goes to the page of the port's list.                        *)
LEMMA IssueInv ==
  ASSUME DriverInv, NEW g \in Pages, g # NoPage, Issue(g),
         \/ NeedsPage /\ g \notin kpages /\ kpages' = kpages \cup {g}
         \/ g = Asking /\ kpages' = kpages
  PROVE  DriverInv'
<1> USE Sizes
<1> DEFINE L == cmd_list[DiskPort]
           ci == port[ctl][DiskPort].ci \/ port[ctl][DiskPort].st
           z == IF NeedsPage THEN Zero ELSE page[g]
<1>0. DriverTypes /\ DriverPlace /\ DriverPorts /\ DriverPages /\ DriverContents /\ DriverDisks
  BY DEF DriverInv
<1>a. /\ UNCHANGED <<hw, stack, pcie_dev_list, ctl, portno, cmd_list, disk, agenda, cmd_tbl>>
      /\ pc = "issue" /\ pc' = "poll" /\ Reading
      /\ cache' = [cache EXCEPT ![Job.did][Job.blk] = g]
      /\ page' = [[page EXCEPT ![g] = z] EXCEPT ![L] = Command(g)]
      /\ port' = [port EXCEPT ![ctl][DiskPort].ci = ci]
  BY DEF Issue, Reading
<1>b. /\ agenda # << >> /\ Job.did \in 1 .. Len(disk) /\ Job.did \in 1 .. NDISK
      /\ Job.blk \in Blocks /\ DiskPort \in Ports /\ ctl \in Ctls /\ L # NoPage
  BY <1>a, BlockJob
<1>c. /\ port \in [Ctls -> [Ports -> Registers]] /\ cmd_list \in [Ports -> Pages]
      /\ cache \in [1 .. NDISK -> [Blocks -> Pages]]
      /\ DOMAIN page = Pages /\ page[NoPage] = Zero /\ L \in Pages
  BY Zenon, <1>0, <1>b DEF DriverTypes, DriverContents
<1>d. PICK e \in Ctls : <<e, DiskPort>> \in Lists /\ ListAt(<<e, DiskPort>>) = L
  BY Zenon, <1>0, <1>b DEF DriverPorts, Lists, ListAt
<1>f. <<Job.did, Job.blk>> \in Cached \/ Asking = NoPage
  BY Zenon, <1>b DEF Cached, BlockAt, Asking
<1>e. L \in kpages /\ L # cmd_tbl /\ g \in kpages' /\ kpages \subseteq kpages'
      /\ \A y \in Cached : BlockAt(y) # L /\ BlockAt(y) \in kpages
  <2>1. L \in kpages /\ L # cmd_tbl
    BY Zenon, <1>0, <1>d DEF DriverPages
  <2>2. \A y \in Cached : BlockAt(y) # L /\ BlockAt(y) \in kpages
    BY Zenon, <1>0, <1>d DEF DriverPages
  <2>3. g = Asking => g \in kpages
    <3> HAVE g = Asking
    <3>1. <<Job.did, Job.blk>> \in Cached /\ BlockAt(<<Job.did, Job.blk>>) = g
      BY <1>f DEF BlockAt, Asking
    <3> QED
      BY <2>2, <3>1
  <2> QED
    BY <2>1, <2>2, <2>3
<1>g. g # L /\ (g \in kpages => g = Asking /\ <<Job.did, Job.blk>> \in Cached)
  <2>1. CASE g \notin kpages
    BY <1>e, <2>1
  <2>2. CASE g = Asking
    BY Zenon, <1>e, <1>f, <2>2 DEF Asking, BlockAt
  <2> QED
    BY <2>1, <2>2
<1>h. /\ \A d \in 1 .. NDISK, b \in Blocks :
           cache'[d][b] = IF d = Job.did /\ b = Job.blk THEN g ELSE cache[d][b]
      /\ cache' \in [1 .. NDISK -> [Blocks -> Pages]]
  BY <1>a, <1>b, <1>c
<1>i. /\ page'[L] = Command(g) /\ page'[g] = z /\ DOMAIN page' = Pages
      /\ \A p \in Pages : p # L /\ p # g => page'[p] = page[p]
  <2> HIDE DEF z, L
  <2> QED
    BY <1>a, <1>c, <1>g
<1>j. /\ \A c \in Ctls, n \in Ports :
           port'[c][n] = IF c = ctl /\ n = DiskPort THEN [port[c][n] EXCEPT !.ci = ci] ELSE port[c][n]
      /\ ci \in BOOLEAN
  <2>1. port[ctl][DiskPort] \in Registers
    BY Zenon, <1>b, <1>c
  <2> QED
    BY Zenon, <1>a, <1>b, <1>c, <2>1 DEF Registers
<1>k. /\ port' \in [Ctls -> [Ports -> Registers]]
      /\ \A c \in Ctls, n \in Ports :
           port'[c][n].clb = port[c][n].clb /\ port'[c][n].st = port[c][n].st
      /\ port'[ctl][DiskPort].ci = ci
      /\ \A c \in Ctls, n \in Ports : port'[c][n].ci => c = ctl /\ n = DiskPort /\ port[c][n].st
  <2>1. \A c \in Ctls, n \in Ports : port[c][n] \in Registers
    BY Zenon, <1>c
  <2>2. \A c \in Ctls, n \in Ports : ~port[c][n].ci
    BY <1>0, <1>a DEF DriverPorts, Asked
  <2>3. ci = port[ctl][DiskPort].st
    BY Zenon, <1>b, <2>1, <2>2 DEF Registers
  <2> HIDE DEF ci
  <2>4. [port[ctl][DiskPort] EXCEPT !.ci = ci] \in Registers
    BY <1>b, <1>j, <2>1 DEF Registers
  <2>5. port' \in [Ctls -> [Ports -> Registers]]
    <3>1. port' = [port EXCEPT ![ctl] = [port[ctl] EXCEPT ![DiskPort] =
                     [port[ctl][DiskPort] EXCEPT !.ci = ci]]]
      BY <1>a, <1>b, <1>c
    <3> QED
      BY <3>1, <2>4, <1>b, <1>c
  <2>6. \A c \in Ctls, n \in Ports :
          port'[c][n].clb = port[c][n].clb /\ port'[c][n].st = port[c][n].st
    <3>1. [port[ctl][DiskPort] EXCEPT !.ci = ci].clb = port[ctl][DiskPort].clb
          /\ [port[ctl][DiskPort] EXCEPT !.ci = ci].st = port[ctl][DiskPort].st
      BY <1>b, <2>1 DEF Registers
    <3> QED
      BY Zenon, <1>j, <3>1
  <2>7. port'[ctl][DiskPort].ci = ci
    BY Zenon, <1>b, <1>j, <2>1 DEF Registers
  <2> QED
    BY Zenon, <1>b, <1>j, <2>2, <2>3, <2>5, <2>6, <2>7
<1>l. Job' = Job /\ DiskPort' = DiskPort /\ Asking' = g /\ Command(g)' = Command(g)
  <2>1. Job' = Job
    BY <1>a DEF Job
  <2> QED
    BY SMTT(30), <1>a, <1>b, <1>h, <2>1 DEF DiskPort, Asking, Command
<1>m. \A y \in Cached' : (y = <<Job.did, Job.blk>> /\ BlockAt(y)' = g)
                         \/ (y \in Cached /\ y # <<Job.did, Job.blk>> /\ BlockAt(y)' = BlockAt(y))
  <2> SUFFICES ASSUME NEW y \in Cached'
               PROVE  (y = <<Job.did, Job.blk>> /\ BlockAt(y)' = g)
                      \/ (y \in Cached /\ y # <<Job.did, Job.blk>> /\ BlockAt(y)' = BlockAt(y))
    OBVIOUS
  <2>1. y \in (1 .. NDISK) \X Blocks /\ cache'[y[1]][y[2]] # NoPage
    BY DEF Cached, BlockAt
  <2>2. y[1] \in 1 .. NDISK /\ y[2] \in Blocks /\ y = <<y[1], y[2]>>
    BY <2>1
  <2>3. CASE y[1] = Job.did /\ y[2] = Job.blk
    BY <1>h, <2>2, <2>3 DEF BlockAt
  <2>4. CASE ~(y[1] = Job.did /\ y[2] = Job.blk)
    BY <1>h, <2>1, <2>2, <2>4 DEF BlockAt, Cached
  <2> QED
    BY Zenon, <2>3, <2>4
<1>n. \A y \in Cached : y # <<Job.did, Job.blk>> => BlockAt(y) # g
  <2>1. CASE g \notin kpages
    BY <1>e, <2>1
  <2>2. CASE g \in kpages
    <3>1. BlockAt(<<Job.did, Job.blk>>) = g /\ <<Job.did, Job.blk>> \in Cached
      BY <1>g, <2>2 DEF BlockAt, Asking
    <3> QED
      BY <1>0, <3>1 DEF DriverPages
  <2> QED
    BY <2>1, <2>2
<1>1. DriverTypes'
  BY SMTT(30), <1>0, <1>a, <1>h, <1>i, <1>k DEF DriverTypes, PCs
<1>2. DriverPlace'
  BY <1>0, <1>a, <1>l DEF DriverPlace, InPorts, Scanning, Reading
<1>3. DriverPorts'
  <2>1. \A n \in Ports : IsSetUp(n) => IsSetUp(n)'
    BY <1>a, <1>b, <1>k DEF IsSetUp
  <2>2. \A d \in 1 .. Len(disk) : cmd_list[disk[d].disk_ind] # NoPage
    BY <1>0, <1>a DEF DriverPorts, Stuck
  <2>3. \A n \in Ports : hw.unit[ctl][n] = "disk" => IsSetUp(n)
    BY <1>0, <1>a, <1>b DEF DriverPorts, Stuck, InPorts
  <2>4. (\A n \in Ports : cmd_list[n] # NoPage => \E c \in Ctls : port[c][n].clb = cmd_list[n])'
    BY <1>0, <1>a, <1>k DEF DriverPorts
  <2>5. (\A c \in Ctls, n \in Ports : port[c][n].st => hw.unit[c][n] = "disk")'
    BY <1>0, <1>a, <1>k DEF DriverPorts
  <2>6. (\A c \in Ctls, n \in Ports : port[c][n].ci =>
           port[c][n].st /\ Asked /\ c = ctl /\ n = DiskPort)'
    BY <1>a, <1>k, <1>l DEF Asked
  <2> QED
    BY <1>a, <2>1, <2>2, <2>3, <2>4, <2>5, <2>6 DEF DriverPorts
<1>4. DriverPages'
  <2>1. Lists' = Lists /\ \A x \in Lists : ListAt(x)' = ListAt(x)
    BY SMTT(30), <1>k DEF Lists, ListAt
  <2>2. g # cmd_tbl /\ \A x \in Lists : ListAt(x) # g
    <3>1. CASE g \notin kpages
      BY <1>0, <3>1 DEF DriverPages
    <3>2. CASE g \in kpages
      <4>1. BlockAt(<<Job.did, Job.blk>>) = g /\ <<Job.did, Job.blk>> \in Cached
        BY <1>g, <3>2 DEF BlockAt, Asking
      <4> QED
        BY <1>0, <4>1 DEF DriverPages
    <3> QED
      BY <3>1, <3>2
  <2>3. (\A x, y \in Cached : BlockAt(x) = BlockAt(y) => x = y)'
    BY <1>0, <1>m, <1>n DEF DriverPages
  <2>4. (\A x \in Lists, y \in Cached : ListAt(x) # BlockAt(y))'
    BY <1>0, <1>m, <2>1, <2>2 DEF DriverPages
  <2>5. (\A y \in Cached : BlockAt(y) # cmd_tbl /\ BlockAt(y) \in kpages)'
    BY <1>0, <1>a, <1>e, <1>m, <2>2 DEF DriverPages
  <2> QED
    BY <1>0, <1>a, <1>e, <2>1, <2>3, <2>4, <2>5 DEF DriverPages
<1>5. DriverContents'
  <2>1. page'[NoPage] = Zero
    <3>1. NoPage \in Pages
      BY DEF NoPage, Pages
    <3> QED
      BY Zenon, <1>b, <1>c, <1>i, <3>1
  <2>2. z \in Sectors
    <3>1. CASE NeedsPage
      BY <3>1 DEF Sectors
    <3>2. CASE ~NeedsPage
      <4>1. Asking # NoPage
        BY <1>a, <3>2 DEF NeedsPage, Asking
      <4>2. <<Job.did, Job.blk>> \in Cached /\ BlockAt(<<Job.did, Job.blk>>) = Asking
        BY <1>f, <4>1 DEF BlockAt, Asking
      <4>3. page[Asking] \in Sectors
        BY <1>0, <4>2 DEF DriverContents
      <4>4. g = Asking
        BY <3>2
      <4> QED
        BY <3>2, <4>3, <4>4
    <3> QED
      BY <3>1, <3>2
  <2>3. \A y \in Cached' : page'[BlockAt(y)'] \in Sectors
    <3> SUFFICES ASSUME NEW y \in Cached' PROVE page'[BlockAt(y)'] \in Sectors
      OBVIOUS
    <3>1. CASE y = <<Job.did, Job.blk>> /\ BlockAt(y)' = g
      BY Zenon, <1>i, <2>2, <3>1
    <3>2. CASE y \in Cached /\ y # <<Job.did, Job.blk>> /\ BlockAt(y)' = BlockAt(y)
      <4>1. BlockAt(y) \in Pages /\ BlockAt(y) # L /\ BlockAt(y) # g
        <5>1. BlockAt(y) \in Pages
          BY ZenonT(30), <1>c, <3>2 DEF Cached, BlockAt
        <5> QED
          BY <5>1, <1>e, <1>n, <3>2
      <4> QED
        BY Zenon, <1>0, <1>i, <3>2, <4>1 DEF DriverContents
    <3> QED
      BY <1>m, <3>1, <3>2
  <2>4. (Asked => Asking # NoPage /\ page[cmd_list[DiskPort]] = Command(Asking))'
    BY Zenon, <1>a, <1>i, <1>l DEF Command
  <2> QED
    BY <2>1, <2>3, <2>4 DEF DriverContents
<1>6. DriverDisks'
  <2> SUFFICES ASSUME OneController' PROVE DriverDisks'
    BY Zenon DEF DriverDisks
  <2>1. OneController
    BY <1>a DEF OneController, FnAt
  <2>2. /\ \A d \in 1 .. Len(disk) :
             disk[d].from = <<ctl, disk[d].disk_ind>> /\ hw.unit[ctl][disk[d].disk_ind] = "disk"
        /\ ReadsItsDisk
        /\ ctl \in Ctls => \E x \in DevFns : FnAt(x).type = "ahci" /\ FnAt(x).ctl = ctl
    BY Zenon, <1>0, <2>1 DEF DriverDisks
  <2>3. port'[ctl][DiskPort].ci
    <3>1. hw.unit[ctl][DiskPort] = "disk"
      BY Zenon, <1>b, <2>2 DEF DiskPort
    <3>2. IsSetUp(DiskPort)
      BY <1>0, <1>a, <1>b, <3>1 DEF DriverPorts, Stuck, InPorts
    <3> QED
      BY Zenon, <1>k, <3>2 DEF IsSetUp
  <2>4. ReadsItsDisk'
    <3> SUFFICES ASSUME NEW d \in 1 .. Len(disk), NEW b \in Blocks, cache'[d][b] # NoPage,
                        ~(Job.did = d /\ Job.blk = b)
                 PROVE  page'[cache'[d][b]] = Block(disk[d].from[1], disk[d].from[2], b)
      BY Zenon, <1>a, <1>l DEF ReadsItsDisk
    <3>1. d \in 1 .. NDISK
      BY <1>0 DEF DriverTypes
    <3>2. cache'[d][b] = cache[d][b] /\ cache[d][b] \in Pages
      BY Zenon, <1>c, <1>h, <3>1
    <3>3. <<d, b>> \in Cached /\ BlockAt(<<d, b>>) = cache[d][b] /\ <<d, b>> # <<Job.did, Job.blk>>
      BY Zenon, <3>1, <3>2 DEF Cached, BlockAt
    <3>4. cache[d][b] # L /\ cache[d][b] # g
      BY Zenon, <1>e, <1>n, <3>3
    <3>5. page'[cache'[d][b]] = page[cache[d][b]]
      BY Zenon, <1>i, <3>2, <3>4
    <3> QED
      BY SMTT(30), <1>a, <2>2, <3>2, <3>5 DEF ReadsItsDisk
  <2>5. (ctl \in Ctls => \E x \in DevFns : FnAt(x).type = "ahci" /\ FnAt(x).ctl = ctl)'
    BY Zenon, <1>a, <2>2 DEF FnAt
  <2>6. (\A d \in 1 .. Len(disk) :
           /\ disk[d].from = <<ctl, disk[d].disk_ind>>
           /\ hw.unit[ctl][disk[d].disk_ind] = "disk")'
    BY Zenon, <1>a, <2>2
  <2>7. (Asked => \/ port[ctl][DiskPort].ci
                  \/ page[Asking] = Block(ctl, DiskPort, Job.blk))'
    BY Zenon, <1>a, <1>l, <2>3
  <2> QED
    BY Zenon, <2>4, <2>5, <2>6, <2>7 DEF DriverDisks
<1> QED
  BY <1>1, <1>2, <1>3, <1>4, <1>5, <1>6 DEF DriverInv

-----------------------------------------------------------------------------
(* A port stops or fails: nothing changes that the driver relies on.       *)
LEMMA PortTouchedInv ==
  ASSUME DriverInv, UNCHANGED kpages, NEW c \in Ctls, NEW n \in Ports,
         StopsList(c, n) \/ StopsReceiving(c, n) \/ Fails(c, n)
  PROVE  DriverInv'
<1>0. DriverTypes /\ DriverPlace /\ DriverPorts /\ DriverPages /\ DriverContents /\ DriverDisks
  BY DEF DriverInv
<1>a. /\ UNCHANGED <<hw, pc, stack, pcie_dev_list, ctl, portno, cmd_list, disk, agenda, cmd_tbl,
                     cache, page, kpages>>
      /\ \/ port' = [port EXCEPT ![c][n].cr = FALSE]
         \/ port' = [port EXCEPT ![c][n].fr = FALSE]
         \/ port' = [port EXCEPT ![c][n].tfes = TRUE]
  BY DEF StopsList, StopsReceiving, Fails
<1>b. port \in [Ctls -> [Ports -> Registers]] /\ port[c][n] \in Registers
  BY <1>0 DEF DriverTypes
<1>c. PICK r : /\ r \in Registers /\ port' = [port EXCEPT ![c][n] = r]
               /\ r.clb = port[c][n].clb /\ r.st = port[c][n].st /\ r.ci = port[c][n].ci
  <2>1. CASE port' = [port EXCEPT ![c][n].cr = FALSE]
    <3> WITNESS [port[c][n] EXCEPT !.cr = FALSE]
    <3> QED
      BY Zenon, <1>b, <2>1 DEF Registers
  <2>2. CASE port' = [port EXCEPT ![c][n].fr = FALSE]
    <3> WITNESS [port[c][n] EXCEPT !.fr = FALSE]
    <3> QED
      BY Zenon, <1>b, <2>2 DEF Registers
  <2>3. CASE port' = [port EXCEPT ![c][n].tfes = TRUE]
    <3> WITNESS [port[c][n] EXCEPT !.tfes = TRUE]
    <3> QED
      BY Zenon, <1>b, <2>3 DEF Registers
  <2> QED
    BY <1>a, <2>1, <2>2, <2>3
<1>d. /\ port' \in [Ctls -> [Ports -> Registers]]
      /\ \A d \in Ctls, m \in Ports :
           /\ port'[d][m].clb = port[d][m].clb /\ port'[d][m].st = port[d][m].st
           /\ port'[d][m].ci = port[d][m].ci
  <2>1. \A d \in Ctls, m \in Ports : port'[d][m] = IF d = c /\ m = n THEN r ELSE port[d][m]
    BY <1>b, <1>c
  <2> QED
    BY <1>b, <1>c, <2>1
<1>e. Job' = Job /\ DiskPort' = DiskPort /\ Asking' = Asking /\ (Asked' <=> Asked)
      /\ (OneController' <=> OneController) /\ Cached' = Cached
      /\ \A y \in Cached : BlockAt(y)' = BlockAt(y)
  BY <1>a DEF Job, DiskPort, Asking, Asked, OneController, FnAt, Cached, BlockAt
<1>1. DriverTypes'
  BY <1>0, <1>a, <1>d DEF DriverTypes
<1>2. DriverPlace'
  BY <1>0, <1>a, <1>e DEF DriverPlace, InPorts, Scanning, Reading
<1>3. DriverPorts'
  <2>1. ctl \in Ctls => \A m \in Ports : IsSetUp(m)' <=> IsSetUp(m)
    BY <1>a, <1>d DEF IsSetUp
  <2>2. (ctl \in Ctls => \A m \in Ports :
           hw.unit[ctl][m] = "disk" => IsSetUp(m) \/ (InPorts /\ m >= portno) \/ Stuck)'
    BY <1>0, <1>a, <2>1 DEF DriverPorts, InPorts, Stuck
  <2>3. (\A m \in Ports : cmd_list[m] # NoPage => \E d \in Ctls : port[d][m].clb = cmd_list[m])'
    BY <1>0, <1>a, <1>d DEF DriverPorts
  <2>4. (\A d \in Ctls, m \in Ports : port[d][m].st => hw.unit[d][m] = "disk")'
    BY <1>0, <1>a, <1>d DEF DriverPorts
  <2>5. (\A d \in Ctls, m \in Ports : port[d][m].ci =>
           port[d][m].st /\ Asked /\ d = ctl /\ m = DiskPort)'
    BY <1>0, <1>a, <1>d, <1>e DEF DriverPorts
  <2> QED
    BY <1>0, <1>a, <2>2, <2>3, <2>4, <2>5 DEF DriverPorts, Stuck
<1>4. DriverPages'
  BY <1>0, <1>a, <1>d, PagesKept
<1>5. DriverContents'
  BY <1>0, <1>a, <1>e DEF DriverContents, Command
<1>6. DriverDisks'
  <2>1. ReadsItsDisk' <=> ReadsItsDisk
    BY <1>a, <1>e DEF ReadsItsDisk
  <2>2. Asked => ctl \in Ctls /\ DiskPort \in Ports
    BY BlockJob DEF Asked, Reading
  <2>3. OneController => ((ctl \in Ctls => \E x \in DevFns : FnAt(x).type = "ahci" /\ FnAt(x).ctl = ctl)
          /\ (\A d \in 1 .. Len(disk) :
                disk[d].from = <<ctl, disk[d].disk_ind>> /\ hw.unit[ctl][disk[d].disk_ind] = "disk"))'
    BY <1>0, <1>a DEF DriverDisks, FnAt
  <2>4. ASSUME OneController, Asked
        PROVE  port'[ctl][DiskPort].ci \/ page[Asking] = Block(ctl, DiskPort, Job.blk)
    BY <1>0, <1>d, <2>2, <2>4 DEF DriverDisks
  <2>5. Block(ctl, DiskPort, Job.blk)' = Block(ctl, DiskPort, Job.blk)
    BY <1>a, <1>e DEF Block
  <2>6. OneController /\ Asked => (port[ctl][DiskPort].ci \/ page[Asking] = Block(ctl, DiskPort, Job.blk))'
    BY <1>a, <1>e, <2>4, <2>5
  <2>7. OneController => ReadsItsDisk'
    BY <1>0, <2>1 DEF DriverDisks
  <2> QED
    BY <1>e, <2>3, <2>6, <2>7 DEF DriverDisks
<1> QED
  BY <1>1, <1>2, <1>3, <1>4, <1>5, <1>6 DEF DriverInv

(* The port that was asked puts the block into its page.                   *)
LEMMA FinishesInv ==
  ASSUME DriverInv, UNCHANGED kpages, NEW c \in Ctls, NEW n \in Ports, Finishes(c, n)
  PROVE  DriverInv'
<1> USE Sizes
<1>0. DriverTypes /\ DriverPlace /\ DriverPorts /\ DriverPages /\ DriverContents /\ DriverDisks
  BY DEF DriverInv
<1>a. /\ UNCHANGED <<hw, pc, stack, pcie_dev_list, ctl, portno, cmd_list, disk, agenda, cmd_tbl,
                     cache, kpages>>
      /\ port[c][n].ci /\ port' = [port EXCEPT ![c][n].ci = FALSE]
      /\ page' = [page EXCEPT ![page[port[c][n].clb].buf] = Block(c, n, page[port[c][n].clb].blk)]
  BY DEF Finishes
<1>b. port[c][n].st /\ Asked /\ Reading /\ c = ctl /\ n = DiskPort
  BY <1>0, <1>a DEF DriverPorts, Asked, Reading
<1>c. /\ Job.did \in 1 .. Len(disk) /\ Job.did \in 1 .. NDISK /\ Job.blk \in Blocks
      /\ cmd_list[DiskPort] # NoPage
      /\ port \in [Ctls -> [Ports -> Registers]] /\ port[c][n] \in Registers
      /\ cache \in [1 .. NDISK -> [Blocks -> Pages]] /\ DOMAIN page = Pages
  BY <1>0, <1>b, BlockJob DEF DriverTypes
<1>d. port[c][n].clb = cmd_list[DiskPort]
  <2>1. hw.unit[c][n] = "disk"
    BY Zenon, <1>0, <1>b DEF DriverPorts
  <2>2. IsSetUp(n)
    BY Zenon, <1>0, <1>b, <2>1 DEF DriverPorts, InPorts, Stuck, Asked
  <2> QED
    BY Zenon, <1>b, <2>2 DEF IsSetUp
<1>e. /\ page[port[c][n].clb] = Command(Asking)
      /\ Asking # NoPage /\ Asking \in Pages
      /\ <<Job.did, Job.blk>> \in Cached /\ BlockAt(<<Job.did, Job.blk>>) = Asking
  BY Zenon, <1>0, <1>b, <1>c, <1>d DEF DriverContents, Cached, BlockAt, Asking
<1>f. page' = [page EXCEPT ![Asking] = Block(c, n, Job.blk)]
  BY <1>a, <1>e DEF Command
<1>g. /\ page'[Asking] = Block(c, n, Job.blk) /\ DOMAIN page' = Pages
      /\ \A p \in Pages : p # Asking => page'[p] = page[p]
  BY Zenon, <1>c, <1>e, <1>f
<1>h. /\ port' \in [Ctls -> [Ports -> Registers]] /\ ~port'[c][n].ci
      /\ \A d \in Ctls, m \in Ports :
           /\ port'[d][m].clb = port[d][m].clb /\ port'[d][m].st = port[d][m].st
           /\ port'[d][m].ci => port[d][m].ci /\ ~(d = c /\ m = n)
  <2> DEFINE r == [port[c][n] EXCEPT !.ci = FALSE]
  <2>1. r \in Registers /\ r.clb = port[c][n].clb /\ r.st = port[c][n].st /\ r.ci = FALSE
    BY Zenon, <1>c DEF Registers
  <2>2. port' = [port EXCEPT ![c] = [port[c] EXCEPT ![n] = r]]
    BY <1>a, <1>c
  <2> HIDE DEF r
  <2>3. \A d \in Ctls, m \in Ports : port'[d][m] = IF d = c /\ m = n THEN r ELSE port[d][m]
    BY <1>c, <2>2
  <2>4. port' \in [Ctls -> [Ports -> Registers]]
    BY <1>c, <2>1, <2>2
  <2> QED
    BY <2>1, <2>3, <2>4
<1>i. Job' = Job /\ DiskPort' = DiskPort /\ Asking' = Asking /\ (Asked' <=> Asked)
      /\ (OneController' <=> OneController) /\ Cached' = Cached
      /\ \A y \in Cached : BlockAt(y)' = BlockAt(y)
  BY <1>a DEF Job, DiskPort, Asking, Asked, OneController, FnAt, Cached, BlockAt
<1>1. DriverTypes'
  BY SMTT(30), <1>0, <1>a, <1>g, <1>h DEF DriverTypes
<1>2. DriverPlace'
  BY <1>0, <1>a, <1>i DEF DriverPlace, InPorts, Scanning, Reading
<1>3. DriverPorts'
  <2>1. \A m \in Ports : IsSetUp(m)' <=> IsSetUp(m)
    BY <1>a, <1>b, <1>h DEF IsSetUp
  <2>2. (ctl \in Ctls => \A m \in Ports :
           hw.unit[ctl][m] = "disk" => IsSetUp(m) \/ (InPorts /\ m >= portno) \/ Stuck)'
    BY <1>0, <1>a, <2>1 DEF DriverPorts, InPorts, Stuck
  <2>3. (\A m \in Ports : cmd_list[m] # NoPage => \E d \in Ctls : port[d][m].clb = cmd_list[m])'
    BY <1>0, <1>a, <1>h DEF DriverPorts
  <2>4. (\A d \in Ctls, m \in Ports : port[d][m].st => hw.unit[d][m] = "disk")'
    BY <1>0, <1>a, <1>h DEF DriverPorts
  <2>5. (\A d \in Ctls, m \in Ports : port[d][m].ci =>
           port[d][m].st /\ Asked /\ d = ctl /\ m = DiskPort)'
    BY <1>0, <1>a, <1>h, <1>i DEF DriverPorts
  <2> QED
    BY SMTT(30), <1>0, <1>a, <2>2, <2>3, <2>4, <2>5 DEF DriverPorts, Stuck
<1>4. DriverPages'
  BY <1>0, <1>a, <1>h, PagesKept
<1>j. cmd_list[DiskPort] # Asking /\ cmd_list[DiskPort] \in Pages
  <2>1. <<c, n>> \in Lists /\ ListAt(<<c, n>>) = cmd_list[DiskPort]
    BY Zenon, <1>c, <1>d DEF Lists, ListAt
  <2>2. cmd_list[DiskPort] \in Pages
    BY Zenon, <1>c, <1>d DEF Registers
  <2> QED
    BY Zenon, <1>0, <1>e, <2>1, <2>2 DEF DriverPages
<1>k. \A y \in Cached : y # <<Job.did, Job.blk>> => BlockAt(y) # Asking /\ BlockAt(y) \in Pages
  <2>1. \A y \in Cached : BlockAt(y) \in Pages
    BY ZenonT(30), <1>c DEF Cached, BlockAt
  <2> QED
    BY Zenon, <1>0, <1>e, <2>1 DEF DriverPages
<1>5. DriverContents'
  <2>1. page'[NoPage] = Zero
    <3>1. NoPage \in Pages
      BY DEF NoPage, Pages
    <3> QED
      BY Zenon, <1>0, <1>e, <1>g, <3>1 DEF DriverContents
  <2>2. Block(c, n, Job.blk) \in Sectors
    BY <1>c DEF Block, Sectors
  <2>3. \A y \in Cached : page'[BlockAt(y)] \in Sectors
    BY Zenon, <1>0, <1>e, <1>g, <1>k, <2>2 DEF DriverContents
  <2>4. page'[cmd_list[DiskPort]] = Command(Asking)
    BY Zenon, <1>0, <1>b, <1>g, <1>j DEF DriverContents
  <2> QED
    BY <1>a, <1>e, <1>i, <2>1, <2>3, <2>4 DEF DriverContents, Command
<1>6. DriverDisks'
  <2> SUFFICES ASSUME OneController' PROVE DriverDisks'
    BY Zenon DEF DriverDisks
  <2>1. /\ ReadsItsDisk /\ OneController
        /\ \A d \in 1 .. Len(disk) :
             disk[d].from = <<ctl, disk[d].disk_ind>> /\ hw.unit[ctl][disk[d].disk_ind] = "disk"
        /\ ctl \in Ctls => \E x \in DevFns : FnAt(x).type = "ahci" /\ FnAt(x).ctl = ctl
    BY Zenon, <1>0, <1>i DEF DriverDisks
  <2>2. ReadsItsDisk'
    <3> SUFFICES ASSUME NEW d \in 1 .. Len(disk), NEW b \in Blocks, cache[d][b] # NoPage,
                        ~(Job.did = d /\ Job.blk = b)
                 PROVE  page'[cache[d][b]] = Block(disk[d].from[1], disk[d].from[2], b)
      BY SMTT(30), <1>a, <1>b, <1>i DEF ReadsItsDisk, Asked
    <3>1. d \in 1 .. NDISK
      BY <1>0 DEF DriverTypes
    <3>2. <<d, b>> \in Cached /\ BlockAt(<<d, b>>) = cache[d][b] /\ <<d, b>> # <<Job.did, Job.blk>>
      BY <3>1 DEF Cached, BlockAt
    <3>3. page'[cache[d][b]] = page[cache[d][b]]
      BY Zenon, <1>g, <1>k, <3>2
    <3> QED
      BY Zenon, <2>1, <3>3 DEF ReadsItsDisk
  <2>3. page'[Asking'] = Block(ctl', DiskPort', Job'.blk)
    BY SMTT(30), <1>a, <1>b, <1>g, <1>i
  <2> QED
    BY Zenon, <1>a, <1>b, <1>i, <2>1, <2>2, <2>3 DEF DriverDisks, FnAt, Block
<1> QED
  BY <1>1, <1>2, <1>3, <1>4, <1>5, <1>6 DEF DriverInv

-----------------------------------------------------------------------------
(* A controller has been found by no one yet, and no page is in use.       *)
LEMMA DriverInit ==
  ASSUME StartupInit
  PROVE  DriverInv /\ Keeps
<1> USE Sizes
<1>1. PICK b \in Boots : StorageInit(b[1]) /\ MemInit(b[2][1], b[2][2]) /\ kpages = {}
  BY DEF StartupInit
<1>2. hw = b[1] /\ hw \in Machines /\ IsMachine(hw) /\ port = hw.left
  BY SMTT(30), <1>1, StartupAssumption, StorageAssumption DEF StorageInit
<1>3. /\ hw.left \in [Ctls -> [Ports -> Registers]]
      /\ \A c \in Ctls, n \in Ports :
           /\ ~port[c][n].ci /\ port[c][n].clb = NoPage
           /\ port[c][n].st => hw.unit[c][n] = "disk"
  BY Zenon, <1>2 DEF IsMachine
<1>4. /\ pc = "scan" /\ stack = << <<0, 0>> >> /\ pcie_dev_list = << >> /\ ctl = NoCtl /\ portno = 0
      /\ cmd_list = [n \in Ports |-> NoPage] /\ disk = << >> /\ agenda = << >> /\ cmd_tbl = NoPage
      /\ cache = [d \in 1 .. NDISK |-> [k \in Blocks |-> NoPage]]
      /\ page = [g \in Pages |-> Zero]
  BY Zenon, <1>1 DEF StorageInit
<1>5. NoPage \in Pages /\ ctl \notin Ctls
  BY <1>4, StorageAssumption DEF NoPage, Pages
<1>6. Cached = {} /\ Lists = {}
  BY Zenon, <1>3, <1>4 DEF Cached, BlockAt, Lists, ListAt
<1>7. DriverTypes
  <2>1. stack \in Seq(Buses \X (0 .. NDEVFN))
    <3>1. <<0, 0>> \in Buses \X (0 .. NDEVFN)
      BY DEF Buses
    <3> QED
      BY <1>4, <3>1
  <2>2. agenda \in Seq(Tasks(disk)) /\ disk \in Seq(Disks) /\ Len(disk) <= NDISK
        /\ pcie_dev_list \in Seq(DevFns)
    BY <1>4
  <2>3. /\ cmd_list \in [Ports -> Pages] /\ cache \in [1 .. NDISK -> [Blocks -> Pages]]
        /\ DOMAIN page = Pages /\ cmd_tbl \in Pages
    BY <1>4, <1>5
  <2>4. pc \in PCs /\ ctl \in Ctls \cup {NoCtl}
    BY Zenon, <1>4 DEF PCs
  <2>5. portno \in 0 .. NPORTS
    BY <1>4
  <2> QED
    BY Zenon, <1>2, <1>3, <2>1, <2>2, <2>3, <2>4, <2>5 DEF DriverTypes
<1>8. DriverPlace
  BY <1>4, <1>6 DEF DriverPlace, InPorts, Reading
<1>9. DriverPorts
  <2>1. \A d \in 1 .. Len(disk) : FALSE
    BY <1>4
  <2>2. \A n \in Ports : cmd_list[n] = NoPage
    BY <1>4
  <2> QED
    BY Zenon, <1>3, <1>5, <2>1, <2>2 DEF DriverPorts
<1>10. DriverPages
  BY <1>4, <1>6 DEF DriverPages
<1>11. DriverContents
  BY <1>4, <1>5, <1>6 DEF DriverContents, Asked
<1>12. DriverDisks
  <2>1. \A d \in 1 .. Len(disk) : FALSE
    BY <1>4
  <2>2. ~Asked
    BY <1>4 DEF Asked
  <2> QED
    BY Zenon, <1>5, <2>1, <2>2 DEF DriverDisks, ReadsItsDisk
<1>13. Keeps
  BY SMTT(30), <1>1, MemAssumption DEF MemInit, Keeps
<1> QED
  BY <1>7, <1>8, <1>9, <1>10, <1>11, <1>12, <1>13 DEF DriverInv

(* Steps that leave the drivers alone, but for pages they may take.        *)
LEMMA DriverUntouched ==
  ASSUME DriverInv, UNCHANGED dev, kpages \subseteq kpages'
  PROVE  DriverInv'
<1>0. DriverTypes /\ DriverPlace /\ DriverPorts /\ DriverPages /\ DriverContents /\ DriverDisks
  BY DEF DriverInv
<1>1. DriverTypes'
  BY SMTT(30), <1>0 DEF DriverTypes, dev
<1>2. DriverPlace'
  BY Zenon, <1>0 DEF DriverPlace, InPorts, Scanning, Reading, Job, Cached, BlockAt, dev
<1>3. DriverPorts'
  BY Zenon, <1>0 DEF DriverPorts, IsSetUp, InPorts, Stuck, Asked, DiskPort, Job, dev
<1>4. DriverPages'
  BY <1>0, PagesKept DEF dev
<1>5. DriverContents'
  BY Zenon, <1>0 DEF DriverContents, Cached, BlockAt, Asked, Asking, DiskPort, Job, Command, dev
<1>6. DriverDisks'
  <2>1. /\ Job' = Job /\ DiskPort' = DiskPort /\ Asking' = Asking /\ (Asked' <=> Asked)
        /\ (OneController' <=> OneController)
    BY Zenon DEF Job, DiskPort, Asking, Asked, OneController, FnAt, dev
  <2>2. ReadsItsDisk' <=> ReadsItsDisk
    BY Zenon, <2>1 DEF ReadsItsDisk, dev
  <2> QED
    BY Zenon, <1>0, <2>1, <2>2 DEF DriverDisks, FnAt, dev
<1> QED
  BY <1>1, <1>2, <1>3, <1>4, <1>5, <1>6 DEF DriverInv

(* Every step of the drivers that takes no page keeps it.                  *)
LEMMA DriverStepInv ==
  ASSUME DriverInv, DriverStep, UNCHANGED kpages
  PROVE  DriverInv'
<1>0. DriverTypes
  BY DEF DriverInv
<1>1. CASE ScanDone \/ scan_devfn
  BY <1>1, BusScanned, ScannedInv
<1>2. CASE AhciPort
  <2>1. CASE portno < NPORTS /\ hw.unit[ctl][portno] = "disk" /\ Len(disk) < NDISK
    BY Zenon, <1>2, <2>1, DiskFoundInv DEF AhciPort
  <2>2. CASE ~(portno < NPORTS /\ hw.unit[ctl][portno] = "disk" /\ Len(disk) < NDISK)
    <3>1. Moved
      BY Zenon, <1>2, <2>2 DEF AhciPort, Moved
    <3> QED
      BY <3>1, MovedInv
  <2> QED
    BY <2>1, <2>2
<1>3. CASE ReceiveStopped \/ PortIdle
  <2>1. Moved
    BY Zenon, <1>3 DEF ReceiveStopped, PortIdle, Moved
  <2> QED
    BY <2>1, MovedInv
<1>4. CASE init_disk \/ Done \/ ReadBlock \/ disk_read \/ init_mbr \/ MbrEntry \/ init_gpt
           \/ detect_guid \/ detect_fs
  <2>1. Went
    BY <1>4, JobsWent
  <2> QED
    BY <2>1, WentInv
<1>5. CASE Poll
  BY <1>5, PollInv
<1>6. CASE ~NeedsPage /\ pc = "issue" /\ Issue(cache[Job.did][Job.blk])
  <2>1. Job.did \in 1 .. NDISK /\ Job.blk \in Blocks
    BY Zenon, <1>6, BlockJob DEF Reading
  <2>2. Asking \in Pages /\ Asking # NoPage /\ Issue(Asking)
    BY <1>0, <1>6, <2>1 DEF DriverTypes, Asking, NeedsPage
  <2> QED
    BY ONLY <2>2, DriverInv, kpages' = kpages, IssueInv
<1> QED
  BY Zenon, <1>1, <1>2, <1>3, <1>4, <1>5, <1>6 DEF DriverStep

(* Every step of the kernel, of the ports and of processes.                *)
LEMMA StartupStepInv ==
  ASSUME MemInv, Keeps, DriverInv, [StartupNext]_all
  PROVE  DriverInv'
<1>p. Pages = Frames
  BY StartupAssumption DEF Pages, Frames
<1>1. CASE UNCHANGED all
  BY <1>1, DriverUntouched DEF all
<1>2. CASE Boot \/ Run
  BY <1>2, DriverUntouched DEF Boot, Run, Quiet
<1>3. CASE Driver
  BY <1>3, DriverStepInv DEF Driver
<1>4. CASE NoPageLeft
  <2>1. Moved
    BY <1>4 DEF NoPageLeft, NeedsPage, Moved
  <2> QED
    BY <2>1, MovedInv
<1>5. CASE Hardware
  BY <1>5, PortTouchedInv, FinishesInv DEF Hardware, PortStep
<1>6. ASSUME NEW g \in Frames, TablePage(g) \/ TakesList(g) \/ TakesTable(g) \/ TakesBlock(g)
      PROVE  DriverInv'
  <2>1. alloc_page(g)
    BY <1>6 DEF TablePage, TakesList, TakesTable, TakesBlock, Takes
  <2>2. g \in Pages /\ g # NoPage /\ g \notin kpages
    BY <1>p, <2>1, FreshPage
  <2>3. CASE UNCHANGED dev /\ (kpages' = kpages \/ kpages' = kpages \cup {g})
    BY <2>3, DriverUntouched
  <2>4. CASE PortSetup(g) /\ kpages' = kpages \cup {g}
    BY <2>2, <2>4, PortSetupInv
  <2>5. CASE TableSet(g) /\ kpages' = kpages \cup {g}
    BY <2>2, <2>5, TableSetInv
  <2>6. CASE NeedsPage /\ Issue(g) /\ kpages' = kpages \cup {g}
    BY <2>2, <2>6, IssueInv
  <2> QED
    BY <1>6, <2>3, <2>4, <2>5, <2>6 DEF TablePage, TakesList, TakesTable, TakesBlock, Takes
<1>7. CASE \E g \in Frames : ProcTakes(g) \/ ProcShares(g) \/ ProcFrees(g)
  BY <1>7, DriverUntouched DEF ProcTakes, ProcShares, ProcFrees, Quiet
<1>8. CASE \E f, g \in Frames : ProcCopies(f, g)
  BY <1>8, DriverUntouched DEF ProcCopies, Quiet
<1>9. CASE \E r \in Requests : ProcReads(r)
  <2>1. Went
    BY <1>9, JobsWent DEF ProcReads
  <2> QED
    BY <2>1, WentInv
<1> QED
  BY <1>1, <1>2, <1>3, <1>4, <1>5, <1>6, <1>7, <1>8, <1>9 DEF StartupNext

(* The invariant of memory, drivers and ports together.                    *)
THEOREM StartupInvariant == StartupSpec => [](MemInv /\ Keeps /\ DriverInv)
<1>1. StartupInit => Keeps /\ DriverInv
  BY DriverInit
<1>2. MemInv /\ Keeps /\ DriverInv /\ [StartupNext]_all => Keeps' /\ DriverInv'
  BY KeepsStep, StartupStepInv
<1>3. StartupSpec => []MemInv
  BY MemoryIsFreePages, MemInvariant, PTL
<1> QED
  BY <1>1, <1>2, <1>3, PTL DEF StartupSpec

(* The variables of memory and drivers stay in their types, whatever       *)
(* machine and memory map the kernel starts on.                            *)
THEOREM StartupTypes == StartupSpec => []StartupTypeOK
<1>1. MemInv /\ Keeps /\ DriverInv => StartupTypeOK
  <2> SUFFICES ASSUME MemInv, Keeps, DriverInv PROVE StartupTypeOK
    OBVIOUS
  <2>1. MemTypeOK /\ kpages \in SUBSET Frames /\ DriverTypes
    BY DEF MemInv, Keeps, DriverInv
  <2>2. \A d \in DOMAIN disk :
          disk[d].disk_ind \in Ports /\ disk[d].from \in Ctls \X Ports /\ disk[d].part \in Seq(Blocks)
    <3> SUFFICES ASSUME NEW d \in DOMAIN disk
                 PROVE  /\ disk[d].disk_ind \in Ports /\ disk[d].from \in Ctls \X Ports
                        /\ disk[d].part \in Seq(Blocks)
      OBVIOUS
    <3>1. disk[d] \in Disks
      BY <2>1 DEF DriverTypes
    <3> QED
      BY <3>1 DEF Disks
  <2>3. \A d \in DOMAIN cache : cache[d] \in [Blocks -> Pages]
    BY Zenon, <2>1 DEF DriverTypes
  <2>4. StorageTypeOK
    BY Zenon, <2>1, <2>2, <2>3 DEF StorageTypeOK, DriverTypes, PCs, DevFns
  <2> QED
    BY <2>1, <2>4 DEF StartupTypeOK
<1> QED
  BY <1>1, StartupInvariant, PTL

(* The pages of the drivers stay apart from each other, from the free list *)
(* and from the pages of processes (alloc_page in pcie_sata_ahci_init and  *)
(* sata_read_block).                                                       *)
THEOREM DriversKeepApart == StartupSpec => []DriverPagesApart
<1>1. Keeps /\ DriverInv => DriverPagesApart
  <2> SUFFICES ASSUME Keeps, DriverInv PROVE DriverPagesApart
    OBVIOUS
  <2>1. DriverPages
    BY DEF DriverInv
  <2>2. ASSUME halted = "no", NEW g \in {ListAt(x) : x \in Lists} \cup {BlockAt(y) : y \in Cached}
                                        \cup ({cmd_tbl} \ {NoPage})
        PROVE  g \in kpages /\ held[g] = 1
    <3>1. g \in kpages
      BY <2>1 DEF DriverPages
    <3> QED
      BY <2>2, <3>1 DEF Keeps
  <2> QED
    BY SMTT(30), <2>1, <2>2 DEF DriverPagesApart, DriverPages
<1> QED
  BY <1>1, StartupInvariant, PTL

(* With one controller, every block of the cache that is not being read is *)
(* the block of its disk (disk_read, sata_read_block).                     *)
THEOREM BlocksAreRight == StartupSpec => []BlockIsRight
<1>1. DriverInv => BlockIsRight
  BY DEF DriverInv, DriverDisks, BlockIsRight
<1> QED
  BY <1>1, StartupInvariant, PTL
=============================================================================
