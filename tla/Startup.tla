------------------------------ MODULE Startup -------------------------------
(***************************************************************************)
(* The kernel from init() to running processes (kernel/init.c,             *)
(* kernel/main.c): memory first, then the buses and the disks, whose       *)
(* drivers take their pages from the free list, then processes, which take *)
(* and give back pages while system calls read more of the disks.          *)
(***************************************************************************)
EXTENDS FreePages, Storage

CONSTANTS
  Maps,         \* memory maps looked at: <<max_addr, conventional pages>>
  Boots,        \* which machine comes with which map
  Requests,     \* calls of disk_read by processes: <<did, block, blocks>>
  MaxUser       \* bound: references that processes hold

ASSUME StartupAssumption ==
  /\ NPAGES = MaxFrames /\ IMG > 0
  /\ Boots \subseteq Machines \X Maps
  /\ \A m \in Maps : m[1] \in 0 .. MaxFrames /\ m[2] \subseteq 0 .. m[1] - 1
  /\ \A r \in Requests : r[2] \in Nat /\ r[3] \in Nat /\ r[2] + r[3] <= NBLK

VARIABLE kpages         \* history: pages that drivers took

all == <<mem, dev, kpages>>

StartupInit ==
  \E b \in Boots : StorageInit(b[1]) /\ MemInit(b[2][1], b[2][2]) /\ kpages = {}

-----------------------------------------------------------------------------
Boot == InitMem /\ UNCHANGED <<dev, kpages>>

Driver == Up /\ DriverStep /\ UNCHANGED <<mem, kpages>>

(* The driver goes on with page g, unless alloc_page faulted.              *)
Takes(g, Goes) ==
  /\ alloc_page(g)
  /\ IF halted' = "no" THEN Goes /\ kpages' = kpages \cup {g} ELSE UNCHANGED <<dev, kpages>>

(* walk_pgtbl, and map_mmio above it, take pages for page tables.          *)
TablePage(g) == pc \in {"scan", "setup", "issue"} /\ Takes(g, UNCHANGED dev)

TakesList(g) == pc = "setup" /\ Takes(g, PortSetup(g))
TakesTable(g) == pc = "table" /\ Takes(g, TableSet(g))
TakesBlock(g) == NeedsPage /\ Takes(g, Issue(g))

(* With no page left, alloc_page returns NULL, and the drivers use it.     *)
NoPageLeft ==
  /\ Up /\ freepages = NULL
  /\ pc \in {"setup", "table"} \/ NeedsPage
  /\ pc' = "overrun"
  /\ UNCHANGED <<mem, kpages, hw, port, stack, pcie_dev_list, ctl, portno, cmd_list, disk,
                 rtfs, agenda, cmd_tbl, cache, page>>

(* main() creates processes on k_pgtbl; then the first one runs.           *)
User == {f \in Frames : held[f] > 0 /\ f \notin kpages}
Quiet == Up /\ pc = "up" /\ UNCHANGED <<dev, kpages>>

Run == Quiet /\ FirstProc
ProcTakes(g) == Quiet /\ Cardinality(User) < MaxUser /\ alloc_page(g)
ProcShares(f) == Quiet /\ f \in User /\ phase = "run" /\ Share(f)
ProcFrees(f) == Quiet /\ f \in User /\ phase = "run" /\ free_page(f)
ProcCopies(f, g) == Quiet /\ f \in User /\ phase = "run" /\ CopyPage(f, g)

ProcReads(r) == Up /\ phase = "run" /\ FsRead(r[1], r[2], r[3]) /\ UNCHANGED <<mem, kpages>>

Hardware == PortStep /\ UNCHANGED <<mem, kpages>>

StartupNext ==
  \/ Boot \/ Driver \/ NoPageLeft \/ Run \/ Hardware
  \/ \E g \in Frames : TablePage(g) \/ TakesList(g) \/ TakesTable(g) \/ TakesBlock(g)
  \/ \E g \in Frames : ProcTakes(g) \/ ProcShares(g) \/ ProcFrees(g)
  \/ \E f, g \in Frames : ProcCopies(f, g)
  \/ \E r \in Requests : ProcReads(r)

(***************************************************************************)
(* The kernel goes on while it can; a port that was told to stop receiving *)
(* stops, and one that has a command ends it or reports an error.          *)
(***************************************************************************)
KernelGoesOn == Boot \/ Driver \/ NoPageLeft
                \/ \E g \in Frames : TakesList(g) \/ TakesTable(g) \/ TakesBlock(g)

StartupFairness ==
  /\ WF_all(KernelGoesOn)
  /\ \A c \in Ctls, n \in Ports :
       /\ WF_all(StopsReceiving(c, n) /\ UNCHANGED <<mem, kpages>>)
       /\ WF_all((Finishes(c, n) \/ Fails(c, n)) /\ UNCHANGED <<mem, kpages>>)

StartupSpec == StartupInit /\ [][StartupNext]_all /\ StartupFairness
-----------------------------------------------------------------------------
(* The variables of memory and drivers stay in their types.                *)
StartupTypeOK == MemTypeOK /\ StorageTypeOK /\ kpages \in SUBSET Frames

ListAt(cn) == port[cn[1]][cn[2]].clb
BlockAt(db) == cache[db[1]][db[2]]
Lists == {cn \in Ctls \X Ports : ListAt(cn) # NoPage}
Cached == {db \in (1 .. NDISK) \X Blocks : BlockAt(db) # NoPage}

(***************************************************************************)
(* The pages of the drivers are theirs: each command list, the command     *)
(* table and each cached block has a page of its own, which is not on the  *)
(* free list and not given to a process, however often blocks are read     *)
(* again and whatever processes do (alloc_page in pcie_sata_ahci_init and  *)
(* sata_read_block).                                                       *)
(***************************************************************************)
DriverPagesApart ==
  /\ \A x, y \in Lists : ListAt(x) = ListAt(y) => x = y
  /\ \A x, y \in Cached : BlockAt(x) = BlockAt(y) => x = y
  /\ \A x \in Lists, y \in Cached : ListAt(x) # BlockAt(y)
  /\ \A x \in Lists : ListAt(x) # cmd_tbl
  /\ \A y \in Cached : BlockAt(y) # cmd_tbl
  /\ halted = "no" =>
       \A g \in {ListAt(x) : x \in Lists} \cup {BlockAt(y) : y \in Cached}
                \cup ({cmd_tbl} \ {NoPage}) : g \in kpages /\ held[g] = 1

(***************************************************************************)
(* The kernel never waits for ever with nothing to end it: startup, and    *)
(* every disk_read after it, ends or stops in one of the known ways (the   *)
(* waits of pcie_sata_ahci_init and sata_read_block, the recursion of      *)
(* scan_bus).                                                              *)
(***************************************************************************)
WaitsEnd ==
  []<>(halted # "no" \/ pc \in {"up", "panic", "reset", "overflow", "overrun"})
=============================================================================
