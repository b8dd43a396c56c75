----------------------------- MODULE DriverSteps ----------------------------
(***************************************************************************)
(* The invariant of the storage drivers in Startup and the lemmas about    *)
(* the steps that need no new page: the tasks a read leads to, the scan of *)
(* the buses and the end of a command.  StartupProofs has the others, and  *)
(* the theorems.                                                           *)
(***************************************************************************)
EXTENDS Startup, SequenceTheorems, TLAPS

-----------------------------------------------------------------------------
PCs == {"scan", "overflow", "port", "wait_fr", "wait_cr", "reset", "setup", "init_disk", "work",
        "overrun", "table", "issue", "poll", "panic", "up"}

(* What can be on the agenda for the disks dk.                             *)
Tasks(dk) ==
  [op : {"block"}, did : 1 .. Len(dk), blk : Blocks]
  \cup {j \in [op : {"disk_read"}, did : 1 .. Len(dk), blk : 0 .. NBLK, n : 0 .. NBLK] :
          j.blk + j.n <= NBLK}
  \cup [op : {"mbr", "gpt"}, did : 1 .. Len(dk)]
  \cup [op : {"entry"}, did : 1 .. Len(dk), type : MbrTypes]
  \cup [op : {"guid"}, did : 1 .. Len(dk), entry : Entries]
  \cup {j \in [op : {"fs"}, did : 1 .. Len(dk), pid : Nat] : j.pid \in 1 .. Len(dk[j.did].part)}

Disks == [disk_ind : Ports, from : Ctls \X Ports, part : Seq(Blocks)]

(* What a block, or a page before it is read, holds.                       *)
Sectors == {Zero} \cup (Ctls \X Ports \X Blocks)

Scanning == pc \in {"scan", "port", "wait_fr", "wait_cr", "setup", "reset", "overflow"}
InPorts == pc \in {"port", "wait_fr", "wait_cr", "setup"}
Reading == pc \in {"table", "issue", "poll", "panic"}
Asked == pc \in {"poll", "panic"}
Stuck == pc \in {"reset", "overflow", "overrun"}
Asking == cache[Job.did][Job.blk]

DriverTypes ==
  /\ hw \in Machines
  /\ port \in [Ctls -> [Ports -> Registers]]
  /\ pc \in PCs
  /\ stack \in Seq(Buses \X (0 .. NDEVFN))
  /\ pcie_dev_list \in Seq(DevFns)
  /\ ctl \in Ctls \cup {NoCtl}
  /\ portno \in 0 .. NPORTS
  /\ cmd_list \in [Ports -> Pages]
  /\ disk \in Seq(Disks) /\ Len(disk) <= NDISK
  /\ agenda \in Seq(Tasks(disk))
  /\ cmd_tbl \in Pages
  /\ cache \in [1 .. NDISK -> [Blocks -> Pages]]
  /\ DOMAIN page = Pages

(* Where the kernel is, and what it has yet to do there.                   *)
DriverPlace ==
  /\ pc = "scan" \/ InPorts => stack # << >>
  /\ InPorts \/ disk # << >> => ctl \in Ctls
  /\ pc \in {"wait_fr", "wait_cr", "setup"} =>
       /\ portno < NPORTS /\ hw.unit[ctl][portno] = "disk"
       /\ disk # << >> /\ disk[Len(disk)].disk_ind = portno
  /\ Scanning => agenda = << >> /\ Cached = {}
  /\ Reading => agenda # << >> /\ Job.op = "block"

(* The port was set up: it runs, with the list that the driver knows.      *)
IsSetUp(n) == port[ctl][n].st /\ cmd_list[n] # NoPage /\ port[ctl][n].clb = cmd_list[n]

(* A command is only out for the block that the kernel waits for, and its  *)
(* port has a list.                                                        *)
DriverPorts ==
  /\ \A n \in Ports : cmd_list[n] # NoPage => \E c \in Ctls : port[c][n].clb = cmd_list[n]
  /\ \A c \in Ctls, n \in Ports : port[c][n].st => hw.unit[c][n] = "disk"
  /\ \A d \in 1 .. Len(disk) :
       \/ cmd_list[disk[d].disk_ind] # NoPage
       \/ pc \in {"wait_fr", "wait_cr", "setup"} /\ d = Len(disk)
       \/ Stuck
  /\ ctl \in Ctls => \A n \in Ports :
       hw.unit[ctl][n] = "disk" => IsSetUp(n) \/ (InPorts /\ n >= portno) \/ Stuck
  /\ \A c \in Ctls, n \in Ports : port[c][n].ci =>
       port[c][n].st /\ Asked /\ c = ctl /\ n = DiskPort

(* The pages in use are apart, and hold what their users expect.           *)
DriverPages ==
  /\ \A x, y \in Lists : ListAt(x) = ListAt(y) => x = y
  /\ \A x, y \in Cached : BlockAt(x) = BlockAt(y) => x = y
  /\ \A x \in Lists, y \in Cached : ListAt(x) # BlockAt(y)
  /\ \A x \in Lists : ListAt(x) # cmd_tbl /\ ListAt(x) \in kpages
  /\ \A y \in Cached : BlockAt(y) # cmd_tbl /\ BlockAt(y) \in kpages
  /\ cmd_tbl # NoPage => cmd_tbl \in kpages

DriverContents ==
  /\ page[NoPage] = Zero
  /\ \A y \in Cached : page[BlockAt(y)] \in Sectors
  /\ Asked => Asking # NoPage /\ page[cmd_list[DiskPort]] = Command(Asking)

(* With one controller, its ports are where the disks were found.          *)
DriverDisks ==
  OneController =>
    /\ ctl \in Ctls => \E x \in DevFns : FnAt(x).type = "ahci" /\ FnAt(x).ctl = ctl
    /\ \A d \in 1 .. Len(disk) :
         disk[d].from = <<ctl, disk[d].disk_ind>> /\ hw.unit[ctl][disk[d].disk_ind] = "disk"
    /\ ReadsItsDisk
    /\ Asked => \/ port[ctl][DiskPort].ci
                \/ page[Asking] = Block(ctl, DiskPort, Job.blk)

DriverInv == DriverTypes /\ DriverPlace /\ DriverPorts /\ DriverPages /\ DriverContents /\ DriverDisks

-----------------------------------------------------------------------------
(* The sizes that Storage is given.                                        *)
LEMMA Sizes ==
  /\ NDEVFN \in Nat /\ NPORTS \in Nat /\ NDISK \in Nat
  /\ NBUS \in Nat /\ NBUS > 0 /\ NBLK \in Nat /\ NBLK > 0 /\ NPAGES \in Nat /\ NPAGES > 0
  /\ GPTBLKS \in Nat /\ GPTBLKS < NBLK
BY StorageAssumption

(* What each kind of job carries.                                          *)
LEMMA TaskFields ==
  ASSUME NEW dk \in Seq(Disks), NEW j \in Tasks(dk)
  PROVE  /\ j.did \in 1 .. Len(dk)
         /\ j.op = "block" => j.blk \in Blocks
         /\ j.op = "disk_read" => j.blk \in Nat /\ j.n \in Nat /\ j.blk + j.n <= NBLK
         /\ j.op = "entry" => j.type \in MbrTypes
         /\ j.op = "guid" => j.entry \in Entries
         /\ j.op = "fs" => j.pid \in 1 .. Len(dk[j.did].part)
<1> USE StorageAssumption
<1>1. CASE j \in [op : {"block"}, did : 1 .. Len(dk), blk : Blocks]
  BY <1>1
<1>2. CASE j \in {i \in [op : {"disk_read"}, did : 1 .. Len(dk), blk : 0 .. NBLK, n : 0 .. NBLK] :
                    i.blk + i.n <= NBLK}
  BY <1>2
<1>3. CASE j \in [op : {"mbr", "gpt"}, did : 1 .. Len(dk)]
  BY <1>3
<1>4. CASE j \in [op : {"entry"}, did : 1 .. Len(dk), type : MbrTypes]
  BY <1>4
<1>5. CASE j \in [op : {"guid"}, did : 1 .. Len(dk), entry : Entries]
  BY <1>5
<1>6. CASE j \in {i \in [op : {"fs"}, did : 1 .. Len(dk), pid : Nat] :
                    i.pid \in 1 .. Len(dk[i.did].part)}
  BY <1>6
<1> QED
  BY Zenon, <1>1, <1>2, <1>3, <1>4, <1>5, <1>6 DEF Tasks

(* The jobs that the handlers make.                                        *)
LEMMA TaskMade ==
  ASSUME NEW dk \in Seq(Disks), NEW d \in 1 .. Len(dk)
  PROVE  /\ \A b \in Blocks : Read(d, b) \in Tasks(dk)
         /\ \A b \in Nat, n \in Nat : b + n <= NBLK => DiskRead(d, b, n) \in Tasks(dk)
         /\ [op |-> "mbr", did |-> d] \in Tasks(dk)
         /\ [op |-> "gpt", did |-> d] \in Tasks(dk)
         /\ \A t \in MbrTypes : [op |-> "entry", did |-> d, type |-> t] \in Tasks(dk)
         /\ \A e \in Entries : [op |-> "guid", did |-> d, entry |-> e] \in Tasks(dk)
         /\ \A p \in 1 .. Len(dk[d].part) : [op |-> "fs", did |-> d, pid |-> p] \in Tasks(dk)
<1> USE StorageAssumption DEF Tasks
<1>1. \A b \in Blocks : Read(d, b) \in Tasks(dk)
  BY DEF Read
<1>2. ASSUME NEW b \in Nat, NEW n \in Nat, b + n <= NBLK
      PROVE  DiskRead(d, b, n) \in Tasks(dk)
  BY SMTT(30), <1>2 DEF DiskRead
<1>3. [op |-> "mbr", did |-> d] \in Tasks(dk) /\ [op |-> "gpt", did |-> d] \in Tasks(dk)
  OBVIOUS
<1>4. \A t \in MbrTypes : [op |-> "entry", did |-> d, type |-> t] \in Tasks(dk)
  OBVIOUS
<1>5. \A e \in Entries : [op |-> "guid", did |-> d, entry |-> e] \in Tasks(dk)
  OBVIOUS
<1>6. ASSUME NEW p \in 1 .. Len(dk[d].part)
      PROVE  [op |-> "fs", did |-> d, pid |-> p] \in Tasks(dk)
  OBVIOUS
<1> QED
  BY Zenon, <1>1, <1>2, <1>3, <1>4, <1>5, <1>6

(* A table that is read from a cached page, or from page 0 if it is not    *)
(* cached, has the shape of a table.                                       *)
LEMMA TablesRead ==
  ASSUME hw \in Machines, NEW x \in Sectors
  PROVE  TableIn(x) \in Tables
<1>1. CASE x = Zero
  BY <1>1 DEF TableIn, EmptyTable, Tables, MbrTypes
<1>2. CASE x # Zero
  <2>1. x[1] \in Ctls /\ x[2] \in Ports
    BY <1>2 DEF Sectors
  <2>2. hw.table \in [Ctls -> [Ports -> Tables]]
    BY StorageAssumption DEF IsMachine
  <2> QED
    BY <1>2, <2>1, <2>2 DEF TableIn
<1> QED
  BY <1>1, <1>2

(* The agenda stays one when its head is replaced and partitions are added.*)
LEMMA AgendaGoesOn ==
  ASSUME NEW dk \in Seq(Disks), NEW dl \in Seq(Disks), Len(dl) = Len(dk),
         \A d \in 1 .. Len(dk) : Len(dk[d].part) <= Len(dl[d].part),
         NEW ag \in Seq(Tasks(dk)), ag # << >>, NEW js \in Seq(Tasks(dl))
  PROVE  Head(ag) \in Tasks(dk) /\ js \o Tail(ag) \in Seq(Tasks(dl))
<1>1. ASSUME NEW j \in Tasks(dk)
      PROVE  j \in Tasks(dl)
  <2>1. CASE j \in {i \in [op : {"fs"}, did : 1 .. Len(dk), pid : Nat] :
                      i.pid \in 1 .. Len(dk[i.did].part)}
    <3>0. j.did \in 1 .. Len(dk) /\ j.did \in 1 .. Len(dl)
      BY <2>1
    <3>a. dk[j.did] \in Disks /\ dl[j.did] \in Disks
      BY <3>0
    <3>1. dk[j.did].part \in Seq(Blocks) /\ dl[j.did].part \in Seq(Blocks)
      BY <3>a DEF Disks
    <3>2. j \in [op : {"fs"}, did : 1 .. Len(dl), pid : Nat] /\ j.pid \in 1 .. Len(dk[j.did].part)
          /\ Len(dk[j.did].part) <= Len(dl[j.did].part)
      BY <2>1
    <3>3. j.pid \in 1 .. Len(dl[j.did].part)
      BY <3>1, <3>2
    <3> QED
      BY <3>2, <3>3 DEF Tasks
  <2>2. CASE j \notin {i \in [op : {"fs"}, did : 1 .. Len(dk), pid : Nat] :
                         i.pid \in 1 .. Len(dk[i.did].part)}
    BY <2>2 DEF Tasks
  <2> QED
    BY <2>1, <2>2
<1> DEFINE S == Tasks(dk)
           T == Tasks(dl)
<1>2. S \subseteq T
  BY <1>1
<1> HIDE DEF S, T
<1>3. Tail(ag) \in Seq(T) /\ Head(ag) \in S
  <2>1. ag \in Seq(T) /\ ag \in Seq(S)
    <3>1. ag \in Seq(S) /\ Len(ag) \in Nat
      BY DEF S
    <3>2. ag \in [1 .. Len(ag) -> S]
      BY <3>1
    <3>3. ag \in [1 .. Len(ag) -> T]
      BY <3>2, <1>2
    <3> QED
      BY <3>1, <3>3
  <2> QED
    BY <2>1
<1>4. js \o Tail(ag) \in Seq(T)
  BY <1>3, ConcatProperties DEF T
<1> QED
  BY <1>3, <1>4 DEF S, T

(* What the steps have in common that only work on the agenda.             *)
Went ==
  /\ UNCHANGED <<hw, port, stack, pcie_dev_list, ctl, portno, cmd_list, cmd_tbl, cache, page, kpages>>
  /\ disk' \in Seq(Disks) /\ Len(disk') = Len(disk)
  /\ \A d \in 1 .. Len(disk) :
       disk'[d].disk_ind = disk[d].disk_ind /\ disk'[d].from = disk[d].from
  /\ agenda' \in Seq(Tasks(disk'))
  /\ pc \in {"init_disk", "work", "up"} \/ (pc = "poll" /\ ~port[ctl][DiskPort].ci)
  /\ pc' \in {"work", "up", "table", "issue", "overrun"}
  /\ pc' \in {"table", "issue"} => agenda' # << >> /\ Job'.op = "block"

(* A partition is added to a disk (disk[did].part[n_part++]).              *)
LEMMA RegisterWent ==
  ASSUME DriverTypes, NEW d \in 1 .. Len(disk), NEW b \in Blocks,
         disk' = [disk EXCEPT ![d].part = Append(@, b)]
  PROVE  /\ disk' \in Seq(Disks) /\ Len(disk') = Len(disk)
         /\ \A e \in 1 .. Len(disk) :
              /\ disk'[e].disk_ind = disk[e].disk_ind /\ disk'[e].from = disk[e].from
              /\ Len(disk[e].part) <= Len(disk'[e].part)
         /\ Len(disk[d].part) + 1 \in 1 .. Len(disk'[d].part)
<1>1. disk \in Seq(Disks) /\ disk \in [1 .. Len(disk) -> Disks] /\ Len(disk) \in Nat
  BY DEF DriverTypes
<1>2. disk[d] \in Disks /\ disk[d].part \in Seq(Blocks)
  BY <1>1 DEF Disks
<1>3. Append(disk[d].part, b) \in Seq(Blocks) /\ Len(Append(disk[d].part, b)) = Len(disk[d].part) + 1
  BY <1>2
<1>4. [disk[d] EXCEPT !.part = Append(disk[d].part, b)] \in Disks
  BY Zenon, <1>2, <1>3 DEF Disks
<1>5. disk' = [disk EXCEPT ![d] = [disk[d] EXCEPT !.part = Append(disk[d].part, b)]]
  BY <1>1
<1>6. disk' \in [1 .. Len(disk) -> Disks]
  BY <1>1, <1>4, <1>5
<1>7. disk' \in Seq(Disks) /\ Len(disk') = Len(disk)
  BY <1>1, <1>6
<1>8. ASSUME NEW e \in 1 .. Len(disk)
      PROVE  /\ disk'[e].disk_ind = disk[e].disk_ind /\ disk'[e].from = disk[e].from
             /\ Len(disk[e].part) <= Len(disk'[e].part)
  <2>1. disk[e] \in Disks /\ disk[e].part \in Seq(Blocks) /\ Len(disk[e].part) \in Nat
    BY <1>1 DEF Disks
  <2>2. CASE e = d
    <3>1. disk'[e] = [disk[d] EXCEPT !.part = Append(disk[d].part, b)]
      BY <1>1, <1>5, <2>2
    <3> QED
      BY <3>1, <2>1, <2>2, <1>2, <1>3 DEF Disks
  <2>3. CASE e # d
    BY <1>1, <1>5, <2>1, <2>3
  <2> QED
    BY <2>2, <2>3
<1>9. Len(disk[d].part) + 1 \in 1 .. Len(disk'[d].part)
  <2>1. disk'[d].part = Append(disk[d].part, b)
    BY <1>1, <1>2, <1>5 DEF Disks
  <2> QED
    BY <2>1, <1>2, <1>3
<1> QED
  BY <1>7, <1>8, <1>9

(* A handler replaces the head of the agenda by other jobs.                *)
LEMMA DoWent ==
  ASSUME DriverTypes, pc = "work", agenda # << >>, NEW js \in Seq(Tasks(disk)),
         Do(js), UNCHANGED disk,
         UNCHANGED <<hw, port, stack, pcie_dev_list, ctl, portno, cmd_list, cmd_tbl, cache, page, kpages>>,
         UNCHANGED pc
  PROVE  Went
<1>1. disk \in Seq(Disks) /\ agenda \in Seq(Tasks(disk)) /\ Len(disk) = Len(disk)
      /\ \A d \in 1 .. Len(disk) : Len(disk[d].part) <= Len(disk[d].part)
  <2>1. disk \in Seq(Disks) /\ agenda \in Seq(Tasks(disk))
    BY DEF DriverTypes
  <2>2. ASSUME NEW d \in 1 .. Len(disk)
        PROVE  Len(disk[d].part) <= Len(disk[d].part)
    <3>1. disk[d] \in Disks
      BY <2>1
    <3>2. Len(disk[d].part) \in Nat
      BY <3>1 DEF Disks
    <3> QED
      BY <3>2
  <2> QED
    BY <2>1, <2>2
<1>2. js \o Tail(agenda) \in Seq(Tasks(disk))
  BY ONLY <1>1, agenda # << >>, js \in Seq(Tasks(disk)), AgendaGoesOn
<1> QED
  BY <1>1, <1>2 DEF Went, Do

(* It also adds a partition.                                               *)
LEMMA RegisterDoWent ==
  ASSUME DriverTypes, pc = "work", agenda # << >>, NEW d \in 1 .. Len(disk), NEW b \in Blocks,
         Register(d, b), NEW js, js \in Seq(Tasks(disk')), Do(js),
         UNCHANGED <<hw, port, stack, pcie_dev_list, ctl, portno, cmd_list, cmd_tbl, cache, page, kpages>>
  PROVE  Went
<1>1. disk \in Seq(Disks) /\ agenda \in Seq(Tasks(disk))
  BY DEF DriverTypes
<1>2. /\ disk' \in Seq(Disks) /\ Len(disk') = Len(disk)
      /\ \A e \in 1 .. Len(disk) :
           /\ disk'[e].disk_ind = disk[e].disk_ind /\ disk'[e].from = disk[e].from
           /\ Len(disk[e].part) <= Len(disk'[e].part)
  BY Zenon, RegisterWent DEF Register
<1>3. js \o Tail(agenda) \in Seq(Tasks(disk'))
  BY ONLY Zenon, <1>1, <1>2, agenda # << >>, js \in Seq(Tasks(disk')), AgendaGoesOn
<1> QED
  BY <1>1, <1>2, <1>3 DEF Went, Do, Register

(* The tables on a disk that init_mbr and init_gpt work on.                *)
LEMMA TableOfDisk ==
  ASSUME DriverTypes, DriverContents, NEW d \in 1 .. Len(disk)
  PROVE  TableOf(d) \in Tables
<1>1. d \in 1 .. NDISK /\ 0 \in Blocks
  BY StorageAssumption DEF DriverTypes, Blocks
<1>2. page[cache[d][0]] \in Sectors
  <2>1. CASE cache[d][0] = NoPage
    BY <2>1 DEF DriverContents, Sectors
  <2>2. CASE cache[d][0] # NoPage
    <3>1. <<d, 0>> \in Cached /\ BlockAt(<<d, 0>>) = cache[d][0]
      BY <1>1, <2>2 DEF Cached, BlockAt
    <3> QED
      BY <3>1 DEF DriverContents
  <2> QED
    BY <2>1, <2>2
<1> QED
  BY <1>2, TablesRead DEF TableOf, DriverTypes

(* A function on 1 .. n is a sequence.                                     *)
LEMMA FunctionSequence ==
  ASSUME NEW T, NEW n \in Nat, NEW f \in [1 .. n -> T]
  PROVE  f \in Seq(T)
OBVIOUS

(* The loop of disk_read stays on the disk.                                *)
LEMMA OneLess ==
  ASSUME NEW b \in Nat, NEW n \in Nat, b + n <= NBLK, n > 0
  PROVE  /\ n - 1 \in Nat /\ b + (n - 1) <= NBLK
         /\ b + 1 \in Nat /\ (b + 1) + (n - 1) <= NBLK /\ b \in Blocks
BY Sizes DEF Blocks

(* Each handler on the agenda makes jobs that fit the disks.               *)
LEMMA JobsWent ==
  ASSUME DriverInv, UNCHANGED kpages,
         init_disk \/ Done \/ ReadBlock \/ disk_read \/ init_mbr \/ MbrEntry \/ init_gpt
         \/ detect_guid \/ detect_fs \/ (\E r \in Requests : FsRead(r[1], r[2], r[3]))
  PROVE  Went
<1> USE Sizes
<1>0. DriverTypes /\ DriverPlace /\ DriverContents /\ disk \in Seq(Disks)
      /\ agenda \in Seq(Tasks(disk)) /\ Len(disk) \in Nat
  BY DEF DriverInv, DriverTypes
<1>1. ASSUME agenda # << >> PROVE Job \in Tasks(disk) /\ Job.did \in 1 .. Len(disk)
  <2>1. Job \in Tasks(disk)
    BY <1>0, <1>1 DEF Job
  <2> QED
    BY ONLY <2>1, <1>0, TaskFields
<1>e. << >> \in Seq(Tasks(disk)) /\ << >> \in Seq(Tasks(disk'))
  OBVIOUS
<1>2. CASE init_disk
  <2> DEFINE T == Tasks(disk)
             J(k) == IF k % 2 = 1 THEN Read((k + 1) \div 2, 0)
                     ELSE [op |-> "mbr", did |-> k \div 2]
  <2>1. ASSUME NEW k \in 1 .. 2 * Len(disk)
        PROVE  J(k) \in T
    <3>1. CASE k % 2 = 1
      <4>1. (k + 1) \div 2 \in 1 .. Len(disk) /\ 0 \in Blocks
        BY <1>0, <3>1 DEF Blocks
      <4>2. Read((k + 1) \div 2, 0) \in T
        BY ONLY Zenon, <1>0, <4>1, TaskMade
      <4> QED
        BY <4>2, <3>1
    <3>2. CASE k % 2 # 1
      <4>0. k % 2 = 0 /\ k = 2 * (k \div 2) + (k % 2) /\ k \div 2 \in Nat
        BY <1>0, <3>2
      <4>1. k \div 2 \in 1 .. Len(disk)
        BY <1>0, <4>0
      <4>2. [op |-> "mbr", did |-> k \div 2] \in T
        BY ONLY Zenon, <1>0, <4>1, TaskMade
      <4> QED
        BY <4>2, <3>2
    <3> QED
      BY <3>1, <3>2
  <2>2. agenda' = [k \in 1 .. 2 * Len(disk) |-> J(k)] /\ disk' = disk
    BY <1>2 DEF init_disk, JobsOnly
  <2> DEFINE n == 2 * Len(disk)
  <2>3. n \in Nat /\ agenda' = [k \in 1 .. n |-> J(k)] /\ \A k \in 1 .. n : J(k) \in T
    BY <2>1, <2>2, <1>0
  <2> HIDE DEF J, T, n
  <2>4. agenda' \in Seq(T)
    <3>1. agenda' \in [1 .. n -> T]
      BY <2>3
    <3> QED
      BY <3>1, <2>3
  <2>5. agenda' \in Seq(Tasks(disk'))
    BY <2>2, <2>4 DEF T
  <2> QED
    BY <1>0, <1>2, <2>5 DEF init_disk, JobsOnly, Went
<1>3. CASE Done
  BY <1>0, <1>3 DEF Done, JobsOnly, Went
<1>4. CASE ReadBlock
  BY <1>0, <1>4 DEF ReadBlock, JobsOnly, Went, Working, Job
<1>5. CASE disk_read
  <2>1. pc = "work" /\ agenda # << >> /\ Job.op = "disk_read"
    BY <1>5 DEF disk_read, Working
  <2>2. /\ Job.did \in 1 .. Len(disk)
        /\ Job.blk \in Nat /\ Job.n \in Nat /\ Job.blk + Job.n <= NBLK
    <3>1. Job \in Tasks(disk)
      BY <1>1, <2>1
    <3> QED
      BY ONLY <3>1, <1>0, <2>1, TaskFields
  <2>3. CASE Job.n = 0
    <3>1. Do(<< >>) /\ UNCHANGED disk /\ UNCHANGED pc
      BY <1>5, <2>3, <2>2 DEF disk_read, JobsOnly
    <3> QED
      BY Zenon, <1>0, <1>e, <1>5, <2>1, <3>1, DoWent DEF disk_read, JobsOnly
  <2>4. CASE Job.n > 0 /\ cache[Job.did][Job.blk] # NoPage
    <3>1. DiskRead(Job.did, Job.blk, Job.n - 1) \in Tasks(disk)
      <4>1. Job.n - 1 \in Nat /\ Job.blk + (Job.n - 1) <= NBLK
        BY <2>2, <2>4, OneLess
      <4> QED
        BY ONLY Zenon, <4>1, <2>2, <1>0, TaskMade
    <3>2. <<DiskRead(Job.did, Job.blk, Job.n - 1)>> \in Seq(Tasks(disk))
      BY <3>1
    <3>3. Do(<<DiskRead(Job.did, Job.blk, Job.n - 1)>>) /\ UNCHANGED disk /\ UNCHANGED pc
      BY SMTT(30), <1>5, <2>4, <2>2 DEF disk_read, JobsOnly
    <3> QED
      BY Zenon, <1>0, <1>5, <2>1, <3>2, <3>3, DoWent DEF disk_read, JobsOnly
  <2>5. CASE Job.n > 0 /\ cache[Job.did][Job.blk] = NoPage
    <3> DEFINE A == Read(Job.did, Job.blk)
               B == DiskRead(Job.did, Job.blk + 1, Job.n - 1)
    <3>1. A \in Tasks(disk) /\ B \in Tasks(disk)
      <4>1. Job.n - 1 \in Nat /\ Job.blk + 1 \in Nat /\ (Job.blk + 1) + (Job.n - 1) <= NBLK
            /\ Job.blk \in Blocks
        BY Zenon, <2>2, <2>5, OneLess
      <4> QED
        BY ONLY Zenon, <4>1, <2>2, <1>0, TaskMade
    <3>3. Do(<<A, B>>) /\ UNCHANGED disk /\ UNCHANGED pc
      BY <1>5, <2>5, <2>2 DEF disk_read, JobsOnly
    <3> HIDE DEF A, B
    <3>2. <<A, B>> \in Seq(Tasks(disk))
      BY <3>1
    <3> QED
      BY Zenon, <1>0, <1>5, <2>1, <3>2, <3>3, DoWent DEF disk_read, JobsOnly
  <2> QED
    <3>1. Job.n = 0 \/ Job.n > 0
      <4> DEFINE n == Job.n
      <4>1. n \in Nat
        BY <2>2
      <4> HIDE DEF n
      <4>2. n = 0 \/ n > 0
        BY <4>1
      <4> QED
        BY <4>2 DEF n
    <3> QED
      BY <3>1, <2>3, <2>4, <2>5
<1>6. CASE init_mbr
  <2>1. pc = "work" /\ agenda # << >>
    BY <1>6 DEF init_mbr, Working
  <2> DEFINE T == Tasks(disk)
             J(k) == [op |-> "entry", did |-> Job.did, type |-> TableOf(Job.did).mbr[k]]
             js == [k \in 1 .. 4 |-> J(k)]
  <2>2. ASSUME NEW k \in 1 .. 4 PROVE J(k) \in T
    <3>1. TableOf(Job.did) \in Tables /\ Job.did \in 1 .. Len(disk)
      BY <1>0, <1>1, <2>1, TableOfDisk
    <3>2. TableOf(Job.did).mbr[k] \in MbrTypes
      BY <3>1 DEF Tables
    <3> QED
      BY ONLY Zenon, <3>1, <3>2, <1>0, TaskMade
  <2>3. Do(js)
    BY <1>6 DEF init_mbr
  <2> HIDE DEF J
  <2>4. js \in [1 .. 4 -> T]
    BY <2>2
  <2> HIDE DEF js, T
  <2>5. js \in Seq(T)
    BY ONLY Zenon, <2>4, FunctionSequence, 4 \in Nat
  <2>6. js \in Seq(Tasks(disk))
    BY <2>5 DEF T
  <2> QED
    BY Zenon, <1>0, <1>6, <2>1, <2>3, <2>6, DoWent DEF init_mbr, JobsOnly
<1>7. CASE MbrEntry
  <2>1. pc = "work" /\ agenda # << >> /\ Job.op = "entry"
    BY <1>7 DEF MbrEntry, Working
  <2>2. Job.did \in 1 .. Len(disk)
    BY <1>1, <2>1
  <2>3. UNCHANGED <<hw, port, stack, pcie_dev_list, ctl, portno, cmd_list, cmd_tbl, cache, page, kpages>>
    BY <1>7 DEF MbrEntry
  <2>4. CASE Do(<< >>) /\ UNCHANGED <<pc, disk>>
    BY Zenon, <1>0, <1>e, <2>1, <2>3, <2>4, DoWent
  <2>5. CASE Do(<< >>) /\ Register(Job.did, 0)
    <3>1. 0 \in Blocks
      BY DEF Blocks
    <3> QED
      BY Zenon, <1>0, <1>e, <2>1, <2>2, <2>3, <2>5, <3>1, RegisterDoWent
  <2>6. CASE Do([b \in 1 .. GPTBLKS |-> Read(Job.did, b)] \o <<[op |-> "gpt", did |-> Job.did]>>)
             /\ UNCHANGED <<pc, disk>>
    <3> DEFINE T == Tasks(disk)
               R(b) == Read(Job.did, b)
               G == [op |-> "gpt", did |-> Job.did]
               rs == [b \in 1 .. GPTBLKS |-> R(b)]
    <3>1. G \in T /\ \A b \in Blocks : R(b) \in T
      BY ONLY Zenon, <1>0, <2>2, TaskMade
    <3>2. ASSUME NEW b \in 1 .. GPTBLKS PROVE R(b) \in T
      <4>1. b \in Blocks
        BY DEF Blocks
      <4> QED
        BY <3>1, <4>1
    <3> HIDE DEF G, R, T
    <3>3. rs \in [1 .. GPTBLKS -> T]
      BY <3>2
    <3> HIDE DEF rs
    <3>4. rs \in Seq(T) /\ <<G>> \in Seq(T)
      BY <3>1, <3>3
    <3>5. rs \o <<G>> \in Seq(T)
      BY ONLY <3>4, ConcatProperties
    <3>6. Do(rs \o <<G>>)
      BY <2>6 DEF rs, G, R
    <3>7. rs \o <<G>> \in Seq(Tasks(disk))
      BY <3>5 DEF T
    <3> QED
      BY Zenon, <1>0, <2>1, <2>3, <2>6, <3>6, <3>7, DoWent
  <2> QED
    BY <1>7, <2>4, <2>5, <2>6 DEF MbrEntry
<1>8. CASE init_gpt
  <2>1. pc = "work" /\ agenda # << >>
    BY <1>8 DEF init_gpt, Working
  <2>2. CASE TableOf(Job.did).sign
    <3> DEFINE T == Tasks(disk)
               gpt == TableOf(Job.did).gpt
               J(k) == [op |-> "guid", did |-> Job.did, entry |-> gpt[k]]
               js == [k \in 1 .. Len(gpt) |-> J(k)]
    <3>1. gpt \in Seq(Entries) /\ Len(gpt) \in Nat /\ Job.did \in 1 .. Len(disk)
      BY <1>0, <1>1, <2>1, TableOfDisk DEF Tables
    <3>2. ASSUME NEW k \in 1 .. Len(gpt) PROVE J(k) \in T
      <4>1. gpt[k] \in Entries
        BY <3>1
      <4> QED
        BY ONLY Zenon, <4>1, <3>1, <1>0, TaskMade
    <3>3. Do(js)
      BY Zenon, <1>8, <2>2 DEF init_gpt
    <3> HIDE DEF J
    <3>4. js \in [1 .. Len(gpt) -> T]
      BY <3>2
    <3> HIDE DEF js, T, gpt
    <3>5. js \in Seq(T)
      BY <3>4, <3>1
    <3>6. js \in Seq(Tasks(disk))
      BY <3>5 DEF T
    <3> QED
      BY <1>0, <1>8, <2>1, <3>3, <3>6, DoWent DEF init_gpt, JobsOnly
  <2>3. CASE ~TableOf(Job.did).sign
    <3>1. Do(<< >>)
      BY Zenon, <1>8, <2>3 DEF init_gpt
    <3> QED
      BY Zenon, <1>0, <1>e, <1>8, <2>1, <3>1, DoWent DEF init_gpt, JobsOnly
  <2> QED
    BY <2>2, <2>3
<1>9. CASE detect_guid
  <2>1. pc = "work" /\ agenda # << >> /\ Job.op = "guid"
    BY <1>9 DEF detect_guid, Working
  <2>2. Job.did \in 1 .. Len(disk) /\ Job.entry \in Entries
    <3>1. Job \in Tasks(disk)
      BY <1>1, <2>1
    <3> QED
      BY ONLY <3>1, <1>0, <2>1, TaskFields
  <2>b. Job.entry.blk \in Blocks
    BY <2>2 DEF Entries
  <2>3. UNCHANGED <<hw, port, stack, pcie_dev_list, ctl, portno, cmd_list, cmd_tbl, cache, page, kpages>>
    BY Zenon, <1>9 DEF detect_guid
  <2>4. CASE Do(<< >>) /\ UNCHANGED <<pc, disk>>
    BY Zenon, <1>0, <1>e, <2>1, <2>3, <2>4, DoWent
  <2>5. CASE Do(<< >>) /\ Register(Job.did, Job.entry.blk)
    BY Zenon, <1>0, <1>e, <2>1, <2>2, <2>b, <2>3, <2>5, RegisterDoWent
  <2>6. CASE /\ Do(<<DiskRead(Job.did, Job.entry.blk, 1),
                     [op |-> "fs", did |-> Job.did, pid |-> Len(disk[Job.did].part) + 1]>>)
             /\ Register(Job.did, Job.entry.blk)
    <3> DEFINE A == DiskRead(Job.did, Job.entry.blk, 1)
               B == [op |-> "fs", did |-> Job.did, pid |-> Len(disk[Job.did].part) + 1]
    <3>1. /\ disk' \in Seq(Disks) /\ Len(disk') = Len(disk)
          /\ Len(disk[Job.did].part) + 1 \in 1 .. Len(disk'[Job.did].part)
      BY Zenon, <1>0, <2>2, <2>b, <2>6, RegisterWent DEF Register
    <3>2. Job.entry.blk \in Nat /\ 1 \in Nat /\ Job.entry.blk + 1 <= NBLK
      BY <2>b DEF Blocks
    <3>3. A \in Tasks(disk') /\ B \in Tasks(disk')
      BY ONLY Zenon, <3>1, <3>2, <2>2, TaskMade
    <3>4. Do(<<A, B>>)
      BY <2>6
    <3> HIDE DEF A, B
    <3>5. <<A, B>> \in Seq(Tasks(disk'))
      BY <3>3
    <3> QED
      BY Zenon, <1>0, <2>1, <2>2, <2>b, <2>3, <2>6, <3>4, <3>5, RegisterDoWent
  <2> QED
    BY <1>9, <2>4, <2>5, <2>6 DEF detect_guid
<1>10. CASE detect_fs
  <2>1. /\ pc = "work" /\ agenda # << >> /\ Do(<< >>) /\ UNCHANGED <<pc, disk>>
        /\ UNCHANGED <<hw, port, stack, pcie_dev_list, ctl, portno, cmd_list, cmd_tbl, cache, page, kpages>>
    BY Zenon, <1>10 DEF detect_fs, Working
  <2> QED
    BY Zenon, <1>0, <1>e, <2>1, DoWent
<1>11. ASSUME NEW r \in Requests, FsRead(r[1], r[2], r[3]) PROVE Went
  <2>1. r[1] \in 1 .. Len(disk) /\ r[2] \in Nat /\ r[3] \in Nat /\ r[2] + r[3] <= NBLK
    BY <1>11, StartupAssumption DEF FsRead
  <2>2. DiskRead(r[1], r[2], r[3]) \in Tasks(disk)
    BY ONLY Zenon, <2>1, <1>0, TaskMade
  <2>3. agenda' = <<DiskRead(r[1], r[2], r[3])>> /\ disk' = disk
    BY <1>11 DEF FsRead, JobsOnly
  <2>4. agenda' \in Seq(Tasks(disk'))
    BY <2>2, <2>3
  <2> QED
    BY <1>0, <1>11, <2>4 DEF FsRead, JobsOnly, Went
<1> QED
  BY <1>2, <1>3, <1>4, <1>5, <1>6, <1>7, <1>8, <1>9, <1>10, <1>11

-----------------------------------------------------------------------------
(* Pages stay apart if no page is put to a use.                            *)
LEMMA PagesKept ==
  ASSUME DriverPages, \A c \in Ctls, n \in Ports : port'[c][n].clb = port[c][n].clb,
         UNCHANGED <<cache, cmd_tbl>>, kpages \subseteq kpages'
  PROVE  DriverPages'
<1>1. ASSUME NEW x \in Lists' PROVE x \in Lists /\ ListAt(x)' = ListAt(x)
  BY DEF Lists, ListAt
<1>2. ASSUME NEW x \in Cached' PROVE x \in Cached /\ BlockAt(x)' = BlockAt(x)
  BY DEF Cached, BlockAt
<1> QED
  BY SMTT(30), <1>1, <1>2 DEF DriverPages

(* The block that is read, and the port that is asked for it.              *)
LEMMA BlockJob ==
  ASSUME DriverInv, Reading
  PROVE  /\ agenda # << >> /\ Job.did \in 1 .. Len(disk) /\ Job.did \in 1 .. NDISK
         /\ Job.blk \in Blocks /\ DiskPort \in Ports /\ ctl \in Ctls
         /\ cmd_list[DiskPort] # NoPage
<1>0. DriverTypes /\ DriverPlace /\ DriverPorts
  BY DEF DriverInv
<1>1. agenda # << >> /\ Job.op = "block" /\ agenda \in Seq(Tasks(disk)) /\ disk \in Seq(Disks)
      /\ Len(disk) \in Nat /\ Len(disk) <= NDISK
  BY <1>0 DEF DriverTypes, DriverPlace
<1>2. Job \in Tasks(disk)
  BY <1>1 DEF Job
<1>3. Job.did \in 1 .. Len(disk) /\ Job.blk \in Blocks
  BY ONLY <1>1, <1>2, TaskFields
<1>4. Job.did \in 1 .. NDISK
  <2> DEFINE d == Job.did
  <2>1. d \in 1 .. Len(disk)
    BY <1>3
  <2> HIDE DEF d
  <2>2. d \in 1 .. NDISK
    BY <2>1, <1>1, Sizes
  <2> QED
    BY <2>2 DEF d
<1>5. disk[Job.did] \in Disks /\ disk # << >>
  BY <1>1, <1>3
<1>6. DiskPort \in Ports /\ ctl \in Ctls
  BY <1>0, <1>5 DEF DiskPort, Disks, DriverPlace
<1>7. cmd_list[DiskPort] # NoPage
  BY <1>0, <1>3 DEF DriverPorts, DiskPort, Stuck, Reading
<1> QED
  BY <1>1, <1>3, <1>4, <1>6, <1>7

(* Steps that only work on the agenda keep the invariant.                  *)
LEMMA WentInv ==
  ASSUME DriverInv, Went
  PROVE  DriverInv'
<1> USE Sizes
<1>0. DriverTypes /\ DriverPlace /\ DriverPorts /\ DriverPages /\ DriverContents /\ DriverDisks
  BY DEF DriverInv
<1>a. /\ UNCHANGED <<hw, port, stack, pcie_dev_list, ctl, portno, cmd_list, cmd_tbl, cache, page, kpages>>
      /\ disk' \in Seq(Disks) /\ Len(disk') = Len(disk) /\ Len(disk) \in Nat
      /\ \A d \in 1 .. Len(disk) :
           disk'[d].disk_ind = disk[d].disk_ind /\ disk'[d].from = disk[d].from
      /\ agenda' \in Seq(Tasks(disk'))
      /\ pc \in {"init_disk", "work", "up"} \/ (pc = "poll" /\ ~port[ctl][DiskPort].ci)
      /\ pc' \in {"work", "up", "table", "issue", "overrun"}
      /\ pc' \in {"table", "issue"} => agenda' # << >> /\ Job'.op = "block"
      /\ disk' # << >> => disk # << >>
  BY <1>0, EmptySeq DEF Went, DriverTypes
<1>1. DriverTypes'
  BY <1>0, <1>a DEF DriverTypes, PCs
<1>2. DriverPlace'
  BY <1>0, <1>a DEF DriverPlace, InPorts, Scanning, Reading
<1>3. DriverPorts'
  <2>1. \A n \in Ports : IsSetUp(n)' <=> IsSetUp(n)
    BY SMTT(30), <1>a DEF IsSetUp
  <2>2. \A c \in Ctls, n \in Ports : ~port[c][n].ci
    BY SMTT(30), <1>0, <1>a DEF DriverPorts, Asked
  <2>3. \A d \in 1 .. Len(disk) : cmd_list[disk[d].disk_ind] # NoPage
    BY SMTT(30), <1>0, <1>a DEF DriverPorts, Stuck
  <2>4. ctl \in Ctls => \A n \in Ports : hw.unit[ctl][n] = "disk" => IsSetUp(n)
    BY Zenon, <1>0, <1>a DEF DriverPorts, Stuck, InPorts
  <2>5. (\A d \in 1 .. Len(disk) : cmd_list[disk[d].disk_ind] # NoPage)'
    BY Zenon, <1>a, <2>3
  <2> QED
    BY Zenon, <1>0, <1>a, <2>1, <2>2, <2>4, <2>5 DEF DriverPorts
<1>4. DriverPages'
  BY <1>0, <1>a, PagesKept
<1>5. DriverContents'
  <2>1. Cached' = Cached /\ \A y \in Cached : BlockAt(y)' = BlockAt(y)
    BY SMTT(30), <1>a DEF Cached, BlockAt
  <2> QED
    BY SMTT(30), <1>0, <1>a, <2>1 DEF DriverContents, Asked
<1>6. DriverDisks'
  <2> SUFFICES ASSUME OneController' PROVE DriverDisks'
    BY Zenon DEF DriverDisks
  <2>1. OneController
    BY Zenon, <1>a DEF OneController, FnAt
  <2>2. ~Asked'
    BY <1>a DEF Asked
  <2>3. ReadsItsDisk'
    <3>1. CASE pc # "poll"
      BY SMTT(30), <1>0, <1>a, <2>1, <3>1 DEF DriverDisks, ReadsItsDisk
    <3>2. CASE pc = "poll"
      <4>1. /\ page[Asking] = Block(ctl, DiskPort, Job.blk) /\ Job.did \in 1 .. Len(disk)
            /\ disk[Job.did].from = <<ctl, DiskPort>>
        BY Zenon, <1>0, <1>a, <2>1, <3>2, BlockJob DEF DriverDisks, Asked, Reading, DiskPort
      <4>2. \A d \in 1 .. Len(disk), b \in Blocks : cache[d][b] # NoPage =>
              page[cache[d][b]] = Block(disk[d].from[1], disk[d].from[2], b)
        <5> SUFFICES ASSUME NEW d \in 1 .. Len(disk), NEW b \in Blocks, cache[d][b] # NoPage
                     PROVE  page[cache[d][b]] = Block(disk[d].from[1], disk[d].from[2], b)
          BY SMTT(30)
        <5>1. CASE Job.did = d /\ Job.blk = b
          <6>1. disk[d].from[1] = ctl /\ disk[d].from[2] = DiskPort
            BY SMTT(30), <4>1, <5>1
          <6> QED
            BY Zenon, <4>1, <5>1, <6>1 DEF Asking
        <5>2. CASE ~(Job.did = d /\ Job.blk = b)
          BY Zenon, <1>0, <2>1, <5>2 DEF DriverDisks, ReadsItsDisk
        <5> QED
          BY Zenon, <5>1, <5>2
      <4> QED
        BY Zenon, <1>a, <4>2 DEF ReadsItsDisk
    <3> QED
      BY <3>1, <3>2
  <2>4. (ctl \in Ctls => \E x \in DevFns : FnAt(x).type = "ahci" /\ FnAt(x).ctl = ctl)'
    BY Zenon, <1>0, <1>a, <2>1 DEF DriverDisks, FnAt
  <2>5. (\A d \in 1 .. Len(disk) :
           disk[d].from = <<ctl, disk[d].disk_ind>> /\ hw.unit[ctl][disk[d].disk_ind] = "disk")'
    BY Zenon, <1>0, <1>a, <2>1 DEF DriverDisks
  <2> QED
    BY Zenon, <2>2, <2>3, <2>4, <2>5 DEF DriverDisks
<1> QED
  BY <1>1, <1>2, <1>3, <1>4, <1>5, <1>6 DEF DriverInv

(* The kernel notices that the block is there, or that there was an error. *)
LEMMA PollInv ==
  ASSUME DriverInv, Poll, UNCHANGED kpages
  PROVE  DriverInv'
<1> USE Sizes
<1>0. DriverTypes /\ DriverPlace /\ DriverPorts /\ DriverPages /\ DriverContents /\ DriverDisks
  BY DEF DriverInv
<1>a. pc = "poll" /\ UNCHANGED <<hw, port, stack, pcie_dev_list, ctl, portno, cmd_list, disk,
                                 cmd_tbl, cache, page, kpages>>
  BY DEF Poll
<1>1. CASE ~port[ctl][DiskPort].ci /\ pc' = "work" /\ agenda' = Tail(agenda)
  <2>1. agenda # << >> /\ agenda \in Seq(Tasks(disk)) /\ disk \in Seq(Disks)
    BY Zenon, <1>0, <1>a DEF DriverTypes, DriverPlace, Reading
  <2>2. agenda' \in Seq(Tasks(disk'))
    BY <1>1, <1>a, <2>1
  <2>3. Went
    BY <1>1, <1>a, <2>1, <2>2 DEF Went
  <2> QED
    BY <2>3, WentInv
<1>2. CASE pc' = "panic" /\ UNCHANGED agenda
  <2>1. DriverTypes'
    BY <1>0, <1>a, <1>2 DEF DriverTypes, PCs
  <2>2. DriverPlace'
    BY <1>0, <1>a, <1>2 DEF DriverPlace, InPorts, Scanning, Reading, Job
  <2>3. DriverPorts'
    BY Zenon, <1>0, <1>a, <1>2 DEF DriverPorts, IsSetUp, Asked, Stuck, InPorts, DiskPort, Job
  <2>4. DriverPages'
    BY <1>0, <1>a, PagesKept
  <2>5. DriverContents'
    BY Zenon, <1>0, <1>a, <1>2 DEF DriverContents, Cached, BlockAt, Asked, Asking, DiskPort, Job, Command
  <2>6. DriverDisks'
    <3>1. Job' = Job /\ DiskPort' = DiskPort /\ Asking' = Asking /\ Asked' /\ Asked
          /\ (OneController' <=> OneController)
      BY Zenon, <1>a, <1>2 DEF Job, DiskPort, Asking, Asked, OneController, FnAt
    <3>2. OneController /\ ReadsItsDisk => ReadsItsDisk'
      BY Zenon, <1>a, <1>2, <3>1 DEF ReadsItsDisk
    <3> QED
      BY Zenon, <1>0, <1>a, <1>2, <3>1, <3>2 DEF DriverDisks, FnAt
  <2> QED
    BY <2>1, <2>2, <2>3, <2>4, <2>5, <2>6 DEF DriverInv
<1> QED
  BY <1>1, <1>2 DEF Poll

-----------------------------------------------------------------------------
(* What the steps of scan_bus have in common.                              *)
Scanned ==
  /\ UNCHANGED <<hw, port, cmd_list, disk, agenda, cmd_tbl, cache, page, kpages>>
  /\ pc = "scan"
  /\ stack' \in Seq(Buses \X (0 .. NDEVFN)) /\ pcie_dev_list' \in Seq(DevFns)
  /\ pc' \in {"scan", "port"} => stack' # << >>
  /\ \/ pc' \in {"scan", "init_disk", "overflow"} /\ UNCHANGED <<ctl, portno>>
     \/ /\ pc' = "port" /\ portno' = 0 /\ ctl' \in Ctls
        /\ \E x \in DevFns : FnAt(x).type = "ahci" /\ FnAt(x).ctl = ctl'

(* A step of scan_bus looks at a function of the bus it is on.             *)
LEMMA BusScanned ==
  ASSUME DriverInv, UNCHANGED kpages, ScanDone \/ scan_devfn
  PROVE  Scanned
<1> USE Sizes
<1> DEFINE P == Buses \X (0 .. NDEVFN)
<1>1. /\ pc = "scan" /\ stack \in Seq(P) /\ stack # << >> /\ pcie_dev_list \in Seq(DevFns)
      /\ hw \in Machines /\ portno \in 0 .. NPORTS
  BY Zenon DEF DriverInv, DriverTypes, DriverPlace, ScanDone, scan_devfn
<1>2. Here \in P /\ Tail(stack) \in Seq(P) /\ Len(stack) \in Nat /\ Len(Tail(stack)) = Len(stack) - 1
  BY <1>1 DEF Here
<1>3. CASE ScanDone
  <2>1. Len(stack) # 1 => Tail(stack) # << >>
    <3>1. Len(stack) # 1 => Len(Tail(stack)) # 0
      BY <1>2
    <3> QED
      BY Zenon, <3>1, <1>2, EmptySeq
  <2> QED
    BY <1>1, <1>2, <1>3, <2>1 DEF ScanDone, Scanned
<1>4. CASE scan_devfn
  <2> DEFINE a == <<Here[1], Here[2] + 1>>
  <2>1. Here[1] \in Buses /\ Here[2] \in 0 .. NDEVFN /\ Here[2] < NDEVFN
    BY <1>2, <1>4 DEF scan_devfn
  <2>2. a \in P /\ Here \in DevFns
    <3>1. Here[2] + 1 \in 0 .. NDEVFN /\ Here[2] \in 0 .. NDEVFN - 1
      BY <2>1
    <3> QED
      BY <3>1, <2>1, <1>2 DEF DevFns
  <2>3. Advanced = <<a>> \o Tail(stack)
    BY DEF Advanced
  <2> HIDE DEF a, P
  <2>4. Advanced \in Seq(P) /\ Advanced # << >>
    <3>1. <<a>> \in Seq(P) /\ Len(<<a>>) = 1
      BY <2>2
    <3>2. Advanced \in Seq(P) /\ Len(Advanced) = 1 + Len(Tail(stack))
      BY <3>1, <2>3, <1>2, ConcatProperties
    <3>3. Len(Advanced) # 0
      BY <3>2, <1>2
    <3> QED
      BY Zenon, <3>2, <3>3, EmptySeq
  <2>5. Fn = FnAt(Here) /\ (Fn.type = "bridge" => Fn.sec \in Buses)
        /\ (Fn.type = "ahci" => Fn.ctl \in Ctls)
    <3>1. IsMachine(hw)
      BY <1>1, StorageAssumption
    <3>2. Fn = hw.fn[Here[1]][Here[2]]
      BY Zenon DEF Fn
    <3> QED
      BY Zenon, <3>1, <3>2, <2>2 DEF IsMachine, FnAt
  <2>6. Append(pcie_dev_list, Found) \in Seq(DevFns)
    BY <1>1, <2>2 DEF Found
  <2>7. CASE Fn.type \in {"none", "other", "nvme"}
    BY Zenon, <1>1, <1>4, <2>4, <2>6, <2>7 DEF scan_devfn, Scanned, P
  <2>8. CASE Fn.type = "ahci"
    BY Zenon, <1>1, <1>4, <2>2, <2>4, <2>5, <2>6, <2>8 DEF scan_devfn, Scanned, P
  <2>9. CASE Fn.type = "bridge"
    <3> DEFINE z == <<Fn.sec, 0>>
    <3>1. stack' = <<z>> \o Advanced /\ UNCHANGED <<ctl, portno, pcie_dev_list>>
          /\ pc' \in {"scan", "overflow"}
      BY Zenon, <1>4, <2>9 DEF scan_devfn
    <3>2. z \in P
      BY <2>5, <2>9 DEF P
    <3> HIDE DEF z
    <3>3. <<z>> \in Seq(P) /\ Len(<<z>>) = 1
      BY <3>2
    <3>4. stack' \in Seq(P) /\ Len(stack') = 1 + Len(Advanced) /\ Len(Advanced) \in Nat
      BY <3>1, <3>3, <2>4, ConcatProperties
    <3>5. Len(stack') # 0
      BY <3>4
    <3>6. stack' # << >>
      BY <3>4, <3>5, EmptySeq
    <3> QED
      BY Zenon, <1>1, <1>4, <3>1, <3>4, <3>6 DEF scan_devfn, Scanned, P
  <2> QED
    BY <1>4, <2>7, <2>8, <2>9 DEF scan_devfn
<1> QED
  BY <1>3, <1>4

(* The scan finds a controller; if it is the only one, it is the one that  *)
(* the disks are at.                                                       *)
LEMMA ScannedInv ==
  ASSUME DriverInv, Scanned
  PROVE  DriverInv'
<1> USE Sizes
<1>0. DriverTypes /\ DriverPlace /\ DriverPorts /\ DriverPages /\ DriverContents /\ DriverDisks
  BY DEF DriverInv
<1>a. /\ UNCHANGED <<hw, port, cmd_list, disk, agenda, cmd_tbl, cache, page, kpages>>
      /\ pc = "scan" /\ Scanning /\ pc' \in {"scan", "init_disk", "overflow", "port"}
      /\ \/ pc' \in {"scan", "init_disk", "overflow"} /\ UNCHANGED <<ctl, portno>>
         \/ /\ pc' = "port" /\ portno' = 0 /\ ctl' \in Ctls
            /\ \E x \in DevFns : FnAt(x).type = "ahci" /\ FnAt(x).ctl = ctl'
  BY DEF Scanned, Scanning
<1>1. DriverTypes'
  BY SMTT(30), <1>0, <1>a DEF DriverTypes, PCs, Scanned
<1>2. DriverPlace'
  <2>1. Cached' = Cached
    BY Zenon, <1>a DEF Cached, BlockAt
  <2> QED
    BY Zenon, <1>0, <1>a, <2>1 DEF DriverPlace, InPorts, Scanning, Reading, Scanned
<1>3. DriverPorts'
  <2>1. \A c \in Ctls, n \in Ports : ~port[c][n].ci
    BY Zenon, <1>0, <1>a DEF DriverPorts, Asked
  <2>2. \A d \in 1 .. Len(disk) : cmd_list[disk[d].disk_ind] # NoPage
    BY Zenon, <1>0, <1>a DEF DriverPorts, Stuck
  <2>3. (ctl \in Ctls => \A n \in Ports :
           hw.unit[ctl][n] = "disk" => IsSetUp(n) \/ (InPorts /\ n >= portno) \/ Stuck)'
    <3>1. CASE UNCHANGED <<ctl, portno>>
      <4>1. ctl \in Ctls => \A n \in Ports : hw.unit[ctl][n] = "disk" => IsSetUp(n)
        BY Zenon, <1>0, <1>a DEF DriverPorts, Stuck, InPorts
      <4> QED
        BY Zenon, <1>a, <3>1, <4>1 DEF IsSetUp
    <3>2. CASE pc' = "port" /\ portno' = 0
      BY SMTT(30), <3>2 DEF InPorts, Ports
    <3> QED
      BY Zenon, <1>a, <3>1, <3>2
  <2> QED
    BY ZenonT(30), <1>0, <1>a, <2>1, <2>2, <2>3 DEF DriverPorts
<1>4. DriverPages'
  BY Zenon, <1>0, <1>a, PagesKept
<1>5. DriverContents'
  <2>1. Cached' = Cached /\ \A y \in Cached : BlockAt(y)' = BlockAt(y)
    BY Zenon, <1>a DEF Cached, BlockAt
  <2> QED
    BY Zenon, <1>0, <1>a, <2>1 DEF DriverContents, Asked
<1>6. DriverDisks'
  <2> SUFFICES ASSUME OneController' PROVE DriverDisks'
    BY Zenon DEF DriverDisks
  <2>1. OneController /\ ~Asked'
    BY Zenon, <1>a DEF OneController, FnAt, Asked
  <2>2. ReadsItsDisk'
    BY Zenon, <1>0, <1>a, <2>1 DEF DriverDisks, ReadsItsDisk
  <2>3. (ctl \in Ctls => \E x \in DevFns : FnAt(x).type = "ahci" /\ FnAt(x).ctl = ctl)'
    BY Zenon, <1>0, <1>a, <2>1 DEF DriverDisks, FnAt
  <2>4. disk # << >> => ctl' = ctl
    BY Zenon, <1>0, <1>a, <2>1 DEF DriverDisks, OneController, DriverPlace
  <2>5. ASSUME NEW d \in 1 .. Len(disk)
        PROVE  disk[d].from = <<ctl', disk[d].disk_ind>> /\ hw.unit[ctl'][disk[d].disk_ind] = "disk"
    <3>1. disk # << >>
      BY <1>0 DEF DriverTypes
    <3> QED
      BY Zenon, <1>0, <2>1, <2>4, <3>1 DEF DriverDisks
  <2> QED
    BY Zenon, <1>a, <2>1, <2>2, <2>3, <2>5 DEF DriverDisks
<1> QED
  BY <1>1, <1>2, <1>3, <1>4, <1>5, <1>6 DEF DriverInv

=============================================================================
