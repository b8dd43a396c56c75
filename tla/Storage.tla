------------------------------ MODULE Storage -------------------------------
(***************************************************************************)
(* Disks, from the PCI bus to a cached block: the scan of the buses        *)
(* (kernel/pcie/pcie.c), the AHCI driver (kernel/pcie/sata.c) against the  *)
(* ports it drives, the partition tables (kernel/fs/disk.c) and the search *)
(* for the root file system (kernel/fs/fs.c).                              *)
(*                                                                         *)
(* The kernel runs with interrupts off and polls, so the other actors are  *)
(* the ports: they stop, finish a command or fail at a time of their own.  *)
(* `pc` is where the kernel is; `agenda` is what it has yet to do for      *)
(* init_disk or disk_read, first things first.                             *)
(*                                                                         *)
(* Steps that call alloc_page take the page as a parameter; Startup joins  *)
(* them with FreePages.  Page 0 stands for none.                           *)
(***************************************************************************)
EXTENDS Naturals, Sequences, FiniteSets

CONSTANTS
  NBUS, NDEVFN,         \* PCI buses and functions on one (256 each)
  Ctls, NPORTS,         \* AHCI controllers; ports of one (32)
  NBLK,                 \* blocks of a disk
  NDISK, NPART,         \* entries of disk (32) and of disk_t.part (128)
  GPTBLKS,              \* blocks behind the first that init_gpt reads (5)
  NPAGES,               \* pages of memory
  Depth,                \* bound: nested scan_bus calls that the stack holds
  Machines              \* the machines looked at

VARIABLES
  hw,           \* the machine; it does not change
  port,         \* registers of each port of each controller
  pc, stack,    \* where the kernel is; the nested calls of scan_bus
  pcie_dev_list,
  ctl,          \* sata_regs and ports: the controller they point at
  portno,       \* the port pcie_sata_ahci_init is at
  cmd_list,     \* the page of each port's command list
  disk, rtfs,   \* disk_t of each disk, and the root file system
  agenda,
  cmd_tbl,      \* the page of the one command table
  cache,        \* the page that each block of each disk is mapped to
  page          \* contents of the driver's pages

dev == <<hw, port, pc, stack, pcie_dev_list, ctl, portno, cmd_list, disk, rtfs, agenda,
         cmd_tbl, cache, page>>

Buses == 0 .. NBUS - 1
Ports == 0 .. NPORTS - 1
Blocks == 0 .. NBLK - 1
Pages == 0 .. NPAGES - 1
NoPage == 0
NoCtl == "none"

(***************************************************************************)
(* What is on a disk is named, not spelt out: block b of the disk at port  *)
(* n of controller c is the record <<c, n, b>>.  A machine h has           *)
(*   h.fn[bus][devfn]   what answers there: [type |-> "none"], "nvme",     *)
(*                      "other", "bridge" with sec, or "ahci" with ctl     *)
(*   h.unit[c][n]       "disk" if check_port accepts what is attached      *)
(*   h.left[c][n]       how the firmware left the port                     *)
(*   h.table[c][n]      the tables in block 0: mbr, the types of the four  *)
(*                      entries; sign, the GPT signature; gpt, its entries *)
(*                      [guid, blk, exfat]                                 *)
(***************************************************************************)
Zero == <<>>
Block(c, n, b) == <<c, n, b>>

EmptyTable == [mbr |-> <<"empty", "empty", "empty", "empty">>, sign |-> FALSE, gpt |-> << >>]
TableIn(x) == IF x = Zero THEN EmptyTable ELSE hw.table[x[1]][x[2]]
IsExfat(x) ==
  x # Zero /\ \E k \in 1 .. Len(TableIn(x).gpt) :
                TableIn(x).gpt[k].blk = x[3] /\ TableIn(x).gpt[k].exfat

Registers == [st : BOOLEAN, cr : BOOLEAN, fre : BOOLEAN, fr : BOOLEAN,
              ci : BOOLEAN, tfes : BOOLEAN, clb : Pages]

DevFns == Buses \X (0 .. NDEVFN - 1)

Entries == [guid : {"empty", "known", "unknown", "fs"}, blk : Blocks, exfat : BOOLEAN]
MbrTypes == {"empty", "known", "unknown", "gpt"}
Tables == [mbr : [1 .. 4 -> MbrTypes], sign : BOOLEAN, gpt : Seq(Entries)]

(* The firmware leaves no command behind and runs no port without a disk,  *)
(* and partitions begin at blocks that the disk has.                       *)
IsMachine(h) ==
  /\ \A bd \in DevFns :
       LET f == h.fn[bd[1]][bd[2]]
       IN  /\ f.type \in {"none", "other", "nvme", "bridge", "ahci"}
           /\ f.type = "bridge" => f.sec \in Buses
           /\ f.type = "ahci" => f.ctl \in Ctls
  /\ h.left \in [Ctls -> [Ports -> Registers]]
  /\ h.table \in [Ctls -> [Ports -> Tables]]
  /\ \A c \in Ctls, n \in Ports :
       /\ ~h.left[c][n].ci /\ h.left[c][n].clb = NoPage
       /\ h.left[c][n].st => h.unit[c][n] = "disk"

ASSUME StorageAssumption ==
  /\ {NDEVFN, NPORTS, NDISK, NPART, Depth} \subseteq Nat
  /\ {NBUS, NBLK, NPAGES} \subseteq Nat \ {0}
  /\ GPTBLKS \in 0 .. NBLK - 1
  /\ NoCtl \notin Ctls
  /\ \A h \in Machines : IsMachine(h)

-----------------------------------------------------------------------------
(* init_pcie: scan_bus(0).                                                 *)
StorageInit(h) ==
  /\ hw = h
  /\ port = h.left
  /\ pc = "scan"
  /\ stack = << <<0, 0>> >>
  /\ pcie_dev_list = << >>
  /\ ctl = NoCtl
  /\ portno = 0
  /\ cmd_list = [n \in Ports |-> NoPage]
  /\ disk = << >>
  /\ rtfs = << >>
  /\ agenda = << >>
  /\ cmd_tbl = NoPage
  /\ cache = [d \in 1 .. NDISK |-> [b \in Blocks |-> NoPage]]
  /\ page = [g \in Pages |-> Zero]

Here == stack[1]
Advanced == <<<<Here[1], Here[2] + 1>>>> \o Tail(stack)
Fn == hw.fn[Here[1]][Here[2]]

(* scan_bus returns.                                                       *)
ScanDone ==
  /\ pc = "scan"
  /\ Here[2] = NDEVFN
  /\ stack' = Tail(stack)
  /\ pc' = IF Len(stack) = 1 THEN "init_disk" ELSE "scan"
  /\ UNCHANGED <<hw, port, pcie_dev_list, ctl, portno, cmd_list, disk, rtfs, agenda,
                 cmd_tbl, cache, page>>

(* The device that goes to pcie_dev_list.                                  *)
MutantFoundNext == <<Here[1], Here[2] + 1>>
Found == Here

(* A bridge is followed at once, whatever bus it names.                    *)
scan_devfn ==
  /\ pc = "scan"
  /\ Here[2] < NDEVFN
  /\ \/ /\ Fn.type \in {"none", "other"}
        /\ stack' = Advanced
        /\ UNCHANGED <<pc, pcie_dev_list, ctl, portno>>
     \/ /\ Fn.type = "nvme"
        /\ stack' = Advanced
        /\ pcie_dev_list' = Append(pcie_dev_list, Found)
        /\ UNCHANGED <<pc, ctl, portno>>
     \/ /\ Fn.type = "ahci"
        /\ stack' = Advanced
        /\ pcie_dev_list' = Append(pcie_dev_list, Found)
        /\ ctl' = Fn.ctl
        /\ portno' = 0
        /\ pc' = "port"
     \/ /\ Fn.type = "bridge"
        /\ stack' = <<<<Fn.sec, 0>>>> \o Advanced
        /\ pc' = IF Len(stack) < Depth THEN "scan" ELSE "overflow"
        /\ UNCHANGED <<pcie_dev_list, ctl, portno>>
  /\ UNCHANGED <<hw, port, cmd_list, disk, rtfs, agenda, cmd_tbl, cache, page>>

-----------------------------------------------------------------------------
(***************************************************************************)
(* pcie_sata_ahci_init, port by port.  A port that the firmware left       *)
(* running is told to stop and waited for.                                 *)
(***************************************************************************)
Reg == port[ctl][portno]

MutantReceivesOn(r) == [r EXCEPT !.st = FALSE]

ToldToStop(r) == [r EXCEPT !.st = FALSE, !.fre = FALSE]

AhciPort ==
  /\ pc = "port"
  /\ \/ /\ portno = NPORTS
        /\ pc' = "scan"
        /\ UNCHANGED <<port, portno, disk>>
     \/ /\ portno < NPORTS
        /\ hw.unit[ctl][portno] # "disk"
        /\ portno' = portno + 1
        /\ UNCHANGED <<port, pc, disk>>
     \/ /\ portno < NPORTS
        /\ hw.unit[ctl][portno] = "disk" /\ Len(disk) < NDISK
        /\ disk' = Append(disk, [disk_ind |-> portno, from |-> <<ctl, portno>>, part |-> << >>])
        /\ IF Reg.st \/ Reg.cr \/ Reg.fre \/ Reg.fr
           THEN /\ pc' = IF Reg.fre THEN "wait_fr" ELSE "wait_cr"
                /\ port' = [port EXCEPT ![ctl][portno] = ToldToStop(@)]
           ELSE pc' = "setup" /\ UNCHANGED port
        /\ UNCHANGED portno
     \/ /\ portno < NPORTS
        /\ hw.unit[ctl][portno] = "disk" /\ Len(disk) = NDISK
        /\ pc' = "overrun"
        /\ UNCHANGED <<port, portno, disk>>
  /\ UNCHANGED <<hw, stack, pcie_dev_list, ctl, cmd_list, rtfs, agenda, cmd_tbl, cache, page>>

(***************************************************************************)
(* FR is waited for without a limit, if FRE was set, and then both for     *)
(* 5000 looks.  If these were too few, the port is reset and the kernel    *)
(* waits until SCTL.DET, which it has just set to 0 and which only         *)
(* software writes, reads 3.                                               *)
(***************************************************************************)
ReceiveStopped ==
  /\ pc = "wait_fr"
  /\ ~Reg.fr
  /\ pc' = "wait_cr"
  /\ UNCHANGED <<hw, port, stack, pcie_dev_list, ctl, portno, cmd_list, disk, rtfs, agenda,
                 cmd_tbl, cache, page>>

PortIdle ==
  /\ pc = "wait_cr"
  /\ pc' = IF Reg.cr \/ Reg.fr THEN "reset" ELSE "setup"
  /\ UNCHANGED <<hw, port, stack, pcie_dev_list, ctl, portno, cmd_list, disk, rtfs, agenda,
                 cmd_tbl, cache, page>>

(* The list and the receive area go to page g and the port is started.     *)
(* Writing 0 to `is` and `ci` changes neither.                             *)
MutantOneList(g) == IF cmd_list[0] = NoPage THEN g ELSE cmd_list[0]
ListFor(g) == g

PortSetup(g) ==
  /\ pc = "setup"
  /\ cmd_list' = [cmd_list EXCEPT ![portno] = ListFor(g)]
  /\ page' = [page EXCEPT ![g] = Zero]
  /\ port' = [port EXCEPT ![ctl][portno] =
                [@ EXCEPT !.clb = ListFor(g), !.st = TRUE, !.cr = TRUE, !.fre = TRUE, !.fr = TRUE]]
  /\ portno' = portno + 1
  /\ pc' = "port"
  /\ UNCHANGED <<hw, stack, pcie_dev_list, ctl, disk, rtfs, agenda, cmd_tbl, cache>>

-----------------------------------------------------------------------------
(***************************************************************************)
(* sata_read_block(did, blk), asked for by the head of the agenda.  The    *)
(* port number is the disk's, but the registers are those of the last      *)
(* controller that was set up.                                             *)
(***************************************************************************)
Job == Head(agenda)
DiskPort == disk[Job.did].disk_ind

TableSet(g) ==
  /\ pc = "table"
  /\ cmd_tbl' = g
  /\ pc' = "issue"
  /\ UNCHANGED <<hw, port, stack, pcie_dev_list, ctl, portno, cmd_list, disk, rtfs, agenda,
                 cache, page>>

NeedsPage == pc = "issue" /\ cache[Job.did][Job.blk] = NoPage

(* The block is mapped to page g, zeroed if it is a new one.  A port that  *)
(* was not started ignores a command.                                      *)
MutantCommand(g) == [blk |-> 0, buf |-> g]
Command(g) == [blk |-> Job.blk, buf |-> g]

Issue(g) ==
  /\ pc = "issue"
  /\ cache' = [cache EXCEPT ![Job.did][Job.blk] = g]
  /\ page' = [page EXCEPT ![g] = IF NeedsPage THEN Zero ELSE @,
                          ![cmd_list[DiskPort]] = Command(g)]
  /\ port' = [port EXCEPT ![ctl][DiskPort].ci = @ \/ port[ctl][DiskPort].st]
  /\ pc' = "poll"
  /\ UNCHANGED <<hw, stack, pcie_dev_list, ctl, portno, cmd_list, disk, rtfs, agenda,
                 cmd_tbl>>

Poll ==
  /\ pc = "poll"
  /\ \/ /\ ~port[ctl][DiskPort].ci
        /\ pc' = "work"
        /\ agenda' = Tail(agenda)
     \/ /\ port[ctl][DiskPort].ci /\ port[ctl][DiskPort].tfes
        /\ pc' = "panic"
        /\ UNCHANGED agenda
  /\ UNCHANGED <<hw, port, stack, pcie_dev_list, ctl, portno, cmd_list, disk, rtfs,
                 cmd_tbl, cache, page>>

-----------------------------------------------------------------------------
(***************************************************************************)
(* init_disk, init_mbr, init_gpt, detect_guid, detect_fs and disk_read.    *)
(* Each step takes the first job from the agenda and puts what it calls in *)
(* its place.  A table is read from the page where its block is cached.    *)
(***************************************************************************)
Read(d, b) == [op |-> "block", did |-> d, blk |-> b]
DiskRead(d, b, n) == [op |-> "disk_read", did |-> d, blk |-> b, n |-> n]
TableOf(d) == TableIn(page[cache[d][0]])

Do(jobs) == agenda' = jobs \o Tail(agenda)
JobsOnly ==
  UNCHANGED <<hw, port, stack, pcie_dev_list, ctl, portno, cmd_list, disk, rtfs,
              cmd_tbl, cache, page>>

init_disk ==
  /\ pc = "init_disk"
  /\ pc' = "work"
  /\ agenda' = [k \in 1 .. 2 * Len(disk) |->
                  IF k % 2 = 1 THEN Read((k + 1) \div 2, 0)
                  ELSE [op |-> "mbr", did |-> k \div 2]]
  /\ JobsOnly

Working(op) == pc = "work" /\ agenda # << >> /\ Job.op = op

Done ==
  /\ pc = "work" /\ agenda = << >>
  /\ pc' = "up"
  /\ JobsOnly /\ UNCHANGED agenda

ReadBlock ==
  /\ Working("block")
  /\ pc' = IF cmd_tbl = NoPage THEN "table" ELSE "issue"
  /\ JobsOnly /\ UNCHANGED agenda

(* One round of the loop of disk_read.  A cached block uses up a round but *)
(* the next one looks at the same block.                                   *)
disk_read ==
  /\ Working("disk_read")
  /\ \/ Job.n = 0 /\ Do(<< >>)
     \/ /\ Job.n > 0 /\ cache[Job.did][Job.blk] # NoPage
        /\ Do(<<DiskRead(Job.did, Job.blk, Job.n - 1)>>)
     \/ /\ Job.n > 0 /\ cache[Job.did][Job.blk] = NoPage
        /\ Do(<<Read(Job.did, Job.blk), DiskRead(Job.did, Job.blk + 1, Job.n - 1)>>)
  /\ JobsOnly /\ UNCHANGED pc

init_mbr ==
  /\ Working("mbr")
  /\ Do([k \in 1 .. 4 |-> [op |-> "entry", did |-> Job.did, type |-> TableOf(Job.did).mbr[k]]])
  /\ JobsOnly /\ UNCHANGED pc

(* disk[did].part[n_part++]; there is no check that the array has room.    *)
Register(d, b) ==
  /\ disk' = [disk EXCEPT ![d].part = Append(@, b)]
  /\ pc' = IF Len(disk[d].part) < NPART THEN "work" ELSE "overrun"

MbrEntry ==
  /\ Working("entry")
  /\ \/ /\ Job.type = "unknown"
        /\ Do(<< >>)
        /\ UNCHANGED <<pc, disk>>
     \/ /\ Job.type \in {"known", "empty"}
        /\ Do(<< >>)
        /\ Register(Job.did, 0)
     \/ /\ Job.type = "gpt"
        /\ Do([b \in 1 .. GPTBLKS |-> Read(Job.did, b)] \o <<[op |-> "gpt", did |-> Job.did]>>)
        /\ UNCHANGED <<pc, disk>>
  /\ UNCHANGED <<hw, port, stack, pcie_dev_list, ctl, portno, cmd_list, rtfs, cmd_tbl,
                 cache, page>>

init_gpt ==
  /\ Working("gpt")
  /\ Do(IF TableOf(Job.did).sign
        THEN [k \in 1 .. Len(TableOf(Job.did).gpt) |->
                [op |-> "guid", did |-> Job.did, entry |-> TableOf(Job.did).gpt[k]]]
        ELSE << >>)
  /\ JobsOnly /\ UNCHANGED pc

detect_guid ==
  /\ Working("guid")
  /\ \/ /\ Job.entry.guid \in {"empty", "unknown"}
        /\ Do(<< >>)
        /\ UNCHANGED <<pc, disk>>
     \/ /\ Job.entry.guid = "known"
        /\ Do(<< >>)
        /\ Register(Job.did, Job.entry.blk)
     \/ /\ Job.entry.guid = "fs"
        /\ Do(<<DiskRead(Job.did, Job.entry.blk, 1),
                [op |-> "fs", did |-> Job.did, pid |-> Len(disk[Job.did].part) + 1]>>)
        /\ Register(Job.did, Job.entry.blk)
  /\ UNCHANGED <<hw, port, stack, pcie_dev_list, ctl, portno, cmd_list, rtfs, cmd_tbl,
                 cache, page>>

(* detect_fs, once the first block of the partition is there.              *)
MutantKeepsFirst(r, d, n) == IF r = << >> THEN <<d, n>> ELSE r
NewRoot(r, d, n) == <<d, n>>

detect_fs ==
  /\ Working("fs")
  /\ Do(<< >>)
  /\ rtfs' = IF IsExfat(page[cache[Job.did][disk[Job.did].part[Job.pid]]])
             THEN NewRoot(rtfs, Job.did, Job.pid) ELSE rtfs
  /\ UNCHANGED <<hw, port, pc, stack, pcie_dev_list, ctl, portno, cmd_list, disk, cmd_tbl,
                 cache, page>>

(* A file system call of a process asks for n blocks from block b on.      *)
FsRead(d, b, n) ==
  /\ pc = "up"
  /\ d \in 1 .. Len(disk)
  /\ pc' = "work"
  /\ agenda' = <<DiskRead(d, b, n)>>
  /\ JobsOnly
-----------------------------------------------------------------------------
(***************************************************************************)
(* The ports.  One that was told to stop stops; one with a command reads   *)
(* it from its list and finishes it, or raises a task file error and stays *)
(* there.  sata_read_block writes 0xFFFF to `is`, which clears no bit 30.  *)
(***************************************************************************)
StopsList(c, n) ==
  /\ ~port[c][n].st /\ port[c][n].cr
  /\ port' = [port EXCEPT ![c][n].cr = FALSE]
  /\ UNCHANGED <<hw, pc, stack, pcie_dev_list, ctl, portno, cmd_list, disk, rtfs, agenda,
                 cmd_tbl, cache, page>>

StopsReceiving(c, n) ==
  /\ ~port[c][n].fre /\ port[c][n].fr
  /\ port' = [port EXCEPT ![c][n].fr = FALSE]
  /\ UNCHANGED <<hw, pc, stack, pcie_dev_list, ctl, portno, cmd_list, disk, rtfs, agenda,
                 cmd_tbl, cache, page>>

Finishes(c, n) ==
  LET cmd == page[port[c][n].clb]
  IN  /\ port[c][n].ci
      /\ page' = [page EXCEPT ![cmd.buf] = Block(c, n, cmd.blk)]
      /\ port' = [port EXCEPT ![c][n].ci = FALSE]
      /\ UNCHANGED <<hw, pc, stack, pcie_dev_list, ctl, portno, cmd_list, disk, rtfs, agenda,
                     cmd_tbl, cache>>

Fails(c, n) ==
  /\ port[c][n].ci /\ ~port[c][n].tfes
  /\ port' = [port EXCEPT ![c][n].tfes = TRUE]
  /\ UNCHANGED <<hw, pc, stack, pcie_dev_list, ctl, portno, cmd_list, disk, rtfs, agenda,
                 cmd_tbl, cache, page>>

(* Steps of the kernel that take no page, and steps of the ports.          *)
DriverStep ==
  \/ ScanDone \/ scan_devfn \/ AhciPort \/ ReceiveStopped \/ PortIdle
  \/ init_disk \/ Done \/ ReadBlock \/ disk_read \/ init_mbr \/ MbrEntry \/ init_gpt
  \/ detect_guid \/ detect_fs \/ Poll
  \/ ~NeedsPage /\ pc = "issue" /\ Issue(cache[Job.did][Job.blk])

PortStep == \E c \in Ctls, n \in Ports :
  StopsList(c, n) \/ StopsReceiving(c, n) \/ Finishes(c, n) \/ Fails(c, n)
-----------------------------------------------------------------------------
(* The variables of the drivers stay in their types.                       *)
StorageTypeOK ==
  /\ hw \in Machines
  /\ port \in [Ctls -> [Ports -> Registers]]
  /\ pc \in {"scan", "overflow", "port", "wait_fr", "wait_cr", "reset", "setup", "init_disk", "work",
             "overrun", "table", "issue", "poll", "panic", "up"}
  /\ stack \in Seq(Buses \X (0 .. NDEVFN))
  /\ pcie_dev_list \in Seq(Buses \X (0 .. NDEVFN - 1))
  /\ ctl \in Ctls \cup {NoCtl}
  /\ portno \in 0 .. NPORTS
  /\ cmd_list \in [Ports -> Pages]
  /\ \A d \in DOMAIN disk :
       disk[d].disk_ind \in Ports /\ disk[d].from \in Ctls \X Ports /\ disk[d].part \in Seq(Blocks)
  /\ cmd_tbl \in Pages
  /\ \A d \in DOMAIN cache : cache[d] \in [Blocks -> Pages]

FnAt(bd) == hw.fn[bd[1]][bd[2]]

(* The buses that bus 0 leads to.                                          *)
Reached ==
  {b \in Buses : \A S \in SUBSET Buses :
     (0 \in S /\ \A bd \in DevFns :
        bd[1] \in S /\ FnAt(bd).type = "bridge" => FnAt(bd).sec \in S) => b \in S}

OneController ==
  \A x, y \in DevFns : FnAt(x).type = "ahci" /\ FnAt(y).type = "ahci" => x = y

(***************************************************************************)
(* A cached block holds what the disk that it is filed under has there,    *)
(* except while it is being read: disk_read is to "read sectors [lba,      *)
(* lba+n_sec) from the `did`-th disk" (kernel/fs/README.md).               *)
(***************************************************************************)
ReadsItsDisk ==
  \A d \in 1 .. Len(disk), b \in Blocks :
    cache[d][b] # NoPage =>
      \/ page[cache[d][b]] = Block(disk[d].from[1], disk[d].from[2], b)
      \/ pc \in {"poll", "panic"} /\ Job.did = d /\ Job.blk = b

(***************************************************************************)
(* With one controller every disk_read does.  The number of the block      *)
(* passes through the agenda of calls, the page table, the command list,   *)
(* the port and the device (sata_read_block, disk_read).                   *)
(***************************************************************************)
BlockIsRight == OneController => ReadsItsDisk

Attached ==
  {cn \in Ctls \X Ports :
     hw.unit[cn[1]][cn[2]] = "disk"
     /\ \E bd \in DevFns : /\ bd[1] \in Reached
                           /\ FnAt(bd).type = "ahci" /\ FnAt(bd).ctl = cn[1]}

Volumes(d) ==
  LET t == hw.table[disk[d].from[1]][disk[d].from[2]]
  IN  IF t.sign /\ \E k \in 1 .. 4 : t.mbr[k] = "gpt"
      THEN {k \in 1 .. Len(t.gpt) : t.gpt[k].guid = "fs" /\ t.gpt[k].exfat} ELSE {}

(***************************************************************************)
(* What startup leaves behind, with one controller and no failure: every   *)
(* attached disk that the bridges lead to is known, once, and the root is  *)
(* the last exFAT partition on the last disk that has one, as README.md    *)
(* says (scan_bus, pcie_sata_ahci_init, init_mbr, init_gpt, detect_guid,   *)
(* detect_fs).                                                             *)
(***************************************************************************)
RootFound ==
  pc = "up" /\ OneController =>
    /\ {disk[d].from : d \in 1 .. Len(disk)} = Attached
    /\ Len(disk) = Cardinality(Attached)
    /\ rtfs = << >> <=> \A d \in 1 .. Len(disk) : Volumes(d) = {}
    /\ rtfs # << >> =>
         LET t == hw.table[disk[rtfs[1]].from[1]][disk[rtfs[1]].from[2]]
         IN  /\ \A d \in rtfs[1] + 1 .. Len(disk) : Volumes(d) = {}
             /\ \E k \in Volumes(rtfs[1]) :
                  /\ disk[rtfs[1]].part[rtfs[2]] = t.gpt[k].blk
                  /\ \A m \in Volumes(rtfs[1]) : m <= k
=============================================================================
