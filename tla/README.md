# Verification of ukern

ukern is a small x86_64 kernel: one processor, processes with copy-on-write
memory, pipes, a keyboard, AHCI disks and a read-only exFAT file system. This
directory models it in TLA+, checks the models with TLC and proves most of their
safety properties with TLAPS. `PROJECT.json` maps every definition to the lines
it stands for and lists the hazards, each at its line, with the properties that
cover it.

## The system and its modules

| part | state | operations | modules |
|---|---|---|---|
| process table, family tree, scheduler | `procs`, `curproc`, `g_pid` | fork, exit, wait, faults, unknown system call, timer, `sched` | `ProcTree`, `MCProcTree` |
| pipes and their descriptors | `struct pipe`, `fdesc` | `pipe_read`, `pipe_write`, read, write, pipe, close, fork, `clear_proc` | `Pipe`, `MCPipe`; `Channel` and `PipeStream` say what a pipe promises |
| user memory | two page tables per process, `page_info.ref`, free pages, translations of the processor | fork, page fault, `U2K`, direct writes, sbrk, exec, exit, switch | `Cow`, `MCCow` |
| keyboard | `shift`, `kbd_buffer`, `kbd_proc` | `kbd_getch`, interrupt 36, read, exit | `Keyboard` |
| files | disk cache, `fdesc`, `pwd` | open, opendir, read, readdir, chdir | `ExFat`, `Files`, `MCFiles` |
| physical memory | `end_kmem`, `freepages`, the words of `page_info` | `init_kpageinfo` to `init_freepages`, `alloc_page`, `free_page` | `FreePages` |
| buses, AHCI, block cache, partitions | `pcie_dev_list`, port registers, `cmd_list`, `disk`, `rtfs` | `scan_bus`, `pcie_sata_ahci_init`, `sata_read_block`, `disk_read`, `init_mbr`, `init_gpt`, `detect_guid`, `detect_fs` | `Storage` |
| the kernel from `init()` to processes | both of the above | drivers and processes take and return pages | `Startup`, `MCStartup` compose `FreePages` and `Storage` |
| pointer checks | flags of user pages | `check_mem`, then the copies of a pipe through `U2K` | `UserCopy` |

Elsewhere the parts meet in few places. fork and exit touch the table, the
memory and the descriptors; each module models its own share of them. wait and
pipes write into a sleeping process through `U2K`, which is `U2KWrite` of `Cow`.

**Granularity.** There is one processor and a trap handler runs with interrupts
off until it returns to user mode or calls `sched()`, so a handler is one action.
Concurrency is the order in which the handlers of several processes, the timer
and the keyboard run. `Storage` is finer, because there the other actor is the
hardware: every point where the driver waits for a port, takes a page or issues
a command is a step, and ports stop, finish or fail between any two of them.
Nothing is ever written to disk, so there is no crash recovery to model.

**Abstractions.** `ProcTree`: a page table is one flag. `Pipe`: bytes are
numbered; "READY" includes running; after a use of freed memory (`corrupt`)
nothing further is explored. `Cow`: one value is the contents of a page; the free
list has no order (`FreePages` has it). `Keyboard`: eight keys stand for the
classes the tables distinguish. `ExFat`: a name is a sequence of chunks, each the
content of one file_name entry; an operation returns its result and the disk
requests it makes, which `Files` runs against the cache. `Storage`: a block is
named by controller, port and number; calls that `init_disk` makes are jobs on an
agenda. `FreePages`: addresses are counted in units of a `page_info`, and a word
is a link or a count, as in the code.

**History variables** are the only state without a counterpart in the code:
`reaped` (who was forked by whom), the numbers of bytes in `Pipe`, `view` in
`Cow`, `held`, `odd` and `meant` in `Keyboard`, `kpages` and `held` in `Startup`,
`names`, `node` and `here` in `Files`; and `orderly`, `careful` and `direct`,
which record whether a behaviour has left the conditions below.

## Runs

| run | result | what it shows |
|---|---|---|
| `proc` | pass | no lost wakeup in wait, `sched` always finds a process, no starvation; exact sibling lists and truthful wait **while orderly** |
| `proc_sleeps_for_nobody` | violated | otherwise wait can sleep with no child left (`proc.c:172`) |
| `pipe` | pass | a pipe implements `Channel`, nobody registered has something to do; exact counts, final end of file, sleepers registered **while careful** |
| `pipe_eof_then_data` | violated | close marks the wrong descriptor (`syscall.c:628`) |
| `cow` | pass | exact counts, private writable pages, agreeing tables, no stale writable translation; isolation **until a direct write** |
| `cow_direct_write` | violated | with direct writes isolation fails (`mem.c:174`) |
| `keyboard` | pass | order, no sleeping on input, no stuck modifier, meaning kept **unless odd** |
| `files_aligned` | pass | contents, lookup, listing and cache, **if** reads are whole clusters |
| `files_midcluster` | violated | a read from inside a cluster across its end repeats it (`exfat.c:256`) |
| `startup` | pass | exact and usable free list, drivers' pages apart, right blocks **with one controller**, last exFAT partition is root, waits end |
| `startup_two_controllers` | violated | the second controller replaces the first (`sata.c:70`) |
| `user_copy` | violated | `check_mem` misses the last page of an unaligned buffer (`syscall.c:26`) |

**Conditions.** Some properties hold only of programs or machines that keep to a
condition. The runs do not restrict the others: they are explored too (with the
bounds `Wild*` and `DirectSlots`), must keep the unconditional properties, and
the violated runs show what becomes of the conditional ones.

- *orderly* (`OrderlyLists`, `OrderlyWaits`, `OrderlyReports`): no process has
  ended while its parent lived and was not in wait, and none has made an unknown
  system call. The shell waits for each command, so it is orderly.
- *careful* (`CarefulEof`, `CarefulRefs`, `CarefulSleep`): nobody has used a
  descriptor after closing it, or forked or ended with one closed; nobody has
  closed `fd` while `2 * fd` was in use, since that is the descriptor `sys_close`
  marks free; every pipe call had two free descriptors; no write exceeded the
  ring. The last is needed because `sys_write` compares only its first piece
  (`syscall.c:544`) and can go to sleep unregistered when the nested
  `pipe_write` has finished the transfer.
- *direct* (`IsolatedByU2K`): a system call has stored through the program's own
  address, past the write flag.
- *odd* (`MeaningKept`): two keys with one flag were down together (releasing one
  clears the flag), or caps lock repeated (every repetition toggles).
- `BlockIsRight` and `RootFound` are about machines with one AHCI controller.
- `files_aligned` reads whole clusters (`ReadOdd = {0}`).

**Bounds.** Five slots (`proc`) give idle, the shell and three descendants, enough
for siblings and orphans; `MaxPid` lets a slot be used again. A ring of three
bytes (pipe) or two (keyboard) wraps, fills and empties; `MaxXfer = 4` exceeds
the ring, `MaxBytes = 7` wraps it twice; `NFD = 5` leaves two free descriptors
beside the three standard ones. Four pages for three processes let sharing,
copying and running out of memory happen; pages are symmetric because the free
list has no order. `MaxWire` and `MaxKeys` bound bytes under way and key events.
The two volumes of `MCFiles` have clusters smaller and larger than a cache block,
a backward FAT chain, a contiguous directory, an entry set across a cluster
boundary, a name in two entries and an empty file; one descriptor is free
(`NFD = 4`), so two open files at once are not explored. `MCStartup` has six
machines (a bridge, a bridge that leads back to its own bus, a port the firmware
left running, an old error, two controllers, too many disks, too many
partitions) and 33 memory maps in which conventional memory has gaps at every
boundary of the kernel's structures; `Depth` is the kernel stack in calls of
`scan_bus`, `MaxUser` and `MaxRef` bound what processes hold.

**Deadlock** is not checked where bounds (pids, bytes, key events) or a halted
machine end a behaviour. `Files` is checked for it.

**Assumptions about the environment.** `IsMachine`: the firmware leaves no
command behind, runs no port without a disk, and partitions begin at blocks the
disk has. Processes free and share only pages they hold (`User`), and read only
blocks the disk has: `Cow` and `Files` are about that side.

**Fairness.** `NoStarvation`: weak fairness of `Timer`, since the local APIC timer
keeps firing while a program runs. `WaitsEnd`: the kernel goes on while it can,
as nothing preempts it during start-up; a port that was told to stop receiving
does so, and a command ends or fails, for each port by itself. That a port's
command list stops is *not* assumed: the driver looks 5000 times and then resets
the port, a wait that does not end (`sata.c:126`) and one of the places
`WaitsEnd` names.

## Proofs

The theorems hold for every value of the constants that satisfies the named
assumptions in the modules (`ConstantsAssumption`, `PipeAssumption`,
`CowAssumption`, `KbdAssumption`, `MemAssumption`, `StorageAssumption`,
`StartupAssumption`). They bound no size: the bounds of the runs are constants
too, so a theorem covers a table of 1024 slots, a ring of 4096 characters and any
number of pids, bytes or key events.

**`ProcTreeProofs`.** `TypeOK`, `NoLostWakeup` and `IdleSchedulable` hold whatever
programs do. Their invariant `IInv` adds that no `living`, `zombie` or `next`
pointer reaches idle, so that not even a stale list can clear it, and that the
running program is not in wait. `OrderlyLists`, `OrderlyWaits` and
`OrderlyReports` need a second one, `TreeInv`: while orderly, the table is `Tidy`.
It says that the links of siblings are mutual, lead from a child to one that was
forked earlier by the same parent, and start at the parent's first child; that
there is no zombie, because a waiting parent reaps its child at once; and that
closed slots are cleared. Since a list goes from larger to smaller pids, it ends and
reaches every child. That step is an induction: `LeastNumber` takes the least
pid that could break it, from the well-foundedness of the naturals. What fork
does to the table is `AddChildTidy`; what an exit does, with its two loops over
the children and the unlinking at the parent, is `RemovedTidy` and `KillTree`.

**`PipeProofs`.** `TypeOK`, `NobodyWaitsInVain` and `StreamIntact`. The ring and
the stream condition of each pipe are inductive together; the copy loops are
lemmas. `PipeIsChannel` rests on them: under the mapping of `PipeStream` every
step of `Pipe` is a step of `Channel` or a stutter. The queue of the abstract
stream is determined by the two numbers of the first and the last byte that are
in the ring or pending.

**`PipeCareProofs`.** `CarefulRefs`, `CarefulEof` and `CarefulSleep`. The invariant
`CareInv` ties the places where an end is recorded: descriptors (`Descriptors`: an
open one is in use, by a process that exists, and names a pipe), the counts of
each pipe (`CountsOf`: the numbers of its open ends over all processes; after an
end of file there is no writer and no byte), and sleepers (`Sleepers`: a process
sleeps exactly while it is the reader or the writer of one pipe, which is in use,
and a waiting writer holds a write end). Each action is shown to add or
remove exactly the ends that it counts.

**`CowProofs`.** `TypeOK`, `RefExact`, `NoPanic`, `WritableIsPrivate`,
`TablesAgree`, `CachedWritesSafe`. The invariant `IInv(iso)` adds that closed slots
map nothing and nothing lies above `end_umem`, which makes the pages of sbrk new;
the counting lemmas relate `ref` to mappings. With `iso` it includes `Isolated`,
and every step except a direct write keeps it, which gives `IsolatedByU2K` as
well as `Isolated` for a kernel without direct writes.

**`KeyboardProofs`.** `TypeOK`, `NobodySleepsOnInput`, `KeysInOrder`; the invariant
adds that the waiting process asked for at least one character. For
`NoStuckModifier` and `MeaningKept`, `WireInv` says what the decoder will have
done when the bytes on the wire are read: carried through those bytes, its flags
end as those of the keys that are down, and each byte decodes to what was meant.
Pressing, releasing and delivering a byte each keep this.

**`FreePagesProofs`, `DriverSteps`, `StartupProofs`.** The free list first, for
`FreePages` alone (`ExactList`, `UsableList`): `MemInv` says that `freepages`
and the words spell a list without repetition of exactly the pages that are
free. `StartupProofs` then, in `MemoryIsFreePages`, proves that the composition
implements `FreePages`, step by step, so that `FreeListExact` and `FreeIsUsable`
hold of it too. `DriverInv` is the invariant of the drivers: where the kernel is
and what it may find there, that a command is out only for the block it waits
for and its port has a list, that pages in use are apart and taken, and, with
one controller, whose block a page holds. It gives `StartupTypeOK`,
`DriverPagesApart` and `BlockIsRight`.

**Only model-checked:**

- `NoStarvation`, `WaitsEnd`: liveness under fairness.
- `RootFound`: it compares the outcome of the scan with the set of buses that can
  be reached, and the root with the last of all volumes in the order of the jobs;
  both need an invariant about the recursion of `scan_bus` and the agenda that is
  not written yet.
- everything about `Files`: what recursive operators compute on directories and
  chains.
- the violated runs, which are counterexamples.

## Not modelled

Boot loader and entry code, interrupt controllers and ACPI (straight-line or
register-level code that runs once); console and formatted output; FPU and MTRR
set-up; the xHCI driver, which the scan does not register; `sata_write_block`,
which nothing calls; user programs, which are the environment; `check_str`; paths
beyond 256 bytes; the pages of the page tables themselves; stale read-only
translations after `U2K`.

Most lines of the repository are the vendored gnu-efi library (about 29600 of
34300), which only the boot loader uses. The map covers about 2650 lines: more
than half of the rest, but under a tenth of the repository.
