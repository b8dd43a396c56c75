-------------------------------- MODULE ExFat --------------------------------
(***************************************************************************)
(* The read-only exFAT file system of ukern (kernel/fs/exfat.c, fs.c) and  *)
(* the disk cache under it (disk_read, kernel/fs/disk.c), as operators on  *)
(* a volume.  An operation returns its result and, in order, the requests  *)
(* it makes of the disk; Files.tla runs them against the cache.            *)
(*                                                                         *)
(* A volume v is a record: spc sectors per cluster, heap the sector of     *)
(* cluster 2, fatlba the sector of the FAT, epc directory entries per      *)
(* cluster, fat the FAT, data the directory entries a cluster holds when   *)
(* it is read as a directory, root the head of the root directory.  Byte k *)
(* of cluster c is the pair <<c, k>>.  A name is a sequence of chunks, the *)
(* characters one file_name entry holds (15 in the code).                  *)
(***************************************************************************)
EXTENDS Integers, Sequences, SequencesExt

CONSTANTS BLKSEC,      \* sectors in a block of the cache, 8 in the code
          SECBYTES,    \* bytes in a sector, 512
          FATPERSEC,   \* entries of the FAT in a sector, 128
          Upper(_),    \* to_upper_case() on a chunk
          MaxWalk      \* bound: clusters of a chain or a directory walk

EOC == -1    \* 0xFFFFFFFF in the FAT

-----------------------------------------------------------------------------
(* disk_read(): one iteration looks at the block of lba; a block that is   *)
(* not cached is read and lba moves on, a cached one is looked at again.   *)

Block(lba) == lba \div BLKSEC

MutantDiskRead(cached, lba, n) ==    \* the last block is forgotten
    LET step(a, i) == IF Block(a.lba) \in a.cached THEN a
                      ELSE [cached |-> a.cached \cup {Block(a.lba)}, lba |-> a.lba + BLKSEC]
    IN  FoldLeft(step, [cached |-> cached, lba |-> lba],
                 [i \in 1 .. (n - 1) \div BLKSEC |-> i]).cached

disk_read(cached, lba, n) ==
    LET step(a, i) == IF Block(a.lba) \in a.cached THEN a
                      ELSE [cached |-> a.cached \cup {Block(a.lba)}, lba |-> a.lba + BLKSEC]
    IN  FoldLeft(step, [cached |-> cached, lba |-> lba],
                 [i \in 1 .. (n - 1) \div BLKSEC + 1 |-> i]).cached

(* A request: disk_read(lba, n), then an access to sectors lba .. lba+n-1. *)
Request(lba, n) == [lba |-> lba, n |-> n]

CLUS2LBA(v, c) == v.heap + (c - 2) * v.spc

ReadCluster(v, c) == Request(CLUS2LBA(v, c), v.spc)

get_fat_at(v, c) == [to |-> v.fat[c], req |-> Request(v.fatlba + c \div FATPERSEC, 1)]

-----------------------------------------------------------------------------
(* Walking a chain from head, by the FAT or to the following cluster.      *)

Step(v, c, use_fat) ==
    IF use_fat THEN [to |-> get_fat_at(v, c).to, reqs |-> <<get_fat_at(v, c).req>>]
    ELSE [to |-> c + 1, reqs |-> <<>>]

Onward(reqs, s) == [c |-> s.to, reqs |-> reqs \o s.reqs]

(* The k-th cluster of a chain, and the requests of getting there.         *)
Chain(v, head, use_fat) ==
    LET at[k \in 0 .. MaxWalk] ==
          IF k = 0 THEN [c |-> head, reqs |-> <<>>]
          ELSE IF at[k - 1].c = EOC THEN at[k - 1]
          ELSE Onward(at[k - 1].reqs, Step(v, at[k - 1].c, use_fat))
    IN  at

(* The entries a directory walk sees: up to the first entry of type 0x00   *)
(* or the end of the chain.  A contiguous directory has no other end.      *)
EntriesAlong(v, chain) ==
    LET entry(i) == LET c == chain[i \div v.epc].c
                    IN  IF c = EOC THEN [type |-> "end"] ELSE v.data[c][(i % v.epc) + 1]
        stop == Min({i \in 0 .. MaxWalk * v.epc - 1 :
                        entry(i).type \in {"end", "00"}})
    IN  [i \in 1 .. stop |-> entry(i - 1)]

DirEntries(v, head, use_fat) == EntriesAlong(v, Chain(v, head, use_fat))

(* The requests of a walk that looks at the first n entries.  A cluster is *)
(* read, and its successor looked up, before its first entry is looked at. *)
WalkRequests(v, head, use_fat, n) ==
    LET chain == Chain(v, head, use_fat)
        clusters == [k \in 1 .. (n - 1) \div v.epc + 1 |-> chain[k - 1].c]
    IN  FoldLeft(LAMBDA r, c : IF c = EOC THEN r
                               ELSE r \o <<ReadCluster(v, c)>> \o Step(v, c, use_fat).reqs,
                 <<>>, clusters)

-----------------------------------------------------------------------------
(* exfat_walk_dir(): the fields it carries from entry to entry.            *)

MutantCompare(a, e, name) ==   \* a name matches when it is a prefix
    LET more == ~a.mis /\ a.ptr < a.fn_len /\ a.ptr < Len(name)
        mis == a.mis \/ (more /\ Upper(name[a.ptr + 1]) /= Upper(e.chunk))
        ptr == IF more THEN a.ptr + 1 ELSE a.ptr
    IN  [a EXCEPT !.mis = mis, !.ptr = ptr, !.matched = ~mis /\ ptr = Len(name)]

(* The loop over one file_name entry and the test behind it.               *)
Compare(a, e, name) ==
    LET more == ~a.mis /\ a.ptr < a.fn_len /\ a.ptr < Len(name)
        mis == a.mis \/ (more /\ Upper(name[a.ptr + 1]) /= Upper(e.chunk))
        ptr == IF more THEN a.ptr + 1 ELSE a.ptr
    IN  [a EXCEPT !.mis = mis, !.ptr = ptr,
                  !.matched = ~mis /\ ptr = a.fn_len /\ ptr = Len(name)]

LookAt(a, e, name) ==
    LET b == [a EXCEPT !.seen = @ + 1]
    IN  CASE a.matched -> a
          [] ~a.matched /\ e.type = "85" -> [b EXCEPT !.mis = FALSE, !.ptr = 0, !.is_dir = e.is_dir]
          [] ~a.matched /\ e.type = "C0" -> [b EXCEPT !.clus = e.first, !.fn_len = e.name_len,
                                                      !.len = e.len, !.use_fat = e.use_fat]
          [] ~a.matched /\ e.type = "C1" -> Compare(b, e, name)
          [] OTHER -> b

WalkResult(v, cur, a) ==
    [found |-> a.matched,
     cur   |-> [clus |-> a.clus, use_fat |-> a.use_fat, is_dir |-> a.is_dir, len |-> a.len],
     reqs  |-> WalkRequests(v, cur.clus, cur.use_fat, IF a.matched THEN a.seen ELSE a.seen + 1)]

exfat_walk_dir(v, name, cur) ==
    WalkResult(v, cur,
        FoldLeft(LAMBDA x, e : LookAt(x, e, name),
                 [ptr |-> 0, mis |-> FALSE, clus |-> 0, use_fat |-> FALSE, fn_len |-> 0,
                  is_dir |-> FALSE, len |-> 0, matched |-> FALSE, seen |-> 0],
                 DirEntries(v, cur.clus, cur.use_fat)))

-----------------------------------------------------------------------------
(* exfat_open().  A path is [abs, comps]: whether it starts with '/' or is *)
(* empty, and its components (an empty component behaves as ".").          *)

RootDir(v) == [clus |-> v.root, use_fat |-> TRUE, is_dir |-> TRUE, len |-> 0]

MutantPush(path, name) == path

path_push(path, name) == Append(path, name)

path_pop(path) == IF path = <<>> THEN path ELSE Front(path)

(* a after the walk w for a name, which is remembered in the path.         *)
Entered(a, w, name) ==
    [err  |-> IF w.found THEN "OK" ELSE "ENOENT",
     cur  |-> IF w.found THEN w.cur ELSE a.cur,
     path |-> IF w.found THEN path_push(a.path, name) ELSE a.path,
     reqs |-> a.reqs \o w.reqs]

NameComponent(v, a, name) ==
    CASE a.err /= "OK" -> a
      [] a.err = "OK" /\ ~a.cur.is_dir -> [a EXCEPT !.err = "ENOTDIR"]
      [] OTHER -> Entered(a, exfat_walk_dir(v, name, a.cur), name)

AtRoot(v) == [err |-> "OK", cur |-> RootDir(v), path |-> <<>>, reqs |-> <<>>]

(* How ".." walks from the root along the stored path: names only.         *)
WalkFromRoot(v, path) ==
    FoldLeft(LAMBDA a, name : NameComponent(v, a, name), AtRoot(v), path)

(* Its result w is used as the parent directory, whatever it returned.     *)
Parent(a, up, w) ==
    [err |-> IF w.err = "OK" /\ w.cur.is_dir THEN "OK" ELSE "GARBAGE",
     cur |-> [w.cur EXCEPT !.len = 0], path |-> up, reqs |-> a.reqs \o w.reqs]

Component(v, a, name) ==
    CASE a.err /= "OK" \/ name = <<".">> -> a
      [] a.err = "OK" /\ name = <<"..">> ->
            Parent(a, path_pop(a.path), WalkFromRoot(v, path_pop(a.path)))
      [] OTHER -> NameComponent(v, a, name)

(* The test behind the last component.                                     *)
RightKind(a, opendir) ==
    IF a.err = "OK" /\ a.cur.is_dir /= opendir
    THEN [a EXCEPT !.err = IF opendir THEN "ENOTDIR" ELSE "EISDIR"]
    ELSE a

exfat_open(v, p, pwd, opendir) ==
    LET start == IF p.abs THEN AtRoot(v)
                 ELSE [err |-> "OK", path |-> pwd.path, reqs |-> <<>>,
                       cur |-> [clus |-> pwd.head, use_fat |-> pwd.use_fat,
                                is_dir |-> TRUE, len |-> 0]]
    IN  RightKind(FoldLeft(LAMBDA x, name : Component(v, x, name), start, p.comps), opendir)

-----------------------------------------------------------------------------
(* exfat_read_file(): the copy loop goes to the next cluster only behind   *)
(* one that it copied whole (while (n >= clus_size)).                      *)

ClusSize(v) == v.spc * SECBYTES

MutantBehind(v, c, use_fat, n) ==   \* > for >=
    IF n > ClusSize(v) THEN Step(v, c, use_fat) ELSE [to |-> c, reqs |-> <<>>]

(* Where the loop goes on behind a piece of n bytes from cluster c.        *)
Behind(v, c, use_fat, n) ==
    IF n >= ClusSize(v) THEN Step(v, c, use_fat) ELSE [to |-> c, reqs |-> <<>>]

Copied(v, a, n, s) ==
    [sz |-> a.sz - n, ptr |-> 0, c |-> s.to,
     out |-> a.out \o [k \in 1 .. n |-> <<a.c, a.ptr + k - 1>>],
     reqs |-> a.reqs \o <<ReadCluster(v, a.c)>> \o s.reqs]

CopyLoop(v, head, use_fat, ptr, sz) ==
    LET cs == ClusSize(v)
        turn(a, i) ==
            IF a.sz = 0 THEN a
            ELSE LET n == Min({a.sz, cs - a.ptr})
                 IN  Copied(v, a, n, Behind(v, a.c, use_fat, n))
    IN  FoldLeft(turn, [sz |-> sz, ptr |-> ptr, c |-> head, out |-> <<>>, reqs |-> <<>>],
                 [i \in 1 .. sz |-> i])

ReadFrom(v, fdesc, n, at) ==
    LET l == CopyLoop(v, at.c, fdesc.use_fat, fdesc.read_ptr % ClusSize(v), n)
    IN  [r |-> n, out |-> l.out, reqs |-> at.reqs \o l.reqs]

exfat_read_file(v, sz, fdesc) ==
    ReadFrom(v, fdesc, Min({sz, fdesc.file_len - fdesc.read_ptr}),
             Chain(v, fdesc.head, fdesc.use_fat)[fdesc.read_ptr \div ClusSize(v)])

-----------------------------------------------------------------------------
(* exfat_read_dir(): entries before read_ptr are skipped, the first name   *)
(* that is complete is returned.                                           *)

MutantPast(i) == i

Past(i) == i + 1    \* ++i before the break: read_ptr is behind the name

Dirent(v, fdesc, a) ==
    [filled   |-> a.filled,
     read_ptr |-> IF a.filled THEN Past(a.i) ELSE fdesc.read_ptr,
     dirent   |-> IF a.filled THEN [name |-> a.name, ino |-> a.ino, len |-> a.len,
                                    is_dir |-> a.is_dir]
                  ELSE [name |-> <<>>, ino |-> 0, len |-> 0, is_dir |-> FALSE],
     reqs     |-> WalkRequests(v, fdesc.head, fdesc.use_fat, a.i + 1)]

exfat_read_dir(v, fdesc) ==
    LET look(a, e) ==
            LET b == [a EXCEPT !.i = @ + 1]
                name == IF Len(a.name) < a.fn_len THEN Append(a.name, e.chunk) ELSE a.name
                filled == Len(name) = a.fn_len
            IN  CASE a.filled -> a
                  [] ~a.filled /\ a.i < fdesc.read_ptr -> b
                  [] ~a.filled /\ a.i >= fdesc.read_ptr /\ e.type = "85" ->
                        [b EXCEPT !.name = <<>>, !.is_dir = e.is_dir]
                  [] ~a.filled /\ a.i >= fdesc.read_ptr /\ e.type = "C0" ->
                        [b EXCEPT !.fn_len = e.name_len, !.ino = e.first, !.len = e.len]
                  [] ~a.filled /\ a.i >= fdesc.read_ptr /\ e.type = "C1" ->
                        [a EXCEPT !.name = name, !.filled = filled,
                                  !.i = IF filled THEN @ ELSE @ + 1]
                  [] OTHER -> b
        start == [i |-> 0, name |-> <<>>, fn_len |-> 0, ino |-> 0, len |-> 0,
                  is_dir |-> FALSE, filled |-> FALSE]
    IN  Dirent(v, fdesc, FoldLeft(look, start, DirEntries(v, fdesc.head, fdesc.use_fat)))

=============================================================================
