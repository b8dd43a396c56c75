-------------------------------- MODULE Files --------------------------------
(***************************************************************************)
(* The files of a process: the descriptors and the working directory of    *)
(* struct proc, the file system calls that work on them (sys_open,         *)
(* sys_opendir, sys_read of a file, sys_readdir and sys_chdir,             *)
(* kernel/syscall.c) and the disk cache they share.  sys_close is part of  *)
(* Pipe.tla.                                                               *)
(*                                                                         *)
(* A volume also records the tree it was made from (nodes), which only the *)
(* properties look at: node 1 is the root; a node has its name, its        *)
(* parent, its clusters and its length.                                    *)
(***************************************************************************)
EXTENDS ExFat

CONSTANTS Volumes,     \* the disks the kernel may find
          Paths,       \* paths that programs use
          NFD,         \* descriptors of a process, 64 in the code
          ReadClus, ReadOdd   \* a read asks for i clusters and j bytes more

VARIABLES vol,         \* the disk, never written
          cached,      \* blocks that are mapped in the disk window
          fdesc,       \* the descriptors of the process
          pwd,         \* its working directory
          node, here,  \* history: the nodes that fdesc and pwd stand for
          names,       \* history: names that sys_readdir returned from a descriptor
          halted       \* an access to an unmapped block: the kernel panics

vars == <<vol, cached, fdesc, pwd, node, here, names, halted>>

FDs == 0 .. NFD - 1

ReadSizes(v) == {i * ClusSize(v) + j : i \in ReadClus, j \in ReadOdd} \ {0}

Closed == [inuse |-> FALSE, type |-> "none", head |-> 0, use_fat |-> FALSE,
           file_len |-> 0, read_ptr |-> 0, path |-> <<>>]

(* create_proc(): descriptors 0 to 2 are the keyboard and the screen.      *)
Fresh == [fd \in FDs |-> IF fd > 2 THEN Closed
                         ELSE [Closed EXCEPT !.inuse = TRUE,
                                             !.type = IF fd = 0 THEN "KBD" ELSE "SCREEN"]]

Opened(o, type) == [inuse |-> TRUE, type |-> type, head |-> o.cur.clus, use_fat |-> o.cur.use_fat,
                    file_len |-> o.cur.len, read_ptr |-> 0, path |-> o.path]

-----------------------------------------------------------------------------
(* The tree, as a reference for what the calls should find.                *)

Nodes(v) == DOMAIN v.nodes

SameName(m, n) == /\ Len(m) = Len(n)
                  /\ \A i \in 1 .. Len(m) : Upper(m[i]) = Upper(n[i])

Children(v, d) == {n \in Nodes(v) \ {1} : v.nodes[n].parent = d}

(* Resolving a path component by component; "." and ".." of a file are     *)
(* accepted as the code accepts them.                                      *)
Resolve(v, d, comps) ==
    FoldLeft(LAMBDA n, name :
               CASE n = 0 \/ name = <<".">> -> n
                 [] n > 0 /\ name = <<"..">> -> v.nodes[n].parent
                 [] OTHER -> LET hits == {m \in Children(v, n) : SameName(v.nodes[m].name, name)}
                             IN  IF hits = {} THEN 0 ELSE CHOOSE m \in hits : TRUE,
             d, comps)

Target(p) == Resolve(vol, IF p.abs THEN 1 ELSE here, p.comps)

First(v, n) == IF v.nodes[n].chain = <<>> THEN 0 ELSE v.nodes[n].chain[1]

(* Byte i of a file, counted from 0.                                       *)
ByteOf(v, n, i) == <<v.nodes[n].chain[i \div ClusSize(v) + 1], i % ClusSize(v)>>

-----------------------------------------------------------------------------
(* The requests of a call, in order, against the cache.                    *)

Touches(r) == {Block(s) : s \in r.lba .. r.lba + r.n - 1}

RunRequests(reqs) ==
    LET serve(a, r) == LET c == disk_read(a.cached, r.lba, r.n)
                       IN  [cached |-> c, fault |-> a.fault \/ ~(Touches(r) \subseteq c)]
        a == FoldLeft(serve, [cached |-> cached, fault |-> FALSE], reqs)
    IN  cached' = a.cached /\ halted' = a.fault

FreeFD == {fd \in FDs : ~fdesc[fd].inuse}

(* sys_open() and sys_opendir(): the lowest free descriptor is filled in;  *)
(* a failure leaves it unused.  The case of no free descriptor is left out *)
(* (the loop runs to 256, past the table).                                 *)
SysOpen(p, dir) ==
    /\ ~halted
    /\ FreeFD /= {}
    /\ LET fd == Min(FreeFD)
           o == exfat_open(vol, p, pwd, dir)
       IN  /\ RunRequests(o.reqs)
           /\ fdesc' = IF o.err = "OK"
                       THEN [fdesc EXCEPT ![fd] = Opened(o, IF dir THEN "DIR" ELSE "REG")]
                       ELSE fdesc
           /\ node' = [node EXCEPT ![fd] = IF o.err = "OK" THEN Target(p) ELSE @]
           /\ names' = [names EXCEPT ![fd] = {}]
    /\ UNCHANGED <<vol, pwd, here>>

SysChdir(p) ==
    /\ ~halted
    /\ LET o == exfat_open(vol, p, pwd, TRUE)
       IN  /\ RunRequests(o.reqs)
           /\ pwd' = IF o.err = "OK" THEN Opened(o, "DIR") ELSE pwd
           /\ here' = IF o.err = "OK" THEN Target(p) ELSE here
    /\ UNCHANGED <<vol, fdesc, node, names>>

MutantReadPtr(ptr, r, sz) == ptr + sz

ReadPtr(ptr, r, sz) == ptr + r      \* read_ptr += r

(* The FT_REG branch of sys_read().                                        *)
SysRead(fd, sz) ==
    /\ ~halted
    /\ fdesc[fd].inuse /\ fdesc[fd].type = "REG"
    /\ LET f == fdesc[fd]
           d == exfat_read_file(vol, sz, f)
       IN  /\ RunRequests(d.reqs)
           /\ fdesc' = [fdesc EXCEPT ![fd].read_ptr = ReadPtr(@, d.r, sz)]
    /\ UNCHANGED <<vol, pwd, node, here, names>>

SysReaddir(fd) ==
    /\ ~halted
    /\ fdesc[fd].inuse /\ fdesc[fd].type = "DIR"
    /\ LET d == exfat_read_dir(vol, fdesc[fd])
       IN  /\ RunRequests(d.reqs)
           /\ fdesc' = [fdesc EXCEPT ![fd].read_ptr = d.read_ptr]
           /\ names' = [names EXCEPT ![fd] = IF d.filled THEN @ \cup {d.dirent.name} ELSE @]
    /\ UNCHANGED <<vol, pwd, node, here>>

(* The program ends and its parent, which has opened nothing, goes on with *)
(* its own table; the cache stays.                                         *)
Exit ==
    /\ ~halted
    /\ fdesc' = Fresh
    /\ node' = [fd \in FDs |-> 0]
    /\ names' = [fd \in FDs |-> {}]
    /\ UNCHANGED <<vol, cached, pwd, here, halted>>

(* detect_fs() has read the boot sector; the working directory is /.       *)
Init ==
    /\ vol \in Volumes
    /\ cached = disk_read({0}, vol.lba_beg, BLKSEC)
    /\ fdesc = Fresh
    /\ pwd = Opened([cur |-> RootDir(vol), path |-> <<>>], "DIR")
    /\ node = [fd \in FDs |-> 0] /\ here = 1
    /\ names = [fd \in FDs |-> {}]
    /\ halted = FALSE

Next ==
    \/ \E p \in Paths, dir \in BOOLEAN : SysOpen(p, dir)
    \/ \E p \in Paths : SysChdir(p)
    \/ \E fd \in FDs, sz \in ReadSizes(vol) : SysRead(fd, sz)
    \/ \E fd \in FDs : SysReaddir(fd)
    \/ Exit

Spec == Init /\ [][Next]_vars

-----------------------------------------------------------------------------
(* The variables keep their types; read_ptr of a file never passes its     *)
(* length, so file_len - read_ptr in exfat_read_file() never wraps.        *)
TypeOK ==
    /\ vol \in Volumes
    /\ \A b \in cached : b \in Nat
    /\ DOMAIN fdesc = FDs
    /\ \A fd \in FDs : /\ fdesc[fd].type \in {"none", "KBD", "SCREEN", "REG", "DIR"}
                       /\ fdesc[fd].type = "REG" => fdesc[fd].read_ptr \in 0 .. fdesc[fd].file_len
    /\ pwd.type = "DIR"
    /\ halted \in BOOLEAN

(* The kernel touches a sector of the disk window only when disk_read()    *)
(* has mapped its block, although disk_read() looks at a cached block      *)
(* again instead of going on to the next one.                              *)
NeverFaults == ~halted

(* Of a descriptor in use: sys_read() would return the bytes of the file   *)
(* from read_ptr on, and as many as there are, whichever way the clusters  *)
(* are chained.                                                            *)
ReadsTheFile ==
    \A fd \in FDs, sz \in ReadSizes(vol) : fdesc[fd].inuse /\ fdesc[fd].type = "REG" =>
        LET from == fdesc[fd].read_ptr
            n == Min({sz, vol.nodes[node[fd]].len - from})
        IN  exfat_read_file(vol, sz, fdesc[fd]).out =
               [i \in 1 .. n |-> ByteOf(vol, node[fd], from + i - 1)]

(* exfat_open() finds exactly the files and directories of the volume,     *)
(* whatever the path, the case of its letters and the working directory,   *)
(* and every descriptor stays at the clusters of what was opened.          *)
OpensWhatIsNamed ==
    /\ \A p \in Paths, dir \in BOOLEAN :
          LET t == Target(p)
          IN  (exfat_open(vol, p, pwd, dir).err = "OK") <=> (t > 0 /\ vol.nodes[t].is_dir = dir)
    /\ \A fd \in FDs : fdesc[fd].inuse /\ fdesc[fd].type \in {"REG", "DIR"} =>
          /\ node[fd] > 0
          /\ fdesc[fd].head = First(vol, node[fd])
          /\ fdesc[fd].type = "REG" => fdesc[fd].file_len = vol.nodes[node[fd]].len
    /\ pwd.head = First(vol, here)

(* Walking from the root along the path kept in a directory's descriptor   *)
(* leads to the same directory: what ".." relies on, its result unchecked. *)
PathsLeadBack ==
    \A f \in {pwd} \cup {fdesc[fd] : fd \in {g \in FDs : fdesc[g].inuse}} :
        f.type = "DIR" => LET w == WalkFromRoot(vol, f.path)
                          IN  /\ w.err = "OK" /\ w.cur.is_dir
                              /\ w.cur.clus = f.head /\ w.cur.use_fat = f.use_fat

(* Reading a directory to its end returns every file and directory in it   *)
(* once, with its own length and type, and then the empty name, although   *)
(* every call of exfat_read_dir() starts again at the first entry.         *)
ListsEachOnce ==
    \A fd \in FDs : fdesc[fd].inuse /\ fdesc[fd].type = "DIR" =>
        LET left == {n \in Children(vol, node[fd]) : vol.nodes[n].name \notin names[fd]}
            d == exfat_read_dir(vol, fdesc[fd]).dirent
        IN  IF left = {} THEN d.name = <<>>
            ELSE d \in {[name |-> vol.nodes[n].name, ino |-> First(vol, n),
                         len |-> vol.nodes[n].len, is_dir |-> vol.nodes[n].is_dir] : n \in left}

=============================================================================
