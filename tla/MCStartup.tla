----------------------------- MODULE MCStartup ------------------------------
(* Machines and memory maps for Startup.                                   *)
EXTENDS Startup

MCCtls == {"c1", "c2"}

none == [type |-> "none"]
Ahci(c) == [type |-> "ahci", ctl |-> c]
Bridge(b) == [type |-> "bridge", sec |-> b]
Bus(f, g) == [k \in 0 .. 1 |-> IF k = 0 THEN f ELSE g]

Idle == [st |-> FALSE, cr |-> FALSE, fre |-> FALSE, fr |-> FALSE,
         ci |-> FALSE, tfes |-> FALSE, clb |-> 0]
Left == [Idle EXCEPT !.st = TRUE, !.cr = TRUE, !.fre = TRUE, !.fr = TRUE]

Vol(g, b, x) == [guid |-> g, blk |-> b, exfat |-> x]
Gpt(vols) == [mbr |-> <<"gpt", "empty", "unknown", "known">>, sign |-> TRUE, gpt |-> vols]
Plain == [mbr |-> <<"known", "gpt", "unknown", "gpt">>, sign |-> FALSE, gpt |-> << >>]

PerPort(a, b) == [n \in 0 .. 1 |-> IF n = 0 THEN a ELSE b]
PerCtl(a, b) == [c \in MCCtls |-> IF c = "c1" THEN a ELSE b]

Machine(bus0, bus1, units, left, tables) ==
  [fn |-> [b \in 0 .. 1 |-> IF b = 0 THEN bus0 ELSE bus1],
   unit |-> units, left |-> left, table |-> tables]

NoUnits == PerPort("none", "none")
AllIdle == PerPort(Idle, Idle)
NoTables == PerPort(Plain, Plain)

(* Two disks behind a bridge, one left running; two volumes on the first.  *)
TwoDisks == Machine(Bus([type |-> "nvme"], Bridge(1)), Bus(Ahci("c1"), [type |-> "other"]),
  PerCtl(PerPort("disk", "disk"), NoUnits), PerCtl(PerPort(Idle, Left), AllIdle),
  PerCtl(PerPort(Gpt(<<Vol("fs", 2, TRUE), Vol("fs", 3, TRUE)>>), Plain), NoTables))

(* One disk, with entries of every kind and an old error.                  *)
OneDisk == Machine(Bus(Ahci("c1"), none), Bus(none, none),
  PerCtl(PerPort("none", "disk"), NoUnits),
  PerCtl(PerPort(Idle, [Left EXCEPT !.tfes = TRUE, !.fre = FALSE]), AllIdle),
  PerCtl(PerPort(Plain, Gpt(<<Vol("known", 1, FALSE), Vol("fs", 2, TRUE),
                             Vol("unknown", 0, FALSE), Vol("fs", 3, FALSE)>>)), NoTables))

(* A bridge that leads back to its own bus.                                *)
Loop == Machine(Bus(Bridge(0), Ahci("c1")), Bus(none, none),
  PerCtl(NoUnits, NoUnits), PerCtl(AllIdle, AllIdle), PerCtl(NoTables, NoTables))

(* Two controllers with a disk each.                                       *)
TwoControllers == Machine(Bus(Ahci("c1"), Ahci("c2")), Bus(none, none),
  PerCtl(PerPort("disk", "none"), PerPort("disk", "none")), PerCtl(AllIdle, AllIdle),
  PerCtl(PerPort(Plain, Plain), PerPort(Gpt(<<Vol("fs", 1, TRUE)>>), Plain)))

(* More disks, or more partitions, than the arrays hold.                   *)
ManyDisks == Machine(Bus(Ahci("c1"), Ahci("c2")), Bus(none, none),
  PerCtl(PerPort("disk", "disk"), PerPort("disk", "none")), PerCtl(AllIdle, AllIdle),
  PerCtl(NoTables, NoTables))
ManyParts == Machine(Bus(Ahci("c1"), none), Bus(none, none),
  PerCtl(PerPort("disk", "none"), NoUnits), PerCtl(AllIdle, AllIdle),
  PerCtl(PerPort(Gpt([k \in 1 .. 4 |-> Vol("known", 0, FALSE)]), Plain), NoTables))

MCMachines == {TwoDisks, OneDisk, Loop, TwoControllers, ManyDisks, ManyParts}

Big == <<21, 0 .. 20>>
MCMaps == {Big} \cup {<<14, S \cup {8, 9, 11, 13}>> : S \in SUBSET {3, 6, 7, 10, 12}}
MCBoots ==
  ({TwoDisks, Loop, TwoControllers, ManyDisks, ManyParts} \X {Big})
    \cup ({OneDisk} \X (MCMaps \ {Big}))
TwoControllersBoot == {TwoControllers} \X {Big}
MCRequests == {<<1, 1, 2>>, <<1, 3, 1>>}
=============================================================================
