------------------------------- MODULE MCFiles -------------------------------
(***************************************************************************)
(* Two small volumes for Files.tla with the same tree:                     *)
(*                                                                         *)
(*   /a     a file whose chain goes backwards through the FAT              *)
(*   /d     a contiguous directory of two clusters                         *)
(*   /d/bc  a contiguous file, its name in two file_name entries           *)
(*   /d/s   a directory, its entry set across a cluster boundary           *)
(*   /d/s/a a file of half a cluster                                       *)
(*   /e     an empty file                                                  *)
(*                                                                         *)
(* The root fills its clusters to the last entry, so that only the FAT     *)
(* ends it.  Small has clusters of one sector, as the Makefile makes them  *)
(* (mkfs.exfat -c 512), in a heap that starts inside a block; Large has    *)
(* clusters of two blocks.                                                 *)
(***************************************************************************)
EXTENDS Files

upper(c) == IF c = "a" THEN "A" ELSE c

Tree(cs) ==
    <<[name |-> <<>>, parent |-> 1, is_dir |-> TRUE, chain |-> <<2, 5>>, fat |-> TRUE, len |-> 0],
      [name |-> <<"a">>, parent |-> 1, is_dir |-> FALSE, chain |-> <<4, 3>>, fat |-> TRUE,
       len |-> cs + cs \div 2],
      [name |-> <<"d">>, parent |-> 1, is_dir |-> TRUE, chain |-> <<6, 7>>, fat |-> FALSE, len |-> 2 * cs],
      [name |-> <<"b", "c">>, parent |-> 3, is_dir |-> FALSE, chain |-> <<8, 9>>, fat |-> FALSE,
       len |-> 2 * cs],
      [name |-> <<"s">>, parent |-> 3, is_dir |-> TRUE, chain |-> <<10>>, fat |-> TRUE, len |-> cs],
      [name |-> <<"a">>, parent |-> 5, is_dir |-> FALSE, chain |-> <<11>>, fat |-> TRUE, len |-> cs \div 2],
      [name |-> <<"e">>, parent |-> 1, is_dir |-> FALSE, chain |-> <<>>, fat |-> TRUE, len |-> 0]>>

LastClus == 12

EntrySet(n) ==
    <<[type |-> "85", is_dir |-> n.is_dir],
      [type |-> "C0", first |-> IF n.chain = <<>> THEN 0 ELSE n.chain[1], name_len |-> Len(n.name),
       len |-> n.len, use_fat |-> n.fat]>>
        \o [i \in 1 .. Len(n.name) |-> [type |-> "C1", chunk |-> n.name[i]]]

(* The entries of directory d, behind the first one a deleted one.         *)
EntriesOf(t, d) ==
    LET of == [n \in 2 .. Len(t) |-> IF t[n].parent = d THEN EntrySet(t[n]) ELSE <<>>]
    IN  FoldLeft(LAMBDA r, n : r \o of[n] \o (IF n = 2 /\ d = 1 THEN <<[type |-> "05"]>> ELSE <<>>),
                 <<>>, [i \in 1 .. Len(t) - 1 |-> i + 1])

Cell(s, i) == IF i <= Len(s) THEN s[i] ELSE [type |-> "00"]

Vol(spc, epc, lba_beg, fatlba, heap) ==
    LET t == Tree(spc * SECBYTES)
        owner(c) == {n \in DOMAIN t : \E i \in DOMAIN t[n].chain : t[n].chain[i] = c}
        place(n, c) == CHOOSE i \in DOMAIN t[n].chain : t[n].chain[i] = c
    IN  [spc |-> spc, epc |-> epc, lba_beg |-> lba_beg, fatlba |-> fatlba, heap |-> heap,
         root |-> 2, nodes |-> t,
         fat  |-> [c \in 2 .. LastClus |->
                     IF \E n \in owner(c) : t[n].fat
                     THEN LET n == CHOOSE m \in owner(c) : TRUE
                          IN  Cell(t[n].chain \o <<EOC>>, place(n, c) + 1)
                     ELSE 0],
         data |-> [c \in 2 .. LastClus |->
                     [i \in 1 .. epc |->
                        IF \E n \in owner(c) : TRUE
                        THEN LET n == CHOOSE m \in owner(c) : TRUE
                             IN  IF t[n].is_dir
                                 THEN Cell(EntriesOf(t, n), (place(n, c) - 1) * epc + i)
                                 ELSE [type |-> "data"]
                        ELSE [type |-> "00"]]]]

Small == Vol(1, 5, 4, 6, 11)
Large == Vol(4, 5, 4, 6, 12)
volumes == {Small, Large}

paths == [abs : {TRUE}, comps : {<<>>, <<<<"d">>, <<"s">>>>}]
    \cup [abs : {FALSE}, comps : {<<<<"..">>>>, <<<<"A">>>>, <<<<"e">>>>, <<<<"d">>, <<"b", "c">>>>,
            <<<<"d">>, <<"b">>>>, <<<<".">>, <<"d">>, <<"..">>, <<"d">>>>, <<<<"a">>, <<"e">>>>}]

=============================================================================
