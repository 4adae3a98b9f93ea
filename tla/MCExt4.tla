------------------------------- MODULE MCExt4 ------------------------------
(* Two groups: the second has bitmaps no one has written, or holds a directory
   with a second name of the file. *)
EXTENDS Ext4, TLC

MCbitmaps == [g \in {0, 1} |-> [bb |-> 2 + 3 * g, ib |-> 3 + 3 * g, it |-> 4 + 3 * g]]
MCrecord_len == [n \in {".", "..", "a", "b", "L"} |-> IF n = "L" THEN 4 ELSE 3]

Desc(fb, fi, dirs, unused, bb, ib) ==
    [fb |-> fb, fi |-> fi, dirs |-> dirs, unused |-> unused,
     uninit |-> [bb |-> bb = {}, ib |-> ib = {}], csum |-> [bb |-> bb, ib |-> ib]]

Units ==
    {<<k, g>> : k \in {"bb", "ib", "gd"}, g \in {0, 1}} \cup {<<"sb", 0>>}
    \cup {<<"ino", i>> : i \in 1..6} \cup {<<"blk", b>> : b \in 0..17}

Directory(links, runs, blocks) == [k |-> "dir", size |-> 2 * blocks, links |-> links, runs |-> runs, leaf |-> 0]
RegularFile(links, runs, size) == [k |-> "file", size |-> size, links |-> links, runs |-> runs, leaf |-> 0]
Run(p, n) == << [p |-> p, n |-> n] >>

Filled(bb1, ib1, d1, links, rootLinks, inode4, inode5, dir, root1, root2) ==
    [u \in Units |->
        CASE u = <<"bb", 0>> -> 0..10
          [] u = <<"ib", 0>> -> 0..2
          [] u = <<"gd", 0>> -> Desc(1, 0, 1, 0, 0..10, 0..2)
          [] u = <<"bb", 1>> -> bb1
          [] u = <<"ib", 1>> -> ib1
          [] u = <<"gd", 1>> -> d1
          [] u = <<"sb", 0>> -> [fb |-> 1 + d1.fb, fi |-> d1.fi]
          [] u = <<"ino", 2>> -> Directory(rootLinks, Run(8, 2), 2)
          [] u = <<"ino", 3>> -> RegularFile(links, Run(10, 1), 2)
          [] u = <<"ino", 4>> -> inode4
          [] u = <<"ino", 5>> -> inode5
          [] u = <<"blk", 8>> -> Dirents(<< Dirent(2, ".", 3), Dirent(2, "..", 3), root1 >>)
          [] u = <<"blk", 9>> -> Dirents(<< root2 >>)
          [] u = <<"blk", 10>> -> Data(<< 1, 2 >>)
          [] u = <<"blk", 14>> -> dir
          [] u[1] = "ino" -> Blank
          [] OTHER -> Data(<< 0, 0 >>)]

(* One file, "a"; the second group has never been used. *)
Fresh ==
    Filled({}, {}, Desc(4, 3, 0, 3, {}, {}), 1, 2, Blank, Blank, Data(<< 0, 0 >>),
           Dirent(3, "a", 6), Dirent(0, "a", 12))

(* A full directory "b" with an empty file "b/b" and a second name of "a". *)
Linked ==
    Filled(0..2 \cup 6..11, {0, 1}, Desc(3, 1, 1, 1, 0..2 \cup 6..11, {0, 1}), 2, 3,
           Directory(2, Run(14, 1), 1), RegularFile(1, << >>, 0),
           Dirents(<< Dirent(4, ".", 3), Dirent(2, "..", 3), Dirent(5, "b", 3), Dirent(3, "a", 3) >>),
           Dirent(4, "b", 6), Dirent(3, "a", 12))

SlotSymmetry == Permutations(Slots)
MCVolumes == {Fresh, Linked}
MCParents == {<< >>, <<"b">>}
=============================================================================
