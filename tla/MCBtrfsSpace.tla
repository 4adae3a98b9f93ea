---------------------------- MODULE MCBtrfsSpace ----------------------------
(* BtrfsSpace on a small volume: a system, a metadata and a data group; files
   whose items are small, half a leaf and a whole leaf, with and without data,
   one of them in two extents since a copy of the superblock lies between. *)
EXTENDS BtrfsSpace

MCFiles == {10, 20, 30, 50}
MCSize == (10 :> 4) @@ (20 :> 6) @@ (30 :> 3) @@ (50 :> 2)
MCDataLen == (10 :> 1) @@ (20 :> 0) @@ (30 :> 1) @@ (50 :> 3)
MCFirstFiles == <<10, 30, 50>>
MCFirstGroups == << [start |-> 2, len |-> 4, kind |-> "system"],
                    [start |-> 6, len |-> 50, kind |-> "meta"],
                    [start |-> 56, len |-> 6, kind |-> "data"] >>
MCSbAt == {0, 15, 60, 63}
=============================================================================
