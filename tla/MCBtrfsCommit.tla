---------------------------- MODULE MCBtrfsCommit ----------------------------
(* Small instances of BtrfsCommit. *)
EXTENDS BtrfsCommit, TLC

CONSTANTS b1, b2, b3

MCBlocks == {b1, b2, b3}
MCFirstTree == {b1}
FreeBlocksAreAlike == Permutations({b2, b3})
===============================================================================
