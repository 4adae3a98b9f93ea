----------------------------- MODULE MCScsiBot -----------------------------
(* Instances of ScsiBot for TLC: the cfg files give the sizes.               *)
EXTENDS ScsiBot

\* With blocks of two units on a drive of four: a range across the block boundary,
\* half a block, one block, nothing, and a range past the end.
MCRequests == {<<1, 2>>, <<1, 1>>, <<2, 2>>, <<0, 0>>, <<3, 2>>}
=============================================================================
