---------------------------- MODULE MCLuksSession ----------------------------
(* LuksSession with two leases, an open, a lock() from the UI and one from the *)
(* idle timer; a second opener and a second device for the instances that need *)
(* them.                                                                       *)
EXTENDS LuksSession, TLC

CONSTANTS c1, c2, o1, o2, ui, idle, v1, v2, d1, d2

Symmetry == Permutations(Clients) \cup Permutations(Openers)
            \cup Permutations(Vols) \cup Permutations(Devs)
=============================================================================
