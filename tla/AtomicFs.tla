------------------------------- MODULE AtomicFs -------------------------------
(***************************************************************************)
(* What a filesystem that commits by transactions promises its user: the   *)
(* drive always holds the result of a sequence of whole transactions, that *)
(* sequence only grows, one transaction at a time, and a transaction whose *)
(* commit has returned is in it for good.  Nothing is promised while the   *)
(* filesystem is astray, mounted as it was before its last transactions.   *)
(* BtrfsCommit implements this.                                            *)
(***************************************************************************)
EXTENDS Naturals, Sequences

VARIABLES
  durable,  \* the transactions a mount after a power loss would find
  acked,    \* the transactions the drive held when a commit last returned
  astray    \* a mount passed over the newest state

Init == durable = << >> /\ acked = << >> /\ astray = FALSE

Grows == \/ durable' = durable
         \/ /\ Len(durable') = Len(durable) + 1
            /\ \A i \in 1 .. Len(durable) : durable'[i] = durable[i]

Land == Grows /\ UNCHANGED acked

Ack == Grows /\ acked' = durable'

Next == astray \/ Land \/ Ack

Spec == Init /\ [][Next]_<<durable, acked, astray>>
===============================================================================
