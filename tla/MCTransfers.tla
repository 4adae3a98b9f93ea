----------------------------- MODULE MCTransfers -----------------------------
(* One transfer of any kind beside one document, with a reset between the       *)
(* holders of the mutex; and two documents alone, where a callback waits on the *)
(* handler thread for a mutex which only another callback can give back.        *)
EXTENDS Transfers
=============================================================================
