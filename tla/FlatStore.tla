-------------------------------- MODULE FlatStore --------------------------------
(* What a mounted volume promises the filesystem above it: an array of bytes.   *)
(* The array here is the whole device as its owner reads it, the inside of the  *)
(* container decrypted and the rest as it is, so that it also says what a write *)
(* must leave alone.                                                            *)
EXTENDS Integers, Sequences

CONSTANT None

VARIABLES flat,     \* the value at every address of the device
          extent,   \* [base, size] of the mounted volume, None before
          ask,      \* the request that is being served, or None
          blocks,   \* the addresses of the blocks it is rounded out to
          answer    \* [ok, data] to the last request

vars == <<flat, extent, ask, answer>>

Init == extent = None /\ ask = None /\ answer = None

Mount == /\ extent = None /\ extent' # None
         /\ UNCHANGED <<flat, ask, answer>>

Ask == /\ extent # None /\ ask = None /\ ask' # None
       /\ UNCHANGED <<flat, extent, answer>>

InRange == ask.off + ask.len <= extent.size

Addr(k) == extent.base + ask.off + k - 1

\* Part of a write in range lands; no other address changes.
Land == /\ ask # None /\ ask.op = "write" /\ InRange
        /\ \A c \in DOMAIN flat :
             flat'[c] # flat[c] => \E k \in 1..ask.len : c = Addr(k) /\ flat'[c] = ask.data[k]
        /\ UNCHANGED <<extent, ask, answer>>

\* A request that succeeds was in range; a write has landed and a read gives what
\* is there.
Succeed == /\ ask # None /\ ask' = None
           /\ ask.len > 0 => InRange /\ \A k \in 1..ask.len : Addr(k) \in DOMAIN flat
           /\ answer'.ok
           /\ \/ /\ ask.op = "write"
                 /\ \A k \in 1..ask.len : flat[Addr(k)] = ask.data[k]
              \/ /\ ask.op = "read"
                 /\ answer'.data = [k \in 1..ask.len |-> flat[Addr(k)]]
           /\ UNCHANGED <<flat, extent>>

\* A request fails.  What a write in range leaves in the blocks around it is not known.
Fail == /\ ask # None /\ ask' = None /\ ~answer'.ok
        /\ \A c \in DOMAIN flat :
             flat'[c] # flat[c] => ask.op = "write" /\ InRange /\ c \in blocks
        /\ UNCHANGED extent

\* Nothing is promised of a volume that has no size.
Unbounded == extent # None /\ extent.size = None

Next == Unbounded \/ Mount \/ Ask \/ Land \/ Succeed \/ Fail

Spec == Init /\ [][Next]_vars
=============================================================================
