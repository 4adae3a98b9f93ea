---------------------------- MODULE UsbTransport ----------------------------
(***************************************************************************)
(* UsbFsTransport (usbfs/src/lib.rs): a bulk transfer split into URBs that   *)
(* live in the slots of an arena, submitted to the kernel, reaped in any     *)
(* order, scored by position, drained after an error, and retried at half    *)
(* the size.  Buffers are counted in units; a URB carries up to Chunk units. *)
(*                                                                         *)
(* Generations are only ever compared with the current round's, so a slot's  *)
(* generation is kept as membership in mine (this round), and completed as   *)
(* the number of this round's submitted slots that are reaped.               *)
(***************************************************************************)
EXTENDS Integers, FiniteSets, Sequences, Functions

CONSTANTS
  NSlots,    \* MAX_URB_SLOTS
  Chunk,     \* CHUNK_SIZE
  MinLimit,  \* MIN_MAX_TRANSFER
  StartLimit,\* DEFAULT_MAX_TRANSFER
  MaxLen,    \* bound on the caller's buffer
  MaxCalls   \* bound on bulk calls

ASSUME TransportAssumption ==
  /\ NSlots \in Nat \ {0} /\ Chunk \in Nat \ {0} /\ MinLimit \in Nat \ {0}
  /\ StartLimit \in Nat /\ StartLimit >= MinLimit
  /\ MaxLen \in Nat /\ MaxCalls \in Nat

Slots == 1..NSlots
Endpoints == {"in", "out"}

\* EINVAL and ENOMEM; ETIMEDOUT; EPIPE and the other completion errors; ENODEV,
\* EBADF and ESHUTDOWN.
Errnos == {"shrink", "timeout", "stall", "gone"}
\* What a completed URB carries.  discarded is ENOENT or ECONNRESET.
Statuses == {"ok", "stall", "gone", "discarded"}

VARIABLES
  state,         \* TransportState
  max_transfer,
  in_use, submitted, reaped, \* the flags of UrbSlot
  mine,          \* slots of the current generation
  index, off, len, ep,       \* per slot: position, buffer offset, length, endpoint
  pending, discarding, done, \* URBs the kernel holds: queued, asked back, reapable
  status, actual,
  halted,        \* endpoints stalled
  unplugged,
  pc, dir, buflen,           \* the running call
  outcomes, err,
  result,        \* what the last call returned: the units moved, or -1 for an error
  calls,
  moved,         \* history: buffer offsets in the order the device moved them
  older,         \* history: slots holding URBs of an earlier call
  deaths         \* history: times Dead was latched

arena  == <<in_use, submitted, reaped, mine, index, off, len, ep>>
kernel == <<pending, discarding, done, status, actual, halted, unplugged>>
call   == <<pc, dir, buflen, outcomes, err, result, calls>>
hist   == <<moved, older, deaths>>
vars   == <<state, max_transfer, arena, kernel, call, hist>>

Unreaped == (mine \cap submitted) \ reaped
None == -1

TypeOK ==
  /\ state \in {"Healthy", "Draining", "Dead"}
  /\ max_transfer \in MinLimit..StartLimit
  /\ in_use \subseteq Slots /\ submitted \subseteq Slots /\ reaped \subseteq Slots
  /\ mine \subseteq Slots
  /\ index \in [Slots -> Nat] /\ off \in [Slots -> Nat] /\ len \in [Slots -> Nat]
  /\ ep \in [Slots -> Endpoints]
  /\ pending \subseteq Slots /\ discarding \subseteq Slots /\ done \subseteq Slots
  /\ status \in [Slots -> Statuses] /\ actual \in [Slots -> Nat]
  /\ halted \subseteq Endpoints /\ unplugged \in BOOLEAN
  /\ pc \in {"idle", "round", "submit", "reap", "drain", "draining", "score"}
  /\ dir \in Endpoints /\ buflen \in Nat
  /\ outcomes \in [0..NSlots - 1 -> Int]
  /\ err \in Errnos \cup {"none"}
  /\ result \in Int /\ calls \in Nat
  /\ moved \in Seq(Nat) /\ older \subseteq Slots /\ deaths \in Nat

Init ==
  /\ state = "Healthy" /\ max_transfer = StartLimit
  /\ in_use = {} /\ submitted = {} /\ reaped = {} /\ mine = {}
  /\ index = [s \in Slots |-> 0] /\ off = [s \in Slots |-> 0]
  /\ len = [s \in Slots |-> 0] /\ ep = [s \in Slots |-> "out"]
  /\ pending = {} /\ discarding = {} /\ done = {}
  /\ status = [s \in Slots |-> "ok"] /\ actual = [s \in Slots |-> 0]
  /\ halted = {} /\ unplugged = FALSE
  /\ pc = "idle" /\ dir = "out" /\ buflen = 0
  /\ outcomes = [i \in 0..NSlots - 1 |-> None] /\ err = "none"
  /\ result = 0 /\ calls = 0
  /\ moved = <<>> /\ older = {} /\ deaths = 0

-----------------------------------------------------------------------------
(* The device and the kernel (external).                                    *)

\* URBs of one transfer are served in the order they were submitted.
Served(s) ==
  /\ s \in pending /\ ep[s] \notin halted
  /\ \A t \in (pending \cap mine) : s \in mine /\ ep[t] = ep[s] => index[s] <= index[t]

\* The device moves n units of s.
Moves(s, n) ==
  moved' = IF s \in older THEN moved ELSE moved \o [i \in 1..n |-> off[s] + i]

CompletesAs(s, st, n) ==
  /\ pending' = pending \ {s} /\ discarding' = discarding \ {s}
  /\ done' = done \cup {s}
  /\ status' = [status EXCEPT ![s] = st]
  /\ actual' = [actual EXCEPT ![s] = n]
  /\ Moves(s, n)
  /\ UNCHANGED <<state, max_transfer, arena, call, older, deaths, unplugged>>

\* An OUT URB succeeds whole; an IN URB ends early when the device has less.
DeviceServes(s) ==
  /\ Served(s) /\ ~unplugged
  /\ \E n \in 0..len[s] : /\ ep[s] = "out" => n = len[s]
                          /\ CompletesAs(s, "ok", n)
  /\ UNCHANGED halted

\* A stall halts the endpoint; after another error the URBs behind go on.
DeviceFails(s) ==
  /\ Served(s) /\ ~unplugged
  /\ \E n \in 0..len[s] : CompletesAs(s, "stall", n)
  /\ halted' \in {halted, halted \cup {ep[s]}}

\* DISCARDURB takes effect, possibly after part of the URB was moved.
KernelUnlinks(s) ==
  /\ s \in discarding
  /\ \E n \in 0..len[s] : CompletesAs(s, "discarded", n)
  /\ UNCHANGED halted

Unplug ==
  /\ ~unplugged
  /\ unplugged' = TRUE
  /\ done' = done \cup pending
  /\ status' = [s \in Slots |-> IF s \in pending THEN "gone" ELSE status[s]]
  /\ actual' = [s \in Slots |-> IF s \in pending THEN 0 ELSE actual[s]]
  /\ pending' = {} /\ discarding' = {}
  /\ UNCHANGED <<state, max_transfer, arena, halted, call, hist>>

-----------------------------------------------------------------------------
(* bulk_out and bulk_in, by the one thread that holds the device.           *)

Return(r) == pc' = "idle" /\ result' = r

\* A dead transport refuses at once; an empty buffer is not worth a call here.
StartCall(d, n) ==
  /\ pc = "idle" /\ calls < MaxCalls
  /\ calls' = calls + 1 /\ dir' = d /\ buflen' = n
  /\ moved' = <<>> /\ older' = in_use
  /\ IF state = "Dead" THEN Return(-1) ELSE pc' = "round" /\ UNCHANGED result
  /\ UNCHANGED <<state, max_transfer, arena, kernel, outcomes, err, deaths>>

Attempted == IF buflen < max_transfer THEN buflen ELSE max_transfer
NumUrbs == (Attempted + Chunk - 1) \div Chunk

\* UrbArena::allocate takes the lowest free slots, in order.
Free == Slots \ in_use
Rank(s) == Cardinality({t \in Free : t < s})
Allocated == {s \in Free : Rank(s) < NumUrbs}

\* Splitting the buffer and allocating: all slots or none.  A failed allocation has
\* reset the flags of every free slot.
StartRound ==
  /\ pc = "round"
  /\ outcomes' = [i \in 0..NSlots - 1 |-> None] /\ err' = "none"
  /\ IF Cardinality(Free) < NumUrbs
     THEN /\ mine' = {}
          /\ Return(-1)
          /\ submitted' = submitted \ Free /\ reaped' = reaped \ Free
          /\ UNCHANGED <<in_use, index, off, len, ep, older>>
     ELSE /\ mine' = Allocated
          /\ in_use' = in_use \cup Allocated
          /\ submitted' = submitted \ Allocated /\ reaped' = reaped \ Allocated
          /\ index' = [s \in Slots |-> IF s \in Allocated THEN Rank(s) ELSE index[s]]
          /\ off' = [s \in Slots |-> IF s \in Allocated THEN Rank(s) * Chunk ELSE off[s]]
          /\ len' = [s \in Slots |-> IF s \in Allocated
                                     THEN IF Rank(s) = NumUrbs - 1
                                          THEN Attempted - Rank(s) * Chunk ELSE Chunk
                                     ELSE len[s]]
          /\ ep' = [s \in Slots |-> IF s \in Allocated THEN dir ELSE ep[s]]
          /\ older' = older \ Allocated
          /\ pc' = "submit" /\ UNCHANGED result
  /\ UNCHANGED <<state, max_transfer, kernel, dir, buflen, calls, moved, deaths>>

NextToSubmit(s) ==
  /\ s \in mine \ submitted
  /\ \A t \in mine \ submitted : index[s] <= index[t]

Submit(s) ==
  /\ pc = "submit" /\ ~unplugged /\ NextToSubmit(s)
  /\ submitted' = submitted \cup {s}
  /\ pending' = pending \cup {s}
  /\ pc' = IF mine \subseteq submitted' THEN "reap" ELSE "submit"
  /\ UNCHANGED <<state, max_transfer, in_use, reaped, mine, index, off, len, ep,
                 discarding, done, status, actual, halted, unplugged, dir, buflen,
                 outcomes, err, result, calls, hist>>

\* Fault: the slots that were never submitted stay allocated.
SubmitFails_KeepsSlots ==
  /\ pc = "submit"
  /\ \E e \in {"shrink", "gone"} : (e = "gone" <=> unplugged) /\ err' = e
  /\ mine' = mine \cap submitted
  /\ pc' = IF mine \cap submitted = {} THEN "score" ELSE "drain"
  /\ UNCHANGED <<state, max_transfer, in_use, submitted, reaped, index, off, len, ep,
                 kernel, dir, buflen, outcomes, result, calls, hist>>

\* The kernel refuses a URB: nothing is reaped, the rest of the slots are freed.
SubmitFails ==
  /\ pc = "submit"
  /\ \E e \in {"shrink", "gone"} : (e = "gone" <=> unplugged) /\ err' = e
  /\ in_use' = in_use \ (mine \ submitted)
  /\ mine' = mine \cap submitted
  /\ pc' = IF mine \cap submitted = {} THEN "score" ELSE "drain"
  /\ UNCHANGED <<state, max_transfer, submitted, reaped, index, off, len, ep, kernel,
                 dir, buflen, outcomes, result, calls, hist>>

\* A reaped URB of this round is counted once; one of an older round only gives
\* its slot back.
TakeReaped(s) ==
  /\ s \in done
  /\ done' = done \ {s}
  /\ in_use' = in_use \ {s}
  /\ reaped' = IF s \in Unreaped THEN reaped \cup {s} ELSE reaped

\* An error, or a short read, asks the other URBs of the round back.
Reap(s) ==
  /\ pc = "reap" /\ Unreaped # {}
  /\ TakeReaped(s)
  /\ LET counted == s \in Unreaped
         failed  == counted /\ status[s] \in {"stall", "gone"} /\ err = "none"
         short   == counted /\ status[s] = "ok" /\ dir = "in" /\ actual[s] < len[s]
     IN  /\ err' = IF failed THEN status[s] ELSE err
         /\ outcomes' = IF counted /\ status[s] = "ok"
                        THEN [outcomes EXCEPT ![index[s]] = actual[s]] ELSE outcomes
         /\ discarding' = IF failed \/ short
                          THEN discarding \cup (pending \cap mine) ELSE discarding
  /\ UNCHANGED <<state, max_transfer, submitted, mine, index, off, len, ep, pending,
                 status, actual, halted, unplugged, pc, dir, buflen, result, calls,
                 hist>>

\* poll times out, or the descriptor is gone and has nothing left to give.
ReapFails ==
  /\ pc = "reap" /\ Unreaped # {} /\ done = {}
  /\ LET e == IF unplugged THEN "gone" ELSE "timeout"
     IN  err' = IF err = "none" THEN e ELSE err
  /\ pc' = "drain"
  /\ UNCHANGED <<state, max_transfer, arena, kernel, dir, buflen, outcomes, result,
                 calls, hist>>

Reaped ==
  /\ pc = "reap" /\ Unreaped = {}
  /\ pc' = "score"
  /\ UNCHANGED <<state, max_transfer, arena, kernel, dir, buflen, outcomes, err,
                 result, calls, hist>>

-----------------------------------------------------------------------------
(* drain_unreaped.                                                          *)

StartDrain ==
  /\ pc = "drain"
  /\ IF Unreaped = {}
     THEN /\ pc' = "score"
          /\ UNCHANGED <<state, discarding>>
     ELSE /\ pc' = "draining"
          /\ state' = "Draining"
          /\ discarding' = discarding \cup (pending \cap mine)
  /\ UNCHANGED <<max_transfer, arena, pending, done, status, actual, halted, unplugged,
                 dir, buflen, outcomes, err, result, calls, hist>>

DrainReap(s) ==
  /\ pc = "draining" /\ Unreaped # {}
  /\ TakeReaped(s)
  /\ UNCHANGED <<state, max_transfer, submitted, mine, index, off, len, ep, pending,
                 discarding, status, actual, halted, unplugged, call, hist>>

\* Fault: slots the kernel never gave back are freed with the transfer.
DrainEnds_FreesSlots ==
  /\ pc = "draining"
  /\ IF Unreaped = {} THEN state' = "Healthy" /\ UNCHANGED deaths
                      ELSE state' = "Dead" /\ deaths' = 1
  /\ in_use' = in_use \ mine
  /\ pc' = "score"
  /\ UNCHANGED <<max_transfer, submitted, reaped, mine, index, off, len, ep, kernel,
                 dir, buflen, outcomes, err, result, calls, moved, older>>

\* Every URB is back, or the deadline passed or the descriptor is gone.
DrainEnds ==
  /\ pc = "draining"
  /\ IF Unreaped = {} THEN state' = "Healthy" /\ UNCHANGED deaths
                      ELSE state' = "Dead" /\ deaths' = 1
  /\ pc' = "score"
  /\ UNCHANGED <<max_transfer, arena, kernel, dir, buflen, outcomes, err, result,
                 calls, moved, older>>

-----------------------------------------------------------------------------
(* Scoring and the retry.                                                   *)

\* Fault: every successful URB counts, also past a gap.
contiguous_prefix_AnyUrb(os) ==
  LET rest[i \in 0..NSlots] ==
        IF i = NSlots THEN 0 ELSE (IF os[i] = None THEN 0 ELSE os[i]) + rest[i + 1]
  IN  rest[0]

\* The units of the URBs before the first one that has no outcome: rest[i] is what the
\* loop adds from the i-th URB on.
contiguous_prefix(os) ==
  LET rest[i \in 0..NSlots] == IF i = NSlots \/ os[i] = None THEN 0 ELSE os[i] + rest[i + 1]
  IN  rest[0]

Halved == IF max_transfer \div 2 > MinLimit THEN max_transfer \div 2 ELSE MinLimit

\* Fault: the smallest size is tried again as well.
Score_RetriesAtMinimum ==
  /\ pc = "score"
  /\ LET prefix == contiguous_prefix(outcomes)
     IN  IF err = "shrink" /\ prefix = 0
         THEN pc' = "round" /\ UNCHANGED result
         ELSE Return(IF err = "none" \/ prefix > 0 THEN prefix ELSE -1)
  /\ max_transfer' = IF err \in {"shrink", "timeout"} THEN Halved ELSE max_transfer
  /\ UNCHANGED <<state, arena, kernel, dir, buflen, outcomes, err, calls, hist>>

Score ==
  /\ pc = "score"
  /\ LET prefix == contiguous_prefix(outcomes)
         shrinks == err \in {"shrink", "timeout"} /\ max_transfer > MinLimit
     IN  /\ max_transfer' = IF shrinks THEN Halved ELSE max_transfer
         /\ IF shrinks /\ err = "shrink" /\ prefix = 0
            THEN pc' = "round" /\ UNCHANGED result
            ELSE Return(IF err = "none" \/ prefix > 0 THEN prefix ELSE -1)
  /\ UNCHANGED <<state, arena, kernel, dir, buflen, outcomes, err, calls, hist>>

-----------------------------------------------------------------------------
(* clear_halt and reset, between transfers.                                 *)

clear_halt(e) ==
  /\ pc = "idle" /\ state # "Dead" /\ ~unplugged
  /\ halted' = halted \ {e}
  /\ UNCHANGED <<state, max_transfer, arena, pending, discarding, done, status, actual,
                 unplugged, call, hist>>

\* The class request, then both endpoints; it stops at the first that fails.
reset ==
  /\ pc = "idle" /\ state # "Dead" /\ ~unplugged
  /\ halted' \in {halted \ {"in"}, {}}
  /\ UNCHANGED <<state, max_transfer, arena, pending, discarding, done, status, actual,
                 unplugged, call, hist>>

HostStep ==
  \/ StartRound \/ SubmitFails \/ ReapFails \/ Reaped \/ StartDrain \/ DrainEnds \/ Score
  \/ \E s \in Slots : Submit(s) \/ Reap(s) \/ DrainReap(s)

Next ==
  \/ HostStep
  \/ \E d \in Endpoints, n \in 1..MaxLen : StartCall(d, n)
  \/ \E s \in Slots : DeviceServes(s) \/ DeviceFails(s) \/ KernelUnlinks(s)
  \/ Unplug \/ reset \/ \E e \in Endpoints : clear_halt(e)

Spec == Init /\ [][Next]_vars

\* The calling thread keeps running: poll and the drain loop have deadlines.
\* Nothing is assumed of the device.
FairSpec == Spec /\ WF_vars(HostStep)

-----------------------------------------------------------------------------
(* Properties.                                                              *)

\* A slot whose URB the kernel holds, queued or not yet reaped, is in use: allocate
\* never hands its memory to another transfer, whatever was lost or discarded.
KernelHoldsItsSlots == pending \cup done \subseteq (in_use \cap submitted) \ reaped

\* As long as no drain has failed, a finished call leaves nothing behind: no slot
\* allocated, no URB in the kernel, the state Healthy.
FinishedCallIsClean ==
  pc = "idle" /\ deaths = 0 => in_use = {} /\ pending \cup done = {} /\ state = "Healthy"

\* What a write reports as moved was moved: a gap stops the count even when later
\* URBs succeeded, and a drained URB is not counted.
ReportedWasMoved ==
  /\ TypeOK
  /\ pc = "idle" /\ dir = "out" => 1..result \subseteq Range(moved)

\* Every bulk call returns, against any kernel and device: polls and drains have
\* deadlines, and each retry halves the limit down to its minimum.
CallReturns == pc # "idle" ~> pc = "idle"

\* "Permanently latch Dead."
DeadIsPermanent == [][state = "Dead" => state' = "Dead"]_vars

=============================================================================
