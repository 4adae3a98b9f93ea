--------------------------- MODULE SessionProofs ---------------------------
(***************************************************************************)
(* Proofs about the two halves of a session: VolumeSession, the Rust        *)
(* handles, for any number of threads, volumes, writer handles and calls,   *)
(* and LuksSession (K), the Kotlin controller, for any number of leases,    *)
(* openers, lock() calls and devices.                                       *)
(*                                                                         *)
(* Shape ties a call's place to its arguments.  Guarded says what a thread *)
(* between fs_for_writing and the end of the body knows: it is the lock    *)
(* holder, the volume is neither fenced nor poisoned, and consent is there.*)
(* Claimed says that a live writer handle, an active batch and a claiming  *)
(* call past claim_writer all imply the device's write claim; it is what   *)
(* makes the entry points that never call claim_writer safe.  HandleInv and *)
(* CountInv are explained where K begins.                                   *)
(***************************************************************************)
EXTENDS VolumeSession, FiniteSetTheorems, TLAPS

CallShape ==
  \A t \in Threads :
    /\ pc[t] = "idle" <=> vol[t] = None
    /\ pc[t] = "idle" => op[t] = "none"
    /\ vol[t] # None => vol[t] \in opened
    /\ pc[t] \in {"gate", "lock", "claim", "body", "fencing"} => op[t] \in WriteOps
    /\ pc[t] = "claim" => op[t] \in ClaimOps
    /\ pc[t] = "slot" => op[t] \in SlotOps
    /\ pc[t] \in {"read", "reread"} => op[t] \in ReadOps
    /\ pc[t] = "fencing" => res[t] = "transport"
    /\ op[t] \in SlotOps => /\ wr[t] \in Writers
                            /\ slot[wr[t]] # "free"
                            /\ writer_vol[wr[t]] = vol[t]

WriterShape ==
  /\ \A w \in Writers : slot[w] # "free" => writer_vol[w] \in opened
  /\ \A w \in writers : slot[w] # "free"
  /\ batch \subseteq opened

Shape == TypeOK /\ CallShape /\ WriterShape

Guarded ==
  /\ \A t \in Threads :
       /\ pc[t] \in {"claim", "body"} => /\ fs_lock[vol[t]] = t
                                         /\ vol[t] \notin fence \cup poisoned
       /\ pc[t] \in {"lock", "claim", "body"} => vol[t] \in Encrypted \cup armed
  /\ FencedHasNoBatch

Claimed ==
  /\ ExclusiveWriter
  /\ \A t \in Threads :
       /\ pc[t] = "body" /\ op[t] \in ClaimOps => vol[t] \in holds
       /\ pc[t] = "done" /\ op[t] = "begin" /\ res[t] = "ok" => vol[t] \in holds
  /\ \A w \in Writers :
       slot[w] # "free" /\ Alive(writer_vol[w]) => writer_vol[w] \in holds
  /\ \A v \in batch : Alive(v) => v \in holds

IInv == Shape /\ Guarded /\ Claimed

-----------------------------------------------------------------------------
(* Shape is inductive.                                                      *)

\* Initially nothing is mounted and every thread is outside the library.
LEMMA InitIInv == Init => IInv
  BY ConstantsAssumption
  DEF Init, IInv, Shape, TypeOK, CallShape, WriterShape, Guarded, Claimed,
      FencedHasNoBatch, ExclusiveWriter, Alive, Referenced, PCs, Results,
      WriteOps, ReadOps, ClaimOps, SlotOps

\* Every step of every call keeps a call's place and arguments consistent.
LEMMA ShapeStep == Shape /\ [Next]_vars => Shape'
<1> USE ConstantsAssumption DEF Shape, TypeOK, CallShape, WriterShape, PCs, Results,
      WriteOps, ReadOps, ClaimOps, SlotOps, latches, fsvars, writevars, thread, ghosts
<1> SUFFICES ASSUME Shape, [Next]_vars PROVE Shape'
  BY Zenon
<1>1. ASSUME NEW v \in Vols, OpenVolume(v) PROVE Shape'
  BY <1>1 DEF OpenVolume
<1>2. ASSUME NEW v \in Vols, ArmPlainWrites(v) PROVE Shape'
  BY <1>2 DEF ArmPlainWrites
<1>3. ASSUME NEW v \in Vols, CloseVolume(v) PROVE Shape'
  BY <1>3 DEF CloseVolume, DropVolume
<1>4. ASSUME NEW t \in Threads, NEW o \in WriteOps \cup ReadOps, NEW v \in Vols,
             NEW w \in Writers \cup {None}, Enter(t, o, v, w) PROVE Shape'
  BY <1>4 DEF Enter, FirstStep
<1>5. ASSUME NEW t \in Threads, LockSlot(t) PROVE Shape'
  BY <1>5 DEF LockSlot, Outcome, Goto
<1>6. ASSUME NEW t \in Threads, Gate(t) PROVE Shape'
  BY <1>6 DEF Gate, Outcome, Goto
<1>7. ASSUME NEW t \in Threads, LockFs(t) PROVE Shape'
  BY <1>7 DEF LockFs, Outcome, Goto
<1>8. ASSUME NEW t \in Threads, ClaimWriter(t) PROVE Shape'
  BY <1>8 DEF ClaimWriter, Outcome, Goto
<1>9. ASSUME NEW t \in Threads, Body(t) PROVE Shape'
  BY <1>9 DEF Body, Outcome, Unlock,
      BusyWithOwnWriter, BatchMayStay, BatchMayGo, OpenWriterAfter, WriteReaches,
      BodyResults
<1>10. ASSUME NEW t \in Threads, FenceWrites(t) PROVE Shape'
  BY <1>10 DEF FenceWrites, Goto
<1>11. ASSUME NEW t \in Threads, Read(t) PROVE Shape'
  BY <1>11 DEF Read, Outcome, Goto
<1>12. ASSUME NEW t \in Threads, ReRead(t) PROVE Shape'
  BY <1>12 DEF ReRead, Outcome
<1>13. ASSUME NEW t \in Threads, Return(t) PROVE Shape'
  BY <1>13 DEF Return, DropVolume
<1>14. CASE UNCHANGED vars
  BY Zenon, <1>14 DEF vars
<1>15. QED
  BY Zenon, <1>1, <1>2, <1>3, <1>4, <1>5, <1>6, <1>7, <1>8, <1>9,
     <1>10, <1>11, <1>12, <1>13, <1>14 DEF Next, Step

-----------------------------------------------------------------------------
(* Guarded is inductive.                                                    *)

\* The fs lock, the two fence checks and the poison check together keep what a
\* writing thread relies on true until it leaves the body.
LEMMA GuardedStep == IInv /\ [Next]_vars => Guarded'
<1> USE ConstantsAssumption DEF IInv, Shape, TypeOK, CallShape, WriterShape, Guarded, FencedHasNoBatch,
      PCs, WriteOps, ReadOps, ClaimOps, SlotOps,
      latches, fsvars, writevars, thread, ghosts
<1> SUFFICES ASSUME IInv, [Next]_vars PROVE Guarded'
  BY Zenon
<1>1. ASSUME NEW v \in Vols, OpenVolume(v) PROVE Guarded'
  BY Zenon, <1>1 DEF OpenVolume
<1>2. ASSUME NEW v \in Vols, ArmPlainWrites(v) PROVE Guarded'
  BY Zenon, <1>2 DEF ArmPlainWrites
<1>3. ASSUME NEW v \in Vols, CloseVolume(v) PROVE Guarded'
  BY Zenon, <1>3 DEF CloseVolume, DropVolume
<1>4. ASSUME NEW t \in Threads, NEW o \in WriteOps \cup ReadOps, NEW v \in Vols,
             NEW w \in Writers \cup {None}, Enter(t, o, v, w) PROVE Guarded'
  BY <1>4 DEF Enter, FirstStep
<1>5. ASSUME NEW t \in Threads, LockSlot(t) PROVE Guarded'
  BY <1>5 DEF LockSlot, Outcome, Goto
<1>6. ASSUME NEW t \in Threads, Gate(t) PROVE Guarded'
  BY <1>6 DEF Gate, Outcome, Goto
<1>7. ASSUME NEW t \in Threads, LockFs(t) PROVE Guarded'
  BY <1>7 DEF LockFs, Outcome, Goto
<1>8. ASSUME NEW t \in Threads, ClaimWriter(t) PROVE Guarded'
  BY <1>8 DEF ClaimWriter, Outcome, Goto
<1>9. ASSUME NEW t \in Threads, Body(t) PROVE Guarded'
  BY <1>9 DEF Body, Outcome, Unlock,
      BusyWithOwnWriter, BatchMayStay, BatchMayGo, BodyResults
<1>10. ASSUME NEW t \in Threads, FenceWrites(t) PROVE Guarded'
  BY <1>10 DEF FenceWrites, Goto
<1>11. ASSUME NEW t \in Threads, Read(t) PROVE Guarded'
  BY <1>11 DEF Read, Outcome, Goto
<1>12. ASSUME NEW t \in Threads, ReRead(t) PROVE Guarded'
  BY <1>12 DEF ReRead, Outcome
<1>13. ASSUME NEW t \in Threads, Return(t) PROVE Guarded'
  BY <1>13 DEF Return, DropVolume
<1>14. CASE UNCHANGED vars
  BY Zenon, <1>14 DEF vars
<1>15. QED
  BY Zenon, <1>1, <1>2, <1>3, <1>4, <1>5, <1>6, <1>7, <1>8, <1>9,
     <1>10, <1>11, <1>12, <1>13, <1>14 DEF Next, Step

-----------------------------------------------------------------------------
(* Claimed is inductive.                                                    *)

\* No step lets a writer handle or a batch outlive its volume's claim.
LEMMA ClaimedStep == IInv /\ [Next]_vars => Claimed'
<1> USE ConstantsAssumption DEF IInv, Shape, TypeOK, CallShape, WriterShape, Guarded, FencedHasNoBatch,
      Claimed, ExclusiveWriter, Alive, Referenced,
      PCs, WriteOps, ReadOps, ClaimOps, SlotOps,
      latches, fsvars, writevars, thread, ghosts
<1> SUFFICES ASSUME IInv, [Next]_vars PROVE Claimed'
  BY Zenon
<1>1. ASSUME NEW v \in Vols, OpenVolume(v) PROVE Claimed'
  BY <1>1 DEF OpenVolume
<1>2. ASSUME NEW v \in Vols, ArmPlainWrites(v) PROVE Claimed'
  BY Zenon, <1>2 DEF ArmPlainWrites
<1>3. ASSUME NEW v \in Vols, CloseVolume(v) PROVE Claimed'
  BY <1>3 DEF CloseVolume, DropVolume
<1>4. ASSUME NEW t \in Threads, NEW o \in WriteOps \cup ReadOps, NEW v \in Vols,
             NEW w \in Writers \cup {None}, Enter(t, o, v, w) PROVE Claimed'
  BY <1>4 DEF Enter, FirstStep
<1>5. ASSUME NEW t \in Threads, LockSlot(t) PROVE Claimed'
  BY <1>5 DEF LockSlot, Outcome, Goto
<1>6. ASSUME NEW t \in Threads, Gate(t) PROVE Claimed'
  BY <1>6 DEF Gate, Outcome, Goto
<1>7. ASSUME NEW t \in Threads, LockFs(t) PROVE Claimed'
  BY <1>7 DEF LockFs, Outcome, Goto
<1>8. ASSUME NEW t \in Threads, ClaimWriter(t) PROVE Claimed'
  BY <1>8 DEF ClaimWriter, Outcome, Goto
<1>9. ASSUME NEW t \in Threads, Body(t) PROVE Claimed'
  BY <1>9 DEF Body, Outcome, Unlock,
      BusyWithOwnWriter, BatchMayStay, BatchMayGo, BodyResults
<1>10. ASSUME NEW t \in Threads, FenceWrites(t) PROVE Claimed'
  BY <1>10 DEF FenceWrites, Goto
<1>11. ASSUME NEW t \in Threads, Read(t) PROVE Claimed'
  BY <1>11 DEF Read, Outcome, Goto
<1>12. ASSUME NEW t \in Threads, ReRead(t) PROVE Claimed'
  BY <1>12 DEF ReRead, Outcome
<1>13. ASSUME NEW t \in Threads, Return(t) PROVE Claimed'
  BY <1>13 DEF Return, DropVolume
<1>14. CASE UNCHANGED vars
  BY Zenon, <1>14 DEF vars
<1>15. QED
  BY Zenon, <1>1, <1>2, <1>3, <1>4, <1>5, <1>6, <1>7, <1>8, <1>9,
     <1>10, <1>11, <1>12, <1>13, <1>14 DEF Next, Step

-----------------------------------------------------------------------------
(* The theorems.                                                            *)

\* The inductive invariant holds in every reachable state.
THEOREM Invariance == Spec => []IInv
<1>1. IInv /\ [Next]_vars => IInv'
  <2>1. IInv /\ [Next]_vars => Shape'
    BY Zenon, ShapeStep DEF IInv
  <2>2. QED
    BY Zenon, <2>1, GuardedStep, ClaimedStep DEF IInv
<1>2. QED
  BY InitIInv, <1>1, PTL DEF Spec

\* Type correctness of the bridge's state.
THEOREM TypeCorrect == Spec => []TypeOK
<1>1. IInv => TypeOK
  BY Zenon DEF IInv, Shape
<1>2. QED
  BY Invariance, <1>1, PTL

\* One write claim per device: claim_writer and VolumeHandle::drop keep the
\* device's flag and the volumes' holds_writer in step, whatever threads close
\* which volumes while which calls are running.
THEOREM OneWriterPerDevice == Spec => []ExclusiveWriter
<1>1. IInv => ExclusiveWriter
  BY Zenon DEF IInv, Claimed
<1>2. QED
  BY Invariance, <1>1, PTL

\* A fenced volume never has an active batch.
THEOREM FencedStaysEmpty == Spec => []FencedHasNoBatch
<1>1. IInv => FencedHasNoBatch
  BY Zenon DEF IInv, Guarded
<1>2. QED
  BY Invariance, <1>1, PTL

\* Which step writes: only a thread's body, and a commit only with a batch.
LEMMA WriteIsABody ==
  ASSUME IInv, [Next]_vars, NEW v \in Vols, WroteBy(v)
  PROVE  \E t \in Threads : vol[t] = v /\ pc[t] = "body" /\ MayWrite(t)
<1>1. PICK t \in Threads : vol[t] = v /\ pc[t] = "body" /\ pc'[t] # "body" /\ disk' # disk
  BY Zenon DEF WroteBy
<1> USE DEF latches, fsvars, writevars, thread, ghosts
<1>2. ASSUME NEW u \in Threads, Body(u) PROVE u = t
  BY Zenon, <1>1, <1>2 DEF Body, Outcome, IInv, Shape, TypeOK
<1>3. \E u \in Threads : Body(u)
  <2>1. ASSUME NEW u \in Vols, OpenVolume(u) \/ ArmPlainWrites(u) \/ CloseVolume(u)
        PROVE FALSE
    BY Zenon, <1>1, <2>1 DEF OpenVolume, ArmPlainWrites, CloseVolume
  <2>2. ASSUME NEW u \in Threads, NEW o \in WriteOps \cup ReadOps, NEW x \in Vols,
               NEW w \in Writers \cup {None}, Enter(u, o, x, w)
        PROVE FALSE
    BY Zenon, <1>1, <2>2 DEF Enter
  <2>3. ASSUME NEW u \in Threads,
               \/ LockSlot(u) \/ Gate(u) \/ LockFs(u) \/ ClaimWriter(u)
               \/ FenceWrites(u) \/ Read(u) \/ ReRead(u) \/ Return(u)
        PROVE FALSE
    BY Zenon, <1>1, <2>3 DEF LockSlot, Gate, LockFs, ClaimWriter, FenceWrites, Read,
       ReRead, Return
  <2>4. ASSUME UNCHANGED vars PROVE FALSE
    BY Zenon, <1>1, <2>4 DEF vars
  <2>5. QED
    BY Zenon, <2>1, <2>2, <2>3, <2>4 DEF Next, Step
<1>4. Body(t)
  BY Zenon, <1>2, <1>3
<1>5. MayWrite(t)
  BY Zenon, <1>1, <1>4 DEF Body
<1>6. QED
  BY Zenon, <1>1, <1>5

\* The claim covers every write, also those of the entry points that do not
\* claim: write_file_chunk, finish_file, abandon_file and commit_active_batch.
LEMMA WriterHolds ==
  ASSUME IInv, [Next]_vars, NEW v \in Vols, WroteBy(v)
  PROVE  v \in holds
<1>1. PICK t \in Threads : vol[t] = v /\ pc[t] = "body" /\ MayWrite(t)
  BY Zenon, WriteIsABody
<1>2. Alive(v)
  BY Zenon, <1>1 DEF Alive, Referenced
<1>3. CASE op[t] \in ClaimOps
  BY Zenon, <1>1, <1>3 DEF IInv, Claimed
<1>4. CASE op[t] \in SlotOps
  BY Zenon, <1>1, <1>2, <1>4 DEF IInv, Shape, CallShape, Claimed
<1>5. CASE op[t] = "commit"
  BY Zenon, <1>1, <1>2, <1>5 DEF IInv, Claimed, MayWrite
<1>6. QED
  BY Zenon, <1>1, <1>3, <1>4, <1>5 DEF IInv, Shape, CallShape, WriteOps

\* Claim, consent, fence and poison hold for every write on every volume, in
\* every interleaving of the two fence checks with fence_writes.
THEOREM WritesAreGated == Spec => GatedWrites
<1>1. IInv /\ [Next]_vars => \A v \in Vols : WroteBy(v) => v \in holds
  BY Zenon, WriterHolds
<1>2. IInv /\ [Next]_vars => \A v \in Vols : WroteBy(v) => v \in Encrypted \cup armed
  BY Zenon, WriteIsABody DEF IInv, Guarded
<1>3. IInv /\ [Next]_vars => \A v \in Vols : WroteBy(v) => v \notin fence \cup poisoned
  BY Zenon, WriteIsABody DEF IInv, Guarded
<1>4. IInv /\ [Next]_vars =>
        \A v \in Vols : WroteBy(v) => /\ v \in holds
                                      /\ v \in Encrypted \cup armed
                                      /\ v \notin fence \cup poisoned
  BY Zenon, <1>1, <1>2, <1>3
<1>5. QED
  BY Invariance, <1>4, PTL DEF Spec, GatedWrites

-----------------------------------------------------------------------------
(* The Kotlin session.                                                       *)

CONSTANTS Clients, Openers, Lockers, IdleLocker, Devs, MaxLocks, MaxDetach, MaxLeave
VARIABLES state, mutex, isLocking, volume, device, shown, live, devOf, closedDevs, writing, fatal,
          gone, activeLeases, clientPc, clientVol, openPc, openVol, openDev, lockPc, detaching,
          locks, detaches, leaves

K == INSTANCE LuksSession

Leases == {c \in Clients : clientPc[c] # "idle"}

-----------------------------------------------------------------------------
(* Handles.  A volume becomes the session's some steps after it was opened;  *)
(* what protects it meanwhile is the mutex, which its opener holds and every *)
(* teardown needs.                                                          *)

HandleTypes ==
  /\ openPc \in [Openers -> {"idle", "requested", "native", "listing", "cancelled",
                             "doomed"}]
  /\ openVol \in [Openers -> Vols \cup {None}]
  /\ openDev \in [Openers -> Devs \cup {None}]
  /\ devOf \in [Vols -> Devs \cup {None}]

OpeningHoldsMutex ==
  \A o \in Openers :
    openPc[o] \in {"native", "listing", "cancelled", "doomed"} => mutex = o

OpeningIsOpen ==
  \A o \in Openers :
    /\ openPc[o] \in {"requested", "native", "listing"} => openDev[o] \in Devs
    /\ openPc[o] = "listing" => openVol[o] \in live \cap Vols /\ openDev[o] \notin closedDevs

HandleInv ==
  /\ HandleTypes /\ OpeningHoldsMutex /\ OpeningIsOpen
  /\ volume # None => volume \in live /\ device \notin closedDevs \cup {None}
  /\ volume = None => device = None
  /\ state \in {"Locked", "Detached"} => volume = None

\* A new session has no handles.
LEMMA InitHandles ==
  ASSUME K!SessionConstants
  PROVE  K!Init => HandleInv
BY DEF K!SessionConstants, K!Init, HandleInv, HandleTypes, OpeningHoldsMutex, OpeningIsOpen

\* Every section that tears down needs the mutex, so nothing is being opened.
LEMMA TeardownHandleInv ==
  ASSUME K!SessionConstants, HandleInv, mutex = None, K!TeardownHandles, UNCHANGED K!openers
  PROVE  HandleInv'
BY Zenon
   DEF K!SessionConstants, HandleInv, HandleTypes, OpeningHoldsMutex, OpeningIsOpen, K!TeardownHandles, K!openers

\* So does the section a cancelled coroutine leaves early.
LEMMA CutHandleInv ==
  ASSUME K!SessionConstants, HandleInv, K!TeardownCut, UNCHANGED K!openers
  PROVE  HandleInv'
<1>1. CASE UNCHANGED <<mutex, volume, device, K!native, lockPc>>
  BY Zenon, <1>1 DEF HandleInv, HandleTypes, OpeningHoldsMutex, OpeningIsOpen, K!TeardownCut,
              K!openers, K!native
<1>2. CASE K!TeardownHandles
  BY Zenon, <1>2, TeardownHandleInv DEF K!TeardownCut
<1> QED BY Zenon, <1>1, <1>2 DEF K!TeardownCut

\* Each step keeps the fields and the volume being opened on open handles.
LEMMA StepHandles ==
  ASSUME K!SessionConstants
  PROVE  HandleInv /\ [K!Next]_(K!vars) => HandleInv'
<1> SUFFICES ASSUME HandleInv, [K!Next]_(K!vars) PROVE HandleInv'
  BY Zenon
<1>1. ASSUME NEW o \in Openers, NEW d \in Devs, K!RequestOpen(o, d) PROVE HandleInv'
  BY Zenon, <1>1 DEF K!RequestOpen, K!session, K!native, HandleInv, HandleTypes, OpeningHoldsMutex,
              OpeningIsOpen
<1>2. ASSUME NEW o \in Openers, K!StartOpen(o) PROVE HandleInv'
  BY <1>2 DEF K!SessionConstants, K!StartOpen, K!native, HandleInv, HandleTypes,
              OpeningHoldsMutex, OpeningIsOpen
<1>3. ASSUME NEW o \in Openers, NEW v \in Vols, K!NativeOpened(o, v) PROVE HandleInv'
  BY Zenon, <1>3 DEF K!NativeOpened, K!session, HandleInv, HandleTypes, OpeningHoldsMutex,
              OpeningIsOpen
<1>4. ASSUME NEW o \in Openers, K!OpenFailed(o) PROVE HandleInv'
  BY Zenon, <1>4 DEF K!SessionConstants, K!OpenFailed, K!native, HandleInv, HandleTypes,
              OpeningHoldsMutex, OpeningIsOpen
<1>5. ASSUME NEW o \in Openers, K!CancelledOpenReturns(o) PROVE HandleInv'
  BY Zenon, <1>5 DEF K!SessionConstants, K!CancelledOpenReturns, HandleInv, HandleTypes,
              OpeningHoldsMutex, OpeningIsOpen
<1>6. ASSUME NEW o \in Openers, K!OpenDone(o) PROVE HandleInv'
  BY Zenon, <1>6 DEF K!SessionConstants, K!OpenDone, K!native, HandleInv, HandleTypes,
              OpeningHoldsMutex, OpeningIsOpen
<1>7. CASE K!LeaveDevicesScreen
  BY Zenon, <1>7 DEF K!SessionConstants, K!LeaveDevicesScreen, K!session, HandleInv, HandleTypes,
              OpeningHoldsMutex, OpeningIsOpen
<1>8. ASSUME NEW c \in Clients, K!OnFatalWriteFailure(c) PROVE HandleInv'
  BY Zenon, <1>8, TeardownHandleInv DEF K!OnFatalWriteFailure, K!TeardownTo
<1>9. ASSUME NEW c \in Clients, K!FatalFailureCancelled(c) PROVE HandleInv'
  <2>1. CASE K!TeardownCut
    BY Zenon, <1>9, <2>1, CutHandleInv DEF K!FatalFailureCancelled
  <2>2. CASE UNCHANGED <<K!session, K!native, lockPc>>
    BY Zenon, <1>9, <2>2 DEF K!FatalFailureCancelled, K!session, K!native, K!openers, HandleInv,
                      HandleTypes, OpeningHoldsMutex, OpeningIsOpen
  <2> QED BY Zenon, <1>9, <2>1, <2>2 DEF K!FatalFailureCancelled
<1>10. ASSUME NEW l \in Lockers, K!LockTeardown(l) PROVE HandleInv'
  BY Zenon, <1>10, TeardownHandleInv DEF K!LockTeardown
<1>11. CASE K!OnDeviceDetached
  BY Zenon, <1>11, TeardownHandleInv DEF K!OnDeviceDetached, K!TeardownTo
<1>12. CASE K!Reset
  BY Zenon, <1>12, TeardownHandleInv, CutHandleInv DEF K!Reset, K!TeardownTo
<1>13. ASSUME UNCHANGED <<K!openers, state, mutex, volume, device, live, devOf, closedDevs>>
       PROVE  HandleInv'
  BY Zenon, <1>13 DEF K!openers, HandleInv, HandleTypes, OpeningHoldsMutex, OpeningIsOpen
<1>14. ASSUME NEW c \in Clients,
              K!TakeLease(c) \/ K!BeginWriter(c) \/ K!EndWriter(c) \/ K!WriteFails(c)
              \/ K!FatalCode(c) \/ K!BlockEnds(c) \/ K!ReleaseLease(c)
       PROVE  HandleInv'
  BY Zenon, <1>13, <1>14 DEF K!TakeLease, K!BeginWriter, K!EndWriter, K!WriteFails, K!FatalCode,
                      K!BlockEnds, K!ReleaseLease, K!session, K!native
<1>15. ASSUME NEW l \in Lockers,
              K!CallLock(l) \/ K!CancelLock(l) \/ K!LatchLocking(l) \/ K!Drained(l)
              \/ K!LockFinally(l)
       PROVE  HandleInv'
  BY Zenon, <1>13, <1>15 DEF K!CallLock, K!CancelLock, K!LatchLocking, K!Drained, K!LockFinally, K!session,
                      K!native
<1>16. CASE K!UsbDetached
  BY Zenon, <1>13, <1>16 DEF K!UsbDetached, K!session
<1>17. CASE UNCHANGED K!vars
  BY Zenon, <1>13, <1>17 DEF K!vars, K!session, K!native
<1> QED
  BY Zenon, <1>1, <1>2, <1>3, <1>4, <1>5, <1>6, <1>7, <1>8, <1>9, <1>10, <1>11, <1>12, <1>14,
     <1>15, <1>16, <1>17
  DEF K!Next, K!OpenStep, K!ClientStep, K!LockStep

\* The session's fields never name a closed handle, and a Locked or Detached session
\* names none, for any number of racing opens, leases, lock() calls and detaches.
THEOREM FieldsNameOpenHandles ==
  ASSUME K!SessionConstants
  PROVE  K!Spec => []K!StateMatchesHandles
<1>1. HandleInv => K!StateMatchesHandles
  BY Zenon DEF HandleInv, K!StateMatchesHandles
<1>2. K!Init => HandleInv
  BY Zenon, InitHandles
<1>3. HandleInv /\ [K!Next]_(K!vars) => HandleInv'
  BY Zenon, StepHandles
<1> QED BY <1>1, <1>2, <1>3, PTL DEF K!Spec

-----------------------------------------------------------------------------
(* Leases.                                                                  *)

CountInv == clientPc \in [Clients -> {"idle", "leased", "failing", "release"}]
            /\ activeLeases = Cardinality(Leases)

\* Taking a lease adds its client to Leases and giving it back removes it; every
\* other step of a client stays inside withLease.
LEMMA StepCount ==
  ASSUME K!SessionConstants
  PROVE  CountInv /\ [K!Next]_(K!vars) => CountInv'
<1> SUFFICES ASSUME CountInv, [K!Next]_(K!vars) PROVE CountInv'
  BY Zenon
<1>1. IsFiniteSet(Leases)
  <2>1. IsFiniteSet(Clients)
    BY Zenon DEF K!SessionConstants, K!IsFiniteSet, IsFiniteSet
  <2> QED BY Zenon, <2>1, FS_Subset DEF Leases
<1>2. ASSUME NEW c \in Clients, K!TakeLease(c) PROVE CountInv'
  <2>1. Leases' = Leases \cup {c} /\ c \notin Leases
    BY Zenon, <1>2 DEF K!TakeLease, Leases, CountInv
  <2>2. Cardinality(Leases') = Cardinality(Leases) + 1
    BY Zenon, <1>1, <2>1, FS_AddElement
  <2> QED BY Zenon, <1>2, <2>2 DEF K!TakeLease, CountInv
<1>3. ASSUME NEW c \in Clients, K!ReleaseLease(c) PROVE CountInv'
  <2>1. Leases' = Leases \ {c} /\ c \in Leases
    BY Zenon, <1>3 DEF K!ReleaseLease, Leases, CountInv
  <2>2. Cardinality(Leases') = Cardinality(Leases) - 1
    BY Zenon, <1>1, <2>1, FS_RemoveElement
  <2> QED BY Zenon, <1>3, <2>2 DEF K!ReleaseLease, CountInv
<1>4. ASSUME NEW c \in Clients, clientPc[c] # "idle",
             NEW p \in {"leased", "failing", "release"},
             clientPc' = [clientPc EXCEPT ![c] = p], activeLeases' = activeLeases
      PROVE  CountInv'
  <2>1. Leases' = Leases
    BY Zenon, <1>4 DEF Leases, CountInv
  <2> QED BY Zenon, <1>4, <2>1 DEF CountInv
<1>5. ASSUME NEW c \in Clients,
             K!WriteFails(c) \/ K!FatalCode(c) \/ K!OnFatalWriteFailure(c)
             \/ K!FatalFailureCancelled(c) \/ K!BlockEnds(c)
      PROVE  CountInv'
  BY Zenon, <1>4, <1>5 DEF K!WriteFails, K!FatalCode, K!OnFatalWriteFailure, K!FatalFailureCancelled,
                    K!BlockEnds
<1>6. ASSUME UNCHANGED <<clientPc, activeLeases>> PROVE CountInv'
  <2>1. Leases' = Leases
    BY Zenon, <1>6 DEF Leases
  <2> QED BY Zenon, <1>6, <2>1 DEF CountInv
<1>7. ASSUME NEW c \in Clients, K!BeginWriter(c) \/ K!EndWriter(c) PROVE CountInv'
  BY Zenon, <1>6, <1>7 DEF K!BeginWriter, K!EndWriter, K!clients
<1>8. ASSUME NEW o \in Openers, K!OpenStep(o) \/ \E d \in Devs : K!RequestOpen(o, d)
      PROVE  CountInv'
  BY Zenon, <1>6, <1>8 DEF K!OpenStep, K!StartOpen, K!OpenFailed, K!OpenDone, K!CancelledOpenReturns,
                    K!NativeOpened, K!RequestOpen, K!clients
<1>9. ASSUME NEW l \in Lockers, K!CallLock(l) \/ K!CancelLock(l) \/ K!LockStep(l)
      PROVE  CountInv'
  BY Zenon, <1>6, <1>9 DEF K!CallLock, K!CancelLock, K!LockStep, K!LatchLocking, K!Drained,
                    K!LockTeardown, K!LockFinally, K!clients
<1>10. CASE K!UsbDetached \/ K!OnDeviceDetached \/ K!LeaveDevicesScreen \/ K!Reset
  BY Zenon, <1>6, <1>10 DEF K!UsbDetached, K!OnDeviceDetached, K!LeaveDevicesScreen, K!Reset, K!clients
<1>11. CASE UNCHANGED K!vars
  BY Zenon, <1>6, <1>11 DEF K!vars, K!clients
<1> QED
  BY Zenon, <1>2, <1>3, <1>5, <1>7, <1>8, <1>9, <1>10, <1>11 DEF K!Next, K!ClientStep

\* activeLeases is the number of leases out, for any number of clients.
THEOREM LeaseCounterIsExact ==
  ASSUME K!SessionConstants
  PROVE  K!Spec => []K!LeasesAreCounted
<1>1. K!Init => CountInv
  <2> SUFFICES ASSUME K!Init PROVE CountInv
    BY Zenon
  <2>1. Leases = {}
    BY Zenon DEF K!Init, Leases
  <2> QED BY Zenon, <2>1, FS_EmptySet DEF K!Init, CountInv
<1>2. CountInv => K!LeasesAreCounted
  <2>1. K!Cardinality(Leases) = Cardinality(Leases)
    BY Zenon DEF K!Cardinality, Cardinality
  <2> QED BY Zenon, <2>1 DEF CountInv, K!LeasesAreCounted, Leases
<1>3. CountInv /\ [K!Next]_(K!vars) => CountInv'
  BY Zenon, StepCount
<1> QED BY <1>1, <1>2, <1>3, PTL DEF K!Spec
=============================================================================
