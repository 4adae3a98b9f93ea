---------------------------- MODULE VolumeSession ----------------------------
(***************************************************************************)
(* The native bridge of jni/src: block devices, the volumes mounted on     *)
(* them, the file-writer handles, and the Java threads that call into them.  *)
(*                                                                         *)
(* A write entry point runs                                                *)
(*   volume_ref / writer_ref -> writer slot lock -> consent gate and first *)
(*   fence check -> fs lock, poison and second fence check -> claim_writer *)
(*   -> filesystem body -> unlock -> (on a transport error) fence_writes   *)
(*   -> drop_writer / into_raw -> drop of the Arc.                         *)
(* Each arrow is an action here, so other threads interleave exactly where *)
(* no lock is held.  The filesystem body is one action: the fs mutex makes *)
(* it atomic for every other thread of the same volume.                    *)
(*                                                                         *)
(* A call whose handle is not registered returns "bad handle" and changes  *)
(* nothing; it is not an action.                                           *)
(***************************************************************************)
EXTENDS Naturals, FiniteSets

CONSTANTS
  Threads,     \* Java threads calling into the library
  Vols,        \* volume ids handed out by NEXT_VOLUME_ID, never reused
  Writers,     \* ids of file-writer handles, never reused
  Devices,     \* open block devices
  DeviceOf,    \* DeviceOf[v]: the device volume v was opened on
  Parts,       \* partitions of the devices
  PartOf,      \* PartOf[v]: the partition volume v is mounted on
  Encrypted,   \* the volumes opened by unlock; the others by open_plain
  Btrfs,       \* the volumes holding btrfs; the others hold ext4
  MaxCalls,    \* bound on the calls made
  None         \* no thread, no volume, no writer

ASSUME ConstantsAssumption ==
  /\ DeviceOf \in [Vols -> Devices]
  /\ PartOf \in [Vols -> Parts]
  /\ Encrypted \subseteq Vols
  /\ Btrfs \subseteq Vols
  /\ MaxCalls \in Nat
  /\ None \notin Threads \cup Vols \cup Writers

VARIABLES
  opened,        \* volumes ever mounted
  registry,      \* volumes in REGISTRY
  armed,         \* plain_writes_armed
  fence,         \* write_fence is Some
  poisoned,      \* the fs mutex is poisoned
  holds,         \* holds_writer, for volumes that are still allocated
  device_writer, \* devices whose SharedDevice.writer flag is set
  fs_lock,       \* holder of each volume's fs mutex
  batch,         \* btrfs volumes with an active batch
  open_writer,   \* btrfs volumes with has_open_writer set
  slot,          \* each WriterHandle: not created, Some(state), or taken
  writer_vol,    \* WriterHandle.volume_id
  writers,       \* writer handles in REGISTRY
  slot_lock,     \* holder of each WriterHandle.writer mutex
  pc, op, vol, wr, res, \* per thread: place, operation, arguments, outcome
  calls,         \* calls made so far
  disk,          \* ghost: number of writes that reached each partition
  base,          \* ghost: the value of disk a volume's in-memory state reflects
  unknown        \* ghost: volumes with a write whose outcome is unknown

latches   == <<opened, registry, armed, fence, poisoned, holds, device_writer>>
fsvars    == <<fs_lock, batch, open_writer>>
writevars == <<slot, writer_vol, writers, slot_lock>>
thread    == <<pc, op, vol, wr, res, calls>>
ghosts    == <<disk, base, unknown>>
vars      == <<latches, fsvars, writevars, thread, ghosts>>

ClaimOps  == {"writeFile", "mutate", "begin"}   \* mutate: delete, mkdir, rename
SlotOps   == {"chunk", "finish", "close"}
WriteOps  == ClaimOps \cup SlotOps \cup {"commit"}
ReadOps   == {"read", "readChunk"}

PCs     == {"idle", "slot", "gate", "lock", "claim", "body", "fencing",
            "done", "read", "reread"}
Results == {"none", "ok", "refused", "busy", "readonly", "fenced", "poisoned",
            "badhandle", "transport", "panic"}

TypeOK ==
  /\ opened \subseteq Vols /\ registry \subseteq opened
  /\ armed \subseteq opened /\ fence \subseteq opened /\ poisoned \subseteq opened
  /\ holds \subseteq opened /\ device_writer \subseteq Devices
  /\ fs_lock \in [Vols -> Threads \cup {None}]
  /\ batch \subseteq Btrfs /\ open_writer \subseteq Btrfs
  /\ slot \in [Writers -> {"free", "some", "taken"}]
  /\ writer_vol \in [Writers -> Vols \cup {None}]
  /\ writers \subseteq Writers
  /\ slot_lock \in [Writers -> Threads \cup {None}]
  /\ pc \in [Threads -> PCs]
  /\ op \in [Threads -> WriteOps \cup ReadOps \cup {"none"}]
  /\ vol \in [Threads -> Vols \cup {None}]
  /\ wr \in [Threads -> Writers \cup {None}]
  /\ res \in [Threads -> Results]
  /\ calls \in 0..MaxCalls
  /\ disk \in [Parts -> Nat] /\ base \in [Vols -> Nat]
  /\ unknown \subseteq Vols

Init ==
  /\ opened = {} /\ registry = {} /\ armed = {} /\ fence = {}
  /\ poisoned = {} /\ holds = {} /\ device_writer = {}
  /\ fs_lock = [v \in Vols |-> None] /\ batch = {} /\ open_writer = {}
  /\ slot = [w \in Writers |-> "free"]
  /\ writer_vol = [w \in Writers |-> None]
  /\ writers = {} /\ slot_lock = [w \in Writers |-> None]
  /\ pc = [t \in Threads |-> "idle"]
  /\ op = [t \in Threads |-> "none"]
  /\ vol = [t \in Threads |-> None]
  /\ wr = [t \in Threads |-> None]
  /\ res = [t \in Threads |-> "none"]
  /\ calls = 0
  /\ disk = [p \in Parts |-> 0] /\ base = [v \in Vols |-> 0]
  /\ unknown = {}

-----------------------------------------------------------------------------
(* Lifetime of a volume: the registry and every call in progress hold an    *)
(* Arc; the last one to go runs VolumeHandle::drop.                         *)

Referenced(v) == \E t \in Threads : vol[t] = v

Alive(v) == v \in registry \/ Referenced(v)

\* Fault: the flag is cleared whoever set it.
DropVolume_AlwaysClears(v) ==
  /\ device_writer' = device_writer \ {DeviceOf[v]}
  /\ holds' = holds \ {v}

\* VolumeHandle::drop gives the device's writer flag back only if this volume
\* took it.
DropVolume(v) ==
  /\ device_writer' = IF v \in holds THEN device_writer \ {DeviceOf[v]}
                      ELSE device_writer
  /\ holds' = holds \ {v}

\* unlock and open_plain; the mount caches the on-disk state.
OpenVolume(v) ==
  /\ v \notin opened
  /\ opened' = opened \cup {v}
  /\ registry' = registry \cup {v}
  /\ armed' = IF v \in Encrypted THEN armed \cup {v} ELSE armed
  /\ base' = [base EXCEPT ![v] = disk[PartOf[v]]]
  /\ UNCHANGED <<fence, poisoned, holds, device_writer, fsvars, writevars,
                 thread, disk, unknown>>

ArmPlainWrites(v) ==
  /\ v \in registry
  /\ armed' = armed \cup {v}
  /\ UNCHANGED <<opened, registry, fence, poisoned, holds, device_writer,
                 fsvars, writevars, thread, ghosts>>

CloseVolume(v) ==
  /\ v \in registry
  /\ registry' = registry \ {v}
  /\ IF Referenced(v) THEN UNCHANGED <<device_writer, holds>> ELSE DropVolume(v)
  /\ UNCHANGED <<opened, armed, fence, poisoned, fsvars, writevars, thread,
                 ghosts>>

-----------------------------------------------------------------------------
(* Entering and leaving a call.                                             *)

Goto(t, place) == pc' = [pc EXCEPT ![t] = place]

Outcome(t, place, r) ==
  /\ pc' = [pc EXCEPT ![t] = place]
  /\ res' = [res EXCEPT ![t] = r]

FirstStep(o) ==
  IF o \in ReadOps THEN "read" ELSE IF o \in SlotOps THEN "slot" ELSE "gate"

\* Bound: a begin is called only while an unused writer id is left for it.
FreeWriters ==
  Cardinality({w \in Writers : slot[w] = "free"})
    > Cardinality({t \in Threads : op[t] = "begin"})

\* volume_ref and, for the streaming calls, writer_ref with its volume check.
Enter(t, o, v, w) ==
  /\ pc[t] = "idle" /\ calls < MaxCalls
  /\ v \in registry
  /\ o = "begin" => FreeWriters
  /\ IF o \in SlotOps THEN w \in writers /\ writer_vol[w] = v ELSE w = None
  /\ calls' = calls + 1
  /\ pc' = [pc EXCEPT ![t] = FirstStep(o)]
  /\ op' = [op EXCEPT ![t] = o]
  /\ vol' = [vol EXCEPT ![t] = v]
  /\ wr' = [wr EXCEPT ![t] = w]
  /\ UNCHANGED <<latches, fsvars, writevars, res, ghosts>>

\* nativeWriteChunk holds the slot lock during the call, nativeFinishFile takes
\* the state and lets the lock go, nativeCloseWriter takes it and keeps the lock.
\* An empty slot is an error for the first two; close just drops the handle.
LockSlot(t) ==
  /\ pc[t] = "slot"
  /\ slot_lock[wr[t]] = None
  /\ \/ /\ slot[wr[t]] # "some"
        /\ Outcome(t, "done", IF op[t] = "close" THEN "ok" ELSE "badhandle")
        /\ UNCHANGED <<slot, slot_lock>>
     \/ /\ slot[wr[t]] = "some"
        /\ slot' = IF op[t] = "chunk" THEN slot
                   ELSE [slot EXCEPT ![wr[t]] = "taken"]
        /\ slot_lock' = IF op[t] = "finish" THEN slot_lock
                        ELSE [slot_lock EXCEPT ![wr[t]] = t]
        /\ Goto(t, "gate") /\ UNCHANGED res
  /\ UNCHANGED <<latches, fsvars, writer_vol, writers, op, vol, wr, calls, ghosts>>

\* fs_for_writing before its lock: consent, then the early fence check.
Gate(t) ==
  /\ pc[t] = "gate"
  /\ \/ vol[t] \notin Encrypted \cup armed /\ Outcome(t, "done", "readonly")
     \/ /\ vol[t] \in Encrypted \cup armed
        /\ \/ vol[t] \in fence /\ Outcome(t, "done", "fenced")
           \/ vol[t] \notin fence /\ Goto(t, "lock") /\ UNCHANGED res
  /\ UNCHANGED <<latches, fsvars, writevars, op, vol, wr, calls, ghosts>>

\* Fault: only the check before the lock looks at the fence.
LockFs_NoRecheck(t) ==
  /\ pc[t] = "lock" /\ fs_lock[vol[t]] = None
  /\ \/ vol[t] \in poisoned /\ Outcome(t, "done", "poisoned") /\ UNCHANGED fs_lock
     \/ /\ vol[t] \notin poisoned
        /\ fs_lock' = [fs_lock EXCEPT ![vol[t]] = t]
        /\ Goto(t, IF op[t] \in ClaimOps THEN "claim" ELSE "body")
        /\ UNCHANGED res
  /\ UNCHANGED <<latches, batch, open_writer, writevars, op, vol, wr, calls,
                 ghosts>>

\* fs_for_writing from its lock on: poison, then the fence again.
LockFs(t) ==
  /\ pc[t] = "lock"
  /\ fs_lock[vol[t]] = None
  /\ \/ /\ vol[t] \in poisoned
        /\ Outcome(t, "done", "poisoned")
        /\ UNCHANGED fs_lock
     \/ /\ vol[t] \notin poisoned
        /\ vol[t] \in fence
        /\ Outcome(t, "done", "fenced")
        /\ UNCHANGED fs_lock
     \/ /\ vol[t] \notin poisoned \cup fence
        /\ fs_lock' = [fs_lock EXCEPT ![vol[t]] = t]
        /\ Goto(t, IF op[t] \in ClaimOps THEN "claim" ELSE "body")
        /\ UNCHANGED res
  /\ UNCHANGED <<latches, batch, open_writer, writevars, op, vol, wr, calls,
                 ghosts>>

\* claim_writer, under the fs lock.
ClaimWriter(t) ==
  /\ pc[t] = "claim"
  /\ \/ /\ vol[t] \in holds
        /\ Goto(t, "body")
        /\ UNCHANGED <<holds, device_writer, fs_lock, res>>
     \/ /\ vol[t] \notin holds /\ DeviceOf[vol[t]] \notin device_writer
        /\ device_writer' = device_writer \cup {DeviceOf[vol[t]]}
        /\ holds' = holds \cup {vol[t]}
        /\ Goto(t, "body")
        /\ UNCHANGED <<fs_lock, res>>
     \/ /\ vol[t] \notin holds /\ DeviceOf[vol[t]] \in device_writer
        /\ fs_lock' = [fs_lock EXCEPT ![vol[t]] = None]
        /\ Outcome(t, "done", "busy")
        /\ UNCHANGED <<holds, device_writer>>
  /\ UNCHANGED <<opened, registry, armed, fence, poisoned, batch, open_writer,
                 writevars, op, vol, wr, calls, ghosts>>

-----------------------------------------------------------------------------
(* The filesystem body.                                                     *)

\* What btrfs refuses while one of its file writers is open: begin_file (and so
\* create_file_with_data) with WriterBusy, everything that commits the batch
\* with CorruptFs.
BusyWithOwnWriter(t) ==
  /\ vol[t] \in open_writer
  /\ op[t] \in {"begin", "writeFile", "mutate", "commit"}

\* Whether the call may end with an active batch, and without one.  A mutation
\* or a commit takes the batch before anything else; a successful begin or
\* finish leaves one; a chunk does not touch it; a failed commit drops it.
BatchMayStay(t, r) ==
  /\ vol[t] \in Btrfs
  /\ \/ op[t] \in {"begin", "finish"}
     \/ op[t] = "writeFile" /\ r # "ok"
     \/ op[t] \in {"chunk", "close"} /\ vol[t] \in batch

BatchMayGo(t, r) ==
  \/ vol[t] \notin Btrfs
  \/ op[t] \in {"writeFile", "mutate", "commit"}
  \/ op[t] \in {"begin", "finish"} /\ r # "ok"
  \/ op[t] \in {"chunk", "close"} /\ vol[t] \notin batch
  \/ op[t] = "close" /\ r # "ok"

\* Committing with no active batch (always so on ext4) writes nothing.
MayWrite(t) == op[t] = "commit" => vol[t] \in batch

OpenWriterAfter(t, r) ==
  IF op[t] = "begin" /\ r = "ok" /\ vol[t] \in Btrfs THEN open_writer \cup {vol[t]}
  ELSE IF op[t] \in {"finish", "close"} THEN open_writer \ {vol[t]}
  ELSE open_writer

\* On ext4 committing does nothing and abandoning returns no result.
BodyResults(t) ==
  IF vol[t] \notin Btrfs /\ op[t] = "commit" THEN {"ok"}
  ELSE IF vol[t] \notin Btrfs /\ op[t] = "close" THEN {"ok", "panic"}
  ELSE {"ok", "refused", "transport", "panic"}

\* The rollbacks whose own errors are dropped: ext4's undo_new_file and
\* undo_new_dir, and the abandon inside btrfs create_file_with_data.  The caller
\* sees the refusal that started the rollback, or Ok from ext4's abandon_file.
MaySwallowTransport(t, r) ==
  IF vol[t] \in Btrfs THEN op[t] = "writeFile" /\ r = "refused"
  ELSE \/ op[t] = "close" /\ r = "ok"
       \/ op[t] # "commit" /\ r = "refused"

\* Fault: the failing call still holds the guard when guarding_writes fences.
Unlock_AfterFencing(t) ==
  fs_lock' = IF res'[t] = "transport" THEN fs_lock
             ELSE [fs_lock EXCEPT ![vol[t]] = None]

Unlock(t) == fs_lock' = [fs_lock EXCEPT ![vol[t]] = None]

WriteReaches(t) ==
  /\ disk' = [disk EXCEPT ![PartOf[vol[t]]] = @ + 1]
  /\ base' = [base EXCEPT ![vol[t]] = disk'[PartOf[vol[t]]]]

\* The body refuses because btrfs has a writer open, or runs and returns Ok, a
\* refusal, a transport error, or unwinds.  The guard is dropped as the closure
\* returns, before guarding_writes looks at the result.
Body(t) ==
  /\ pc[t] = "body"
  /\ \/ /\ BusyWithOwnWriter(t)
        /\ Outcome(t, "done", IF op[t] \in {"begin", "writeFile"} THEN "busy"
                              ELSE "refused")
        /\ UNCHANGED <<poisoned, batch, open_writer, disk, base, unknown>>
     \/ /\ ~BusyWithOwnWriter(t)
        /\ \E r \in BodyResults(t) :
             /\ \/ BatchMayStay(t, r) /\ batch' = batch \cup {vol[t]}
                \/ BatchMayGo(t, r) /\ batch' = batch \ {vol[t]}
             /\ open_writer' = OpenWriterAfter(t, r)
             /\ \/ MayWrite(t) /\ WriteReaches(t)
                \/ UNCHANGED <<disk, base>>
             /\ poisoned' = IF r = "panic" THEN poisoned \cup {vol[t]} ELSE poisoned
             /\ \/ r # "transport" /\ UNCHANGED unknown
                \/ /\ r = "transport" \/ MaySwallowTransport(t, r)
                   /\ unknown' = unknown \cup {vol[t]}
             /\ Outcome(t, IF r = "transport" THEN "fencing" ELSE "done", r)
  /\ Unlock(t)
  /\ UNCHANGED <<opened, registry, armed, fence, holds, device_writer,
                 writevars, op, vol, wr, calls>>

\* Fault: the latch is set and the batch is left alone.
FenceWrites_KeepsBatch(t) ==
  /\ pc[t] = "fencing"
  /\ fs_lock[vol[t]] = None
  /\ fence' = fence \cup {vol[t]}
  /\ Goto(t, "done")
  /\ UNCHANGED <<opened, registry, armed, poisoned, holds, device_writer, fsvars,
                 writevars, op, vol, wr, res, calls, ghosts>>

\* fence_writes: fs lock (a poisoned one is recovered), latch, discard.
FenceWrites(t) ==
  /\ pc[t] = "fencing"
  /\ fs_lock[vol[t]] = None
  /\ fence' = fence \cup {vol[t]}
  /\ IF vol[t] \in fence THEN UNCHANGED <<batch, open_writer>>
     ELSE /\ batch' = batch \ {vol[t]}
          /\ open_writer' = open_writer \ {vol[t]}
  /\ Goto(t, "done")
  /\ UNCHANGED <<opened, registry, armed, poisoned, holds, device_writer, fs_lock,
                 writevars, op, vol, wr, res, calls, ghosts>>

\* The reads: fs_for_reading recovers a poisoned lock and asks for nothing else.
\* A single-lock read opens and reads at once; read_chunk, read_file_stream and
\* sha256 lock once to open the file and again for each chunk.
Read(t) ==
  /\ pc[t] = "read"
  /\ fs_lock[vol[t]] = None
  /\ \E r \in {"ok", "refused", "panic"} :
       /\ poisoned' = IF r = "panic" THEN poisoned \cup {vol[t]} ELSE poisoned
       /\ IF op[t] = "readChunk" /\ r = "ok"
          THEN Goto(t, "reread") /\ UNCHANGED res
          ELSE Outcome(t, "done", r)
  /\ UNCHANGED <<opened, registry, armed, fence, holds, device_writer, fsvars,
                 writevars, op, vol, wr, calls, disk, base, unknown>>

ReRead(t) ==
  /\ pc[t] = "reread"
  /\ fs_lock[vol[t]] = None
  /\ \E r \in {"ok", "refused", "panic"} :
       /\ poisoned' = IF r = "panic" THEN poisoned \cup {vol[t]} ELSE poisoned
       /\ Outcome(t, "done", r)
  /\ UNCHANGED <<opened, registry, armed, fence, holds, device_writer, fsvars,
                 writevars, op, vol, wr, calls, ghosts>>

\* Back in lib.rs: begin registers the new writer handle; finish and close drop
\* theirs unless unwinding skipped it; the slot lock and the Arc are released.
Return(t) ==
  /\ pc[t] = "done"
  /\ \/ /\ op[t] = "begin" /\ res[t] = "ok"
        /\ \E w \in Writers :
             /\ slot[w] = "free"
             /\ slot' = [slot EXCEPT ![w] = "some"]
             /\ writer_vol' = [writer_vol EXCEPT ![w] = vol[t]]
             /\ writers' = writers \cup {w}
        /\ UNCHANGED slot_lock
     \/ /\ ~(op[t] = "begin" /\ res[t] = "ok")
        /\ writers' = IF /\ op[t] \in {"finish", "close"}
                         /\ res[t] \notin {"panic", "badhandle"}
                      THEN writers \ {wr[t]} ELSE writers
        /\ slot_lock' = [w \in Writers |-> IF slot_lock[w] = t THEN None
                                           ELSE slot_lock[w]]
        /\ UNCHANGED <<slot, writer_vol>>
  /\ pc' = [pc EXCEPT ![t] = "idle"]
  /\ op' = [op EXCEPT ![t] = "none"]
  /\ vol' = [vol EXCEPT ![t] = None]
  /\ wr' = [wr EXCEPT ![t] = None]
  /\ res' = [res EXCEPT ![t] = "none"]
  /\ IF vol[t] \in registry \/ \E u \in Threads \ {t} : vol[u] = vol[t]
     THEN UNCHANGED <<device_writer, holds>>
     ELSE DropVolume(vol[t])
  /\ UNCHANGED <<opened, registry, armed, fence, poisoned, fsvars, calls, disk,
                 base, unknown>>

Step(t) ==
  \/ LockSlot(t) \/ Gate(t) \/ LockFs(t) \/ ClaimWriter(t) \/ Body(t)
  \/ FenceWrites(t) \/ Read(t) \/ ReRead(t) \/ Return(t)

Next ==
  \/ \E v \in Vols : OpenVolume(v) \/ ArmPlainWrites(v) \/ CloseVolume(v)
  \/ \E t \in Threads, o \in WriteOps \cup ReadOps, v \in Vols,
        w \in Writers \cup {None} : Enter(t, o, v, w)
  \/ \E t \in Threads : Step(t)

Spec == Init /\ [][Next]_vars

\* A thread inside a native call keeps running: nothing in the library waits for
\* another call of the application.
Fairness == \A t \in Threads : WF_vars(Step(t))

FairSpec == Spec /\ Fairness
-----------------------------------------------------------------------------
(* Properties.                                                              *)

\* The step in which a call on v writes to the device.
WroteBy(v) ==
  \E t \in Threads : /\ vol[t] = v /\ pc[t] = "body" /\ pc'[t] # "body"
                     /\ disk' # disk

\* A device's writer flag is set exactly while one volume that is still allocated
\* holds the claim on it: claim_writer's compare_exchange and VolumeHandle::drop never
\* leave two holders, a claim nobody can give back, or a holder without claim.
ExclusiveWriter ==
  /\ \A v, w \in holds : DeviceOf[v] = DeviceOf[w] => v = w
  /\ device_writer = {DeviceOf[v] : v \in holds}
  /\ \A v \in holds : Alive(v)

\* Every device write is made by the volume holding the claim, although
\* write_file_chunk, finish_file, abandon_file and commit_active_batch never
\* call claim_writer; on a volume with consent, whichever entry point it comes
\* through; never after the fence was latched, also by calls that passed the
\* first fence check before it; and never once a panic, of a write or of a read,
\* has poisoned the fs lock.
GatedWrites ==
  [][\A v \in Vols : WroteBy(v) => /\ v \in holds
                                   /\ v \in Encrypted \cup armed
                                   /\ v \notin fence \cup poisoned]_vars

\* A fenced volume keeps no active batch and never gets one again, so no later
\* commit can publish what the failed write left half done.
FencedHasNoBatch == fence \cap batch = {}

\* Every native call returns: the writer-slot and fs mutexes are always taken in
\* that order and fence_writes starts with neither fs nor fence lock held.
EveryCallReturns == \A t \in Threads : pc[t] # "idle" ~> pc[t] = "idle"

\* WriteSessionFenced's promise: after a write whose on-device outcome is unknown
\* nothing more is written on the volume.
NoWriteAfterUnknownOutcome ==
  [][\A v \in Vols : WroteBy(v) => v \notin unknown]_vars

\* The claim is there so that the volume that writes has a current copy of the
\* on-disk state: nobody else wrote to its partition since it last looked.
WriterIsFresh ==
  [][\A v \in Vols : WroteBy(v) => base[v] = disk[PartOf[v]]]_vars
=============================================================================
