------------------------------ MODULE Transfers ------------------------------
(***************************************************************************)
(* TransferController (session/TransferManager.kt) and the documents that   *)
(* other apps write through the Storage Access Framework: the registry of   *)
(* pending documents, createDocument, and LuksProxyCallback, whose callbacks *)
(* all run on one handler thread.  Both sides write through the one native   *)
(* writer of the volume and serialise on transferMutex.                      *)
(*                                                                         *)
(* The session (LuksSession) is the environment: it is unlocked, latched by  *)
(* lock(), torn down in the order of teardownHandles, and opened again with  *)
(* another volume.  A FileWriter is the number of the volume it is open on.  *)
(***************************************************************************)
EXTENDS Naturals, Sequences

CONSTANTS
  Ids,         \* transfers, by id
  Proxies,     \* write-mode proxies of the documents created through the provider
  Kinds,       \* the kinds of transfer started
  Chunks,      \* chunks in a file
  TreeFiles,   \* files in a tree
  MaxSessions, \* bound on the sessions opened
  None

Actors == Ids \cup Proxies
Trees == {"tree", "treeExport"}
AllKinds == {"import", "export", "hash"} \cup Trees
States == {"QUEUED", "RUNNING", "COMPLETED", "CANCELLED", "FAILED"}
Live   == {"QUEUED", "RUNNING"}

\* The contents a writer can hold, and the first n chunks of a source.
Contents == UNION {[1..n -> 0..(Chunks - 1)] : n \in 0..Chunks}
FirstChunks(n) == [i \in 1..n |-> i - 1]

ASSUME TransferAssumption ==
  /\ Ids \cap Proxies = {}
  /\ None \notin Actors /\ None \notin Contents /\ None \notin States
  /\ Kinds \subseteq AllKinds /\ None \notin AllKinds
  /\ Chunks \in Nat \ {0} /\ TreeFiles \in Nat \ {0}
  /\ MaxSessions \in Nat \ {0}

VARIABLES
  phase,      \* the session: unlocked, latched (isLocking), the steps of a teardown, locked
  volume,     \* the number of the session's volume; 0 while its handle is closed
  sessions,   \* sessions opened so far
  doomed,     \* transfers resetTransferLocks has yet to mark
  clearDue,   \* the provider's collector has not yet seen the locked state
  kind, pc,   \* each transfer's kind and where its coroutine is
  st,         \* the state its item shows
  left,       \* files it has yet to land
  lease,      \* the volume its lease gave it
  starting,   \* transfers launched whose job is not in activeJobs yet
  activeJobs, \* activeJobs
  cancelled,  \* transfers whose coroutine is cancelled
  marking,    \* transfers the user is cancelling: the job is cancelled, the item not yet
  locked,     \* transferMutex.isLocked
  inside,     \* who took it: coroutines in withLock, and proxies with writeLockHeld
  open,       \* the volume each actor's FileWriter is open on; 0: closed or none
  sent,       \* what its writer holds: the offsets in the source, in the order written
  landed,     \* the same of the last file each actor finished; None before
  pending,    \* PendingDocuments, by the proxy that serves the document
  created,    \* proxies whose createDocument ran, and how far
  handler,    \* the proxy whose callback the handler thread runs
  at,         \* where that callback is
  offset,     \* the offset onWrite was called with
  writer,     \* proxies whose writer field is set
  next,       \* expectedNextOffset
  erred       \* proxies one of whose onWrite calls failed

session == <<phase, volume, sessions, doomed, clearDue>>
items   == <<kind, pc, st, left, lease, starting, activeJobs, cancelled, marking>>
mutex   == <<locked, inside>>
native  == <<open, sent, landed>>
docs    == <<pending, created, handler, at, offset, writer, next, erred>>
vars    == <<session, items, mutex, native, docs>>

Pcs == {"idle", "launched", "waiting", "entered", "unmarked", "marked", "leased",
        "begin", "streaming", "ready", "checked", "finished", "leaving", "ended"}

TypeOK ==
  /\ phase \in {"unlocked", "latched", "reset", "closing", "locked"}
  /\ volume \in 0..MaxSessions /\ sessions \in 1..MaxSessions
  /\ doomed \subseteq Ids /\ clearDue \in BOOLEAN
  /\ kind \in [Ids -> Kinds \cup {None}] /\ pc \in [Ids -> Pcs]
  /\ st \in [Ids -> States \cup {None}] /\ left \in [Ids -> 0..TreeFiles]
  /\ lease \in [Ids -> 0..MaxSessions]
  /\ starting \subseteq Ids /\ activeJobs \subseteq Ids
  /\ cancelled \subseteq Ids /\ marking \subseteq Ids
  /\ locked \in BOOLEAN /\ inside \subseteq Actors
  /\ open \in [Actors -> 0..MaxSessions] /\ sent \in [Actors -> Contents]
  /\ landed \in [Actors -> Contents \cup {None}]
  /\ pending \subseteq Proxies /\ created \in [Proxies -> {"no", "named", "yes", "open", "shut"}]
  /\ handler \in Proxies \cup {None}
  /\ at \in {"none", "supported", "acquire", "begin", "offset", "write",
             "acquireEmpty", "beginEmpty", "finish"}
  /\ offset \in 0..Chunks /\ writer \subseteq Proxies
  /\ next \in [Proxies -> 0..Chunks] /\ erred \subseteq Proxies

Init ==
  /\ phase = "unlocked" /\ volume = 1 /\ sessions = 1
  /\ doomed = {} /\ clearDue = FALSE
  /\ kind = [t \in Ids |-> None] /\ pc = [t \in Ids |-> "idle"]
  /\ st = [t \in Ids |-> None] /\ left = [t \in Ids |-> 0]
  /\ lease = [t \in Ids |-> 0]
  /\ starting = {} /\ activeJobs = {} /\ cancelled = {} /\ marking = {}
  /\ locked = FALSE /\ inside = {}
  /\ open = [a \in Actors |-> 0] /\ sent = [a \in Actors |-> <<>>]
  /\ landed = [a \in Actors |-> None]
  /\ pending = {} /\ created = [p \in Proxies |-> "no"]
  /\ handler = None /\ at = "none" /\ offset = 0
  /\ writer = {} /\ next = [p \in Proxies |-> 0] /\ erred = {}

-----------------------------------------------------------------------------
(* transferMutex, leases and the native writer.                             *)

Acquire(a) == ~locked /\ locked' = TRUE /\ inside' = inside \cup {a}

\* unlock() opens the mutex whoever holds it; on an open one it throws, and every
\* caller swallows that.
Release(a) == locked' = FALSE /\ inside' = inside \ {a}

\* withLease waits for a teardown to end, and is refused unless the session is unlocked.
Settled == phase \in {"unlocked", "latched", "locked"}
Granted == phase = "unlocked"
Refused == phase \in {"latched", "locked"}

\* beginFile on a volume that is still open.  A second writer is refused by btrfs and
\* not by ext4: the refusal is one of the failures every caller provides for.
Begin(a, v) ==
  /\ v = volume /\ v # 0
  /\ open' = [open EXCEPT ![a] = v]
  /\ sent' = [sent EXCEPT ![a] = <<>>]
  /\ UNCHANGED landed

\* FileWriter.write on a writer that is still open appends, whatever the chunk's offset.
Write(a, o) ==
  /\ open[a] # 0
  /\ sent' = [sent EXCEPT ![a] = Append(@, o)]
  /\ UNCHANGED <<open, landed>>

\* finish consumes the writer; the file has what the writer was sent.
Finish(a) ==
  /\ open[a] # 0
  /\ open' = [open EXCEPT ![a] = 0]
  /\ landed' = [landed EXCEPT ![a] = sent[a]]
  /\ UNCHANGED sent

Close(a) == open' = [open EXCEPT ![a] = 0] /\ UNCHANGED <<sent, landed>>

-----------------------------------------------------------------------------
(* The items, and the coroutine of a transfer.                              *)

Goes(t, to) == pc' = [pc EXCEPT ![t] = to]

\* updateTransfer: an item that was cleared is not there to update.
Shows(t, s) == st' = [st EXCEPT ![t] = IF @ = None THEN None ELSE s]

\* The coroutine is over: what only it used is forgotten.
Retire(t) ==
  /\ Goes(t, "ended")
  /\ kind' = [kind EXCEPT ![t] = None] /\ left' = [left EXCEPT ![t] = 0]
  /\ lease' = [lease EXCEPT ![t] = 0] /\ cancelled' = cancelled \ {t}
  /\ sent' = [sent EXCEPT ![t] = <<>>] /\ landed' = [landed EXCEPT ![t] = None]
  /\ UNCHANGED open

\* startImport, startExport, startDirectoryTransfer, startHash, on the main thread.
Start(t, k) ==
  /\ pc[t] = "idle" /\ starting = {} /\ marking = {}
  /\ kind' = [kind EXCEPT ![t] = k]
  /\ st' = [st EXCEPT ![t] = "QUEUED"]
  /\ left' = [left EXCEPT ![t] = IF k \in Trees THEN TreeFiles ELSE 1]
  /\ Goes(t, "launched")
  /\ starting' = starting \cup {t}
  /\ UNCHANGED <<lease, activeJobs, cancelled, marking, session, mutex, native, docs>>

\* activeJobs[transferId] = job, which a short coroutine may precede.
Register(t) ==
  /\ t \in starting
  /\ starting' = starting \ {t}
  /\ activeJobs' = activeJobs \cup {t}
  /\ UNCHANGED <<kind, pc, st, left, lease, cancelled, marking, session, mutex, native,
                 docs>>

\* A coroutine cancelled before it is dispatched never runs its body.
Dispatch(t) ==
  /\ pc[t] = "launched"
  /\ IF t \in cancelled THEN Retire(t)
     ELSE Goes(t, "waiting") /\ UNCHANGED <<kind, left, lease, cancelled, native>>
  /\ UNCHANGED <<st, starting, activeJobs, marking, session, mutex, docs>>

LockMutex(t) ==
  /\ pc[t] = "waiting" /\ Acquire(t)
  /\ Goes(t, "entered")
  /\ UNCHANGED <<kind, st, left, lease, starting, activeJobs, cancelled, marking, session,
                 native, docs>>

WaitCancelled(t) ==
  /\ pc[t] = "waiting" /\ t \in cancelled
  /\ Retire(t)
  /\ activeJobs' = activeJobs \ {t}
  /\ UNCHANGED <<st, starting, marking, session, mutex, docs>>

CheckCancelled(t) ==
  /\ pc[t] = "entered"
  /\ Goes(t, IF st[t] = "CANCELLED" THEN "leaving" ELSE "unmarked")
  /\ UNCHANGED <<kind, st, left, lease, starting, activeJobs, cancelled, marking, session,
                 mutex, native, docs>>

MarkRunning(t) ==
  /\ pc[t] = "unmarked"
  /\ Shows(t, "RUNNING")
  /\ Goes(t, "marked")
  /\ UNCHANGED <<kind, left, lease, starting, activeJobs, cancelled, marking, session, mutex,
                 native, docs>>

\* A tree runs in the lease's block; the others enter withContext first.
TakeLease(t) ==
  /\ pc[t] = "marked" /\ Granted
  /\ lease' = [lease EXCEPT ![t] = volume]
  /\ Goes(t, IF kind[t] \in Trees THEN "begin" ELSE "leased")
  /\ UNCHANGED <<kind, st, left, starting, activeJobs, cancelled, marking, session, mutex,
                 native, docs>>

\* Refused, or cancelled while it waits for the session's mutex.  Only a tree's
\* failure reaches its item.
LeaseRefused(t) ==
  /\ pc[t] = "marked"
  /\ \/ /\ Refused
        /\ IF kind[t] \in Trees THEN Shows(t, "FAILED") ELSE UNCHANGED st
     \/ ~Settled /\ t \in cancelled /\ UNCHANGED st
  /\ Goes(t, "leaving")
  /\ UNCHANGED <<kind, left, lease, starting, activeJobs, cancelled, marking, session, mutex,
                 native, docs>>

\* withContext refuses a cancelled coroutine; otherwise the item is put (back) in the
\* list as running, and the job registered again.
EnterContext(t) ==
  /\ pc[t] = "leased"
  /\ IF t \in cancelled
     THEN Goes(t, "leaving") /\ UNCHANGED <<st, activeJobs>>
     ELSE /\ Goes(t, "begin")
          /\ st' = [st EXCEPT ![t] = "RUNNING"]
          /\ activeJobs' = activeJobs \cup {t}
  /\ UNCHANGED <<kind, left, lease, starting, cancelled, marking, session, mutex, native,
                 docs>>

Writes(t) == kind[t] \in {"import", "tree"}

\* beginFile, or the first read; a tree, into the volume or out of it, looks at its
\* item between entries.
BeginFile(t) ==
  /\ pc[t] = "begin"
  /\ kind[t] \in Trees => st[t] # "CANCELLED"
  /\ IF Writes(t) THEN Begin(t, lease[t])
     ELSE /\ lease[t] = volume
          /\ sent' = [sent EXCEPT ![t] = <<>>]
          /\ UNCHANGED <<open, landed>>
  /\ Goes(t, IF kind[t] \in Trees THEN "ready" ELSE "streaming")
  /\ UNCHANGED <<kind, st, left, lease, starting, activeJobs, cancelled, marking, session,
                 mutex, docs>>

\* The loop's test: the item and, unless this is a tree, the job.
CheckStream(t) ==
  /\ pc[t] = "streaming" /\ kind[t] # "hash" /\ st[t] # "CANCELLED"
  /\ Len(sent[t]) < Chunks /\ kind[t] \notin Trees => t \notin cancelled
  /\ Goes(t, IF Len(sent[t]) < Chunks THEN "ready" ELSE "checked")
  /\ UNCHANGED <<kind, st, left, lease, starting, activeJobs, cancelled, marking, session,
                 mutex, native, docs>>

MoveChunk(t) ==
  /\ pc[t] = "ready"
  /\ IF Writes(t) THEN Write(t, Len(sent[t]))
     ELSE /\ lease[t] = volume
          /\ sent' = [sent EXCEPT ![t] = Append(@, Len(@))]
          /\ UNCHANGED <<open, landed>>
  /\ Goes(t, "streaming")
  /\ UNCHANGED <<kind, st, left, lease, starting, activeJobs, cancelled, marking, session,
                 mutex, docs>>

FinishFile(t) ==
  /\ pc[t] = "checked"
  /\ IF Writes(t) THEN Finish(t)
     ELSE landed' = [landed EXCEPT ![t] = sent[t]] /\ UNCHANGED <<open, sent>>
  /\ Goes(t, "finished")
  /\ UNCHANGED <<kind, st, left, lease, starting, activeJobs, cancelled, marking, session,
                 mutex, docs>>

\* The next file of a tree, or the end: the item shows COMPLETED.  The digest of a
\* hash is one native call.
Completed(t) ==
  \/ pc[t] = "finished"
  \/ pc[t] = "streaming" /\ kind[t] = "hash" /\ lease[t] = volume

Complete(t) ==
  /\ Completed(t)
  /\ left' = [left EXCEPT ![t] = @ - 1]
  /\ IF left[t] > 1
     THEN Goes(t, "begin") /\ UNCHANGED <<st, activeJobs>>
     ELSE /\ Goes(t, "leaving")
          /\ Shows(t, "COMPLETED")
          /\ activeJobs' = IF kind[t] \in Trees THEN activeJobs ELSE activeJobs \ {t}
  /\ UNCHANGED <<kind, lease, starting, cancelled, marking, session, mutex, native, docs>>

\* Anything thrown between beginFile and the end: the writer is closed, and the item
\* shows CANCELLED when the exception or (in a LuksException) the item says so; a
\* digest that fails has FAILED whatever its item said.
Outcomes(t) ==
  {"FAILED"} \cup {s \in {st[t]} : s = "CANCELLED" /\ kind[t] # "hash"}

StopEarly(t) ==
  /\ pc[t] \in {"begin", "streaming", "ready", "checked", "finished"}
  /\ pc[t] = "finished" => kind[t] = "tree" /\ left[t] = 1   \* commitActiveBatch
  /\ Close(t)
  /\ \E s \in Outcomes(t) : Shows(t, s)
  /\ activeJobs' = IF kind[t] \in Trees THEN activeJobs ELSE activeJobs \ {t}
  /\ Goes(t, "leaving")
  /\ UNCHANGED <<kind, left, lease, starting, cancelled, marking, session, mutex, docs>>

\* The end of withLock, and of the coroutine.  A tree shows what unlock throws.
Leave(t) ==
  /\ pc[t] = "leaving"
  /\ Release(t)
  /\ IF kind[t] \in Trees /\ ~locked THEN Shows(t, "FAILED") ELSE UNCHANGED st
  /\ activeJobs' = activeJobs \ {t}
  /\ Retire(t)
  /\ UNCHANGED <<starting, marking, session, docs>>

\* The jobs that cancel() still finds running.
Reached == {t \in activeJobs : pc[t] # "ended"}

\* cancelTransfer from the transfers screen: the item is read and the job cancelled,
\* then the item is updated whatever it shows by then.
Cancel(t) ==
  /\ starting = {} /\ marking = {} /\ st[t] \in Live
  /\ cancelled' = cancelled \cup ({t} \cap Reached)
  /\ marking' = marking \cup {t}
  /\ UNCHANGED <<kind, pc, st, left, lease, starting, activeJobs, session, mutex, native,
                 docs>>

MarkCancelled(t) ==
  /\ t \in marking
  /\ marking' = marking \ {t}
  /\ Shows(t, "CANCELLED")
  /\ UNCHANGED <<kind, pc, left, lease, starting, activeJobs, cancelled, session, mutex,
                 native, docs>>

\* clearCompleted and removeTransfer: any terminal items leave the list.
ClearItem(t) ==
  /\ st[t] \in States \ Live /\ starting = {} /\ marking = {}
  /\ st' = [st EXCEPT ![t] = None]
  /\ UNCHANGED <<kind, pc, left, lease, starting, activeJobs, cancelled, marking, session,
                 mutex, native, docs>>

-----------------------------------------------------------------------------
(* The session: lock() and its cancellation, teardownHandles, a new unlock.  *)

Latch ==
  /\ phase = "unlocked"
  /\ phase' = "latched"
  /\ UNCHANGED <<volume, sessions, doomed, clearDue, items, mutex, native, docs>>

Unlatch ==
  /\ phase = "latched"
  /\ phase' = "unlocked"
  /\ UNCHANGED <<volume, sessions, doomed, clearDue, items, mutex, native, docs>>

\* lock() after its drain or its timeout, a detach, a fatal write failure.
StartTeardown ==
  /\ phase \in {"unlocked", "latched"}
  /\ phase' = "reset"
  /\ doomed' = activeJobs
  /\ UNCHANGED <<volume, sessions, clearDue, items, mutex, native, docs>>

\* resetTransferLocks: cancelTransfer for each registered job ...
ResetCancels(t) ==
  /\ phase = "reset" /\ t \in doomed
  /\ doomed' = doomed \ {t}
  /\ IF st[t] \in Live
     THEN /\ cancelled' = cancelled \cup ({t} \cap Reached)
          /\ Shows(t, "CANCELLED")
     ELSE UNCHANGED <<cancelled, st>>
  /\ UNCHANGED <<phase, volume, sessions, clearDue, kind, pc, left, lease, starting,
                 activeJobs, marking, mutex, native, docs>>

\* ... then the mutex is opened, whoever is inside.
ResetUnlocks ==
  /\ phase = "reset" /\ doomed = {}
  /\ phase' = "closing"
  /\ locked' = FALSE
  /\ UNCHANGED <<volume, sessions, doomed, clearDue, items, inside, native, docs>>

\* LuksVolume.close: its writers, then its handle.
CloseVolume ==
  /\ phase = "closing"
  /\ phase' = "locked" /\ volume' = 0 /\ clearDue' = TRUE
  /\ open' = [a \in Actors |-> IF open[a] = volume THEN 0 ELSE open[a]]
  /\ UNCHANGED <<sessions, doomed, items, mutex, sent, landed, docs>>

\* The provider's collector sees the locked state, unless a new session replaced it.
CollectLocked ==
  /\ phase = "locked" /\ clearDue
  /\ clearDue' = FALSE
  /\ pending' = {}
  /\ UNCHANGED <<phase, volume, sessions, doomed, items, mutex, native, created,
                 handler, at, offset, writer, next, erred>>

Reopen ==
  /\ phase = "locked" /\ sessions < MaxSessions
  /\ sessions' = sessions + 1
  /\ volume' = sessions + 1
  /\ phase' = "unlocked" /\ clearDue' = FALSE
  /\ UNCHANGED <<doomed, items, mutex, native, docs>>

-----------------------------------------------------------------------------
(* Documents: createDocument, openDocument, deleteDocument.                  *)

Moves(p, to) == created' = [created EXCEPT ![p] = to]

\* The name is chosen under a lease, and registered after it.
NameDocument(p) ==
  /\ created[p] = "no" /\ Granted
  /\ Moves(p, "named")
  /\ UNCHANGED <<session, items, mutex, native, pending, handler, at, offset, writer, next,
                 erred>>

RegisterDocument(p) ==
  /\ created[p] = "named"
  /\ Moves(p, "yes")
  /\ pending' = pending \cup {p}
  /\ UNCHANGED <<session, items, mutex, native, handler, at, offset, writer, next, erred>>

\* A document may be opened twice: the second proxy counts as one of a document of its
\* own, whose registration DeletePending takes when the first one's ends.
OpenDocument(p) ==
  /\ created[p] = "yes" /\ Granted /\ p \in pending
  /\ Moves(p, "open")
  /\ UNCHANGED <<session, items, mutex, native, pending, handler, at, offset, writer, next,
                 erred>>

DeletePending(p) ==
  /\ p \in pending
  /\ pending' = pending \ {p}
  /\ UNCHANGED <<session, items, mutex, native, created, handler, at, offset, writer, next,
                 erred>>

-----------------------------------------------------------------------------
(* LuksProxyCallback, on the handler thread.                                 *)

Runs(p, where) == handler = p /\ at = where
Proceeds(where) == at' = where /\ UNCHANGED <<handler, offset>>
Returns == handler' = None /\ at' = "none" /\ offset' = 0

\* releaseWriteLockIfHeld.
LetGo(p) == IF p \in inside THEN Release(p) ELSE UNCHANGED mutex

\* abandonFile under a lease of its own, which may be refused.
Abandon(p) == IF Granted THEN Close(p) ELSE UNCHANGED native

\* Fault: the lock is left to onRelease.
abandonWrite_KeepsLock(p) ==
  /\ writer' = writer \ {p}
  /\ Abandon(p)
  /\ pending' = pending \ {p}
  /\ UNCHANGED mutex

abandonWrite(p) ==
  /\ writer' = writer \ {p}
  /\ Abandon(p)
  /\ pending' = pending \ {p}
  /\ LetGo(p)

\* onWrite's first lease asks canWrite; the app may pass any offset.
OnWrite(p, o) ==
  /\ handler = None /\ created[p] = "open"
  /\ handler' = p /\ at' = "supported" /\ offset' = o
  /\ UNCHANGED <<session, items, mutex, native, pending, created, writer, next, erred>>

WriteSupported(p) ==
  /\ Runs(p, "supported") /\ Granted
  /\ Proceeds(IF p \in writer THEN "offset" ELSE "acquire")
  /\ UNCHANGED <<session, items, mutex, native, pending, created, writer, next, erred>>

WriteUnsupported(p) ==
  /\ Runs(p, "supported") /\ Refused
  /\ Returns /\ erred' = erred \cup {p}
  /\ UNCHANGED <<session, items, mutex, native, pending, created, writer, next>>

\* Fault: the answer of tryAcquireForSafWrite is not looked at.
AcquireForSaf_Unasked(p) ==
  /\ handler = p /\ at \in {"acquire", "acquireEmpty"}
  /\ locked' = TRUE /\ inside' = inside \cup {p}
  /\ Proceeds(IF at = "acquire" THEN "begin" ELSE "beginEmpty")
  /\ UNCHANGED <<session, items, native, pending, created, writer, next, erred>>

\* tryAcquireForSafWrite.
AcquireForSaf(p) ==
  /\ handler = p /\ at \in {"acquire", "acquireEmpty"}
  /\ Acquire(p)
  /\ Proceeds(IF at = "acquire" THEN "begin" ELSE "beginEmpty")
  /\ UNCHANGED <<session, items, native, pending, created, writer, next, erred>>

\* Fault: a wait with no bound.
AcquireTimesOut_Never(p) == handler = p /\ at = "never" /\ UNCHANGED vars

\* Ten seconds: EBUSY for a write; a release gives the document up.
AcquireTimesOut(p) ==
  /\ handler = p /\ at \in {"acquire", "acquireEmpty"} /\ locked
  /\ Returns
  /\ IF at = "acquire"
     THEN erred' = erred \cup {p} /\ UNCHANGED <<pending, created>>
     ELSE pending' = pending \ {p} /\ Moves(p, "shut") /\ UNCHANGED erred
  /\ UNCHANGED <<session, items, mutex, native, writer, next>>

BeginStreaming(p) ==
  /\ Runs(p, "begin") /\ p \in pending /\ Granted
  /\ Begin(p, volume)
  /\ writer' = writer \cup {p} /\ next' = [next EXCEPT ![p] = 0]
  /\ Proceeds("offset")
  /\ UNCHANGED <<session, items, mutex, pending, created, erred>>

\* No longer pending, no lease, or an error of beginFileStreaming: the lock goes back,
\* the document stays registered.
BeginStreamingFails(p) ==
  /\ Runs(p, "begin") /\ Settled
  /\ LetGo(p)
  /\ Returns /\ erred' = erred \cup {p}
  /\ UNCHANGED <<session, items, native, pending, created, writer, next>>

\* Fault: the offset is taken on trust.
CheckOffset_Trusts(p) ==
  /\ Runs(p, "offset")
  /\ Proceeds("write") /\ UNCHANGED <<mutex, native, pending, writer, erred>>
  /\ UNCHANGED <<session, items, created, next>>

CheckOffset(p) ==
  /\ Runs(p, "offset") /\ Settled
  /\ IF offset = next[p]
     THEN Proceeds("write") /\ UNCHANGED <<mutex, native, pending, writer, erred>>
     ELSE abandonWrite(p) /\ Returns /\ erred' = erred \cup {p}
  /\ UNCHANGED <<session, items, created, next>>

WriteChunk(p) ==
  /\ Runs(p, "write") /\ Granted
  /\ Write(p, offset)
  /\ next' = [next EXCEPT ![p] = @ + 1]
  /\ Returns
  /\ UNCHANGED <<session, items, mutex, pending, created, writer, erred>>

WriteChunkFails(p) ==
  /\ Runs(p, "write") /\ Settled
  /\ abandonWrite(p)
  /\ Returns /\ erred' = erred \cup {p}
  /\ UNCHANGED <<session, items, created, next>>

\* onRelease, the last callback of a proxy: the app closed the descriptor.
OnRelease(p) ==
  /\ handler = None /\ created[p] = "open"
  /\ IF p \in writer \/ p \in pending
     THEN /\ handler' = p /\ UNCHANGED <<created, offset>>
          /\ at' = IF p \in writer THEN "finish" ELSE "acquireEmpty"
     ELSE Moves(p, "shut") /\ UNCHANGED <<handler, at, offset>>
  /\ UNCHANGED <<session, items, mutex, native, pending, writer, next, erred>>

BeginEmpty(p) ==
  /\ Runs(p, "beginEmpty") /\ Granted
  /\ Begin(p, volume)
  /\ Proceeds("finish")
  /\ UNCHANGED <<session, items, mutex, pending, created, writer, next, erred>>

\* The finally block of finishOrAbandon.
Ends(p) ==
  /\ writer' = writer \ {p} /\ pending' = pending \ {p}
  /\ LetGo(p)
  /\ Moves(p, "shut") /\ Returns
  /\ UNCHANGED <<session, items, next, erred>>

BeginEmptyFails(p) ==
  /\ Runs(p, "beginEmpty") /\ Settled
  /\ UNCHANGED native
  /\ Ends(p)

FinishDocument(p) ==
  /\ Runs(p, "finish") /\ p \in pending /\ Granted
  /\ Finish(p)
  /\ Ends(p)

\* No longer pending, no lease, or an error of finishFile: abandon, if a lease is given.
AbandonDocument(p) ==
  /\ Runs(p, "finish") /\ Settled
  /\ Abandon(p)
  /\ Ends(p)

-----------------------------------------------------------------------------
Advance(t) ==
  \/ Register(t) \/ Dispatch(t) \/ LockMutex(t) \/ WaitCancelled(t)
  \/ CheckCancelled(t) \/ MarkRunning(t) \/ TakeLease(t) \/ LeaseRefused(t)
  \/ EnterContext(t) \/ BeginFile(t) \/ CheckStream(t) \/ MoveChunk(t)
  \/ FinishFile(t) \/ Complete(t) \/ StopEarly(t) \/ Leave(t)

Callback(p) ==
  \/ WriteSupported(p) \/ WriteUnsupported(p) \/ AcquireForSaf(p) \/ AcquireTimesOut(p)
  \/ BeginStreaming(p) \/ BeginStreamingFails(p) \/ CheckOffset(p)
  \/ WriteChunk(p) \/ WriteChunkFails(p) \/ BeginEmpty(p) \/ BeginEmptyFails(p)
  \/ FinishDocument(p) \/ AbandonDocument(p)

Teardown == (\E t \in Ids : ResetCancels(t)) \/ ResetUnlocks \/ CloseVolume

Next ==
  \/ \E t \in Ids : \/ \E k \in Kinds : Start(t, k)
                    \/ Advance(t) \/ Cancel(t) \/ MarkCancelled(t) \/ ClearItem(t)
  \/ \E p \in Proxies : \/ NameDocument(p) \/ RegisterDocument(p) \/ OpenDocument(p)
                        \/ DeletePending(p) \/ OnRelease(p) \/ Callback(p)
                        \/ \E o \in 0..(Chunks - 1) : OnWrite(p, o)
  \/ Latch \/ Unlatch \/ StartTeardown \/ Teardown \/ CollectLocked \/ Reopen

Spec == Init /\ [][Next]_vars

\* Coroutines on the IO dispatcher and the handler thread keep running, a teardown ends,
\* and the mutex is handed over in the order of arrival.
Fairness ==
  /\ \A t \in Ids : WF_vars(Advance(t)) /\ SF_vars(LockMutex(t))
  /\ \A p \in Proxies : WF_vars(Callback(p))
  /\ WF_vars(Teardown)

FairSpec == Spec /\ Fairness

-----------------------------------------------------------------------------
\* Until a session is torn down, an import, export, hash or tree and a document
\* written by another app are never inside transferMutex together, and the mutex is
\* locked exactly while one is (tryAcquireForSafWrite, withLock).
TornDown == sessions > 1 \/ phase \in {"closing", "locked"}

Serialised ==
  TornDown \/ /\ \A a, b \in inside : a = b
              /\ locked <=> inside # {}

\* The mutex is never locked with nobody left to unlock it, whatever resets came
\* between; and between two callbacks a proxy holds it exactly while it has a writer,
\* so every error path of onWrite gave it back (abandonWrite, releaseWriteLockIfHeld).
LockGivenBack ==
  /\ locked => inside # {}
  /\ \A p \in Proxies : handler # p => (p \in inside <=> p \in writer)

\* A file that lands is whole: an import's has every chunk of the source, and a
\* document's has the chunks whose onWrite returned, in their order.  COMPLETED is
\* shown for an import only when its file is there.
LandsWhole ==
  /\ TypeOK
  /\ \A t \in Ids : kind[t] = "import" /\ landed[t] # None
                       => landed[t] = FirstChunks(Chunks)
  /\ \A t \in Ids : kind[t] = "import" /\ st[t] = "COMPLETED" => landed[t] # None
  /\ \A p \in Proxies : landed[p] # None => landed[p] = FirstChunks(next[p])

\* A document one of whose writes failed is abandoned and leaves no file, as the class
\* comment of LuksProxyCallback says of every error path.
NoHalfFile == \A p \in erred : landed[p] = None

\* Every callback returns, so the one handler thread is free again for the callbacks
\* of the document that holds the mutex (the bounded wait of tryAcquireForSafWrite).
HandlerReturns == \A p \in Proxies : handler = p ~> handler = None

=============================================================================
