--------------------------- MODULE TransfersProofs ---------------------------
(* That transferMutex serialises transfers and documents until a teardown, and is  *)
(* given back on every path, for any number of transfers, documents and sessions.  *)
EXTENDS Transfers, TLAPS

\* Where a coroutine is inside withLock.
Held == {"entered", "unmarked", "marked", "leased", "begin", "streaming", "ready",
         "checked", "finished", "leaving"}

\* What the code between lock and unlock relies on.  A coroutine in withLock took the
\* mutex, unless a reset may have opened it for another since.
Exclusive ==
  TornDown \/ /\ \A a, b \in inside : a = b
              /\ locked <=> inside # {}
              /\ \A t \in Ids : pc[t] \in Held => t \in inside

\* What the running callback has taken so far.
CallbackHolds ==
  \A p \in Proxies : handler = p =>
    /\ at # "none"
    /\ at = "supported" => (p \in inside <=> p \in writer)
    /\ at \in {"acquire", "acquireEmpty"} => p \notin inside /\ p \notin writer
    /\ at \in {"begin", "beginEmpty"} => p \in inside /\ p \notin writer
    /\ at \in {"offset", "write"} => p \in inside /\ p \in writer
    /\ at = "finish" => p \in inside

Shape ==
  /\ pc \in [Ids -> Pcs] /\ sessions \in Nat /\ sessions > 0
  /\ handler \in Proxies \cup {None}

IInv == Shape /\ Exclusive /\ LockGivenBack /\ CallbackHolds

\* The mutex starts open, with nobody inside.
LEMMA InitInv == Init => IInv
<1> SUFFICES ASSUME Init PROVE IInv
  BY Zenon
<1>1. Shape
  BY DEF Init, Shape, Pcs
<1>2. Exclusive
  BY Zenon DEF Init, Exclusive, Held
<1>3. LockGivenBack /\ CallbackHolds
  BY Zenon, TransferAssumption DEF Init, LockGivenBack, CallbackHolds, Actors
<1>4. QED BY Zenon, <1>1, <1>2, <1>3 DEF IInv

\* A coroutine's step outside withLock's ends leaves the mutex and who is inside.
LEMMA CoroutineStep ==
  ASSUME IInv, NEW t \in Ids,
         \/ \E k \in Kinds : Start(t, k)
         \/ Register(t) \/ Dispatch(t) \/ WaitCancelled(t) \/ CheckCancelled(t)
         \/ MarkRunning(t) \/ TakeLease(t) \/ LeaseRefused(t) \/ EnterContext(t)
         \/ BeginFile(t) \/ CheckStream(t) \/ MoveChunk(t) \/ FinishFile(t) \/ Complete(t)
         \/ StopEarly(t) \/ Cancel(t) \/ MarkCancelled(t) \/ ClearItem(t)
  PROVE  IInv'
<1> USE DEF IInv, Shape, Exclusive, LockGivenBack, CallbackHolds, TornDown, Pcs, Held, mutex,
            docs, session, Goes, Retire
<1>1. UNCHANGED <<mutex, docs, phase, sessions>>
  BY Zenon DEF Start, Register, Dispatch, WaitCancelled, CheckCancelled, MarkRunning, TakeLease,
         LeaseRefused, EnterContext, BeginFile, CheckStream, MoveChunk, FinishFile, Complete,
         StopEarly, Cancel, MarkCancelled, ClearItem
<1>2. /\ pc' \in [Ids -> Pcs]
      /\ \A u \in Ids : pc'[u] \in Held => pc[u] \in Held
  <2>1. CASE \E to \in Pcs : Goes(t, to) /\ (to \in Held => pc[t] \in Held)
    BY <2>1
  <2>2. CASE UNCHANGED pc
    BY Zenon, <2>2
  <2>3. CASE \/ \E k \in Kinds : Start(t, k)
             \/ Dispatch(t) \/ WaitCancelled(t) \/ CheckCancelled(t) \/ MarkRunning(t)
             \/ TakeLease(t) \/ LeaseRefused(t)
    BY <2>1, <2>3, Zenon DEF Start, Dispatch, WaitCancelled, CheckCancelled, MarkRunning, TakeLease,
                      LeaseRefused
  <2>4. CASE \/ EnterContext(t) \/ BeginFile(t) \/ CheckStream(t) \/ MoveChunk(t)
             \/ FinishFile(t) \/ Complete(t) \/ StopEarly(t)
    BY <2>1, <2>4, Zenon DEF EnterContext, BeginFile, CheckStream, MoveChunk, FinishFile, Complete,
                      Completed, StopEarly
  <2>5. CASE Register(t) \/ Cancel(t) \/ MarkCancelled(t) \/ ClearItem(t)
    BY <2>2, <2>5, Zenon DEF Register, Cancel, MarkCancelled, ClearItem
  <2>6. QED BY Zenon, <2>3, <2>4, <2>5
<1>3. QED BY Zenon, <1>1, <1>2

\* withLock is entered only while the mutex is open.
LEMMA LockMutexStep ==
  ASSUME IInv, NEW t \in Ids, LockMutex(t)
  PROVE  IInv'
<1> USE DEF LockMutex, Acquire, Goes, docs, session
<1>1. t \notin Proxies
  BY Zenon, TransferAssumption
<1>2. Shape'
  BY Zenon DEF IInv, Shape, Pcs
<1>3. Exclusive'
  BY Zenon DEF IInv, Shape, Exclusive, TornDown, Held, Pcs
<1>4. LockGivenBack' /\ CallbackHolds'
  BY Zenon, <1>1 DEF IInv, LockGivenBack, CallbackHolds
<1>5. QED BY Zenon, <1>2, <1>3, <1>4 DEF IInv

\* Leaving opens the mutex; before a reset nobody else was inside.
LEMMA LeaveStep ==
  ASSUME IInv, NEW t \in Ids, Leave(t)
  PROVE  IInv'
<1> USE DEF Leave, Release, Retire, Goes, docs, session
<1>1. t \notin Proxies
  BY Zenon, TransferAssumption
<1>2. Shape'
  BY Zenon DEF IInv, Shape, Pcs
<1>3. Exclusive'
  BY Zenon DEF IInv, Shape, Exclusive, TornDown, Held, Pcs
<1>4. LockGivenBack' /\ CallbackHolds'
  BY Zenon, <1>1 DEF IInv, LockGivenBack, CallbackHolds
<1>5. QED BY Zenon, <1>2, <1>3, <1>4 DEF IInv

\* A teardown opens the mutex, and after it exclusion is no longer claimed.
LEMMA SessionStep ==
  ASSUME IInv,
         \/ Latch \/ Unlatch \/ StartTeardown \/ (\E t \in Ids : ResetCancels(t))
         \/ ResetUnlocks \/ CloseVolume \/ CollectLocked \/ Reopen
  PROVE  IInv'
<1> USE DEF Latch, Unlatch, StartTeardown, ResetCancels, ResetUnlocks, CloseVolume,
            CollectLocked, Reopen, items, mutex, docs
<1>1. UNCHANGED <<pc, handler>> /\ sessions' \in {sessions, sessions + 1}
  BY Zenon DEF items, docs
<1>2. Shape'
  BY <1>1 DEF IInv, Shape
<1>3. Exclusive'
  BY DEF IInv, Shape, Exclusive, TornDown
<1>4. LockGivenBack' /\ CallbackHolds'
  BY DEF IInv, LockGivenBack, CallbackHolds
<1>5. QED BY <1>2, <1>3, <1>4, Zenon DEF IInv

\* Creating, opening and deleting a document touch neither mutex nor writer.
LEMMA DocumentStep ==
  ASSUME IInv, NEW p \in Proxies,
         \/ NameDocument(p) \/ RegisterDocument(p) \/ OpenDocument(p) \/ DeletePending(p)
         \/ OnRelease(p) \/ \E o \in 0..(Chunks - 1) : OnWrite(p, o)
  PROVE  IInv'
<1> USE DEF NameDocument, RegisterDocument, OpenDocument, DeletePending, OnRelease, OnWrite,
            items, mutex, session
<1>1. Shape' /\ Exclusive'
  BY DEF IInv, Shape, Exclusive, TornDown
<1>2. LockGivenBack' /\ CallbackHolds'
  BY TransferAssumption DEF IInv, Shape, LockGivenBack, CallbackHolds, Actors
<1>3. QED BY <1>1, <1>2, Zenon DEF IInv

\* A callback that takes the mutex, or gives it back where it held it.
LEMMA CallbackStep ==
  ASSUME IInv, NEW p \in Proxies, Callback(p)
  PROVE  IInv'
<1> USE DEF Runs, Proceeds, Returns, LetGo, Acquire, Release, abandonWrite, Ends
<1>1. p # None /\ p \notin Ids
  BY Zenon, TransferAssumption DEF Actors
<1>2. UNCHANGED <<session, items>>
  BY Zenon DEF Callback, WriteSupported, WriteUnsupported, AcquireForSaf, AcquireTimesOut,
         BeginStreaming, BeginStreamingFails, CheckOffset, WriteChunk, WriteChunkFails,
         BeginEmpty, BeginEmptyFails, FinishDocument, AbandonDocument
<1>3. \/ UNCHANGED mutex \/ Acquire(p) \/ (p \in inside /\ Release(p))
  BY Zenon DEF Callback, WriteSupported, WriteUnsupported, AcquireForSaf, AcquireTimesOut,
         BeginStreaming, BeginStreamingFails, CheckOffset, WriteChunk, WriteChunkFails,
         BeginEmpty, BeginEmptyFails, FinishDocument, AbandonDocument
<1>4. Shape'
  BY <1>2, <1>3, Zenon DEF IInv, Shape, items, session, mutex, Callback, WriteSupported,
         WriteUnsupported, AcquireForSaf, AcquireTimesOut,
         BeginStreaming, BeginStreamingFails, CheckOffset, WriteChunk, WriteChunkFails,
         BeginEmpty, BeginEmptyFails, FinishDocument, AbandonDocument
<1>5. Exclusive'
  BY Zenon, <1>1, <1>2, <1>3 DEF IInv, Shape, Exclusive, TornDown, items, session, mutex
<1>6. (locked => inside # {})'
  BY <1>3, Zenon DEF IInv, LockGivenBack, mutex
<1>7. ASSUME NEW q \in Proxies, q # p
      PROVE  handler' # q /\ (q \in inside' <=> q \in writer')
  <2>1. handler = p /\ handler' \in {p, None}
    BY Zenon DEF Callback, WriteSupported, WriteUnsupported, AcquireForSaf, AcquireTimesOut,
         BeginStreaming, BeginStreamingFails, CheckOffset, WriteChunk, WriteChunkFails,
         BeginEmpty, BeginEmptyFails, FinishDocument, AbandonDocument
  <2>2. writer' \in {writer, writer \cup {p}, writer \ {p}}
    BY Zenon DEF Callback, WriteSupported, WriteUnsupported, AcquireForSaf, AcquireTimesOut,
         BeginStreaming, BeginStreamingFails, CheckOffset, WriteChunk, WriteChunkFails,
         BeginEmpty, BeginEmptyFails, FinishDocument, AbandonDocument
  <2>3. q # None
    BY Zenon, TransferAssumption DEF Actors
  <2>4. QED BY Zenon, <1>3, <1>7, <2>1, <2>2, <2>3 DEF IInv, LockGivenBack, mutex
<1>8. \/ handler' = None /\ (p \in inside' <=> p \in writer')
      \/ /\ handler' = p
         /\ \/ at' \in {"acquire", "acquireEmpty"} /\ p \notin inside' /\ p \notin writer'
            \/ at' \in {"begin", "beginEmpty"} /\ p \in inside' /\ p \notin writer'
            \/ at' \in {"offset", "write"} /\ p \in inside' /\ p \in writer'
            \/ at' = "finish" /\ p \in inside'
  <2> USE <1>1 DEF IInv, CallbackHolds, mutex
  <2>1. CASE WriteSupported(p) \/ WriteUnsupported(p)
    BY Zenon, <2>1 DEF WriteSupported, WriteUnsupported
  <2>2. CASE AcquireForSaf(p) \/ AcquireTimesOut(p)
    BY Zenon, <2>2 DEF AcquireForSaf, AcquireTimesOut
  <2>3. CASE BeginStreaming(p) \/ BeginStreamingFails(p)
    BY Zenon, <2>3 DEF BeginStreaming, BeginStreamingFails
  <2>4. CASE CheckOffset(p)
    BY Zenon, <2>4 DEF CheckOffset
  <2>5. CASE WriteChunk(p) \/ WriteChunkFails(p)
    BY Zenon, <2>5 DEF WriteChunk, WriteChunkFails
  <2>6. CASE BeginEmpty(p)
    BY Zenon, <2>6 DEF BeginEmpty
  <2>7. CASE BeginEmptyFails(p) \/ FinishDocument(p) \/ AbandonDocument(p)
    BY Zenon, <2>7 DEF BeginEmptyFails, FinishDocument, AbandonDocument
  <2>8. QED BY Zenon, <2>1, <2>2, <2>3, <2>4, <2>5, <2>6, <2>7 DEF Callback
<1>9. LockGivenBack' /\ CallbackHolds'
  BY Zenon, <1>1, <1>6, <1>7, <1>8 DEF LockGivenBack, CallbackHolds
<1>10. QED BY Zenon, <1>4, <1>5, <1>9 DEF IInv

\* Every step keeps the invariant.
LEMMA NextInv == IInv /\ [Next]_vars => IInv'
<1> SUFFICES ASSUME IInv, [Next]_vars PROVE IInv'
  BY Zenon
<1>1. CASE UNCHANGED vars
  BY Zenon, <1>1 DEF vars, session, items, mutex, docs, IInv, Shape, Exclusive, TornDown,
              LockGivenBack, CallbackHolds
<1>2. CASE Next
  BY <1>2, CoroutineStep, LockMutexStep, LeaveStep, SessionStep, DocumentStep, CallbackStep, Zenon
     DEF Next, Advance, Teardown
<1>3. QED BY Zenon, <1>1, <1>2

\* The inductive invariant: who is inside, what locked says of it, and at which points of
\* a callback its proxy holds the mutex (tryAcquireForSafWrite, releaseWriteLockIfHeld).
THEOREM Invariance == Spec => []IInv
BY InitInv, NextInv, PTL DEF Spec

\* Until a session is torn down, the mutex has one holder at most, and it is locked
\* exactly while it has one.
THEOREM MutexSerialises == Spec => []Serialised
<1>1. IInv => Serialised
  BY Zenon DEF IInv, Exclusive, Serialised
<1>2. QED BY <1>1, Invariance, PTL

\* No reset, timeout, cancellation or failed callback leaves the mutex locked with
\* nobody inside, or a proxy holding it without a writer.
THEOREM MutexGivenBack == Spec => []LockGivenBack
<1>1. IInv => LockGivenBack
  BY Zenon DEF IInv
<1>2. QED BY <1>1, Invariance, PTL

-----------------------------------------------------------------------------
(* What lands is whole: the chunks of a writer, from the stream loop or from    *)
(* onWrite, in their order, and a file only when they are all there.            *)

\* Where a coroutine still has files to land.
Landing == Pcs \ {"idle", "leaving", "ended"}

\* An actor's writer holds the first chunks of its source, in their order.
InOrder ==
  \A a \in Actors : Len(sent[a]) \in 0..Chunks /\ sent[a] = FirstChunks(Len(sent[a]))

\* How far the file of a transfer is, at each point of its coroutine.
StreamedTo(t) ==
  /\ pc[t] = "idle" => landed[t] = None
  /\ pc[t] \in Landing => left[t] > 0
  /\ pc[t] = "ready" => Len(sent[t]) < Chunks
  /\ pc[t] = "checked" => Len(sent[t]) = Chunks
  /\ pc[t] = "finished" => landed[t] # None
  /\ landed[t] # None => landed[t] = FirstChunks(Chunks)
  /\ kind[t] = "import" /\ st[t] = "COMPLETED" => landed[t] # None

Streamed == \A t \in Ids : StreamedTo(t)

\* expectedNextOffset is the length of what the proxy's writer holds, and zero for a
\* document that is pending without a writer: onRelease may land it empty.
Documented ==
  \A p \in Proxies :
    /\ landed[p] # None => created[p] = "shut" /\ landed[p] = FirstChunks(next[p])
    /\ p \in writer => Len(sent[p]) = next[p]
    /\ created[p] \in {"no", "named"} => next[p] = 0
    /\ p \in pending /\ p \notin writer => next[p] = 0

\* What the running callback knows of its document.
CallbackKnows ==
  \A p \in Proxies : handler = p =>
    /\ created[p] = "open"
    /\ at = "finish" => Len(sent[p]) = next[p]
    /\ at \in {"acquireEmpty", "beginEmpty"} => next[p] = 0
    /\ at \in {"supported", "acquire", "begin", "offset", "write"} => offset < Chunks
    /\ at = "write" => offset = next[p]

WholeInv == TypeOK /\ InOrder /\ Streamed /\ Documented /\ CallbackKnows

\* The first n chunks are n chunks, a possible content and no None; one more chunk
\* makes them the first n + 1.
LEMMA FirstChunksFacts ==
  ASSUME NEW n \in 0..Chunks
  PROVE  /\ FirstChunks(n) \in Contents /\ FirstChunks(n) # None
         /\ Len(FirstChunks(n)) = n
         /\ n = 0 => FirstChunks(n) = <<>>
         /\ Append(FirstChunks(n), n) = FirstChunks(n + 1)
<1>1. FirstChunks(n) \in [1..n -> 0..(Chunks - 1)]
  BY TransferAssumption DEF FirstChunks
<1>2. FirstChunks(n) \in Contents
  BY Zenon, <1>1 DEF Contents
<1>3. FirstChunks(n) \in Seq(Nat) /\ Len(FirstChunks(n)) = n
  BY TransferAssumption DEF FirstChunks
<1>4. n = 0 => FirstChunks(n) = <<>>
  BY <1>3
<1>5. Append(FirstChunks(n), n) = FirstChunks(n + 1)
  BY <1>3 DEF FirstChunks
<1>6. QED BY Zenon, <1>2, <1>3, <1>4, <1>5, TransferAssumption

\* The steps of a transfer that move its coroutine, item and job, and those that reach
\* its writer or end its coroutine.
ItemStep(t) ==
  \/ \E k \in Kinds : Start(t, k)
  \/ Register(t) \/ LockMutex(t) \/ CheckCancelled(t) \/ MarkRunning(t) \/ TakeLease(t)
  \/ LeaseRefused(t) \/ EnterContext(t) \/ CheckStream(t) \/ Complete(t)
  \/ Cancel(t) \/ MarkCancelled(t) \/ ClearItem(t)

StreamStep(t) ==
  \/ Dispatch(t) \/ WaitCancelled(t) \/ BeginFile(t) \/ MoveChunk(t) \/ FinishFile(t)
  \/ StopEarly(t) \/ Leave(t)

\* The first leave the writer and every document alone.
LEMMA WholeItems ==
  ASSUME WholeInv, NEW t \in Ids, ItemStep(t)
  PROVE  WholeInv'
<1> USE TransferAssumption
<1>1. /\ pc \in [Ids -> Pcs] /\ kind \in [Ids -> Kinds \cup {None}]
      /\ st \in [Ids -> States \cup {None}] /\ left \in [Ids -> 0..TreeFiles]
  BY Zenon DEF WholeInv, TypeOK
<1>2. UNCHANGED <<native, docs, session>>
  BY Zenon DEF ItemStep, Start, Register, LockMutex, CheckCancelled, MarkRunning, TakeLease, LeaseRefused,
         EnterContext, CheckStream, Complete, Cancel, MarkCancelled, ClearItem
<1>3. TypeOK'
  <2> USE <1>2 DEF WholeInv, TypeOK, native, docs, session, mutex, Goes, Shows, Pcs, States, Actors
  <2>1. CASE \E k \in Kinds : Start(t, k)
    BY <2>1 DEF Start
  <2>2. CASE Register(t) \/ CheckCancelled(t)
    BY <2>2 DEF Register, CheckCancelled
  <2>3. CASE LockMutex(t)
    BY <2>3 DEF LockMutex, Acquire
  <2>4. CASE MarkRunning(t)
    BY <2>4 DEF MarkRunning
  <2>5. CASE TakeLease(t) \/ LeaseRefused(t) \/ EnterContext(t)
    BY <2>5 DEF TakeLease, LeaseRefused, EnterContext
  <2>6. CASE CheckStream(t)
    BY SMTT(30), <2>6 DEF CheckStream
  <2>7. CASE Complete(t)
    <3>1. left[t] > 0
      BY <2>7, Zenon DEF Complete, Completed, Streamed, StreamedTo, Landing
    <3>2. QED BY <2>7, <3>1 DEF Complete
  <2>8. CASE Cancel(t) \/ MarkCancelled(t) \/ ClearItem(t)
    BY <2>8 DEF Cancel, MarkCancelled, ClearItem, Reached, Live
  <2>9. QED BY <2>1, <2>2, <2>5, <2>6, <2>7, <2>8, <2>4, <2>3, Zenon DEF ItemStep
<1>4. InOrder' /\ Documented' /\ CallbackKnows'
  BY Zenon, <1>2 DEF WholeInv, InOrder, Documented, CallbackKnows, native, docs
<1>5. Streamed'
  <2>1. ASSUME NEW u \in Ids, u # t PROVE StreamedTo(u)'
    <3>1. UNCHANGED <<pc[u], kind[u], st[u], left[u]>>
      BY <1>1, <2>1 DEF ItemStep, Start, Register, LockMutex, CheckCancelled,
                  MarkRunning, TakeLease, LeaseRefused, EnterContext, CheckStream, Complete,
                  Cancel, MarkCancelled, ClearItem, Goes, Shows
    <3>2. QED BY Zenon, <1>2, <3>1 DEF WholeInv, Streamed, StreamedTo, native
  <2>2. StreamedTo(t)'
    <3>1. StreamedTo(t) /\ UNCHANGED <<sent, landed>>
      BY Zenon, <1>2 DEF WholeInv, Streamed, native
    <3> USE <1>1, <3>1 DEF StreamedTo, Landing, Goes, Shows, Pcs
    <3>2. CASE \E k \in Kinds : Start(t, k)
      BY <3>2 DEF Start
    <3>3. CASE Register(t) \/ LockMutex(t) \/ CheckCancelled(t) \/ MarkRunning(t)
      BY Zenon, <3>3 DEF Register, LockMutex, CheckCancelled, MarkRunning
    <3>4. CASE TakeLease(t) \/ LeaseRefused(t) \/ EnterContext(t)
      BY Zenon, <3>4 DEF TakeLease, LeaseRefused, EnterContext
    <3>5. CASE CheckStream(t)
      BY <3>5 DEF CheckStream, WholeInv, InOrder, Actors
    <3>6. CASE Complete(t)
      BY <3>6 DEF Complete, Completed
    <3>7. CASE Cancel(t) \/ MarkCancelled(t) \/ ClearItem(t)
      BY Zenon, <3>7 DEF Cancel, MarkCancelled, ClearItem, States
    <3>8. QED BY <3>2, <3>3, <3>4, <3>5, <3>6, <3>7, Zenon DEF ItemStep
  <2>3. QED BY Zenon, <2>1, <2>2 DEF Streamed
<1>6. QED BY Zenon, <1>3, <1>4, <1>5 DEF WholeInv

\* The others extend what the transfer sent by its next chunk, land it, or drop it.
LEMMA WholeStream ==
  ASSUME WholeInv, NEW t \in Ids, StreamStep(t)
  PROVE  WholeInv'
<1> USE TransferAssumption
<1> t \in Actors /\ t \notin Proxies
  BY Zenon DEF Actors
<1>1. /\ sent \in [Actors -> Contents] /\ landed \in [Actors -> Contents \cup {None}]
      /\ open \in [Actors -> 0..MaxSessions] /\ lease \in [Ids -> 0..MaxSessions]
      /\ pc \in [Ids -> Pcs] /\ kind \in [Ids -> Kinds \cup {None}]
      /\ st \in [Ids -> States \cup {None}] /\ left \in [Ids -> 0..TreeFiles]
  BY Zenon DEF WholeInv, TypeOK
<1>2. /\ UNCHANGED <<docs, session>>
      /\ \E S : sent' = [sent EXCEPT ![t] = S]
      /\ \E L : landed' = [landed EXCEPT ![t] = L]
      /\ \E v \in 0..MaxSessions : open' = [open EXCEPT ![t] = v]
  <2> USE <1>1 DEF native, Retire
  <2>1. CASE Dispatch(t) \/ WaitCancelled(t) \/ Leave(t)
    BY <2>1 DEF Dispatch, WaitCancelled, Leave
  <2>2. CASE BeginFile(t)
    BY <2>2 DEF BeginFile, Begin
  <2>3. CASE MoveChunk(t)
    BY <2>3 DEF MoveChunk, Write
  <2>4. CASE FinishFile(t) \/ StopEarly(t)
    BY <2>4 DEF FinishFile, StopEarly, Finish, Close
  <2>5. QED BY Zenon, <2>1, <2>2, <2>3, <2>4 DEF StreamStep
<1>3. sent'[t] = FirstChunks(Len(sent'[t])) /\ Len(sent'[t]) \in 0..Chunks
  <2>1. sent \in [Actors -> Contents] /\ Len(sent[t]) \in 0..Chunks
        /\ sent[t] = FirstChunks(Len(sent[t]))
    BY Zenon DEF WholeInv, TypeOK, InOrder
  <2>2. CASE sent'[t] = sent[t]
    BY Zenon, <2>1, <2>2
  <2>3. CASE sent'[t] = <<>>
    BY <2>3, FirstChunksFacts
  <2>4. CASE MoveChunk(t)
    <3>1. Len(sent[t]) < Chunks
      BY Zenon, <2>4 DEF MoveChunk, WholeInv, Streamed, StreamedTo
    <3>2. sent'[t] = Append(sent[t], Len(sent[t]))
      BY Zenon, <2>1, <2>4 DEF MoveChunk, Write
    <3>3. Len(sent[t]) + 1 \in 0..Chunks
      BY <2>1, <3>1
    <3>4. sent'[t] = FirstChunks(Len(sent[t]) + 1)
      BY <2>1, <3>2, FirstChunksFacts, Zenon
    <3>5. Len(FirstChunks(Len(sent[t]) + 1)) = Len(sent[t]) + 1
      BY Zenon, <3>3, FirstChunksFacts
    <3>6. QED BY Zenon, <3>3, <3>4, <3>5
  <2>5. CASE ~MoveChunk(t)
    <3>1. sent'[t] \in {sent[t], <<>>}
      BY <2>1, <2>5, Zenon DEF StreamStep, Dispatch, WaitCancelled, BeginFile, Begin, FinishFile, Finish, StopEarly,
                        Close, Leave, Retire, native
    <3>2. QED BY Zenon, <2>2, <2>3, <3>1
  <2>6. QED BY Zenon, <2>4, <2>5
<1>4. landed'[t] \in {landed[t], None, sent[t]}
  BY <1>1, Zenon DEF StreamStep, Dispatch, WaitCancelled, BeginFile, Begin, MoveChunk, Write, FinishFile, Finish,
         StopEarly, Close, Leave, Retire, native
<1>5. TypeOK'
  <2>1. /\ sent' \in [Actors -> Contents] /\ landed' \in [Actors -> Contents \cup {None}]
        /\ open' \in [Actors -> 0..MaxSessions]
    <3>1. sent'[t] \in Contents /\ landed'[t] \in Contents \cup {None}
      BY Zenon, <1>1, <1>3, <1>4, FirstChunksFacts
    <3>2. QED BY <1>1, <1>2, <3>1
  <2>2. /\ kind' \in [Ids -> Kinds \cup {None}] /\ pc' \in [Ids -> Pcs]
        /\ left' \in [Ids -> 0..TreeFiles] /\ lease' \in [Ids -> 0..MaxSessions]
        /\ cancelled' \subseteq Ids
    <3>1. cancelled \subseteq Ids
      BY Zenon DEF WholeInv, TypeOK
    <3> USE <1>1, <3>1 DEF Goes, Pcs
    <3>2. CASE Retire(t)
      BY <3>2 DEF Retire
    <3>3. CASE (Dispatch(t) \/ WaitCancelled(t) \/ Leave(t)) /\ ~Retire(t)
      BY Zenon, <3>3 DEF Dispatch, WaitCancelled, Leave
    <3>4. CASE BeginFile(t) \/ MoveChunk(t) \/ FinishFile(t) \/ StopEarly(t)
      BY <3>4, Zenon DEF BeginFile, MoveChunk, FinishFile, StopEarly
    <3>5. QED BY Zenon, <3>2, <3>4, <3>3 DEF StreamStep
  <2>3. st' \in [Ids -> States \cup {None}] /\ activeJobs' \subseteq Ids
    <3>1. activeJobs \subseteq Ids
      BY Zenon DEF WholeInv, TypeOK
    <3> USE <1>1, <3>1 DEF Shows, States
    <3>2. CASE Dispatch(t) \/ WaitCancelled(t) \/ Leave(t)
      BY Zenon, <3>2 DEF Dispatch, WaitCancelled, Leave
    <3>3. CASE BeginFile(t) \/ MoveChunk(t) \/ FinishFile(t)
      BY <3>3, Zenon DEF BeginFile, MoveChunk, FinishFile
    <3>4. CASE StopEarly(t)
      BY Zenon, <3>4 DEF StopEarly, Outcomes
    <3>5. QED BY Zenon, <3>2, <3>3, <3>4 DEF StreamStep
  <2>4. /\ UNCHANGED <<starting, marking>>
        /\ locked' \in BOOLEAN /\ inside' \subseteq Actors
    BY Zenon DEF StreamStep, Dispatch, WaitCancelled, BeginFile, MoveChunk, FinishFile, StopEarly, Leave, Release,
           mutex, WholeInv, TypeOK
  <2>5. QED BY Zenon, <1>2, <2>1, <2>2, <2>3, <2>4 DEF WholeInv, TypeOK, docs, session
<1>6. InOrder'
  BY Zenon, <1>1, <1>2, <1>3 DEF WholeInv, InOrder
<1>7. Documented' /\ CallbackKnows'
  <2>1. \A p \in Proxies : sent'[p] = sent[p] /\ landed'[p] = landed[p]
    BY Zenon, <1>1, <1>2 DEF Actors
  <2>2. QED BY Zenon, <1>2, <2>1 DEF WholeInv, Documented, CallbackKnows, docs
<1>8. Streamed'
  <2>1. ASSUME NEW u \in Ids, u # t PROVE StreamedTo(u)'
    <3>1. u \in Actors /\ u # t
      BY Zenon, <2>1 DEF Actors
    <3>2. UNCHANGED <<sent[u], landed[u]>>
      BY Zenon, <1>1, <1>2, <3>1
    <3>3. UNCHANGED <<pc[u], kind[u], st[u], left[u]>>
      BY <1>1, <2>1 DEF StreamStep, Dispatch, WaitCancelled, BeginFile, MoveChunk,
                  FinishFile, StopEarly, Leave, Retire, Goes, Shows
    <3>4. QED BY Zenon, <3>2, <3>3 DEF WholeInv, Streamed, StreamedTo
  <2>2. StreamedTo(t)'
    <3>1. StreamedTo(t)
      BY Zenon DEF WholeInv, Streamed
    <3> USE <1>1, <3>1 DEF StreamedTo, Landing, Goes, Shows, Pcs
    <3>2. CASE Retire(t)
      BY Zenon, <3>2 DEF Retire, AllKinds
    <3>3. CASE (Dispatch(t) \/ WaitCancelled(t) \/ Leave(t)) /\ ~Retire(t)
      BY Zenon, <3>3 DEF Dispatch, WaitCancelled, Leave, native
    <3>4. CASE BeginFile(t)
      BY <3>4, FirstChunksFacts DEF BeginFile, Begin
    <3>5. CASE MoveChunk(t)
      BY <3>5, Zenon DEF MoveChunk, Write
    <3>6. CASE FinishFile(t)
      <4>1. landed'[t] = FirstChunks(Chunks) /\ landed'[t] # None
        BY Zenon, <3>6, FirstChunksFacts DEF FinishFile, Finish, WholeInv, InOrder
      <4>2. QED BY Zenon, <3>6, <4>1 DEF FinishFile
    <3>7. CASE StopEarly(t)
      BY Zenon, <3>7 DEF StopEarly, Close, Outcomes
    <3>8. QED BY <3>2, <3>4, <3>5, <3>6, <3>7, <3>3, Zenon DEF StreamStep
  <2>3. QED BY Zenon, <2>1, <2>2 DEF Streamed
<1>9. QED BY Zenon, <1>5, <1>6, <1>7, <1>8 DEF WholeInv

\* Steps of the session: a closed volume closes its writers, a lock empties the registry.
LEMMA WholeSession ==
  ASSUME WholeInv,
         \/ Latch \/ Unlatch \/ StartTeardown \/ (\E t \in Ids : ResetCancels(t))
         \/ ResetUnlocks \/ CloseVolume \/ CollectLocked \/ Reopen
  PROVE  WholeInv'
<1> USE TransferAssumption
<1>1. /\ UNCHANGED <<sent, landed, kind, pc, left, lease, starting, activeJobs, marking, inside,
                     created, handler, at, offset, writer, next, erred>>
      /\ pending' \subseteq pending
  BY Zenon DEF Latch, Unlatch, StartTeardown, ResetCancels, ResetUnlocks, CloseVolume, CollectLocked,
         Reopen, items, mutex, native, docs
<1>2. st' \in [Ids -> States \cup {None}] /\ cancelled' \subseteq Ids
      /\ \A t \in Ids : st'[t] \in {st[t], "CANCELLED", None}
  <2>1. st \in [Ids -> States \cup {None}] /\ cancelled \subseteq Ids
    BY Zenon DEF WholeInv, TypeOK
  <2>2. CASE UNCHANGED <<st, cancelled>>
    BY Zenon, <2>1, <2>2
  <2>3. CASE \E t \in Ids : ResetCancels(t)
    BY Zenon, <2>1, <2>3 DEF ResetCancels, Shows, States
  <2>4. QED BY <2>2, <2>3, Zenon DEF Latch, Unlatch, StartTeardown, ResetUnlocks, CloseVolume,
                              CollectLocked, Reopen, items
<1>3. /\ phase' \in {"unlocked", "latched", "reset", "closing", "locked"}
      /\ volume' \in 0..MaxSessions /\ sessions' \in 1..MaxSessions
      /\ doomed' \subseteq Ids
  BY DEF WholeInv, TypeOK, Latch, Unlatch, StartTeardown, ResetCancels, ResetUnlocks, CloseVolume,
         CollectLocked, Reopen
<1>4. clearDue' \in BOOLEAN /\ locked' \in BOOLEAN
  BY Zenon DEF WholeInv, TypeOK, Latch, Unlatch, StartTeardown, ResetCancels, ResetUnlocks,
         CloseVolume, CollectLocked, Reopen, mutex
<1>5. open' \in [Actors -> 0..MaxSessions]
  BY DEF WholeInv, TypeOK, Latch, Unlatch, StartTeardown, ResetCancels, ResetUnlocks, CloseVolume,
         CollectLocked, Reopen, native
<1>6. TypeOK'
  BY Zenon, <1>1, <1>2, <1>3, <1>5, <1>4 DEF WholeInv, TypeOK
<1>7. InOrder' /\ Documented' /\ CallbackKnows'
  BY Zenon, <1>1 DEF WholeInv, InOrder, Documented, CallbackKnows
<1>8. Streamed'
  BY Zenon, <1>1, <1>2 DEF WholeInv, Streamed, StreamedTo, States
<1>9. QED BY Zenon, <1>6, <1>7, <1>8 DEF WholeInv

\* Creating, opening and deleting a document, and the start of a callback.
DocumentOp(p) ==
  \/ NameDocument(p) \/ RegisterDocument(p) \/ OpenDocument(p) \/ DeletePending(p)
  \/ OnRelease(p) \/ \E o \in 0..(Chunks - 1) : OnWrite(p, o)

LEMMA WholeDocument ==
  ASSUME WholeInv, NEW p \in Proxies, DocumentOp(p)
  PROVE  WholeInv'
<1> USE TransferAssumption
<1>1. UNCHANGED <<session, items, mutex, native, writer, next, erred>>
  BY Zenon DEF DocumentOp, NameDocument, RegisterDocument, OpenDocument, DeletePending, OnRelease,
               OnWrite
<1>2. /\ created \in [Proxies -> {"no", "named", "yes", "open", "shut"}] /\ offset \in 0..Chunks
      /\ pending \subseteq Proxies /\ handler \in Proxies \cup {None}
      /\ at \in {"none", "supported", "acquire", "begin", "offset", "write",
                 "acquireEmpty", "beginEmpty", "finish"}
  BY Zenon DEF WholeInv, TypeOK
<1>3. /\ created' \in [Proxies -> {"no", "named", "yes", "open", "shut"}]
      /\ pending' \subseteq Proxies
      /\ handler' \in Proxies \cup {None} /\ offset' \in 0..Chunks
      /\ at' \in {"none", "supported", "acquire", "begin", "offset", "write",
                  "acquireEmpty", "beginEmpty", "finish"}
  BY <1>2 DEF DocumentOp, NameDocument, RegisterDocument, OpenDocument, DeletePending, OnRelease,
              OnWrite, Moves
<1>4. TypeOK'
  BY <1>1, <1>3, Zenon DEF WholeInv, TypeOK, session, items, mutex, native
<1>5. InOrder' /\ Streamed'
  BY <1>1, Zenon DEF WholeInv, InOrder, Streamed, StreamedTo, items, native
<1>6. Documented'
  <2>1. SUFFICES ASSUME NEW q \in Proxies
                 PROVE  /\ landed[q] # None => created'[q] = "shut"
                        /\ created'[q] \in {"no", "named"} => next[q] = 0
                        /\ q \in pending' /\ q \notin writer => next[q] = 0
    BY <1>1, Zenon DEF WholeInv, Documented, native
  <2>2. /\ landed[q] # None => created[q] = "shut"
        /\ created[q] \in {"no", "named"} => next[q] = 0
        /\ q \in pending /\ q \notin writer => next[q] = 0
    BY Zenon DEF WholeInv, Documented
  <2>3. QED BY Zenon, <1>2, <2>2 DEF DocumentOp, NameDocument, RegisterDocument, OpenDocument,
                             DeletePending, OnRelease, OnWrite, Moves
<1>7. CallbackKnows'
  <2>1. SUFFICES ASSUME NEW q \in Proxies, handler' = q
                 PROVE  /\ created'[q] = "open"
                        /\ at' = "finish" => Len(sent[q]) = next[q]
                        /\ at' \in {"acquireEmpty", "beginEmpty"} => next[q] = 0
                        /\ at' \in {"supported", "acquire", "begin", "offset", "write"}
                             => offset' < Chunks
                        /\ at' = "write" => offset' = next[q]
    BY <1>1, Zenon DEF CallbackKnows, native
  <2>2. CASE handler = q
    <3>1. q # None
      BY Zenon DEF Actors
    <3>2. UNCHANGED <<at, offset>> /\ (created[q] = "open" => created'[q] = "open")
      BY <1>2, <2>2, <3>1, Zenon DEF DocumentOp, NameDocument, RegisterDocument, OpenDocument,
                              DeletePending, OnRelease, OnWrite, Moves
    <3>3. QED BY <2>2, <3>2, Zenon DEF WholeInv, CallbackKnows
  <2>3. CASE handler # q
    <3>1. /\ q = p /\ created[p] = "open" /\ created' = created
          /\ \/ at' = "supported" /\ offset' \in 0..(Chunks - 1)
             \/ at' = "finish" /\ p \in writer
             \/ at' = "acquireEmpty" /\ p \in pending /\ p \notin writer
      BY Zenon, <2>1, <2>3 DEF DocumentOp, NameDocument, RegisterDocument, OpenDocument, DeletePending,
                        OnRelease, OnWrite
    <3>2. /\ p \in writer => Len(sent[p]) = next[p]
          /\ p \in pending /\ p \notin writer => next[p] = 0
      BY Zenon DEF WholeInv, Documented
    <3>3. QED BY <3>1, <3>2
  <2>4. QED BY Zenon, <2>2, <2>3
<1>8. QED BY <1>4, <1>5, <1>6, <1>7, Zenon DEF WholeInv

CallbackPoints == {"none", "supported", "acquire", "begin", "offset", "write", "acquireEmpty",
                   "beginEmpty", "finish"}

\* What a callback leaves true of its own document.
CallbackDoc(p) ==
  /\ sent \in [Actors -> Contents] /\ landed \in [Actors -> Contents \cup {None}]
  /\ open \in [Actors -> 0..MaxSessions]
  /\ created \in [Proxies -> {"no", "named", "yes", "open", "shut"}]
  /\ next \in [Proxies -> 0..Chunks] /\ offset \in 0..Chunks /\ at \in CallbackPoints
  /\ sent[p] = FirstChunks(Len(sent[p])) /\ Len(sent[p]) \in 0..Chunks
  /\ landed[p] # None => created[p] = "shut" /\ landed[p] = FirstChunks(next[p])
  /\ p \in writer => Len(sent[p]) = next[p]
  /\ created[p] \in {"no", "named"} => next[p] = 0
  /\ p \in pending /\ p \notin writer => next[p] = 0
  /\ handler = p =>
       /\ created[p] = "open"
       /\ at = "finish" => Len(sent[p]) = next[p]
       /\ at \in {"acquireEmpty", "beginEmpty"} => next[p] = 0
       /\ at \in {"supported", "acquire", "begin", "offset", "write"} => offset < Chunks
       /\ at = "write" => offset = next[p]

\* A callback's step: p's document is the only one touched, and a write appends the chunk
\* at expectedNextOffset, which is where the writer is.
LEMMA WholeCallback ==
  ASSUME IInv, WholeInv, NEW p \in Proxies, Callback(p)
  PROVE  WholeInv'
<1> USE TransferAssumption
<1> p \in Actors /\ p \notin Ids /\ p # None
  BY Zenon DEF Actors
<1>1. /\ sent \in [Actors -> Contents] /\ landed \in [Actors -> Contents \cup {None}]
      /\ open \in [Actors -> 0..MaxSessions] /\ volume \in 0..MaxSessions
      /\ created \in [Proxies -> {"no", "named", "yes", "open", "shut"}]
      /\ next \in [Proxies -> 0..Chunks] /\ offset \in 0..Chunks
      /\ sent[p] = FirstChunks(Len(sent[p])) /\ Len(sent[p]) \in 0..Chunks
  BY Zenon DEF WholeInv, TypeOK, InOrder
<1>2. /\ UNCHANGED <<session, items>> /\ handler = p
      /\ handler' \in {p, None} /\ offset' \in {offset, 0}
      /\ writer' \in {writer, writer \cup {p}, writer \ {p}}
      /\ pending' \in {pending, pending \ {p}} /\ erred' \in {erred, erred \cup {p}}
  BY Zenon DEF Callback, WriteSupported, WriteUnsupported, AcquireForSaf, AcquireTimesOut,
         BeginStreaming, BeginStreamingFails, CheckOffset, WriteChunk, WriteChunkFails,
         BeginEmpty, BeginEmptyFails, FinishDocument, AbandonDocument, Runs, Proceeds, Returns,
         abandonWrite, Ends
<1>3. /\ \E S : sent' = [sent EXCEPT ![p] = S]
      /\ \E L : landed' = [landed EXCEPT ![p] = L]
      /\ \E v \in 0..MaxSessions : open' = [open EXCEPT ![p] = v]
      /\ \E c : created' = [created EXCEPT ![p] = c]
      /\ \E n : next' = [next EXCEPT ![p] = n]
  <2> USE <1>1 DEF native, Begin, Moves, Ends
  <2>1. CASE WriteSupported(p) \/ WriteUnsupported(p) \/ AcquireForSaf(p) \/ AcquireTimesOut(p)
    BY <2>1 DEF WriteSupported, WriteUnsupported, AcquireForSaf, AcquireTimesOut
  <2>2. CASE BeginStreaming(p) \/ BeginStreamingFails(p)
    BY <2>2 DEF BeginStreaming, BeginStreamingFails
  <2>3. CASE CheckOffset(p) \/ WriteChunkFails(p)
    BY <2>3 DEF CheckOffset, WriteChunkFails, abandonWrite, Abandon, Close
  <2>4. CASE WriteChunk(p)
    <3>1. /\ sent' = [sent EXCEPT ![p] = Append(sent[p], offset)]
          /\ next' = [next EXCEPT ![p] = next[p] + 1] /\ UNCHANGED <<open, landed, created>>
      BY Zenon, <2>4 DEF WriteChunk, Write
    <3>2. /\ landed' = [landed EXCEPT ![p] = landed[p]] /\ open' = [open EXCEPT ![p] = open[p]]
          /\ created' = [created EXCEPT ![p] = created[p]] /\ open[p] \in 0..MaxSessions
      BY Zenon, <3>1
    <3>3. QED BY <3>1, <3>2, Zenon
  <2>5. CASE BeginEmpty(p) \/ BeginEmptyFails(p)
    BY <2>5 DEF BeginEmpty, BeginEmptyFails
  <2>6. CASE FinishDocument(p) \/ AbandonDocument(p)
    BY <2>6 DEF FinishDocument, AbandonDocument, Finish, Abandon, Close
  <2>7. QED BY <2>1, <2>2, <2>3, <2>4, <2>5, <2>6, Zenon DEF Callback
<1>4. /\ created[p] = "open" /\ landed[p] = None /\ at # "none"
      /\ p \in writer => Len(sent[p]) = next[p]
      /\ p \in pending /\ p \notin writer => next[p] = 0
      /\ at = "finish" => Len(sent[p]) = next[p]
      /\ at \in {"acquireEmpty", "beginEmpty"} => next[p] = 0
      /\ at \in {"supported", "acquire", "begin", "offset", "write"} => offset < Chunks
      /\ at = "write" => offset = next[p]
      /\ at \in {"offset", "write"} => p \in writer
  BY Zenon, <1>2 DEF WholeInv, Documented, CallbackKnows, IInv, CallbackHolds
<1>5. 0 \in 0..Chunks /\ FirstChunks(0) = <<>> /\ <<>> \in Contents
  BY FirstChunksFacts
<1>6. CallbackDoc(p)'
  <2> USE <1>1, <1>2, <1>4
  <2>1. CASE \/ WriteSupported(p) \/ WriteUnsupported(p) \/ AcquireForSaf(p)
             \/ AcquireTimesOut(p) \/ BeginStreamingFails(p)
    <3>1. /\ UNCHANGED <<native, next, writer>>
          /\ handler' = p => offset' = offset /\ created' = created /\ at' # "write"
          /\ at' \in {"none", "offset", "acquire", "begin", "beginEmpty"}
          /\ created' = created \/ created' = [created EXCEPT ![p] = "shut"]
          /\ handler' = p /\ at' = "beginEmpty" => at = "acquireEmpty"
          /\ handler' = p /\ at' # "beginEmpty" => at \in {"supported", "acquire"}
      BY <2>1, Zenon DEF WriteSupported, WriteUnsupported, AcquireForSaf, AcquireTimesOut,
                  BeginStreamingFails, Runs, Proceeds, Returns, Moves
    <3>2. /\ created' \in [Proxies -> {"no", "named", "yes", "open", "shut"}]
          /\ created'[p] \in {"open", "shut"} /\ (handler' = p => created'[p] = "open")
      BY <3>1, Zenon
    <3>3. UNCHANGED <<open, sent, landed, next, writer>> /\ at' \in CallbackPoints
      BY Zenon, <3>1 DEF native, CallbackPoints
    <3>4. p \in pending' /\ p \notin writer' => next'[p] = 0
      BY Zenon, <3>3
    <3>5. QED BY <3>1, <3>2, <3>3, <3>4 DEF CallbackDoc
  <2>2. CASE BeginStreaming(p)
    <3>1. /\ sent' = [sent EXCEPT ![p] = <<>>] /\ next' = [next EXCEPT ![p] = 0]
          /\ UNCHANGED <<landed, created, offset>> /\ p \in writer'
          /\ open' = [open EXCEPT ![p] = volume] /\ at' = "offset" /\ at = "begin"
      BY Zenon, <2>2 DEF BeginStreaming, Begin, Proceeds, Runs
    <3>2. sent'[p] = <<>> /\ Len(sent'[p]) = 0 /\ sent'[p] = FirstChunks(0)
          /\ sent' \in [Actors -> Contents]
      BY Zenon, <3>1, <1>5
    <3>3. QED BY <3>1, <3>2 DEF CallbackDoc, CallbackPoints
  <2>3. CASE CheckOffset(p) \/ WriteChunkFails(p)
    <3>1. /\ UNCHANGED <<sent, landed, created, next>>
          /\ open' = open \/ open' = [open EXCEPT ![p] = 0]
          /\ handler' = p => at' = "write" /\ at = "offset" /\ offset = next[p] /\ offset' = offset
          /\ at' \in {"none", "write"}
          /\ writer' = writer \/ (writer' = writer \ {p} /\ pending' = pending \ {p})
      BY Zenon, <2>3 DEF CheckOffset, WriteChunkFails, abandonWrite, Abandon, Close, Runs, Proceeds,
                  Returns, native
    <3>2. QED BY <3>1 DEF CallbackDoc, CallbackPoints
  <2>4. CASE WriteChunk(p)
    <3>1. /\ sent' = [sent EXCEPT ![p] = Append(sent[p], offset)]
          /\ next' = [next EXCEPT ![p] = next[p] + 1] /\ at = "write"
          /\ UNCHANGED <<open, landed, created, writer>> /\ handler' = None /\ at' = "none"
      BY Zenon, <2>4 DEF WriteChunk, Write, Runs, Returns
    <3>2. Len(sent[p]) = offset /\ next[p] = offset /\ offset \in 0..Chunks /\ offset < Chunks
      BY Zenon, <3>1
    <3>3. sent[p] = FirstChunks(offset)
      BY Zenon, <3>2
    <3>4. Append(FirstChunks(offset), offset) = FirstChunks(offset + 1)
      BY <3>2, FirstChunksFacts, Zenon
    <3>5. Append(sent[p], offset) = FirstChunks(offset + 1) /\ offset + 1 \in 0..Chunks
      BY ONLY <3>2, <3>3, <3>4, TransferAssumption
    <3>6. FirstChunks(offset + 1) \in Contents /\ Len(FirstChunks(offset + 1)) = offset + 1
      BY Zenon, <3>5, FirstChunksFacts
    <3>7. QED BY <3>1, <3>2, <3>5, <3>6 DEF CallbackDoc, CallbackPoints
  <2>5. CASE BeginEmpty(p)
    <3>1. /\ sent' = [sent EXCEPT ![p] = <<>>] /\ at = "beginEmpty" /\ at' = "finish"
          /\ UNCHANGED <<landed, created, offset, next, writer, pending>>
          /\ open' = [open EXCEPT ![p] = volume]
      BY Zenon, <2>5 DEF BeginEmpty, Begin, Proceeds, Runs
    <3>2. sent'[p] = <<>> /\ Len(sent'[p]) = 0 /\ sent'[p] = FirstChunks(0)
          /\ sent' \in [Actors -> Contents]
      BY Zenon, <3>1, <1>5
    <3>3. QED BY <3>1, <3>2 DEF CallbackDoc, CallbackPoints
  <2>6. CASE BeginEmptyFails(p) \/ FinishDocument(p) \/ AbandonDocument(p)
    <3>1. /\ UNCHANGED <<sent, next>> /\ created' = [created EXCEPT ![p] = "shut"]
          /\ open' = open \/ open' = [open EXCEPT ![p] = 0]
          /\ landed' = landed \/ (landed' = [landed EXCEPT ![p] = sent[p]] /\ at = "finish")
          /\ handler' = None /\ at' = "none" /\ writer' = writer \ {p} /\ pending' = pending \ {p}
      BY <2>6, Zenon DEF BeginEmptyFails, FinishDocument, AbandonDocument, Finish, Abandon, Close, Ends,
                  Moves, Returns, Runs, native
    <3>2. /\ created' \in [Proxies -> {"no", "named", "yes", "open", "shut"}]
          /\ created'[p] = "shut" /\ p \notin writer' /\ p \notin pending'
          /\ at' \in CallbackPoints
      BY Zenon, <3>1 DEF CallbackPoints
    <3>3. open' \in [Actors -> 0..MaxSessions]
      BY <3>1
    <3>4. landed' \in [Actors -> Contents \cup {None}]
      BY Zenon, <3>1
    <3>5. landed'[p] # None => landed'[p] = FirstChunks(next'[p])
      BY Zenon, <3>1
    <3>6. QED BY <3>1, <3>2, <3>4, <3>5, <3>3 DEF CallbackDoc
  <2>7. QED BY <2>1, <2>2, <2>3, <2>4, <2>5, <2>6, Zenon DEF Callback
<1>7. locked' \in BOOLEAN /\ inside' \subseteq Actors
  BY Zenon DEF WholeInv, TypeOK, Callback, WriteSupported, WriteUnsupported, AcquireForSaf, Acquire,
         AcquireTimesOut, BeginStreaming, BeginStreamingFails, CheckOffset, WriteChunk,
         WriteChunkFails, BeginEmpty, BeginEmptyFails, FinishDocument, AbandonDocument, Ends,
         abandonWrite, LetGo, Release, mutex
<1>8. TypeOK'
  <2>1. /\ writer' \subseteq Proxies /\ pending' \subseteq Proxies /\ erred' \subseteq Proxies
        /\ handler' \in Proxies \cup {None}
    BY Zenon, <1>2 DEF WholeInv, TypeOK
  <2>2. UNCHANGED <<phase, volume, sessions, doomed, clearDue, kind, pc, st, left, lease, starting,
                    activeJobs, cancelled, marking>>
    BY Zenon, <1>2 DEF session, items
  <2>3. QED BY <1>6, <1>7, <2>1, <2>2, Zenon DEF WholeInv, TypeOK, CallbackDoc, CallbackPoints
<1>9. InOrder'
  BY Zenon, <1>1, <1>3, <1>6 DEF WholeInv, InOrder, CallbackDoc
<1>10. Streamed'
  <2>1. SUFFICES ASSUME NEW t \in Ids PROVE StreamedTo(t)'
    BY Zenon DEF Streamed
  <2>2. t \in Actors /\ t # p
    BY Zenon DEF Actors
  <2>3. sent'[t] = sent[t] /\ landed'[t] = landed[t]
    BY Zenon, <1>1, <1>3, <2>2
  <2>4. QED BY Zenon, <1>2, <2>3 DEF WholeInv, Streamed, StreamedTo, items
<1>11. Documented'
  <2>1. SUFFICES ASSUME NEW q \in Proxies, q # p
                 PROVE  /\ landed'[q] # None => created'[q] = "shut" /\ landed'[q] = FirstChunks(next'[q])
                        /\ q \in writer' => Len(sent'[q]) = next'[q]
                        /\ created'[q] \in {"no", "named"} => next'[q] = 0
                        /\ q \in pending' /\ q \notin writer' => next'[q] = 0
    BY Zenon, <1>6 DEF Documented, CallbackDoc
  <2>2. /\ sent'[q] = sent[q] /\ landed'[q] = landed[q] /\ created'[q] = created[q]
        /\ next'[q] = next[q]
    BY Zenon, <1>1, <1>3, <2>1 DEF Actors
  <2>3. (q \in writer' <=> q \in writer) /\ (q \in pending' <=> q \in pending)
    BY Zenon, <1>2, <2>1
  <2>4. QED BY Zenon, <2>2, <2>3 DEF WholeInv, Documented
<1>12. CallbackKnows'
  BY Zenon, <1>2, <1>6 DEF CallbackKnows, CallbackDoc, Actors
<1>13. QED BY Zenon, <1>8, <1>9, <1>10, <1>11, <1>12 DEF WholeInv

\* Nothing has been streamed or landed at the start.
LEMMA WholeInit == Init => WholeInv
<1> SUFFICES ASSUME Init PROVE WholeInv
  BY Zenon
<1> USE TransferAssumption
<1>1. 0 \in 0..Chunks /\ FirstChunks(0) = <<>> /\ <<>> \in Contents
  BY FirstChunksFacts
<1>2. /\ kind \in [Ids -> Kinds \cup {None}] /\ pc \in [Ids -> Pcs]
      /\ st \in [Ids -> States \cup {None}] /\ left \in [Ids -> 0..TreeFiles]
      /\ lease \in [Ids -> 0..MaxSessions] /\ volume \in 0..MaxSessions
      /\ sessions \in 1..MaxSessions
  BY DEF Init, Pcs
<1>3. clearDue \in BOOLEAN /\ locked \in BOOLEAN
  BY Zenon DEF Init
<1>4. /\ open \in [Actors -> 0..MaxSessions] /\ sent \in [Actors -> Contents]
      /\ landed \in [Actors -> Contents \cup {None}] /\ offset \in 0..Chunks
      /\ next \in [Proxies -> 0..Chunks]
      /\ created \in [Proxies -> {"no", "named", "yes", "open", "shut"}]
  BY <1>1 DEF Init
<1>5. TypeOK
  BY Zenon, <1>2, <1>4, <1>3 DEF Init, TypeOK
<1>6. InOrder
  BY Zenon, <1>1 DEF Init, InOrder
<1>7. Streamed
  BY Zenon DEF Init, Streamed, StreamedTo, Landing, Actors, AllKinds, States
<1>8. Documented /\ CallbackKnows
  BY Zenon DEF Init, Documented, CallbackKnows, Actors
<1>9. QED BY Zenon, <1>5, <1>6, <1>7, <1>8 DEF WholeInv

\* Every step keeps it; IInv says at which points of a callback its proxy has a writer.
LEMMA WholeNext == IInv /\ WholeInv /\ [Next]_vars => WholeInv'
<1> SUFFICES ASSUME IInv, WholeInv, [Next]_vars PROVE WholeInv'
  BY Zenon
<1>1. CASE UNCHANGED vars
  <2>1. UNCHANGED <<phase, volume, sessions, doomed, clearDue, kind, pc, st, left, lease, starting,
                    activeJobs, cancelled, marking, locked, inside, open, sent, landed>>
    BY Zenon, <1>1 DEF vars, session, items, mutex, native
  <2>2. UNCHANGED <<pending, created, handler, at, offset, writer, next, erred>>
    BY Zenon, <1>1 DEF vars, docs
  <2>3. TypeOK'
    BY <2>1, <2>2, Zenon DEF WholeInv, TypeOK
  <2>4. InOrder' /\ Streamed'
    BY Zenon, <2>1 DEF WholeInv, InOrder, Streamed, StreamedTo
  <2>5. Documented' /\ CallbackKnows'
    BY Zenon, <2>1, <2>2 DEF WholeInv, Documented, CallbackKnows
  <2>6. QED BY Zenon, <2>3, <2>4, <2>5 DEF WholeInv
<1>2. CASE Next
  BY <1>2, WholeItems, WholeStream, WholeSession, WholeDocument, WholeCallback, Zenon
     DEF Next, Advance, Teardown, ItemStep, StreamStep, DocumentOp
<1>3. QED BY Zenon, <1>1, <1>2

\* What an import lands has every chunk of its source, COMPLETED is shown only once the
\* file is there, and what a document lands is what its successful onWrites wrote.
THEOREM FilesLandWhole == Spec => []LandsWhole
<1>1. WholeInv => LandsWhole
  BY Zenon DEF WholeInv, Streamed, StreamedTo, Documented, LandsWhole
<1>2. QED BY <1>1, WholeInit, WholeNext, Invariance, PTL DEF Spec
=============================================================================
