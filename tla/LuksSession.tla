----------------------------- MODULE LuksSession -----------------------------
(***************************************************************************)
(* SessionController (session/LuksSession.kt) with the parts of LuksHandles *)
(* it closes, and the callers that reach it: the devices screen, leases     *)
(* (withLease), lock() from the UI, an ejected root, memory trims and the   *)
(* idle timer, and the USB detach receiver.                                 *)
(*                                                                         *)
(* The session mutex is held across suspension points only by unlock and    *)
(* openPlain, so it is explicit there (mutex); every other section under it *)
(* is one action.  A lease runs outside the mutex.                          *)
(***************************************************************************)
EXTENDS Naturals, FiniteSets

CONSTANTS
  Clients,    \* coroutines that take leases
  Openers,    \* coroutines that call unlock or openPlain
  Lockers,    \* coroutines that call lock()
  IdleLocker, \* the one among them that is the idle timer's job
  Vols,       \* LuksVolume objects, one per successful native open
  Devs,       \* LuksDevice objects
  MaxLocks,   \* bound on calls of lock()
  MaxDetach,  \* bound on USB detach events
  MaxLeave,   \* bound on leaving the devices screen
  None

SessionConstants ==
  /\ IdleLocker \in Lockers /\ IsFiniteSet(Clients)
  /\ MaxLocks \in Nat /\ MaxDetach \in Nat /\ MaxLeave \in Nat
  /\ None \notin Clients \cup Openers \cup Lockers \cup Vols \cup Devs

ASSUME SessionAssumption == SessionConstants

VARIABLES
  state,        \* _state, without its payload
  mutex,        \* the opener holding the session mutex, or None
  isLocking,    \* the AtomicBoolean
  volume,       \* the session's volume field
  device,       \* the session's device field
  shown,        \* the volume an Unlocked state carries
  live,         \* volumes whose native handle is still registered
  devOf,        \* the device each volume was opened on
  closedDevs,   \* devices whose native handle and connection are closed
  writing,      \* volumes with a FileWriter in activeWriters
  fatal,        \* volumes whose native write session is fenced or poisoned
  gone,         \* volumes whose drive was unplugged
  activeLeases, \* _activeLeases
  clientPc, clientVol, openPc, openVol, openDev, lockPc,
  detaching,    \* onDeviceDetached coroutines waiting for the mutex
  locks, detaches, leaves \* bounded counters

native  == <<live, devOf, closedDevs, writing, fatal, gone>>
session == <<state, mutex, isLocking, volume, device, shown>>
clients == <<activeLeases, clientPc, clientVol>>
openers == <<openPc, openVol, openDev>>
others  == <<detaching, detaches, leaves>>
vars    == <<session, native, clients, openers, lockPc, locks, others>>

States == {"Locked", "Unlocking", "Unlocked", "Detached", "Failed"}

TypeOK ==
  /\ state \in States /\ mutex \in Openers \cup {None} /\ isLocking \in BOOLEAN
  /\ volume \in Vols \cup {None} /\ device \in Devs \cup {None}
  /\ shown \in Vols \cup {None}
  /\ live \subseteq Vols /\ writing \subseteq Vols /\ fatal \subseteq Vols
  /\ gone \subseteq Vols /\ closedDevs \subseteq Devs
  /\ devOf \in [Vols -> Devs \cup {None}]
  /\ activeLeases \in 0..Cardinality(Clients)
  /\ clientPc \in [Clients -> {"idle", "leased", "failing", "release"}]
  /\ clientVol \in [Clients -> Vols \cup {None}]
  /\ \A c \in Clients : clientPc[c] # "idle" => clientVol[c] \in Vols
  /\ openPc \in [Openers -> {"idle", "requested", "native", "listing",
                          "cancelled", "doomed"}]
  /\ openVol \in [Openers -> Vols \cup {None}]
  /\ openDev \in [Openers -> Devs \cup {None}]
  /\ lockPc \in [Lockers -> {"idle", "enter", "drain", "teardown", "finally"}]
  /\ detaching \in 0..MaxDetach /\ detaches \in 0..MaxDetach
  /\ locks \in 0..MaxLocks /\ leaves \in 0..MaxLeave

Init ==
  /\ state = "Locked" /\ mutex = None /\ isLocking = FALSE
  /\ volume = None /\ device = None /\ shown = None
  /\ live = {} /\ devOf = [v \in Vols |-> None] /\ closedDevs = {}
  /\ writing = {} /\ fatal = {} /\ gone = {}
  /\ activeLeases = 0
  /\ clientPc = [c \in Clients |-> "idle"]
  /\ clientVol = [c \in Clients |-> None]
  /\ openPc = [o \in Openers |-> "idle"]
  /\ openVol = [o \in Openers |-> None]
  /\ openDev = [o \in Openers |-> None]
  /\ lockPc = [l \in Lockers |-> "idle"]
  /\ detaching = 0 /\ detaches = 0 /\ locks = 0 /\ leaves = 0

-----------------------------------------------------------------------------
(* teardownHandles, under the mutex.                                        *)

\* FileWriter.close rethrows what nativeCloseWriter throws: always on a fenced or
\* poisoned volume, possibly when the drive is gone.
CloseWriterThrows(v) == v \in fatal
CloseWriterMayThrow(v) == v \in fatal \cup gone

\* LuksVolume.close: the writers first, then the volume.  An exception from a
\* writer leaves the native volume registered and the writer in activeWriters.
CloseVolume(v) ==
  \/ /\ v = None \/ v \notin live
     /\ UNCHANGED <<live, writing>>
  \/ /\ v \in live
     /\ v \notin writing \/ ~CloseWriterThrows(v)
     /\ live' = live \ {v}
     /\ writing' = writing \ {v}
  \/ /\ v \in live \cap writing
     /\ CloseWriterMayThrow(v)
     /\ UNCHANGED <<live, writing>>

\* A cancelled lock() stops at its next suspension point, which the NonCancellable
\* teardown is not; one that waits for leases still runs its finally block.
Cancelled(pc) ==
  CASE pc = "enter" -> "idle" [] pc = "drain" -> "finally" [] OTHER -> pc

\* cancelIdleTimer, called by every teardown.
CancelIdleTimer(l) == IF l = IdleLocker THEN Cancelled(lockPc[l]) ELSE lockPc[l]

\* Fault: the handles are closed and the fields keep naming them.
TeardownHandles_KeepsFields ==
  /\ CloseVolume(volume)
  /\ closedDevs' = IF device = None THEN closedDevs ELSE closedDevs \cup {device}
  /\ UNCHANGED <<mutex, volume, device, devOf, fatal, gone>>

TeardownHandles ==
  /\ volume' = None /\ device' = None
  /\ CloseVolume(volume)
  /\ closedDevs' = IF device = None THEN closedDevs ELSE closedDevs \cup {device}
  /\ UNCHANGED <<mutex, devOf, fatal, gone>>

\* onDeviceDetached, onWritePoison, onWriteSessionFenced and reset share this
\* section: no waiting for leases, and a running lock() loses its latch.
TeardownTo(s) ==
  /\ mutex = None
  /\ isLocking' = FALSE
  /\ TeardownHandles
  /\ lockPc' = [l \in Lockers |-> CancelIdleTimer(l)]
  /\ state' = s /\ shown' = None

\* The same section in a coroutine that is cancelled: withContext throws at the head
\* of teardownHandles, or runs it and throws as it returns.  The state is not set.
TeardownCut ==
  /\ mutex = None
  /\ isLocking' = FALSE
  /\ \/ UNCHANGED <<mutex, volume, device, native, lockPc>>
     \/ /\ TeardownHandles
        /\ lockPc' = [l \in Lockers |-> CancelIdleTimer(l)]
  /\ UNCHANGED <<state, shown>>

-----------------------------------------------------------------------------
(* unlock and openPlain.                                                    *)

\* The buttons are shown while the state is Locked; a tap only starts the
\* coroutine.  A closed LuksDevice is replaced by a new one before it is offered.
RequestOpen(o, d) ==
  /\ openPc[o] = "idle" /\ state = "Locked"
  /\ d \notin closedDevs
  /\ \E v \in Vols : devOf[v] = None
  /\ openPc' = [openPc EXCEPT ![o] = "requested"]
  /\ openDev' = [openDev EXCEPT ![o] = d]
  /\ UNCHANGED <<session, native, clients, openVol, lockPc, locks, others>>

StartOpen(o) ==
  /\ openPc[o] = "requested" /\ mutex = None
  /\ mutex' = o
  /\ state' = "Unlocking" /\ shown' = None
  /\ openPc' = [openPc EXCEPT ![o] = "native"]
  /\ UNCHANGED <<isLocking, volume, device, native, clients, openVol, openDev,
                 lockPc, locks, others>>

\* device.unlock / device.openPlain returned a volume.
NativeOpened(o, v) ==
  /\ openPc[o] = "native" /\ openDev[o] \notin closedDevs
  /\ devOf[v] = None
  /\ live' = live \cup {v}
  /\ devOf' = [devOf EXCEPT ![v] = openDev[o]]
  /\ openVol' = [openVol EXCEPT ![o] = v]
  /\ openPc' = [openPc EXCEPT ![o] = "listing"]
  /\ UNCHANGED <<session, closedDevs, writing, fatal, gone, clients, openDev,
                 lockPc, locks, others>>

\* Either catch block: the state is Failed and the mutex is released.  A volume
\* already opened when listDir throws is not closed.
OpenFailed(o) ==
  /\ openPc[o] \in {"native", "listing", "doomed"}
  /\ state' = "Failed"
  /\ mutex' = None
  /\ openPc' = [openPc EXCEPT ![o] = "idle"]
  /\ openVol' = [openVol EXCEPT ![o] = None]
  /\ openDev' = [openDev EXCEPT ![o] = None]
  /\ UNCHANGED <<isLocking, volume, device, shown, native, clients, lockPc, locks,
                 others>>

\* The native open runs to its end in a cancelled coroutine: withContext throws
\* instead of returning the volume, and the second catch block runs.
CancelledOpenReturns(o) ==
  /\ openPc[o] = "cancelled"
  /\ state' = "Failed"
  /\ mutex' = None
  /\ openPc' = [openPc EXCEPT ![o] = "idle"]
  /\ openDev' = [openDev EXCEPT ![o] = None]
  /\ \/ \E v \in Vols : /\ devOf[v] = None
                        /\ live' = live \cup {v}
                        /\ devOf' = [devOf EXCEPT ![v] = openDev[o]]
     \/ UNCHANGED <<live, devOf>>
  /\ UNCHANGED <<isLocking, volume, device, shown, closedDevs, writing, fatal, gone,
                 clients, openVol, lockPc, locks, others>>

\* restartIdleTimer cancels the job of an earlier session.
OpenDone(o) ==
  /\ openPc[o] = "listing"
  /\ volume' = openVol[o] /\ device' = openDev[o]
  /\ state' = "Unlocked" /\ shown' = openVol[o]
  /\ mutex' = None
  /\ openPc' = [openPc EXCEPT ![o] = "idle"]
  /\ openVol' = [openVol EXCEPT ![o] = None]
  /\ openDev' = [openDev EXCEPT ![o] = None]
  /\ lockPc' = [l \in Lockers |-> CancelIdleTimer(l)]
  /\ UNCHANGED <<isLocking, native, clients, locks, others>>

-----------------------------------------------------------------------------
(* withLease.                                                               *)

\* The field, or the volume of the published state when the field is empty.
TakeLease(c) ==
  /\ clientPc[c] = "idle" /\ mutex = None
  /\ ~isLocking /\ state = "Unlocked"
  /\ clientPc' = [clientPc EXCEPT ![c] = "leased"]
  /\ clientVol' = [clientVol EXCEPT ![c] = IF volume # None THEN volume ELSE shown]
  /\ activeLeases' = activeLeases + 1
  /\ UNCHANGED <<session, native, openers, lockPc, locks, others>>

\* beginFile / beginFileStreaming, then finish or abandon, on an open volume.
BeginWriter(c) ==
  /\ clientPc[c] = "leased" /\ clientVol[c] \in live \ (fatal \cup gone)
  /\ writing' = writing \cup {clientVol[c]}
  /\ UNCHANGED <<session, live, devOf, closedDevs, fatal, gone, clients, openers,
                 lockPc, locks, others>>

EndWriter(c) ==
  /\ clientPc[c] = "leased" /\ clientVol[c] \in (live \cap writing) \ fatal
  /\ writing' = writing \ {clientVol[c]}
  /\ UNCHANGED <<session, live, devOf, closedDevs, fatal, gone, clients, openers,
                 lockPc, locks, others>>

\* finish takes its writer out of activeWriters before the native call; every other
\* failing call leaves it there.
CallEndsWriter(c) == writing' \in {writing, writing \ {clientVol[c]}}

\* A write fails in the transport: the native session is fenced, and the error
\* that reaches withLease is the transport's own, which is not a fatal code.
WriteFails(c) ==
  /\ clientPc[c] = "leased" /\ clientVol[c] \in live
  /\ fatal' = fatal \cup {clientVol[c]}
  /\ CallEndsWriter(c)
  /\ clientPc' = [clientPc EXCEPT ![c] = "release"]
  /\ UNCHANGED <<session, live, devOf, closedDevs, gone, activeLeases, clientVol,
                 openers, lockPc, locks, others>>

\* WRITE_SESSION_FENCED or MUTEX_POISONED from a volume that is fenced or poisoned,
\* or PANIC from any call, which poisons the volume if it held the fs lock.  The
\* native volume answers as long as it is registered.
FatalCode(c) ==
  /\ clientPc[c] = "leased" /\ clientVol[c] \in live
  /\ CallEndsWriter(c)
  /\ fatal' \in {fatal, fatal \cup {clientVol[c]}}
  /\ clientPc' = [clientPc EXCEPT ![c] = "failing"]
  /\ UNCHANGED <<session, live, devOf, closedDevs, gone, activeLeases,
                 clientVol, openers, lockPc, locks, others>>

\* Fault: the catch block gives the lease back, and finally does again.
OnFatalWriteFailure_ReleasesTwice(c) ==
  /\ clientPc[c] = "failing"
  /\ TeardownTo("Failed")
  /\ clientPc' = [clientPc EXCEPT ![c] = "release"]
  /\ activeLeases' = activeLeases - 1
  /\ UNCHANGED <<clientVol, openers, locks, others>>

OnFatalWriteFailure(c) ==
  /\ clientPc[c] = "failing"
  /\ TeardownTo("Failed")
  /\ clientPc' = [clientPc EXCEPT ![c] = "release"]
  /\ UNCHANGED <<activeLeases, clientVol, openers, locks, others>>

\* The same in a coroutine cancelled meanwhile; waiting for a held mutex throws too.
FatalFailureCancelled(c) ==
  /\ clientPc[c] = "failing"
  /\ \/ TeardownCut
     \/ mutex # None /\ UNCHANGED <<session, native, lockPc>>
  /\ clientPc' = [clientPc EXCEPT ![c] = "release"]
  /\ UNCHANGED <<activeLeases, clientVol, openers, locks, others>>

\* The block ends, normally or with any other exception.
BlockEnds(c) ==
  /\ clientPc[c] = "leased"
  /\ clientPc' = [clientPc EXCEPT ![c] = "release"]
  /\ UNCHANGED <<session, native, activeLeases, clientVol, openers, lockPc,
                 locks, others>>

ReleaseLease(c) ==
  /\ clientPc[c] = "release"
  /\ clientPc' = [clientPc EXCEPT ![c] = "idle"]
  /\ clientVol' = [clientVol EXCEPT ![c] = None]
  /\ activeLeases' = activeLeases - 1
  /\ UNCHANGED <<session, native, openers, lockPc, locks, others>>

-----------------------------------------------------------------------------
(* lock().                                                                  *)

\* The UI and an ejected root call it at any time; the idle timer runs while
\* unlocked and calls it when it sees no lease.
CallLock(l) ==
  /\ lockPc[l] = "idle" /\ locks < MaxLocks
  /\ l = IdleLocker => state = "Unlocked" /\ activeLeases = 0
  /\ state # "Locked" \/ isLocking
  /\ lockPc' = [lockPc EXCEPT ![l] = "enter"]
  /\ locks' = locks + 1
  /\ UNCHANGED <<session, native, clients, openers, others>>

LatchLocking(l) ==
  /\ lockPc[l] = "enter" /\ mutex = None
  /\ IF state = "Locked" \/ isLocking
     THEN /\ lockPc' = [lockPc EXCEPT ![l] = "idle"]
          /\ UNCHANGED isLocking
     ELSE /\ lockPc' = [lockPc EXCEPT ![l] = "drain"]
          /\ isLocking' = TRUE
  /\ UNCHANGED <<state, mutex, volume, device, shown, native, clients, openers, locks,
                 others>>

\* Fault: no timeout on the wait for leases.
Drained_NoTimeout(l) ==
  /\ lockPc[l] = "drain" /\ activeLeases = 0
  /\ lockPc' = [lockPc EXCEPT ![l] = "teardown"]
  /\ UNCHANGED <<session, native, clients, openers, locks, others>>

\* No lease left, or five seconds have passed.
Drained(l) ==
  /\ lockPc[l] = "drain"
  /\ lockPc' = [lockPc EXCEPT ![l] = "teardown"]
  /\ UNCHANGED <<session, native, clients, openers, locks, others>>

LockTeardown(l) ==
  /\ lockPc[l] = "teardown" /\ mutex = None
  /\ TeardownHandles
  /\ state' = "Locked" /\ shown' = None
  /\ lockPc' = [k \in Lockers |-> IF k = l THEN "finally" ELSE CancelIdleTimer(k)]
  /\ UNCHANGED <<isLocking, clients, openers, locks, others>>

LockFinally(l) ==
  /\ lockPc[l] = "finally"
  /\ isLocking' = FALSE
  /\ lockPc' = [lockPc EXCEPT ![l] = "idle"]
  /\ UNCHANGED <<state, mutex, volume, device, shown, native, clients, openers, locks,
                 others>>

\* The screen that launched lock() leaves the composition.
CancelLock(l) ==
  /\ l # IdleLocker /\ lockPc[l] \in {"enter", "drain"}
  /\ lockPc' = [lockPc EXCEPT ![l] = Cancelled(lockPc[l])]
  /\ UNCHANGED <<session, native, clients, openers, locks, others>>

-----------------------------------------------------------------------------
(* USB detach, and reset from the Detached and Failed cards.                *)

\* A detach event the receiver passes on: of the session's drive, of another one
\* of the same model, or of any while no device is active.  It drops the others.
UsbDetached ==
  /\ detaches < MaxDetach
  /\ detaches' = detaches + 1
  /\ detaching' = detaching + 1
  /\ gone' \in {gone, gone \cup live}
  /\ UNCHANGED <<session, live, devOf, closedDevs, writing, fatal, clients,
                 openers, lockPc, locks, leaves>>

\* Fault: the coroutine gives up when the session is busy.
OnDeviceDetached_OnlyIfUnlocked ==
  /\ detaching > 0 /\ state = "Unlocked"
  /\ TeardownTo("Detached")
  /\ detaching' = detaching - 1
  /\ UNCHANGED <<clients, openers, locks, detaches, leaves>>

OnDeviceDetached ==
  /\ detaching > 0
  /\ TeardownTo("Detached")
  /\ detaching' = detaching - 1
  /\ UNCHANGED <<clients, openers, locks, detaches, leaves>>

\* The devices screen leaves the composition: its scope is cancelled, and every
\* device it has open that is not the session's is closed.
LeaveDevicesScreen ==
  /\ leaves < MaxLeave
  /\ leaves' = leaves + 1
  /\ closedDevs' = closedDevs \cup ({openDev[o] : o \in Openers} \ {device, None})
  /\ openPc' = [o \in Openers |-> CASE openPc[o] = "requested" -> "idle"
                                    [] openPc[o] = "native"    -> "cancelled"
                                    [] openPc[o] = "listing"   -> "doomed"
                                    [] OTHER                   -> openPc[o]]
  /\ openDev' = [o \in Openers |-> IF openPc[o] = "requested" THEN None
                                   ELSE openDev[o]]
  /\ UNCHANGED <<session, live, devOf, writing, fatal, gone, clients, openVol,
                 lockPc, locks, detaching, detaches>>

\* Launched by the devices screen, which may leave meanwhile.
Reset ==
  /\ state \in {"Detached", "Failed"}
  /\ TeardownTo("Locked") \/ TeardownCut
  /\ UNCHANGED <<clients, openers, locks, others>>

OpenStep(o) ==
  \/ StartOpen(o) \/ OpenFailed(o) \/ OpenDone(o) \/ CancelledOpenReturns(o)
  \/ \E v \in Vols : NativeOpened(o, v)

ClientStep(c) ==
  \/ TakeLease(c) \/ BeginWriter(c) \/ EndWriter(c) \/ WriteFails(c)
  \/ FatalCode(c) \/ OnFatalWriteFailure(c)
  \/ FatalFailureCancelled(c) \/ BlockEnds(c) \/ ReleaseLease(c)

LockStep(l) == LatchLocking(l) \/ Drained(l) \/ LockTeardown(l) \/ LockFinally(l)

Next ==
  \/ \E o \in Openers : OpenStep(o) \/ \E d \in Devs : RequestOpen(o, d)
  \/ \E c \in Clients : ClientStep(c)
  \/ \E l \in Lockers : CallLock(l) \/ CancelLock(l) \/ LockStep(l)
  \/ UsbDetached \/ OnDeviceDetached \/ LeaveDevicesScreen \/ Reset

Spec == Init /\ [][Next]_vars

\* Coroutines of the session run on when they can: the native open returns, the
\* five-second wait ends, and the fair session mutex is granted in turn.  Nothing
\* is assumed of the callers: a lease may never end.
Fairness ==
  /\ \A o \in Openers : WF_vars(OpenStep(o))
  /\ \A l \in Lockers : SF_vars(LockStep(l))
  /\ SF_vars(OnDeviceDetached)

FairSpec == Spec /\ Fairness

-----------------------------------------------------------------------------
(* Properties.                                                              *)

\* The session's fields never name a closed handle, and a Locked or Detached session
\* names none, whichever of the racing opens and teardowns came last, cancelled or
\* not.
StateMatchesHandles ==
  /\ volume # None => volume \in live /\ device \notin closedDevs \cup {None}
  /\ state \in {"Locked", "Detached"} => volume = None /\ device = None

\* activeLeases, which lock() and the idle timer wait for, is the number of leases
\* out: every way out of withLease gives its lease back once.
LeasesAreCounted ==
  activeLeases = Cardinality({c \in Clients : clientPc[c] # "idle"})

\* lock() returns even if a lease never ends: the wait is bounded and the mutex
\* is never held for a lease.
LockReturns == \A l \in Lockers : lockPc[l] # "idle" ~> lockPc[l] = "idle"

\* A detach is acted on even while the passphrase is being derived or leases are
\* out.
DetachIsHandled == detaching > 0 ~> detaching = 0

\* Teardown closes the volume it takes out of the session: "Volume must close
\* FIRST", and closing is what zeroes the master key.
TeardownClosesVolume ==
  [][volume # None /\ volume' = None => volume \notin live']_vars

\* The connection outlives every native handle built on it.
DeviceOutlivesVolume == \A v \in live : devOf[v] \notin closedDevs
=============================================================================
