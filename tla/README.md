# A TLA+ verification of luks-android

luks-android lets an Android phone without root open an encrypted USB drive. It
talks to the drive through usbfs, speaks SCSI to it, decrypts LUKS2 and reads and
writes btrfs and ext4, all in user space. This directory holds a model of the
parts in which order, failure and concurrency decide whether the data on the
drive survives. TLC checks the models on small instances and TLAPS proves the
main invariants for every value of the constants.

## 1. The system

| Layer | Code | State | Operations that change it | What makes it hard |
|---|---|---|---|---|
| Presentation | `android/.../ui`, `documents/`, `transfer/`, `session/TransferManager.kt` | screens, transfers, SAF documents | open, lock, import, export, proxy callbacks | coroutines cancelled half way |
| Session | `session/LuksSession.kt`, `LuksHandles.kt` | one session: state, device, volume, leases | unlock, openPlain, withLease, lock, reset, detach, fatal failures | teardown races with leases, opens and detaches |
| Bridge | `jni/src` | handle registry, writer claims, fence, consent | every native entry point | Java threads in the same volume, panics, close during a call |
| Filesystems | `core/src/fs` | btrfs batch and trees, ext4 bitmaps and inodes | begin/chunk/finish/abandon, delete, rename, mkdir, commit | crash and transport failure between writes |
| Volume and crypto | `core/src/volume.rs`, `device.rs`, `luks/`, `partition/`, `fs/detect.rs` | immutable once opened | scan, unlock, open_plain, read_at, write_at | damaged copies, failing reads, nested read-modify-writes |
| Transport | `core/src/usb`, `usbfs/src` | SCSI device, URB arena, transport state | bulk_in, bulk_out, clear_halt, reset | URBs lost, late, short, reaped in any order |

A user's write goes down the table: a coroutine takes a *lease* on the session's
volume, calls the bridge, which takes the volume's fs lock and the device's write
claim and runs the filesystem, which issues SCSI writes, which become bulk
transfers split into URBs. Failures go up it: a transport error *fences* the
volume (no later write), the next write reports the fence, and the lease that
sees this tears the session down.

### Properties per component

- **Bridge**: one writer per device; no write on a fenced, poisoned or
  unconsented volume; a fenced volume has no batch left to commit; every call
  returns.
- **Session**: the fields never name a closed handle; leases are counted
  exactly; lock() and detach always complete. (That handles are closed in order fails,
  see section 3.)
- **Transport**: memory the kernel may still write into is never reused; what is
  reported as moved was moved, contiguously; every call returns. (That Dead is final fails.)
- **SCSI/BOT**: a status belongs to the command it is read for; a successful
  write wrote its units and nothing else; a successful read is what the drive
  holds; a successful flush reached the medium; every request returns.
- **Opening and volume I/O**: the newest sound header copy, its own key and the
  right filesystem are used; a mounted volume is a flat array of bytes, of which a
  failed write spoils at most the blocks it reaches into.
- **btrfs commit**: after a crash at any point the drive holds the last committed
  or the new state; acknowledged commits survive; while writes are accepted they
  build on the state a mount would find.
- **btrfs transactions**: names, back references and link counts agree; every
  block is owned once and accounted for; trees stay sound; no block of the
  committed state is written over.
- **ext4 writes**: after any write, no block has two owners and no name leads to a
  dead inode; data is durable before the inode that points at it. (The second fails
  when a failed link had its effect, see section 3.)
- **Transfers**: one writer at a time; the mutex is given back on every path; a
  file that lands is whole; the handler thread comes back.

The hazards behind these, each at the line where it bites, are listed under
`hazards` in `PROJECT.json`.

## 2. The modules

### VolumeSession: the native bridge

The state is `VolumeHandle` and `WriterHandle` field by field, as sets of
volumes: `fence` for `write_fence`, `armed` for `plain_writes_armed`, `holds`
for `holds_writer`, `device_writer` for the flag of `SharedDevice`. A thread
runs a native call through the places `slot` (lock the writer handle), `gate`
(consent and first fence check), `lock` (fs lock, poison and second fence
check), `claim`, `body`, `fencing` and `done`. Each place is an action, so other
threads interleave wherever the code holds no lock. The filesystem body is one
action, since the fs lock makes it so for every thread of that volume. Its
result is any outcome the filesystem can have: ok, a refusal, busy, a transport
error, a panic. `DropVolume` is the end of the last `Arc`, which may come from a
close or from the last call in progress. The ghosts `disk`, `base` and
`unknown` count the writes that reached a partition and remember what a mount
or a read is based on.

### LuksSession: the Kotlin session

Coroutines of three kinds act on one session: openers (unlock, openPlain),
clients (withLease) and lockers (lock() from the UI and the idle timer). The
session mutex is a variable only where it is held across a suspension point; a
section without one is a single action. Cancellation is modelled as Kotlin
defines it: `withContext` throws on entry when the coroutine was cancelled, and
again on return when it was cancelled meanwhile, so a teardown may be skipped or
may close the handles without setting the state (`TeardownCut`). A detach event reaches
the session when it is of its drive or one of the same model, or while no device is
active. The handles of
`LuksHandles.kt` appear as the sets of live volumes and closed devices, with
the rule that closing a volume first closes its writers, which may throw.

### UsbTransport: bulk transfers over usbfs

The URB arena (`in_use`, `submitted`, `reaped`, and `mine` for the slots of the
current generation), the call in progress, and the kernel and device as an
external environment. That environment serves URBs of one transfer in order,
short or in full, fails one with or without halting the endpoint, loses some, returns discarded ones late, and may be
unplugged. The actions follow `bulk_out` and `bulk_in`: start a round, submit,
reap, drain, score, and redo the round at half the size.

### ScsiBot: SCSI commands over the Bulk-Only Transport

The host side follows `command_inner` and `command_out_inner` phase by phase
(CBW, data, CSW, Reset Recovery, the nested REQUEST SENSE) and the requests above
them: `open`, `read_at`, `write_at` with its read-modify-write, `synchronize_cache`
and `write_cache_state`. The drive is external: it may refuse, send less than asked
in each of the three ways BOT knows (zero-length packet, short, stall), leave out
blocks, answer late, or have no SYNCHRONIZE CACHE. The transport below misbehaves
as UsbTransport shows it can: units moved but not reported, units of a read lost in
the middle, a round sent twice, a CSW lost. `MaxFaults` bounds all of these together. A failed reset leaves the drive
in the old command, whose late CSW then meets the next one. A refusal the drive
owes (unit attention, not ready, unknown opcode) is no fault. Data is a unit per
address, stamped with the request that wrote it. READ/WRITE(10) and (16) are one
opcode; `is_write_protected` and `probe_write_support` are left out. `open` also ends
when the INQUIRY says that the device is no disk.

### VolumeOpen and VolumeIo: from a device to bytes

VolumeOpen follows `scan`, `unlock` and `open_plain` of the bridge through the
partition tables, the two header copies, the keyslots, the segment and the
signatures. A table, header or signature is abstracted to whether it is sound and
to what it says, and each read the code goes on without may fail (`F`). A header may put
its segment anywhere, also behind the end of its partition, where `segment_len` has no
room to clamp it to and a dynamic segment stays without a bound. VolumeIo
serves requests on the mounted volume: `Take` cuts them into chunks, `Sectors`
does the read-modify-write of cipher sectors, `device_write` that of device blocks,
and `PWrite` is one system call of `pwrite_all`, which may write less than asked.
Any call may fail (`Fails`), and one that writes may leave anything in the blocks it was
given (`FailsTorn`). The unit is a cell of 256 bytes, half an IV unit, so
that requests can begin inside a sector. AES-XTS is replaced by adding a pad that
depends on the key, the tweak and the place in the sector, so a wrong tweak gives
wrong data. **FlatStore** is the promise: an array in which a request changes what
it names and nothing else, unless it fails, when the cipher sectors and device blocks
around it may be spoilt, as the comments of `write_widened` and `LuksVolume::write_at`
warn; and nothing is promised of a volume without a bound. The mapping decrypts the medium the way dm-crypt does,
from the headers alone (`owner`), independently of what `LuksVolume` computed. The
bottom is `FileDevice`; on the phone it is the SCSI device of ScsiBot, which has
the same interface and does its own widening.

### BtrfsCommit and AtomicFs: the commit protocol

Blocks and superblock copies exist twice, in the drive's cache and on its medium.
`Destage` moves any of them at any time, a crash drops the cache, and a flush
empties it. The actions are the phases of `commit.rs`: data written by a batch ahead
of its commit, tree blocks, flush, superblock copies one by one, flush; then a
failure at any of them, the fence, and the mount. A volume can be closed and opened at
any time, fenced or not, with the drive's cache as it is, and `Superblock::find`
skips copies it cannot read. The history variable `base` says what a session stands on:
the medium; a cached state that a power cut may still take; or one that it did
take, or that was mounted past a newer, unreadable copy (`stale`). Nothing is claimed of a
stale session, in which the drive holds a newer state than the one in use. **AtomicFs** is
the promise: the surviving history grows by whole transactions, and one whose
commit returned never leaves it.

### BtrfsNames and BtrfsFiles: what transactions do

BtrfsNames has the items of a file tree (inode, back reference, entry by hash,
entry by index, data) and the functions of `write/txn` on them. BtrfsFiles has the
calls of the mounted volume: single operations, each a committed transaction; the
streamed or sized writer; the batch with its window, its caches and its rearming;
recursive deletion with a transaction per entry; data chunk allocation; lost batches
and crashes. A commit is one step, which BtrfsCommit justifies.

### BtrfsTree and BtrfsSpace: blocks and space

BtrfsTree has the B-trees node by node: search, advance and retreat (`cursor.rs`),
and copy-on-write with splits, empty leaves removed and roots that grow and shrink
(`cow.rs`). BtrfsSpace has a transaction's bookkeeping: delayed references, the
convergence rounds in which recording blocks allocates blocks, block-group counters,
the free-space tree (on volumes that have one), checksums, superblock exclusions, and a
new data chunk with its chunk, device and block-group items. A streamed file takes the
first free range that holds it or, range by range, the largest, so that it may be split
(`DataRuns`); `Transaction::create_file_with_data` needs one range. A chunk allocated for
a writer keeps off the runs the writer has reserved (`exclude_ranges`) and is cut to
whole 64 KiB. **Stepwise** holds the folds both use.

### Ext4Disk, Ext4Ops and Ext4

Ext4Disk has the bitmap allocators, descriptors, directory blocks, extents and
path lookup, each as the sequence of device commands it gives. Ext4Ops has create,
mkdir, the streamed writer, link, rename, delete and the rollbacks. In Ext4 an
operation is one step that leaves in `trail` every image the device went through,
each with what the last flush had made durable. One command may fail, with its effect
or without it, since "the command may or may not have reached the medium"
(`error.rs:300-301`), and the bridge's fence follows. A crash takes any of the images, or
what was durable at it. `stray` remembers that a rollback freed an inode whose name had
landed.

### Transfers: transfers and documents

Each transfer is a coroutine of `TransferController` (import, export, tree import, tree
export, hash) from its launch to its item's last state. Each document is a pending registration and a
`LuksProxyCallback` whose callbacks share one handler thread. Both take
`transferMutex` and the volume's one native writer. Cancellation, removal of an
item, `lock()`, the teardown with `resetTransferLocks` and a new session come at any
point. The session is an environment here.

### How they meet

`fatal` in LuksSession is `fence` or `poisoned` in VolumeSession, as the codes
the bridge returns. A transport error of `Body` in VolumeSession is an error
returned by UsbTransport. What ScsiBot lets the transport do is what UsbTransport
shows it doing. An error of ScsiBot is what fences a VolumeSession, ends a commit in
BtrfsCommit and fails a command in Ext4. A flush in those two is what ScsiBot's
`FlushReachesMedium` promises. A commit, one step in BtrfsFiles and BtrfsSpace, is
what BtrfsCommit refines. The session of Transfers is LuksSession reduced to its
phases. VolumeOpen and VolumeIo, Ext4Disk to Ext4, and BtrfsTree and BtrfsSpace are
composed in one state space; the others are checked separately.

## 3. What is checked

Deadlock checking is off throughout: the bounded number of calls lets every
model stop.

| Run | Instance | Shows |
|---|---|---|
| `session` | 2 threads; an encrypted btrfs and a plain ext4 volume on one device; 1 writer handle; 2 calls; fairness | `ExclusiveWriter`, `FencedHasNoBatch`, `GatedWrites`, `EveryCallReturns` |
| `kotlin` | 1 opener, 2 clients, lock() from the UI and the idle timer, 1 detach, leaving the screen once; fairness | `StateMatchesHandles`, `LeasesAreCounted`, `LockReturns`, `DetachIsHandled` |
| `urbs` | 3 slots, URBs of 2 units, 2 calls of up to 3 units; fairness | `KernelHoldsItsSlots`, `FinishedCallIsClean`, `ReportedWasMoved`, `CallReturns` |
| `bot` | 2 blocks of 2 units, 1 block per command, 3 requests (one is `open`), 2 faults; fairness | `WritesExact`, `PassedReadIsTrue`, `FlushReachesMedium`, `RequestReturns` |
| `volume` | 55 disks of up to 20 cells, block-aligned or not; 3 passwords; 1 request of up to 10 cells | `MountedRight`, `Flat` |
| `btrfs_commit` | 3 blocks, 2 superblock copies, 4 writes, any crashes, errors, reopenings and unreadable copies | `BuiltOnFound`, `CrashSafe`, `Atomic` |
| `btrfs_files` | 3 names, two of one hash; paths two deep; a fresh tree and one with a hard link; 2 data blocks | `NamesPaired`, `SpaceAccounted`, `CachesTrue`, `AckedHeld`, `OthersUntouched` |
| `btrfs_space` | 7 trees or 6 (no free-space tree), leaves of 6 and nodes of 4 entries, 4 files, one in two extents, a device of 69 blocks that fills up, 4 transactions | `TreesSound`, `ContentsKept`, `SpaceExact`, `MapTrue`, `OnlyFull`, `CopyOnWrite` |
| `ext4` | 2 groups, 18 blocks, 6 inodes, 2 volumes, 2 writers, 2 calls besides chunks, 1 failed command (landed or not) or 1 crash | `NeverShared`, `DataBeforeRecord`, `TreeKept`, `Accounted` |
| `transfers` | 1 transfer of any kind, 1 document, files of 2 chunks, trees of 2 files, 2 sessions | `Serialised`, `LockGivenBack`, `LandsWhole` |
| `saf_thread` | 2 documents on the handler thread; fairness | `HandlerReturns` |

Why the bounds are enough:

- *session, kotlin*: a race needs one call to fail or close and one in progress; two
  volumes on one device are enough for a claim to be contended, two leases for the
  counter. The theorems of section 4 cover the rest.
- *urbs, bot*: two URBs per transfer give a gap, and the third slot lets the second
  call run beside a URB the first one lost. One block per command makes a request of
  two chunks. Two faults are an error and the reset after it, or a repeated round and
  the zero-length write that hides it. Two requests after `open` let the first one's
  late CSW meet the second. Four tags suffice because a late CSW is at most two
  commands old.
- *volume*: sectors of 2 and 4 cells, blocks of 4 and chunks of 4 make a request of 10
  cells cross every boundary; the geometries are listed in MCVolumeIo. Only the medium
  survives a request, and every step is compared with FlatStore on a medium without
  regularity, so one request is enough.
- *btrfs_commit*: two transactions, the second built on the first or on what a crash
  or a failed commit left of it. The theorems cover any number.
- *btrfs_files*: two names with one hash, the directory below a directory that a
  cycle needs, a hard link, and a device that is full after two extents.
- *btrfs_space*: items of a third of a leaf to a whole one, so that inserts split and
  deletes empty leaves; a file of three blocks has to go around the superblock copy in the
  data group, and a new chunk around another; four transactions fill the device. There is
  no block group that mixes data and metadata, so metadata cannot fall into a writer's
  reserved runs here; what `exclude_ranges` must get right is that it hides them
  without counting them as used.
- *ext4*: a file needs both groups, an extent leaf and a second directory block; a
  second call meets what a crashed or failed first one left.
- *transfers*: a second session is what a coroutine of the first can disturb.

### Disagreements between the code and its comments

One run, `ext4_uninit`, checks `NeverShared` with a group whose bitmap was never
written and finds it violated: `alloc_blocks` clears the group's "uninitialised" flag
in memory before it writes the bitmap; when that write fails, the rollback writes the
descriptor, and a later mount believes a bitmap that was never written
(`findings` in `PROJECT.json` quotes the comment).

The following are exhibited by configurations that are kept beside the runs. TLC ends
each of them with a counterexample; those named `_docs` check several statements, and
`tlc -continue` shows a counterexample to each.

| Configuration | Statement | What happens instead |
|---|---|---|
| `MCVolumeSession_gap` | every later write is refused after an unknown outcome (`error.rs:275`) | `guarding_writes` drops the fs lock before it fences (`bridge.rs:606`); a waiting write gets in between |
| `MCVolumeSession_stale` | two cached copies never allocate on one disk (`error.rs:155-160`) | they do, one after the other (`writer.rs:232`) |
| `MCLuksSession_docs` (`TeardownClosesVolume`) | closing the volume drops it on the Rust side (`LuksHandles.kt:596`) | a writer that fails to close stops the close (`:599`) |
| `MCLuksSession_docs` (`DeviceOutlivesVolume`) | the connection outlives every handle on it (`LuksHandles.kt:15-17`) | leaving the screen during an open closes it (`DevicesScreen.kt:206`) |
| `MCUsbTransport_latch` | Dead is permanent (usbfs `lib.rs:1096`) | a redone round that drains cleanly stores Healthy (`:1094`) |
| `MCScsiBot_spin` | a drive that is not ready once is waited for (`scsi.rs:289`) | `command` has already fetched and cleared the sense data; `open` asks again, is told NO SENSE, and gives up (`:305`) |
| `MCTransfers_half` | any failure abandons, no half file is left (`LuksProxyCallback.kt:34-36`) | a first write that fails before its writer exists stays pending, and the release makes an empty file of it (`:163`, `:225`) |
| `MCVolumeIo_room` (`Contained`) | the partition length stops writes "running off the end of the *container*", and None "is not a way to opt out" (`luks/volume.rs:73-81`) | a segment that begins behind its partition's end leaves no room to subtract, and a dynamic one gets no bound at all (`:109-115`) |
| `MCBtrfsCommit_docs` (`NewestIsFound`) | the newest valid superblock is found (`superblock.rs:189-196`) | a rearmed batch commits again under the generation of the commit before it (`batch.rs:745`); if only the second copy of its superblock lands, the primary of the same generation, one transaction older, is mounted |
| `MCBtrfsCommit_docs` (`StandsOnDurable`) | remounting avoids writing "on top of a filesystem whose last transaction may or may not have landed" (`error.rs:280-281`; `:289` and `LuksSession.kt:407` ask for it) | on a drive that kept its power the mount finds the transaction in the drive's cache, with no flush; what is then written stands on it, and a power cut may still take it |
| `MCExt4_docs` (`NameAfterRecord`) | the inode is durable before the name that reaches it (`file.rs:444`, `:453-455`) | `finish_file` links the file with no flush after its inode is written (`file.rs:344`) |
| `MCExt4_docs` (`NoNameLeftBehind`) | "Create a file *and* give it a name, or leave the filesystem as it was" (`file.rs:425`) | the write of the link is reported as failed and has landed; the rollback frees the inode under the name (`file.rs:475-478`) |
| `MCExt4_docs` (`OrderReachesMedium`) | the inode is freed before its blocks, so that no window has two files on the same blocks (`file.rs:485-491`) | no flush lies between the two, and a pulled cable can take acknowledged writes (`alloc.rs:654-656`): a drive that loses the one and keeps the other breaks the order |
| `MCExt4_undo` | the inode goes first, so nothing on the disk names the freed blocks (`file.rs:485-490`) | errors are dropped (`file.rs:504-505`): when freeing the inode fails, its blocks are freed all the same and go to the next file |

The models also show, without a configuration of their own:

- *Bridge and session*: `read_chunk` takes the fs lock twice and may see a write in
  between; btrfs answers `WriterBusy` for the volume's own open file; a teardown goes
  on with leases out; a lease on an earlier session's volume can end the current
  session, and a cancelled one can leave it standing or leave its state behind its
  handles; a rollback drops its own transport error, so that it does not fence.
- *Transport*: a redone or shortened OUT transfer may repeat units the device already
  took (ScsiBot shows that no such write passes); a short IN URB is no gap to
  `contiguous_prefix`, so that a URB behind it may be counted at the wrong place.
- *Opening*: `detect_ext4` and `Superblock::find` take a failed read for an absent
  signature, so a stale filesystem can be mounted (`MountedRight` says when), although
  `detect` "errors rather than guessing" (`detect.rs:230`). `read_from` falls back to
  the smallest header size where its comment says the largest, and `parse` needs the
  primary's magic, so some sound backups are not found (`header.rs:320-326`,
  `:357-358`). `confirm_len` takes any read error past the end for the end
  (`device.rs:259`). A backup GPT left in the last block wins over an MBR. One keyslot
  with an error ends the search that should "try every keyslot" (`keyslot.rs:349`).
- *Volume*: `write_widened` refuses the last, partial block of a device; a container
  longer than its device is found out in the middle of a write, although
  `check_write_range` is there to prevent it. A write that fails may lose bytes the caller
  never named, as `device.rs:441-452` and `luks/volume.rs:217-222` warn; `Flat` bounds the
  loss to the cipher sectors and device blocks of the request.
- *btrfs*: a superblock copy that cannot be read is passed over (`superblock.rs:213-217`),
  and an older one mounted, which `base` records as `stale`. `commit_and_rearm` takes
  the pending blocks and deltas out of the batch before the call that may fail, although
  it means to "keep the live batch untouched until it succeeds" (`batch.rs:712-715`).
  The first file in a second directory of one batch looks up its index in a tree block
  that is not yet written (`batch.rs:412`): the model lets it find nothing or anything, and
  the properties hold nevertheless. A cycle longer than the 256 ancestors
  `resolve_rename` looks at is not seen (`rename.rs:287`); the instance's trees are
  shallower. A rename deletes a file's whole back-reference item, which loses the second
  of two names in the same directory; `InitTrees` has its hard link in two directories.
- *ext4*: a rename unlinks the old name and then links the new one with no barrier.
- *Transfers*: an item stays RUNNING when its lease is refused or its context throws
  after RUNNING has overwritten CANCELLED. A cancel that races the end marks a landed
  file CANCELLED. A tree transfer polls only its item, so that a cancel overwritten by
  RUNNING is lost. A job launched and not yet registered is missed by the reset. A
  pending document can survive into the next session. After `resetTransferLocks` an old
  holder and a new one can both be inside the mutex, which is why `Serialised` ends
  there.

### Fairness

- `EveryCallReturns`: weak fairness of each thread. The body always returns:
  transfers have deadlines. Locks are released by steps of the same kind.
- `LockReturns`, `DetachIsHandled`: weak fairness of an open, whose native part
  ends; strong fairness of lock() and of the detach coroutine, because Kotlin's
  `Mutex` hands itself over in order of arrival. Clients have no fairness: a
  lease may last for ever.
- `RequestReturns`: weak fairness of the host, whose bulk calls return
  (`CallReturns`), and of a drive that has all the data of a write.
- `HandlerReturns`: weak fairness of callbacks, transfers and the teardown: native calls
  end, and a callback's wait for the mutex has a time-out. Strong fairness of a
  transfer's `lock`, for the same reason as above.
- `CallReturns`: weak fairness of the host only. The device and the kernel need
  do nothing, since polls end at a deadline.

## 4. What is proved

The theorems hold for every value of the constants that meets the assumptions named in
the modules: any number of threads, volumes, devices, coroutines, transfers, documents,
slots, blocks, block sizes, disks and requests. Most assumptions only type the constants.
The others are:

- the clients of a session are finite, so that leases can be counted;
- for SCSI, there are more tags than faults (`MaxFaults < TagMod`), so that a write the
  drive kept over failed resets is never taken for the current one (the code's tags are
  32 bits wide);
- for the volume, partitions do not overlap, and two sound header copies of a container
  have one size and, with the same sequence number, the same contents, as cryptsetup
  writes them (`DisksAssumption`); where a header puts its segment is left open;
- for files, the trees to start from have finitely many object ids, and their extents lie
  in a finite data space (`VolumeAssumption`).

**SessionProofs**, for VolumeSession: `TypeCorrect`, `OneWriterPerDevice`,
`FencedStaysEmpty`, `WritesAreGated`. The inductive invariant has three parts. *Shape*
ties a thread's place to its operation and arguments. *Guarded* says that a thread in its
body holds the fs lock of a volume that is not fenced, not poisoned and consented to. It
is needed because the fence is checked twice, and only the second check, under the lock,
makes the write safe. *Claimed* says that a writer handle, a batch or a thread in its body
implies the claim, and that a device's flag is set exactly when one live volume holds it.
That is why `write_chunk`, `finish_file` and the commit need not claim.

**SessionProofs**, for LuksSession (its instance `K`): `FieldsNameOpenHandles` and
`LeaseCounterIsExact` state `StateMatchesHandles` and `LeasesAreCounted` of the
`kotlin` run. The first needs to know that an opener past its start holds the mutex,
and that the volume it is about to publish is still open; every teardown needs the mutex
and so cannot come in between. The second counts the clients between taking and giving
back a lease. An instance's assumptions are not facts, so both theorems have
`SessionConstants`, which LuksSession assumes, as a hypothesis.

**UsbTransportProofs**: `SlotsAreNotReused` and `FinishedCallsLeakNothing`. The invariant
partitions the URBs the kernel holds and says which slots the current round owns at each
place of the call. `ReportsOnlyMoved` needs *MoveInv*: the URBs of a round lie one behind
the other in the buffer, all but the last of full length; one reaped as a success, and so
every outcome recorded, has moved all its units. The sum that a round reports is then the
length of a prefix that was moved, whichever URB ends it.

**BtrfsCommitProofs**: `AlwaysMountable`, `BuildsOnWhatIsFound` and `CommitIsAtomic`, the
last one the refinement of AtomicFs, all with reopening at any time. The properties
themselves say what is excepted: a `stale` session, and for the medium a session that
stands on the cache only. The invariant says what holds in the cache and on
the medium at once, because a crash may come between any two steps. The cache is at most
one transaction ahead: every copy in which they differ is the one a mount would choose,
whose tree is whole in the cache, and writes build on it (*Ahead*). For a session that
stands on the medium both choices are whole in both, and until a superblock is written
cache and medium agree on the superblocks (*OnMedium*); nothing that is being written lies
in the tree in use (*Batched*, *Built*). Superblocks are written only after a flush, which
puts any session on the medium, and the new tree is then whole in both (*Extends*,
*Written*, *Publishing*), so any mixture of copies mounts the old or the new state. The
lemmas say what `Superblock::find` chooses when one copy is replaced, and which copies a
mount that cannot read all of them may choose.

**ScsiBotProofs**: `BotTyped` and `FlushesReach`. The invariant says that host and drive
keep in step (*Joint*): behind a CBW the drive is in the host's command, or in an older
write that a failed reset left it, whose status has another tag because it is at most one
tag older for every fault (*KeptWrite*). *Sensed* says that ILLEGAL REQUEST is read only
as the reason of the command it was given for, so flushes are given up only when
the drive lacks them; *Flushed* follows a passed SYNCHRONIZE CACHE to the caller.

**ScsiBotDataProofs**: `ReadsAreTrue` and `WritesAreExact`, on top of that. The units
received are those the drive sent as long as the counts of both sides agree, and a status
with the host's tag and no residue says that they do. *Mixed* gives the image between two
commands of a `write_at`: the caller's units as far as they are acknowledged, the old ones
behind, and *Outgoing* says the same of the blocks on their way, so the
read-modify-write of a partial block puts the neighbours back unchanged.

**TransfersProofs**: `MutexSerialises` and `MutexGivenBack`. The invariant ties every
place of a coroutine between lock and unlock, and every place of a callback, to who is
inside the mutex, until a reset. `FilesLandWhole` needs *WholeInv*: a writer holds the
first chunks of its source in their order, a stream's file is checked to be complete
before it lands, and `expectedNextOffset` is the length of what the proxy's writer holds.

**VolumeIoProofs**: `OpensRight` and `VolumeIsFlat`, the refinement of FlatStore, for
every disk. The first follows the probe, the choice between the two header copies and the
clamps to the volume that is mounted: its base, length, sector and IVs are those the
owner of the disk computes from the headers. For the second, a write in progress
(*JobOK*, *DoneOK*) has, cell by cell, what was there or what the request says, and what
`pwrite_all` still holds is the rest of it; the blocks and sectors around the request are
written as they were read. So every step that moves cells is a step of the flat store
on the owner's reading of the medium, and every other step a stutter. A failing call
spoils at most the blocks it was given, and those lie in what the request is rounded out
to (*ReachOK*). The lemmas are
about division and remainder: which block and sector a cell lies in, and which IV it gets.

**BtrfsFilesProofs**: `ExtentsAreExact` (the extent tree records exactly the blocks of
the files, a batch's allocator those and its own, and the blocks reserved for the open
writer are distinct and no file's), `CachesStayTrue` (the parents a batch has cached are
the directories their paths name now, and its next inode number is unused) and
`AcceptedFilesAreHeld` (a file that was accepted into a batch stays in it until it is
committed or the batch is lost). The invariant says of the committed tree that its object
ids are bounded and its blocks are those in use (*VolumeOK*); of the batch's tree the same
against its own counter and allocator, and that it only adds to the committed tree
(*Grew*); and of the writer that its blocks are in the ledger and not in the allocator
(*WriterInv*). The last is what abandoning a file depends on: giving the blocks back frees
nothing of another's. A path that resolved resolves to the same inode in a tree that has
grown (*ResolveKept*), so a cached parent survives a commit.

Only model-checked:

- liveness (`EveryCallReturns`, `LockReturns`, `DetachIsHandled`, `CallReturns`,
  `RequestReturns`, `HandlerReturns`): the prover has no rule for fairness;
- `NamesPaired` of BtrfsFiles, a statement about sums over directories and reachability
  from the root, which needs induction over data, and `OthersUntouched`, which rests on it:
  what a delete leaves alone depends on link counts being the number of names;
- BtrfsSpace and Ext4, whose trees and folds are recursive;
- the disagreements above.

## 5. What is not modelled

- Cryptography, key derivation, checksums, compression, JSON and on-disk byte layouts:
  data transformations. A checksum appears as whether a copy is sound.
- The read paths of the filesystems beyond what the write paths look up: file data,
  decompression, subvolume listing, hashed ext4 directories.
- Superblock writes are atomic: a torn 4 KiB block is not modelled. Its checksum would
  make it an invalid copy, which a mount skips as it does one it cannot read.
- A btrfs file is one item of its tree whatever its number of extents; `write_file` on an
  existing file. An ext4 data write of several blocks lands whole or not at all.
- A second proxy on a document that is open already counts as a document of its own.
- Flush of `FileDevice`; its read-only and Windows paths.
- The exact numbers behind bounds: batch window and sizes (any file may close the
  window), time-outs (may come at any point), transfer progress and speed.
- Conflict naming, REPLACE and the directory walk of tree transfers; provider queries,
  reads, deletes and renames, which go straight to the session. A time-out of the
  provider's `lock()` after the lock was taken.
- Claiming the USB interface, logging, tracing, the forensic ring, the Compose screens'
  layout, the foreground service and passphrase scrubbing change no state these
  properties depend on.

Each is named in the note of its component in `PROJECT.json`.

## 6. What could come next

1. A proof of `NamesPaired`, with link counts kept as a history variable instead of
   sums, and of `OthersUntouched` from it.
2. Transfers composed with LuksSession instead of its phases.
3. Symbolic links, subvolume roots and hashed directories on the read paths.
