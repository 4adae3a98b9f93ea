----------------------------- MODULE BtrfsCommit -----------------------------
(***************************************************************************)
(* Committing a btrfs transaction to a drive with a volatile write cache   *)
(* (core/src/fs/btrfs/write/commit.rs), the superblock copies it writes    *)
(* and the mount that chooses among them (superblock.rs, mod.rs), with     *)
(* power loss at any moment and transport errors at any write or flush.    *)
(*                                                                         *)
(* A block's content is the number of the write that produced it.  A tree  *)
(* is the set of <<block, content>> pairs reachable from a superblock, so  *)
(* it is whole on a disk exactly when every pair is what the disk holds.   *)
(* All stripes of a block are written together and count as one block.     *)
(***************************************************************************)
EXTENDS Naturals, Sequences, FiniteSets

CONSTANTS
  Blocks,      \* addresses the allocator can hand out
  FirstTree,   \* the blocks of the filesystem as it was first mounted
  NCopies,     \* the superblock copies that fit on the device
  MaxWrites    \* bound on the numbers given to writes

ASSUME CopiesAssumption == NCopies \in Nat \ {0}
ASSUME TreeAssumption == FirstTree \subseteq Blocks

VARIABLES
  cblk, csup,  \* blocks and superblock copies as the drive's cache has them
  mblk, msup,  \* ... and as its medium has them
  pc,          \* "down", "idle", or the phase of a commit
  mem,         \* Btrfs::sb and fs_tree: the state operations build on
  fence,       \* {} or {"fenced"}: a transport error has ended writing
  bgen,        \* Batch::generation, 0 without a batch
  work,        \* data already on the drive that only the batch knows of
  new, todo, copy, \* the transaction: its superblock, its blocks not yet
               \* written, and the next superblock copy
  next,        \* the number of the next write
  acked,       \* history: the transactions of the last commit that returned
  base         \* history: what the mounted state stands on, "medium",
               \* "cache" (a power loss may take it) or "stale" (a newer copy
               \* was passed over, or the power loss did take it)

disk == <<cblk, csup, mblk, msup>>
vars == <<cblk, csup, mblk, msup, pc, mem, fence, bgen, work, new, todo, copy,
          next, acked, base>>

Copies == 1 .. NCopies
Tree   == SUBSET (Blocks \X Nat)
Super  == [gen : Nat, tree : Tree, hist : Seq(Nat)]

At(t) == {p[1] : p \in t}

(* A tree every block of which the disk d still holds. *)
Whole(t, d) == \A p \in t : d[p[1]] = p[2]

(* Superblock::find among the copies it could read: the highest generation,
   the first copy among equals. *)
BestOf(read, c, sup) ==
  \A d \in read : \/ sup[d].gen < sup[c].gen
                  \/ sup[d].gen = sup[c].gen /\ c <= d

IsBest(c, sup) == BestOf(Copies, c, sup)

Find(sup) == sup[CHOOSE c \in Copies : IsBest(c, sup)]

FirstSuper == [gen |-> 1, tree |-> FirstTree \X {1}, hist |-> << >>]

Init ==
  /\ cblk = [b \in Blocks |-> 1] /\ mblk = cblk
  /\ csup = [c \in Copies |-> FirstSuper] /\ msup = csup
  /\ pc = "idle" /\ mem = FirstSuper /\ fence = {}
  /\ bgen = 0 /\ work = {}
  /\ new = FirstSuper /\ todo = {} /\ copy = 1
  /\ next = 2 /\ acked = << >> /\ base = "medium"

(* Blocks the batch's allocator may hand out: neither in the tree it was
   opened on nor already handed out (handed_out). *)
Free == Blocks \ (At(mem.tree) \union At(work))

Writing == pc = "idle" /\ fence = {} /\ next <= MaxWrites

(* begin_file, write_chunk: a file's data goes to the drive at once; the first
   file opens the batch and fixes its generation. *)
WriteChunk(b) ==
  /\ Writing
  /\ b \in Free
  /\ cblk' = [cblk EXCEPT ![b] = next]
  /\ work' = work \union {<<b, next>>}
  /\ bgen' = IF bgen = 0 THEN mem.gen + 1 ELSE bgen
  /\ next' = next + 1
  /\ UNCHANGED <<csup, mblk, msup, pc, mem, fence, new, todo, copy, acked, base>>

(* abandon_file: the runs go back to the allocator, what they hold stays. *)
Abandon ==
  /\ pc = "idle" /\ fence = {} /\ work # {}
  /\ work' = {}
  /\ UNCHANGED <<disk, pc, mem, fence, bgen, new, todo, copy, next, acked, base>>

(* A transaction is built in memory and commit_transaction called on it:
   freed blocks leave the tree, the batch's data and the new metadata blocks
   join it.  Batch::commit_and_rearm keeps the batch, and its generation, for
   the next files (rearm); Batch::commit and the single operations do not. *)
StartCommit(freed, meta, rearm) ==
  /\ Writing
  /\ freed \subseteq mem.tree
  /\ meta \subseteq Free /\ meta # {}
  /\ rearm => bgen # 0
  /\ new' = [gen  |-> IF bgen # 0 THEN bgen ELSE mem.gen + 1,
             tree |-> (mem.tree \ freed) \union work \union (meta \X {next}),
             hist |-> Append(mem.hist, next)]
  /\ bgen' = IF rearm THEN bgen ELSE 0
  /\ work' = {}
  /\ todo' = meta
  /\ pc' = "blocks"
  /\ next' = next + 1
  /\ UNCHANGED <<disk, mem, fence, copy, acked, base>>

WriteBlock(b) ==
  /\ pc = "blocks" /\ b \in todo
  /\ cblk' = [cblk EXCEPT ![b] = next - 1]
  /\ todo' = todo \ {b}
  /\ UNCHANGED <<csup, mblk, msup, pc, mem, fence, bgen, work, new, copy, next,
                 acked, base>>

Flush == mblk' = cblk /\ msup' = csup /\ UNCHANGED <<cblk, csup>>

(* Mutant: no flush between the blocks and the superblocks. *)
FlushBlocks_Unflushed ==
  /\ pc = "blocks" /\ todo = {}
  /\ pc' = "super" /\ copy' = 1
  /\ base' = IF base = "cache" THEN "medium" ELSE base
  /\ UNCHANGED <<disk, mem, fence, bgen, work, new, todo, next, acked>>

FlushBlocks ==
  /\ pc = "blocks" /\ todo = {}
  /\ Flush
  /\ pc' = "super" /\ copy' = 1
  /\ base' = IF base = "cache" THEN "medium" ELSE base
  /\ UNCHANGED <<mem, fence, bgen, work, new, todo, next, acked>>

(* emit_copy: every copy that fits is written, the primary first. *)
WriteSuper ==
  /\ pc = "super" /\ copy \in Copies
  /\ csup' = [csup EXCEPT ![copy] = new]
  /\ copy' = copy + 1
  /\ UNCHANGED <<cblk, mblk, msup, pc, mem, fence, bgen, work, new, todo, next,
                 acked, base>>

(* Mutant: Ok without the final flush. *)
FlushSuper_Unflushed ==
  /\ pc = "super" /\ copy \notin Copies
  /\ pc' = "idle" /\ mem' = new
  /\ acked' = new.hist /\ base' = "medium"
  /\ UNCHANGED <<disk, fence, bgen, work, new, todo, copy, next>>

(* The final flush, update_mount_state, and Ok to the caller. *)
FlushSuper ==
  /\ pc = "super" /\ copy \notin Copies
  /\ Flush
  /\ pc' = "idle" /\ mem' = new
  /\ acked' = new.hist /\ base' = "medium"
  /\ UNCHANGED <<fence, bgen, work, new, todo, copy, next>>

(* Mutant: the error is reported and writing goes on. *)
Fails_Unfenced ==
  /\ pc \in {"idle", "blocks", "super"} /\ fence = {}
  /\ \/ UNCHANGED disk
     \/ /\ pc = "idle" /\ Writing
        /\ \E b \in Free : cblk' = [cblk EXCEPT ![b] = 0]
        /\ UNCHANGED <<csup, mblk, msup>>
     \/ /\ pc = "blocks"
        /\ \E b \in todo, v \in {0, next - 1} : cblk' = [cblk EXCEPT ![b] = v]
        /\ UNCHANGED <<csup, mblk, msup>>
     \/ /\ pc = "super" /\ copy \in Copies
        /\ csup' = [csup EXCEPT ![copy] = new]
        /\ UNCHANGED <<cblk, mblk, msup>>
  /\ pc' = "idle" /\ UNCHANGED fence
  /\ bgen' = 0 /\ work' = {} /\ todo' = {}
  /\ UNCHANGED <<mem, new, copy, next, acked, base>>

(* A transport error ends a write or a flush: nothing in memory is updated,
   the batch is dropped, and the bridge fences the volume.  Whether the
   write that failed reached the drive is unknown. *)
Fails ==
  /\ pc \in {"idle", "blocks", "super"} /\ fence = {}
  /\ \/ UNCHANGED disk
     \/ /\ pc = "idle" /\ Writing
        /\ \E b \in Free : cblk' = [cblk EXCEPT ![b] = 0]
        /\ UNCHANGED <<csup, mblk, msup>>
     \/ /\ pc = "blocks"
        /\ \E b \in todo, v \in {0, next - 1} : cblk' = [cblk EXCEPT ![b] = v]
        /\ UNCHANGED <<csup, mblk, msup>>
     \/ /\ pc = "super" /\ copy \in Copies
        /\ csup' = [csup EXCEPT ![copy] = new]
        /\ UNCHANGED <<cblk, mblk, msup>>
  /\ pc' = "idle" /\ fence' = {"fenced"}
  /\ bgen' = 0 /\ work' = {} /\ todo' = {}
  /\ UNCHANGED <<mem, new, copy, next, acked, base>>

(* The drive stores cached writes in any order and whenever it likes. *)
DestageBlock(b) ==
  /\ mblk[b] # cblk[b]
  /\ mblk' = [mblk EXCEPT ![b] = cblk[b]]
  /\ UNCHANGED <<cblk, csup, msup, pc, mem, fence, bgen, work, new, todo, copy,
                 next, acked, base>>

DestageSuper(c) ==
  /\ msup[c] # csup[c]
  /\ msup' = [msup EXCEPT ![c] = csup[c]]
  /\ UNCHANGED <<cblk, csup, mblk, pc, mem, fence, bgen, work, new, todo, copy,
                 next, acked, base>>

Down ==
  /\ pc' = "down" /\ fence' = {} /\ bgen' = 0 /\ work' = {} /\ todo' = {}
  /\ UNCHANGED <<mem, new, copy, next, acked>>

(* Power loss: the cache is gone and a block it was storing may be torn. *)
Crash ==
  /\ \E torn \in SUBSET {b \in Blocks : mblk[b] # cblk[b]} :
       mblk' = [b \in Blocks |-> IF b \in torn THEN 0 ELSE mblk[b]]
  /\ cblk' = mblk' /\ csup' = msup /\ UNCHANGED msup
  /\ base' = IF base = "medium" THEN "medium" ELSE "stale"
  /\ Down

(* The volume is closed, fenced or not (onWriteSessionFenced tears the session
   down and asks for an unlock); the drive keeps its power and its cache. *)
Close ==
  /\ pc = "idle"
  /\ UNCHANGED <<disk, base>>
  /\ Down

(* Btrfs::mount reads the trees of the copy it chose; a copy that cannot be
   read is skipped. *)
Mount(read, c) ==
  /\ pc = "down"
  /\ c \in read /\ BestOf(read, c, csup)
  /\ Whole(csup[c].tree, cblk)
  /\ mem' = csup[c]
  /\ base' = IF ~IsBest(c, csup) THEN "stale"
             ELSE IF msup = csup /\ Whole(csup[c].tree, mblk) THEN "medium"
             ELSE IF base = "stale" THEN "stale" ELSE "cache"
  /\ pc' = "idle"
  /\ UNCHANGED <<disk, fence, bgen, work, new, todo, copy, next, acked>>

Host == \/ \E b \in Blocks : WriteChunk(b) \/ WriteBlock(b)
        \/ Abandon
        \/ \E freed \in SUBSET mem.tree, meta \in SUBSET Free, r \in BOOLEAN :
             StartCommit(freed, meta, r)
        \/ FlushBlocks \/ WriteSuper \/ FlushSuper \/ Fails
        \/ Close
        \/ \E read \in SUBSET Copies, c \in Copies : Mount(read, c)

Next == \/ Host
        \/ \E b \in Blocks : DestageBlock(b)
        \/ \E c \in Copies : DestageSuper(c)
        \/ Crash

Spec == Init /\ [][Next]_vars

-------------------------------------------------------------------------------

TypeOK ==
  /\ cblk \in [Blocks -> Nat] /\ mblk \in [Blocks -> Nat]
  /\ csup \in [Copies -> Super] /\ msup \in [Copies -> Super]
  /\ pc \in {"down", "idle", "blocks", "super"}
  /\ mem \in Super /\ new \in Super
  /\ fence \subseteq {"fenced"}
  /\ bgen \in Nat /\ work \in Tree
  /\ todo \subseteq Blocks /\ copy \in 1 .. NCopies + 1
  /\ next \in Nat \ {0} /\ acked \in Seq(Nat)
  /\ base \in {"medium", "cache", "stale"}

(* In the middle of any commit, a mount finds a whole filesystem: the copy that
   Superblock::find would choose names only blocks that still hold what its
   trees expect.  After a power loss (the medium), if the session stands on
   what the medium holds; after a reopen without one (the cache), unless it was
   mounted past a newer copy. *)
CrashSafe ==
  /\ base = "medium" => Whole(Find(msup).tree, mblk)
  /\ base # "stale"  => Whole(Find(csup).tree, cblk)

(* What the fence is for (error.rs:283-288, a batch that stayed live after a
   failed commit): as long as writes are accepted, the state they build on is
   the one a reopen would find on the drive, whatever failed before. *)
BuiltOnFound ==
  base # "stale" /\ fence = {} /\ pc \in {"idle", "blocks"} => mem = Find(csup)

(* error.rs on the fence: the operator has to remount "rather than continue
   writing on top of a filesystem whose last transaction may or may not have
   landed".  What is written after that builds on transactions that are on the
   medium. *)
StandsOnDurable ==
  base # "stale" /\ (work # {} \/ pc = "blocks") => mem.hist = Find(msup).hist

(* The transactions a mount would find only grow, one whole transaction at a
   time, and hold every commit_transaction that returned Ok, until a mount
   passes over the newest copy. *)
A == INSTANCE AtomicFs WITH durable <- Find(msup).hist, astray <- base = "stale"
Atomic == A!Spec

(* Superblock::find's comment: the newest valid copy is mounted, never the
   filesystem "as it was one transaction ago". *)
NewestIsFound == \A c \in Copies : Len(Find(msup).hist) >= Len(msup[c].hist)
===============================================================================
