----------------------------- MODULE BtrfsFiles -----------------------------
(***************************************************************************)
(* The mutating interface of a mounted btrfs volume (write/mod.rs,         *)
(* write/file.rs, write/batch.rs): single operations, each one committed   *)
(* transaction; one streamed or sized file at a time, gathered with others *)
(* in a batch that is committed when the window closes; recursive deletion *)
(* with one transaction per entry; failed commits, abandoned writers and   *)
(* crashes.  A commit is one step here, which is what BtrfsCommit shows of *)
(* the writes, flushes and superblock copies behind it.                    *)
(***************************************************************************)
EXTENDS BtrfsNames

CONSTANTS
    InitTrees,      \* trees another system may have left on the volume
    Paths,          \* directory paths, sequences of names
    InitSpace,      \* data blocks of the chunks the volume starts with
    ChunkBlocks,    \* data blocks a new chunk adds
    MaxSpace,       \* bound: data blocks the device can hold
    MaxNumbers,     \* bound: inode numbers and directory indexes, together
    MaxRuns,        \* bound: data runs of one file
    DeleteDepth     \* MAX_DELETE_DEPTH

ASSUME VolumeAssumption ==
    /\ ChunkBlocks \in Nat /\ MaxRuns \in Nat /\ DeleteDepth \in Nat
    /\ \A p \in Paths : p \in Seq(Names)
    /\ InitSpace # {} /\ InitSpace \subseteq Nat /\ IsFiniteSet(InitSpace)
    /\ \A t \in InitTrees :
          /\ DOMAIN t = Kinds
          /\ \A i \in DOMAIN t.inode : DOMAIN t.inode[i] = {"type", "nlink", "size"}
          /\ ObjectIds(t) \subseteq Nat \ {NoIno} /\ IsFiniteSet(ObjectIds(t))
          /\ AllBlocks(t) \subseteq InitSpace

VARIABLES
    disk,           \* the committed tree
    used,           \* the committed data extents (extent tree)
    space,          \* data blocks the chunks hold
    batch,          \* active_batch, or NoBatch
    writer,         \* has_open_writer and the writer's runs, or NoWriter
    todo,           \* the frames of a recursive delete, outermost first
    acked           \* files finish_file accepted that are not yet committed

vars == <<disk, used, space, batch, writer, todo, acked>>

NoBatch == [open |-> FALSE]
NoWriter == [open |-> FALSE]

Front(s) == SubSeq(s, 1, Len(s) - 1)
Last(s) == s[Len(s)]

Links(t) == UNION {{<<k[1], e.name, e.ino>> : e \in t.item[k]} : k \in DOMAIN t.item}

SharedBlocks(t) ==
    {b \in AllBlocks(t) : Cardinality({k \in DOMAIN t.data : t.data[k] = b}) > 1}

Lowest(S, n) == CHOOSE s \in [1..n -> S] : \A k \in 1..n : s[k] = Min(S \ {s[m] : m \in 1..(k - 1)})

Bounded(t) ==
    t # Failed =>
        NextIno(t) + MapThenSumSet(LAMBDA i : NextIdx(t, i) - 2, DOMAIN t.inode) <= MaxNumbers

--------------------------------------------------------------------------
(* Batch::open: the committed tree and its allocations. *)
OpenBatch(t, u) ==
    [open |-> TRUE, tree |-> t, alloc |-> u, extents |-> {}, ledger |-> {},
     bound |-> FALSE, nextIno |-> 0, nextIdx |-> << >>, parents |-> << >>, files |-> 0]

HasUncommitted(b) == b.open /\ b.files > 0

(* What the volume holds once commit_active_batch has run. *)
Flushed == IF HasUncommitted(batch) THEN batch.tree ELSE disk
FlushedUsed == IF HasUncommitted(batch) THEN used \cup batch.extents ELSE used

(* commit_and_rearm keeps the sequencers and the parent cache. *)
Rearm(b) == [b EXCEPT !.extents = {}, !.ledger = {}, !.files = 0]

(* Mutant: blocks reserved for the open writer count as free. *)
Free_IgnoresLedger(b) == space \ b.alloc

Free(b) == space \ (b.alloc \cup b.ledger)

(* Where add_file_internal puts the file: the cached parent, or the path
   resolved in the committed tree t. *)
ParentOf(t, b, path) ==
    IF b.bound /\ path \in DOMAIN b.parents THEN b.parents[path]
    ELSE LET i == Resolve(t, path) IN IF IsDir(t, i) THEN i ELSE NoIno

(* The directory index: the cached sequencer, or a scan of the directory.
   The scan reads fs_root through the mount, which no longer holds the batch,
   so once the batch has uncommitted nodes it finds whatever the block held
   before: an unreadable node, or a stale one with any index in it. *)
IndexFor(b, d) ==
    IF d \in DOMAIN b.nextIdx THEN {b.nextIdx[d]}
    ELSE IF b.files = 0 THEN {NextIdx(b.tree, d)}
    ELSE 0..MaxNumbers

(* The items of the new file, from the parent's inode to its extents. *)
FileItems(t, d, n, i, j, runs) ==
    AddRuns(NewInode(LinkFile(Grow(t, d, n), d, n, i, j), i, d, n, j, "file"), i, runs)

(* Bookkeeping of a file that went in. *)
Added(b, path, d, t, i, j, runs) ==
    [b EXCEPT !.tree = t,
              !.alloc = @ \cup Range(runs),
              !.extents = @ \cup Range(runs),
              !.bound = TRUE,
              !.nextIno = i + 1,
              !.nextIdx = [x \in DOMAIN @ \cup {d} |-> IF x = d THEN j + 1 ELSE @[x]],
              !.parents = [p \in DOMAIN @ \cup {path} |-> IF p = path THEN d ELSE @[p]],
              !.files = @ + 1]

(* Batch::add_file_internal: the batches it may leave, or Failed.  A writer
   with a declared size it did not fill (short) is refused. *)
AddFile(t, b, path, n, w) ==
    LET d == ParentOf(t, b, path)
        i == IF b.bound THEN b.nextIno ELSE NextIno(t)
        Put(j) == IF j = 0 THEN Failed ELSE FileItems(b.tree, d, n, i, j, w.runs)
    IN  IF w.short \/ d = NoIno \/ Lookup(b.tree, d, n) # {} THEN {Failed}
        ELSE {IF Put(j) = Failed THEN Failed ELSE Added(b, path, d, Put(j), i, j, w.runs)
                : j \in IndexFor(b, d)}

--------------------------------------------------------------------------
Init ==
    /\ disk \in InitTrees
    /\ used = AllBlocks(disk)
    /\ space = InitSpace
    /\ batch = NoBatch
    /\ writer = NoWriter
    /\ todo = << >>
    /\ acked = {}

Idle == todo = << >>

(* Mutant: a single operation leaves the batch armed, caches and all. *)
Transact_KeepsBatch(new, newUsed) ==
    /\ Idle
    /\ ~writer.open
    /\ Bounded(new)
    /\ new # Failed
    /\ disk' = new
    /\ used' = newUsed
    /\ batch' = IF batch.open THEN [Rearm(batch) EXCEPT !.tree = new, !.alloc = newUsed] ELSE batch
    /\ acked' = {}
    /\ UNCHANGED <<space, writer, todo>>

(* A single operation: commit_active_batch, which refuses while a writer is
   open, then the transaction, which may be refused or fail to commit. *)
Transact(new, newUsed) ==
    /\ Idle
    /\ ~writer.open
    /\ Bounded(new)
    /\ \/ /\ new # Failed
          /\ disk' = new
          /\ used' = newUsed
       \/ disk' = Flushed /\ used' = FlushedUsed
    /\ batch' = NoBatch
    /\ acked' = {}
    /\ UNCHANGED <<space, writer, todo>>

(* Mutant: the batch is dropped, not committed, before the operation. *)
CreateFile_Unflushed(path, n) == Transact(CreateEmptyFile(disk, Resolve(disk, path), n), used)

CreateFile(path, n) ==
    Transact(CreateEmptyFile(Flushed, Resolve(Flushed, path), n), FlushedUsed)

MakeDirectory(path, n) ==
    Transact(CreateDirectory(Flushed, Resolve(Flushed, path), n), FlushedUsed)

RenameEntry(from, old, to, new) ==
    LET t == Rename(Flushed, Resolve(Flushed, from), old, Resolve(Flushed, to), new,
                    SharedBlocks(Flushed))
    IN  Transact(t, IF t = Failed THEN {} ELSE FlushedUsed \ (AllBlocks(Flushed) \ AllBlocks(t)))

SetMtime(path) ==
    LET i == Resolve(Flushed, path)
    IN  Transact(IF i = NoIno THEN Failed ELSE UpdateInodeMtime(Flushed, i), FlushedUsed)

(* write_file: one extent, or none for empty data.  Without room it allocates
   a chunk, a transaction of its own, and tries again. *)
WriteFile(path) ==
    LET i    == Resolve(Flushed, path)
        room == space \ FlushedUsed
    IN  \/ Transact(WriteFileData(Flushed, i, << >>), FlushedUsed)
        \/ /\ room # {}
           /\ Transact(WriteFileData(Flushed, i, <<Min(room)>>), FlushedUsed \cup {Min(room)})

(* commit_active_batch: the window closes, nothing else is done. *)
CommitActiveBatch ==
    /\ Idle
    /\ ~writer.open
    /\ batch.open
    /\ disk' = Flushed
    /\ used' = FlushedUsed
    /\ batch' = NoBatch
    /\ acked' = {}
    /\ UNCHANGED <<space, writer, todo>>

AllocateDataChunk ==
    /\ Idle
    /\ ~writer.open
    /\ Cardinality(space) + ChunkBlocks <= MaxSpace
    /\ space' = space \cup (Max(space) + 1)..(Max(space) + ChunkBlocks)
    /\ disk' = Flushed
    /\ used' = FlushedUsed
    /\ batch' = NoBatch
    /\ acked' = {}
    /\ UNCHANGED <<writer, todo>>

--------------------------------------------------------------------------
(* Where begin_file finds n blocks: in free space, or else after the batch is
   committed and a chunk allocated, in a batch opened anew. *)
Room(n) ==
    LET live  == IF batch.open THEN batch ELSE OpenBatch(disk, used)
        grown == space \cup (Max(space) + 1)..(Max(space) + ChunkBlocks)
    IN  IF Cardinality(Free(live)) >= n
        THEN {[b |-> live, from |-> Free(live), disk |-> disk, used |-> used, space |-> space, acked |-> acked]}
        ELSE IF Cardinality(grown) <= MaxSpace /\ Cardinality(grown \ FlushedUsed) >= n
        THEN {[b |-> OpenBatch(Flushed, FlushedUsed), from |-> grown \ FlushedUsed,
               disk |-> Flushed, used |-> FlushedUsed, space |-> grown, acked |-> {}]}
        ELSE {}

BeginFile(n) ==
    /\ Idle
    /\ ~writer.open
    /\ \E r \in Room(n), s \in BOOLEAN :
          LET runs == Lowest(r.from, n)
          IN  /\ batch' = [r.b EXCEPT !.ledger = @ \cup Range(runs)]
              /\ writer' = [open |-> TRUE, runs |-> runs, streaming |-> FALSE, short |-> s]
              /\ disk' = r.disk /\ used' = r.used /\ space' = r.space /\ acked' = r.acked
    /\ UNCHANGED todo

(* create_file_with_data: begin_file, the data, finish_file and
   commit_active_batch in one call; a file that is refused leaves the batch
   as finish_file does. *)
CreateFileWithData(path, n, k) ==
    /\ Idle
    /\ ~writer.open
    /\ \E r \in Room(k) :
          LET runs == Lowest(r.from, k)
          IN  \E new \in AddFile(r.disk, r.b, path, n, [runs |-> runs, short |-> FALSE]) :
                 /\ new # Failed => Bounded(new.tree)
                 /\ LET b == IF new = Failed THEN r.b ELSE new
                    IN  /\ disk' = IF HasUncommitted(b) THEN b.tree ELSE r.disk
                        /\ used' = IF HasUncommitted(b) THEN r.used \cup b.extents ELSE r.used
                        /\ batch' = IF new # Failed THEN NoBatch ELSE IF HasUncommitted(b) THEN Rearm(b) ELSE b
                 /\ space' = r.space
    /\ acked' = {}
    /\ UNCHANGED <<writer, todo>>

BeginFileStreaming ==
    /\ Idle
    /\ ~writer.open
    /\ batch' = IF batch.open THEN batch ELSE OpenBatch(disk, used)
    /\ writer' = [open |-> TRUE, runs |-> << >>, streaming |-> TRUE, short |-> FALSE]
    /\ UNCHANGED <<disk, used, space, todo, acked>>

(* write_chunk of a streaming writer that needs another block; with no room
   it refuses (valve A) and the caller abandons the file. *)
ExtendRun ==
    /\ writer.open
    /\ writer.streaming
    /\ Len(writer.runs) < MaxRuns
    /\ Free(batch) # {}
    /\ LET b == Min(Free(batch))
       IN  /\ writer' = [writer EXCEPT !.runs = Append(@, b)]
           /\ batch' = [batch EXCEPT !.ledger = @ \cup {b}]
    /\ UNCHANGED <<disk, used, space, todo, acked>>

(* Commit the batch b and keep it armed, if it holds files. *)
CommitAndRearm(b) ==
    /\ disk' = IF HasUncommitted(b) THEN b.tree ELSE disk
    /\ used' = IF HasUncommitted(b) THEN used \cup b.extents ELSE used
    /\ batch' = IF HasUncommitted(b) THEN Rearm(b) ELSE b
    /\ acked' = {}

FinishFile(path, n) ==
    /\ writer.open
    /\ writer' = NoWriter
    /\ \E new \in AddFile(disk, batch, path, n, writer) :
          IF new = Failed
          THEN \* rollback, release of the runs, commit of the files before it
               CommitAndRearm([batch EXCEPT !.ledger = @ \ Range(writer.runs)])
          ELSE /\ Bounded(new.tree)
               /\ \/ CommitAndRearm(new)      \* should_commit
                  \/ /\ batch' = new
                     /\ acked' = acked \cup (Links(new.tree) \ Links(batch.tree))
                     /\ UNCHANGED <<disk, used>>
    /\ UNCHANGED <<space, todo>>

(* Mutant: abandoning one file drops the batch with the files before it. *)
AbandonFile_DropsBatch ==
    /\ writer.open
    /\ writer' = NoWriter
    /\ batch' = NoBatch
    /\ UNCHANGED <<disk, used, space, todo, acked>>

AbandonFile ==
    /\ writer.open
    /\ writer' = NoWriter
    /\ CommitAndRearm([batch EXCEPT !.ledger = @ \ Range(writer.runs)])
    /\ UNCHANGED <<space, todo>>

--------------------------------------------------------------------------
(* delete_file: a directory's children, in index order, before itself. *)

Children(t, i) ==
    LET js == Indexes(t, i)
        Nth(k) == CHOOSE j \in js : Cardinality({m \in js : m < j}) = k - 1
    IN  IF ~IsDir(t, i) THEN << >>
        ELSE [k \in 1..Cardinality(js) |-> t.index[<<i, Nth(k)>>]]

Frame(t, path) == [path |-> path, kids |-> Children(t, Resolve(t, path))]

DeleteEntry(path) ==
    /\ Idle
    /\ ~writer.open
    /\ disk' = Flushed
    /\ used' = FlushedUsed
    /\ batch' = NoBatch
    /\ acked' = {}
    /\ todo' = IF Resolve(Flushed, path) = NoIno THEN << >> ELSE << Frame(Flushed, path) >>
    /\ UNCHANGED <<space, writer>>

Top == todo[Len(todo)]

DescendInto ==
    /\ ~Idle
    /\ Top.kids # << >>
    /\ LET kid  == Head(Top.kids)
           path == Append(Top.path, kid.name)
           rest == Append(Front(todo), [Top EXCEPT !.kids = Tail(@)])
       IN  todo' = IF \/ kid.type = "subvol"
                      \/ Resolve(disk, path) = NoIno
                      \/ Len(todo) > DeleteDepth
                   THEN << >> ELSE Append(rest, Frame(disk, path))
    /\ UNCHANGED <<disk, used, space, batch, writer, acked>>

DeleteOne ==
    /\ ~Idle
    /\ Top.kids = << >>
    /\ LET t == DeleteFile(disk, Resolve(disk, Front(Top.path)), Last(Top.path), SharedBlocks(disk))
       IN  \/ /\ t # Failed
              /\ disk' = t
              /\ used' = used \ (AllBlocks(disk) \ AllBlocks(t))
              /\ todo' = Front(todo)
           \/ todo' = << >> /\ UNCHANGED <<disk, used>>
    /\ UNCHANGED <<space, batch, writer, acked>>

--------------------------------------------------------------------------
(* A commit of the batch that fails, in any of the calls above, or a fenced
   session (discard_active_batch): the batch is gone. *)
LoseBatch ==
    /\ batch.open
    /\ batch' = NoBatch
    /\ writer' = NoWriter
    /\ acked' = {}
    /\ UNCHANGED <<disk, used, space, todo>>

(* The process dies, or the drive leaves, and the volume is mounted again. *)
Crash ==
    /\ batch.open \/ writer.open \/ ~Idle
    /\ batch' = NoBatch
    /\ writer' = NoWriter
    /\ todo' = << >>
    /\ acked' = {}
    /\ UNCHANGED <<disk, used, space>>

Next ==
    \/ \E p \in Paths, n \in Names :
          \/ CreateFile(p, n) \/ MakeDirectory(p, n) \/ FinishFile(p, n)
          \/ SetMtime(Append(p, n)) \/ WriteFile(Append(p, n)) \/ DeleteEntry(Append(p, n))
    \/ \E p, q \in Paths, m, n \in Names : RenameEntry(p, m, q, n)
    \/ \E k \in 0..MaxRuns : BeginFile(k)
    \/ \E p \in Paths, n \in Names, k \in 0..MaxRuns : CreateFileWithData(p, n, k)
    \/ CommitActiveBatch \/ AllocateDataChunk \/ BeginFileStreaming \/ ExtendRun \/ AbandonFile
    \/ DescendInto \/ DeleteOne \/ LoseBatch \/ Crash

Spec == Init /\ [][Next]_vars

--------------------------------------------------------------------------
(* Properties. *)

Trees == {disk} \cup (IF batch.open THEN {batch.tree} ELSE {})

TypeOK ==
    /\ \A t \in Trees : /\ DOMAIN t = Kinds
                        /\ AllBlocks(t) \subseteq space
    /\ used \subseteq space
    /\ batch.open => batch.alloc \subseteq space /\ batch.ledger \subseteq space
    /\ writer.open => batch.open /\ Range(writer.runs) \subseteq batch.ledger
    /\ Len(todo) <= DeleteDepth + 1

Linked(t) == {<<k[1], k[2], t.index[k].name, t.index[k].ino>> : k \in DOMAIN t.index}

Subvols(t) == {k \in DOMAIN t.index : t.index[k].type = "subvol"}

Refs(t) ==
    UNION {{<<k[2], r.idx, r.name, k[1]>> : r \in Range(t.ref[k])} : k \in DOMAIN t.ref}

(* Every name in the committed tree, and in the batch on its way there, has
   its three items: one entry under its hash, one under its index, and a
   back reference that names that index (delete.rs:67 relies on the pairs).
   No name occurs twice in a directory and no index names two entries. *)
Paired ==
    \A t \in Trees :
        /\ Links(t) = {<<l[1], l[3], l[4]>> : l \in Linked(t)}
        /\ Cardinality({<<l[1], l[2]>> : l \in Links(t)}) = Cardinality(DOMAIN t.index)
        /\ Refs(t) = {<<k[1], k[2], t.index[k].name, t.index[k].ino>>
                        : k \in DOMAIN t.index \ Subvols(t)}

LinksTo(t, i) == {k \in DOMAIN t.index \ Subvols(t) : t.index[k].ino = i}

Below(t, S) == S \cup {t.index[k].ino : k \in {x \in DOMAIN t.index \ Subvols(t) : x[1] \in S}}

Reachable(t) ==
    LET r[k \in 0..MaxNumbers] == IF k = 0 THEN {Root} ELSE Below(t, r[k - 1]) IN r[MaxNumbers]

(* The inodes of a tree are the root and what names lead to from it, each
   with as many links as names (one for a directory), entries say what type
   the inode has, and a directory's size is what its names add up to.  So no
   operation orphans an inode, loses a subtree in a cycle, or leaves a count
   a checker rejects. *)
Rooted ==
    \A t \in Trees :
        /\ DOMAIN t.inode = Reachable(t)
        /\ \A i \in DOMAIN t.inode \ {Root} :
              /\ Cardinality(LinksTo(t, i)) = t.inode[i].nlink
              /\ IsDir(t, i) => t.inode[i].nlink = 1
              /\ \A k \in LinksTo(t, i) : t.index[k].type = t.inode[i].type
        /\ \A i \in DOMAIN t.inode :
              IsDir(t, i) => t.inode[i].size =
                  MapThenSumSet(LAMBDA l : Len2[l[2]], {l \in Links(t) : l[1] = i})
        /\ \A k \in DOMAIN t.data : k[1] \in DOMAIN t.inode /\ ~IsDir(t, k[1])

(* Whatever creates, renames, deletes and replacements a tree went through, and
   in the batch as on the disk, names, back references, link counts, directory
   sizes and inodes agree (txn/create.rs, txn/rename.rs, txn/delete.rs). *)
NamesPaired == Paired /\ Rooted

(* The extent tree records exactly the blocks files refer to; a batch's
   allocator knows those and its own; and the blocks reserved for the open
   writer belong to no file of either tree. *)
SpaceAccounted ==
    /\ TypeOK
    /\ used = AllBlocks(disk)
    /\ batch.open =>
          /\ batch.alloc = AllBlocks(batch.tree)
          /\ used \cup batch.extents = AllBlocks(batch.tree)
    /\ writer.open =>
          /\ Range(writer.runs) \cap (AllBlocks(disk) \cup AllBlocks(batch.tree)) = {}
          /\ Cardinality(Range(writer.runs)) = Len(writer.runs)

(* What the batch keeps across commit_and_rearm is still true of the volume:
   cached parents are the directories their paths name now, and the next
   inode number is one no item uses. *)
CachesTrue ==
    batch.open /\ batch.bound =>
        /\ \A p \in DOMAIN batch.parents :
              Resolve(disk, p) = batch.parents[p] /\ IsDir(disk, batch.parents[p])
        /\ batch.nextIno >= NextIno(batch.tree)

(* A file finish_file accepted is on the volume or in the live batch until
   the batch is lost to a failed commit, a fence or a crash. *)
AckedHeld == acked # {} => batch.open /\ acked \subseteq Links(batch.tree)

(* The extents of the file a link leads to. *)
Content(t, l) == {<<k[2], t.data[k]>> : k \in {x \in DOMAIN t.data : x[1] = l[3]}}

(* Whatever is committed, with the files of the batch it publishes counted
   in, a name disappears only as the entry a delete is at, or as the source
   or the replaced destination of one move; and a file that keeps its name
   keeps the data it had. *)
OthersUntouched ==
    [][disk' # disk =>
       LET lost   == Links(Flushed) \ Links(disk')
           gained == Links(disk') \ Links(Flushed)
       IN  /\ \/ lost = {}
              \/ /\ ~Idle
                 /\ gained = {}
                 /\ lost = {l \in Links(disk) : l[1] = Resolve(disk, Front(Top.path))
                                                /\ l[2] = Last(Top.path)}
              \/ \E g \in gained, l \in lost :
                    /\ g[3] = l[3]
                    /\ \A x \in lost \ {l} : x[1] = g[1] /\ x[2] = g[2]
           /\ \A l \in Links(Flushed) \cap Links(disk') :
                 Content(Flushed, l) \subseteq Content(disk', l)]_vars
=============================================================================
