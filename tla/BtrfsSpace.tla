----------------------------- MODULE BtrfsSpace -----------------------------
(***************************************************************************)
(* The bookkeeping of a btrfs commit.  A transaction changes items of the  *)
(* file tree; copy-on-write then allocates and frees tree blocks, which    *)
(* the extent tree, the block-group counters and the free-space tree have  *)
(* to record, and recording them copies more blocks.  converge_and_finalize*)
(* repeats until nothing is left to record.                                *)
(*                                                                         *)
(* One unit of space stands for a tree block or a data sector.  The volume *)
(* has the root, extent, chunk, device, fs and checksum trees and may have *)
(* a free-space tree; a file is one item of the fs tree, the data extents  *)
(* it names and their checksums.  A commit is one step here: BtrfsCommit   *)
(* takes it apart, write by write.                                         *)
(***************************************************************************)
EXTENDS BtrfsTree

CONSTANTS
    Files,          \* keys of the fs tree
    Size, DataLen,  \* of a file: its item's size, the length of its data
    FirstFiles,     \* the files on the volume at first, in order
    FirstGroups,    \* its block groups at first: [start, len, kind]
    DevSize,        \* length of the device
    ReservedForSuper,  \* BTRFS_BLOCK_RESERVED_1M_FOR_SUPER
    SbAt,           \* where the device holds copies of the superblock
    SZ_64K,         \* what a chunk is a multiple of, and at least
    ChunkSize,      \* decide_data_chunk_size
    FreeSpaceTrees, \* whether the volume has a free-space tree: a set of Booleans
    MaxRounds,      \* MAX_CONVERGENCE_ROUNDS
    MaxTxns         \* bound on the transactions of a behaviour

RootTree == 1
ExtentTree == 2
DevTree == 4
FsTree == 5
CsumTree == 7
FreeSpaceTree == 10

VARIABLES
    disk,       \* the tree blocks the superblock reaches
    sup,        \* the superblock: root, chunk (address, level), gen, used (bytes_used)
    kept,       \* the FreeSpaceMap a rearmed batch carries on with, or << >>
    files,      \* the files there are: [k, ext], ext their extents <<start, length>>
    written,    \* blocks the last commit wrote
    err,        \* how the last transaction ended
    txns

vars == <<disk, sup, kept, files, written, err, txns>>

--------------------------------------------------------------------------
(* Keys, in the order of the code's (objectid, type, offset). *)

EXTENT_ITEM(b, len) == b * 32 + len
METADATA_ITEM(b, lvl) == b * 32 + 8 + lvl
BLOCK_GROUP_ITEM(b) == b * 32 + 16
FREE_SPACE_INFO(b) == b * 128
FREE_SPACE_EXTENT(b, len) == b * 128 + 64 + len

Item(k, v) == [k |-> k, v |-> v, sz |-> 1]
Span(b, len) == b..(b + len - 1)
Kind(k) == IF k % 32 < 8 THEN "data" ELSE IF k % 32 < 16 THEN "meta" ELSE "group"

(* Maximal runs of a set of blocks, as <<start, length>>, in order. *)
Runs(S) ==
    LET starts == {b \in S : b - 1 \notin S}
        end(b) == Min({e \in {x + 1 : x \in S} : e > b /\ e \notin S})
    IN  Fold(LAMBDA s, b : Append(s, <<b, end(b) - b>>), << >>, InOrder(starts))

--------------------------------------------------------------------------
(* Reading the volume. *)

Nothing == [x \in {} |-> 0]

OnDisk(d, roots) == [disk |-> d, pend |-> Nothing, roots |-> roots]

(* tree_root: the ROOT_ITEMs of the root tree; the superblock has the others. *)
TreeRoots(d, s) ==
    LET its == collect_tree_items([disk |-> d, pend |-> Nothing], s.root[1])
    IN  [t \in Keys(its) \cup {RootTree, ChunkTree} |->
            IF t = RootTree THEN s.root ELSE IF t = ChunkTree THEN s.chunk
            ELSE LET v == its[lower_bound(its, t) + 1].v IN <<v[1], v[2]>>]

ItemsOf(tx, t) == collect_tree_items(tx, tx.roots[t][1])

(* compute_sb_exclusions: where chunks cover a superblock copy. *)
compute_sb_exclusions(chunks) ==
    UNION {{c.k + (p - c.v.phys) : p \in SbAt \cap Span(c.v.phys, c.v.len)} : c \in chunks}

ChunksOf(tx) == {it \in ToSet(ItemsOf(tx, ChunkTree)) : it.k > 0}

(* from_extent_tree_and_chunk_map: what the extent tree leaves free. *)
FreeSpaceMap(tx) ==
    LET its  == ItemsOf(tx, ExtentTree)
        bgs  == SelectSeq(its, LAMBDA it : Kind(it.k) = "group")
        used == UNION {IF Kind(its[i].k) = "data" THEN Span(its[i].k \div 32, its[i].k % 32)
                       ELSE IF Kind(its[i].k) = "meta" THEN {its[i].k \div 32} ELSE {}
                       : i \in DOMAIN its}
        out  == compute_sb_exclusions(ChunksOf(tx))
        map(bg) == LET start == bg.k \div 32
                       all   == Span(start, bg.v.len)
                   IN  [start |-> start, len |-> bg.v.len, kind |-> bg.v.kind,
                        free |-> all \ (used \cup out), pinned |-> {}, out |-> all \cap out,
                        used |-> bg.v.used]
    IN  Fold(LAMBDA gs, bg : Append(gs, map(bg)), << >>, bgs)

(* The self-check of from_extent_tree. *)
UsedMatches(groups) ==
    \A i \in DOMAIN groups : groups[i].used + Cardinality(groups[i].free \cup groups[i].out) = groups[i].len

Begin(d, roots, gen, groups) ==
    [disk |-> d, pend |-> Nothing, roots |-> roots, gen |-> gen, groups |-> groups,
     add |-> << >>, rem |-> << >>, new |-> << >>, old |-> << >>, at |-> 0,
     ext |-> << >>, dadd |-> << >>, drem |-> << >>, root |-> roots, files |-> files,
     err |-> IF UsedMatches(groups) THEN "none" ELSE "corrupt"]

DeleteAll(tx, tree, keys) ==
    Fold(LAMBDA t, k : cow_tree_mutate(t, tree, [op |-> "del", k |-> k, v |-> 0]), tx, keys)

SetAll(tx, tree, items) ==
    Fold(LAMBDA t, it : cow_tree_mutate(t, tree, [op |-> "set", k |-> it.k, v |-> it.v]), tx, items)

InsertAll(tx, tree, items) == Fold(LAMBDA t, it : cow_tree_insert(t, tree, it), tx, items)

--------------------------------------------------------------------------
(* Data extents and their checksums. *)

(* The free ranges that may hold data, as <<group, start, length>>, in order. *)
FreeRanges(tx) ==
    LET ranges(g) == LET runs == Runs(tx.groups[g].free)
                     IN  [i \in DOMAIN runs |-> <<g, runs[i][1], runs[i][2]>>]
    IN  Fold(LAMBDA s, g : s \o ranges(g), << >>,
             InOrder({g \in DOMAIN tx.groups : tx.groups[g].kind \in {"data", "mixed"}}))

FreeData(tx) == Fold(LAMBDA n, r : n + r[3], 0, FreeRanges(tx))

Take(tx, range, len) ==
    LET g == range[1]
        b == range[2]
    IN  [tx EXCEPT !.groups[g].free = @ \ Span(b, len), !.groups[g].used = @ + len,
                   !.dadd = Append(@, <<b, len>>), !.ext = Append(@, <<b, len>>)]

(* allocate_data: one extent, from the first range that has room for it. *)
allocate_data(tx, len) ==
    LET fit == SelectSeq(FreeRanges(tx), LAMBDA r : r[3] >= len)
    IN  IF fit = << >> THEN Fail(tx, "full") ELSE Take(tx, fit[1], len)

(* allocate_data_chunk: up to max, from the first range that has room for it
   all or else from the largest. *)
allocate_data_chunk(tx, max) ==
    LET rs   == FreeRanges(tx)
        most == Max({Min({r[3], max}) : r \in ToSet(rs)})
    IN  IF rs = << >> THEN Fail(tx, "full")
        ELSE Take(tx, rs[Min({i \in DOMAIN rs : Min({rs[i][3], max}) = most})], most)

(* begin_file, and write_chunk of a stream: extents until the length is
   covered. *)
RECURSIVE DataRuns(_, _)
DataRuns(tx, len) ==
    IF len = 0 \/ tx.err # "none" THEN tx
    ELSE LET t == allocate_data_chunk(tx, len)
         IN  IF t.err # "none" THEN t ELSE DataRuns(t, len - Last(t.ext)[2])

(* free_data: the range stays pinned until the commit; it may not be freed
   twice, nor exceed what the group has in use. *)
free_data(tx, b, len) ==
    LET g == GroupOf(tx.groups, b)
    IN  IF tx.groups[g].used < len \/ tx.groups[g].pinned \cap Span(b, len) # {}
        THEN Fail(tx, "corrupt")
        ELSE [tx EXCEPT !.groups[g].pinned = @ \cup Span(b, len), !.groups[g].used = @ - len,
                        !.drem = Append(@, <<b, len>>)]

ItemEnd(path) == KeyAt(path) + Last(path).n.items[Last(path).i].v

(* The checksum items from a cursor on that begin before `to` and end after
   `from`. *)
RECURSIVE CsumsAt(_, _, _, _)
CsumsAt(tx, path, from, to) ==
    IF ~Valid(path) \/ KeyAt(path) >= to THEN {}
    ELSE (IF ItemEnd(path) > from THEN {<<KeyAt(path), ItemEnd(path)>>} ELSE {})
         \cup CsumsAt(tx, advance(tx, path), from, to)

(* Mutant: the scan starts at the first item not before the range. *)
CsumsIn_From(tx, from, to) ==
    CsumsAt(tx, search(tx, tx.roots[CsumTree][1], from), from, to)

FromCovering(tx, le, from) ==
    IF ~Valid(le) THEN search(tx, tx.roots[CsumTree][1], from)
    ELSE IF ItemEnd(le) <= from THEN advance(tx, le) ELSE le

CsumsIn(tx, from, to) ==
    CsumsAt(tx, FromCovering(tx, search_le(tx, tx.roots[CsumTree][1], from), from), from, to)

(* An item keeps its key if its head survives; what survives behind a hole
   becomes an item of its own. *)
DropCsums(tx, found, b, len) ==
    LET hit   == Fold(LAMBDA s, k : Append(s, CHOOSE it \in found : it[1] = k), << >>,
                      InOrder({it[1] : it \in found}))
        left(it) == Runs((it[1]..(it[2] - 1)) \ Span(b, len))
        heads(it) == left(it) # << >> /\ left(it)[1][1] = it[1]
        dels  == SelectSeq(hit, LAMBDA it : ~heads(it))
        cuts  == SelectSeq(hit, LAMBDA it : heads(it) /\ left(it)[1][2] < it[2] - it[1])
        more  == Fold(LAMBDA s, it : s \o IF heads(it) THEN Tail(left(it)) ELSE left(it), << >>, hit)
    IN  InsertAll(SetAll(DeleteAll(tx, CsumTree, [i \in DOMAIN dels |-> dels[i][1]]),
                         CsumTree, [i \in DOMAIN cuts |-> Item(cuts[i][1], left(cuts[i])[1][2])]),
                  CsumTree, [i \in DOMAIN more |-> Item(more[i][1], more[i][2])])

delete_extent_csums(tx, b, len) == DropCsums(tx, CsumsIn(tx, b, b + len), b, len)

--------------------------------------------------------------------------
(* The operations of a transaction: add or remove one file. *)

(* build_extent_csum_items_from_checksums: extents that follow one another
   share an item. *)
CsumItems(ext) ==
    Fold(LAMBDA s, e : IF s # << >> /\ Last(s).k + Last(s).v = e[1]
                       THEN [s EXCEPT ![Len(s)].v = @ + e[2]] ELSE Append(s, Item(e[1], e[2])),
         << >>, ext)

AddItems(tx, k) ==
    [InsertAll(cow_tree_insert(tx, FsTree, [k |-> k, v |-> tx.ext, sz |-> Size[k]]), CsumTree, CsumItems(tx.ext))
        EXCEPT !.files = @ \cup {[k |-> k, ext |-> tx.ext]}, !.ext = << >>]

(* A file written through a writer, and one written in a single call. *)
AddFile(tx, k) == AddItems(DataRuns(tx, DataLen[k]), k)

AddWhole(tx, k) == AddItems(IF DataLen[k] = 0 THEN tx ELSE allocate_data(tx, DataLen[k]), k)

RemoveFile(tx, f) ==
    [Fold(LAMBDA t, e : delete_extent_csums(free_data(t, e[1], e[2]), e[1], e[2]),
          DeleteAll(tx, FsTree, <<f.k>>), f.ext) EXCEPT !.files = @ \ {f}]

--------------------------------------------------------------------------
(* converge_and_finalize. *)

SetRootItem(tx, t) == SetAll(tx, RootTree, << Item(t, <<tx.roots[t][1], tx.roots[t][2], tx.gen>>) >>)

(* Steps 1, 2, 2b: the root items of the trees the transaction copied. *)
SetRootItems(tx) ==
    Fold(LAMBDA t, x : IF tx.roots[x] = tx.root[x] THEN t ELSE SetRootItem(t, x),
         tx, <<FsTree, CsumTree, DevTree>>)

(* Step 3: the data extents. *)
RecordData(tx) ==
    DeleteAll(InsertAll(tx, ExtentTree, [i \in DOMAIN tx.dadd |-> Item(EXTENT_ITEM(tx.dadd[i][1], tx.dadd[i][2]), 1)]),
              ExtentTree, [i \in DOMAIN tx.drem |-> EXTENT_ITEM(tx.drem[i][1], tx.drem[i][2])])

DrainRemoves(tx) ==
    Fold(LAMBDA t, x : Unuse(cow_tree_mutate(t, ExtentTree,
                                 [op |-> "unref", k |-> METADATA_ITEM(x[1], x[2]), v |-> 0]), x[1]),
             [tx EXCEPT !.rem = << >>], tx.rem)

DrainAdds(tx) ==
    InsertAll([tx EXCEPT !.add = << >>], ExtentTree,
              [i \in DOMAIN tx.add |-> Item(METADATA_ITEM(tx.add[i][1], tx.add[i][2]), 1)])

emit_free_space_tree_items(g) ==
    LET runs == Runs(g.free \cup g.pinned \cup g.out)
    IN  << Item(FREE_SPACE_INFO(g.start), Len(runs)) >>
        \o [i \in DOMAIN runs |-> Item(FREE_SPACE_EXTENT(runs[i][1], runs[i][2]), 0)]

(* The free-space tree is brought from its items to the desired ones. *)
Reconcile(tx, cur, want) ==
    LET dels == SelectSeq(cur, LAMBDA it : it.k \notin Keys(want))
        sets == SelectSeq(want, LAMBDA it : it.k \in Keys(cur) /\ it \notin ToSet(cur))
        ins  == SelectSeq(want, LAMBDA it : it.k \notin Keys(cur))
    IN  IF tx.err # "none" \/ dels \o sets \o ins = << >> THEN tx
        ELSE SetRootItem(InsertAll(SetAll(DeleteAll(tx, FreeSpaceTree, [i \in DOMAIN dels |-> dels[i].k]),
                                          FreeSpaceTree, sets), FreeSpaceTree, ins), FreeSpaceTree)

ReconcileFreeSpace(tx) ==
    IF FreeSpaceTree \notin DOMAIN tx.roots THEN tx
    ELSE Reconcile(tx, ItemsOf(tx, FreeSpaceTree),
                   Fold(LAMBDA s, g : s \o emit_free_space_tree_items(g), << >>, tx.groups))

(* The `used` of every group, as it was before these updates copied blocks. *)
UpdateGroups(tx) ==
    SetAll(tx, ExtentTree,
           [i \in DOMAIN tx.groups |->
               LET g == tx.groups[i]
               IN  Item(BLOCK_GROUP_ITEM(g.start), [used |-> g.used, len |-> g.len, kind |-> g.kind])])

RECURSIVE Rounds(_, _)
Rounds(tx, n) ==
    IF tx.err # "none" \/ (tx.add = << >> /\ tx.rem = << >>) THEN tx
    ELSE IF n = MaxRounds THEN Fail(tx, "diverged")
    ELSE Rounds(SetRootItem(UpdateGroups(ReconcileFreeSpace(DrainAdds(DrainRemoves(tx)))), ExtentTree), n + 1)

converge_and_finalize(tx) == Rounds(RecordData(SetRootItems(tx)), 0)

--------------------------------------------------------------------------
(* Commit. *)

RECURSIVE Reached(_, _)
Reached(tx, b) ==
    LET node == ReadNode(tx, b)
    IN  {b} \cup IF node.lvl = 0 THEN {} ELSE UNION {Reached(tx, node.items[i].p) : i \in DOMAIN node.items}

AllReached(tx) == UNION {Reached(tx, tx.roots[t][1]) : t \in DOMAIN tx.roots}

ExtentsOf(fs) == UNION {ToSet(f.ext) : f \in fs}

DataOf(fs) == UNION {Span(e[1], e[2]) : e \in ExtentsOf(fs)}

NewSuper(tx) ==
    [root |-> tx.roots[RootTree], chunk |-> tx.roots[ChunkTree], gen |-> tx.gen,
     used |-> Fold(LAMBDA n, g : n + g.used, 0, tx.groups)]

(* Mutant: freed space stays pinned in the map that is carried on with. *)
unpin_freed_Never(groups) == groups

unpin_freed(groups) ==
    Fold(LAMBDA gs, g : Append(gs, [g EXCEPT !.free = (@ \cup g.pinned) \ g.out, !.pinned = {}]),
             << >>, groups)

(* A transaction is written whole, or its error leaves the volume alone. *)
Abort(e) ==
    /\ err' = e
    /\ kept' = << >>
    /\ written' = {}
    /\ UNCHANGED <<disk, sup, files>>

Publish(t, keep) ==
    /\ err' = "none"
    /\ disk' = [b \in AllReached(t) |-> ReadNode(t, b)]
    /\ sup' = NewSuper(t)
    /\ kept' = IF keep THEN unpin_freed(t.groups) ELSE << >>
    /\ files' = t.files
    /\ written' = DOMAIN t.pend \cup UNION {Span(d[1], d[2]) : d \in ToSet(t.dadd)}

Finish(t, keep) ==
    /\ txns' = txns + 1
    /\ IF t.err # "none" THEN Abort(t.err) ELSE Publish(t, keep)

Commit(tx, keep) == Finish(converge_and_finalize(tx), keep)

FreshAt(roots) == Begin(disk, roots, sup.gen + 1, FreeSpaceMap(OnDisk(disk, roots)))

Fresh0 == FreshAt(TreeRoots(disk, sup))

(* A batch that was rearmed goes on with its map, in the same generation. *)
Continued == IF kept = << >> THEN Fresh0 ELSE Begin(disk, TreeRoots(disk, sup), sup.gen, kept)

--------------------------------------------------------------------------
(* Actions.  A single operation closes the batch and starts from the extent
   tree. *)

Absent(k) == k \notin {f.k : f \in files}

DeleteFile(f) ==
    /\ txns < MaxTxns
    /\ Commit(RemoveFile(Fresh0, f), FALSE)

(* A rename onto an existing name: one file goes, another item comes. *)
ReplaceFile(f, k) ==
    /\ txns < MaxTxns
    /\ Absent(k)
    /\ DataLen[k] = 0
    /\ Commit(AddWhole(RemoveFile(Fresh0, f), k), FALSE)

create_file_with_data(k) ==
    /\ txns < MaxTxns
    /\ Absent(k)
    /\ Commit(AddWhole(Fresh0, k), FALSE)

(* Files added to a batch, then commit_and_rearm.  begin_file commits what the
   batch has and makes a chunk first if there is less free than a file needs,
   and a stream that finds no more room is not added. *)
CommitBatch(ks) ==
    /\ txns < MaxTxns
    /\ \A i \in DOMAIN ks : Absent(ks[i])
    /\ FreeData(Continued) >= Fold(LAMBDA n, k : n + DataLen[k], 0, ks)
    /\ Commit(Fold(AddFile, Continued, ks), TRUE)

Holes(tx) ==
    Runs((ReservedForSuper..(DevSize - 1))
         \ UNION {Span(it.k, it.v.len) : it \in ToSet(ItemsOf(tx, DevTree))})

(* The first hole that is large enough, or else the largest, rounded down. *)
find_free_dev_extent(tx) ==
    LET hs  == Holes(tx)
        big == {i \in DOMAIN hs : hs[i][2] >= ChunkSize}
        top == Max({hs[i][2] : i \in DOMAIN hs})
    IN  IF big # {} THEN <<hs[Min(big)][1], ChunkSize>>
        ELSE IF hs = << >> \/ top < SZ_64K THEN << >>
        ELSE <<hs[Min({i \in DOMAIN hs : hs[i][2] = top})][1], (top \div SZ_64K) * SZ_64K>>

next_logical(tx) == Max({c.k + c.v.len : c \in ChunksOf(tx)})

(* exclude_ranges for the new group. *)
NewGroup(start, len, phys) ==
    LET out == {start + (p - phys) : p \in SbAt \cap Span(phys, len)}
    IN  [start |-> start, len |-> len, kind |-> "data", free |-> Span(start, len) \ out,
         pinned |-> {}, out |-> out, used |-> 0]

(* allocate_data_chunk_transaction. *)
ChunkTransaction(tx, phys, len) ==
    LET logical == next_logical(tx)
        used == ItemsOf(tx, ChunkTree)[1].v
    IN  [cow_tree_insert(
             cow_tree_insert(
                 SetAll(cow_tree_insert(tx, DevTree, Item(phys, [chunk |-> logical, len |-> len])),
                        ChunkTree, << Item(0, used + len) >>),
                 ChunkTree, Item(logical, [len |-> len, phys |-> phys])),
             ExtentTree, Item(BLOCK_GROUP_ITEM(logical), [used |-> 0, len |-> len, kind |-> "data"]))
         EXCEPT !.groups = Append(@, NewGroup(logical, len, phys))]

ChunkIn(tx, e) ==
    IF e = << >> THEN txns' = txns + 1 /\ Abort("full")
    ELSE Commit(ChunkTransaction(tx, e[1], e[2]), FALSE)

(* Mutant: the ranges count as used. *)
exclude_ranges_Used(tx, out) ==
    [tx EXCEPT !.groups = Fold(LAMBDA gs, g :
        Append(gs, [g EXCEPT !.free = @ \ out, !.used = @ + Cardinality(g.free \cap out)]), << >>, @)]

(* exclude_ranges: not free to be handed out, but not in use. *)
exclude_ranges(tx, out) ==
    [tx EXCEPT !.groups = Fold(LAMBDA gs, g :
        Append(gs, [g EXCEPT !.free = @ \ out, !.out = @ \cup (g.free \cap out)]), << >>, @)]

(* allocate_data_chunk_excluding: the runs a writer of a file of length len
   holds, in no tree yet, are not for the blocks of this transaction. *)
AllocateDataChunk(len) ==
    /\ txns < MaxTxns
    /\ len <= FreeData(Fresh0)
    /\ LET held == UNION {Span(e[1], e[2]) : e \in ToSet(DataRuns(Fresh0, len).ext)}
       IN  ChunkIn(exclude_ranges(Fresh0, held), find_free_dev_extent(Fresh0))

--------------------------------------------------------------------------
(* The volume at first: made from empty trees by the same operations. *)

FirstRoots(trees) == [t \in trees |->
    LET sys  == CHOOSE g \in ToSet(FirstGroups) : g.kind = "system"
        meta == CHOOSE g \in ToSet(FirstGroups) : g.kind = "meta"
    IN  <<IF t = ChunkTree THEN sys.start ELSE meta.start + t, 0>>]

Made(trees) ==
    LET roots  == FirstRoots(trees)
        blocks == {roots[t][1] : t \in trees}
        out    == compute_sb_exclusions({Item(g.start, [len |-> g.len, phys |-> g.start]) : g \in ToSet(FirstGroups)})
        map(g) == LET all == Span(g.start, g.len)
                  IN  [start |-> g.start, len |-> g.len, kind |-> g.kind, free |-> all \ (blocks \cup out),
                       pinned |-> {}, out |-> all \cap out, used |-> Cardinality(all \cap blocks)]
        groups == Fold(LAMBDA gs, g : Append(gs, map(g)), << >>, FirstGroups)
        t0 == [disk |-> Nothing, pend |-> [b \in blocks |-> [lvl |-> 0, gen |-> 1, items |-> << >>]],
               roots |-> roots, root |-> roots, gen |-> 1, groups |-> groups,
               add |-> Fold(LAMBDA s, t : Append(s, <<roots[t][1], 0, t>>), << >>, InOrder(trees)),
               rem |-> << >>, new |-> << >>, old |-> << >>, at |-> 0, ext |-> << >>, dadd |-> << >>, drem |-> << >>,
               files |-> {}, err |-> "none"]
        t1 == Fold(LAMBDA t, x : cow_tree_insert(t, RootTree, Item(x, <<roots[x][1], 0, 1>>)),
                       t0, InOrder(trees \ {RootTree, ChunkTree}))
        t2 == Fold(LAMBDA t, g :
                  cow_tree_insert(cow_tree_insert(cow_tree_insert(t,
                      DevTree, Item(g.start, [chunk |-> g.start, len |-> g.len])),
                      ChunkTree, Item(g.start, [len |-> g.len, phys |-> g.start])),
                      ExtentTree, Item(BLOCK_GROUP_ITEM(g.start), [used |-> 0, len |-> g.len, kind |-> g.kind])),
                  cow_tree_insert(t1, ChunkTree, Item(0, Fold(LAMBDA n, g : n + g.len, 0, FirstGroups))), FirstGroups)
    IN  Fold(AddFile, t2, FirstFiles)

(* Adjacent checksum items merge into one, as other writers leave them. *)
Merged(tx) ==
    LET its == ItemsOf(tx, CsumTree)
        runs == Runs(UNION {Span(its[i].k, its[i].v) : i \in DOMAIN its})
    IN  InsertAll(DeleteAll(tx, CsumTree, [i \in DOMAIN its |-> its[i].k]),
                  CsumTree, [i \in DOMAIN runs |-> Item(runs[i][1], runs[i][2])])

At(t) ==
    /\ disk = [b \in AllReached(t) |-> ReadNode(t, b)]
    /\ sup = NewSuper(t)
    /\ kept = << >>
    /\ files = t.files
    /\ written = {}
    /\ err = t.err
    /\ txns = 0

Init ==
    \E fst \in FreeSpaceTrees :
        At(converge_and_finalize(Merged(Made(
            {RootTree, ExtentTree, ChunkTree, DevTree, FsTree, CsumTree}
            \cup IF fst THEN {FreeSpaceTree} ELSE {}))))

Next ==
    \/ \E f \in files : DeleteFile(f)
    \/ \E f \in files, k \in Files : ReplaceFile(f, k)
    \/ \E k \in Files : create_file_with_data(k)
    \/ \E ks \in {<<k>> : k \in Files} \cup {<<j, k>> : j, k \in Files} : 
          /\ Len(ks) = 2 => ks[1] < ks[2]
          /\ CommitBatch(ks)
    \/ \E len \in {0, Max({DataLen[k] : k \in Files})} : AllocateDataChunk(len)

Spec == Init /\ [][Next]_vars

--------------------------------------------------------------------------
(* Properties. *)

Volume == OnDisk(disk, TreeRoots(disk, sup))

TypeOK ==
    /\ \A b \in DOMAIN disk : disk[b].lvl \in Nat /\ disk[b].gen \in 1..sup.gen
    /\ sup.gen \in 1..(MaxTxns + 1)
    /\ \A f \in files : f.k \in Files /\ DataLen[f.k] = Fold(LAMBDA n, e : n + e[2], 0, f.ext)
    /\ txns \in 0..MaxTxns

(* A node at its level: keys ascend, it fits its block, and every pointer has
   its child's lowest key and generation; only a root may be empty. *)
RECURSIVE SoundBelow(_, _, _)
SoundBelow(tx, b, lvl) ==
    LET node == ReadNode(tx, b)
        its  == node.items
    IN  /\ node.lvl = lvl
        /\ \A i \in 1..(Len(its) - 1) : its[i].k < its[i + 1].k
        /\ IF lvl = 0 THEN Bytes(its) <= LeafCap
           ELSE /\ Len(its) \in 1..PtrCap
                /\ \A i \in DOMAIN its :
                      LET kid == ReadNode(tx, its[i].p)
                      IN  /\ kid.items # << >>
                          /\ kid.items[1].k = its[i].k
                          /\ kid.gen = its[i].g
                          /\ SoundBelow(tx, its[i].p, lvl - 1)

(* search finds the first item at or after a key, search_le the last at or
   before it, advance and retreat its neighbours, across leaf boundaries and
   off both ends of a tree. *)
CursorsRight ==
    LET V == Volume IN
    \A t \in {FsTree, ExtentTree, CsumTree} :
        LET b    == V.roots[t][1]
            keys == Keys(ItemsOf(V, t))
            probes == UNION {{k - 1, k, k + 1} : k \in keys}
            Key(path) == IF Valid(path) THEN KeyAt(path) ELSE -1
            Least(S)  == IF S = {} THEN -1 ELSE Min(S)
            Most(S)   == IF S = {} THEN -1 ELSE Max(S)
        IN  \A k \in probes :
                LET at == search(V, b, k)
                    le == search_le(V, b, k)
                IN  /\ Key(at) = Least({x \in keys : x >= k})
                    /\ Key(le) = Most({x \in keys : x <= k})
                    /\ Valid(at) => Key(advance(V, at)) = Least({x \in keys : x > KeyAt(at)})
                    /\ Valid(le) => Key(retreat(V, le)) = Most({x \in keys : x < KeyAt(le)})

(* Whatever splits, removals and root changes a transaction made, every tree
   is a sound B-tree in key order, and a root item names the generation its
   root block carries (cow.rs: the verify_parent_transid comment); and the
   cursors read it so. *)
TreesSound ==
    LET V == Volume IN
    /\ TypeOK
    /\ CursorsRight
    /\ \A t \in DOMAIN V.roots :
        LET r   == V.roots[t]
            its == ItemsOf(V, t)
        IN  /\ SoundBelow(V, r[1], r[2])
            /\ \A i \in 1..(Len(its) - 1) : its[i].k < its[i + 1].k
            /\ t = RootTree => \A i \in DOMAIN its : disk[its[i].v[1]].gen = its[i].v[3]

(* The trees hold exactly what the operations put there: an item per file, a
   checksum for each of its data blocks and for no other, once. *)
ContentsKept ==
    LET V    == Volume
        sums == ItemsOf(V, CsumTree)
    IN  /\ ToSet(ItemsOf(V, FsTree)) = {[k |-> f.k, v |-> f.ext, sz |-> Size[f.k]] : f \in files}
        /\ UNION {Span(sums[i].k, sums[i].v) : i \in DOMAIN sums} = DataOf(files)
        /\ \A i \in 1..(Len(sums) - 1) : sums[i].k + sums[i].v <= sums[i + 1].k

(* Chunk items, device extents and block groups describe the same chunks, all
   on the device; no two of them share space, and the device item counts them
   (chunk_alloc.rs: allocate_data_chunk_transaction). *)
ChunksAgree ==
    LET V      == Volume
        chunks == ChunksOf(V)
        devs   == ToSet(ItemsOf(V, DevTree))
    IN  /\ devs = {Item(c.v.phys, [chunk |-> c.k, len |-> c.v.len]) : c \in chunks}
        /\ {<<c.k, c.v.len>> : c \in chunks} =
              {<<it.k \div 32, it.v.len>> : it \in {x \in ToSet(ItemsOf(V, ExtentTree)) : Kind(x.k) = "group"}}
        /\ \A c \in chunks : c.v.phys + c.v.len <= DevSize
        /\ \A c, d \in chunks : c # d => /\ Span(c.k, c.v.len) \cap Span(d.k, d.v.len) = {}
                                         /\ Span(c.v.phys, c.v.len) \cap Span(d.v.phys, d.v.len) = {}
        /\ ItemsOf(V, ChunkTree)[1].v = FoldSet(LAMBDA c, n : n + c.v.len, 0, chunks)

(* After the convergence rounds the extent tree lists exactly the tree blocks
   in use, each at its level, and the data extents; every group's counter, its
   free-space items and the superblock's bytes_used agree with that; and so do
   the chunks. *)
SpaceExact ==
    LET V     == Volume
        its   == ItemsOf(V, ExtentTree)
        live  == AllReached(V)
        inUse == live \cup DataOf(files)
        sbOut == compute_sb_exclusions(ChunksOf(V))
        bgs   == {it \in ToSet(its) : Kind(it.k) = "group"}
    IN  /\ ChunksAgree
        /\ {it.k : it \in ToSet(its) \ bgs} =
              {METADATA_ITEM(b, disk[b].lvl) : b \in live}
              \cup {EXTENT_ITEM(e[1], e[2]) : e \in ExtentsOf(files)}
        /\ inUse \cap sbOut = {}
        /\ sup.used = Cardinality(inUse)
        /\ \A it \in bgs : it.v.used = Cardinality(inUse \cap Span(it.k \div 32, it.v.len))
        /\ FreeSpaceTree \in DOMAIN V.roots =>
           ToSet(ItemsOf(V, FreeSpaceTree)) =
                  UNION {LET b == it.k \div 32
                            runs == Runs(Span(b, it.v.len) \ inUse)
                        IN  {Item(FREE_SPACE_INFO(b), Len(runs))}
                            \cup {Item(FREE_SPACE_EXTENT(runs[i][1], runs[i][2]), 0) : i \in DOMAIN runs}
                        : it \in bgs}

(* The map a rearmed batch allocates from is the one a fresh read of the
   extent tree gives (batch.rs: commit_and_rearm keeps final_allocator). *)
MapTrue == kept # << >> => kept = FreeSpaceMap(Volume)

(* No transaction fails for another reason than lack of space: the rounds
   converge, and every item to delete or to change is found. *)
OnlyFull == err \in {"none", "full"}

(* A commit writes to no tree block and no data block that the volume it
   starts from uses: until the superblock changes, nothing has. *)
CopyOnWrite == [][written' \cap (DOMAIN disk \cup DataOf(files)) = {}]_vars
=============================================================================
