----------------------------- MODULE BtrfsNames -----------------------------
(***************************************************************************)
(* What the btrfs transactions of core/src/fs/btrfs/write/txn do to the    *)
(* items of one filesystem tree.  A tree is the set of items it holds, one *)
(* function from keys to payloads per item type:                           *)
(*                                                                         *)
(*   inode  INODE_ITEM   ino          -> type, link count, size            *)
(*   ref    INODE_REF    ino, parent  -> sequence of (index, name)         *)
(*   item   DIR_ITEM     dir, hash    -> the entries that share the hash   *)
(*   index  DIR_INDEX    dir, index   -> one entry                         *)
(*   data   EXTENT_DATA  ino, offset  -> the data block                    *)
(*                                                                         *)
(* An operator here takes a tree and returns the tree the code would       *)
(* commit, or Failed where the code returns an error and commits nothing.  *)
(* Times, owners and generations are left out.                             *)
(***************************************************************************)
EXTENDS Integers, Sequences, FiniteSetsExt

CONSTANTS
    Names,          \* file names
    Hash,           \* crc32c name hash; two names may share one
    Len2,           \* twice the length of a name: what it adds to a directory
    Root,           \* root_dirid, the inode of the top directory
    CycleDepth      \* ancestors resolve_rename looks at (256 in the code)

Kinds == {"inode", "ref", "item", "index", "data"}

Failed == [failed |-> TRUE]

NoIno == 0

Entry(n, i, ty) == [name |-> n, ino |-> i, type |-> ty]

--------------------------------------------------------------------------
(* cow_tree_insert and cow_tree_mutate, as far as a tree's contents go: an
   insertion fails on a key the leaf already has, a mutation or a deletion
   on a key it has not. *)

Ins(t, kind, k, v) ==
    IF t = Failed \/ k \in DOMAIN t[kind] THEN Failed
    ELSE [t EXCEPT ![kind] = [x \in DOMAIN @ \cup {k} |-> IF x = k THEN v ELSE @[x]]]

Mut(t, kind, k, F(_)) ==
    IF t = Failed \/ k \notin DOMAIN t[kind] THEN Failed
    ELSE [t EXCEPT ![kind][k] = F(@)]

Del(t, kind, k) ==
    IF t = Failed \/ k \notin DOMAIN t[kind] THEN Failed
    ELSE [t EXCEPT ![kind] = [x \in DOMAIN @ \ {k} |-> @[x]]]

(* Every item keyed under one inode number. *)
Sweep(t, i) ==
    IF t = Failed THEN Failed
    ELSE [kind \in DOMAIN t |->
            [k \in {x \in DOMAIN t[kind] : IF kind = "inode" THEN x # i ELSE x[1] # i}
                |-> t[kind][k]]]

--------------------------------------------------------------------------
(* Reading: lookup, path resolution, the next free numbers. *)

IsDir(t, i) == i \in DOMAIN t.inode /\ t.inode[i].type = "dir"

Lookup(t, d, n) ==
    LET k == <<d, Hash[n]>>
    IN  IF k \in DOMAIN t.item THEN {e \in t.item[k] : e.name = n} ELSE {}

TheEntry(t, d, n) == CHOOSE e \in Lookup(t, d, n) : TRUE

(* One component of resolve_no_follow.  A path that enters a subvolume leaves
   this tree, and none of the operations below follows it there. *)
Step(t, d, n) ==
    IF IsDir(t, d) /\ (\E e \in Lookup(t, d, n) : e.type # "subvol")
    THEN TheEntry(t, d, n).ino
    ELSE NoIno

Resolve(t, path) ==
    LET at[k \in 0..Len(path)] == IF k = 0 THEN Root ELSE Step(t, at[k - 1], path[k])
    IN  IF at[Len(path)] \in DOMAIN t.inode THEN at[Len(path)] ELSE NoIno

(* find_max_inode looks at the objectid of every item, whatever its type. *)
ObjectIds(t) ==
    DOMAIN t.inode \cup UNION {{k[1] : k \in DOMAIN t[kind]} : kind \in DOMAIN t \ {"inode"}}

NextIno(t) == 1 + Max(ObjectIds(t))

Indexes(t, d) == {k[2] : k \in {x \in DOMAIN t.index : x[1] = d}}

NextIdx(t, d) == 1 + Max({1} \cup Indexes(t, d))

(* The DIR_INDEX of an entry: the first reference of the INODE_REF item, or,
   without one, a scan of the directory. *)
DirIndex(t, d, e) ==
    IF <<e.ino, d>> \in DOMAIN t.ref /\ t.ref[<<e.ino, d>>] # << >>
    THEN t.ref[<<e.ino, d>>][1].idx
    ELSE LET found == {j \in Indexes(t, d) : t.index[<<d, j>>].name = e.name
                                             /\ t.index[<<d, j>>].ino = e.ino}
         IN  IF found = {} THEN 0 ELSE Min(found)

Blocks(t, i) == {t.data[k] : k \in {x \in DOMAIN t.data : x[1] = i}}

AllBlocks(t) == {t.data[k] : k \in DOMAIN t.data}

--------------------------------------------------------------------------
(* The pieces the transactions are made of. *)

Grow(t, d, n) == Mut(t, "inode", d, LAMBDA v : [v EXCEPT !.size = @ + Len2[n]])

(* saturating_sub *)
Shrink(t, d, n) ==
    Mut(t, "inode", d, LAMBDA v : [v EXCEPT !.size = Max({0, @ - Len2[n]})])

(* DIR_ITEM of a new name, merged into the item a colliding name left. *)
MergeEntry(t, d, e) ==
    LET k == <<d, Hash[e.name]>>
    IN  IF t # Failed /\ k \in DOMAIN t.item
        THEN Mut(t, "item", k, LAMBDA v : v \cup {e})
        ELSE Ins(t, "item", k, {e})

(* DIR_ITEM without one entry; the item goes when that was its last. *)
TrimEntry(t, d, n, i) ==
    LET k == <<d, Hash[n]>>
        Keep(es) == {e \in es : ~(e.name = n /\ e.ino = i)}
    IN  IF t # Failed /\ k \in DOMAIN t.item /\ Keep(t.item[k]) = {}
        THEN Del(t, "item", k)
        ELSE Mut(t, "item", k, Keep)

(* INODE_ITEM and INODE_REF of a new inode. *)
NewInode(t, i, d, n, j, ty) ==
    Ins(Ins(t, "inode", i, [type |-> ty, nlink |-> 1, size |-> 0]),
        "ref", <<i, d>>, << [idx |-> j, name |-> n] >>)

(* One EXTENT_DATA item per run, in file order. *)
AddRuns(t, i, runs) ==
    LET new == {<<i, k - 1>> : k \in DOMAIN runs}
    IN  IF t = Failed \/ new \cap DOMAIN t.data # {} THEN Failed
        ELSE [t EXCEPT !.data = [x \in DOMAIN @ \cup new |->
                                    IF x \in new THEN runs[x[2] + 1] ELSE @[x]]]

--------------------------------------------------------------------------
(* Transaction::create_empty_file.  Its DIR_ITEM is inserted, never merged. *)

LinkFile(t, d, n, i, j) ==
    Ins(Ins(t, "item", <<d, Hash[n]>>, {Entry(n, i, "file")}),
        "index", <<d, j>>, Entry(n, i, "file"))

CreateEmptyFile(t, d, n) ==
    IF ~IsDir(t, d) \/ Lookup(t, d, n) # {} THEN Failed
    ELSE LET i == NextIno(t)
             j == NextIdx(t, d)
         IN  NewInode(LinkFile(Grow(t, d, n), d, n, i, j), i, d, n, j, "file")

(* Transaction::create_directory: the parent, then create_directory_in_dir,
   whose DIR_ITEM is merged. *)
LinkDir(t, d, n, i, j) ==
    Ins(MergeEntry(t, d, Entry(n, i, "dir")), "index", <<d, j>>, Entry(n, i, "dir"))

CreateDirectoryInDir(t, d, n) ==
    IF Lookup(t, d, n) # {} THEN Failed
    ELSE LET i == NextIno(t)
             j == NextIdx(t, d)
         IN  NewInode(LinkDir(Grow(t, d, n), d, n, i, j), i, d, n, j, "dir")

CreateDirectory(t, d, n) ==
    IF ~IsDir(t, d) THEN Failed ELSE CreateDirectoryInDir(t, d, n)

(* Transaction::write_file_data: the extent goes in at offset 0, so a file
   that has one there is refused; empty data touches the inode alone. *)
WriteFileData(t, i, runs) ==
    IF i \notin DOMAIN t.inode \/ IsDir(t, i) THEN Failed ELSE AddRuns(t, i, runs)

(* Transaction::update_inode_mtime: of what is modelled, nothing changes. *)
UpdateInodeMtime(t, i) == Mut(t, "inode", i, LAMBDA v : v)

--------------------------------------------------------------------------
(* Transaction::delete_file: what it refuses, and what it removes. *)

Deletable(t, d, e, shared) ==
    /\ e.type # "subvol"
    /\ e.ino \in DOMAIN t.inode
    /\ IF IsDir(t, e.ino) THEN Indexes(t, e.ino) = {}
       ELSE t.inode[e.ino].type = "file"
    /\ t.inode[e.ino].nlink <= 1
    /\ DirIndex(t, d, e) # 0
    /\ Blocks(t, e.ino) \cap shared = {}

Unlink(t, d, e) ==
    LET named == Del(TrimEntry(t, d, e.name, e.ino), "index", <<d, DirIndex(t, d, e)>>)
    IN  Sweep(Shrink(named, d, e.name), e.ino)

DeleteFile(t, d, n, shared) ==
    IF ~IsDir(t, d) \/ Lookup(t, d, n) = {} THEN Failed
    ELSE LET e == TheEntry(t, d, n)
         IN  IF Deletable(t, d, e, shared) THEN Unlink(t, d, e) ELSE Failed

--------------------------------------------------------------------------
(* Transaction::rename.  Ancestors(t, d, k): the directories resolve_rename
   meets climbing k INODE_REFs from d; it stops at the root, and at a
   directory without a reference. *)

Climb(t, d) ==
    LET up == {k[2] : k \in {x \in DOMAIN t.ref : x[1] = d}}
    IN  IF d = Root \/ up = {} THEN d ELSE Min(up)

Ancestors(t, d) ==
    LET path[k \in 0..CycleDepth] == IF k = 0 THEN d ELSE Climb(t, path[k - 1])
    IN  {path[k] : k \in 0..CycleDepth}

WouldCycle(t, e, d) == e.type = "dir" /\ e.ino \in Ancestors(t, d)

(* The destination's entry, when there is one to replace. *)
Replaceable(t, e, dst, shared) ==
    /\ dst.type # "subvol"
    /\ dst.ino \in DOMAIN t.inode
    /\ IF dst.type = "dir"
       THEN /\ e.type = "dir"
            /\ Indexes(t, dst.ino) = {}
            /\ t.inode[dst.ino].size = 0
       ELSE /\ e.type # "dir"
            /\ t.inode[dst.ino].nlink <= 1
            /\ Blocks(t, dst.ino) \cap shared = {}

(* rename_delete_destination: unlike delete_file it leaves the directory's
   size to the bookkeeping step, and skips a DIR_INDEX it did not find. *)
DeleteDestination(t, d, dst) ==
    LET swept == Sweep(t, dst.ino)
        refd  == <<dst.ino, d>> \in DOMAIN t.ref
        j     == t.ref[<<dst.ino, d>>][1].idx
    IN  TrimEntry(IF refd THEN Del(swept, "index", <<d, j>>) ELSE swept,
                  d, dst.name, dst.ino)

(* rename_swap_dirent: the old name goes, the new one comes, and the child's
   INODE_REF item is deleted whole and inserted anew. *)
DropOldName(t, d, e, j) == Del(TrimEntry(t, d, e.name, e.ino), "index", <<d, j>>)

AddNewName(t, d, n, e, j) ==
    LET new == Entry(n, e.ino, e.type)
    IN  Ins(MergeEntry(t, d, new), "index", <<d, j>>, new)

(* Mutant: the new reference keeps the old index. *)
MoveRef_OldIndex(t, e, from, to, n, j) ==
    IF t = Failed \/ <<e.ino, from>> \notin DOMAIN t.ref THEN Failed
    ELSE Ins(Del(t, "ref", <<e.ino, from>>), "ref", <<e.ino, to>>,
             << [t.ref[<<e.ino, from>>][1] EXCEPT !.name = n] >>)

MoveRef(t, e, from, to, n, j) ==
    Ins(Del(t, "ref", <<e.ino, from>>), "ref", <<e.ino, to>>, << [idx |-> j, name |-> n] >>)

(* rename_finalize_bookkeeping *)
Rebalance(t, from, old, to, new, replaced) ==
    LET less == IF replaced THEN Len2[new] ELSE 0
        Same(v) == [v EXCEPT !.size = Max({0, @ - (Len2[old] + less)}) + Len2[new]]
        Gain(v) == [v EXCEPT !.size = Max({0, @ - less}) + Len2[new]]
    IN  IF from = to THEN Mut(t, "inode", from, Same)
        ELSE Mut(Shrink(t, from, old), "inode", to, Gain)

(* A rename onto the same name, or onto another name of the same inode, only
   touches the inode. *)
Rename(t, from, old, to, new, shared) ==
    IF ~IsDir(t, from) \/ ~IsDir(t, to) \/ Lookup(t, from, old) = {} THEN Failed
    ELSE LET e    == TheEntry(t, from, old)
             dsts == Lookup(t, to, new)
             dst  == TheEntry(t, to, new)
             oldIdx == DirIndex(t, from, e)
             newIdx == NextIdx(t, to)
             bare == IF dsts = {} THEN t ELSE DeleteDestination(t, to, dst)
             moved == MoveRef(AddNewName(DropOldName(bare, from, e, oldIdx),
                                         to, new, e, newIdx),
                              e, from, to, new, newIdx)
         IN  IF e.type = "subvol" THEN Failed
             ELSE IF from = to /\ old = new THEN UpdateInodeMtime(t, e.ino)
             ELSE IF WouldCycle(t, e, to) THEN Failed
             ELSE IF dsts # {} /\ dst.type # "subvol" /\ dst.ino = e.ino
                  THEN UpdateInodeMtime(t, e.ino)
             ELSE IF (dsts # {} /\ ~Replaceable(t, e, dst, shared)) \/ oldIdx = 0 THEN Failed
             ELSE Rebalance(Mut(moved, "inode", e.ino, LAMBDA v : v),
                            from, old, to, new, dsts # {})
=============================================================================
