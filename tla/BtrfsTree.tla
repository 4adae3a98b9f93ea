----------------------------- MODULE BtrfsTree -----------------------------
(***************************************************************************)
(* The copy-on-write B-trees of btrfs, node by node: what cow.rs does to   *)
(* the blocks of a tree when an item is inserted, changed or deleted, and  *)
(* how cursor.rs finds its way through one.                                *)
(*                                                                         *)
(* A node is [lvl, gen, items].  A leaf's items are [k, v, sz], an interior*)
(* node's are [k, p, g]: the lowest key below, the child's address and its *)
(* generation.  Keys are numbers in the order of the code's keys.  A       *)
(* transaction is a record:                                                *)
(*                                                                         *)
(*   disk   what the device holds           pend   pending_blocks          *)
(*   roots  tree -> <<address, level>>      gen    new_generation          *)
(*   groups the FreeSpaceMap                add, rem  blocks_to_add, ...   *)
(*   new, old  CowResult.allocated, freed   at     the block placed last   *)
(*   err    "none", or the error that ends the transaction                 *)
(***************************************************************************)
EXTENDS Stepwise, SequencesExt, FiniteSetsExt

CONSTANTS
    LeafCap,    \* room in a leaf, in the unit of an item's sz
    PtrCap      \* child pointers in an interior node

ChunkTree == 3

--------------------------------------------------------------------------
(* Nodes. *)

ReadNode(tx, b) == IF b \in DOMAIN tx.pend THEN tx.pend[b] ELSE tx.disk[b]

Keys(items) == {items[i].k : i \in DOMAIN items}

Bytes(items) == Fold(LAMBDA n, it : n + it.sz, 0, items)

(* Entries with a key below k. *)
lower_bound(items, k) == Cardinality({i \in DOMAIN items : items[i].k < k})

(* The last child whose key is not above k, or the first child. *)
child_for(items, k) == Max({1, Cardinality({i \in DOMAIN items : items[i].k <= k})})

--------------------------------------------------------------------------
(* Allocation.  allocate_metadata_for_owner: the first free block of the
   first group of the right kind. *)

Holds(kind, owner) == IF owner = ChunkTree THEN kind = "system" ELSE kind \in {"meta", "mixed"}

Fail(tx, e) == [tx EXCEPT !.err = IF @ = "none" THEN e ELSE @]

TakeFirst(tx, g, lvl) ==
    LET b == Min(tx.groups[g].free)
    IN  [tx EXCEPT !.groups[g].free = @ \ {b}, !.groups[g].used = @ + 1,
                   !.new = Append(@, <<b, lvl>>), !.at = b]

allocate_metadata(tx, owner, lvl) ==
    LET fit == {g \in DOMAIN tx.groups : Holds(tx.groups[g].kind, owner) /\ tx.groups[g].free # {}}
    IN  IF fit = {} THEN Fail(tx, "full") ELSE TakeFirst(tx, Min(fit), lvl)

GroupOf(groups, b) ==
    CHOOSE g \in DOMAIN groups : b \in groups[g].start..(groups[g].start + groups[g].len - 1)

(* free_metadata and free_data: the block stays pinned until the commit. *)
Unuse(tx, b) ==
    LET g == GroupOf(tx.groups, b)
    IN  [tx EXCEPT !.groups[g].pinned = @ \cup {b}, !.groups[g].used = @ - 1]

(* Mutant: the copy of a node also takes the pending node's place. *)
Fresh_AnyPending(tx, b) == b \in DOMAIN tx.pend \/ tx.disk[b].gen = tx.gen

(* is_already_new: written by this transaction, so it is edited in place. *)
Fresh(tx, b) == b \in DOMAIN tx.pend /\ tx.pend[b].gen = tx.gen

(* Where the new version of block b goes. *)
Place(tx, b, lvl, owner) ==
    IF Fresh(tx, b) THEN [tx EXCEPT !.at = b]
    ELSE [allocate_metadata(tx, owner, lvl) EXCEPT !.old = Append(@, <<b, lvl>>)]

Emit(tx, lvl, items) ==
    [tx EXCEPT !.pend = [x \in DOMAIN @ \cup {tx.at} |->
                            IF x = tx.at THEN [lvl |-> lvl, gen |-> tx.gen, items |-> items]
                            ELSE @[x]]]

(* A node emitted where tx has just made room, behind its siblings. *)
Extend(kids, tx, lvl, items) ==
    [tx |-> Emit(tx, lvl, items), kids |-> Append(kids, [k |-> items[1].k, p |-> tx.at])]

(* The entries of a node whose child c gave way to kids. *)
Splice(items, c, kids, gen) ==
    SubSeq(items, 1, c - 1)
    \o [i \in 1..Len(kids) |-> [k |-> kids[i].k, p |-> kids[i].p, g |-> gen]]
    \o SubSeq(items, c + 1, Len(items))

--------------------------------------------------------------------------
(* Insertion. *)

(* plan_leaf_split: the new item ends the left leaf, or starts the right one,
   or has a leaf to itself. *)
plan_leaf_split(items, pos, it) ==
    LET left   == SubSeq(items, 1, pos)
        right  == SubSeq(items, pos + 1, Len(items))
        shapes == << <<Append(left, it), right>>, <<left, <<it>> \o right>>, <<left, <<it>>, right>> >>
        shape  == Min({i \in 1..3 : i = 3 \/ Bytes(shapes[i][i]) <= LeafCap})
    IN  SelectSeq(shapes[shape], LAMBDA g : g # << >>)

(* The leaves that take the place of leaf b, left to right. *)
PlaceLeaves(tx, b, owner, leaves) ==
    Fold(LAMBDA acc, i : Extend(acc.kids, IF i = 1 THEN Place(acc.tx, b, 0, owner)
                                          ELSE allocate_metadata(acc.tx, owner, 0), 0, leaves[i]),
         [tx |-> tx, kids |-> << >>], [i \in 1..Len(leaves) |-> i])

InsertInLeaf(tx, b, items, owner, it) ==
    LET pos == lower_bound(items, it.k)
        one == Append(SubSeq(items, 1, pos), it) \o SubSeq(items, pos + 1, Len(items))
    IN  IF it.sz > LeafCap THEN [tx |-> Fail(tx, "too large"), kids |-> << >>]
        ELSE IF it.k \in Keys(items) THEN [tx |-> Fail(tx, "exists"), kids |-> << >>]
        ELSE PlaceLeaves(tx, b, owner,
                         IF Bytes(one) <= LeafCap THEN <<one>> ELSE plan_leaf_split(items, pos, it))

(* The interior node that takes the place of b, or the two it splits into. *)
SplitInterior(right, b, lvl, owner, es, mid) ==
    [Extend(<< >>, Place(right, b, lvl, owner), lvl, SubSeq(es, 1, mid))
        EXCEPT !.kids = Append(@, [k |-> es[mid + 1].k, p |-> right.at])]

PlaceInterior(tx, b, lvl, owner, es) ==
    LET mid == Len(es) \div 2
    IN  IF Len(es) <= PtrCap THEN Extend(<< >>, Place(tx, b, lvl, owner), lvl, es)
        ELSE SplitInterior(Emit(allocate_metadata(tx, owner, lvl), lvl, SubSeq(es, mid + 1, Len(es))),
                           b, lvl, owner, es, mid)

InsertedBelow(r, b, lvl, owner, items, c) ==
    IF r.tx.err # "none" THEN r
    ELSE PlaceInterior(r.tx, b, lvl, owner, Splice(items, c, r.kids, r.tx.gen))

(* cow_descend_insert: the nodes that replace b, as [k, p]. *)
RECURSIVE cow_descend_insert(_, _, _, _, _)
cow_descend_insert(tx, b, lvl, owner, it) ==
    LET node == ReadNode(tx, b)
        c    == child_for(node.items, it.k)
    IN  IF lvl = 0 \/ node.items = << >>
        THEN InsertInLeaf(tx, b, IF node.lvl = 0 THEN node.items ELSE << >>, owner, it)
        ELSE InsertedBelow(cow_descend_insert(tx, node.items[c].p, lvl - 1, owner, it),
                           b, lvl, owner, node.items, c)

--------------------------------------------------------------------------
(* Mutation: m is [op, k, v], where op deletes the item, sets its value, or
   deletes the METADATA_ITEM of a block that only one tree refers to. *)

Edit(items, m) ==
    LET i == lower_bound(items, m.k) + 1
    IN  IF m.op = "set" THEN [items EXCEPT ![i].v = m.v]
        ELSE SubSeq(items, 1, i - 1) \o SubSeq(items, i + 1, Len(items))

EditError(items, m) ==
    IF m.k \notin Keys(items) THEN "missing"
    ELSE IF m.op = "unref" /\ items[lower_bound(items, m.k) + 1].v > 1 THEN "shared"
    ELSE "none"

Gone(tx, b, lvl) == [tx |-> [tx EXCEPT !.old = Append(@, <<b, lvl>>)], kids |-> << >>, lvl |-> lvl]

(* The one node now in place of another, and its level. *)
Became(tx, key, lvl) == [tx |-> tx, kids |-> << [k |-> key, p |-> tx.at] >>, lvl |-> lvl]

LowestKey(items, key) == IF items = << >> THEN key ELSE items[1].k

(* Mutant: an emptied leaf is written like any other. *)
MutateLeaf_KeepsEmpty(tx, b, node, owner, m, isRoot) ==
    LET e     == EditError(node.items, m)
        items == Edit(node.items, m)
    IN  IF e # "none" THEN [tx |-> Fail(tx, e), kids |-> << >>, lvl |-> 0]
        ELSE Became(Emit(Place(tx, b, 0, owner), 0, items), LowestKey(items, m.k), 0)

(* A leaf that loses its last item goes, unless it is the root. *)
MutateLeaf(tx, b, node, owner, m, isRoot) ==
    LET e     == EditError(node.items, m)
        items == Edit(node.items, m)
    IN  IF e # "none" THEN [tx |-> Fail(tx, e), kids |-> << >>, lvl |-> 0]
        ELSE IF items = << >> /\ ~isRoot THEN Gone(tx, b, 0)
        ELSE Became(Emit(Place(tx, b, 0, owner), 0, items), LowestKey(items, m.k), 0)

Freed(tx, b, lvl) == [tx EXCEPT !.old = Append(@, <<b, lvl>>)]

(* A root left with one child gives way to it; the child is copied unless
   this transaction wrote it. *)
Collapse(tx, b, lvl, owner, e) ==
    Became(IF e.g = tx.gen THEN [Freed(tx, b, lvl) EXCEPT !.at = e.p]
           ELSE Emit(Freed(allocate_metadata(Freed(tx, b, lvl), owner, lvl - 1), e.p, lvl - 1),
                     lvl - 1, ReadNode(tx, e.p).items),
           e.k, lvl - 1)

(* An interior node without children goes in its turn; a root becomes an
   empty leaf. *)
MutateInterior(tx, b, lvl, owner, es, key, isRoot) ==
    IF es = << >> /\ ~isRoot THEN Gone(tx, b, lvl)
    ELSE IF es = << >> THEN Became(Freed(Emit(allocate_metadata(tx, owner, 0), 0, << >>), b, lvl), key, 0)
    ELSE IF isRoot /\ Len(es) = 1 THEN Collapse(tx, b, lvl, owner, es[1])
    ELSE Became(Emit(Place(tx, b, lvl, owner), lvl, es), es[1].k, lvl)

MutatedBelow(r, b, lvl, owner, items, c, key, isRoot) ==
    IF r.tx.err # "none" THEN r
    ELSE MutateInterior(r.tx, b, lvl, owner, Splice(items, c, r.kids, r.tx.gen), key, isRoot)

RECURSIVE cow_descend(_, _, _, _, _, _)
cow_descend(tx, b, lvl, owner, m, isRoot) ==
    LET node == ReadNode(tx, b)
        c    == child_for(node.items, m.k)
    IN  IF lvl = 0 THEN MutateLeaf(tx, b, node, owner, m, isRoot)
        ELSE MutatedBelow(cow_descend(tx, node.items[c].p, lvl - 1, owner, m, FALSE),
                          b, lvl, owner, node.items, c, m.k, isRoot)

--------------------------------------------------------------------------
(* Mutant: every freed block is taken to have an extent item. *)
RecordFreed_Recorded(tx, f, owner) == [tx EXCEPT !.rem = Append(@, <<f[1], f[2], owner>>)]

(* record_cow_result: a block allocated and freed in one transaction needs no
   extent item; any other freed block has one to be removed. *)
RecordFreed(tx, f, owner) ==
    LET i == SelectInSeq(tx.add, LAMBDA a : a[1] = f[1])
    IN  IF i = 0 THEN [tx EXCEPT !.rem = Append(@, <<f[1], f[2], owner>>)]
        ELSE Unuse([tx EXCEPT !.add = RemoveAt(@, i),
                              !.pend = [x \in DOMAIN @ \ {f[1]} |-> @[x]]], f[1])

record_cow_result(tx, owner) ==
    LET added == [tx EXCEPT !.add = @ \o [i \in DOMAIN tx.new |-> <<tx.new[i][1], tx.new[i][2], owner>>],
                            !.new = << >>, !.old = << >>]
    IN  Fold(LAMBDA t, f : RecordFreed(t, f, owner), added, tx.old)

Rooted(tx, tree, b, lvl) == record_cow_result([tx EXCEPT !.roots[tree] = <<b, lvl>>], tree)

(* A root that split gets a new root above it. *)
NewRoot(top, tree, lvl) == Rooted(top, tree, top.at, lvl)

InsertedAtRoot(r, tree, lvl) ==
    IF r.tx.err # "none" THEN r.tx
    ELSE IF Len(r.kids) = 1 THEN Rooted(r.tx, tree, r.kids[1].p, lvl)
    ELSE NewRoot(Emit(allocate_metadata(r.tx, tree, lvl + 1), lvl + 1, Splice(<< >>, 1, r.kids, r.tx.gen)),
                 tree, lvl + 1)

(* An empty root counts as a leaf, whatever its level. *)
cow_tree_insert(tx, tree, it) ==
    LET root == tx.roots[tree]
    IN  IF tx.err # "none" THEN tx
        ELSE InsertedAtRoot(cow_descend_insert(tx, root[1], root[2], tree, it), tree,
                            IF ReadNode(tx, root[1]).items = << >> THEN 0 ELSE root[2])

MutatedAtRoot(r, tree) == IF r.tx.err # "none" THEN r.tx ELSE Rooted(r.tx, tree, r.kids[1].p, r.lvl)

cow_tree_mutate(tx, tree, m) ==
    IF tx.err # "none" THEN tx
    ELSE MutatedAtRoot(cow_descend(tx, tx.roots[tree][1], tx.roots[tree][2], tree, m, TRUE), tree)

--------------------------------------------------------------------------
(* Reading. *)

(* walk, collect_tree_items: the items below b, left to right. *)
RECURSIVE collect_tree_items(_, _)
collect_tree_items(tx, b) ==
    LET node == ReadNode(tx, b)
    IN  IF node.lvl = 0 THEN node.items
        ELSE Fold(LAMBDA s, e : s \o collect_tree_items(tx, e.p), << >>, node.items)

(* Cursor::search's path: node and index per level, root first; the leaf's
   index may be one past its last item. *)
RECURSIVE SearchPath(_, _, _)
SearchPath(tx, b, k) ==
    LET node == ReadNode(tx, b)
        c    == child_for(node.items, k)
    IN  IF node.lvl = 0 \/ node.items = << >>
        THEN << [n |-> node, i |-> lower_bound(node.items, k) + 1] >>
        ELSE << [n |-> node, i |-> c] >> \o SearchPath(tx, node.items[c].p, k)

Valid(path) == Last(path).i \in DOMAIN Last(path).n.items

(* The leftmost, or rightmost, path below b. *)
RECURSIVE Edge(_, _, _)
Edge(tx, b, right) ==
    LET node == ReadNode(tx, b)
        i    == IF right THEN Len(node.items) ELSE 1
    IN  << [n |-> node, i |-> i] >>
        \o IF node.lvl = 0 THEN << >> ELSE Edge(tx, node.items[i].p, right)

(* advance_leaf: the deepest ancestor with a child to the right, and down its
   left edge; at the end of the tree the path stays. *)
advance_leaf(tx, path) ==
    LET up == {d \in 1..(Len(path) - 1) : path[d].i < Len(path[d].n.items)}
        d  == Max(up)
    IN  IF up = {} THEN path
        ELSE Append(SubSeq(path, 1, d - 1), [path[d] EXCEPT !.i = @ + 1])
             \o Edge(tx, path[d].n.items[path[d].i + 1].p, FALSE)

(* retreat_leaf: as above to the left; before the first item the cursor is
   parked past the end of the root. *)
retreat_leaf(tx, path) ==
    LET up == {d \in 1..(Len(path) - 1) : path[d].i > 1}
        d  == Max(up)
    IN  IF up = {} THEN << [path[1] EXCEPT !.i = Len(path[1].n.items) + 1] >>
        ELSE Append(SubSeq(path, 1, d - 1), [path[d] EXCEPT !.i = @ - 1])
             \o Edge(tx, path[d].n.items[path[d].i - 1].p, TRUE)

retreat(tx, path) ==
    IF Last(path).i > 1 THEN [path EXCEPT ![Len(path)].i = @ - 1] ELSE retreat_leaf(tx, path)

OnItem(tx, path) == IF Valid(path) THEN path ELSE advance_leaf(tx, path)

search(tx, b, k) == OnItem(tx, SearchPath(tx, b, k))

advance(tx, path) ==
    OnItem(tx, IF Valid(path) THEN [path EXCEPT ![Len(path)].i = @ + 1] ELSE path)

KeyAt(path) == Last(path).n.items[Last(path).i].k

AtOrBefore(tx, path, k) == IF Valid(path) /\ KeyAt(path) = k THEN path ELSE retreat(tx, path)

search_le(tx, b, k) == AtOrBefore(tx, search(tx, b, k), k)
=============================================================================
