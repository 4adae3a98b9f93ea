------------------------------ MODULE Ext4Disk -----------------------------
(***************************************************************************)
(* ext4 as this code writes it: the bitmap allocators, directory blocks,   *)
(* extents and paths of alloc.rs, dirent.rs and mod.rs, down to every write*)
(* and flush the device is given.  Ext4Ops has the operations made of them.*)
(*                                                                         *)
(* The device is a function from units to what they hold:                  *)
(*   <<"bb", g>>, <<"ib", g>>  a group's bitmaps, as the set of bits set   *)
(*   <<"gd", g>>, <<"sb", 0>>  its descriptor, the superblock's counters   *)
(*   <<"ino", i>>              an inode record [k, size, links, runs, leaf]*)
(*   <<"blk", b>>              a block: file cells d, dirents e, runs x    *)
(* A checksum is modelled by the value it was computed from.  An operation *)
(* maps a session s to the session after it:                               *)
(*   g, sb   the descriptors and counters in memory                        *)
(*   trail   the images [v, b] the device went through: everything written,*)
(*           and what the last flush made durable                          *)
(*   err     "none", or the error `?` returns; ret  what a call returned   *)
(*   n, at, land        commands given; the one reported as failed, and    *)
(*           whether it reached the device all the same                    *)
(*   hit, undo, stray   whether it came, and in a rollback; whether a      *)
(*           rollback runs; whether one has freed an inode with a name     *)
(***************************************************************************)
EXTENDS Stepwise, SequencesExt, FiniteSetsExt

CONSTANTS
    BlockSize,                        \* cells in a block
    blocks_per_group, blocks_count,   \* first_data_block is 0
    inodes_per_group, first_ino,
    bitmaps,          \* group -> [bb, ib, it]: the blocks of its metadata
    desc_blocks,      \* blocks of the descriptor table
    MAX_INLINE_EXTENTS, MaxRuns, MAX_EXTENT_LEN,
    record_len,       \* name -> the room its directory entry takes
    usable,           \* room in a directory block
    MAX_DELETE_DEPTH

ROOT_INODE == 2
Groups == DOMAIN bitmaps
Inodes == 1..(inodes_per_group * Cardinality(Groups))

Blank == [k |-> "none", size |-> 0, links |-> 0, runs |-> << >>, leaf |-> 0]
Data(cells) == [d |-> cells, e |-> << >>, x |-> << >>]
Dirents(es) == [d |-> << >>, e |-> es, x |-> << >>]
Leaf(runs) == [d |-> << >>, e |-> << >>, x |-> runs]
Dirent(ino, name, len) == [ino |-> ino, name |-> name, len |-> len]
Ceil(a, b) == (a + b - 1) \div b

--------------------------------------------------------------------------
(* Commands to the device. *)

View(s) == Last(s.trail).v
Fail(s, e) == IF s.err = "none" THEN [s EXCEPT !.err = e] ELSE s

(* A command that is reported as failed may have had its effect or not. *)
Given(s, image) ==
    LET fails == s.n + 1 = s.at
        given == [s EXCEPT !.n = @ + 1, !.trail = IF fails /\ ~s.land THEN @ ELSE Append(@, image)]
    IN  IF s.err # "none" THEN s
        ELSE IF fails THEN [given EXCEPT !.err = "io", !.hit = IF s.undo THEN "undo" ELSE "op"]
        ELSE given

Write(s, u, v) == Given(s, [Last(s.trail) EXCEPT !.v[u] = v])

flush(s) == Given(s, [v |-> View(s), b |-> View(s)])

--------------------------------------------------------------------------
(* Bitmaps and counters. *)

group_first_block(g) == g * blocks_per_group
blocks_in_group(g) == Min({blocks_count - group_first_block(g), blocks_per_group})

Metadata ==
    UNION {{bitmaps[g].bb, bitmaps[g].ib, bitmaps[g].it} : g \in Groups}
    \cup UNION {group_first_block(g)..(group_first_block(g) + desc_blocks) : g \in Groups}

(* What a bitmap no one has written yet stands for; with at most two groups
   each of them has a superblock copy. *)
materialize_bitmap(which, g) ==
    IF which = "ib" THEN {}
    ELSE {b - group_first_block(g) : b \in Metadata \cap (group_first_block(g)..(group_first_block(g) + blocks_in_group(g) - 1))}
         \cup (blocks_in_group(g)..(blocks_per_group - 1))

read_bitmap(s, which, g) ==
    IF s.g[g].uninit[which] THEN materialize_bitmap(which, g) ELSE View(s)[<<which, g>>]

(* The descriptor keeps the checksum of the bitmap just written. *)
Summed(s, which, g, bm) == IF s.err = "none" THEN [s EXCEPT !.g[g].csum[which] = bm] ELSE s

write_bitmap(s, which, g, bm) == Summed(Write(s, <<which, g>>, bm), which, g, bm)

(* Mutant: the descriptor is written from before the bitmap's checksum. *)
write_group_desc_Stale(s, g) == Write(s, <<"gd", g>>, [s.g[g] EXCEPT !.csum = View(s)[<<"gd", g>>].csum])

write_group_desc(s, g) == Write(s, <<"gd", g>>, s.g[g])

write_superblock(s) == Write(s, <<"sb", 0>>, s.sb)

Initialised(s, which, g) == IF s.err = "none" THEN [s EXCEPT !.g[g].uninit[which] = FALSE] ELSE s

commit(s, which, g, bm) ==
    write_superblock(write_group_desc(write_bitmap(Initialised(s, which, g), which, g, bm), g))

--------------------------------------------------------------------------
(* Blocks. *)

(* A block joins the run it continues. *)
AddBlock(ext, b) ==
    IF ext # << >> /\ Last(ext).p + Last(ext).n = b THEN [ext EXCEPT ![Len(ext)].n = @ + 1]
    ELSE Append(ext, [p |-> b, n |-> 1])

(* What group g, whose bitmap is bm, gives to a plan: its first free blocks,
   as many as its counter allows. *)
FromGroup(plan, g, bm, count) ==
    LET free == (0..(blocks_in_group(g) - 1)) \ bm
        bits == {b \in free : Cardinality({c \in free : c < b}) < Min({count, plan.left})}
    IN  IF bits = {} THEN plan
        ELSE [left |-> plan.left - Cardinality(bits),
              out  |-> Fold(LAMBDA o, b : AddBlock(o, group_first_block(g) + b), plan.out, InOrder(bits)),
              groups |-> Append(plan.groups, [g |-> g, bm |-> bm \cup bits, n |-> Cardinality(bits)])]

Plan(s, goal, count) ==
    LET start == Min({goal \div blocks_per_group, Cardinality(Groups) - 1})
    IN  Fold(LAMBDA p, i : LET g == (start + i - 1) % Cardinality(Groups)
                           IN  FromGroup(p, g, read_bitmap(s, "bb", g), s.g[g].fb),
             [left |-> count, out |-> << >>, groups |-> << >>], [i \in 1..Cardinality(Groups) |-> i])

(* One group of a plan: counters, bitmap, descriptor; by is what the group
   gains. *)
CommitGroup(s, g, bm, by) ==
    IF s.err # "none" THEN s
    ELSE write_group_desc(
             write_bitmap(Initialised([s EXCEPT !.g[g].fb = @ + by, !.sb.fb = Max({0, @ + by})], "bb", g), "bb", g, bm), g)

Allocated(s, plan) ==
    IF plan.left > 0 THEN Fail(s, "full")
    ELSE [write_superblock(Fold(LAMBDA t, p : CommitGroup(t, p.g, p.bm, -p.n), s, plan.groups))
             EXCEPT !.ret = plan.out]

alloc_blocks(s, goal, count) ==
    IF s.err # "none" THEN s
    ELSE IF count = 0 THEN [s EXCEPT !.ret = << >>]
    ELSE Allocated(s, Plan(s, goal, count))

(* The blocks of runs, one by one. *)
EachBlock(ext) == Fold(LAMBDA s, e : s \o [i \in 1..e.n |-> e.p + i - 1], << >>, ext)

Cleared(bm, g, blocks) == {b \in bm : group_first_block(g) + b \notin blocks}

(* The groups of a batch, in the order it first meets them. *)
GroupsMet(seq) ==
    Fold(LAMBDA gs, b : IF b \div blocks_per_group \in ToSet(gs) THEN gs ELSE Append(gs, b \div blocks_per_group),
         << >>, seq)

FreeThem(s, seq, blocks) ==
    IF \/ Len(seq) # Cardinality(blocks)
       \/ \E b \in blocks : \/ b \notin 0..(blocks_count - 1)
                           \/ b % blocks_per_group \notin read_bitmap(s, "bb", b \div blocks_per_group)
    THEN Fail(s, "corrupt")
    ELSE write_superblock(
             Fold(LAMBDA t, g : CommitGroup(t, g, Cleared(read_bitmap(s, "bb", g), g, blocks),
                                            Cardinality({b \in blocks : b \div blocks_per_group = g})),
                  s, GroupsMet(seq)))

(* The whole batch is validated before anything is written. *)
free_blocks(s, ext) ==
    IF s.err # "none" \/ ext = << >> THEN s ELSE FreeThem(s, EachBlock(ext), ToSet(EachBlock(ext)))

--------------------------------------------------------------------------
(* Inodes. *)

FreeBit(s, g) == (0..(inodes_per_group - 1)) \ read_bitmap(s, "ib", g)

Claim(s, g, bit, isDir) ==
    LET ino == g * inodes_per_group + bit + 1
        now == [s EXCEPT !.g[g].fi = @ - 1, !.sb.fi = Max({0, @ - 1}),
                         !.g[g].dirs = @ + (IF isDir THEN 1 ELSE 0),
                         !.g[g].unused = Min({@, inodes_per_group - (bit + 1)})]
    IN  [commit(Write(now, <<"ino", ino>>, Blank), "ib", g, read_bitmap(s, "ib", g) \cup {bit})
            EXCEPT !.ret = ino]

(* The first group with a free inode that is not reserved; its record is
   blanked before the bitmap claims it. *)
alloc_inode(s, isDir) ==
    LET gs == {g \in Groups : /\ s.g[g].fi # 0
                              /\ FreeBit(s, g) # {}
                              /\ g * inodes_per_group + Min(FreeBit(s, g)) + 1 >= first_ino}
    IN  IF s.err # "none" THEN s
        ELSE IF gs = {} THEN Fail(s, "no inodes")
        ELSE Claim(s, Min(gs), Min(FreeBit(s, Min(gs))), isDir)

Counted(s, g, wasDir) ==
    IF s.err # "none" THEN s
    ELSE [s EXCEPT !.g[g].fi = @ + 1, !.sb.fi = @ + 1,
                   !.g[g].dirs = IF wasDir THEN Max({0, @ - 1}) ELSE @]

Release(s, ino, g, wasDir) ==
    commit(Counted(Write(s, <<"ino", ino>>, Blank), g, wasDir), "ib", g,
           read_bitmap(s, "ib", g) \ {(ino - 1) % inodes_per_group})

free_inode(s, ino, wasDir) ==
    LET g == (ino - 1) \div inodes_per_group
    IN  IF s.err # "none" THEN s
        ELSE IF ino < first_ino \/ ino \notin Inodes THEN Fail(s, "bad inode")
        ELSE IF s.g[g].uninit["ib"] \/ (ino - 1) % inodes_per_group \notin read_bitmap(s, "ib", g)
        THEN Fail(s, "corrupt")
        ELSE Release(s, ino, g, wasDir)

--------------------------------------------------------------------------
(* Reading: inodes, extents, directories, paths. *)

read_inode(v, ino) == v[<<"ino", ino>>]

(* The runs of a file: in its record, or in the leaf it points to. *)
RunsOf(v, r) == IF r.leaf = 0 THEN r.runs ELSE v[<<"blk", r.leaf>>].x

collect_extents(v, r) == [i \in DOMAIN RunsOf(v, r) |-> [p |-> RunsOf(v, r)[i].p, n |-> RunsOf(v, r)[i].n]]

IndexExtents(r) == IF r.leaf = 0 THEN << >> ELSE << [p |-> r.leaf, n |-> 1] >>

(* The blocks of a file in logical order. *)
map_run(runs) == EachBlock(runs)

read_inode_data(v, r) ==
    SubSeq(Fold(LAMBDA s, b : s \o v[<<"blk", b>>].d, << >>, map_run(RunsOf(v, r))), 1, r.size)

Entries(v, r) == Fold(LAMBDA s, b : s \o v[<<"blk", b>>].e, << >>, map_run(RunsOf(v, r)))

list_inode(v, r) == SelectSeq(Entries(v, r), LAMBDA e : e.ino # 0 /\ e.name \notin {".", ".."})

(* Whether some name leads to an inode. *)
IsNamed(v, ino) ==
    \E d \in Inodes : /\ read_inode(v, d).k = "dir"
                      /\ \E e \in ToSet(list_inode(v, read_inode(v, d))) : e.ino = ino

find_entry(v, r, name) ==
    LET es == SelectSeq(Entries(v, r), LAMBDA e : e.ino # 0 /\ e.name = name)
    IN  IF es = << >> THEN 0 ELSE es[1].ino

StepDown(v, ino, name) ==
    IF ino = 0 \/ read_inode(v, ino).k # "dir" THEN 0 ELSE find_entry(v, read_inode(v, ino), name)

(* The inode a path names, or 0. *)
resolve(v, path) == Fold(LAMBDA ino, name : StepDown(v, ino, name), ROOT_INODE, path)

--------------------------------------------------------------------------
(* Directory entries. *)

InUse(e) == IF e.ino = 0 THEN 0 ELSE record_len[e.name]

(* The new entry takes a free record whole, or what a live one can spare. *)
PlaceDirent(es, i, ino, name) ==
    SubSeq(es, 1, i - 1)
    \o (IF es[i].ino = 0 THEN << Dirent(ino, name, es[i].len) >>
        ELSE << [es[i] EXCEPT !.len = InUse(es[i])], Dirent(ino, name, es[i].len - InUse(es[i])) >>)
    \o SubSeq(es, i + 1, Len(es))

insert_into_block(es, ino, name) ==
    LET i == SelectInSeq(es, LAMBDA e : e.len - InUse(e) >= record_len[name])
    IN  IF i = 0 THEN es ELSE PlaceDirent(es, i, ino, name)

(* The record before it absorbs a removed entry; the first is a tombstone. *)
DropDirent(es, i) ==
    IF i = 1 THEN [es EXCEPT ![1].ino = 0]
    ELSE SubSeq(es, 1, i - 2) \o << [es[i - 1] EXCEPT !.len = @ + es[i].len] >> \o SubSeq(es, i + 1, Len(es))

remove_from_block(es, name) ==
    LET i == SelectInSeq(es, LAMBDA e : e.ino # 0 /\ e.name = name)
    IN  IF i = 0 THEN es ELSE DropDirent(es, i)

(* The first of a directory's blocks that an edit changes is written. *)
EditFirst(s, blocks, edit(_), e) ==
    LET i == SelectInSeq(blocks, LAMBDA b : edit(View(s)[<<"blk", b>>].e) # View(s)[<<"blk", b>>].e)
    IN  IF i = 0 THEN Fail(s, e)
        ELSE Write(s, <<"blk", blocks[i]>>, Dirents(edit(View(s)[<<"blk", blocks[i]>>].e)))

link_file(s, dir, name, ino) ==
    LET r == read_inode(View(s), dir)
    IN  IF s.err # "none" THEN s
        ELSE IF r.k # "dir" THEN Fail(s, "not a directory")
        ELSE IF find_entry(View(s), r, name) # 0 THEN Fail(s, "exists")
        ELSE EditFirst(s, map_run(RunsOf(View(s), r)), LAMBDA es : insert_into_block(es, ino, name), "directory full")

unlink_file(s, dir, name) ==
    IF s.err # "none" THEN s
    ELSE EditFirst(s, map_run(RunsOf(View(s), read_inode(View(s), dir))),
                   LAMBDA es : remove_from_block(es, name), "not found")
=============================================================================
