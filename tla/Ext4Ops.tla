------------------------------ MODULE Ext4Ops ------------------------------
(***************************************************************************)
(* The operations of ext4/file.rs and of delete_file, with their rollbacks.*)
(* A writer is the record of FileWriter.                                   *)
(***************************************************************************)
EXTENDS Ext4Disk

--------------------------------------------------------------------------
(* Rollback: every error is dropped, the first one is kept. *)

Again(s) == [s EXCEPT !.err = "none"]

Undone(s, e) == [s EXCEPT !.err = e, !.undo = FALSE]

(* A rollback begins; stray is history: the name of the inode it is to free
   had reached the device although link_file failed. *)
Undoing(s, ino) == [s EXCEPT !.err = "none", !.undo = TRUE, !.stray = @ \/ IsNamed(View(s), ino)]

(* undo_new_file, undo_new_dir *)
undo_new(s, ino, ext, isDir) ==
    Undone(flush(Again(free_blocks(Again(free_inode(Undoing(s, ino), ino, isDir)), ext))), s.err)

(* s, or if it failed its rollback. *)
OrUndo(s, ino, ext) == IF s.err = "none" THEN s ELSE undo_new(s, ino, ext, FALSE)

--------------------------------------------------------------------------
(* Extents. *)

coalesce_extents(ext) ==
    Fold(LAMBDA m, e : IF m # << >> /\ Last(m).p + Last(m).n = e.p
                       THEN [m EXCEPT ![Len(m)].n = @ + e.n] ELSE Append(m, e), << >>, ext)

(* Runs of at most MAX_EXTENT_LEN blocks. *)
runs_from(ext) ==
    LET pieces(e) == [i \in 1..Ceil(e.n, MAX_EXTENT_LEN) |->
                         [p |-> e.p + (i - 1) * MAX_EXTENT_LEN,
                          n |-> Min({MAX_EXTENT_LEN, e.n - (i - 1) * MAX_EXTENT_LEN})]]
    IN  Fold(LAMBDA s, e : s \o pieces(e), << >>, coalesce_extents(ext))

--------------------------------------------------------------------------
(* Writing whole blocks at a block index of a file. *)

Pad(cells) == [i \in 1..BlockSize |-> IF i \in DOMAIN cells THEN cells[i] ELSE 0]

Blocks(cells) ==
    [i \in 1..Ceil(Len(cells), BlockSize) |->
        Pad(SubSeq(cells, (i - 1) * BlockSize + 1, Min({i * BlockSize, Len(cells)})))]

(* The device write of a run's blocks: one command. *)
WriteRun(s, ps, bs) ==
    Given(s, [Last(s.trail) EXCEPT !.v =
                 [u \in DOMAIN @ |-> IF \E i \in DOMAIN ps : u = <<"blk", ps[i]>>
                                     THEN Data(bs[CHOOSE i \in DOMAIN ps : u = <<"blk", ps[i]>>]) ELSE @[u]]])

(* The parts of blocks from..(from + Len(bs) - 1) of the file, run by run. *)
write_full_blocks(s, runs, from, bs) ==
    Fold(LAMBDA acc, r :
             LET lo == Max({from, acc.l})
                 hi == Min({from + Len(bs), acc.l + r.n})
             IN  [l |-> acc.l + r.n,
                  s |-> IF lo >= hi THEN acc.s
                        ELSE WriteRun(acc.s, [i \in 1..(hi - lo) |-> r.p + (lo - acc.l) + i - 1],
                                      SubSeq(bs, lo - from + 1, hi - from))],
         [s |-> s, l |-> 0], runs).s

--------------------------------------------------------------------------
(* Inode records. *)

write_extent_leaf_block(s, w) ==
    IF w.leaf = 0 THEN s ELSE Write(s, <<"blk", w.leaf>>, Leaf(w.runs))

(* write_extent_tree refuses what fits neither the record nor a leaf. *)
write_inode_record(s, w) ==
    IF w.leaf = 0 /\ Len(w.runs) > MAX_INLINE_EXTENTS THEN Fail(s, "too many extents")
    ELSE Write(s, <<"ino", w.ino>>, [k |-> "file", size |-> w.size, links |-> 1,
                                runs |-> IF w.leaf = 0 THEN w.runs ELSE << >>, leaf |-> w.leaf])

write_directory_inode_record(s, ino, b) ==
    Write(s, <<"ino", ino>>, [k |-> "dir", size |-> BlockSize, links |-> 2,
                              runs |-> << [p |-> b, n |-> 1] >>, leaf |-> 0])

patch_inode_links_count(s, ino, by) ==
    flush(Write(s, <<"ino", ino>>, [View(s)[<<"ino", ino>>] EXCEPT !.links = @ + by]))

--------------------------------------------------------------------------
(* begin_file, write_chunk, finish_file.  What they return is [s, w]. *)

NoWriter == [ino |-> 0, ext |-> << >>, runs |-> << >>, size |-> 0, written |-> 0, leaf |-> 0,
             tail |-> << >>, stream |-> FALSE, tag |-> 0]

Leafed(s, w) ==
    IF s.err = "none" THEN [s |-> s, w |-> [w EXCEPT !.leaf = s.ret[1].p, !.ext = @ \o s.ret]]
    ELSE [s |-> undo_new(s, w.ino, w.ext, FALSE), w |-> w]

Laid(s, w) ==
    IF Len(w.runs) > MaxRuns THEN [s |-> undo_new(Fail(s, "too many extents"), w.ino, w.ext, FALSE), w |-> w]
    ELSE IF Len(w.runs) > MAX_INLINE_EXTENTS THEN Leafed(alloc_blocks(s, 0, 1), w)
    ELSE [s |-> s, w |-> w]

Reserved(s, w) ==
    IF s.err = "none" THEN Laid(s, [w EXCEPT !.ext = s.ret, !.runs = runs_from(s.ret)])
    ELSE [s |-> undo_new(s, w.ino, << >>, FALSE), w |-> w]

Numbered(s, w) ==
    IF s.err = "none" THEN Reserved(alloc_blocks(s, 0, Ceil(w.size, BlockSize)), [w EXCEPT !.ino = s.ret])
    ELSE [s |-> s, w |-> w]

begin_file(s, size, tag) ==
    Numbered(alloc_inode(s, FALSE), [NoWriter EXCEPT !.size = size, !.tag = tag])

StreamBegun(s, tag) ==
    [s |-> s, w |-> [NoWriter EXCEPT !.ino = s.ret, !.stream = TRUE, !.tag = tag]]

begin_file_streaming(s, tag) == StreamBegun(alloc_inode(s, FALSE), tag)

DataExtents(w) == SelectSeq(w.ext, LAMBDA e : e.p # w.leaf)

(* A leaf that cannot be had fails the chunk; the writer keeps its extents. *)
StreamLeafed(s, w) ==
    IF s.err # "none" THEN [s |-> s, w |-> w]
    ELSE [s |-> s, w |-> [w EXCEPT !.leaf = s.ret[1].p, !.ext = @ \o s.ret]]

StreamLaid(s, w) ==
    IF Len(w.runs) > MAX_INLINE_EXTENTS /\ w.leaf = 0 THEN StreamLeafed(alloc_blocks(s, 0, 1), w)
    ELSE [s |-> s, w |-> w]

StreamRuns(s, w, new, runs) ==
    IF Len(runs) > MaxRuns THEN [s |-> Undone(Again(free_blocks([s EXCEPT !.undo = TRUE], new)), "too many extents"), w |-> w]
    ELSE StreamLaid(s, [w EXCEPT !.ext = @ \o new, !.runs = runs])

Streamed(s, w) ==
    IF s.err # "none" THEN [s |-> s, w |-> w]
    ELSE StreamRuns(s, w, s.ret, runs_from(DataExtents([w EXCEPT !.ext = @ \o s.ret])))

(* The blocks a stream needs for its next chunk. *)
Grown(s, w, end) ==
    LET have == Len(map_run(w.runs))
        goal == IF DataExtents(w) = << >> THEN 0 ELSE Last(DataExtents(w)).p + Last(DataExtents(w)).n
    IN  IF Ceil(end, BlockSize) <= have THEN [s |-> s, w |-> w]
        ELSE IF Len(w.runs) >= MaxRuns THEN [s |-> Fail(s, "too many extents"), w |-> w]
        ELSE Streamed(alloc_blocks(s, goal, Ceil(end, BlockSize) - have), w)

(* buf is the tail of w and the cells that follow it: whole blocks are
   written, at most one more part of a block stays in the tail.  A command that
   fails fences the session, so what it leaves of the writer is never used. *)
Appended(s, w, buf) ==
    LET full == Len(buf) \div BlockSize
        from == (w.written - Len(w.tail)) \div BlockSize
        head == IF w.tail # << >> /\ full > 0 THEN 1 ELSE 0
        bs   == SubSeq(Blocks(buf), 1, full)
        one  == IF head = 1 THEN write_full_blocks(s, w.runs, from, SubSeq(bs, 1, 1)) ELSE s
    IN  [s |-> IF full > head THEN write_full_blocks(one, w.runs, from + head, SubSeq(bs, head + 1, full)) ELSE one,
         w |-> [w EXCEPT !.written = @ - Len(w.tail) + Len(buf),
                         !.tail = SubSeq(buf, full * BlockSize + 1, Len(buf))]]

ChunkOf(r, w, cells) ==
    IF r.s.err # "none" THEN r
    ELSE Appended(r.s, [r.w EXCEPT !.size = IF w.stream THEN w.written + Len(cells) ELSE @], w.tail \o cells)

write_chunk(s, w, cells) ==
    IF w.stream THEN ChunkOf(Grown(s, w, w.written + Len(cells)), w, cells)
    ELSE IF w.written + Len(cells) > w.size THEN [s |-> Fail(s, "out of bounds"), w |-> w]
    ELSE ChunkOf([s |-> s, w |-> w], w, cells)

abandon_file(s, w) == undo_new(s, w.ino, w.ext, FALSE)

LastBlock(s, w) ==
    IF w.tail = << >> THEN s
    ELSE write_full_blocks(s, w.runs, (w.written - Len(w.tail)) \div BlockSize, << Pad(w.tail) >>)

(* Mutant: no flush between the data and the record that names it. *)
finish_unlinked_Unflushed(s, w) ==
    IF w.written # w.size THEN Fail(s, "out of bounds")
    ELSE write_inode_record(write_extent_leaf_block(LastBlock(s, w), w), w)

finish_unlinked(s, w) ==
    IF w.written # w.size THEN Fail(s, "out of bounds")
    ELSE write_inode_record(flush(write_extent_leaf_block(LastBlock(s, w), w)), w)

finish_file(s, w, dir, name) ==
    OrUndo(link_file(finish_unlinked(s, w), dir, name, w.ino), w.ino, w.ext)

--------------------------------------------------------------------------
(* create_file: the same steps in one call, with a flush before the name. *)

NamedFile(s, w, dir, name) ==
    IF s.err # "none" THEN s ELSE OrUndo(link_file(s, dir, name, w.ino), w.ino, w.ext)

(* Whole blocks run by run, then the last one, padded. *)
write_file_data(s, w, cells) ==
    LET full == Len(cells) \div BlockSize
        bs   == Blocks(cells)
    IN  write_full_blocks(write_full_blocks(s, w.runs, 0, SubSeq(bs, 1, full)),
                          w.runs, full, SubSeq(bs, full + 1, Len(bs)))

write_new_file_runs(s, w, cells) ==
    OrUndo(write_inode_record(flush(write_extent_leaf_block(write_file_data(s, w, cells), w)), w), w.ino, w.ext)

Written(r, dir, name, cells) ==
    IF r.s.err # "none" THEN r.s
    ELSE NamedFile(flush(write_new_file_runs(r.s, r.w, cells)), r.w, dir, name)

create_file(s, dir, name, cells) == Written(begin_file(s, Len(cells), 0), dir, name, cells)

--------------------------------------------------------------------------
(* create_directory. *)

NewDirents(ino, parent) ==
    << Dirent(ino, ".", record_len["."]), Dirent(parent, "..", usable - record_len["."]) >>

(* The parent's link count; without it the name goes again. *)
ParentLinked(s, dir, name, ino, ext) ==
    IF s.err # "none" THEN undo_new(s, ino, ext, TRUE)
    ELSE LET t == patch_inode_links_count(s, dir, 1)
         IN  IF t.err = "none" THEN t
             ELSE undo_new([unlink_file([t EXCEPT !.err = "none", !.undo = TRUE], dir, name) EXCEPT !.err = t.err],
                           ino, ext, TRUE)

DirectoryLaid(s, dir, name, ino, ext) ==
    ParentLinked(link_file(flush(write_directory_inode_record(
                     Write(s, <<"blk", ext[1].p>>, Dirents(NewDirents(ino, dir))), ino, ext[1].p)),
                     dir, name, ino), dir, name, ino, ext)

DirectoryBlock(s, dir, name, ino) ==
    IF s.err # "none" THEN undo_new(s, ino, << >>, TRUE) ELSE DirectoryLaid(s, dir, name, ino, s.ret)

DirectoryInode(s, dir, name) ==
    IF s.err # "none" THEN s ELSE DirectoryBlock(alloc_blocks(s, 0, 1), dir, name, s.ret)

create_directory(s, dir, name) ==
    IF read_inode(View(s), dir).k # "dir" THEN Fail(s, "not a directory")
    ELSE DirectoryInode(alloc_inode(s, TRUE), dir, name)

--------------------------------------------------------------------------
(* Deletion: collect, sever the name, blank the inode, free the blocks. *)

(* Mutant: the blocks go before the record. *)
Severed_BlocksFirst(s, r, ino, isDir) ==
    flush(free_inode(free_blocks(free_blocks(s, collect_extents(View(s), r)), IndexExtents(r)), ino, isDir))

Severed(s, r, ino, isDir) ==
    flush(free_blocks(free_blocks(free_inode(s, ino, isDir), collect_extents(View(s), r)), IndexExtents(r)))

DeleteOne(s, dir, name, ino, r) ==
    IF s.err # "none" THEN s
    ELSE IF r.k # "dir" /\ r.links > 1 THEN Fail(s, "hard link")
    ELSE LET t == unlink_file(s, dir, name)
         IN  Severed(IF r.k = "dir" THEN patch_inode_links_count(t, dir, -1) ELSE t, r, ino, r.k = "dir")

RECURSIVE delete_file_at_depth(_, _, _, _)
delete_file_at_depth(s, dir, name, depth) ==
    LET ino  == find_entry(View(s), read_inode(View(s), dir), name)
        r    == read_inode(View(s), ino)
        kids == Fold(LAMBDA t, e : delete_file_at_depth(t, ino, e.name, depth + 1), s, list_inode(View(s), r))
    IN  IF s.err # "none" THEN s
        ELSE IF depth > MAX_DELETE_DEPTH THEN Fail(s, "too deep")
        ELSE IF ino = 0 THEN Fail(s, "not found")
        ELSE IF r.k = "dir" THEN DeleteOne(kids, dir, name, ino, r)
        ELSE DeleteOne(s, dir, name, ino, r)

delete_file(s, dir, name) == delete_file_at_depth(s, dir, name, 0)

--------------------------------------------------------------------------
(* rename_file: the destination is deleted first, then the name moves; a name
   that does not fit is put back. *)

(* Mutant: the old name is not put back. *)
MoveName_NotPutBack(s, dir, old, new, ino) ==
    flush(link_file(unlink_file(s, dir, old), dir, new, ino))

MoveName(s, dir, old, new, ino) ==
    LET gone == unlink_file(s, dir, old)
        t    == link_file(gone, dir, new, ino)
    IN  IF gone.err # "none" THEN gone
        ELSE IF t.err = "none" THEN flush(t)
        ELSE Undone(flush(Again(link_file([t EXCEPT !.err = "none", !.undo = TRUE], dir, old, ino))), t.err)

ReplaceDestination(s, dir, new, dest, r) ==
    IF r.k = "dir" \/ r.links > 1 THEN Fail(s, "unsupported")
    ELSE Severed(unlink_file(s, dir, new), r, dest, FALSE)

rename_file(s, dir, old, new) ==
    LET d    == read_inode(View(s), dir)
        ino  == find_entry(View(s), d, old)
        dest == find_entry(View(s), d, new)
    IN  IF ino = 0 THEN Fail(s, "not found")
        ELSE IF old = new THEN s
        ELSE IF read_inode(View(s), ino).k # "file" THEN Fail(s, "unsupported")
        ELSE IF dest = 0 THEN MoveName(s, dir, old, new, ino)
        ELSE LET t == ReplaceDestination(s, dir, new, dest, read_inode(View(s), dest))
             IN  IF t.err # "none" THEN t ELSE MoveName(t, dir, old, new, ino)
=============================================================================
