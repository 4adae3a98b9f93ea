-------------------------------- MODULE Ext4 -------------------------------
(***************************************************************************)
(* An ext4 volume open for writing: the operations the bridge offers, file *)
(* writers that live across calls, a command that is reported as failed    *)
(* whether or not it reached the device, and a cable pulled after any      *)
(* command.  An operation is one step, as the lock the bridge holds makes  *)
(* it; the images the device went through are kept until the next step, and*)
(* any of them, or what was durable in it, is what a crash may leave.      *)
(***************************************************************************)
EXTENDS Ext4Ops

CONSTANTS
    Volumes,          \* the volumes a session may be opened on
    Names, Parents,   \* names and directories the calls use
    Sizes, Chunks,    \* cells of a file, cells of a chunk
    Slots,            \* writers open at once
    MaxOps,           \* calls of a behaviour that open, close or change a name
    MaxCells,         \* cells a writer is given
    MayFailUninit,    \* whether a command may fail while a bitmap was never written
    MayFailUndo       \* whether a rollback's own command may fail

VARIABLES
    mem,       \* [g, sb]: descriptors and counters in memory
    trail,     \* the images since the last operation began
    writers,   \* slot -> FileWriter
    op,        \* the last operation: tree before, intended tree, result
    clean,     \* no crash and no failed command so far
    fenced,    \* writes refused until the volume is opened again
    stray,     \* history: a rollback has freed an inode a name leads to
    ops        \* calls so far, chunks not counted

vars == << mem, trail, writers, op, clean, fenced, stray, ops >>

--------------------------------------------------------------------------
(* The tree a reader finds: [p, d, c] for every path. *)

RECURSIVE Below(_, _, _, _)
Below(v, ino, path, depth) ==
    IF depth = 0 THEN {}
    ELSE LET es == list_inode(v, read_inode(v, ino))
         IN  UNION {LET r == read_inode(v, es[i].ino)
                        q == Append(path, es[i].name)
                    IN  {[p |-> q, d |-> r.k = "dir", c |-> IF r.k = "dir" THEN << >> ELSE read_inode_data(v, r)]}
                        \cup (IF r.k = "dir" THEN Below(v, es[i].ino, q, depth - 1) ELSE {}) : i \in DOMAIN es}

TreeDepth == 4
Tree(v) == Below(v, ROOT_INODE, << >>, TreeDepth)

Under(tree, path) == {e \in tree : IsPrefix(path, e.p)}

--------------------------------------------------------------------------
(* One call: F maps the session before it to [s, w], the session and the
   writer after it. *)

Now == Last(trail)

NoFault == [at |-> 0, land |-> FALSE]

Session(fault) ==
    [g |-> mem.g, sb |-> mem.sb, trail |-> << Now >>, err |-> "none", ret |-> 0,
     n |-> 0, at |-> fault.at, land |-> fault.land, hit |-> "no", undo |-> FALSE, stray |-> stray]

(* A call refused before its first command changes nothing and is left out.
   Only an error of the device fences the session. *)
Settle(s, targets, kept, before, goal) ==
    /\ s.n > 0 \/ s.err = "none"
    /\ s.at = 0 \/ s.hit = "op" \/ (MayFailUndo /\ s.hit = "undo")
    /\ mem' = [g |-> s.g, sb |-> s.sb]
    /\ trail' = s.trail
    /\ op' = [targets |-> targets, kept |-> kept, before |-> before, goal |-> goal, res |-> s.err]
    /\ clean' = (clean /\ s.hit = "no")
    /\ fenced' = (s.err = "io")
    /\ stray' = s.stray

(* The command that fails: none, or one of those given when none does. *)
Faults(s) ==
    {NoFault} \cup (IF clean /\ (MayFailUninit \/ \A g \in Groups : ~mem.g[g].uninit.bb /\ ~mem.g[g].uninit.ib)
                    THEN [at : 1..s.n, land : BOOLEAN] ELSE {})

Ready == ~fenced /\ ops < MaxOps

Call(F(_), targets, kept, before, goal) ==
    /\ Ready
    /\ \E f \in Faults(F(Session(NoFault))) : Settle(F(Session(f)), targets, kept, before, goal)
    /\ ops' = ops + 1
    /\ UNCHANGED writers

Cells(n) == [i \in 1..n |-> 10 * (ops + 1) + i]

Named(parent, name) == Append(parent, name)

(* resolve(parent), then the call on the directory found. *)
Within(s, parent, F(_, _)) ==
    IF resolve(View(s), parent) = 0 THEN Fail(s, "not found") ELSE F(s, resolve(View(s), parent))

CreateFile(parent, name, size) ==
    LET cells == Cells(size)
        tree  == Tree(Now.v)
    IN  Call(LAMBDA s : flush(Within(s, parent, LAMBDA t, d : create_file(t, d, name, cells))),
             {Named(parent, name)}, tree, tree,
             tree \cup {[p |-> Named(parent, name), d |-> FALSE, c |-> cells]})

MakeDirectory(parent, name) ==
    LET tree == Tree(Now.v)
    IN  Call(LAMBDA s : flush(Within(s, parent, LAMBDA t, d : create_directory(t, d, name))),
             {Named(parent, name)}, tree, tree,
             tree \cup {[p |-> Named(parent, name), d |-> TRUE, c |-> << >>]})

(* What moves from old to new. *)
Moved(tree, old, new) ==
    IF old = new THEN tree
    ELSE (tree \ (Under(tree, old) \cup Under(tree, new)))
         \cup {[e EXCEPT !.p = new \o SubSeq(e.p, Len(old) + 1, Len(e.p))] : e \in Under(tree, old)}

(* A rename that fails may have replaced what it was to replace. *)
RenameEntry(parent, old, new) ==
    LET tree == Tree(Now.v)
    IN  Call(LAMBDA s : flush(Within(s, parent, LAMBDA t, d : rename_file(t, d, old, new))),
             {Named(parent, old), Named(parent, new)}, tree \ Under(tree, Named(parent, new)), tree,
             Moved(tree, Named(parent, old), Named(parent, new)))

(* A deletion that is refused half-way keeps what it had not come to. *)
DeleteEntry(parent, name) ==
    LET tree == Tree(Now.v)
    IN  Call(LAMBDA s : Within(s, parent, LAMBDA t, d : delete_file(t, d, name)),
             {Named(parent, name)}, tree \ Under(tree, Named(parent, name)), tree,
             tree \ Under(tree, Named(parent, name)))

--------------------------------------------------------------------------
(* Writers. *)

(* A call that hands back a writer, kept if it succeeds. *)
Opened(slot, r) ==
    /\ Settle(r.s, {}, Tree(Now.v), Tree(Now.v), Tree(Now.v))
    /\ ops' = ops + 1
    /\ writers' = [writers EXCEPT ![slot] = IF r.s.err = "none" THEN r.w ELSE NoWriter]

BeginFile(slot, size) ==
    /\ Ready
    /\ writers[slot] = NoWriter
    /\ LET F(f) == begin_file(Session(f), size, ops + 1)
       IN  \E f \in Faults(F(NoFault).s) : Opened(slot, F(f))

BeginFileStreaming(slot) ==
    /\ Ready
    /\ writers[slot] = NoWriter
    /\ LET F(f) == begin_file_streaming(Session(f), ops + 1)
       IN  \E f \in Faults(F(NoFault).s) : Opened(slot, F(f))

(* The cells of a writer's file are numbered from its tag. *)
NextCells(w, n) == [i \in 1..n |-> 10 * w.tag + w.written + i]

Chunked(slot, r) ==
    /\ Settle(r.s, {}, Tree(Now.v), Tree(Now.v), Tree(Now.v))
    /\ ops' = ops
    /\ writers' = [writers EXCEPT ![slot] = r.w]

WriteChunk(slot, n) ==
    /\ ~fenced
    /\ writers[slot] # NoWriter
    /\ writers[slot].written + n <= MaxCells
    /\ LET F(f) == write_chunk(Session(f), writers[slot], NextCells(writers[slot], n))
       IN  \E f \in Faults(F(NoFault).s) : Chunked(slot, F(f))

Closing(slot, F(_), targets, goal) ==
    /\ Ready
    /\ writers[slot] # NoWriter
    /\ \E f \in Faults(F(Session(NoFault))) : Settle(F(Session(f)), targets, Tree(Now.v), Tree(Now.v), goal)
    /\ ops' = ops + 1
    /\ writers' = [writers EXCEPT ![slot] = NoWriter]

FinishWithin(s, w, parent, name) ==
    LET d == resolve(View(s), parent)
    IN  IF d = 0 THEN abandon_file(Fail(s, "not found"), w) ELSE flush(finish_file(s, w, d, name))

FinishFile(slot, parent, name) ==
    LET w == writers[slot]
    IN  Closing(slot, LAMBDA s : FinishWithin(s, w, parent, name), {Named(parent, name)},
                Tree(Now.v) \cup {[p |-> Named(parent, name), d |-> FALSE,
                                   c |-> [i \in 1..w.written |-> 10 * w.tag + i]]})

AbandonFile(slot) ==
    Closing(slot, LAMBDA s : abandon_file(s, writers[slot]), {}, Tree(Now.v))

--------------------------------------------------------------------------
(* The cable is pulled after any command, or a fenced session is closed; the
   volume is opened again, on a drive that has kept its power and its buffer or
   lost both.  One failure in a behaviour: a command or a crash. *)

Mounted(v) == [g |-> [g \in Groups |-> v[<<"gd", g>>]], sb |-> v[<<"sb", 0>>]]

Idle(v) == [targets |-> {}, kept |-> Tree(v), before |-> Tree(v), goal |-> Tree(v), res |-> "opened"]

Settled(v) == [v |-> v, b |-> v]

Opening(image) ==
    /\ mem' = Mounted(image.v)
    /\ trail' = << image >>
    /\ writers' = [x \in Slots |-> NoWriter]
    /\ op' = Idle(image.v)
    /\ fenced' = FALSE

Crash ==
    /\ ops < MaxOps
    /\ clean \/ fenced
    /\ \E i \in DOMAIN trail :
          /\ fenced => i = Len(trail)
          /\ \E image \in {trail[i], Settled(trail[i].b)} : Opening(image)
    /\ clean' = FALSE
    /\ UNCHANGED << stray, ops >>

Init ==
    \E v \in Volumes :
        /\ mem = Mounted(v)
        /\ trail = << Settled(v) >>
        /\ writers = [x \in Slots |-> NoWriter]
        /\ op = Idle(v)
        /\ fenced = FALSE
        /\ clean = TRUE
        /\ stray = FALSE
        /\ ops = 0

Next ==
    \/ \E p \in Parents, n \in Names, k \in Sizes : CreateFile(p, n, k)
    \/ \E p \in Parents, n \in Names : MakeDirectory(p, n)
    \/ \E p \in Parents, n \in Names, m \in Names : RenameEntry(p, n, m)
    \/ \E p \in Parents, n \in Names : DeleteEntry(p, n)
    \/ \E x \in Slots, k \in Sizes : BeginFile(x, k)
    \/ \E x \in Slots : BeginFileStreaming(x)
    \/ \E x \in Slots, k \in Chunks : WriteChunk(x, k)
    \/ \E x \in Slots, p \in Parents, n \in Names : FinishFile(x, p, n)
    \/ \E x \in Slots : AbandonFile(x)
    \/ Crash

Spec == Init /\ [][Next]_vars

--------------------------------------------------------------------------
(* Properties. *)

Live(v) == {i \in Inodes : v[<<"ino", i>>].k # "none"}

Owned(v, i) ==
    ToSet(map_run(RunsOf(v, v[<<"ino", i>>]))) \cup (IF v[<<"ino", i>>].leaf = 0 THEN {} ELSE {v[<<"ino", i>>].leaf})

Bits(v, which, g) ==
    IF v[<<"gd", g>>].uninit[which] THEN materialize_bitmap(which, g) ELSE v[<<which, g>>]

BlockTaken(v, b) == b % blocks_per_group \in Bits(v, "bb", b \div blocks_per_group)

InodeTaken(v, i) == (i - 1) % inodes_per_group \in Bits(v, "ib", (i - 1) \div inodes_per_group)

Held == UNION {ToSet(EachBlock(writers[x].ext)) : x \in Slots}

WriterInodes == {writers[x].ino : x \in Slots} \ {0}

(* The types of the state; a session that is not fenced has no failed command. *)
TypeOK ==
    /\ ops \in 0..MaxOps
    /\ {clean, fenced, stray} \subseteq BOOLEAN
    /\ trail # << >>
    /\ \A g \in Groups : mem.g[g].fb \in 0..blocks_in_group(g) /\ mem.g[g].fi \in 0..inodes_per_group
    /\ \A x \in Slots : /\ writers[x].ino \in Inodes \cup {0}
                        /\ Len(writers[x].tail) < BlockSize

(* No two files share a block, none holds a block of the metadata, and what a
   live record holds is taken in the bitmaps. *)
Unshared(v) ==
    /\ \A f, h \in Live(v) : f # h => Owned(v, f) \cap Owned(v, h) = {}
    /\ \A f \in Live(v) : /\ InodeTaken(v, f)
                          /\ \A b \in Owned(v, f) : b \notin Metadata /\ BlockTaken(v, b)

(* A name leads to a live record. *)
NamesLead(v) ==
    \A f \in Live(v) : v[<<"ino", f>>].k = "dir" =>
        \A e \in ToSet(list_inode(v, v[<<"ino", f>>])) : e.ino \in Live(v)

(* After every command given to the device, whichever operation or rollback
   gave it, whether or not the one reported as failed had its effect, and
   however earlier operations were cut short: no block has two owners or an
   owner the bitmaps do not know, and, unless a rollback has freed an inode that
   had its name, a name leads to a live record.  This is what the order of
   free_inode and free_blocks is for (undo_new_file, delete_file). *)
NeverShared ==
    \A i \in DOMAIN trail : Unshared(trail[i].v) /\ (~stray => NamesLead(trail[i].v))

(* create_file leaves "the filesystem as it was" when it fails (file.rs:425): no
   call leaves a name that leads nowhere.  The code does when the command that
   fails is the one of link_file and it had its effect: undo_new_file then frees
   the inode of a name that is on the device. *)
NoNameLeftBehind == \A i \in DOMAIN trail : NamesLead(trail[i].v)

(* The order of undo_new_file and delete_file, the record before the blocks,
   holds on the medium too: whichever of the writes since the last flush a pulled
   cable loses (alloc.rs:654), no block has two owners.  The code has no flush
   between the two. *)
OrderReachesMedium ==
    \A i \in DOMAIN trail :
        LET v == trail[i].v
            b == trail[i].b
        IN  \A kept \in SUBSET {u \in DOMAIN v : v[u] # b[u]} :
                Unshared([u \in DOMAIN v |-> IF u \in kept THEN v[u] ELSE b[u]])

(* No file's record reaches the device while a block it names is still only in
   the write cache: the first barrier of create_file and finish_unlinked. *)
DataBeforeRecord ==
    \A i \in DOMAIN trail : \A f \in Live(trail[i].v) :
        LET v == trail[i].v
        IN  v[<<"ino", f>>].k = "file" => \A b \in Owned(v, f) : v[<<"blk", b>>] = trail[i].b[<<"blk", b>>]

(* The second barrier: no name reaches the device while the record it leads to
   is still only in the write cache.  finish_file has no flush there. *)
NameAfterRecord ==
    ~stray => \A i \in DOMAIN trail : \A f \in Live(trail[i].v) :
        LET v == trail[i].v
        IN  v[<<"ino", f>>].k = "dir" =>
                \A e \in ToSet(list_inode(v, v[<<"ino", f>>])) : trail[i].b[<<"ino", e.ino>>].k # "none"

(* Between operations, before any crash or failed command: the bitmaps hold the
   metadata, the files and the open writers and nothing else, and the counters
   on the device and in memory, the checksums, the directory counts and the
   link counts are those of the bitmaps and the tree.  Every allocation,
   release and rollback of alloc.rs and file.rs takes part. *)
Accounted ==
    /\ TypeOK
    /\ clean =>
        LET v     == Now.v
            owned == UNION {Owned(v, f) : f \in Live(v)}
            inos  == Live(v) \cup WriterInodes \cup 1..(first_ino - 1)
            names == UNION {{<<f, k>> : k \in DOMAIN Entries(v, v[<<"ino", f>>])} :
                               f \in {f \in Live(v) : v[<<"ino", f>>].k = "dir"}}
            leads(n) == Entries(v, v[<<"ino", n[1]>>])[n[2]].ino
        IN  /\ owned \cap Held = {}
            /\ \A x, y \in Slots : x # y /\ writers[x].ino # 0 => writers[x].ino # writers[y].ino
            /\ Cardinality(Held) = MapThenSumSet(LAMBDA x : Len(EachBlock(writers[x].ext)), Slots)
            /\ mem = Mounted(v)
            /\ \A g \in Groups :
                  LET here == {b \in Metadata \cup owned \cup Held : b \div blocks_per_group = g}
                      mine == {f \in inos : (f - 1) \div inodes_per_group = g}
                      d    == mem.g[g]
                  IN  /\ Bits(v, "bb", g) = {b % blocks_per_group : b \in here} \cup blocks_in_group(g)..(blocks_per_group - 1)
                      /\ d.fb = blocks_in_group(g) - Cardinality(here)
                      /\ Bits(v, "ib", g) = {(f - 1) % inodes_per_group : f \in mine}
                      /\ d.fi = inodes_per_group - Cardinality(Bits(v, "ib", g))
                      /\ d.dirs = Cardinality({f \in mine : v[<<"ino", f>>].k = "dir"})
                      /\ \A b \in Bits(v, "ib", g) : b < inodes_per_group - d.unused
                      /\ \A k \in {"bb", "ib"} : ~d.uninit[k] => d.csum[k] = v[<<k, g>>]
            /\ mem.sb.fb = MapThenSumSet(LAMBDA g : mem.g[g].fb, Groups)
            /\ mem.sb.fi = MapThenSumSet(LAMBDA g : mem.g[g].fi, Groups)
            /\ \A f \in Live(v) : v[<<"ino", f>>].links = Cardinality({n \in names : leads(n) = f})

(* Whatever command a call got to, and whether or not the one reported as failed
   had its effect: paths it does not name read as before it, the path it names
   reads as before or as asked for (never as other or old content); a call that
   succeeds has done all of it, durably, and one that is refused has put back
   what it promises to.  Not so once a rollback has freed an inode that had its
   name: the name then leads to nothing, or to the inode's next file. *)
TreeKept ==
    LET outside(tree) == {e \in tree : \A t \in op.targets : ~IsPrefix(t, e.p)}
    IN  ~stray =>
        /\ \A i \in DOMAIN trail : LET tree == Tree(trail[i].v)
                                   IN  /\ outside(tree) = outside(op.before)
                                       /\ tree \subseteq op.before \cup op.goal
        /\ op.res = "none" => /\ Tree(Now.v) = op.goal
                              /\ op.targets # {} => Tree(Now.b) = op.goal
        /\ op.res \notin {"none", "io"} => op.kept \subseteq Tree(Now.v)
=============================================================================
