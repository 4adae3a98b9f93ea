-------------------------- MODULE BtrfsCommitProofs --------------------------
(***************************************************************************)
(* For any set of blocks and any number of superblock copies: whatever     *)
(* power losses and transport errors do to a commit, a mount finds a whole *)
(* filesystem, what is written builds on what a mount would find, and      *)
(* BtrfsCommit implements AtomicFs.  The exceptions are those that `base`  *)
(* names: a state known to the drive's cache alone, and a stale one.       *)
(***************************************************************************)
EXTENDS BtrfsCommit, TLAPS

HasBest(sup) == \E c \in Copies : IsBest(c, sup)

(* Whole in the cache and on the medium: a power loss tears none of it. *)
Both(t) == Whole(t, cblk) /\ Whole(t, mblk)

(* A history and the same one with at most one more transaction. *)
OneMore(h, g) == g = h \/ g = Append(h, g[Len(h) + 1])

(* While writes are accepted, the tree they build on is whole. *)
Mounted == fence = {} /\ pc \in {"idle", "blocks"} => Whole(mem.tree, cblk)

(* Nothing the batch wrote lies in the tree it was opened on. *)
Batched ==
  /\ fence = {} /\ pc = "idle" => Whole(work, cblk)
  /\ At(work) \intersect At(mem.tree) = {}
  /\ pc = "idle" /\ bgen # 0 => bgen >= mem.gen
  /\ pc \in {"blocks", "super"} => bgen \in {0, new.gen}
  /\ pc # "idle" \/ fence # {} => work = {}
  /\ pc = "down" => bgen = 0 /\ fence = {}

(* The blocks still to be written are free in the old tree, and the others of
   the new tree are in the cache. *)
Built ==
  pc = "blocks" =>
    /\ todo \intersect At(mem.tree) = {}
    /\ \A p \in new.tree : IF p[1] \in todo THEN p[2] = next - 1
                                            ELSE cblk[p[1]] = p[2]

(* A commit in progress: the new superblock extends the old one. *)
Extends ==
  pc \in {"blocks", "super"} =>
    /\ fence = {}
    /\ new.hist = Append(mem.hist, new.hist[Len(mem.hist) + 1])
    /\ new.gen >= mem.gen

(* Superblocks are written when their tree is safe, one after the other. *)
Written ==
  pc = "super" => /\ Both(new.tree)
                  /\ \A c \in Copies : c < copy => csup[c] = new

(* The cache may be one transaction ahead of the medium: every copy that
   differs is the newest one.  Operations build on what a mount would choose. *)
Ahead ==
  base # "stale" =>
    /\ HasBest(csup) /\ HasBest(msup)
    /\ OneMore(Find(msup).hist, Find(csup).hist)
    /\ \A c \in Copies : csup[c] = msup[c] \/ csup[c] = Find(csup)
    /\ \A c \in Copies : msup[c].gen <= Find(csup).gen
    /\ Whole(Find(csup).tree, cblk)
    /\ fence = {} /\ pc \in {"idle", "blocks"} => mem = Find(csup)

(* A session that stands on the medium: both choices are whole in the cache and
   on the medium, and until a superblock is written they are the same. *)
OnMedium ==
  base = "medium" =>
    /\ Both(Find(csup).tree) /\ Both(Find(msup).tree)
    /\ fence = {} /\ pc \in {"idle", "blocks"} => msup = csup

(* Superblocks are written on a medium that was just flushed; the first copy
   makes the new one the choice. *)
Publishing ==
  base # "stale" /\ pc = "super" =>
    /\ base = "medium"
    /\ \A c \in Copies : csup[c].gen <= new.gen
    /\ copy = 1 => csup = msup /\ mem = Find(csup)
    /\ copy # 1 => Find(csup) = new

IInv == /\ TypeOK /\ Mounted /\ Batched /\ Built /\ Extends /\ Written
        /\ Ahead /\ OnMedium /\ Publishing

-------------------------------------------------------------------------------
(* What Superblock::find chooses *)

\* The best copy is unique: find's "strictly greater" loop has one answer.
LEMMA BestIsFound ==
  ASSUME NEW sup \in [Copies -> Super], NEW c \in Copies, IsBest(c, sup)
  PROVE  Find(sup) = sup[c]
  <1>1. \A d \in Copies : sup[d].gen \in Nat
    BY Zenon DEF Super
  <1>2. \A d \in Copies : IsBest(d, sup) => d = c
    BY <1>1 DEF IsBest, BestOf, Copies
  <1> QED BY Zenon, <1>2 DEF Find

\* find never passes over a generation: no copy is newer than the one chosen.
LEMMA FoundIsNewest ==
  ASSUME NEW sup \in [Copies -> Super], HasBest(sup)
  PROVE  /\ Find(sup) \in Super
         /\ \A d \in Copies : sup[d].gen <= Find(sup).gen
  <1>1. PICK c \in Copies : IsBest(c, sup)
    BY Zenon DEF HasBest
  <1>2. Find(sup) = sup[c]
    BY Zenon, <1>1, BestIsFound
  <1> QED BY <1>1, <1>2 DEF IsBest, BestOf, Super

\* Overwriting one copy with a superblock at least as new as all of them: find
\* chooses that one or what it chose before.
LEMMA OverwriteCopy ==
  ASSUME NEW sup \in [Copies -> Super], HasBest(sup),
         NEW s \in Super, \A d \in Copies : sup[d].gen <= s.gen,
         NEW c \in Copies, NEW sup2, sup2 = [sup EXCEPT ![c] = s]
  PROVE  HasBest(sup2) /\ Find(sup2) \in {Find(sup), s}
  <1>1. PICK b \in Copies : IsBest(b, sup)
    BY Zenon DEF HasBest
  <1>2. Find(sup) = sup[b]
    BY Zenon, <1>1, BestIsFound
  <1>3. /\ sup2 \in [Copies -> Super]
        /\ \A d \in Copies : sup2[d] = IF d = c THEN s ELSE sup[d]
        /\ \A d \in Copies : sup[d].gen \in Nat
        /\ s.gen \in Nat
    BY Zenon DEF Super
  <1>4. CASE sup[b].gen < s.gen \/ c <= b
    <2>1. IsBest(c, sup2)
      BY <1>1, <1>3, <1>4 DEF IsBest, BestOf, Copies
    <2>2. Find(sup2) = s
      BY Zenon, <2>1, <1>3, BestIsFound
    <2> QED BY Zenon, <2>1, <2>2 DEF HasBest
  <1>5. CASE ~(sup[b].gen < s.gen) /\ b < c
    <2>1. IsBest(b, sup2)
      BY <1>1, <1>3, <1>5 DEF IsBest, BestOf, Copies
    <2>2. Find(sup2) = sup[b]
      <3>1. Find(sup2) = sup2[b]
        BY Zenon, <2>1, <1>3, BestIsFound
      <3>2. b # c
        BY <1>5 DEF Copies
      <3> QED BY Zenon, <3>1, <3>2, <1>3
    <2> QED BY Zenon, <2>1, <2>2, <1>2 DEF HasBest
  <1> QED BY <1>4, <1>5 DEF Copies

\* When every copy is the same superblock, that is the one found.
LEMMA AllAlike ==
  ASSUME NEW sup \in [Copies -> Super], NEW s \in Super,
         \A c \in Copies : sup[c] = s
  PROVE  HasBest(sup) /\ Find(sup) = s
  <1>1. 1 \in Copies /\ IsBest(1, sup)
    BY CopiesAssumption DEF Copies, IsBest, BestOf, Super
  <1> QED BY Zenon, <1>1, BestIsFound DEF HasBest

-------------------------------------------------------------------------------
(* The invariant is inductive *)

\* A freshly written filesystem: one whole tree, named by every copy.
LEMMA InitIInv == Init => IInv
  <1> SUFFICES ASSUME Init PROVE IInv
    BY Zenon
  <1>1. TypeOK
    BY CopiesAssumption, TreeAssumption
    DEF Init, TypeOK, FirstSuper, Super, Tree, Copies
  <1>2. HasBest(csup) /\ HasBest(msup)
        /\ Find(csup) = FirstSuper /\ Find(msup) = FirstSuper
    BY Zenon, <1>1, AllAlike DEF Init, TypeOK
  <1>3. Whole(FirstSuper.tree, cblk) /\ Whole(FirstSuper.tree, mblk)
    BY Zenon, TreeAssumption DEF Init, Whole, FirstSuper
  <1>4. At({}) = {} /\ Whole({}, cblk)
    BY Zenon DEF At, Whole
  <1>5. \A c \in Copies : msup[c].gen <= Find(csup).gen
    BY <1>2 DEF Init, FirstSuper
  <1> QED
    BY Zenon, <1>1, <1>2, <1>3, <1>4, <1>5
    DEF Init, IInv, Mounted, Batched, Built, Extends, Written, Ahead, OnMedium,
        Publishing, OneMore, Both

\* TypeOK on its own.
LEMMA StepTypeOK == TypeOK /\ [Next]_vars => TypeOK'
  <1> SUFFICES ASSUME TypeOK, [Next]_vars PROVE TypeOK'
    BY Zenon
  <1> USE DEF TypeOK
  <1>1. ASSUME NEW b \in Blocks, WriteChunk(b) PROVE TypeOK'
    <2>1. work \union {<<b, next>>} \in Tree
      BY DEF Tree
    <2>2. mem.gen \in Nat
      BY Zenon DEF Super
    <2> QED BY <1>1, <2>1, <2>2 DEF WriteChunk
  <1>2. ASSUME NEW b \in Blocks, WriteBlock(b) PROVE TypeOK'
    <2>1. next - 1 \in Nat
      OBVIOUS
    <2> QED BY Zenon, <1>2, <2>1 DEF WriteBlock
  <1>3. CASE Abandon
    BY Zenon, <1>3 DEF Abandon, disk, Tree
  <1>4. ASSUME NEW freed \in SUBSET mem.tree, NEW meta \in SUBSET Free,
               NEW r \in BOOLEAN, StartCommit(freed, meta, r)
        PROVE  TypeOK'
    <2>1. meta \subseteq Blocks
      BY Zenon DEF Free
    <2>2. new' \in Super
      <3>1. mem.gen \in Nat /\ mem.tree \in Tree /\ mem.hist \in Seq(Nat)
        BY Zenon DEF Super
      <3>2. (IF bgen # 0 THEN bgen ELSE mem.gen + 1) \in Nat
        BY <3>1
      <3>3. (mem.tree \ freed) \union work \union (meta \X {next}) \in Tree
        BY Zenon, <2>1, <3>1 DEF Tree
      <3>4. Append(mem.hist, next) \in Seq(Nat)
        BY <3>1
      <3> HIDE DEF TypeOK
      <3>5. new' = [gen  |-> IF bgen # 0 THEN bgen ELSE mem.gen + 1,
                    tree |-> (mem.tree \ freed) \union work \union (meta \X {next}),
                    hist |-> Append(mem.hist, next)]
        BY Zenon, <1>4 DEF StartCommit
      <3> QED BY Zenon, <3>2, <3>3, <3>4, <3>5 DEF Super
    <2> QED BY <1>4, <2>1, <2>2 DEF StartCommit, disk, Tree
  <1>5. CASE FlushBlocks
    BY <1>5, CopiesAssumption DEF FlushBlocks, Flush
  <1>6. CASE WriteSuper
    <2>1. copy + 1 \in 1 .. NCopies + 1
      BY <1>6, CopiesAssumption DEF WriteSuper, Copies
    <2> QED BY Zenon, <1>6, <2>1 DEF WriteSuper
  <1>7. CASE FlushSuper
    BY Zenon, <1>7 DEF FlushSuper, Flush, Super
  <1>8. CASE Fails
    <2>1. cblk' \in [Blocks -> Nat]
      BY <1>8 DEF Fails, Free, disk
    <2>2. csup' \in [Copies -> Super]
      BY Zenon, <1>8 DEF Fails, disk
    <2>3. mblk' = mblk /\ msup' = msup
      BY Zenon, <1>8 DEF Fails, disk
    <2> QED BY Zenon, <1>8, <2>1, <2>2, <2>3 DEF Fails, Tree
  <1>9. CASE Close
    BY Zenon, <1>9 DEF Close, Down, disk, Tree
  <1>10. ASSUME NEW read \in SUBSET Copies, NEW c \in Copies, Mount(read, c)
         PROVE  TypeOK'
    BY Zenon, <1>10 DEF Mount, disk
  <1>11. ASSUME NEW b \in Blocks, DestageBlock(b) PROVE TypeOK'
    BY Zenon, <1>11 DEF DestageBlock
  <1>12. ASSUME NEW c \in Copies, DestageSuper(c) PROVE TypeOK'
    BY Zenon, <1>12 DEF DestageSuper
  <1>13. CASE Crash
    BY <1>13 DEF Crash, Down, Tree
  <1>14. CASE UNCHANGED vars
    BY Zenon, <1>14 DEF vars
  <1> QED
    BY Zenon, <1>1, <1>2, <1>3, <1>4, <1>5, <1>6, <1>7, <1>8, <1>9, <1>10, <1>11,
       <1>12, <1>13, <1>14
    DEF Next, Host

\* A write outside a tree's blocks leaves the tree whole.
LEMMA WriteElsewhere ==
  ASSUME NEW t \in Tree, NEW d \in [Blocks -> Nat], Whole(t, d),
         NEW b \in Blocks, b \notin At(t), NEW v
  PROVE  Whole(t, [d EXCEPT ![b] = v])
  BY Zenon DEF Tree, Whole, At

\* Storing a cached block on the medium loses nothing that both held.
LEMMA Destaged ==
  ASSUME NEW t \in Tree, TypeOK, Both(t), NEW b \in Blocks
  PROVE  Whole(t, [mblk EXCEPT ![b] = cblk[b]])
  BY Zenon DEF Tree, Whole, Both, TypeOK

\* What find chooses depends on the copies alone.
LEMMA SameCopies ==
  /\ csup' = csup => Find(csup)' = Find(csup) /\ (HasBest(csup) => HasBest(csup)')
  /\ msup' = msup => Find(msup)' = Find(msup) /\ (HasBest(msup) => HasBest(msup)')
  BY Zenon DEF Find, HasBest, IsBest, BestOf

\* While no superblock is being written, a block outside the mounted tree may be
\* overwritten in the cache.
LEMMA BlockWritten ==
  ASSUME IInv, fence = {}, pc \in {"idle", "blocks"},
         NEW b \in Blocks, b \notin At(mem.tree), NEW v,
         cblk' = [cblk EXCEPT ![b] = v],
         UNCHANGED <<csup, mblk, msup, mem, base>>,
         pc' \in {"idle", "blocks"}
  PROVE  Whole(mem.tree, cblk') /\ Ahead' /\ OnMedium'
  <1>1. mem.tree \in Tree /\ cblk \in [Blocks -> Nat] /\ Whole(mem.tree, cblk)
    BY Zenon DEF IInv, TypeOK, Super, Mounted
  <1>2. Whole(mem.tree, cblk')
    BY Zenon, <1>1, WriteElsewhere
  <1>3. Ahead'
    BY Zenon, <1>2, SameCopies DEF IInv, Ahead
  <1>4. base = "medium" => Find(csup) = mem /\ Find(msup) = mem /\ msup = csup
    BY Zenon DEF IInv, Ahead, OnMedium
  <1>5. OnMedium'
    BY Zenon, <1>2, <1>4, SameCopies DEF IInv, OnMedium, Both
  <1> QED BY Zenon, <1>2, <1>3, <1>5

\* Writing file data to a free block.
LEMMA WriteChunkStep ==
  ASSUME IInv, TypeOK', NEW b \in Blocks, WriteChunk(b) PROVE IInv'
  <1>1. /\ pc = "idle" /\ fence = {} /\ b \notin At(mem.tree) /\ b \notin At(work)
        /\ cblk' = [cblk EXCEPT ![b] = next] /\ work' = work \union {<<b, next>>}
        /\ UNCHANGED <<csup, mblk, msup, pc, mem, fence, new, todo, copy, acked, base>>
    BY Zenon DEF WriteChunk, Writing, Free
  <1>2. Whole(mem.tree, cblk') /\ Ahead' /\ OnMedium'
    BY Zenon, <1>1, BlockWritten
  <1>3. Batched'
    <2>1. work \in Tree /\ cblk \in [Blocks -> Nat] /\ Whole(work, cblk)
      BY Zenon, <1>1 DEF IInv, TypeOK, Batched
    <2>2. Whole(work, cblk')
      BY Zenon, <1>1, <2>1, WriteElsewhere
    <2>3. Whole(work', cblk')
      BY <1>1, <2>1, <2>2 DEF Whole
    <2>4. At(work') \subseteq At(work) \union {b}
      BY <1>1 DEF At
    <2>5. At(work') \intersect At(mem.tree') = {}
      BY Zenon, <1>1, <2>4 DEF IInv, Batched
    <2>6. bgen' >= mem'.gen
      BY <1>1 DEF WriteChunk, IInv, Batched, TypeOK, Super
    <2> QED BY Zenon, <1>1, <2>3, <2>5, <2>6 DEF Batched
  <1> QED
    BY Zenon, <1>1, <1>2, <1>3
    DEF IInv, Mounted, Built, Extends, Written, Publishing

\* Building a transaction on the mounted state.
LEMMA StartCommitStep ==
  ASSUME IInv, TypeOK', NEW freed \in SUBSET mem.tree,
         NEW meta \in SUBSET Free, NEW r \in BOOLEAN,
         StartCommit(freed, meta, r)
  PROVE  IInv'
  <1>1. /\ pc = "idle" /\ fence = {} /\ pc' = "blocks" /\ work' = {}
        /\ todo' = meta /\ next' = next + 1
        /\ UNCHANGED <<cblk, csup, mblk, msup, mem, fence, copy, acked, base>>
        /\ new'.gen = (IF bgen # 0 THEN bgen ELSE mem.gen + 1)
        /\ new'.tree = (mem.tree \ freed) \union work \union (meta \X {next})
        /\ new'.hist = Append(mem.hist, next)
        /\ bgen' \in {0, bgen} /\ (bgen' # 0 => bgen' = new'.gen)
    BY Zenon DEF StartCommit, Writing, disk
  <1>2. /\ mem.tree \in Tree /\ work \in Tree
        /\ mem.gen \in Nat /\ bgen \in Nat /\ next \in Nat
        /\ mem.hist \in Seq(Nat)
        /\ Whole(work, cblk) /\ Whole(mem.tree, cblk)
    BY Zenon, <1>1 DEF IInv, Mounted, Batched, TypeOK, Super
  <1>3. Mounted' /\ Ahead' /\ OnMedium'
    BY Zenon, <1>1, SameCopies DEF IInv, Mounted, Ahead, OnMedium, Both
  <1>4. Batched'
    <2>1. At({}) = {}
      BY Zenon DEF At
    <2> QED BY Zenon, <1>1, <2>1 DEF Batched
  <1>5. Built'
    <2>1. meta \intersect At(mem.tree) = {} /\ meta \intersect At(work) = {}
      BY Zenon DEF Free
    <2>2. \A p \in new'.tree : IF p[1] \in meta THEN p[2] = next
                                                ELSE cblk[p[1]] = p[2]
      BY <1>1, <1>2, <2>1 DEF Whole, At
    <2>3. next' - 1 = next
      BY <1>1, <1>2
    <2> QED BY Zenon, <1>1, <2>1, <2>2, <2>3 DEF Built
  <1>6. Extends'
    <2>1. new'.gen >= mem.gen
      BY <1>1, <1>2 DEF IInv, Batched
    <2>2. new'.hist = Append(mem.hist, new'.hist[Len(mem.hist) + 1])
      BY <1>1, <1>2
    <2> QED BY Zenon, <1>1, <2>1, <2>2 DEF Extends
  <1> QED BY Zenon, <1>1, <1>3, <1>4, <1>5, <1>6 DEF IInv, Written, Publishing

\* Writing a metadata block of the transaction.
LEMMA WriteBlockStep ==
  ASSUME IInv, TypeOK', NEW b \in Blocks, WriteBlock(b) PROVE IInv'
  <1>1. /\ pc = "blocks" /\ fence = {} /\ b \in todo /\ b \notin At(mem.tree)
        /\ cblk' = [cblk EXCEPT ![b] = next - 1] /\ todo' = todo \ {b}
        /\ UNCHANGED <<csup, mblk, msup, pc, mem, fence, bgen, work, new, copy,
                       next, acked, base>>
    BY Zenon DEF WriteBlock, IInv, Built, Extends
  <1>2. Whole(mem.tree, cblk') /\ Ahead' /\ OnMedium'
    BY Zenon, <1>1, BlockWritten
  <1>3. Built'
    <2>1. \A p \in new.tree : IF p[1] \in todo THEN p[2] = next - 1
                                               ELSE cblk[p[1]] = p[2]
      BY Zenon, <1>1 DEF IInv, Built
    <2>2. new.tree \in Tree /\ cblk \in [Blocks -> Nat]
      BY Zenon DEF IInv, TypeOK, Super
    <2>3. \A p \in new.tree : p[1] \in Blocks
      BY Zenon, <2>2 DEF Tree
    <2>4. \A p \in new.tree : IF p[1] \in todo' THEN p[2] = next - 1
                                                ELSE cblk'[p[1]] = p[2]
      BY Zenon, <1>1, <2>1, <2>2, <2>3
    <2> QED BY Zenon, <1>1, <2>4 DEF IInv, Built
  <1> QED
    BY Zenon, <1>1, <1>2, <1>3
    DEF IInv, Mounted, Batched, Extends, Written, Publishing

\* The flush before the superblocks.
LEMMA FlushBlocksStep ==
  ASSUME IInv, TypeOK', FlushBlocks PROVE IInv'
  <1>1. /\ pc = "blocks" /\ fence = {} /\ todo = {} /\ pc' = "super"
        /\ mblk' = cblk /\ msup' = csup /\ copy' = 1
        /\ base' = (IF base = "cache" THEN "medium" ELSE base)
        /\ UNCHANGED <<cblk, csup, mem, fence, bgen, work, new, todo, next,
                       acked>>
    BY Zenon DEF FlushBlocks, Flush, IInv, Extends
  <1>2. (base' # "stale") => base # "stale" /\ base' = "medium"
    BY Zenon, <1>1 DEF IInv, TypeOK
  <1>3. Find(msup)' = Find(csup) /\ Find(csup)' = Find(csup)
    BY Zenon, <1>1 DEF Find, IsBest, BestOf
  <1>4. ASSUME base # "stale"
        PROVE  /\ HasBest(csup) /\ mem = Find(csup) /\ Whole(Find(csup).tree, cblk)
               /\ \A c \in Copies : csup[c].gen <= Find(csup).gen
    <2>1. HasBest(csup) /\ mem = Find(csup) /\ Whole(Find(csup).tree, cblk)
      BY Zenon, <1>1, <1>4 DEF IInv, Ahead
    <2> QED BY Zenon, <2>1, FoundIsNewest DEF IInv, TypeOK
  <1>5. Ahead' /\ OnMedium'
    BY Zenon, <1>1, <1>2, <1>3, <1>4
    DEF Ahead, OnMedium, Both, OneMore, HasBest, IsBest, BestOf
  <1>6. Publishing'
    <2>1. ASSUME base # "stale" PROVE \A c \in Copies : csup[c].gen <= new.gen
      <3>1. new.gen >= mem.gen /\ mem.gen \in Nat /\ new.gen \in Nat
        BY Zenon, <1>1 DEF IInv, Extends, TypeOK, Super
      <3>2. \A c \in Copies : csup[c].gen \in Nat /\ csup[c].gen <= mem.gen
        BY Zenon, <1>4, <2>1 DEF IInv, TypeOK, Super
      <3> QED BY <3>1, <3>2
    <2> QED BY Zenon, <1>1, <1>2, <1>3, <1>4, <2>1 DEF Publishing
  <1>7. Written'
    <2>1. Whole(new.tree, cblk)
      BY Zenon, <1>1 DEF IInv, Built, Whole
    <2>2. \A c \in Copies : ~(c < 1)
      BY DEF Copies
    <2> QED BY Zenon, <1>1, <2>1, <2>2 DEF Written, Both
  <1> QED
    BY Zenon, <1>1, <1>5, <1>6, <1>7 DEF IInv, Mounted, Batched, Built, Extends

\* Overwriting a copy in the cache with the new superblock, whether the write
\* is then reported done (WriteSuper) or failed (Fails).
LEMMA NewCopyCached ==
  ASSUME IInv, base # "stale", pc = "super", copy \in Copies,
         csup' = [csup EXCEPT ![copy] = new],
         UNCHANGED <<cblk, mblk, msup, new, base>>
  PROVE  /\ HasBest(csup)' /\ HasBest(msup)' /\ Find(csup)' = new
         /\ OneMore(Find(msup).hist, new.hist) /\ Find(msup)' = Find(msup)
         /\ \A c \in Copies : csup'[c] = msup[c] \/ csup'[c] = new
         /\ \A c \in Copies : csup'[c].gen <= new.gen /\ msup[c].gen <= new.gen
         /\ base = "medium" /\ Both(new.tree)' /\ Both(Find(msup).tree)'
  <1>1. /\ csup \in [Copies -> Super] /\ new \in Super /\ HasBest(csup) /\ HasBest(msup)
        /\ Both(new.tree) /\ Both(Find(msup).tree) /\ base = "medium"
        /\ \A c \in Copies : csup[c] = msup[c] \/ csup[c] = Find(csup)
        /\ \A c \in Copies : csup[c].gen <= new.gen
        /\ \A c \in Copies : msup[c].gen <= Find(csup).gen
        /\ \A c \in Copies : c < copy => csup[c] = new
        /\ copy = 1 => csup = msup /\ mem = Find(csup)
        /\ copy # 1 => Find(csup) = new
        /\ OneMore(Find(msup).hist, Find(csup).hist)
        /\ new.hist = Append(mem.hist, new.hist[Len(mem.hist) + 1])
    BY Zenon DEF IInv, TypeOK, Written, Ahead, OnMedium, Publishing, Extends
  <1>2. /\ csup' \in [Copies -> Super] /\ new.gen \in Nat
        /\ \A c \in Copies : csup'[c] = IF c = copy THEN new ELSE csup[c]
    BY Zenon, <1>1 DEF Super
  <1>3. \A c \in Copies : csup'[c].gen <= new.gen
    BY <1>1, <1>2
  <1>4. 1 \in Copies /\ csup'[1] = new
    <2>1. 1 \in Copies /\ (1 = copy \/ 1 < copy)
      BY CopiesAssumption DEF Copies
    <2> QED BY Zenon, <1>1, <1>2, <2>1
  <1>5. IsBest(1, csup')
    BY <1>2, <1>3, <1>4 DEF IsBest, BestOf, Copies, Super
  <1>6. HasBest(csup') /\ Find(csup') = new
    BY Zenon, <1>2, <1>4, <1>5, BestIsFound DEF HasBest
  <1>7. HasBest(csup)' /\ Find(csup)' = new
    BY Zenon, <1>6 DEF HasBest, Find, IsBest, BestOf
  <1>8. HasBest(msup)' /\ Find(msup)' = Find(msup)
    BY Zenon, <1>1, SameCopies
  <1>9. OneMore(Find(msup).hist, new.hist)
    BY Zenon, <1>1 DEF OneMore
  <1>10. \A c \in Copies : csup'[c] = msup[c] \/ csup'[c] = new
    BY Zenon, <1>1, <1>2
  <1>11. \A c \in Copies : msup[c].gen <= new.gen
    BY Zenon, <1>1
  <1>12. Both(new.tree)' /\ Both(Find(msup).tree)'
    BY Zenon, <1>1, <1>8 DEF Both
  <1> QED BY Zenon, <1>1, <1>3, <1>7, <1>8, <1>9, <1>10, <1>11, <1>12

\* Writing one superblock copy.
LEMMA WriteSuperStep ==
  ASSUME IInv, TypeOK', WriteSuper PROVE IInv'
  <1>1. /\ pc = "super" /\ copy \in Copies
        /\ csup' = [csup EXCEPT ![copy] = new] /\ copy' = copy + 1
        /\ UNCHANGED <<cblk, mblk, msup, pc, mem, fence, bgen, work, new, todo,
                       next, acked, base>>
    BY Zenon DEF WriteSuper
  <1>2. copy' # 1 /\ \A c \in Copies : c < copy' => c < copy \/ c = copy
    BY <1>1 DEF Copies
  <1>3. Written'
    <2>1. \A c \in Copies : c < copy => csup[c] = new
      BY Zenon, <1>1 DEF IInv, Written
    <2>2. \A c \in Copies : c < copy' => csup'[c] = new
      BY Zenon, <1>1, <1>2, <2>1 DEF IInv, TypeOK
    <2> QED BY Zenon, <1>1, <2>2 DEF IInv, Written, Both
  <1>4. Ahead' /\ OnMedium' /\ Publishing'
    <2>1. CASE base = "stale"
      BY Zenon, <1>1, <2>1 DEF Ahead, OnMedium, Publishing
    <2>2. CASE base # "stale"
      <3>1. /\ HasBest(csup)' /\ HasBest(msup)' /\ Find(csup)' = new
            /\ OneMore(Find(msup).hist, new.hist) /\ Find(msup)' = Find(msup)
            /\ \A c \in Copies : csup'[c] = msup[c] \/ csup'[c] = new
            /\ \A c \in Copies : csup'[c].gen <= new.gen /\ msup[c].gen <= new.gen
            /\ base = "medium" /\ Both(new.tree)' /\ Both(Find(msup).tree)'
        BY Zenon, <1>1, <2>2, NewCopyCached
      <3> QED BY Zenon, <1>1, <1>2, <3>1 DEF Ahead, OnMedium, Publishing, Both
    <2> QED BY Zenon, <2>1, <2>2
  <1> QED
    BY Zenon, <1>1, <1>3, <1>4 DEF IInv, Mounted, Batched, Built, Extends

\* The flush after the last copy: every copy is the new superblock.
LEMMA FlushSuperStep ==
  ASSUME IInv, TypeOK', FlushSuper
  PROVE  /\ IInv' /\ Find(msup)' = new
         /\ base # "stale" => OneMore(Find(msup).hist, new.hist)
  <1>1. /\ pc = "super" /\ copy \notin Copies /\ pc' = "idle"
        /\ mblk' = cblk /\ msup' = csup /\ mem' = new /\ base' = "medium"
        /\ UNCHANGED <<cblk, csup, fence, bgen, work, new, todo, copy, next>>
        /\ work = {} /\ Both(new.tree)
    BY Zenon DEF FlushSuper, Flush, IInv, Written, Batched
  <1>2. copy # 1 /\ \A c \in Copies : csup[c] = new
    <2>1. copy # 1 /\ \A c \in Copies : c < copy
      BY <1>1, CopiesAssumption DEF IInv, TypeOK, Copies
    <2> QED BY Zenon, <1>1, <2>1 DEF IInv, Written
  <1>3. HasBest(csup) /\ Find(csup) = new
    BY Zenon, <1>2, AllAlike DEF IInv, TypeOK
  <1>4. /\ Find(csup)' = new /\ Find(msup)' = new
        /\ HasBest(csup)' /\ HasBest(msup)'
    BY Zenon, <1>1, <1>3 DEF Find, HasBest, IsBest, BestOf
  <1>5. new.gen \in Nat /\ \A c \in Copies : csup[c].gen <= new.gen
    <2>1. new.gen \in Nat
      BY Zenon DEF IInv, TypeOK, Super
    <2> QED BY <1>2, <2>1
  <1>6. Mounted' /\ Ahead' /\ OnMedium'
    BY Zenon, <1>1, <1>4, <1>5 DEF Mounted, Ahead, OnMedium, OneMore, Both
  <1>7. Batched'
    <2>1. At({}) = {} /\ Whole({}, cblk)
      BY Zenon DEF At, Whole
    <2>2. bgen \in {0, new.gen}
      BY Zenon, <1>1 DEF IInv, Batched
    <2> QED BY <1>1, <1>5, <2>1, <2>2 DEF Batched
  <1>8. base # "stale" => OneMore(Find(msup).hist, new.hist)
    BY Zenon, <1>1, <1>3 DEF IInv, Ahead
  <1> QED
    BY Zenon, <1>1, <1>4, <1>6, <1>7, <1>8
    DEF IInv, Built, Extends, Written, Publishing

\* A transport error: nothing in memory moves, the volume is fenced.
LEMMA FailsStep ==
  ASSUME IInv, TypeOK', Fails PROVE IInv'
  <1>1. /\ fence = {} /\ pc' = "idle" /\ fence' = {"fenced"} /\ bgen' = 0
        /\ work' = {} /\ mblk' = mblk /\ msup' = msup
        /\ UNCHANGED <<mem, new, copy, next, acked, base>>
    BY Zenon DEF Fails, disk
  <1>2. Batched'
    <2>1. At({}) = {}
      BY Zenon DEF At
    <2> QED BY Zenon, <1>1, <2>1 DEF Batched
  <1>3. Mounted' /\ Built' /\ Extends' /\ Written' /\ Publishing'
    BY Zenon, <1>1 DEF Mounted, Built, Extends, Written, Publishing
  <1>4. CASE cblk' = cblk /\ csup' = csup
    <2>1. Ahead' /\ OnMedium'
      BY Zenon, <1>1, <1>4, SameCopies DEF IInv, Ahead, OnMedium, Both
    <2> QED BY Zenon, <1>2, <1>3, <2>1 DEF IInv
  <1>5. ASSUME NEW b \in Blocks, NEW v \in Nat,
               pc \in {"idle", "blocks"}, b \notin At(mem.tree),
               cblk' = [cblk EXCEPT ![b] = v], csup' = csup
        PROVE  IInv'
    <2>1. Ahead' /\ OnMedium'
      BY Zenon, <1>1, <1>5, BlockWritten
    <2> QED BY Zenon, <1>2, <1>3, <2>1 DEF IInv
  <1>6. CASE /\ pc = "super" /\ copy \in Copies /\ cblk' = cblk
             /\ csup' = [csup EXCEPT ![copy] = new]
    <2>1. CASE base = "stale"
      BY Zenon, <1>1, <1>2, <1>3, <2>1 DEF IInv, Ahead, OnMedium
    <2>2. CASE base # "stale"
      <3>1. /\ HasBest(csup)' /\ HasBest(msup)' /\ Find(csup)' = new
            /\ OneMore(Find(msup).hist, new.hist) /\ Find(msup)' = Find(msup)
            /\ \A c \in Copies : csup'[c] = msup[c] \/ csup'[c] = new
            /\ \A c \in Copies : csup'[c].gen <= new.gen /\ msup[c].gen <= new.gen
            /\ base = "medium" /\ Both(new.tree)' /\ Both(Find(msup).tree)'
        BY Zenon, <1>1, <1>6, <2>2, NewCopyCached
      <3>2. Ahead' /\ OnMedium'
        BY Zenon, <1>1, <3>1 DEF Ahead, OnMedium, Both
      <3> QED BY Zenon, <1>2, <1>3, <3>2 DEF IInv
    <2> QED BY Zenon, <2>1, <2>2
  <1>7. \/ cblk' = cblk /\ csup' = csup
        \/ \E b \in Blocks, v \in Nat :
               /\ pc \in {"idle", "blocks"} /\ b \notin At(mem.tree)
               /\ cblk' = [cblk EXCEPT ![b] = v] /\ csup' = csup
        \/ /\ pc = "super" /\ copy \in Copies /\ cblk' = cblk
           /\ csup' = [csup EXCEPT ![copy] = new]
    <2>1. next - 1 \in Nat
      BY DEF IInv, TypeOK
    <2>2. pc = "blocks" => \A b \in todo : b \in Blocks /\ b \notin At(mem.tree)
      BY Zenon DEF IInv, TypeOK, Built
    <2> QED BY Zenon, <2>1, <2>2 DEF Fails, disk, Free
  <1> QED BY Zenon, <1>4, <1>5, <1>6, <1>7

\* Losing power tears only blocks that the medium does not hold yet.
LEMMA CrashStep ==
  ASSUME IInv, TypeOK', Crash PROVE IInv' /\ Find(msup)' = Find(msup)
  <1>1. /\ cblk' = mblk' /\ csup' = msup /\ msup' = msup /\ pc' = "down"
        /\ fence' = {} /\ bgen' = 0 /\ work' = {}
        /\ base' = IF base = "medium" THEN "medium" ELSE "stale"
    BY Zenon DEF Crash, Down
  <1>2. PICK torn \in SUBSET {b \in Blocks : mblk[b] # cblk[b]} :
          mblk' = [b \in Blocks |-> IF b \in torn THEN 0 ELSE mblk[b]]
    BY Zenon DEF Crash
  <1>3. Find(csup)' = Find(msup) /\ Find(msup)' = Find(msup)
    BY Zenon, <1>1 DEF Find, IsBest, BestOf
  <1>4. Ahead' /\ OnMedium'
    <2>1. CASE base # "medium"
      BY Zenon, <1>1, <2>1 DEF Ahead, OnMedium
    <2>2. CASE base = "medium"
      <3>1. HasBest(msup) /\ Both(Find(msup).tree) /\ msup \in [Copies -> Super]
        BY Zenon, <2>2 DEF IInv, TypeOK, Ahead, OnMedium
      <3>2. /\ Find(msup) \in Super
            /\ \A c \in Copies : msup[c].gen <= Find(msup).gen
        BY Zenon, <3>1, FoundIsNewest
      <3>3. \A p \in Find(msup).tree : p[1] \in Blocks
        BY Zenon, <3>2 DEF Tree, Super
      <3>4. Whole(Find(msup).tree, mblk')
        BY Zenon, <1>2, <3>1, <3>3 DEF Both, Whole
      <3>5. HasBest(csup)' /\ HasBest(msup)'
        BY Zenon, <1>1, <3>1 DEF HasBest, IsBest, BestOf
      <3> QED BY Zenon, <1>1, <1>3, <3>2, <3>4, <3>5 DEF Ahead, OnMedium, Both, OneMore
    <2> QED BY Zenon, <2>1, <2>2
  <1>5. At({}) = {}
    BY Zenon DEF At
  <1> QED
    BY Zenon, <1>1, <1>3, <1>4, <1>5
    DEF IInv, Mounted, Batched, Built, Extends, Written, Publishing

\* The drive stores one superblock copy on its medium.
LEMMA DestageSuperStep ==
  ASSUME IInv, TypeOK', NEW c \in Copies, DestageSuper(c)
  PROVE  /\ IInv'
         /\ base # "stale" => /\ Find(msup)' \in {Find(msup), Find(csup)}
                              /\ OneMore(Find(msup).hist, Find(csup).hist)
  <1>1. /\ msup[c] # csup[c] /\ msup' = [msup EXCEPT ![c] = csup[c]]
        /\ UNCHANGED <<cblk, csup, mblk, pc, mem, fence, bgen, work, new, todo,
                       copy, next, acked, base>>
    BY Zenon DEF DestageSuper
  <1>2. ASSUME base # "stale"
        PROVE  /\ HasBest(msup)' /\ Find(msup)' \in {Find(msup), Find(csup)}
               /\ \A d \in Copies : csup[d] = msup'[d] \/ csup[d] = Find(csup)
               /\ \A d \in Copies : msup'[d].gen <= Find(csup).gen
    <2>1. /\ csup[c] = Find(csup) /\ HasBest(csup) /\ HasBest(msup)
          /\ csup \in [Copies -> Super] /\ msup \in [Copies -> Super]
          /\ \A d \in Copies : csup[d] = msup[d] \/ csup[d] = Find(csup)
          /\ \A d \in Copies : msup[d].gen <= Find(csup).gen
      BY Zenon, <1>1, <1>2 DEF IInv, Ahead, TypeOK
    <2>2. Find(csup) \in Super /\ \A d \in Copies : csup[d].gen <= Find(csup).gen
      BY Zenon, <2>1, FoundIsNewest
    <2>3. HasBest(msup') /\ Find(msup') \in {Find(msup), Find(csup)}
      BY Zenon, <1>1, <2>1, <2>2, OverwriteCopy
    <2>4. HasBest(msup)' /\ Find(msup)' = Find(msup')
      BY Zenon, <2>3 DEF HasBest, Find, IsBest, BestOf
    <2>5. \A d \in Copies : msup'[d] = IF d = c THEN Find(csup) ELSE msup[d]
      BY Zenon, <1>1, <2>1
    <2>6. Find(csup).gen <= Find(csup).gen
      BY <2>2 DEF Super
    <2> QED BY Zenon, <2>1, <2>3, <2>4, <2>5, <2>6
  <1>3. Ahead'
    <2>1. ASSUME base # "stale" PROVE OneMore(Find(msup)'.hist, Find(csup).hist)
      BY Zenon, <1>2, <2>1 DEF IInv, Ahead, OneMore
    <2> QED BY Zenon, <1>1, <1>2, <2>1, SameCopies DEF IInv, Ahead
  <1>4. OnMedium'
    <2>1. base = "medium" => fence # {} \/ pc \notin {"idle", "blocks"}
      BY Zenon, <1>1 DEF IInv, OnMedium
    <2> QED BY Zenon, <1>1, <1>2, <2>1, SameCopies DEF IInv, OnMedium, Both
  <1>5. Publishing'
    BY Zenon, <1>1, SameCopies DEF IInv, Publishing
  <1>6. Mounted' /\ Batched' /\ Built' /\ Extends' /\ Written'
    BY Zenon, <1>1 DEF IInv, Mounted, Batched, Built, Extends, Written, Both
  <1> QED BY Zenon, <1>2, <1>3, <1>4, <1>5, <1>6 DEF IInv, Ahead

\* The drive stores one block on its medium.
LEMMA DestageBlockStep ==
  ASSUME IInv, TypeOK', NEW b \in Blocks, DestageBlock(b) PROVE IInv'
  <1>1. /\ mblk' = [mblk EXCEPT ![b] = cblk[b]]
        /\ UNCHANGED <<cblk, csup, msup, pc, mem, fence, bgen, work, new, todo,
                       copy, next, acked, base>>
    BY Zenon DEF DestageBlock
  <1>2. \A t \in Tree : Both(t) => Whole(t, cblk) /\ Whole(t, mblk')
    BY Zenon, <1>1, Destaged DEF IInv, Both
  <1>3. new.tree \in Tree
    BY Zenon DEF IInv, TypeOK, Super
  <1>4. OnMedium'
    <2>1. base = "medium" => Find(csup).tree \in Tree /\ Find(msup).tree \in Tree
      BY Zenon, FoundIsNewest DEF IInv, TypeOK, Ahead, Super
    <2> QED BY Zenon, <1>1, <1>2, <2>1, SameCopies DEF IInv, OnMedium, Both
  <1>5. Written'
    BY Zenon, <1>1, <1>2, <1>3 DEF IInv, Written, Both
  <1>6. Ahead' /\ Publishing'
    BY Zenon, <1>1, SameCopies DEF IInv, Ahead, Publishing
  <1> QED
    BY Zenon, <1>1, <1>4, <1>5, <1>6 DEF IInv, Mounted, Batched, Built, Extends

\* Mounting what find chose among the copies that could be read.
LEMMA MountStep ==
  ASSUME IInv, TypeOK', NEW read \in SUBSET Copies, NEW c \in Copies, Mount(read, c)
  PROVE  IInv' /\ UNCHANGED <<msup, acked>>
  <1>1. /\ pc = "down" /\ pc' = "idle" /\ Whole(csup[c].tree, cblk) /\ mem' = csup[c]
        /\ UNCHANGED <<cblk, csup, mblk, msup, fence, bgen, work, new, todo, copy,
                       next, acked>>
        /\ work = {} /\ bgen = 0 /\ fence = {}
    BY Zenon DEF Mount, disk, IInv, Batched
  <1>2. base' = IF ~IsBest(c, csup) THEN "stale"
                ELSE IF msup = csup /\ Whole(csup[c].tree, mblk) THEN "medium"
                ELSE IF base = "stale" THEN "stale" ELSE "cache"
    BY Zenon DEF Mount
  <1>3. At({}) = {} /\ Whole({}, cblk)
    BY Zenon DEF At, Whole
  <1>4. Mounted' /\ Batched' /\ Built' /\ Extends' /\ Written' /\ Publishing'
    BY Zenon, <1>1, <1>3 DEF Mounted, Batched, Built, Extends, Written, Publishing
  <1>5. CASE base' = "stale"
    BY Zenon, <1>1, <1>4, <1>5 DEF IInv, Ahead, OnMedium
  <1>6. CASE base' # "stale"
    <2>1. IsBest(c, csup) /\ HasBest(csup) /\ Find(csup) = csup[c]
      <3>1. IsBest(c, csup)
        BY Zenon, <1>2, <1>6
      <3> QED BY Zenon, <3>1, BestIsFound DEF HasBest, IInv, TypeOK
    <2>2. CASE base' = "cache"
      <3>1. base # "stale"
        BY Zenon, <1>2, <2>2
      <3>2. Ahead'
        BY Zenon, <1>1, <2>1, <3>1, SameCopies DEF IInv, Ahead
      <3> QED BY Zenon, <1>1, <1>4, <2>2, <3>2 DEF IInv, OnMedium
    <2>3. CASE base' = "medium"
      <3>1. msup = csup /\ Whole(csup[c].tree, mblk)
        BY Zenon, <1>2, <2>3
      <3>2. \A d \in Copies : csup[d].gen <= Find(csup).gen
        BY Zenon, <2>1, FoundIsNewest DEF IInv, TypeOK
      <3>3. /\ Find(csup)' = csup[c] /\ Find(msup)' = csup[c]
            /\ HasBest(csup)' /\ HasBest(msup)'
        BY Zenon, <1>1, <2>1, <3>1 DEF Find, HasBest, IsBest, BestOf
      <3>4. Ahead' /\ OnMedium'
        BY Zenon, <1>1, <2>1, <3>1, <3>2, <3>3 DEF Ahead, OnMedium, Both, OneMore
      <3> QED BY Zenon, <1>1, <1>4, <3>4 DEF IInv
    <2> QED BY Zenon, <1>2, <1>6, <2>2, <2>3
  <1> QED BY Zenon, <1>1, <1>5, <1>6

\* Giving a file's runs back and closing the volume.
LEMMA QuietStep ==
  ASSUME IInv, TypeOK', Abandon \/ Close \/ UNCHANGED vars
  PROVE  IInv' /\ UNCHANGED <<msup, acked>>
  <1>1. UNCHANGED <<cblk, csup, mblk, msup, acked, mem, new, copy, next, base>>
    BY Zenon DEF Abandon, Close, Down, disk, vars
  <1>2. At({}) = {} /\ Whole({}, cblk)
    BY Zenon DEF At, Whole
  <1>3. CASE Abandon
    BY Zenon, <1>1, <1>2, <1>3, SameCopies
    DEF Abandon, IInv, Mounted, Batched, Built, Extends, Written, Ahead, OnMedium,
        Publishing, Both
  <1>4. CASE Close
    BY Zenon, <1>1, <1>2, <1>4, SameCopies
    DEF Close, Down, IInv, Mounted, Batched, Built, Extends, Written, Ahead,
        OnMedium, Publishing, Both
  <1>5. CASE UNCHANGED vars
    BY Zenon, <1>1, <1>5, SameCopies
    DEF vars, IInv, Mounted, Batched, Built, Extends, Written, Ahead, OnMedium,
        Publishing, Both
  <1> QED BY Zenon, <1>1, <1>3, <1>4, <1>5

\* One more transaction, or none, is what AtomicFs lets the drive gain.
LEMMA OneMoreGrows ==
  ASSUME Find(msup).hist \in Seq(Nat), OneMore(Find(msup).hist, Find(msup)'.hist)
  PROVE  A!Grows
  <1>1. ASSUME NEW h \in Seq(Nat), NEW g, OneMore(h, g)
        PROVE  g = h \/ (Len(g) = Len(h) + 1 /\ \A i \in 1 .. Len(h) : g[i] = h[i])
    BY <1>1 DEF OneMore
  <1> QED BY Zenon, <1>1 DEF A!Grows

\* Every step preserves the invariant and is a step of the atomic filesystem.
LEMMA StepIInv ==
  ASSUME IInv, [Next]_vars
  PROVE  IInv' /\ [A!Next]_<<Find(msup).hist, acked, base = "stale">>
  <1>1. TypeOK'
    BY Zenon, StepTypeOK DEF IInv
  <1>2. (UNCHANGED <<msup, acked>>) => A!Next
    <2>1. (UNCHANGED msup) => Find(msup)' = Find(msup)
      BY Zenon, SameCopies
    <2> QED BY Zenon, <2>1 DEF A!Next, A!Land, A!Grows
  <1>3. base # "stale" => Find(msup).hist \in Seq(Nat)
    BY Zenon, FoundIsNewest DEF IInv, TypeOK, Ahead, Super
  <1>4. ASSUME NEW b \in Blocks, WriteChunk(b)
        PROVE  IInv' /\ UNCHANGED <<msup, acked>>
    BY Zenon, <1>1, <1>4, WriteChunkStep DEF WriteChunk
  <1>5. ASSUME NEW b \in Blocks, WriteBlock(b)
        PROVE  IInv' /\ UNCHANGED <<msup, acked>>
    BY Zenon, <1>1, <1>5, WriteBlockStep DEF WriteBlock
  <1>6. ASSUME NEW freed \in SUBSET mem.tree, NEW meta \in SUBSET Free,
               NEW r \in BOOLEAN, StartCommit(freed, meta, r)
        PROVE  IInv' /\ UNCHANGED <<msup, acked>>
    BY Zenon, <1>1, <1>6, StartCommitStep DEF StartCommit, disk
  <1>7. CASE FlushBlocks
    <2>1. IInv'
      BY Zenon, <1>1, <1>7, FlushBlocksStep
    <2>2. Find(msup)' = Find(csup) /\ UNCHANGED acked
      BY Zenon, <1>7 DEF FlushBlocks, Flush, Find, IsBest, BestOf
    <2>3. base # "stale" => A!Grows
      BY Zenon, <1>3, <2>2, OneMoreGrows DEF IInv, Ahead
    <2> QED BY Zenon, <2>1, <2>2, <2>3 DEF A!Next, A!Land
  <1>8. CASE WriteSuper
    BY Zenon, <1>1, <1>2, <1>8, WriteSuperStep DEF WriteSuper
  <1>9. CASE FlushSuper
    <2>1. /\ IInv' /\ Find(msup)' = new
          /\ base # "stale" => OneMore(Find(msup).hist, new.hist)
      BY Zenon, <1>1, <1>9, FlushSuperStep
    <2>2. base # "stale" => A!Grows
      BY Zenon, <1>3, <2>1, OneMoreGrows
    <2>3. acked' = new.hist
      BY Zenon, <1>9 DEF FlushSuper
    <2> QED BY Zenon, <2>1, <2>2, <2>3 DEF A!Next, A!Ack
  <1>10. CASE Fails
    BY Zenon, <1>1, <1>2, <1>10, FailsStep DEF Fails, disk
  <1>11. CASE Abandon \/ Close \/ UNCHANGED vars
    BY Zenon, <1>1, <1>2, <1>11, QuietStep
  <1>12. ASSUME NEW read \in SUBSET Copies, NEW c \in Copies, Mount(read, c)
         PROVE  IInv' /\ UNCHANGED <<msup, acked>>
    BY Zenon, <1>1, <1>12, MountStep
  <1>13. ASSUME NEW b \in Blocks, DestageBlock(b)
         PROVE  IInv' /\ UNCHANGED <<msup, acked>>
    BY Zenon, <1>1, <1>13, DestageBlockStep DEF DestageBlock
  <1>14. ASSUME NEW c \in Copies, DestageSuper(c)
         PROVE  IInv' /\ A!Next
    <2>1. /\ IInv'
          /\ base # "stale" => /\ Find(msup)' \in {Find(msup), Find(csup)}
                               /\ OneMore(Find(msup).hist, Find(csup).hist)
      BY Zenon, <1>1, <1>14, DestageSuperStep
    <2>2. base # "stale" => OneMore(Find(msup).hist, Find(msup)'.hist)
      BY Zenon, <2>1 DEF OneMore
    <2>3. base # "stale" => A!Grows
      BY Zenon, <1>3, <2>2, OneMoreGrows
    <2> QED BY Zenon, <1>14, <2>1, <2>3 DEF DestageSuper, A!Next, A!Land
  <1>15. CASE Crash
    <2>1. IInv' /\ Find(msup)' = Find(msup)
      BY Zenon, <1>1, <1>15, CrashStep
    <2> QED BY Zenon, <1>15, <2>1 DEF Crash, Down, A!Next, A!Land, A!Grows
  <1> QED
    BY Zenon, <1>2, <1>4, <1>5, <1>6, <1>7, <1>8, <1>9, <1>10, <1>11, <1>12, <1>13,
       <1>14, <1>15
    DEF Next, Host

-------------------------------------------------------------------------------

\* For any blocks and superblock copies, at every moment of any history of
\* commits, transport errors, power losses and reopenings: Superblock::find's
\* choice on the medium has whole trees if the session stands on the medium, and
\* its choice in the cache has unless a newer copy was passed over.
THEOREM AlwaysMountable == Spec => []CrashSafe
  <1>1. IInv /\ [Next]_vars => IInv'
    BY Zenon, StepIInv
  <1>2. IInv => CrashSafe
    BY Zenon DEF IInv, Ahead, OnMedium, Both, CrashSafe
  <1> QED BY InitIInv, <1>1, <1>2, PTL DEF Spec

\* The fence does its work: whichever writes and flushes failed, and however
\* often the volume was reopened, a write that is accepted builds on the state a
\* mount at that moment would choose.
THEOREM BuildsOnWhatIsFound == Spec => []BuiltOnFound
  <1>1. IInv /\ [Next]_vars => IInv'
    BY Zenon, StepIInv
  <1>2. IInv => BuiltOnFound
    BY Zenon DEF IInv, Ahead, BuiltOnFound
  <1> QED BY InitIInv, <1>1, <1>2, PTL DEF Spec

\* commit_transaction is atomic and durable: what a mount would find grows by
\* whole transactions, and holds every one reported done, also across a fence
\* and a reopening on a drive that kept its power.
THEOREM CommitIsAtomic == Spec => Atomic
  <1>1. IInv /\ [Next]_vars => IInv' /\ [A!Next]_<<Find(msup).hist, acked, base = "stale">>
    BY Zenon, StepIInv
  <1>2. Init => A!Init
    <2>1. ASSUME Init PROVE Find(msup) = FirstSuper
      <3>1. TypeOK
        BY Zenon, <2>1, InitIInv DEF IInv
      <3> QED BY Zenon, <2>1, <3>1, AllAlike DEF Init, TypeOK
    <2> QED BY <2>1 DEF Init, A!Init, FirstSuper
  <1> QED BY InitIInv, <1>1, <1>2, PTL DEF Spec, Atomic, A!Spec
===============================================================================
