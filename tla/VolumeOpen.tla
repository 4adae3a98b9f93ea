------------------------------- MODULE VolumeOpen -------------------------------
(* From a block device to a mounted volume: the partition scan                *)
(* (partition/gpt.rs, mbr.rs, mod.rs), the LUKS2 header copies                *)
(* (luks/header.rs), the keyslots (luks/keyslot.rs), the bounds of the volume *)
(* (luks/volume.rs, volume.rs) and the choice of the filesystem               *)
(* (fs/detect.rs), as jni/src/bridge.rs goes through them.  Any read may fail, *)
(* and an open that is refused leaves nothing behind, so it is no step.       *)
EXTENDS Integers, Sequences

CONSTANTS Disks,      \* what a device may hold, see Disk in MCVolumeIo
          Passwords,
          MinHdr,     \* MIN_HDR_SIZE
          MaxHdr,     \* MAX_HDR_SIZE
          ValidHdr,   \* VALID_HDR_SIZES
          None

VARIABLES disk,       \* the device's layout, which never changes
          known,      \* FileDevice.len of the writable device, None before it is open
          table,      \* DeviceHandle.table, None before the scan
          vol         \* the mounted VolumeSource, None before

opening == <<disk, known, table, vol>>

\* What cryptsetup writes: copies of one size, with the same contents when they have
\* the same sequence number.
HeaderCopies(p) ==
  /\ \A j \in 1..2 : LET c == p.copies[j] IN
       /\ c.sound \in BOOLEAN /\ c.seqid \in Nat
       /\ c.sound => /\ c.size \in MinHdr..MaxHdr /\ c.key \in Nat
                     /\ {c.seg.off, c.seg.size, c.seg.iv} \subseteq Nat
  /\ p.copies[1].sound /\ p.copies[2].sound =>
       /\ p.copies[1].size = p.copies[2].size
       /\ p.copies[1].seqid = p.copies[2].seqid => p.copies[1] = p.copies[2]

\* Partitions do not overlap, and one with the LUKS magic has had a header.
ASSUME DisksAssumption ==
  /\ MinHdr \in Nat /\ MaxHdr \in Nat
  /\ \A d \in Disks :
       /\ d.len \in Nat /\ d.align \in Nat /\ DOMAIN d.parts \subseteq Nat
       /\ \A i \in DOMAIN d.parts : LET p == d.parts[i] IN
            /\ p.start \in Nat /\ p.size \in Nat
            /\ p.copies = << >> \/ (DOMAIN p.copies = 1..2 /\ HeaderCopies(p))
            /\ p.magic => p.copies # << >>
       /\ \A i, j \in DOMAIN d.parts : LET p == d.parts[i]
                                           q == d.parts[j]
                                       IN  i = j \/ p.start + p.size <= q.start
                                                 \/ q.start + q.size <= p.start

min(a, b) == IF a <= b THEN a ELSE b
max(a, b) == IF a >= b THEN a ELSE b

\* The reads whose failure the code goes on after, of the scan and of detect_fs; the
\* failure of any other read refuses the open.
TableReads == {"lba0", "lba1", "entries", "named", "last", "probe"}
Signatures == {"btrfs", "ext4"}

-----------------------------------------------------------------------------
(* The partition table.  A GPT copy is "none" when parse_header refuses it,   *)
(* "badents" when only its entry array is damaged.                            *)

parse_at(place, F) == place \notin F /\ disk.gpt[place] = "sound"

\* The primary, the backup its header names, the backup in the last block.
gpt_parse(F) ==
  \/ /\ "lba1" \notin F /\ disk.gpt["lba1"] # "none"
     /\ \/ disk.gpt["lba1"] = "sound" /\ "entries" \notin F
        \/ parse_at("named", F)
  \/ parse_at("last", F)

\* The boot signature is there, no entry protects a GPT and some entry is in use.
mbr_parse(F) ==
  /\ "lba0" \notin F /\ disk.mbr.boot
  /\ \A k \in 1..4 : disk.mbr.types[k] # "gpt"
  /\ \E k \in 1..4 : disk.mbr.types[k] # "empty"

\* The partitions that show the LUKS magic; one that cannot be read does not.
probe_luks(F) == {i \in DOMAIN disk.parts : disk.parts[i].magic /\ "probe" \notin F}

Scan(F) ==
  /\ known # None /\ table = None
  /\ gpt_parse(F) \/ mbr_parse(F)
  /\ table' = [kind |-> IF gpt_parse(F) THEN "gpt" ELSE "mbr", luks |-> probe_luks(F)]
  /\ UNCHANGED <<disk, known, vol>>

-----------------------------------------------------------------------------
(* The header.  A copy has its declared size, whether version, checksum and   *)
(* JSON are right, and what the JSON says.                                    *)

Plausible(size) == size \in MinHdr..MaxHdr

\* How much of the partition read_from fetches for the two copies.
HeaderSpan(copies) == 2 * (IF Plausible(copies[1].size) THEN copies[1].size ELSE MinHdr)

\* The backup lies at its own size: the sizes probed are the one the primary declares
\* and those cryptsetup uses.
find_secondary(copies) ==
  /\ copies[2].sound /\ 2 * copies[2].size <= HeaderSpan(copies)
  /\ copies[2].size \in {n \in {copies[1].size} : Plausible(n)} \cup ValidHdr

\* Fault: a primary that parses is taken.
parse_PrimaryFirst(copies) ==
  IF copies[1].sound THEN 1 ELSE IF find_secondary(copies) THEN 2 ELSE 0

\* Which copy is used, 0 for none.
parse(copies) ==
  IF copies[1].sound
  THEN IF find_secondary(copies) /\ copies[2].seqid > copies[1].seqid THEN 2 ELSE 1
  ELSE IF find_secondary(copies) THEN 2 ELSE 0

\* The keys a password gets out of a header: a slot's key that some digest knows.
Candidates(hdr, pw) ==
  {j \in DOMAIN hdr.slots : /\ hdr.slots[j].kind = "luks2" /\ hdr.slots[j].pw = pw
                            /\ hdr.slots[j].key \in hdr.digests}

\* keyslot::unlock: the first slot that opens.
unlock_key(hdr, pw) ==
  LET C == Candidates(hdr, pw) IN hdr.slots[CHOOSE j \in C : \A k \in C : j <= k].key

\* Fault: the flag is read the wrong way round.
tweak_step_Swapped(seg) == IF seg.large THEN seg.sector \div 2 ELSE 1

\* Segment::tweak_step: the IV counts 512 bytes, two cells, unless the segment
\* has iv-large-sectors.
tweak_step(seg) == IF seg.large THEN 1 ELSE max(seg.sector \div 2, 1)

\* A segment that goes to the end of its partition.
Dynamic == 0

\* What the partition leaves for the segment; None when it begins behind its end.
Room(p, seg) == IF seg.off <= p.size THEN p.size - seg.off ELSE None

\* with_master_key: the room in the partition, or less when the header says so.
\* Without room it is what the header says, and None, no bound, for a dynamic one.
segment_len(seg, room) ==
  IF seg.size = Dynamic THEN room ELSE IF room = None THEN seg.size ELSE min(seg.size, room)

-----------------------------------------------------------------------------
(* The filesystem.                                                            *)

\* What detect_fs sees of the signatures S; a copy that cannot be read is none.
Seen(S, F) == (S \cap Signatures) \ F

\* Ciphertext, and plaintext under another key, shows no signature.
detect_fs(S, F) == IF \E s \in Signatures : Seen(S, F) = {s} THEN CHOOSE s \in Seen(S, F) : TRUE ELSE None

\* bridge.rs unlock on a partition of the list.
Unlock(i, pw, F) ==
  /\ table # None /\ vol = None
  /\ LET p == disk.parts[i] IN
     /\ p.magic /\ parse(p.copies) # 0
     /\ LET hdr == p.copies[parse(p.copies)]
            seg == hdr.seg
        IN  /\ Candidates(hdr, pw) # {}
            /\ seg.cipher = "aes-xts-plain64" /\ seg.sector \in {2, 4, 8, 16}
            /\ LET key == unlock_key(hdr, pw)
                   fs  == detect_fs(IF key = hdr.key THEN p.fs ELSE {}, F)
               IN  /\ fs # None
                   /\ vol' = [part |-> i, luks |-> TRUE, pw |-> pw, key |-> key, fs |-> fs,
                              base |-> p.start + seg.off, len |-> segment_len(seg, Room(p, seg)),
                              sector |-> seg.sector, iv |-> seg.iv, step |-> tweak_step(seg),
                              blind |-> F # {}]
  /\ UNCHANGED <<disk, known, table>>

\* bridge.rs open_plain and PlainVolume::new.
OpenPlain(i, F) ==
  /\ table # None /\ vol = None
  /\ i \notin table.luks
  /\ LET p  == disk.parts[i]
         fs == detect_fs(IF p.copies = << >> THEN p.fs ELSE {}, F)
     IN  /\ p.size > 0 /\ p.start + p.size <= known
         /\ fs # None
         /\ vol' = [part |-> i, luks |-> FALSE, pw |-> None, key |-> 0, fs |-> fs,
                    base |-> p.start, len |-> p.size, sector |-> 1, iv |-> 0, step |-> 0,
                    blind |-> F # {}]
  /\ UNCHANGED <<disk, known, table>>

OpenStep ==
  \/ \E F \in SUBSET TableReads : Scan(F)
  \/ \E i \in DOMAIN disk.parts, F \in SUBSET Signatures :
       OpenPlain(i, F) \/ \E pw \in Passwords : Unlock(i, pw, F)

-----------------------------------------------------------------------------
(* What the opening is for.                                                   *)

\* The sound copies of a partition's header, and the newest of them.
SoundCopies(p) == {j \in DOMAIN p.copies : p.copies[j].sound}
NewestCopy(p)  ==
  p.copies[CHOOSE j \in SoundCopies(p) : \A k \in SoundCopies(p) : p.copies[k].seqid <= p.copies[j].seqid]

\* Whatever is damaged and whichever reads fail: an MBR that protects a GPT is never
\* used as a table, a LUKS partition is never mounted as plain, a LUKS volume is opened
\* by the newest sound header copy, with a password of that copy and the segment's
\* own key, and the filesystem mounted is there.  It is the only one there, unless a
\* read failed while the signatures were looked for: detect_ext4 and
\* Superblock::find take that for an absent signature.
MountedRight ==
  vol # None =>
    LET p == disk.parts[vol.part] IN
    /\ table.kind = "mbr" => \A k \in 1..4 : disk.mbr.types[k] # "gpt"
    /\ vol.luks <=> p.copies # << >>
    /\ vol.luks => /\ \E j \in DOMAIN NewestCopy(p).slots : NewestCopy(p).slots[j].pw = vol.pw
                   /\ vol.key = NewestCopy(p).key
    /\ vol.fs \in p.fs
    /\ ~vol.blind => p.fs \cap Signatures = {vol.fs}

\* with_master_key's comment: the partition's length keeps writes from running off the
\* end of the container.  It does not when the segment begins behind that end.
Contained ==
  vol # None => LET p == disk.parts[vol.part] IN
                vol.len # None /\ vol.base + vol.len <= p.start + p.size
=============================================================================
