------------------------------- MODULE MCVolumeIo -------------------------------
(* Devices of up to 20 cells.  Every geometry is tried on a sound disk, and      *)
(* damage to the tables, the headers and the signatures on one geometry.         *)
EXTENDS VolumeIo

Seg(off, size, sector, iv, large) ==
  [off |-> off, size |-> size, sector |-> sector, iv |-> iv, large |-> large,
   cipher |-> "aes-xts-plain64"]

Slot(pw, key) == [kind |-> "luks2", pw |-> pw, key |-> key]

\* Slot 1 holds a key that is bound to no segment, slot 2 is of another type.
Copy(sound, size, seqid, seg, pw) ==
  [sound |-> sound, size |-> size, seqid |-> seqid, seg |-> seg, key |-> 4,
   digests |-> {4, 7},
   slots |-> << Slot("other", 7), [kind |-> "reencrypt", pw |-> pw, key |-> 0], Slot(pw, 4) >>]

Luks(start, size, c1, c2, fs) ==
  [start |-> start, size |-> size, magic |-> TRUE, copies |-> <<c1, c2>>, fs |-> fs]

Plain(start, size, fs) ==
  [start |-> start, size |-> size, magic |-> FALSE, copies |-> << >>, fs |-> fs]

Gpt(a, b, c) == [lba1 |-> a, named |-> b, last |-> c]

Disk(len, align, gpt, mbr, parts) ==
  [len |-> len, align |-> align, gpt |-> gpt, mbr |-> mbr, parts |-> parts]

SoundGpt == Gpt("sound", "sound", "sound")

Mbr(a, b) == [boot |-> TRUE, types |-> <<a, b, "empty", "empty">>]
Protective == Mbr("gpt", "empty")

\* Sectors of 512 and 1024 bytes, both ways of counting the IV, fixed sizes that fit
\* and that do not, a container that ends inside a sector, next to another partition
\* or at the end of a device whose last block is cut off, and one past the end.
Geometries == {Seg(3, Dynamic, 2, 0, FALSE), Seg(3, 6, 4, 5, FALSE), Seg(3, 90, 4, 1, TRUE),
               Seg(3, 8, 4, 0, FALSE)}

Sound(seg) ==
  {Disk(len, align, SoundGpt, Protective,
        << Luks(2, 13, Copy(TRUE, 1, 1, seg, "old"), Copy(TRUE, 1, 1, seg, "old"), {"btrfs"}),
           Plain(15, 4, {"ext4"}) >>)
     : len \in {14, 19, 20}, align \in {0, 4}}

\* A header update that reached one copy only changes the password.
Headers ==
  LET seg == Seg(3, Dynamic, 4, 1, FALSE) IN
  {<<Copy(TRUE, 1, 2, seg, "new"), Copy(TRUE, 1, 1, seg, "old")>>,
   <<Copy(TRUE, 1, 1, seg, "old"), Copy(TRUE, 1, 2, seg, "new")>>,
   <<Copy(FALSE, 2, 2, seg, "new"), Copy(TRUE, 2, 1, seg, "old")>>,
   <<Copy(FALSE, 0, 2, seg, "new"), Copy(TRUE, 1, 1, seg, "old")>>,
   <<Copy(FALSE, 0, 2, seg, "new"), Copy(TRUE, 2, 1, seg, "old")>>,
   <<Copy(TRUE, 2, 2, seg, "new"), Copy(FALSE, 2, 1, seg, "old")>>}

WithHeader(h, fs) == << Luks(0, 14, h[1], h[2], fs) >>

AnyHeader == CHOOSE h \in Headers : h[1].sound /\ h[2].sound

DamagedTables ==
  {Disk(14, 0, t[1], t[2], WithHeader(AnyHeader, {"btrfs"}))
     : t \in {SoundGpt, Gpt("badents", "sound", "none"), Gpt("none", "none", "sound")}
               \X {Protective, Mbr("linux", "empty")}
       \cup {Gpt("none", "none", "none")}
               \X {Protective, Mbr("linux", "empty"), Mbr("linux", "gpt"), Mbr("empty", "empty"),
                   [Mbr("linux", "empty") EXCEPT !.boot = FALSE]}}

DamagedVolumes ==
  {Disk(14, 4, SoundGpt, Protective, WithHeader(h, fs))
     : h \in Headers, fs \in {{"btrfs"}, {"btrfs", "ext4"}, {"fat"}}}

\* A segment behind the end of its partition, in the one that follows.
Misplaced ==
  {Disk(19, 4, SoundGpt, Protective,
        << Luks(2, 3, Copy(TRUE, 1, 1, seg, "old"), Copy(TRUE, 1, 1, seg, "old"), {"btrfs"}),
           Plain(5, 12, {"ext4"}) >>)
     : seg \in {Seg(4, Dynamic, 2, 0, FALSE), Seg(4, 6, 2, 0, FALSE)}}

MCDisks == DamagedTables \cup DamagedVolumes \cup Misplaced \cup UNION {Sound(seg) : seg \in Geometries}

MCClaims == -1..1

MCRequests ==
  {[op |-> op, off |-> off, len |-> len, data |-> [k \in 1..len |-> (3 * k + 1) % Modulus]]
     : op \in {"read", "write"}, off \in {0, 1, 3, 4, 6, 9}, len \in {0, 1, 2, 4, 7, 10}}
=============================================================================
