-------------------------------- MODULE VolumeIo --------------------------------
(* Reads and writes through a mounted volume down to the positional reads and   *)
(* writes of the file or device node: LuksVolume (luks/volume.rs, keyslot.rs)   *)
(* and PlainVolume (volume.rs) over FileDevice (device.rs).  Addresses count     *)
(* cells of 256 bytes, half an IV unit.  A system call may fail; a write may have *)
(* moved any part of its data first, and spoilt the rest of what it was given.   *)
EXTENDS VolumeOpen

CONSTANTS WriteChunk,   \* WRITE_CHUNK_BYTES in cells
          Requests,     \* [op, off, len, data] the filesystem may make
          Claims,       \* how far expected_len of open_writable may be off
          MaxCalls,     \* bound on the requests
          Modulus,      \* cells hold 0 .. Modulus - 1
          Junk          \* what a failed write may leave in them

ASSUME RequestsAssumption ==
  /\ Modulus \in Nat \ {0} /\ WriteChunk \in Nat /\ Claims \subseteq Int
  /\ Junk \subseteq 0..(Modulus - 1)
  /\ \A r \in Requests : /\ r.op \in {"read", "write"} /\ r.off \in Nat /\ r.len \in Nat
                         /\ r.data \in [1..r.len -> 0..(Modulus - 1)]

ASSUME NoneAssumption == None \notin Int \cup [base : Int, size : Int \cup {None}]

VARIABLES medium,       \* the cells of the device
          req,          \* the request that is being served, or None
          done,         \* cells of it that are written
          job,          \* the pwrite_all in progress [at, data, take], or None
          calls,        \* requests made
          answer,       \* [ok, data] to the last request
          owner         \* history: how the disk's owner reads it

vars == <<opening, owner, medium, req, done, job, calls, answer>>

(* How the disk is read by its owner, from what the headers say alone.       *)

\* The stand-in for AES-XTS depends on everything AES-XTS depends on: the key, the
\* sector's tweak and the place in the sector.
Pad(key, tweak, place) == key + 5 * tweak + place

\* Where partition p's volume lies: the newest sound header's segment, cut to the
\* partition, or the partition.
Extent(p) ==
  IF p.copies = << >> THEN [base |-> p.start, size |-> p.size]
  ELSE LET seg == NewestCopy(p).seg
           rest == p.size - seg.off
       IN  [base |-> p.start + seg.off,
            size |-> IF seg.size = Dynamic \/ seg.size > rest THEN rest ELSE seg.size]

\* dm-crypt's plain64: a sector's IV is the 512-byte unit it begins at, or its number.
PadAt(p, c) ==
  LET hdr == NewestCopy(p)
      rel == c - p.start - hdr.seg.off
      num == rel \div hdr.seg.sector
      iv  == hdr.seg.iv + (IF hdr.seg.large THEN num ELSE (num * hdr.seg.sector) \div 2)
  IN  Pad(hdr.key, iv, rel % hdr.seg.sector)

\* A partition holds a volume unless its header is lost or puts the segment elsewhere.
HoldsVolume(p) ==
  p.copies = << >> \/ (SoundCopies(p) # {} /\ NewestCopy(p).seg.off <= p.size)

\* How the owner of disk d reads it: the pad under each cell, 0 outside the containers.
OwnerOf(d) ==
  LET ps == {i \in DOMAIN d.parts : HoldsVolume(d.parts[i])}
      extent == [i \in ps |-> Extent(d.parts[i])]
      In(c) == {i \in ps : d.parts[i].copies # << >> /\ c - extent[i].base \in 0..(extent[i].size - 1)}
  IN  [extent |-> extent,
       pad |-> [c \in 0..(d.len - 1) |->
                  IF In(c) = {} THEN 0 ELSE PadAt(d.parts[CHOOSE i \in In(c) : TRUE], c)]]

-----------------------------------------------------------------------------

Cells == 0..(disk.len - 1)

Init ==
  /\ disk \in Disks /\ owner = OwnerOf(disk)
  /\ known = None /\ table = None /\ vol = None
  /\ medium = [c \in Cells |-> (c * c + 3) % Modulus]
  /\ req = None /\ done = 0 /\ job = None /\ calls = 0 /\ answer = None

-----------------------------------------------------------------------------
(* FileDevice.                                                                *)

Ceil(n, a) == (n + a - 1) \div a

\* What the file holds of n cells at off: less past its end.
pread(off, n) == [k \in 1..max(0, min(n, disk.len - off)) |-> medium[off + k - 1]]

Aligned(off, n) == disk.align = 0 \/ (off % disk.align = 0 /\ n % disk.align = 0)

\* read_at with read_widened: whole blocks around the range, of which only the part
\* asked for has to be there.  Shorter than n when it is not.
device_read(off, n) ==
  IF Aligned(off, n) THEN pread(off, n)
  ELSE LET start == (off \div disk.align) * disk.align
           got   == pread(start, Ceil(off + n, disk.align) * disk.align - start)
           skip  == off - start
       IN  IF Len(got) < skip + n THEN << >> ELSE SubSeq(got, skip + 1, skip + n)

Patched(buf, skip, data) ==
  [k \in DOMAIN buf |-> IF k - skip \in DOMAIN data THEN data[k - skip] ELSE buf[k]]

\* What write_at hands to pwrite_all; None when the range is past the device or the
\* blocks around it are not all there.
device_write(off, data) ==
  IF off + Len(data) > known THEN None
  ELSE IF Aligned(off, Len(data)) THEN [at |-> off, data |-> data]
  ELSE LET start == (off \div disk.align) * disk.align
           span  == Ceil(off + Len(data), disk.align) * disk.align - start
           got   == pread(start, span)
       IN  IF Len(got) < span THEN None
           ELSE [at |-> start, data |-> Patched(got, off - start, data)]

\* open_writable: the last byte claimed is there and the next cannot be read, be it
\* for another reason.
OpenWritable(expected, fault) ==
  /\ known = None
  /\ expected > 0
  /\ Len(device_read(expected - 1, 1)) = 1
  /\ fault \/ Len(device_read(expected, 1)) < 1
  /\ known' = expected
  /\ UNCHANGED <<disk, owner, table, vol, medium, req, done, job, calls, answer>>

-----------------------------------------------------------------------------
(* The cipher.                                                                *)

\* xts_encrypt with sign 1 and xts_decrypt with -1, over whole sectors.
xts(buf, first_tweak, sign) ==
  [k \in DOMAIN buf |->
     (buf[k] + sign * Pad(vol.key, first_tweak + ((k - 1) \div vol.sector) * vol.step,
                          (k - 1) % vol.sector)) % Modulus]

\* The sectors around n cells at off: the first, the cells they span, and where in
\* them the range begins.
Cover(off, n) ==
  LET first == off \div vol.sector
  IN  [at |-> vol.base + first * vol.sector, tweak |-> vol.iv + first * vol.step,
       span |-> (Ceil(off + n, vol.sector) - first) * vol.sector,
       skip |-> off - first * vol.sector]

InVolume == vol.len # None => req.off + req.len <= vol.len

-----------------------------------------------------------------------------
(* Requests.                                                                  *)

Request(r) ==
  /\ vol # None /\ req = None /\ calls < MaxCalls
  /\ req' = r /\ calls' = calls + 1
  /\ UNCHANGED <<opening, owner, medium, done, job, answer>>

Finish(ok, data) ==
  req' = None /\ job' = None /\ done' = 0 /\ answer' = [ok |-> ok, data |-> data]

\* VolumeSource::read_at; the empty read of a plain volume is range-checked too.
Read ==
  /\ req # None /\ req.op = "read"
  /\ IF vol.luks /\ req.len = 0 THEN Finish(TRUE, << >>)
     ELSE LET c   == Cover(req.off, req.len)
              got == device_read(c.at, c.span)
          IN  /\ InVolume /\ Len(got) = c.span
              /\ Finish(TRUE, SubSeq(IF vol.luks THEN xts(got, c.tweak, -1) ELSE got,
                                     c.skip + 1, c.skip + req.len))
  /\ UNCHANGED <<opening, owner, medium, calls>>

\* How much the next write_at_chunk takes: up to the first sector boundary, then
\* whole sectors, then the rest; everything when it fits one chunk or is not encrypted.
Take ==
  LET at   == req.off + done
      left == req.len - done
      ss   == vol.sector
  IN  IF ~vol.luks \/ req.len <= WriteChunk THEN left
      ELSE IF at % ss # 0 THEN min(ss - (at % ss), left)
      ELSE IF left >= ss THEN min((left \div ss) * ss, (WriteChunk \div ss) * ss)
      ELSE left

\* What write_at_chunk writes and where: whole sectors, fetched first unless the data
\* covers them.
Sectors(off, data) ==
  LET c   == Cover(off, Len(data))
      old == device_read(c.at, c.span)
  IN  IF c.span = Len(data) THEN [at |-> c.at, data |-> xts(data, c.tweak, 1)]
      ELSE IF Len(old) < c.span THEN None
      ELSE [at |-> c.at, data |-> xts(Patched(xts(old, c.tweak, -1), c.skip, data), c.tweak, 1)]

\* The next chunk down to its pwrite_all: check_write_range comes before the first.
WriteAtChunk ==
  /\ req # None /\ req.op = "write" /\ job = None
  /\ done < req.len /\ InVolume
  /\ LET data == SubSeq(req.data, done + 1, done + Take)
         out  == IF vol.luks THEN Sectors(req.off + done, data)
                 ELSE [at |-> vol.base + req.off, data |-> data]
         dev  == IF out = None THEN None ELSE device_write(out.at, out.data)
     IN  /\ dev # None
         /\ job' = [at |-> dev.at, data |-> dev.data, take |-> Take]
  /\ UNCHANGED <<opening, owner, medium, req, done, calls, answer>>

\* One turn of pwrite_all's loop moves n cells.
PWrite(n) ==
  /\ job # None /\ n <= Len(job.data)
  /\ medium' = [c \in Cells |-> IF c - job.at \in 0..(n - 1) THEN job.data[c - job.at + 1] ELSE medium[c]]
  /\ IF n < Len(job.data)
     THEN job' = [job EXCEPT !.at = @ + n, !.data = SubSeq(@, n + 1, Len(@))] /\ UNCHANGED done
     ELSE job' = None /\ done' = done + job.take
  /\ UNCHANGED <<opening, owner, req, calls, answer>>

WriteReturns ==
  /\ req # None /\ req.op = "write" /\ job = None /\ done = req.len
  /\ Finish(TRUE, << >>)
  /\ UNCHANGED <<opening, owner, medium, calls>>

\* A range or length check, or a system call, fails; what is written stays.
Fails ==
  /\ req # None
  /\ Finish(FALSE, << >>)
  /\ UNCHANGED <<opening, owner, medium, calls>>

\* The write fails underway, having spoilt a run of the cells it was to write.
FailsTorn ==
  /\ job # None
  /\ \E lo, hi \in job.at..(job.at + Len(job.data) - 1) :
       /\ lo <= hi
       /\ \E torn \in [lo..hi -> Junk] :
            medium' = [c \in Cells |-> IF c \in lo..hi THEN torn[c] ELSE medium[c]]
  /\ Finish(FALSE, << >>)
  /\ UNCHANGED <<opening, owner, calls>>

Next ==
  \/ \E d \in Claims, fault \in BOOLEAN : OpenWritable(disk.len + d, fault)
  \/ OpenStep /\ UNCHANGED <<owner, medium, req, done, job, calls, answer>>
  \/ \E r \in Requests : Request(r)
  \/ Read \/ WriteAtChunk \/ WriteReturns \/ Fails \/ FailsTorn
  \/ \E n \in 1..disk.len : PWrite(n)

Spec == Init /\ [][Next]_vars

-----------------------------------------------------------------------------
(* Properties.                                                                *)

\* The device as its owner reads it.
Flattened == [c \in Cells |-> (medium[c] - owner.pad[c]) % Modulus]

\* The volume as its owner has it; one its partition does not hold has no size.
Extended == IF vol = None THEN None
            ELSE IF vol.part \in DOMAIN owner.extent THEN owner.extent[vol.part]
            ELSE [base |-> vol.base, size |-> None]

\* The cells of the request, rounded out to cipher sectors and those to device blocks.
Outward(lo, hi) ==
  IF disk.align = 0 THEN lo..(hi - 1)
  ELSE ((lo \div disk.align) * disk.align)..(Ceil(hi, disk.align) * disk.align - 1)

Blocks == IF req = None THEN {}
          ELSE LET c == Cover(req.off, req.len) IN Outward(c.at, c.at + c.span)

F == INSTANCE FlatStore WITH
       flat   <- Flattened,
       extent <- Extended,
       ask    <- req,
       blocks <- Blocks

\* A mounted volume is a flat store: through the widening, the read-modify-write and
\* the chunks of LuksVolume::write_at and FileDevice::write_widened, a write changes only
\* what it names and to what it says, decrypted as dm-crypt does; one that is out of
\* range changes nothing and fails; and a read gives what is there.  A write that
\* fails on the way may spoil bytes it does not name (device.rs write_widened and
\* luks/volume.rs write_at say so), but none outside the cipher sectors and device
\* blocks the request reaches into.  A volume whose header puts the segment behind the
\* end of its partition is exempt: with_master_key leaves it without a bound.
Flat == F!Spec
=============================================================================
