----------------------------- MODULE VolumeIoProofs -----------------------------
(* A mounted volume is opened right and is a flat store, on every disk: the       *)
(* arithmetic of blocks, sectors and IVs, the header that is chosen, and the       *)
(* inductive invariant that relates a write in progress to what the owner of the  *)
(* disk reads.                                                                    *)
EXTENDS VolumeIo, TLAPS

Bytes == 0..(Modulus - 1)

-----------------------------------------------------------------------------
(* Arithmetic.                                                                *)

\* Min and Max of two numbers.
LEMMA MinTwo == ASSUME NEW a \in Int, NEW b \in Int PROVE min(a, b) = IF a <= b THEN a ELSE b
  BY DEF min

LEMMA MaxTwo == ASSUME NEW a \in Int, NEW b \in Int PROVE max(a, b) = IF a >= b THEN a ELSE b
  BY DEF max

\* The block x lies in.
LEMMA Floor ==
  ASSUME NEW x \in Nat, NEW a \in Nat \ {0}
  PROVE  /\ x \div a \in Nat /\ (x \div a) * a \in Nat
         /\ (x \div a) * a <= x /\ x < (x \div a) * a + a
         /\ x % a = x - (x \div a) * a /\ x % a \in 0..(a - 1)
<1> DEFINE q == x \div a
<1>1. q \in Int /\ x % a \in 0..(a - 1) /\ x = q * a + (x % a)
  OBVIOUS
<1> HIDE DEF q
<1>2. q >= 0
  BY <1>1
<1>3. q * a \in Int /\ q * a >= 0
  BY <1>1, <1>2
<1>4. q \in Nat /\ q * a \in Nat /\ q * a <= x /\ x < q * a + a /\ x % a = x - q * a
  BY <1>1, <1>2, <1>3
<1> QED
  BY Zenon, <1>1, <1>4 DEF q

\* The first block boundary from x on.
LEMMA CeilUp ==
  ASSUME NEW x \in Nat, NEW a \in Nat \ {0}
  PROVE  Ceil(x, a) \in Nat /\ Ceil(x, a) * a \in Nat /\ x <= Ceil(x, a) * a /\ Ceil(x, a) * a < x + a
<1>1. PICK y \in Nat : y = x + a - 1
  OBVIOUS
<1>2. y \div a \in Nat /\ (y \div a) * a \in Nat /\ (y \div a) * a <= y /\ y < (y \div a) * a + a
  BY Zenon, Floor
<1>3. Ceil(x, a) = y \div a
  BY Zenon, <1>1 DEF Ceil
<1>4. PICK q \in Nat, m \in Nat : q = y \div a /\ m = (y \div a) * a
  BY Zenon, <1>2
<1>5. x <= m /\ m < x + a
  BY <1>1, <1>2, <1>4
<1> QED
  BY Zenon, <1>2, <1>3, <1>4, <1>5

\* Rounding keeps the order.
LEMMA FloorMono ==
  ASSUME NEW x \in Nat, NEW y \in Nat, x <= y, NEW a \in Nat \ {0}
  PROVE  (x \div a) * a <= (y \div a) * a
<1>1. PICK q \in Nat, r \in Nat : q = x \div a /\ r = y \div a
  BY Zenon, Floor
<1>2. q * a <= x /\ y < r * a + a
  BY Zenon, <1>1, Floor
<1>3. q <= r
  <2>1. SUFFICES ASSUME q >= r + 1 PROVE FALSE
    OBVIOUS
  <2>2. PICK k \in Nat : q = (r + 1) + k
    BY <2>1
  <2>3. q * a = r * a + a + k * a /\ k * a \in Nat /\ r * a \in Nat /\ q * a \in Nat
    BY <2>2
  <2> QED
    BY <1>2, <2>3
<1>4. PICK k \in Nat : r = q + k
  BY <1>3
<1>5. r * a = q * a + k * a /\ k * a \in Nat /\ q * a \in Nat
  BY <1>4
<1>6. q * a <= r * a
  BY <1>5
<1> QED
  BY Zenon, <1>1, <1>6

LEMMA CeilMono ==
  ASSUME NEW x \in Nat, NEW y \in Nat, x <= y, NEW a \in Nat \ {0}
  PROVE  Ceil(x, a) * a <= Ceil(y, a) * a
<1>1. PICK v \in Nat, w \in Nat : v = x + a - 1 /\ w = y + a - 1 /\ v <= w
  OBVIOUS
<1>2. (v \div a) * a <= (w \div a) * a
  BY Zenon, <1>1, FloorMono
<1> QED
  BY Zenon, <1>1, <1>2 DEF Ceil

\* A quotient is the only one with its remainder.
LEMMA DivIs ==
  ASSUME NEW a \in Nat \ {0}, NEW q \in Nat, NEW r \in 0..(a - 1)
  PROVE  (q * a + r) \div a = q /\ (q * a + r) % a = r
<1>1. PICK x \in Nat : x = q * a + r
  <2>1. q * a \in Nat
    OBVIOUS
  <2> QED
    BY <2>1
<1>2. PICK d \in Nat, m \in 0..(a - 1) : d = x \div a /\ m = x % a /\ x = d * a + m
  <2>1. PICK e \in Nat : e = (x \div a) * a
    BY Zenon, Floor
  <2>2. x % a = x - e
    BY Zenon, Floor, <2>1
  <2>3. x = e + (x % a)
    BY <2>1, <2>2
  <2> QED
    BY Zenon, Floor, <2>1, <2>3
<1>3. d = q
  <2>1. ASSUME d < q PROVE FALSE
    <3>1. (q - d) * a >= a
      BY <2>1
    <3>2. (q - d) * a = q * a - d * a
      OBVIOUS
    <3> QED
      BY <1>1, <1>2, <3>1, <3>2
  <2>2. ASSUME d > q PROVE FALSE
    <3>1. (d - q) * a >= a
      BY <2>2
    <3>2. (d - q) * a = d * a - q * a
      OBVIOUS
    <3> QED
      BY <1>1, <1>2, <3>1, <3>2
  <2> QED
    BY <2>1, <2>2
<1>4. m = r
  BY <1>1, <1>2, <1>3
<1> QED
  BY Zenon, <1>1, <1>2, <1>3, <1>4

\* Adding a pad and taking it off again.
LEMMA ModBack ==
  ASSUME NEW v \in Bytes, NEW p \in Int
  PROVE  /\ (v - p) % Modulus \in Bytes /\ (v + p) % Modulus \in Bytes
         /\ (((v - p) % Modulus) + p) % Modulus = v
         /\ (((v + p) % Modulus) - p) % Modulus = v
<1>1. Modulus \in Nat \ {0}
  BY RequestsAssumption
<1>2. PICK M \in Nat \ {0} : M = Modulus
  BY Zenon, <1>1
<1>3. v \in 0..(M - 1)
  BY Zenon, <1>2 DEF Bytes
<1>4. \A x \in Int : \E q \in Int : x % M \in 0..(M - 1) /\ x = q * M + (x % M)
  <2>1. ASSUME NEW x \in Int
        PROVE  x \div M \in Int /\ x % M \in 0..(M - 1) /\ x = (x \div M) * M + (x % M)
    OBVIOUS
  <2> QED
    BY Zenon, <2>1
<1>5. ASSUME NEW x \in Int, NEW q \in Int, NEW w \in 0..(M - 1), x = w + q * M PROVE x % M = w
  <2>1. PICK d \in Int, m \in 0..(M - 1) : m = x % M /\ x = d * M + m
    BY <1>4
  <2>2. (d - q) * M = w - m
    BY <1>5, <2>1
  <2>3. d = q
    <3>1. ASSUME d > q PROVE FALSE
      <4>1. (d - q) * M >= M
        BY <3>1
      <4> QED BY <2>2, <4>1
    <3>2. ASSUME d < q PROVE FALSE
      <4>1. (q - d) * M >= M
        BY <3>2
      <4>2. (q - d) * M = 0 - (d - q) * M
        OBVIOUS
      <4> QED BY <2>2, <4>1, <4>2
    <3> QED BY <3>1, <3>2
  <2>4. m = w
    BY <2>2, <2>3
  <2> QED
    BY <2>1, <2>4
<1>6. (v - p) % M \in 0..(M - 1) /\ (((v - p) % M) + p) % M = v
  <2>1. PICK q \in Int, m \in 0..(M - 1) : m = (v - p) % M /\ v - p = q * M + m
    <3>1. v - p \in Int
      BY <1>3
    <3> QED
      BY <1>4, <3>1
  <2>2. m + p \in Int /\ 0 - q \in Int /\ m + p = v + (0 - q) * M
    BY <1>3, <2>1
  <2>3. (m + p) % M = v
    BY <1>3, <1>5, <2>2
  <2> QED
    BY Zenon, <2>1, <2>3
<1>7. (v + p) % M \in 0..(M - 1) /\ (((v + p) % M) - p) % M = v
  <2>1. PICK q \in Int, m \in 0..(M - 1) : m = (v + p) % M /\ v + p = q * M + m
    <3>1. v + p \in Int
      BY <1>3
    <3> QED
      BY <1>4, <3>1
  <2>2. m - p \in Int /\ 0 - q \in Int /\ m - p = v + (0 - q) * M
    BY <1>3, <2>1
  <2>3. (m - p) % M = v
    BY <1>3, <1>5, <2>2
  <2> QED
    BY Zenon, <2>1, <2>3
<1> QED
  BY Zenon, <1>2, <1>6, <1>7 DEF Bytes

-----------------------------------------------------------------------------
(* FileDevice.                                                                *)

MediumOK == disk.len \in Nat /\ disk.align \in Nat /\ medium \in [Cells -> Bytes]

\* buf is what the medium holds from cell off on.
Copied(buf, off) ==
  /\ buf \in Seq(Bytes) /\ (Len(buf) > 0 => off + Len(buf) <= disk.len)
  /\ \A k \in 1..Len(buf) : buf[k] = medium[off + k - 1]

\* A function on 1..m is a sequence.
LEMMA AsSeq ==
  ASSUME NEW m \in Nat, NEW S, NEW f \in [1..m -> S]
  PROVE  f \in Seq(S) /\ Len(f) = m
  OBVIOUS

\* A positional read copies the medium and falls short only at its end.
LEMMA Pread ==
  ASSUME MediumOK, NEW off \in Nat, NEW n \in Nat
  PROVE  /\ Len(pread(off, n)) \in 0..n /\ Copied(pread(off, n), off)
         /\ n > 0 /\ Len(pread(off, n)) = n => off + n <= disk.len
<1>1. PICK D \in Nat : D = disk.len
  BY Zenon DEF MediumOK
<1>2. PICK m \in Nat : m = max(0, min(n, D - off))
                       /\ m <= n /\ (m > 0 => off + m <= D)
  <2>1. D - off \in Int /\ n \in Int /\ 0 \in Int
    OBVIOUS
  <2>2. PICK w \in Int : w = min(n, D - off) /\ w = IF n <= D - off THEN n ELSE D - off
    <3>1. min(n, D - off) = IF n <= D - off THEN n ELSE D - off
      BY Zenon, MinTwo, <2>1
    <3> QED
      BY Zenon, <2>1, <3>1
  <2>3. max(0, w) = IF 0 >= w THEN 0 ELSE w
    BY Zenon, <2>1, MaxTwo
  <2>4. PICK v \in Nat : v = (IF 0 >= w THEN 0 ELSE w)
    BY <2>2
  <2>5. v <= n /\ (v > 0 => off + v <= D)
    BY <2>2, <2>4
  <2> QED
    BY Zenon, <2>2, <2>3, <2>4, <2>5
<1>3. PICK f : f = [k \in 1..m |-> medium[off + k - 1]]
  BY Zenon
<1>4. ASSUME NEW k \in 1..m PROVE medium[off + k - 1] \in Bytes
  <2>1. off + k - 1 \in 0..(D - 1)
    BY <1>2
  <2> QED
    BY Zenon, <1>1, <2>1 DEF MediumOK, Cells
<1>5. f \in [1..m -> Bytes]
  BY Zenon, <1>3, <1>4
<1>6. f \in Seq(Bytes) /\ Len(f) = m
  BY Zenon, <1>5, AsSeq
<1>7. pread(off, n) = f
  BY Zenon, <1>1, <1>2, <1>3 DEF pread
<1>8. Copied(f, off)
  BY Zenon, <1>1, <1>2, <1>3, <1>6 DEF Copied
<1>9. m \in 0..n /\ (n > 0 /\ m = n => off + n <= D)
  BY <1>2
<1> QED
  BY Zenon, <1>1, <1>6, <1>7, <1>8, <1>9

\* The whole blocks around a range.
LEMMA Widened ==
  ASSUME NEW a \in Nat \ {0}, NEW off \in Nat, NEW n \in Nat
  PROVE  LET start == (off \div a) * a
             span  == Ceil(off + n, a) * a - start
         IN  start \in Nat /\ span \in Nat /\ off - start \in Nat /\ off - start + n <= span
<1>1. PICK b \in Nat : b = (off \div a) * a /\ b <= off
  BY Zenon, Floor
<1>2. PICK e \in Nat : e = Ceil(off + n, a) * a /\ off + n <= e
  <2>1. off + n \in Nat
    OBVIOUS
  <2> QED
    BY Zenon, CeilUp, <2>1
<1>3. e - b \in Nat /\ off - b \in Nat /\ off - b + n <= e - b
  BY <1>1, <1>2
<1> QED
  BY Zenon, <1>1, <1>2, <1>3

\* Part of what was copied.
LEMMA CopiedPart ==
  ASSUME MediumOK, NEW off \in Nat, NEW skip \in Nat, NEW n \in Nat, NEW buf, Copied(buf, off),
         skip + n <= Len(buf)
  PROVE  /\ Copied(SubSeq(buf, skip + 1, skip + n), off + skip)
         /\ Len(SubSeq(buf, skip + 1, skip + n)) = n
<1>1. PICK D \in Nat : D = disk.len
  BY Zenon DEF MediumOK
<1>2. /\ buf \in Seq(Bytes) /\ (Len(buf) > 0 => off + Len(buf) <= D)
      /\ \A k \in 1..Len(buf) : buf[k] = medium[off + k - 1]
  BY Zenon, <1>1 DEF Copied
<1>3. PICK c : c = SubSeq(buf, skip + 1, skip + n)
  BY Zenon
<1>4. PICK L \in Nat : L = Len(buf)
  BY <1>2
<1>5. c \in Seq(Bytes) /\ Len(c) = n /\ \A k \in 1..n : c[k] = buf[skip + k]
  BY <1>2, <1>3
<1>6. ASSUME NEW k \in 1..n PROVE c[k] = medium[off + skip + k - 1]
  <2>1. skip + k \in 1..L /\ off + (skip + k) - 1 = off + skip + k - 1
    BY <1>4
  <2> QED
    BY Zenon, <1>2, <1>4, <1>5, <2>1
<1>7. n > 0 => off + skip + n <= D
  BY <1>2, <1>4
<1>8. Copied(c, off + skip)
  BY Zenon, <1>1, <1>5, <1>6, <1>7 DEF Copied
<1> QED
  BY Zenon, <1>3, <1>5, <1>8

\* read_at: widened or not, a read that gives n cells gives those that were asked for.
LEMMA DeviceRead ==
  ASSUME MediumOK, NEW off \in Nat, NEW n \in Nat, Len(device_read(off, n)) = n
  PROVE  Copied(device_read(off, n), off)
<1>1. CASE Aligned(off, n)
  BY Zenon, <1>1, Pread DEF device_read
<1>2. CASE ~Aligned(off, n)
  <2>1. PICK a \in Nat \ {0} : a = disk.align
    BY Zenon, <1>2 DEF Aligned, MediumOK
  <2>2. PICK start \in Nat, span \in Nat, skip \in Nat :
          /\ start = (off \div a) * a /\ span = Ceil(off + n, a) * a - start /\ skip = off - start
          /\ skip + n <= span
    BY Zenon, Widened
  <2>3. PICK got : got = pread(start, span)
    BY Zenon
  <2>4. Copied(got, start) /\ Len(got) \in 0..span
    BY Zenon, <2>3, Pread
  <2>5. device_read(off, n) = IF Len(got) < skip + n THEN << >> ELSE SubSeq(got, skip + 1, skip + n)
    BY Zenon, <1>2, <2>1, <2>2, <2>3 DEF device_read
  <2>6. CASE Len(got) < skip + n
    <3>1. Copied(<< >>, off)
      <4>1. << >> \in Seq(Bytes) /\ Len(<< >>) = 0 /\ ~(0 > 0) /\ 1..0 = {}
        OBVIOUS
      <4> QED
        BY Zenon, <4>1 DEF Copied
    <3> QED
      BY Zenon, <2>5, <2>6, <3>1
  <2>7. CASE ~(Len(got) < skip + n)
    <3>1. skip + n <= Len(got) /\ start + skip = off
      BY <2>2, <2>4, <2>7
    <3>2. Copied(SubSeq(got, skip + 1, skip + n), start + skip)
      BY Zenon, <2>4, <3>1, CopiedPart
    <3> QED
      BY Zenon, <2>5, <2>7, <3>1, <3>2
  <2> QED
    BY Zenon, <2>6, <2>7
<1> QED
  BY Zenon, <1>1, <1>2

\* A read never gives more than was asked for.
LEMMA DeviceReadLen ==
  ASSUME MediumOK, NEW off \in Nat, NEW n \in Nat
  PROVE  Len(device_read(off, n)) \in 0..n
<1>1. CASE Aligned(off, n)
  BY Zenon, <1>1, Pread DEF device_read
<1>2. CASE ~Aligned(off, n)
  <2>1. PICK a \in Nat \ {0} : a = disk.align
    BY Zenon, <1>2 DEF Aligned, MediumOK
  <2>2. PICK start \in Nat, span \in Nat, skip \in Nat :
          /\ start = (off \div a) * a /\ span = Ceil(off + n, a) * a - start /\ skip = off - start
          /\ skip + n <= span
    BY Zenon, Widened
  <2>3. PICK got : got = pread(start, span)
    BY Zenon
  <2>4. Copied(got, start) /\ Len(got) \in 0..span
    BY Zenon, <2>3, Pread
  <2>5. device_read(off, n) = IF Len(got) < skip + n THEN << >> ELSE SubSeq(got, skip + 1, skip + n)
    BY Zenon, <1>2, <2>1, <2>2, <2>3 DEF device_read
  <2>6. ASSUME ~(Len(got) < skip + n) PROVE Len(SubSeq(got, skip + 1, skip + n)) = n
    <3>1. skip + n <= Len(got)
      BY <2>2, <2>4, <2>6
    <3>2. got \in Seq(Bytes)
      BY Zenon, <2>4 DEF Copied
    <3> QED
      BY <3>1, <3>2
  <2>7. Len(<< >>) \in 0..n /\ n \in 0..n
    OBVIOUS
  <2> QED
    BY Zenon, <2>5, <2>6, <2>7
<1> QED
  BY Zenon, <1>1, <1>2

\* data, put at cell at, gives the cells from off on the values new and leaves the
\* others as they are.
Carries(at, data, off, new) ==
  /\ at \in Nat /\ data \in Seq(Bytes) /\ (Len(data) > 0 => at + Len(data) <= disk.len)
  /\ \A k \in 1..Len(new) : off + k - at \in 1..Len(data)
  /\ \A j \in 1..Len(data) :
       data[j] = IF at + j - off \in 1..Len(new) THEN new[at + j - off] ELSE medium[at + j - 1]

\* data, put at cell at, stays in the blocks around lo..hi - 1.
Reaches(at, data, lo, hi) == \A j \in 1..Len(data) : at + j - 1 \in Outward(lo, hi)

\* A range lies in the blocks around it, and they in those around a larger one.
LEMMA OutwardIs ==
  ASSUME disk.align \in Nat, NEW lo \in Nat, NEW hi \in Nat, lo <= hi
  PROVE  /\ lo..(hi - 1) \subseteq Outward(lo, hi)
         /\ \A l \in Nat, h \in Nat : lo <= l /\ l <= h /\ h <= hi => Outward(l, h) \subseteq Outward(lo, hi)
<1>1. CASE disk.align = 0
  <2>1. \A l, h : Outward(l, h) = l..(h - 1)
    BY Zenon, <1>1 DEF Outward
  <2>2. \A l \in Nat, h \in Nat : lo <= l /\ l <= h /\ h <= hi => l..(h - 1) \subseteq lo..(hi - 1)
    OBVIOUS
  <2> QED
    BY Zenon, <2>1, <2>2
<1>2. CASE disk.align # 0
  <2>1. PICK a \in Nat \ {0} : a = disk.align
    BY Zenon, <1>2
  <2>2. \A l, h : Outward(l, h) = ((l \div a) * a)..(Ceil(h, a) * a - 1)
    BY Zenon, <1>2, <2>1 DEF Outward
  <2>3. PICK b \in Nat, e \in Nat : b = (lo \div a) * a /\ e = Ceil(hi, a) * a /\ b <= lo /\ hi <= e
    BY Zenon, Floor, CeilUp
  <2>4. lo..(hi - 1) \subseteq b..(e - 1)
    BY <2>3
  <2>5. ASSUME NEW l \in Nat, NEW h \in Nat, lo <= l, l <= h, h <= hi
        PROVE  Outward(l, h) \subseteq Outward(lo, hi)
    <3>1. PICK b2 \in Nat, e2 \in Nat : b2 = (l \div a) * a /\ e2 = Ceil(h, a) * a
      BY Zenon, Floor, CeilUp
    <3>2. b <= b2 /\ e2 <= e
      BY Zenon, <2>3, <2>5, <3>1, FloorMono, CeilMono
    <3>3. b2..(e2 - 1) \subseteq b..(e - 1)
      BY <3>2
    <3> QED
      BY Zenon, <2>2, <2>3, <3>1, <3>3
  <2> QED
    BY Zenon, <2>2, <2>3, <2>4, <2>5
<1> QED
  BY Zenon, <1>1, <1>2

IsPatched(p, buf, skip, data, n, m) ==
  /\ p \in Seq(Bytes) /\ Len(p) = n
  /\ \A j \in 1..n : p[j] = IF j - skip \in 1..m THEN data[j - skip] ELSE buf[j]

\* Copying data into a buffer.
LEMMA PatchedIs ==
  ASSUME NEW buf \in Seq(Bytes), NEW skip \in Nat, NEW data \in Seq(Bytes),
         NEW n \in Nat, NEW m \in Nat, n = Len(buf), m = Len(data)
  PROVE  IsPatched(Patched(buf, skip, data), buf, skip, data, n, m)
<1>2. DOMAIN buf = 1..n /\ DOMAIN data = 1..m
  OBVIOUS
<1>3. PICK f : f = [k \in 1..n |-> IF k - skip \in 1..m THEN data[k - skip] ELSE buf[k]]
  BY Zenon
<1>4. (\A k \in 1..n : buf[k] \in Bytes) /\ (\A k \in 1..m : data[k] \in Bytes)
  OBVIOUS
<1>5. f \in [1..n -> Bytes]
  BY Zenon, <1>3, <1>4
<1>6. f \in Seq(Bytes) /\ Len(f) = n
  BY Zenon, <1>5, AsSeq
<1>7. Patched(buf, skip, data) = f
  BY Zenon, <1>2, <1>3 DEF Patched
<1> QED
  BY Zenon, <1>3, <1>6, <1>7 DEF IsPatched

\* write_at: widened or not, pwrite_all is handed the range and what is around it.
LEMMA DeviceWrite ==
  ASSUME MediumOK, known \in Int, known <= disk.len, NEW off \in Nat, NEW new \in Seq(Bytes),
         device_write(off, new) # None
  PROVE  /\ Carries(device_write(off, new).at, device_write(off, new).data, off, new)
         /\ Reaches(device_write(off, new).at, device_write(off, new).data, off, off + Len(new))
<1>1. PICK n \in Nat, D \in Nat : n = Len(new) /\ D = disk.len
  BY DEF MediumOK
<1>2. ~(off + n > known)
  BY Zenon, <1>1 DEF device_write
<1>3. off + n <= D
  BY <1>1, <1>2
<1>4. CASE Aligned(off, n)
  <2>1. device_write(off, new) = [at |-> off, data |-> new]
    BY Zenon, <1>1, <1>2, <1>4 DEF device_write
  <2>2. (\A k \in 1..n : off + k - off \in 1..n) /\ (\A j \in 1..n : off + j - off = j)
    OBVIOUS
  <2>3. Carries(off, new, off, new)
    BY Zenon, <1>1, <1>3, <2>2 DEF Carries
  <2>4. device_write(off, new).at = off /\ device_write(off, new).data = new
    BY <2>1
  <2>5. Reaches(off, new, off, off + n)
    <3>1. /\ off + n \in Nat /\ off <= off + n
          /\ \A j \in 1..n : off + j - 1 \in off..((off + n) - 1)
      OBVIOUS
    <3>2. off..((off + n) - 1) \subseteq Outward(off, off + n)
      BY Zenon, <3>1, OutwardIs DEF MediumOK
    <3> QED
      BY Zenon, <1>1, <3>1, <3>2 DEF Reaches
  <2> QED
    BY Zenon, <1>1, <2>3, <2>4, <2>5
<1>5. CASE ~Aligned(off, n)
  <2>1. PICK a \in Nat \ {0} : a = disk.align
    BY Zenon, <1>5 DEF Aligned, MediumOK
  <2>2. PICK start \in Nat, span \in Nat, skip \in Nat :
          /\ start = (off \div a) * a /\ span = Ceil(off + n, a) * a - start /\ skip = off - start
          /\ skip + n <= span
    BY Zenon, Widened
  <2>3. PICK got : got = pread(start, span)
    BY Zenon
  <2>4. Copied(got, start) /\ Len(got) \in 0..span
    BY Zenon, <2>3, Pread
  <2>5. ~(Len(got) < span) /\ device_write(off, new) = [at |-> start, data |-> Patched(got, skip, new)]
    BY Zenon, <1>1, <1>2, <1>5, <2>1, <2>2, <2>3 DEF device_write
  <2>6. Len(got) = span
    BY <2>4, <2>5
  <2>7. PICK p : p = Patched(got, skip, new)
    BY Zenon
  <2>8. /\ p \in Seq(Bytes) /\ Len(p) = span
        /\ \A j \in 1..span : p[j] = IF j - skip \in 1..n THEN new[j - skip] ELSE got[j]
    <3>1. got \in Seq(Bytes)
      BY Zenon, <2>4 DEF Copied
    <3>2. span = Len(got) /\ n = Len(new)
      BY Zenon, <1>1, <2>6
    <3>3. IsPatched(p, got, skip, new, span, n)
      BY Zenon, <2>7, <3>1, <3>2, PatchedIs
    <3> QED
      BY Zenon, <3>3 DEF IsPatched
  <2>9. /\ span > 0 => start + span <= D
        /\ \A j \in 1..span : got[j] = medium[start + j - 1]
    BY Zenon, <1>1, <2>4, <2>6 DEF Copied
  <2>10. (\A k \in 1..n : off + k - start \in 1..span) /\ (\A j \in 1..span : start + j - off = j - skip)
    BY <2>2
  <2>11. Carries(start, p, off, new)
    BY Zenon, <1>1, <2>8, <2>9, <2>10 DEF Carries
  <2>12. device_write(off, new).at = start /\ device_write(off, new).data = p
    BY <2>5, <2>7
  <2>13. Reaches(start, p, off, off + n)
    <3>1. PICK e \in Nat : e = Ceil(off + n, a) * a
      <4>1. off + n \in Nat
        OBVIOUS
      <4> QED
        BY Zenon, <4>1, CeilUp
    <3>2. span = e - start
      BY Zenon, <2>2, <3>1
    <3>3. \A j \in 1..span : start + j - 1 \in start..(e - 1)
      BY <3>2
    <3>4. Outward(off, off + n) = start..(e - 1)
      <4>1. disk.align # 0
        BY <2>1
      <4> QED
        BY Zenon, <2>1, <2>2, <3>1, <4>1 DEF Outward
    <3> QED
      BY Zenon, <2>8, <3>3, <3>4 DEF Reaches
  <2> QED
    BY Zenon, <1>1, <2>11, <2>12, <2>13
<1> QED
  BY Zenon, <1>4, <1>5

-----------------------------------------------------------------------------
(* The cipher.                                                                *)

VolTyped ==
  /\ vol.sector \in Nat \ {0} /\ vol.base \in Nat
  /\ vol.key \in Nat /\ vol.iv \in Nat /\ vol.step \in Nat

\* The pad under cell r of the container.
SectorPad(r) == Pad(vol.key, vol.iv + (r \div vol.sector) * vol.step, r % vol.sector)

\* A cell's pad does not depend on where the buffer begins, as long as that is a sector.
LEMMA PadPlace ==
  ASSUME VolTyped, NEW first \in Nat, NEW j \in Nat
  PROVE  /\ Pad(vol.key, vol.iv + first * vol.step + (j \div vol.sector) * vol.step, j % vol.sector)
              = SectorPad(first * vol.sector + j)
         /\ SectorPad(first * vol.sector + j) \in Int
<1>1. PICK s \in Nat \ {0}, iv \in Nat, step \in Nat, key \in Nat :
        s = vol.sector /\ iv = vol.iv /\ step = vol.step /\ key = vol.key
  BY Zenon DEF VolTyped
<1>2. PICK q \in Nat, m \in 0..(s - 1) : q = j \div s /\ m = j % s /\ j = q * s + m
  <2>1. PICK e \in Nat : e = (j \div s) * s
    BY Zenon, Floor
  <2>2. j % s = j - e
    BY Zenon, Floor, <2>1
  <2>3. j = e + (j % s)
    BY <2>1, <2>2
  <2> QED
    BY Zenon, Floor, <2>1, <2>3
<1>3. PICK g \in Nat : g = first + q
  OBVIOUS
<1>4. first * s + j = g * s + m
  <2>1. (first + q) * s = first * s + q * s
    OBVIOUS
  <2>2. first * s \in Int /\ q * s \in Int
    OBVIOUS
  <2> QED
    BY <1>2, <1>3, <2>1, <2>2
<1>5. (g * s + m) \div s = g /\ (g * s + m) % s = m
  BY Zenon, DivIs
<1>6. iv + first * step + q * step = iv + g * step
  <2>1. (first + q) * step = first * step + q * step
    OBVIOUS
  <2>2. first * step \in Int /\ q * step \in Int
    OBVIOUS
  <2> QED
    BY <1>3, <2>1, <2>2
<1>7. SectorPad(first * vol.sector + j) = Pad(key, iv + g * step, m)
  BY Zenon, <1>1, <1>4, <1>5 DEF SectorPad
<1>8. Pad(key, iv + g * step, m) \in Int
  <2>1. g * step \in Int
    OBVIOUS
  <2> QED
    BY <2>1 DEF Pad
<1> QED
  BY Zenon, <1>1, <1>2, <1>6, <1>7, <1>8

\* x is buf under the pads from cell r on.
IsXts(x, buf, r, n, sign) ==
  /\ x \in Seq(Bytes) /\ Len(x) = n
  /\ \A j \in 1..n : x[j] = (buf[j] + sign * SectorPad(r + (j - 1))) % Modulus

\* xts_encrypt and xts_decrypt over the sectors from first on.
LEMMA XtsIs ==
  ASSUME VolTyped, NEW buf \in Seq(Bytes), NEW n \in Nat, n = Len(buf), NEW first \in Nat,
         NEW sign \in {1, -1}
  PROVE  IsXts(xts(buf, vol.iv + first * vol.step, sign), buf, first * vol.sector, n, sign)
<1>1. DOMAIN buf = 1..n /\ \A k \in 1..n : buf[k] \in Bytes
  OBVIOUS
<1>2. PICK x : x = [k \in 1..n |-> (buf[k] + sign * SectorPad(first * vol.sector + (k - 1))) % Modulus]
  BY Zenon
<1>3. ASSUME NEW k \in 1..n
      PROVE  /\ Pad(vol.key, vol.iv + first * vol.step + ((k - 1) \div vol.sector) * vol.step,
                     (k - 1) % vol.sector) = SectorPad(first * vol.sector + (k - 1))
             /\ (buf[k] + sign * SectorPad(first * vol.sector + (k - 1))) % Modulus \in Bytes
  <2>1. k - 1 \in Nat
    OBVIOUS
  <2>2. PICK p \in Int : p = SectorPad(first * vol.sector + (k - 1))
    BY Zenon, PadPlace, <2>1
  <2>3. PICK v \in Bytes : v = buf[k]
    BY Zenon, <1>1
  <2>4. (v + sign * p) % Modulus \in Bytes
    BY <2>3, RequestsAssumption DEF Bytes
  <2> QED
    BY Zenon, PadPlace, <2>1, <2>2, <2>3, <2>4
<1>4. x \in [1..n -> Bytes]
  BY Zenon, <1>2, <1>3
<1>5. x \in Seq(Bytes) /\ Len(x) = n
  BY Zenon, <1>4, AsSeq
<1>6. xts(buf, vol.iv + first * vol.step, sign) = x
  BY Zenon, <1>1, <1>2, <1>3 DEF xts
<1>7. IsXts(x, buf, first * vol.sector, n, sign)
  BY Zenon, <1>2, <1>5 DEF IsXts
<1> QED
  BY Zenon, <1>6, <1>7

\* The sectors around n cells at off of the container.
LEMMA CoverIs ==
  ASSUME VolTyped, NEW off \in Nat, NEW n \in Nat
  PROVE  \E first \in Nat, r \in Nat, span \in Nat, skip \in Nat :
           /\ r = first * vol.sector /\ r + skip = off /\ skip + n <= span
           /\ Cover(off, n) = [at |-> vol.base + r, tweak |-> vol.iv + first * vol.step,
                               span |-> span, skip |-> skip]
<1>1. PICK s \in Nat \ {0} : s = vol.sector
  BY Zenon DEF VolTyped
<1>2. PICK first \in Nat, r \in Nat : first = off \div s /\ r = first * s
  BY Zenon, Floor
<1>3. PICK last \in Nat : last = Ceil(off + n, s)
  <2>1. off + n \in Nat
    OBVIOUS
  <2> QED
    BY Zenon, CeilUp, <2>1
<1>4. PICK skip \in Nat, span \in Nat : skip = off - r /\ span = last * s - r /\ skip + n <= span
  <2>1. /\ off - (off \div s) * s \in Nat /\ Ceil(off + n, s) * s - (off \div s) * s \in Nat
        /\ off - (off \div s) * s + n <= Ceil(off + n, s) * s - (off \div s) * s
    BY Zenon, Widened
  <2> QED
    BY Zenon, <1>2, <1>3, <2>1
<1>5. (last - first) * s = span
  <2>1. (last - first) * s = last * s - first * s
    OBVIOUS
  <2> QED
    BY Zenon, <1>2, <1>4, <2>1
<1>6. Cover(off, n) = [at |-> vol.base + r, tweak |-> vol.iv + first * vol.step,
                       span |-> span, skip |-> skip]
  BY Zenon, <1>1, <1>2, <1>3, <1>4, <1>5 DEF Cover
<1>7. r + skip = off
  BY <1>4
<1>8. r = first * vol.sector /\ r + skip = off /\ skip + n <= span
  BY Zenon, <1>1, <1>2, <1>4, <1>7
<1> QED
  BY ZenonT(30), <1>6, <1>8

\* The pad a mounted volume has under its cell r.
PadUnder(r) == IF vol.luks THEN SectorPad(r) ELSE 0

\* The value for cell c of the medium, which is the k-th from off of the volume on.
Cell(k, c, off, new) ==
  IF k \in 1..Len(new) THEN (new[k] + PadUnder(off + (k - 1))) % Modulus ELSE medium[c]

\* data, put at cell at, gives the cells from off of the volume on the values new,
\* under their pads, and leaves the others as they are.
Ciphers(at, data, off, new) ==
  /\ at \in Nat /\ data \in Seq(Bytes)
  /\ \A k \in 1..Len(new) : vol.base + off + k - at \in 1..Len(data)
  /\ \A j \in 1..Len(data) : data[j] = Cell(at + j - (vol.base + off), at + j - 1, off, new)

\* write_at_chunk: the sectors that go out hold the new cells and, around them, what
\* the medium holds already.
LEMMA SectorsAre ==
  ASSUME MediumOK, VolTyped, vol.luks, NEW off \in Nat, NEW new \in Seq(Bytes),
         Sectors(off, new) # None
  PROVE  /\ Ciphers(Sectors(off, new).at, Sectors(off, new).data, off, new)
         /\ Sectors(off, new).at = Cover(off, Len(new)).at
         /\ Len(Sectors(off, new).data) = Cover(off, Len(new)).span
<1>1. PICK n \in Nat : n = Len(new)
  OBVIOUS
<1>2. PICK first \in Nat, r \in Nat, span \in Nat, skip \in Nat :
           /\ r = first * vol.sector /\ r + skip = off /\ skip + n <= span
           /\ Cover(off, n) = [at |-> vol.base + r, tweak |-> vol.iv + first * vol.step,
                               span |-> span, skip |-> skip]
  BY ZenonT(60), CoverIs
<1>3. PICK c : c = Cover(off, n)
  BY Zenon
<1>4. PICK at \in Nat, b \in Nat : b = vol.base /\ at = b + r /\ c.at = at
  <2>1. PICK b \in Nat : b = vol.base
    BY Zenon DEF VolTyped
  <2>2. c.at = b + r /\ b + r \in Nat
    BY <1>2, <1>3, <2>1
  <2> QED
    BY Zenon, <2>1, <2>2
<1>5. c.tweak = vol.iv + first * vol.step /\ c.span = span /\ c.skip = skip
  BY <1>2, <1>3
<1>6. \A j \in Nat : at + j - (b + off) = j - skip
  <2>1. r + skip = off /\ at = b + r
    BY Zenon, <1>2, <1>4
  <2> QED
    BY <2>1
<1>7. \A k \in 1..n : b + off + k - at \in 1..span
  <2>1. r + skip = off /\ at = b + r /\ skip + n <= span
    BY Zenon, <1>2, <1>4
  <2> QED
    BY <2>1
<1>8. CASE span = n
  <2>1. skip = 0
    BY <1>2, <1>8
  <2>2. PICK x : x = xts(new, c.tweak, 1)
    BY Zenon
  <2>3. IsXts(x, new, r, n, 1)
    BY Zenon, <1>1, <1>2, <1>5, <2>2, XtsIs
  <2>4. Sectors(off, new) = [at |-> at, data |-> x]
    BY Zenon, <1>1, <1>3, <1>4, <1>5, <1>8, <2>2 DEF Sectors
  <2>5. ASSUME NEW j \in 1..n
        PROVE  /\ at + j - (b + off) = j /\ x[j] = (new[j] + PadUnder(off + (j - 1))) % Modulus
    <3>1. j \in Nat /\ j - skip = j /\ r = off
      BY <1>2, <2>1
    <3>2. x[j] = (new[j] + 1 * SectorPad(off + (j - 1))) % Modulus
      BY Zenon, <2>3, <3>1 DEF IsXts
    <3>3. SectorPad(off + (j - 1)) \in Int
      <4>1. j - 1 \in Nat
        OBVIOUS
      <4> QED
        BY Zenon, <1>2, <3>1, <4>1, PadPlace
    <3>4. 1 * SectorPad(off + (j - 1)) = SectorPad(off + (j - 1))
      BY <3>3
    <3> QED
      BY Zenon, <1>6, <3>1, <3>2, <3>4 DEF PadUnder
  <2>6. Ciphers(at, x, off, new)
    <3>1. x \in Seq(Bytes) /\ Len(x) = n
      BY Zenon, <2>3 DEF IsXts
    <3>2. ASSUME NEW j \in 1..n, NEW k, k = at + j - (b + off)
          PROVE  x[j] = IF k \in 1..n THEN (new[k] + PadUnder(off + (k - 1))) % Modulus
                        ELSE medium[at + j - 1]
      BY Zenon, <2>5, <3>2
    <3> QED
      BY Zenon, <1>1, <1>4, <1>7, <1>8, <3>1, <3>2 DEF Ciphers, Cell
  <2>7. Sectors(off, new).at = at /\ Sectors(off, new).data = x
    BY <2>4
  <2>8. Len(x) = span
    BY Zenon, <1>8, <2>3 DEF IsXts
  <2> QED
    BY Zenon, <1>1, <1>3, <1>4, <1>5, <2>6, <2>7, <2>8
<1>9. CASE span # n
  <2>1. PICK old : old = device_read(at, span)
    BY Zenon
  <2>2. ~(Len(old) < span)
    BY Zenon, <1>1, <1>3, <1>4, <1>5, <1>9, <2>1 DEF Sectors
  <2>3. Len(old) = span /\ Copied(old, at)
    <3>1. Len(old) \in 0..span
      BY Zenon, <2>1, DeviceReadLen
    <3>2. Len(old) = span
      BY <2>2, <3>1
    <3> QED
      BY Zenon, <2>1, <3>2, DeviceRead
  <2>4. old \in Seq(Bytes) /\ span = Len(old)
    BY Zenon, <2>3 DEF Copied
  <2>5. PICK dec : dec = xts(old, c.tweak, -1)
    BY Zenon
  <2>6. IsXts(dec, old, r, span, -1)
    BY Zenon, <1>2, <1>5, <2>4, <2>5, XtsIs
  <2>7. PICK pat : pat = Patched(dec, skip, new)
    BY Zenon
  <2>8. IsPatched(pat, dec, skip, new, span, n)
    <3>1. dec \in Seq(Bytes) /\ span = Len(dec)
      BY Zenon, <2>6 DEF IsXts
    <3> QED
      BY Zenon, <1>1, <2>7, <3>1, PatchedIs
  <2>9. PICK x : x = xts(pat, c.tweak, 1)
    BY Zenon
  <2>10. IsXts(x, pat, r, span, 1)
    <3>1. pat \in Seq(Bytes) /\ span = Len(pat)
      BY Zenon, <2>8 DEF IsPatched
    <3> QED
      BY Zenon, <1>2, <1>5, <2>9, <3>1, XtsIs
  <2>11. Sectors(off, new) = [at |-> at, data |-> x]
    BY Zenon, <1>1, <1>3, <1>4, <1>5, <1>9, <2>1, <2>2, <2>5, <2>7, <2>9 DEF Sectors
  <2>12. ASSUME NEW j \in 1..span
         PROVE  x[j] = IF j - skip \in 1..n THEN (new[j - skip] + PadUnder(off + (j - skip - 1))) % Modulus
                       ELSE medium[at + j - 1]
    <3>1. PICK p \in Int : p = SectorPad(r + (j - 1))
      <4>1. j - 1 \in Nat
        OBVIOUS
      <4> QED
        BY Zenon, <1>2, <4>1, PadPlace
    <3>2. x[j] = (pat[j] + 1 * p) % Modulus /\ dec[j] = (old[j] + (-1) * p) % Modulus
      BY Zenon, <2>6, <2>10, <3>1 DEF IsXts
    <3>3. CASE j - skip \in 1..n
      <4>1. pat[j] = new[j - skip]
        BY Zenon, <2>8, <3>3 DEF IsPatched
      <4>2. off + (j - skip - 1) = r + (j - 1) /\ 1 * p = p
        <5>1. r + skip = off /\ p \in Int
          BY Zenon, <1>2, <3>1
        <5> QED
          BY <5>1
      <4> QED
        BY Zenon, <3>1, <3>2, <3>3, <4>1, <4>2 DEF PadUnder
    <3>4. CASE j - skip \notin 1..n
      <4>1. pat[j] = dec[j]
        BY Zenon, <2>8, <3>4 DEF IsPatched
      <4>2. PICK v \in Bytes : v = old[j]
        BY <2>4
      <4>3. v + (-1) * p = v - p /\ 1 * p = p
        BY <4>2 DEF Bytes
      <4>4. (((v - p) % Modulus) + p) % Modulus = v
        BY Zenon, ModBack
      <4>5. old[j] = medium[at + j - 1]
        BY Zenon, <2>3 DEF Copied
      <4> QED
        BY Zenon, <3>2, <3>4, <4>1, <4>2, <4>3, <4>4, <4>5
    <3> QED
      BY Zenon, <3>3, <3>4
  <2>13. \A j \in 1..span : at + j - (b + off) = j - skip
    <3>1. \A j \in 1..span : j \in Nat
      OBVIOUS
    <3> QED
      BY Zenon, <1>6, <3>1
  <2>14. Ciphers(at, x, off, new)
    <3>1. x \in Seq(Bytes) /\ Len(x) = span
      BY Zenon, <2>10 DEF IsXts
    <3>2. ASSUME NEW j \in 1..span, NEW k, k = at + j - (b + off)
          PROVE  x[j] = IF k \in 1..n THEN (new[k] + PadUnder(off + (k - 1))) % Modulus
                        ELSE medium[at + j - 1]
      BY Zenon, <2>12, <2>13, <3>2
    <3> QED
      BY Zenon, <1>1, <1>4, <1>7, <3>1, <3>2 DEF Ciphers, Cell
  <2>15. Sectors(off, new).at = at /\ Sectors(off, new).data = x
    BY <2>11
  <2>16. Len(x) = span
    BY Zenon, <2>10 DEF IsXts
  <2> QED
    BY Zenon, <1>1, <1>3, <1>4, <1>5, <2>14, <2>15, <2>16
<1> QED
  BY Zenon, <1>8, <1>9

-----------------------------------------------------------------------------
(* The header.                                                                *)

\* The newest of the sound copies is one of them.
LEMMA NewestIsSound ==
  ASSUME NEW p, DOMAIN p.copies = 1..2, HeaderCopies(p), SoundCopies(p) # {}
  PROVE  \E j \in SoundCopies(p) : /\ NewestCopy(p) = p.copies[j] /\ j \in 1..2
                                   /\ \A k \in SoundCopies(p) : p.copies[k].seqid <= p.copies[j].seqid
<1>1. SoundCopies(p) \subseteq 1..2 /\ \A j \in 1..2 : p.copies[j].seqid \in Nat
  BY Zenon DEF SoundCopies, HeaderCopies
<1>2. PICK j0 : j0 \in SoundCopies(p)
  BY Zenon
<1>3. PICK a \in Nat, b \in Nat : a = p.copies[1].seqid /\ b = p.copies[2].seqid
  BY <1>1
<1>4. \E j \in SoundCopies(p) : \A k \in SoundCopies(p) : p.copies[k].seqid <= p.copies[j].seqid
  <2>1. j0 = 1 \/ j0 = 2
    BY <1>1, <1>2
  <2>2. \A k \in SoundCopies(p) : k = 1 \/ k = 2
    BY <1>1
  <2>3. a <= b \/ b <= a
    OBVIOUS
  <2>4. a <= a /\ b <= b
    OBVIOUS
  <2>5. CASE 1 \in SoundCopies(p) /\ 2 \in SoundCopies(p)
    BY Zenon, <1>3, <2>2, <2>3, <2>4, <2>5
  <2>6. CASE 1 \notin SoundCopies(p)
    BY Zenon, <1>2, <1>3, <2>1, <2>2, <2>4, <2>6
  <2>7. CASE 2 \notin SoundCopies(p)
    BY Zenon, <1>2, <1>3, <2>1, <2>2, <2>4, <2>7
  <2> QED
    BY Zenon, <2>5, <2>6, <2>7
<1>5. PICK j : j = CHOOSE i \in SoundCopies(p) :
                     \A k \in SoundCopies(p) : p.copies[k].seqid <= p.copies[i].seqid
  BY Zenon
<1>6. j \in SoundCopies(p) /\ \A k \in SoundCopies(p) : p.copies[k].seqid <= p.copies[j].seqid
  BY Zenon, <1>4, <1>5
<1>7. NewestCopy(p) = p.copies[j]
  BY Zenon, <1>5 DEF NewestCopy
<1> QED
  BY Zenon, <1>1, <1>6, <1>7

\* parse takes the newest sound copy.
LEMMA ParseNewest ==
  ASSUME NEW p, DOMAIN p.copies = 1..2, HeaderCopies(p), parse(p.copies) # 0
  PROVE  p.copies[parse(p.copies)] = NewestCopy(p) /\ SoundCopies(p) # {}
<1>1. PICK c1, c2 : c1 = p.copies[1] /\ c2 = p.copies[2]
  BY Zenon
<1>2. /\ c1.sound \in BOOLEAN /\ c2.sound \in BOOLEAN /\ c1.seqid \in Nat /\ c2.seqid \in Nat
      /\ c1.sound => c1.size \in MinHdr..MaxHdr
      /\ c1.sound /\ c2.sound => c1.size = c2.size /\ (c1.seqid = c2.seqid => c1 = c2)
  <2>1. 1 \in 1..2 /\ 2 \in 1..2
    OBVIOUS
  <2> QED
    BY Zenon, <1>1, <2>1 DEF HeaderCopies
<1>3. c1.sound /\ c2.sound => find_secondary(p.copies)
  <2>1. SUFFICES ASSUME c1.sound, c2.sound PROVE find_secondary(p.copies)
    BY Zenon
  <2>2. PICK n \in Nat : n = c1.size /\ n = c2.size /\ n \in MinHdr..MaxHdr
    BY <1>2, <2>1, DisksAssumption
  <2>3. 2 * n <= 2 * n
    OBVIOUS
  <2>4. n \in {m \in {n} : Plausible(m)} \cup ValidHdr
    BY Zenon, <2>2 DEF Plausible
  <2> QED
    BY Zenon, <1>1, <2>1, <2>2, <2>3, <2>4 DEF find_secondary, HeaderSpan, Plausible
<1>4. PICK q : q = parse(p.copies)
  BY Zenon
<1>5. q = 1 \/ q = 2
  BY Zenon, <1>4 DEF parse
<1>6. /\ q = 1 => c1.sound /\ (c2.sound => ~(c2.seqid > c1.seqid))
      /\ q = 2 => c2.sound /\ (c1.sound => c2.seqid > c1.seqid)
  <2>1. 1 # 2
    OBVIOUS
  <2> QED
    BY Zenon, <1>1, <1>2, <1>3, <1>4, <1>5, <2>1 DEF parse, find_secondary
<1>7. SoundCopies(p) = {j \in 1..2 : p.copies[j].sound}
  BY Zenon DEF SoundCopies
<1>8. (1 \in SoundCopies(p) <=> c1.sound) /\ (2 \in SoundCopies(p) <=> c2.sound) /\ q \in SoundCopies(p)
  <2>1. 1 \in 1..2 /\ 2 \in 1..2
    OBVIOUS
  <2> QED
    BY Zenon, <1>1, <1>5, <1>6, <1>7, <2>1
<1>9. PICK j \in SoundCopies(p) : /\ NewestCopy(p) = p.copies[j] /\ j \in 1..2
                                  /\ \A k \in SoundCopies(p) : p.copies[k].seqid <= p.copies[j].seqid
  BY Zenon, <1>8, NewestIsSound
<1>10. CASE j = q
  BY Zenon, <1>4, <1>8, <1>9, <1>10
<1>11. CASE j # q
  <2>1. (j = 1 /\ q = 2) \/ (j = 2 /\ q = 1)
    BY <1>5, <1>9, <1>11
  <2>2. c1.sound /\ c2.sound
    BY Zenon, <1>8, <1>9, <2>1
  <2>3. \/ j = 1 /\ q = 2 /\ c2.seqid <= c1.seqid /\ c2.seqid > c1.seqid
        \/ j = 2 /\ q = 1 /\ c1.seqid <= c2.seqid /\ ~(c2.seqid > c1.seqid)
    BY Zenon, <1>1, <1>6, <1>8, <1>9, <2>1, <2>2
  <2>4. c1.seqid = c2.seqid
    <3>1. PICK a \in Nat, b \in Nat : a = c1.seqid /\ b = c2.seqid
      BY Zenon, <1>2
    <3>2. (b <= a /\ b > a) \/ (a <= b /\ ~(b > a))
      BY Zenon, <2>3, <3>1
    <3>3. a = b
      BY <3>2
    <3> QED
      BY Zenon, <3>1, <3>3
  <2> QED
    BY Zenon, <1>1, <1>2, <1>4, <1>8, <1>9, <2>1, <2>2, <2>4
<1> QED
  BY Zenon, <1>10, <1>11

\* The extent of a sound container lies in its partition.
LEMMA ExtentInside ==
  ASSUME NEW p, p.start \in Nat, p.size \in Nat,
         HoldsVolume(p), p.copies = << >> \/ (DOMAIN p.copies = 1..2 /\ HeaderCopies(p))
  PROVE  \E b \in Nat, n \in Nat : Extent(p) = [base |-> b, size |-> n]
                                   /\ p.start <= b /\ b + n <= p.start + p.size
<1>1. CASE p.copies = << >>
  <2>1. Extent(p) = [base |-> p.start, size |-> p.size]
    BY Zenon, <1>1 DEF Extent
  <2>2. p.start <= p.start /\ p.start + p.size <= p.start + p.size
    OBVIOUS
  <2> QED
    BY Zenon, <2>1, <2>2
<1>2. CASE p.copies # << >>
  <2>1. PICK j \in SoundCopies(p) : NewestCopy(p) = p.copies[j] /\ j \in 1..2
    BY Zenon, <1>2, NewestIsSound DEF HoldsVolume
  <2>2. PICK seg : seg = NewestCopy(p).seg
    BY Zenon
  <2>3. seg.off \in Nat /\ seg.off <= p.size /\ seg.size \in Nat
    <3>1. p.copies[j].sound
      BY Zenon, <2>1 DEF SoundCopies
    <3> QED
      BY Zenon, <1>2, <2>1, <2>2, <3>1 DEF HeaderCopies, HoldsVolume
  <2>4. PICK o \in Nat, z \in Nat, st \in Nat, len \in Nat :
          o = seg.off /\ z = seg.size /\ st = p.start /\ len = p.size /\ o <= len
    BY <2>3
  <2>5. PICK n \in Nat : /\ n = IF z = Dynamic \/ z > len - o THEN len - o ELSE z
                         /\ n <= len - o
    BY <2>4
  <2>6. PICK b \in Nat : b = st + o /\ st <= b /\ b + n <= st + len
    <3>1. n <= len - o
      BY Zenon, <2>5
    <3>2. st + o \in Nat /\ st <= st + o /\ (st + o) + n <= st + len
      BY <3>1
    <3> QED
      BY Zenon, <3>2
  <2>7. Extent(p) = [base |-> b, size |-> n]
    BY Zenon, <1>2, <2>2, <2>4, <2>5, <2>6 DEF Extent
  <2> QED
    BY Zenon, <2>4, <2>6, <2>7
<1> QED
  BY Zenon, <1>1, <1>2

-----------------------------------------------------------------------------
(* The owner's view.                                                          *)

\* The partitions a volume can be mounted from, and the containers cell c lies in.
Sources(d) == {i \in DOMAIN d.parts : HoldsVolume(d.parts[i])}

Containers(d, c) ==
  {i \in Sources(d) : /\ d.parts[i].copies # << >>
                      /\ c - Extent(d.parts[i]).base \in 0..(Extent(d.parts[i]).size - 1)}

\* The pad under cell c, which lies in the containers S.
PadOf(d, S, c) == IF S = {} THEN 0 ELSE PadAt(d.parts[CHOOSE i \in S : TRUE], c)

\* What the owner's view consists of.
LEMMA OwnerIs ==
  ASSUME NEW d
  PROVE  /\ OwnerOf(d).extent = [i \in Sources(d) |-> Extent(d.parts[i])]
         /\ OwnerOf(d).pad = [c \in 0..(d.len - 1) |-> PadOf(d, Containers(d, c), c)]
<1> DEFINE ps == {i \in DOMAIN d.parts : HoldsVolume(d.parts[i])}
           ext == [i \in ps |-> Extent(d.parts[i])]
           In(c) == {i \in ps : d.parts[i].copies # << >> /\ c - ext[i].base \in 0..(ext[i].size - 1)}
           pad == [c \in 0..(d.len - 1) |-> PadOf(d, In(c), c)]
<1>1. OwnerOf(d) = [extent |-> ext, pad |-> pad]
  BY Zenon DEF OwnerOf, PadOf
<1>2. ps = Sources(d)
  BY Zenon DEF Sources
<1>3. \A i \in ps : ext[i] = Extent(d.parts[i])
  BY Zenon
<1>4. ASSUME NEW c PROVE In(c) = Containers(d, c)
  BY Zenon, <1>2, <1>3 DEF Containers
<1>5. pad = [c \in 0..(d.len - 1) |-> PadOf(d, Containers(d, c), c)]
  BY Zenon, <1>4
<1>6. ext = [i \in Sources(d) |-> Extent(d.parts[i])]
  BY Zenon, <1>2
<1> HIDE DEF pad, ext
<1>7. OwnerOf(d).extent = ext /\ OwnerOf(d).pad = pad
  BY <1>1
<1> QED
  BY Zenon, <1>5, <1>6, <1>7

\* A disk of Disks.
LEMMA DiskIs ==
  ASSUME NEW d \in Disks, NEW i \in DOMAIN d.parts
  PROVE  /\ i \in Nat /\ d.len \in Nat /\ d.align \in Nat
         /\ d.parts[i].start \in Nat /\ d.parts[i].size \in Nat
         /\ d.parts[i].copies = << >> \/ (DOMAIN d.parts[i].copies = 1..2 /\ HeaderCopies(d.parts[i]))
         /\ d.parts[i].magic => d.parts[i].copies # << >>
         /\ \A j \in DOMAIN d.parts :
              \/ i = j
              \/ d.parts[i].start + d.parts[i].size <= d.parts[j].start
              \/ d.parts[j].start + d.parts[j].size <= d.parts[i].start
  BY Zenon, DisksAssumption

\* In a volume's extent its own pad applies, and none in a plain one.
LEMMA OwnerPads ==
  ASSUME NEW d \in Disks, NEW i \in Sources(d)
  PROVE  /\ i \in DOMAIN OwnerOf(d).extent /\ OwnerOf(d).extent[i] = Extent(d.parts[i])
         /\ \A c \in 0..(d.len - 1) : c - Extent(d.parts[i]).base \in 0..(Extent(d.parts[i]).size - 1) =>
              OwnerOf(d).pad[c] = IF d.parts[i].copies = << >> THEN 0 ELSE PadAt(d.parts[i], c)
<1>1. i \in DOMAIN OwnerOf(d).extent /\ OwnerOf(d).extent[i] = Extent(d.parts[i])
  <2>1. OwnerOf(d).extent = [j \in Sources(d) |-> Extent(d.parts[j])]
    BY Zenon, OwnerIs
  <2> QED
    BY Zenon, <2>1
<1>2. Sources(d) \subseteq DOMAIN d.parts
  BY Zenon DEF Sources
<1>3. ASSUME NEW j \in Sources(d)
      PROVE  \E b \in Nat, n \in Nat : Extent(d.parts[j]) = [base |-> b, size |-> n]
               /\ d.parts[j].start <= b /\ b + n <= d.parts[j].start + d.parts[j].size
  <2>1. j \in DOMAIN d.parts /\ HoldsVolume(d.parts[j])
    BY Zenon DEF Sources
  <2>2. /\ d.parts[j].start \in Nat /\ d.parts[j].size \in Nat
        /\ d.parts[j].copies = << >> \/ (DOMAIN d.parts[j].copies = 1..2 /\ HeaderCopies(d.parts[j]))
    BY Zenon, <2>1, DiskIs
  <2>3. PICK p : p = d.parts[j]
    BY Zenon
  <2> QED
    BY Zenon, <2>1, <2>2, <2>3, ExtentInside
<1>4. ASSUME NEW c \in 0..(d.len - 1), NEW j \in Sources(d),
             c - Extent(d.parts[i]).base \in 0..(Extent(d.parts[i]).size - 1),
             c - Extent(d.parts[j]).base \in 0..(Extent(d.parts[j]).size - 1)
      PROVE  i = j
  <2>1. PICK b \in Nat, n \in Nat : Extent(d.parts[i]) = [base |-> b, size |-> n]
               /\ d.parts[i].start <= b /\ b + n <= d.parts[i].start + d.parts[i].size
    BY Zenon, <1>3
  <2>2. PICK b2 \in Nat, n2 \in Nat : Extent(d.parts[j]) = [base |-> b2, size |-> n2]
               /\ d.parts[j].start <= b2 /\ b2 + n2 <= d.parts[j].start + d.parts[j].size
    BY Zenon, <1>3
  <2>3. PICK s \in Nat, z \in Nat, s2 \in Nat, z2 \in Nat :
          /\ s = d.parts[i].start /\ z = d.parts[i].size
          /\ s2 = d.parts[j].start /\ z2 = d.parts[j].size
    BY Zenon, <1>2, DiskIs
  <2>4. i = j \/ s + z <= s2 \/ s2 + z2 <= s
    BY Zenon, <1>2, <2>3, DiskIs
  <2>5. c - b \in 0..(n - 1) /\ c - b2 \in 0..(n2 - 1)
    BY <1>4, <2>1, <2>2
  <2>6. s <= b /\ b + n <= s + z /\ s2 <= b2 /\ b2 + n2 <= s2 + z2
    BY Zenon, <2>1, <2>2, <2>3
  <2>7. d.len \in Nat
    BY Zenon, <1>2, DiskIs
  <2>8. ~(s + z <= s2) /\ ~(s2 + z2 <= s)
    BY <2>5, <2>6, <2>7
  <2> QED
    BY Zenon, <2>4, <2>8
<1>5. ASSUME NEW c \in 0..(d.len - 1), c - Extent(d.parts[i]).base \in 0..(Extent(d.parts[i]).size - 1)
      PROVE  OwnerOf(d).pad[c] = IF d.parts[i].copies = << >> THEN 0 ELSE PadAt(d.parts[i], c)
  <2>1. OwnerOf(d).pad[c] = PadOf(d, Containers(d, c), c)
    BY ZenonT(60), OwnerIs
  <2>2. \A j \in Containers(d, c) : j = i
    BY Zenon, <1>4, <1>5 DEF Containers
  <2>3. CASE d.parts[i].copies = << >>
    <3>1. Containers(d, c) = {}
      BY Zenon, <2>2, <2>3 DEF Containers
    <3> QED
      BY Zenon, <2>1, <2>3, <3>1 DEF PadOf
  <2>4. CASE d.parts[i].copies # << >>
    <3>1. Containers(d, c) = {i}
      BY Zenon, <1>5, <2>2, <2>4 DEF Containers
    <3>2. (CHOOSE k \in {i} : TRUE) = i /\ {i} # {}
      OBVIOUS
    <3> QED
      BY Zenon, <2>1, <2>4, <3>1, <3>2 DEF PadOf
  <2> QED
    BY Zenon, <2>3, <2>4
<1> QED
  BY Zenon, <1>1, <1>5

-----------------------------------------------------------------------------
(* Opening.                                                                   *)

\* detect_fs names a filesystem that is there, the only one if no read failed.
LEMMA DetectIs ==
  ASSUME NEW S, NEW lost, detect_fs(S, lost) # None
  PROVE  detect_fs(S, lost) \in S /\ (lost = {} => S \cap Signatures = {detect_fs(S, lost)})
<1>1. PICK T, x : T = Seen(S, lost) /\ T = {x}
  BY Zenon DEF detect_fs
<1>2. T \subseteq S /\ (lost = {} => S \cap Signatures = T)
  BY Zenon, <1>1 DEF Seen
<1>3. detect_fs(S, lost) = x
  BY Zenon, <1>1 DEF detect_fs
<1> QED
  BY Zenon, <1>1, <1>2, <1>3

\* The sector sizes LuksVolume takes.
SectorSizes == {2, 4, 8, 16}

\* By how much the IV of sector num is ahead of the first one's.
Ahead(seg, num) == IF seg.large THEN num ELSE (num * seg.sector) \div 2

\* tweak_step counts 512-byte units, or sectors.
LEMMA TweakIs ==
  ASSUME NEW seg, seg.sector \in SectorSizes, NEW num \in Nat
  PROVE  /\ tweak_step(seg) \in Nat
         /\ Ahead(seg, num) = num * tweak_step(seg)
<1>1. CASE seg.large
  <2>1. num * 1 = num /\ 1 \in Nat
    OBVIOUS
  <2> QED
    BY Zenon, <1>1, <2>1 DEF tweak_step, Ahead
<1>2. CASE ~seg.large
  <2>1. PICK s \in {2, 4, 8, 16} : s = seg.sector
    BY Zenon DEF SectorSizes
  <2>2. PICK h \in {1, 2, 4, 8} : h = s \div 2 /\ (num * s) \div 2 = num * h
    BY <2>1
  <2>3. max(h, 1) = h
    <3>1. h \in Int /\ 1 \in Int /\ h >= 1
      BY <2>2
    <3> QED
      BY Zenon, <3>1, MaxTwo
  <2>4. tweak_step(seg) = h
    BY Zenon, <1>2, <2>1, <2>2, <2>3 DEF tweak_step
  <2>5. h \in Nat
    BY <2>2
  <2> QED
    BY Zenon, <1>2, <2>1, <2>2, <2>4, <2>5 DEF Ahead
<1> QED
  BY Zenon, <1>1, <1>2

\* The segment ends where its partition does, at the latest.
LEMMA LenIs ==
  ASSUME NEW seg, seg.size \in Nat, NEW room \in Nat
  PROVE  segment_len(seg, room) = IF seg.size = Dynamic \/ seg.size > room THEN room ELSE seg.size
<1>1. PICK z \in Nat : z = seg.size
  BY Zenon
<1>2. min(z, room) = IF z <= room THEN z ELSE room
  <2>1. z \in Int /\ room \in Int
    OBVIOUS
  <2> QED
    BY Zenon, <2>1, MinTwo
<1>3. (z <= room <=> ~(z > room)) /\ room \in Int
  OBVIOUS
<1>4. room # None
  BY Zenon, <1>3, NoneAssumption
<1> QED
  BY Zenon, <1>1, <1>2, <1>3, <1>4 DEF segment_len

\* The pads of the volume are those of the newest header.
LEMMA PadOfHeader ==
  ASSUME NEW p, NEW hdr, hdr = NewestCopy(p), hdr.seg.sector \in SectorSizes,
         p.start \in Nat, hdr.seg.off \in Nat, NEW r \in Nat,
         NEW c, c = p.start + hdr.seg.off + r
  PROVE  PadAt(p, c) =
           Pad(hdr.key, hdr.seg.iv + (r \div hdr.seg.sector) * tweak_step(hdr.seg), r % hdr.seg.sector)
<1>1. hdr.seg.sector \in Nat \ {0}
  BY DEF SectorSizes
<1>2. c - p.start - hdr.seg.off = r
  OBVIOUS
<1>3. PICK num \in Nat : num = r \div hdr.seg.sector
  BY Zenon, <1>1, Floor
<1>4. Ahead(hdr.seg, num) = num * tweak_step(hdr.seg)
  BY Zenon, TweakIs
<1>5. PadAt(p, c) = Pad(hdr.key, hdr.seg.iv + Ahead(hdr.seg, num), r % hdr.seg.sector)
  BY Zenon, <1>2, <1>3 DEF PadAt, Ahead
<1> QED
  BY Zenon, <1>3, <1>4, <1>5

\* The mounted volume lies where its owner has it, under the owner's pads.
VolOK ==
  vol # None =>
    /\ VolTyped /\ vol.len \in Nat /\ (vol.luks \/ vol.sector = 1)
    /\ vol.part \in DOMAIN owner.extent
    /\ owner.extent[vol.part] = [base |-> vol.base, size |-> vol.len]
    /\ \A r \in 0..(vol.len - 1) : vol.base + r \in Cells => owner.pad[vol.base + r] = PadUnder(r)

\* No entry of the MBR protects a GPT.
Unprotected == \A k \in 1..4 : disk.mbr.types[k] # "gpt"

Seated ==
  /\ disk \in Disks /\ owner = OwnerOf(disk)
  /\ known # None => known \in Int /\ known <= disk.len
  /\ table # None => known # None /\ (table.kind = "mbr" => Unprotected)
  /\ vol # None => table # None
  /\ MountedRight

Opened == Seated /\ VolOK

\* A volume is mounted that its partition does not hold.
Astray == Seated /\ vol # None /\ vol.base \in Nat /\ vol.part \notin DOMAIN owner.extent

\* unlock mounts the container of the newest header.
LEMMA UnlockOpens ==
  ASSUME Opened, NEW i \in DOMAIN disk.parts, NEW pw, NEW lost, Unlock(i, pw, lost), owner' = owner
  PROVE  /\ MountedRight'
         /\ VolOK' \/ (vol' # None /\ vol'.base \in Nat /\ vol'.part \notin DOMAIN owner'.extent)
<1>1. PICK p : p = disk.parts[i]
  BY Zenon
<1>2. UNCHANGED <<disk, table>> /\ table # None /\ p.magic /\ parse(p.copies) # 0
  BY Zenon, <1>1 DEF Unlock
<1>3. disk \in Disks /\ owner = OwnerOf(disk)
  BY Zenon DEF Opened, Seated
<1>4. /\ p.start \in Nat /\ p.size \in Nat /\ p.copies # << >> /\ disk.len \in Nat
      /\ DOMAIN p.copies = 1..2 /\ HeaderCopies(p)
  BY Zenon, <1>1, <1>2, <1>3, DiskIs
<1>5. PICK hdr : hdr = p.copies[parse(p.copies)]
  BY Zenon
<1>6. hdr = NewestCopy(p) /\ SoundCopies(p) # {}
  BY Zenon, <1>2, <1>4, <1>5, ParseNewest
<1>7. hdr.key \in Nat /\ hdr.seg.off \in Nat /\ hdr.seg.size \in Nat /\ hdr.seg.iv \in Nat
  <2>1. PICK j \in SoundCopies(p) : hdr = p.copies[j] /\ j \in 1..2
    BY Zenon, <1>4, <1>6, NewestIsSound
  <2>2. p.copies[j].sound
    BY Zenon DEF SoundCopies
  <2> QED
    BY Zenon, <1>4, <2>1, <2>2 DEF HeaderCopies
<1>8. PICK key : key = unlock_key(hdr, pw)
  BY Zenon
<1>9. PICK fs : fs = detect_fs(IF key = hdr.key THEN p.fs ELSE {}, lost)
  BY Zenon
<1>10. /\ Candidates(hdr, pw) # {} /\ fs # None /\ hdr.seg.sector \in SectorSizes
       /\ vol' = [part |-> i, luks |-> TRUE, pw |-> pw, key |-> key, fs |-> fs,
                  base |-> p.start + hdr.seg.off, len |-> segment_len(hdr.seg, Room(p, hdr.seg)),
                  sector |-> hdr.seg.sector, iv |-> hdr.seg.iv, step |-> tweak_step(hdr.seg),
                  blind |-> lost # {}]
  BY Zenon, <1>1, <1>5, <1>8, <1>9 DEF Unlock, SectorSizes
<1>11. key = hdr.key /\ fs \in p.fs /\ (lost = {} => p.fs \cap Signatures = {fs})
  <2>1. PICK S : S = IF key = hdr.key THEN p.fs ELSE {}
    BY Zenon
  <2>2. fs \in S /\ (lost = {} => S \cap Signatures = {fs})
    BY Zenon, <1>9, <1>10, <2>1, DetectIs
  <2> QED
    BY Zenon, <2>1, <2>2
<1>12. /\ vol'.part = i /\ vol'.luks = TRUE /\ vol'.pw = pw /\ vol'.key = key /\ vol'.fs = fs
       /\ vol'.base = p.start + hdr.seg.off /\ vol'.len = segment_len(hdr.seg, Room(p, hdr.seg))
       /\ vol'.sector = hdr.seg.sector /\ vol'.iv = hdr.seg.iv /\ vol'.step = tweak_step(hdr.seg)
       /\ vol'.blind = (lost # {})
  BY <1>10
<1>13. MountedRight'
  <2>1. table.kind = "mbr" => Unprotected
    BY Zenon, <1>2 DEF Opened, Seated
  <2>2. \E j \in DOMAIN hdr.slots : hdr.slots[j].pw = pw
    BY Zenon, <1>10 DEF Candidates
  <2> QED
    BY Zenon, <1>1, <1>2, <1>4, <1>6, <1>11, <1>12, <2>1, <2>2 DEF MountedRight, Unprotected
<1>14. CASE ~(hdr.seg.off <= p.size)
  <2>1. p.start + hdr.seg.off \in Nat
    BY <1>4, <1>7
  <2>2. i \notin Sources(disk)
    BY Zenon, <1>1, <1>4, <1>6, <1>14 DEF Sources, HoldsVolume
  <2>3. OwnerOf(disk).extent = [j \in Sources(disk) |-> Extent(disk.parts[j])]
    BY Zenon, OwnerIs
  <2>4. i \notin DOMAIN owner.extent
    BY Zenon, <1>3, <2>2, <2>3
  <2>5. vol' = None => VolOK'
    BY Zenon DEF VolOK
  <2> QED
    BY Zenon, <1>12, <1>13, <2>1, <2>4, <2>5
<1>15. CASE hdr.seg.off <= p.size
  <2>1. VolTyped'
    <3>1. p.start + hdr.seg.off \in Nat /\ hdr.seg.sector \in Nat \ {0}
      <4>1. hdr.seg.sector \in SectorSizes
        BY Zenon, <1>10
      <4>2. hdr.seg.sector \in Nat \ {0}
        BY <4>1 DEF SectorSizes
      <4>3. p.start + hdr.seg.off \in Nat
        BY <1>4, <1>7
      <4> QED
        BY Zenon, <4>2, <4>3
    <3>2. tweak_step(hdr.seg) \in Nat
      <4>1. 0 \in Nat
        OBVIOUS
      <4> QED
        BY Zenon, <1>10, <4>1, TweakIs
    <3> QED
      BY Zenon, <1>7, <1>11, <1>12, <3>1, <3>2 DEF VolTyped
  <2>2. PICK b \in Nat, n \in Nat : Extent(p) = [base |-> b, size |-> n]
    BY Zenon, <1>4, <1>6, <1>15, ExtentInside DEF HoldsVolume
  <2>3. b = vol'.base /\ n = vol'.len
    <3>1. PICK room \in Nat : room = p.size - hdr.seg.off /\ room = Room(p, hdr.seg)
      <4>1. p.size - hdr.seg.off \in Nat
        BY <1>4, <1>7, <1>15
      <4> QED
        BY Zenon, <1>15, <4>1 DEF Room
    <3>2. segment_len(hdr.seg, room) = IF hdr.seg.size = Dynamic \/ hdr.seg.size > room THEN room ELSE hdr.seg.size
      BY Zenon, <1>7, LenIs
    <3>3. Extent(p) = [base |-> p.start + hdr.seg.off, size |-> segment_len(hdr.seg, room)]
      BY Zenon, <1>4, <1>6, <3>1, <3>2 DEF Extent
    <3> QED
      BY <1>12, <2>2, <3>1, <3>3
  <2>4. i \in Sources(disk)
    BY Zenon, <1>1, <1>6, <1>15 DEF Sources, HoldsVolume
  <2>5. /\ i \in DOMAIN owner.extent /\ owner.extent[i] = [base |-> b, size |-> n]
        /\ \A c \in 0..(disk.len - 1) : c - b \in 0..(n - 1) => owner.pad[c] = PadAt(p, c)
    <3>1. Extent(p).base = b /\ Extent(p).size = n
      BY <2>2
    <3> QED
      BY Zenon, <1>1, <1>3, <1>4, <2>2, <2>4, <3>1, OwnerPads
  <2>6. ASSUME NEW r \in 0..(n - 1), b + r \in Cells PROVE owner.pad[b + r] = PadUnder(r)'
    <3>1. r \in Nat /\ (b + r) - b = r /\ hdr.seg.off \in Nat
      BY <1>4, <1>7
    <3>2. owner.pad[b + r] = PadAt(p, b + r)
      BY Zenon, <2>5, <2>6, <3>1 DEF Cells
    <3>3. PICK c : c = b + r /\ c = p.start + hdr.seg.off + r
      BY Zenon, <1>12, <2>3
    <3>4. PadAt(p, c) = Pad(hdr.key, hdr.seg.iv + (r \div hdr.seg.sector) * tweak_step(hdr.seg), r % hdr.seg.sector)
      <4>1. /\ hdr = NewestCopy(p) /\ hdr.seg.sector \in SectorSizes /\ p.start \in Nat
            /\ hdr.seg.off \in Nat /\ r \in Nat /\ c = p.start + hdr.seg.off + r
        BY Zenon, <1>4, <1>6, <1>10, <3>1, <3>3
      <4> QED
        BY <4>1, PadOfHeader
    <3> QED
      BY Zenon, <1>11, <1>12, <3>2, <3>3, <3>4 DEF PadUnder, SectorPad
  <2>7. Cells' = Cells
    BY Zenon, <1>2 DEF Cells
  <2>8. VolOK'
    BY Zenon, <1>12, <2>1, <2>2, <2>3, <2>5, <2>6, <2>7 DEF VolOK
  <2> QED
    BY Zenon, <1>13, <2>8
<1> QED
  BY Zenon, <1>14, <1>15

\* open_plain mounts the partition as it is.
LEMMA PlainOpens ==
  ASSUME Opened, NEW i \in DOMAIN disk.parts, NEW lost, OpenPlain(i, lost), owner' = owner
  PROVE  MountedRight' /\ VolOK'
<1>1. PICK p : p = disk.parts[i]
  BY Zenon
<1>2. UNCHANGED <<disk, table>> /\ table # None
  BY Zenon DEF OpenPlain
<1>3. disk \in Disks /\ owner = OwnerOf(disk)
  BY Zenon DEF Opened, Seated
<1>4. p.start \in Nat /\ p.size \in Nat /\ disk.len \in Nat
  BY Zenon, <1>1, <1>3, DiskIs
<1>5. PICK fs : fs = detect_fs(IF p.copies = << >> THEN p.fs ELSE {}, lost)
  BY Zenon
<1>6. /\ fs # None
      /\ vol' = [part |-> i, luks |-> FALSE, pw |-> None, key |-> 0, fs |-> fs,
                 base |-> p.start, len |-> p.size, sector |-> 1, iv |-> 0, step |-> 0,
                 blind |-> lost # {}]
  BY Zenon, <1>1, <1>5 DEF OpenPlain
<1>7. p.copies = << >> /\ fs \in p.fs /\ (lost = {} => p.fs \cap Signatures = {fs})
  <2>1. PICK S : S = IF p.copies = << >> THEN p.fs ELSE {}
    BY Zenon
  <2>2. fs \in S /\ (lost = {} => S \cap Signatures = {fs})
    BY Zenon, <1>5, <1>6, <2>1, DetectIs
  <2> QED
    BY Zenon, <2>1, <2>2
<1>8. /\ vol'.part = i /\ vol'.luks = FALSE /\ vol'.key = 0 /\ vol'.fs = fs
      /\ vol'.base = p.start /\ vol'.len = p.size
      /\ vol'.sector = 1 /\ vol'.iv = 0 /\ vol'.step = 0 /\ vol'.blind = (lost # {})
  BY <1>6
<1>9. MountedRight'
  <2>1. table.kind = "mbr" => Unprotected
    BY Zenon, <1>2 DEF Opened, Seated
  <2> QED
    BY Zenon, <1>1, <1>2, <1>7, <1>8, <2>1 DEF MountedRight, Unprotected
<1>10. VolOK'
  <2>1. VolTyped'
    <3>1. 0 \in Nat /\ 1 \in Nat \ {0}
      OBVIOUS
    <3> QED
      BY Zenon, <1>4, <1>8, <3>1 DEF VolTyped
  <2>2. Extent(p) = [base |-> p.start, size |-> p.size]
    BY Zenon, <1>7 DEF Extent
  <2>3. i \in Sources(disk)
    BY Zenon, <1>1, <1>7 DEF Sources, HoldsVolume
  <2>4. /\ i \in DOMAIN owner.extent /\ owner.extent[i] = [base |-> p.start, size |-> p.size]
        /\ \A c \in 0..(disk.len - 1) : c - p.start \in 0..(p.size - 1) => owner.pad[c] = 0
    <3>1. Extent(p).base = p.start /\ Extent(p).size = p.size
      BY <2>2
    <3> QED
      BY Zenon, <1>1, <1>3, <1>7, <2>2, <2>3, <3>1, OwnerPads
  <2>5. ASSUME NEW r \in 0..(p.size - 1), p.start + r \in Cells PROVE owner.pad[p.start + r] = PadUnder(r)'
    <3>1. (p.start + r) - p.start = r
      BY <1>4
    <3> QED
      BY Zenon, <1>8, <2>4, <2>5, <3>1 DEF Cells, PadUnder
  <2>6. Cells' = Cells
    BY Zenon, <1>2 DEF Cells
  <2> QED
    BY Zenon, <1>4, <1>8, <2>1, <2>4, <2>5, <2>6 DEF VolOK
<1> QED
  BY Zenon, <1>9, <1>10

\* Nothing but opening touches what is open.
LEMMA SeatedFrame ==
  ASSUME Seated, UNCHANGED <<disk, known, table, vol, owner>> PROVE Seated'
<1>1. MountedRight'
  BY Zenon DEF Seated, MountedRight
<1>2. Unprotected' <=> Unprotected
  BY Zenon DEF Unprotected
<1> QED
  BY Zenon, <1>1, <1>2 DEF Seated

LEMMA OpenedFrame ==
  ASSUME Opened, UNCHANGED <<disk, known, table, vol, owner>> PROVE Opened'
<1>1. VolTyped' <=> VolTyped
  BY Zenon DEF VolTyped
<1>2. ASSUME NEW r PROVE PadUnder(r)' = PadUnder(r)
  BY Zenon DEF PadUnder, SectorPad
<1>3. Cells' = Cells
  BY Zenon DEF Cells
<1>4. VolOK'
  BY Zenon, <1>1, <1>2, <1>3 DEF Opened, Seated, VolOK
<1> QED
  BY Zenon, <1>4, SeatedFrame DEF Opened

\* The scan finds a table.
LEMMA ScanOpens == ASSUME Opened, NEW lost, Scan(lost), owner' = owner PROVE Opened'
<1>1. UNCHANGED <<disk, known, vol>> /\ known # None /\ table = None /\ vol = None
  BY Zenon DEF Scan, Opened, Seated
<1>2. table'.kind = "mbr" => Unprotected'
  <2>1. table'.kind = IF gpt_parse(lost) THEN "gpt" ELSE "mbr"
    BY DEF Scan
  <2>2. "gpt" # "mbr"
    OBVIOUS
  <2> QED
    BY Zenon, <1>1, <2>1, <2>2 DEF Scan, mbr_parse, Unprotected
<1> QED
  BY Zenon, <1>1, <1>2 DEF Opened, Seated, MountedRight, VolOK

\* confirm_len accepts no length past the end of the device.
LEMMA LengthConfirmed ==
  ASSUME Opened, MediumOK, NEW expected \in Int, NEW fault, OpenWritable(expected, fault)
  PROVE  Opened'
<1>1. /\ known = None /\ expected > 0 /\ Len(device_read(expected - 1, 1)) = 1 /\ known' = expected
      /\ UNCHANGED <<disk, owner, table, vol>>
  BY Zenon DEF OpenWritable
<1>2. table = None /\ vol = None
  BY Zenon, <1>1 DEF Opened, Seated
<1>3. expected <= disk.len
  <2>1. expected - 1 \in Nat /\ 1 \in Nat
    BY <1>1
  <2>2. Copied(device_read(expected - 1, 1), expected - 1)
    BY Zenon, <1>1, <2>1, DeviceRead
  <2>3. 1 > 0 => expected - 1 + 1 <= disk.len
    BY Zenon, <1>1, <2>2 DEF Copied
  <2>4. disk.len \in Nat
    BY Zenon DEF MediumOK
  <2> QED
    BY <2>3, <2>4
<1> QED
  BY Zenon, <1>1, <1>2, <1>3 DEF Opened, Seated, MountedRight, VolOK, Unprotected

-----------------------------------------------------------------------------
(* A write in progress.                                                       *)

\* A cell of the request, and what its owner reads when it holds v.
Adr(k) == vol.base + req.off + k - 1
Clear(c, v) == (v - owner.pad[c]) % Modulus

\* Cell k of the request is written; data, put at cell at, writes it.
Landed(k) == Adr(k) \in Cells /\ Clear(Adr(k), medium[Adr(k)]) = req.data[k]
Puts(at, data, k) ==
  LET j == Adr(k) - at + 1 IN j \in 1..Len(data) /\ Clear(Adr(k), data[j]) = req.data[k]

ReqOK ==
  /\ done \in Nat
  /\ req # None => req \in Requests /\ vol # None
  /\ req = None => job = None /\ done = 0

\* pwrite_all has, cell by cell, what is there already or what the request says, and
\* what of the chunk has not landed is still in it.
Holds(at, data, take) ==
  /\ Len(data) > 0 => at + Len(data) <= disk.len
  /\ \A j \in 1..Len(data) :
       \/ data[j] = medium[at + j - 1]
       \/ \E k \in 1..req.len : at + j - 1 = Adr(k) /\ Clear(Adr(k), data[j]) = req.data[k]
  /\ \A k \in done + 1..done + take : Landed(k) \/ Puts(at, data, k)

JobOK ==
  job # None =>
    /\ req # None /\ req.op = "write" /\ InVolume
    /\ job \in [at : Nat, data : Seq(Bytes), take : Nat]
    /\ done + job.take <= req.len /\ (vol.luks \/ done + job.take = req.len)
    /\ Holds(job.at, job.data, job.take)

DoneOK ==
  req # None /\ req.op = "write" =>
    /\ done <= req.len /\ (done > 0 => InVolume) /\ (vol.luks \/ done = 0 \/ done = req.len)
    /\ \A k \in 1..done : Landed(k)

\* A write in progress stays in the blocks around the request.
ReachOK == job # None => \A j \in 1..Len(job.data) : job.at + j - 1 \in Blocks

Inv == Opened /\ MediumOK /\ ReqOK /\ JobOK /\ DoneOK /\ ReachOK

\* A request is as the filesystem makes it.
LEMMA RequestIs ==
  ASSUME ReqOK, req # None
  PROVE  /\ req \in Requests /\ req.op \in {"read", "write"} /\ req.off \in Nat /\ req.len \in Nat
         /\ req.data \in [1..req.len -> Bytes] /\ vol # None
  BY Zenon, RequestsAssumption DEF ReqOK, Bytes

\* A chunk is part of what is left, all of it in a plain volume.
LEMMA TakeIs ==
  ASSUME VolTyped, req.off \in Nat, req.len \in Nat, done \in Nat, done < req.len
  PROVE  Take \in Nat /\ done + Take <= req.len /\ (vol.luks \/ done + Take = req.len)
<1>1. PICK s \in Nat \ {0}, w \in Nat, at \in Nat, left \in Nat :
        /\ s = vol.sector /\ w = WriteChunk /\ at = req.off + done /\ left = req.len - done
  <2>1. req.off + done \in Nat /\ req.len - done \in Nat
    OBVIOUS
  <2> QED
    BY Zenon, <2>1, RequestsAssumption DEF VolTyped
<1>2. Take = IF ~vol.luks \/ req.len <= w THEN left
             ELSE IF at % s # 0 THEN min(s - (at % s), left)
             ELSE IF left >= s THEN min((left \div s) * s, (w \div s) * s) ELSE left
  BY Zenon, <1>1 DEF Take
<1>3. PICK m \in Nat : m = s - (at % s)
  <2>1. at % s \in 0..(s - 1)
    BY Zenon, Floor
  <2>2. s - (at % s) \in Nat
    BY <2>1
  <2> QED
    BY Zenon, <2>2
<1>4. PICK x \in Nat, y \in Nat : x = (left \div s) * s /\ y = (w \div s) * s /\ x <= left
  BY Zenon, Floor
<1>5. PICK a \in Nat, b \in Nat : a = min(m, left) /\ b = min(x, y) /\ a <= left /\ b <= left
  <2>1. m \in Int /\ left \in Int /\ x \in Int /\ y \in Int
    OBVIOUS
  <2>2. min(m, left) = IF m <= left THEN m ELSE left
    BY Zenon, <2>1, MinTwo
  <2>3. min(x, y) = IF x <= y THEN x ELSE y
    BY Zenon, <2>1, MinTwo
  <2>4. PICK a \in Nat : a = (IF m <= left THEN m ELSE left) /\ a <= left
    OBVIOUS
  <2>5. PICK b \in Nat : b = (IF x <= y THEN x ELSE y) /\ b <= left
    BY <1>4
  <2> QED
    BY Zenon, <2>2, <2>3, <2>4, <2>5
<1>6. left <= left
  OBVIOUS
<1>7. PICK t \in Nat : t = Take /\ t <= left /\ (vol.luks \/ t = left)
  BY Zenon, <1>2, <1>3, <1>4, <1>5, <1>6
<1>8. done + t <= req.len /\ (t = left => done + t = req.len)
  BY <1>1, <1>7
<1> QED
  BY Zenon, <1>7, <1>8

IsPart(part, all, from, t) ==
  part \in Seq(Bytes) /\ Len(part) = t /\ \A k \in 1..t : part[k] = all[from + k]

LEMMA CellIs == ASSUME NEW s \in Seq(Bytes), NEW j \in 1..Len(s) PROVE s[j] \in Bytes
  OBVIOUS

LEMMA PartIs ==
  ASSUME NEW all \in Seq(Bytes), NEW from \in Nat, NEW t \in Nat, from + t <= Len(all)
  PROVE  IsPart(SubSeq(all, from + 1, from + t), all, from, t)
  BY DEF IsPart

\* The part of the request a chunk carries.
LEMMA ChunkIs ==
  ASSUME NEW n \in Nat, NEW all \in [1..n -> Bytes], NEW from \in Nat, NEW t \in Nat, from + t <= n
  PROVE  IsPart(SubSeq(all, from + 1, from + t), all, from, t)
<1>1. all \in Seq(Bytes) /\ Len(all) = n
  BY Zenon, AsSeq
<1> QED
  BY Zenon, <1>1, PartIs

\* A cell of the data in a plain volume goes out as it is.
LEMMA PlainCiphers ==
  ASSUME VolTyped, ~vol.luks, NEW off \in Nat, NEW new \in Seq(Bytes)
  PROVE  Ciphers(vol.base + off, new, off, new)
<1>1. PICK b \in Nat, n \in Nat : b = vol.base /\ n = Len(new)
  BY DEF VolTyped
<1>2. b + off \in Nat /\ \A k \in 1..n : b + off + k - (b + off) \in 1..n
  OBVIOUS
<1>3. ASSUME NEW j \in 1..n
      PROVE  b + off + j - (b + off) \in 1..n /\ new[j] = (new[b + off + j - (b + off)] + 0) % Modulus
  <2>1. b + off + j - (b + off) = j
    BY <1>1
  <2>2. new[j] \in Bytes
    BY <1>1
  <2>3. \A v \in Bytes : v = (v + 0) % Modulus
    <3>1. PICK M \in Nat \ {0} : M = Modulus
      BY Zenon, RequestsAssumption
    <3>2. \A v \in 0..(M - 1) : v = (v + 0) % M
      BY SMT
    <3> QED
      BY Zenon, <3>1, <3>2 DEF Bytes
  <2> QED
    BY Zenon, <2>1, <2>2, <2>3
<1> QED
  BY Zenon, <1>1, <1>2, <1>3 DEF Ciphers, Cell, PadUnder

\* What the device is given holds what the volume gave it, and more of the medium.
LEMMA ToDevice ==
  ASSUME VolTyped, MediumOK, NEW off \in Nat, NEW new \in Seq(Bytes), NEW at, NEW data,
         NEW to, NEW sent, Ciphers(at, data, off, new), Carries(to, sent, at, data)
  PROVE  Ciphers(to, sent, off, new) /\ (Len(sent) > 0 => to + Len(sent) <= disk.len)
<1>1. PICK n \in Nat, e \in Nat : n = Len(new) /\ e = vol.base + off
  BY DEF VolTyped
<1>2. at \in Nat /\ data \in Seq(Bytes) /\ to \in Nat /\ sent \in Seq(Bytes)
  BY Zenon DEF Ciphers, Carries
<1>3. PICK m \in Nat, l \in Nat : m = Len(data) /\ l = Len(sent)
  BY <1>2
<1>4. ASSUME NEW k \in 1..n PROVE e + k - to \in 1..l
  <2>1. e + k - at \in 1..m
    BY Zenon, <1>1, <1>3 DEF Ciphers
  <2>2. at + (e + k - at) - to \in 1..l
    BY Zenon, <1>3, <2>1 DEF Carries
  <2> QED
    BY <1>2, <2>2
<1>5. ASSUME NEW j \in 1..l
      PROVE  sent[j] = Cell(to + j - e, to + j - 1, off, new)
  <2>1. PICK i \in Int : i = to + j - at
    BY <1>2
  <2>2. at + i - e = to + j - e /\ at + i - 1 = to + j - 1
    BY <1>2, <2>1
  <2>3. sent[j] = IF i \in 1..m THEN data[i] ELSE medium[to + j - 1]
    BY Zenon, <1>3, <2>1 DEF Carries
  <2>4. CASE i \in 1..m
    <3>1. data[i] = Cell(at + i - e, at + i - 1, off, new)
      BY Zenon, <1>1, <1>3, <2>4 DEF Ciphers
    <3> QED
      BY Zenon, <2>2, <2>3, <2>4, <3>1
  <2>5. CASE i \notin 1..m
    <3>1. to + j - e \notin 1..n
      <4>1. SUFFICES ASSUME to + j - e \in 1..n PROVE FALSE
        OBVIOUS
      <4>2. e + (to + j - e) - at \in 1..m
        BY Zenon, <1>1, <1>3, <4>1 DEF Ciphers
      <4>3. e + (to + j - e) - at = i
        BY <1>2, <2>1
      <4> QED
        BY Zenon, <2>5, <4>2, <4>3
    <3> QED
      BY Zenon, <1>1, <2>3, <2>5, <3>1 DEF Cell
  <2> QED
    BY Zenon, <2>4, <2>5
<1>6. Len(sent) > 0 => to + Len(sent) <= disk.len
  BY Zenon DEF Carries
<1> QED
  BY Zenon, <1>1, <1>2, <1>3, <1>4, <1>5, <1>6 DEF Ciphers

\* What the volume's invariant says while it is mounted.
LEMMA VolumeIs ==
  ASSUME Opened, vol # None
  PROVE  /\ VolTyped /\ vol.base \in Nat /\ vol.len \in Nat /\ (vol.luks \/ vol.sector = 1)
         /\ known \in Int /\ known <= disk.len
         /\ owner.extent[vol.part] = [base |-> vol.base, size |-> vol.len]
         /\ \A r \in Nat : PadUnder(r) \in Int
         /\ \A r \in 0..(vol.len - 1) : vol.base + r \in Cells => owner.pad[vol.base + r] = PadUnder(r)
<1>1. /\ VolTyped /\ vol.len \in Nat /\ (vol.luks \/ vol.sector = 1)
      /\ owner.extent[vol.part] = [base |-> vol.base, size |-> vol.len]
      /\ \A r \in 0..(vol.len - 1) : vol.base + r \in Cells => owner.pad[vol.base + r] = PadUnder(r)
  BY Zenon DEF Opened, Seated, VolOK
<1>2. vol.base \in Nat /\ vol.sector \in Nat
  BY Zenon, <1>1 DEF VolTyped
<1>3. known \in Int /\ known <= disk.len
  BY Zenon DEF Opened, Seated
<1>4. ASSUME NEW r \in Nat PROVE PadUnder(r) \in Int
  <2>1. 0 \in Nat /\ 0 \in Int
    OBVIOUS
  <2>2. 0 * vol.sector + r = r
    BY <1>2
  <2>3. SectorPad(r) \in Int
    BY Zenon, <1>1, <2>1, <2>2, PadPlace
  <2> QED
    BY Zenon, <2>1, <2>3 DEF PadUnder
<1> QED
  BY Zenon, <1>1, <1>2, <1>3, <1>4

\* The sectors around a part lie in those around the whole.
LEMMA CoverMono ==
  ASSUME VolTyped, NEW off \in Nat, NEW n \in Nat, NEW o \in Nat, NEW t \in Nat,
         off <= o, o + t <= off + n
  PROVE  /\ {Cover(off, n).at, Cover(off, n).span, Cover(o, t).at, Cover(o, t).span} \subseteq Nat
         /\ Cover(off, n).at <= Cover(o, t).at
         /\ Cover(o, t).at + Cover(o, t).span <= Cover(off, n).at + Cover(off, n).span
<1>1. PICK s \in Nat \ {0}, b \in Nat : s = vol.sector /\ b = vol.base
  BY Zenon DEF VolTyped
<1>2. ASSUME NEW x \in Nat, NEW m \in Nat
      PROVE  \E f \in Nat, e \in Nat : /\ f = (x \div s) * s /\ e = Ceil(x + m, s) * s /\ f <= e
                                      /\ Cover(x, m).at = b + f /\ Cover(x, m).span = e - f
  <2>1. x + m \in Nat
    OBVIOUS
  <2>2. PICK q \in Nat, p \in Nat, f \in Nat, e \in Nat :
          /\ q = x \div s /\ p = Ceil(x + m, s) /\ f = q * s /\ e = p * s /\ f <= x /\ x + m <= e
    BY Zenon, <2>1, Floor, CeilUp
  <2>3. (p - q) * s = e - f /\ f <= e
    BY <2>2
  <2>4. PICK c : c = Cover(x, m)
    BY Zenon
  <2>5. c = [at |-> b + f, tweak |-> vol.iv + q * vol.step, span |-> e - f, skip |-> x - f]
    BY Zenon, <1>1, <2>2, <2>3, <2>4 DEF Cover
  <2>6. c.at = b + f /\ c.span = e - f
    BY <2>5
  <2> QED
    BY Zenon, <2>2, <2>3, <2>4, <2>6
<1>3. PICK f \in Nat, e \in Nat : /\ f = (off \div s) * s /\ e = Ceil(off + n, s) * s /\ f <= e
                                /\ Cover(off, n).at = b + f /\ Cover(off, n).span = e - f
  BY Zenon, <1>2
<1>4. PICK f2 \in Nat, e2 \in Nat : /\ f2 = (o \div s) * s /\ e2 = Ceil(o + t, s) * s /\ f2 <= e2
                                  /\ Cover(o, t).at = b + f2 /\ Cover(o, t).span = e2 - f2
  BY Zenon, <1>2
<1>5. f <= f2 /\ e2 <= e
  <2>1. off + n \in Nat /\ o + t \in Nat
    OBVIOUS
  <2> QED
    BY Zenon, <1>3, <1>4, <2>1, FloorMono, CeilMono
<1>6. /\ {b + f, e - f, b + f2, e2 - f2} \subseteq Nat /\ b + f <= b + f2
      /\ (b + f2) + (e2 - f2) <= (b + f) + (e - f)
  BY <1>3, <1>4, <1>5
<1> QED
  BY Zenon, <1>3, <1>4, <1>6

\* What lies in the sectors around the request goes out to the blocks around them.
LEMMA BlocksAround ==
  ASSUME VolTyped, MediumOK, req # None, req.off \in Nat, req.len \in Nat,
         NEW c, c = Cover(req.off, req.len), NEW lo \in Nat, NEW m \in Nat,
         c.at <= lo, lo + m <= c.at + c.span
  PROVE  Outward(lo, lo + m) \subseteq Blocks
<1>1. req.off <= req.off /\ req.off + req.len <= req.off + req.len
  OBVIOUS
<1>2. PICK a \in Nat, n \in Nat : a = c.at /\ n = c.span
  BY Zenon, <1>1, CoverMono
<1>3. /\ a + n \in Nat /\ lo + m \in Nat /\ a <= a + n /\ a <= lo /\ lo <= lo + m /\ lo + m <= a + n
  BY <1>2
<1>4. Outward(lo, lo + m) \subseteq Outward(a, a + n)
  BY Zenon, <1>3, OutwardIs DEF MediumOK
<1>5. Blocks = Outward(a, a + n)
  BY Zenon, <1>2 DEF Blocks
<1> QED
  BY Zenon, <1>4, <1>5

\* The data of the next chunk.
Chunk == SubSeq(req.data, done + 1, done + Take)

\* A chunk on its way to the device.
LEMMA ChunkGoesOut ==
  ASSUME Opened, MediumOK, ReqOK, DoneOK, WriteAtChunk
  PROVE  \E at, data : /\ job' = [at |-> at, data |-> data, take |-> Take]
                       /\ Ciphers(at, data, req.off + done, Chunk)
                       /\ Len(data) > 0 => at + Len(data) <= disk.len
                       /\ \A j \in 1..Len(data) : at + j - 1 \in Blocks
<1>1. /\ req # None /\ req.op = "write" /\ done < req.len /\ done \in Nat
      /\ req.off \in Nat /\ req.len \in Nat /\ req.data \in [1..req.len -> Bytes] /\ vol # None
  BY Zenon, RequestIs DEF WriteAtChunk, ReqOK
<1>2. VolTyped /\ known \in Int /\ known <= disk.len
  BY Zenon, <1>1, VolumeIs
<1>3. Take \in Nat /\ done + Take <= req.len
  BY Zenon, <1>1, <1>2, TakeIs
<1>4. Chunk \in Seq(Bytes)
  BY Zenon, <1>1, <1>3, ChunkIs DEF Chunk, IsPart
<1>5. PICK out : /\ out = IF vol.luks THEN Sectors(req.off + done, Chunk)
                          ELSE [at |-> vol.base + req.off, data |-> Chunk]
                 /\ out # None /\ device_write(out.at, out.data) # None
                 /\ job' = [at |-> device_write(out.at, out.data).at,
                            data |-> device_write(out.at, out.data).data, take |-> Take]
  <2>1. PICK out : out = IF vol.luks THEN Sectors(req.off + done, Chunk)
                         ELSE [at |-> vol.base + req.off, data |-> Chunk]
    BY Zenon
  <2>2. PICK dev : /\ dev = IF out = None THEN None ELSE device_write(out.at, out.data)
                   /\ dev # None /\ job' = [at |-> dev.at, data |-> dev.data, take |-> Take]
    BY Zenon, <2>1 DEF WriteAtChunk, Chunk
  <2> QED
    BY Zenon, <2>1, <2>2
<1>6. req.off + done \in Nat
  BY <1>1
<1>7. Ciphers(out.at, out.data, req.off + done, Chunk)
  <2>1. CASE vol.luks
    BY Zenon, <1>2, <1>4, <1>5, <1>6, <2>1, SectorsAre
  <2>2. CASE ~vol.luks
    <3>1. done = 0 /\ req.off + done = req.off
      BY <1>1, <2>2 DEF DoneOK
    <3>2. out = [at |-> vol.base + req.off, data |-> Chunk]
      BY Zenon, <1>5, <2>2
    <3>3. out.at = vol.base + req.off /\ out.data = Chunk
      BY <3>2
    <3> QED
      BY Zenon, <1>1, <1>2, <1>4, <2>2, <3>1, <3>3, PlainCiphers
  <2> QED
    BY Zenon, <2>1, <2>2
<1>8. out.at \in Nat /\ out.data \in Seq(Bytes)
  BY Zenon, <1>7 DEF Ciphers
<1>9. PICK dev : dev = device_write(out.at, out.data)
  BY Zenon
<1>10. Carries(dev.at, dev.data, out.at, out.data)
  BY Zenon, <1>2, <1>5, <1>8, <1>9, DeviceWrite
<1>11. Ciphers(dev.at, dev.data, req.off + done, Chunk) /\ (Len(dev.data) > 0 => dev.at + Len(dev.data) <= disk.len)
  BY Zenon, <1>2, <1>4, <1>6, <1>7, <1>10, ToDevice
<1>12. PICK c : c = Cover(req.off, req.len)
  BY Zenon
<1>13. Len(Chunk) = Take /\ Take \in Nat
  <2>1. IsPart(Chunk, req.data, done, Take)
    BY Zenon, <1>1, <1>3, ChunkIs DEF Chunk
  <2> QED
    BY Zenon, <1>3, <2>1 DEF IsPart
<1>14. c.at <= out.at /\ out.at + Len(out.data) <= c.at + c.span
  <2>1. req.off <= req.off + done /\ (req.off + done) + Take <= req.off + req.len
    BY <1>1, <1>3
  <2>2. CASE vol.luks
    <3>1. out.at = Cover(req.off + done, Take).at /\ Len(out.data) = Cover(req.off + done, Take).span
      BY Zenon, <1>2, <1>4, <1>5, <1>6, <1>13, <2>2, SectorsAre
    <3>2. PICK o \in Nat, t \in Nat : o = req.off + done /\ t = Take
      BY Zenon, <1>6, <1>13
    <3>3. /\ Cover(req.off, req.len).at <= Cover(o, t).at
          /\ Cover(o, t).at + Cover(o, t).span <= Cover(req.off, req.len).at + Cover(req.off, req.len).span
      <4>1. req.off <= o /\ o + t <= req.off + req.len
        BY Zenon, <2>1, <3>2
      <4> QED
        BY Zenon, <1>1, <1>2, <4>1, CoverMono
    <3> QED
      BY Zenon, <1>12, <3>1, <3>2, <3>3
  <2>3. CASE ~vol.luks
    <3>1. out = [at |-> vol.base + req.off, data |-> Chunk]
      BY Zenon, <1>5, <2>3
    <3>2. out.at = vol.base + req.off /\ out.data = Chunk
      BY <3>1
    <3>3. PICK first \in Nat, r \in Nat, span \in Nat, skip \in Nat :
             /\ r = first * vol.sector /\ r + skip = req.off /\ skip + req.len <= span
             /\ Cover(req.off, req.len) = [at |-> vol.base + r, tweak |-> vol.iv + first * vol.step,
                                           span |-> span, skip |-> skip]
      <4>1. PICK x \in Nat, n \in Nat : x = req.off /\ n = req.len
        BY Zenon, <1>1
      <4> QED
        BY ZenonT(60), <1>2, <4>1, CoverIs
    <3>4. c.at = vol.base + r /\ c.span = span
      BY <1>12, <3>3
    <3>5. PICK b \in Nat : b = vol.base
      BY Zenon, <1>2 DEF VolTyped
    <3>6. Take <= req.len /\ req.off \in Nat
      BY <1>1, <1>3
    <3>7. b + r <= b + req.off /\ (b + req.off) + Take <= (b + r) + span
      <4>1. r + skip = req.off /\ skip + req.len <= span /\ Take <= req.len /\ req.len \in Nat /\ Take \in Nat
        BY Zenon, <1>1, <1>13, <3>3, <3>6
      <4> QED
        BY <4>1
    <3> QED
      BY Zenon, <1>13, <3>2, <3>4, <3>5, <3>7
  <2> QED
    BY Zenon, <2>2, <2>3
<1>15. Len(out.data) \in Nat
  BY <1>8
<1>16. Outward(out.at, out.at + Len(out.data)) \subseteq Blocks
  BY Zenon, <1>1, <1>2, <1>8, <1>12, <1>14, <1>15, BlocksAround
<1>17. Reaches(dev.at, dev.data, out.at, out.at + Len(out.data))
  BY Zenon, <1>2, <1>5, <1>8, <1>9, DeviceWrite
<1>18. \A j \in 1..Len(dev.data) : dev.at + j - 1 \in Blocks
  BY Zenon, <1>16, <1>17 DEF Reaches
<1> QED
  BY Zenon, <1>5, <1>9, <1>11, <1>18

\* The bound of a volume that its partition holds.
LEMMA BoundIs ==
  ASSUME Opened, vol # None, InVolume PROVE req.off + req.len <= vol.len
<1>1. vol.len \in Nat
  BY Zenon, VolumeIs
<1>2. vol.len \in Int
  BY <1>1
<1> QED
  BY Zenon, <1>2, NoneAssumption DEF InVolume

\* A cell of the request that is inside the device has the pad the volume knows.
LEMMA AdrPad ==
  ASSUME Opened, ReqOK, req # None, vol # None, InVolume, NEW k \in 1..req.len, Adr(k) \in Cells
  PROVE  /\ req.off + (k - 1) \in Nat /\ PadUnder(req.off + (k - 1)) \in Int
         /\ owner.pad[Adr(k)] = PadUnder(req.off + (k - 1))
<1>1. req.off \in Nat /\ req.len \in Nat /\ vol.base \in Nat /\ vol.len \in Nat
  BY Zenon, RequestIs, VolumeIs
<1>2. req.off + req.len <= vol.len
  BY Zenon, BoundIs
<1>3. /\ req.off + (k - 1) \in Nat /\ req.off + (k - 1) \in 0..(vol.len - 1)
      /\ vol.base + (req.off + (k - 1)) = vol.base + req.off + k - 1
  BY <1>1, <1>2
<1> QED
  BY Zenon, <1>3, VolumeIs DEF Adr

\* Where the request's cells are depends on the volume and the request alone.
LEMMA PlacesKept ==
  ASSUME UNCHANGED <<disk, owner, vol, req>>
  PROVE  /\ Cells' = Cells /\ (InVolume' <=> InVolume)
         /\ \A k : Adr(k)' = Adr(k)
         /\ \A k, v : Clear(Adr(k), v)' = Clear(Adr(k), v)
         /\ \A at, data, k : Puts(at, data, k)' <=> Puts(at, data, k)
<1>1. Cells' = Cells /\ (InVolume' <=> InVolume)
  BY Zenon DEF Cells, InVolume
<1>2. ASSUME NEW k PROVE Adr(k)' = Adr(k)
  BY Zenon DEF Adr
<1>3. ASSUME NEW k, NEW v PROVE Clear(Adr(k), v)' = Clear(Adr(k), v)
  BY Zenon, <1>2 DEF Clear
<1>4. ASSUME NEW at, NEW data, NEW k PROVE Puts(at, data, k)' <=> Puts(at, data, k)
  BY Zenon, <1>2, <1>3 DEF Puts
<1> QED
  BY Zenon, <1>1, <1>2, <1>3, <1>4

LEMMA BlocksKept == ASSUME UNCHANGED <<disk, vol, req>> PROVE Blocks' = Blocks
<1>1. ASSUME NEW off, NEW n PROVE Cover(off, n)' = Cover(off, n)
  BY Zenon DEF Cover
<1>2. ASSUME NEW lo, NEW hi PROVE Outward(lo, hi)' = Outward(lo, hi)
  BY Zenon DEF Outward
<1>3. PICK c : c = Cover(req.off, req.len)
  BY Zenon
<1>4. Cover(req.off, req.len)' = c
  BY Zenon, <1>1, <1>3
<1> QED
  BY Zenon, <1>2, <1>3, <1>4 DEF Blocks

\* What has landed stays while the medium does.
LEMMA LandedKept ==
  ASSUME UNCHANGED <<disk, owner, vol, req, medium>>
  PROVE  \A k : Landed(k)' <=> Landed(k)
<1>1. ASSUME NEW k PROVE Landed(k)' <=> Landed(k)
  <2>1. Adr(k)' = Adr(k) /\ Cells' = Cells
    BY Zenon, PlacesKept
  <2>2. medium[Adr(k)]' = medium[Adr(k)]
    BY Zenon, <2>1
  <2>3. Clear(Adr(k), medium[Adr(k)])' = Clear(Adr(k), medium[Adr(k)])
    BY Zenon, <2>1, <2>2 DEF Clear
  <2> QED
    BY Zenon, <2>1, <2>3 DEF Landed
<1> QED
  BY Zenon, <1>1

LEMMA HoldsKept ==
  ASSUME UNCHANGED <<disk, owner, vol, req, medium, done>>, NEW at, NEW data, NEW take,
         Holds(at, data, take)
  PROVE  Holds(at, data, take)'
<1>1. ASSUME NEW j \in 1..Len(data)
      PROVE  \/ data[j] = medium'[at + j - 1]
             \/ \E k \in 1..req'.len : at + j - 1 = Adr(k)' /\ Clear(Adr(k), data[j])' = req'.data[k]
  BY ZenonT(60), PlacesKept DEF Holds
<1>2. ASSUME NEW k \in done' + 1..done' + take
      PROVE  Landed(k)' \/ Puts(at, data, k)'
  BY Zenon, PlacesKept, LandedKept DEF Holds
<1> QED
  BY Zenon, <1>1, <1>2 DEF Holds

\* write_at_chunk hands pwrite_all its chunk and nothing else.
LEMMA ChunkStarts ==
  ASSUME Inv, WriteAtChunk
  PROVE  JobOK' /\ ReachOK'
<1>1. /\ Opened /\ MediumOK /\ ReqOK /\ DoneOK
      /\ req # None /\ req.op = "write" /\ InVolume /\ done < req.len /\ done \in Nat
      /\ req.off \in Nat /\ req.len \in Nat /\ req.data \in [1..req.len -> Bytes] /\ vol # None
      /\ UNCHANGED <<disk, owner, vol, req, medium, done>>
  BY Zenon, RequestIs DEF Inv, ReqOK, WriteAtChunk, opening
<1>2. PICK at, data : /\ job' = [at |-> at, data |-> data, take |-> Take]
                      /\ Ciphers(at, data, req.off + done, Chunk)
                      /\ Len(data) > 0 => at + Len(data) <= disk.len
                      /\ \A j \in 1..Len(data) : at + j - 1 \in Blocks
  BY Zenon, <1>1, ChunkGoesOut
<1>3. at \in Nat /\ data \in Seq(Bytes)
  BY Zenon, <1>2 DEF Ciphers
<1>4. VolTyped /\ vol.base \in Nat
  BY Zenon, <1>1, VolumeIs
<1>5. Take \in Nat /\ done + Take <= req.len /\ (vol.luks \/ done + Take = req.len)
  BY Zenon, <1>1, <1>4, TakeIs
<1>6. PICK t \in Nat, e \in Nat, l \in Nat, n \in Nat, r \in Nat, D \in Nat, d \in Nat, b \in Nat :
         /\ t = Take /\ l = Len(data) /\ n = req.len /\ D = disk.len /\ d = done /\ b = vol.base
         /\ r = req.off /\ e = vol.base + (req.off + done)
  <2>1. Len(data) \in Nat /\ vol.base + (req.off + done) \in Nat
    BY <1>1, <1>3, <1>4
  <2> QED
    BY Zenon, <1>1, <1>4, <1>5, <2>1 DEF MediumOK
<1>7. Len(Chunk) = t /\ \A k \in 1..t : Chunk[k] = req.data[d + k]
  <2>1. IsPart(Chunk, req.data, done, Take)
    BY Zenon, <1>1, <1>5, ChunkIs DEF Chunk
  <2> QED
    BY Zenon, <1>6, <2>1 DEF IsPart
<1>8. Cells = 0..(D - 1) /\ e = b + (r + d) /\ d + t <= n /\ (l > 0 => at + l <= D)
  BY Zenon, <1>2, <1>5, <1>6 DEF Cells
<1>9. ASSUME NEW j \in 1..l, at + j - e \in 1..t
      PROVE  /\ d + (at + j - e) \in 1..n /\ at + j - 1 = Adr(d + (at + j - e))
             /\ Clear(at + j - 1, data[j]) = req.data[d + (at + j - e)]
  <2>1. PICK k \in 1..t : k = at + j - e
    BY Zenon, <1>9
  <2>2. /\ d + k \in 1..n /\ at + j - 1 = b + r + (d + k) - 1 /\ at + j - 1 \in 0..(D - 1)
        /\ r + ((d + k) - 1) = r + d + (k - 1)
    BY <1>3, <1>8, <2>1
  <2>3. at + j - 1 = Adr(d + k)
    BY Zenon, <1>6, <2>2 DEF Adr
  <2>4. PICK P \in Int : P = PadUnder(r + d + (k - 1)) /\ owner.pad[at + j - 1] = P
    <3>1. d + k \in 1..req.len /\ Adr(d + k) \in Cells
      BY Zenon, <1>6, <1>8, <2>2, <2>3
    <3>2. /\ req.off + ((d + k) - 1) \in Nat /\ PadUnder(req.off + ((d + k) - 1)) \in Int
          /\ owner.pad[Adr(d + k)] = PadUnder(req.off + ((d + k) - 1))
      BY Zenon, <1>1, <3>1, AdrPad
    <3>3. PadUnder(r + ((d + k) - 1)) \in Int /\ owner.pad[Adr(d + k)] = PadUnder(r + ((d + k) - 1))
      BY Zenon, <1>6, <3>2
    <3> QED
      BY Zenon, <2>2, <2>3, <3>3
  <2>5. data[j] = (req.data[d + k] + P) % Modulus
    <3>1. data[j] = Cell(k, at + j - 1, req.off + done, Chunk)
      BY Zenon, <1>2, <1>6, <2>1 DEF Ciphers
    <3> QED
      BY Zenon, <1>6, <1>7, <2>4, <3>1 DEF Cell
  <2>6. req.data[d + k] \in Bytes
    BY Zenon, <1>1, <1>6, <2>2
  <2>7. Clear(at + j - 1, data[j]) = req.data[d + k]
    <3>1. PICK x \in Bytes : x = req.data[d + k]
      BY Zenon, <2>6
    <3>2. (((x + P) % Modulus) - P) % Modulus = x
      BY Zenon, ModBack
    <3>3. data[j] = (x + P) % Modulus
      BY Zenon, <2>5, <3>1
    <3>4. Clear(at + j - 1, data[j]) = (data[j] - P) % Modulus
      BY Zenon, <2>4 DEF Clear
    <3> QED
      BY Zenon, <3>1, <3>2, <3>3, <3>4
  <2> QED
    BY Zenon, <2>1, <2>2, <2>3, <2>7
<1>10. ASSUME NEW j \in 1..l
       PROVE  \/ data[j] = medium[at + j - 1]
              \/ \E k \in 1..n : at + j - 1 = Adr(k) /\ Clear(Adr(k), data[j]) = req.data[k]
  <2>1. CASE at + j - e \in 1..t
    <3>1. PICK k \in 1..n : /\ at + j - 1 = Adr(k) /\ Clear(at + j - 1, data[j]) = req.data[k]
      BY Zenon, <1>9, <2>1
    <3> QED
      BY Zenon, <3>1
  <2>2. CASE at + j - e \notin 1..t
    <3>1. data[j] = Cell(at + j - e, at + j - 1, req.off + done, Chunk)
      BY Zenon, <1>2, <1>6 DEF Ciphers
    <3> QED
      BY Zenon, <1>7, <2>2, <3>1 DEF Cell
  <2> QED
    BY Zenon, <2>1, <2>2
<1>11. ASSUME NEW k \in d + 1..d + t PROVE Puts(at, data, k)
  <2>1. PICK i \in 1..t : i = k - d
    OBVIOUS
  <2>2. PICK j \in 1..l : j = e + i - at
    BY Zenon, <1>2, <1>6, <1>7 DEF Ciphers
  <2>3. at + j - e = i /\ d + i = k /\ at + j - 1 = b + r + k - 1 /\ j = b + r + k - 1 - at + 1
    BY <1>3, <1>8, <2>1, <2>2
  <2>4. Adr(k) = b + r + k - 1
    BY Zenon, <1>6 DEF Adr
  <2>5. at + j - 1 = Adr(k) /\ j = Adr(k) - at + 1
    BY <1>3, <2>3, <2>4
  <2> QED
    BY ZenonT(60), <1>6, <1>9, <2>3, <2>5 DEF Puts
<1>12. Holds(at, data, Take)
  BY Zenon, <1>2, <1>6, <1>10, <1>11 DEF Holds
<1>13. Holds(at, data, t)'
  BY Zenon, <1>1, <1>6, <1>12, HoldsKept
<1>14. job' \in [at : Nat, data : Seq(Bytes), take : Nat] /\ job'.at = at /\ job'.data = data /\ job'.take = t
  BY <1>2, <1>3, <1>6
<1>15. done' + t <= req'.len /\ (vol'.luks \/ done' + t = req'.len)
  BY Zenon, <1>1, <1>5, <1>6
<1>16. InVolume'
  BY Zenon, <1>1, PlacesKept
<1>17. Bytes' = Bytes
  BY Zenon DEF Bytes
<1>18. ReachOK'
  BY Zenon, <1>1, <1>2, <1>14, BlocksKept DEF ReachOK
<1> QED
  BY Zenon, <1>1, <1>13, <1>14, <1>15, <1>16, <1>17, <1>18 DEF JobOK

\* A cell of the request that holds its value after a step has landed.
LEMMA LandsNow ==
  ASSUME UNCHANGED <<disk, owner, vol, req>>, NEW k, Adr(k) \in Cells,
         Clear(Adr(k), medium'[Adr(k)]) = req.data[k]
  PROVE  Landed(k)'
<1>1. Adr(k)' = Adr(k) /\ Cells' = Cells
  BY Zenon, PlacesKept
<1>2. Clear(Adr(k), medium[Adr(k)])' = Clear(Adr(k), medium'[Adr(k)])
  BY Zenon, <1>1 DEF Clear
<1> QED
  BY Zenon, <1>1, <1>2 DEF Landed

\* What one turn of pwrite_all does, with the job taken apart.
Turn(n, at, data, take, l) ==
  /\ at \in Nat /\ data \in Seq(Bytes) /\ take \in Nat /\ l \in Nat
  /\ l = Len(data) /\ n <= l /\ at + l <= disk.len /\ n \in 1..disk.len
  /\ done + take <= req.len /\ (vol.luks \/ done + take = req.len) /\ Holds(at, data, take)
  /\ \A c \in Cells : medium'[c] = IF c - at \in 0..(n - 1) THEN data[(c - at) + 1] ELSE medium[c]
  /\ \/ /\ n < l /\ done' = done
        /\ job' = [at |-> at + n, data |-> SubSeq(data, n + 1, l), take |-> take]
     \/ n = l /\ job' = None /\ done' = done + take

\* The facts about the request that the writes use.
Writing ==
  /\ Opened /\ MediumOK /\ ReqOK /\ req # None /\ vol # None /\ req.op = "write" /\ InVolume
  /\ req.off \in Nat /\ req.len \in Nat /\ done \in Nat /\ vol.base \in Nat /\ disk.len \in Nat
  /\ Cells = 0..(disk.len - 1)

LEMMA JobTurns ==
  ASSUME Inv, NEW n \in 1..disk.len, PWrite(n)
  PROVE  /\ Writing /\ UNCHANGED <<disk, known, table, vol, owner, req, calls, answer>>
         /\ medium' \in [Cells -> Bytes]
         /\ \E at, data, take, l : Turn(n, at, data, take, l)
<1>1. /\ Opened /\ MediumOK /\ ReqOK /\ JobOK /\ job # None /\ req # None /\ req.op = "write" /\ InVolume
      /\ UNCHANGED <<disk, known, table, vol, owner, req, calls, answer>>
  BY Zenon DEF Inv, PWrite, JobOK, opening
<1>2. Writing
  <2>1. req.off \in Nat /\ req.len \in Nat /\ vol # None
    BY Zenon, <1>1, RequestIs
  <2> QED
    BY Zenon, <1>1, <2>1, VolumeIs DEF Writing, ReqOK, MediumOK, Cells
<1>3. PICK at \in Nat, data \in Seq(Bytes), take \in Nat :
        job = [at |-> at, data |-> data, take |-> take]
  <2>1. job \in [at : Nat, data : Seq(Bytes), take : Nat]
    BY Zenon, <1>1 DEF JobOK
  <2> QED
    BY <2>1
<1>4. job.at = at /\ job.data = data /\ job.take = take
  BY <1>3
<1>5. /\ done + take <= req.len /\ (vol.luks \/ done + take = req.len) /\ Holds(at, data, take)
      /\ n <= Len(data)
      /\ medium' = [c \in Cells |-> IF c - at \in 0..(n - 1) THEN data[(c - at) + 1] ELSE medium[c]]
  BY Zenon, <1>1, <1>4 DEF JobOK, PWrite
<1>6. PICK l \in Nat, D \in Nat : l = Len(data) /\ D = disk.len
  <2>1. Len(data) \in Nat
    OBVIOUS
  <2> QED
    BY Zenon, <1>2, <2>1 DEF Writing
<1>7. n <= l /\ n \in 1..D /\ (l > 0 => at + l <= D)
  BY Zenon, <1>5, <1>6 DEF Holds
<1>8. at + l <= D /\ (~(n < l) => n = l)
  BY <1>7
<1>9. medium' \in [Cells -> Bytes]
  <2>1. ASSUME NEW c \in Cells, c - at \in 0..(n - 1) PROVE data[(c - at) + 1] \in Bytes
    <3>1. (c - at) + 1 \in 1..l
      <4>1. c \in 0..(D - 1)
        BY Zenon, <1>2, <1>6 DEF Writing
      <4> QED
        BY <1>7, <2>1, <4>1
    <3>2. \A j \in 1..Len(data) : data[j] \in Bytes
      OBVIOUS
    <3> QED
      BY Zenon, <1>6, <3>1, <3>2
  <2>2. \A c \in Cells : medium[c] \in Bytes
    BY Zenon, <1>1 DEF MediumOK
  <2> QED
    BY Zenon, <1>5, <2>1, <2>2
<1>10. \A c \in Cells : medium'[c] = IF c - at \in 0..(n - 1) THEN data[(c - at) + 1] ELSE medium[c]
  BY Zenon, <1>5
<1>11. \/ /\ n < l /\ done' = done
          /\ job' = [at |-> at + n, data |-> SubSeq(data, n + 1, l), take |-> take]
       \/ n = l /\ job' = None /\ done' = done + take
  <2>1. CASE n < l
    <3>1. job' = [job EXCEPT !.at = @ + n, !.data = SubSeq(@, n + 1, Len(@))] /\ done' = done
      BY Zenon, <1>4, <1>6, <2>1 DEF PWrite
    <3>2. job' = [at |-> at + n, data |-> SubSeq(data, n + 1, Len(data)), take |-> take]
      BY <1>3, <3>1
    <3> QED
      BY Zenon, <1>6, <2>1, <3>1, <3>2
  <2>2. CASE ~(n < l)
    BY Zenon, <1>4, <1>6, <1>8, <2>2 DEF PWrite
  <2> QED
    BY Zenon, <2>1, <2>2
<1>12. Turn(n, at, data, take, l)
  BY Zenon, <1>5, <1>6, <1>7, <1>8, <1>10, <1>11 DEF Turn
<1> QED
  BY Zenon, <1>1, <1>2, <1>9, <1>12

\* A turn of pwrite_all changes only cells of the request, to what the request says.
LEMMA TurnWrites ==
  ASSUME Writing, NEW n, NEW at, NEW data, NEW take, NEW l, Turn(n, at, data, take, l),
         NEW c \in Cells, medium'[c] # medium[c]
  PROVE  \E k \in 1..req.len : c = Adr(k) /\ Clear(c, medium'[c]) = req.data[k]
<1>1. PICK D \in Nat : D = disk.len
  BY Zenon DEF Writing
<1>2. /\ at \in Nat /\ l \in Nat /\ n \in 1..D /\ n <= l /\ l = Len(data)
      /\ c \in 0..(D - 1) /\ Holds(at, data, take)
      /\ c - at \in 0..(n - 1) /\ medium'[c] = data[(c - at) + 1]
  BY Zenon, <1>1 DEF Turn, Writing
<1>3. PICK j \in 1..l : j = (c - at) + 1 /\ at + j - 1 = c
  <2>1. (c - at) + 1 \in 1..l /\ at + ((c - at) + 1) - 1 = c
    BY <1>2
  <2> QED
    BY Zenon, <2>1
<1>4. \/ data[j] = medium[at + j - 1]
      \/ \E k \in 1..req.len : at + j - 1 = Adr(k) /\ Clear(Adr(k), data[j]) = req.data[k]
  BY Zenon, <1>2 DEF Holds
<1>5. PICK k \in 1..req.len : at + j - 1 = Adr(k) /\ Clear(Adr(k), data[j]) = req.data[k]
  BY Zenon, <1>2, <1>3, <1>4
<1> QED
  BY Zenon, <1>2, <1>3, <1>5

\* What has landed stays.
LEMMA TurnKeeps ==
  ASSUME Writing, NEW n, NEW at, NEW data, NEW take, NEW l, Turn(n, at, data, take, l),
         UNCHANGED <<disk, owner, vol, req>>, NEW k \in 1..req.len, Landed(k)
  PROVE  Landed(k)'
<1>1. PICK c \in Cells : c = Adr(k) /\ Clear(c, medium[c]) = req.data[k]
  BY Zenon DEF Landed
<1>2. CASE medium'[c] = medium[c]
  BY Zenon, <1>1, <1>2, LandsNow
<1>3. CASE medium'[c] # medium[c]
  <2>1. PICK i \in 1..req.len : c = Adr(i) /\ Clear(c, medium'[c]) = req.data[i]
    BY Zenon, <1>3, TurnWrites
  <2>2. vol.base \in Nat /\ req.off \in Nat /\ req.len \in Nat
    BY Zenon DEF Writing
  <2>3. i = k
    <3>1. vol.base + req.off + k - 1 = vol.base + req.off + i - 1
      BY Zenon, <1>1, <2>1 DEF Adr
    <3> QED
      BY <2>2, <3>1
  <2> QED
    BY Zenon, <1>1, <2>1, <2>3, LandsNow
<1> QED
  BY Zenon, <1>2, <1>3

\* What the chunk is to write has landed or is still in the job.
LEMMA TurnLands ==
  ASSUME Writing, NEW n, NEW at, NEW data, NEW take, NEW l, Turn(n, at, data, take, l),
         UNCHANGED <<disk, owner, vol, req>>, NEW k \in done + 1..done + take
  PROVE  \/ Landed(k)'
         \/ n < l /\ Puts(at + n, SubSeq(data, n + 1, l), k)'
<1>1. PICK D \in Nat, m \in Nat, d \in Nat : D = disk.len /\ m = req.len /\ d = done
  BY Zenon DEF Writing
<1>2. /\ at \in Nat /\ l \in Nat /\ n \in 1..D /\ n <= l /\ l = Len(data) /\ data \in Seq(Bytes)
      /\ take \in Nat /\ d + take <= m /\ at + l <= D /\ Cells = 0..(D - 1) /\ k \in d + 1..d + take
  BY Zenon, <1>1 DEF Turn, Writing
<1>3. k \in 1..m
  BY <1>2
<1>4. Landed(k) \/ Puts(at, data, k)
  BY Zenon DEF Turn, Holds
<1>5. CASE Landed(k)
  BY Zenon, <1>1, <1>3, <1>5, TurnKeeps
<1>6. CASE Puts(at, data, k)
  <2>1. PICK j \in 1..l : j = (Adr(k) - at) + 1 /\ Clear(Adr(k), data[j]) = req.data[k]
    BY Zenon, <1>2, <1>6 DEF Puts
  <2>2. PICK a \in Int : a = Adr(k)
    <3>1. vol.base \in Nat /\ req.off \in Nat
      BY Zenon DEF Writing
    <3>2. vol.base + req.off + k - 1 \in Int
      BY <1>3, <3>1
    <3> QED
      BY Zenon, <3>2 DEF Adr
  <2>3. j = (a - at) + 1
    BY Zenon, <2>1, <2>2
  <2>4. CASE j <= n
    <3>1. a \in 0..(D - 1) /\ a - at \in 0..(n - 1)
      BY <1>2, <2>3, <2>4
    <3>2. medium'[a] = data[j]
      BY Zenon, <1>2, <2>3, <3>1 DEF Turn
    <3> QED
      BY Zenon, <1>2, <2>1, <2>2, <3>1, <3>2, LandsNow
  <2>5. CASE ~(j <= n)
    <3>1. /\ n < l /\ (a - (at + n)) + 1 = j - n /\ j - n \in 1..(l - n) /\ Len(SubSeq(data, n + 1, l)) = l - n
          /\ SubSeq(data, n + 1, l)[j - n] = data[j]
      BY <1>2, <2>3, <2>5
    <3>2. Puts(at + n, SubSeq(data, n + 1, l), k)
      BY Zenon, <2>1, <2>2, <3>1 DEF Puts
    <3> QED
      BY Zenon, <3>1, <3>2, PlacesKept
  <2> QED
    BY Zenon, <2>4, <2>5
<1> QED
  BY Zenon, <1>4, <1>5, <1>6

\* What remains of a job after a turn is a job.
RestIs(rest, data, n, l) == rest = SubSeq(data, n + 1, l)

LEMMA TurnHolds ==
  ASSUME Writing, NEW n, NEW at, NEW data, NEW take, NEW l, Turn(n, at, data, take, l),
         UNCHANGED <<disk, owner, vol, req>>, n < l, NEW rest, RestIs(rest, data, n, l)
  PROVE  Holds(at + n, rest, take)'
<1>1. PICK D \in Nat : D = disk.len
  BY Zenon DEF Writing
<1>2. /\ at \in Nat /\ l \in Nat /\ n \in 1..D /\ n < l /\ l = Len(data) /\ data \in Seq(Bytes)
      /\ at + l <= D /\ Cells = 0..(D - 1) /\ Holds(at, data, take) /\ disk' = disk /\ req' = req
  BY Zenon, <1>1 DEF Turn, Writing
<1>3. done' = done
  <2>1. n # l
    BY <1>2
  <2> QED
    BY Zenon, <2>1 DEF Turn
<1>4. /\ Len(rest) = l - n /\ \A j \in 1..(l - n) : rest[j] = data[n + j] /\ n + j \in 1..l
      /\ at + n + (l - n) <= D
  <2>1. n \in Nat /\ l - n \in Nat /\ n + (l - n) = l /\ n + (l - n) <= l /\ at + n + (l - n) <= D
    BY <1>2
  <2>2. \A j \in 1..(l - n) : n + j \in 1..l
    BY <1>2
  <2>3. IsPart(rest, data, n, l - n)
    BY Zenon, <1>2, <2>1, PartIs DEF RestIs
  <2> QED
    BY Zenon, <2>1, <2>2, <2>3 DEF IsPart
<1>5. ASSUME NEW j \in 1..Len(rest)
      PROVE  \/ rest[j] = medium'[at + n + j - 1]
             \/ \E k \in 1..req'.len : at + n + j - 1 = Adr(k)' /\ Clear(Adr(k), rest[j])' = req'.data[k]
  <2>1. PICK i \in 1..l : i = n + j /\ rest[j] = data[i]
    BY Zenon, <1>4
  <2>2. /\ at + i - 1 = at + n + j - 1 /\ at + i - 1 \in 0..(D - 1)
        /\ (at + i - 1) - at \notin 0..(n - 1)
    <3>1. /\ i = n + j /\ i \in 1..l /\ j \in 1..(l - n)
          /\ at \in Nat /\ l \in Nat /\ n \in 1..D /\ at + l <= D
      BY Zenon, <1>2, <1>4, <2>1
    <3> QED
      BY <3>1
  <2>3. medium'[at + i - 1] = medium[at + i - 1]
    BY Zenon, <1>2, <2>2 DEF Turn
  <2>4. \/ data[i] = medium[at + i - 1]
        \/ \E k \in 1..req.len : at + i - 1 = Adr(k) /\ Clear(Adr(k), data[i]) = req.data[k]
    BY Zenon, <1>2 DEF Holds
  <2>5. CASE data[i] = medium[at + i - 1]
    BY Zenon, <2>1, <2>2, <2>3, <2>5
  <2>6. ASSUME NEW k \in 1..req.len, at + i - 1 = Adr(k), Clear(Adr(k), data[i]) = req.data[k]
        PROVE  k \in 1..req'.len /\ at + n + j - 1 = Adr(k)' /\ Clear(Adr(k), rest[j])' = req'.data[k]
    BY Zenon, <1>2, <2>1, <2>2, <2>6, PlacesKept
  <2> QED
    BY Zenon, <2>4, <2>5, <2>6
<1>6. ASSUME NEW k \in done' + 1..done' + take PROVE Landed(k)' \/ Puts(at + n, rest, k)'
  BY Zenon, <1>3, TurnLands DEF RestIs
<1>7. Len(rest) > 0 => at + n + Len(rest) <= disk'.len
  BY Zenon, <1>1, <1>2, <1>4
<1> QED
  BY Zenon, <1>5, <1>6, <1>7 DEF Holds

\* What is left of a job stays in the same blocks.
LEMMA TurnReaches ==
  ASSUME Inv, NEW n \in 1..disk.len, PWrite(n)
  PROVE  ReachOK'
<1>1. job # None /\ JobOK /\ ReachOK /\ n <= Len(job.data) /\ UNCHANGED <<disk, vol, req>>
  BY Zenon DEF Inv, PWrite, opening
<1>2. Blocks' = Blocks
  BY Zenon, <1>1, BlocksKept
<1>3. PICK at \in Nat, data \in Seq(Bytes), take \in Nat :
        job = [at |-> at, data |-> data, take |-> take]
  <2>1. job \in [at : Nat, data : Seq(Bytes), take : Nat]
    BY Zenon, <1>1 DEF JobOK
  <2> QED
    BY <2>1
<1>4. job.at = at /\ job.data = data
  BY <1>3
<1>5. PICK l \in Nat, m \in Nat : l = Len(data) /\ m = n
  <2>1. disk.len \in Nat
    BY Zenon DEF Inv, MediumOK
  <2> QED
    BY <2>1
<1>6. CASE m < l
  <2>1. job' = [job EXCEPT !.at = @ + n, !.data = SubSeq(@, n + 1, Len(@))]
    BY Zenon, <1>4, <1>5, <1>6 DEF PWrite
  <2>2. job'.at = at + m /\ job'.data = SubSeq(data, m + 1, l)
    BY SMTT(30), <1>3, <1>5, <2>1
  <2>3. Len(SubSeq(data, m + 1, l)) = l - m
    BY <1>5, <1>6
  <2>4. \A j \in 1..(l - m) : m + j \in 1..l /\ at + m + j - 1 = at + (m + j) - 1
    BY <1>6
  <2>5. \A j \in 1..l : at + j - 1 \in Blocks
    BY Zenon, <1>1, <1>4, <1>5 DEF ReachOK
  <2>6. \A j \in 1..(l - m) : at + m + j - 1 \in Blocks
    BY Zenon, <2>4, <2>5
  <2> QED
    BY Zenon, <1>2, <2>2, <2>3, <2>6 DEF ReachOK
<1>7. CASE ~(m < l)
  <2>1. job' = None
    BY Zenon, <1>4, <1>5, <1>7 DEF PWrite
  <2> QED
    BY Zenon, <2>1 DEF ReachOK
<1> QED
  BY Zenon, <1>6, <1>7

\* A turn of pwrite_all keeps the invariant of the write.
LEMMA PWriteKeeps ==
  ASSUME Inv, NEW n \in 1..disk.len, PWrite(n)
  PROVE  MediumOK' /\ ReqOK' /\ JobOK' /\ DoneOK'
<1>1. /\ Writing /\ UNCHANGED <<disk, known, table, vol, owner, req, calls, answer>>
      /\ medium' \in [Cells -> Bytes]
  BY Zenon, JobTurns
<1>2. PICK at, data, take, l : Turn(n, at, data, take, l)
  BY Zenon, JobTurns
<1>3. Cells' = Cells /\ InVolume' /\ Bytes' = Bytes
  BY Zenon, <1>1, PlacesKept DEF Writing, Bytes
<1>4. MediumOK'
  BY Zenon, <1>1, <1>3 DEF MediumOK, Writing
<1>5. DoneOK /\ \A k \in 1..done : Landed(k)
  BY Zenon, <1>1 DEF Inv, DoneOK, Writing
<1>6. PICK m \in Nat, d \in Nat : m = req.len /\ d = done
  BY Zenon, <1>1 DEF Writing
<1>7. /\ at \in Nat /\ l \in Nat /\ n \in Nat /\ take \in Nat /\ d + take <= m /\ data \in Seq(Bytes)
      /\ l = Len(data)
  <2>1. n \in Nat
    <3>1. disk.len \in Nat
      BY Zenon, <1>1 DEF Writing
    <3> QED
      BY <3>1
  <2> QED
    BY Zenon, <1>2, <1>6, <2>1 DEF Turn
<1>8. \A k \in 1..d : Landed(k)'
  <2>1. \A k \in 1..d : k \in 1..m
    BY <1>7
  <2> QED
    BY Zenon, <1>1, <1>2, <1>5, <1>6, <2>1, TurnKeeps
<1>9. CASE n < l
  <2>1. done' = done /\ job' = [at |-> at + n, data |-> SubSeq(data, n + 1, l), take |-> take]
    <3>1. n # l
      BY <1>7, <1>9
    <3> QED
      BY Zenon, <1>2, <3>1 DEF Turn
  <2>2. PICK rest : rest = SubSeq(data, n + 1, l)
    BY Zenon
  <2>3. Holds(at + n, rest, take)'
    BY Zenon, <1>1, <1>2, <1>9, <2>2, TurnHolds DEF RestIs
  <2>4. at + n \in Nat /\ rest \in Seq(Bytes)
    BY <1>7, <1>9, <2>2
  <2>5. /\ job' \in [at : Nat, data : Seq(Bytes), take : Nat]
        /\ job'.at = at + n /\ job'.data = rest /\ job'.take = take
    BY <1>7, <2>1, <2>2, <2>4
  <2>6. done' + take <= req'.len /\ (vol'.luks \/ done' + take = req'.len)
    BY Zenon, <1>1, <1>2, <2>1 DEF Turn
  <2>7. JobOK'
    BY Zenon, <1>1, <1>3, <2>3, <2>5, <2>6 DEF JobOK, Writing
  <2>8. DoneOK'
    BY Zenon, <1>1, <1>3, <1>5, <1>6, <1>8, <2>1 DEF DoneOK, Writing
  <2>9. ReqOK'
    BY Zenon, <1>1, <2>1 DEF ReqOK, Writing
  <2> QED
    BY Zenon, <1>4, <2>7, <2>8, <2>9
<1>10. CASE n = l
  <2>1. job' = None /\ done' = d + take
    <3>1. ~(n < l)
      BY <1>7, <1>10
    <3> QED
      BY Zenon, <1>2, <1>6, <3>1 DEF Turn
  <2>2. d + take \in Nat
    BY <1>7
  <2>3. ASSUME NEW k \in 1..d + take PROVE Landed(k)'
    <3>1. CASE k \in 1..d
      BY Zenon, <1>8, <3>1
    <3>2. CASE k \notin 1..d
      <4>1. k \in d + 1..d + take /\ ~(n < l)
        BY <1>7, <1>10, <3>2
      <4>2. k \in done + 1..done + take
        BY Zenon, <1>6, <4>1
      <4> QED
        BY Zenon, <1>1, <1>2, <4>1, <4>2, TurnLands
    <3> QED
      BY Zenon, <3>1, <3>2
  <2>4. done' <= req'.len /\ (vol'.luks \/ done' = req'.len)
    BY Zenon, <1>1, <1>2, <1>6, <2>1 DEF Turn
  <2>5. DoneOK'
    BY Zenon, <1>1, <1>3, <2>1, <2>3, <2>4 DEF DoneOK, Writing
  <2>6. JobOK' /\ ReqOK'
    BY Zenon, <1>1, <2>1, <2>2 DEF JobOK, ReqOK, Writing
  <2> QED
    BY Zenon, <1>4, <2>5, <2>6
<1> QED
  BY Zenon, <1>2, <1>9, <1>10 DEF Turn

-----------------------------------------------------------------------------
(* A read.                                                                    *)

\* The cells x, from cell r of the volume on, as the volume gives them.
IsClear(x, r, n) ==
  /\ x \in Seq(Bytes) /\ Len(x) = n
  /\ \A i \in 1..n : x[i] = (medium[vol.base + r + (i - 1)] - PadUnder(r + (i - 1))) % Modulus

\* Decrypted, or as it is, what a read fetched is what the volume holds.
LEMMA FetchedIs ==
  ASSUME Opened, MediumOK, vol # None, NEW first \in Nat, NEW r \in Nat, r = first * vol.sector,
         NEW got, NEW n \in Nat, Len(got) = n, Copied(got, vol.base + r)
  PROVE  IsClear(IF vol.luks THEN xts(got, vol.iv + first * vol.step, -1) ELSE got, r, n)
<1>1. /\ VolTyped /\ vol.base \in Nat /\ \A q \in Nat : PadUnder(q) \in Int
      /\ got \in Seq(Bytes) /\ \A i \in 1..n : got[i] = medium[vol.base + r + i - 1]
  BY Zenon, VolumeIs DEF Copied
<1>2. ASSUME NEW i \in 1..n
      PROVE  /\ got[i] = medium[vol.base + r + (i - 1)] /\ got[i] \in Bytes
             /\ r + (i - 1) \in Nat /\ PadUnder(r + (i - 1)) \in Int
  <2>1. r + (i - 1) \in Nat
    OBVIOUS
  <2>2. got[i] \in Bytes
    BY Zenon, <1>1, CellIs
  <2> QED
    BY Zenon, <1>1, <2>1, <2>2
<1>3. CASE vol.luks
  <2>1. PICK x : x = xts(got, vol.iv + first * vol.step, -1)
    BY Zenon
  <2>2. IsXts(x, got, r, n, -1)
    <3>1. -1 \in {1, -1}
      OBVIOUS
    <3> QED
      BY Zenon, <1>1, <2>1, <3>1, XtsIs
  <2>3. ASSUME NEW i \in 1..n
        PROVE  x[i] = (medium[vol.base + r + (i - 1)] - PadUnder(r + (i - 1))) % Modulus
    <3>1. PICK P \in Int, v \in Bytes : P = PadUnder(r + (i - 1)) /\ v = got[i]
      BY Zenon, <1>2
    <3>2. x[i] = (v + (-1) * P) % Modulus
      BY Zenon, <1>3, <2>2, <3>1 DEF IsXts, PadUnder
    <3>3. v + (-1) * P = v - P
      <4>1. v \in Int
        BY RequestsAssumption DEF Bytes
      <4> QED
        BY <4>1
    <3> QED
      BY Zenon, <1>2, <3>1, <3>2, <3>3
  <2> QED
    BY Zenon, <1>3, <2>1, <2>2, <2>3 DEF IsClear, IsXts
<1>4. CASE ~vol.luks
  <2>1. ASSUME NEW i \in 1..n
        PROVE  got[i] = (medium[vol.base + r + (i - 1)] - PadUnder(r + (i - 1))) % Modulus
    <3>1. PICK v \in Bytes : v = got[i]
      BY Zenon, <1>2
    <3>2. (v - 0) % Modulus = v
      <4>1. PICK M \in Nat \ {0} : M = Modulus
        BY Zenon, RequestsAssumption
      <4>2. \A w \in 0..(M - 1) : (w - 0) % M = w
        BY SMT
      <4> QED
        BY Zenon, <4>1, <4>2 DEF Bytes
    <3>3. PadUnder(r + (i - 1)) = 0
      BY Zenon, <1>4 DEF PadUnder
    <3> QED
      BY Zenon, <1>2, <3>1, <3>2, <3>3
  <2> QED
    BY Zenon, <1>1, <1>4, <2>1 DEF IsClear
<1> QED
  BY Zenon, <1>3, <1>4

\* A read gives what is there.
LEMMA ReadGives ==
  ASSUME Inv, Read, ~(vol.luks /\ req.len = 0)
  PROVE  /\ InVolume /\ \A k \in 1..req.len : Adr(k) \in Cells
         /\ answer'.data = [k \in 1..req.len |-> Clear(Adr(k), medium[Adr(k)])]
<1>1. /\ Opened /\ MediumOK /\ ReqOK /\ req # None /\ req.off \in Nat /\ req.len \in Nat /\ vol # None
  BY Zenon, RequestIs DEF Inv, Read
<1>2. VolTyped /\ vol.base \in Nat
  BY Zenon, <1>1, VolumeIs
<1>3. PICK first \in Nat, r \in Nat, span \in Nat, skip \in Nat :
        /\ r = first * vol.sector /\ r + skip = req.off /\ skip + req.len <= span
        /\ Cover(req.off, req.len) = [at |-> vol.base + r, tweak |-> vol.iv + first * vol.step,
                                      span |-> span, skip |-> skip]
  BY Zenon, <1>1, <1>2, CoverIs
<1>4. PICK c : c = Cover(req.off, req.len)
  BY Zenon
<1>5. c.at = vol.base + r /\ c.tweak = vol.iv + first * vol.step /\ c.span = span /\ c.skip = skip
  BY <1>3, <1>4
<1>6. PICK got : got = device_read(vol.base + r, span)
  BY Zenon
<1>7. PICK x : x = IF vol.luks THEN xts(got, vol.iv + first * vol.step, -1) ELSE got
  BY Zenon
<1>8. InVolume /\ Len(got) = span /\ answer' = [ok |-> TRUE, data |-> SubSeq(x, skip + 1, skip + req.len)]
  BY Zenon, <1>4, <1>5, <1>6, <1>7 DEF Read, Finish
<1>9. PICK b \in Nat, n \in Nat, off \in Nat, D \in Nat :
        b = vol.base /\ n = req.len /\ off = req.off /\ D = disk.len
  BY Zenon, <1>1, <1>2 DEF MediumOK
<1>10. Copied(got, vol.base + r)
  <2>1. vol.base + r \in Nat
    BY <1>2
  <2> QED
    BY Zenon, <1>1, <1>6, <1>8, <2>1, DeviceRead
<1>11. IsClear(x, r, span)
  BY Zenon, <1>1, <1>3, <1>7, <1>8, <1>10, FetchedIs
<1>12. /\ x \in Seq(Bytes) /\ Len(x) = span /\ r + skip = off /\ skip + n <= span
       /\ (span > 0 => b + r + span <= D) /\ Cells = 0..(D - 1)
  BY Zenon, <1>3, <1>8, <1>9, <1>10, <1>11 DEF IsClear, Copied, Cells
<1>13. ASSUME NEW k \in 1..n
       PROVE  Adr(k) \in Cells /\ x[skip + k] = Clear(Adr(k), medium[Adr(k)])
  <2>1. /\ skip + k \in 1..span /\ b + r + ((skip + k) - 1) = b + off + k - 1
        /\ b + off + k - 1 \in 0..(D - 1) /\ r + ((skip + k) - 1) = off + (k - 1)
    BY <1>12
  <2>2. Adr(k) = b + off + k - 1
    BY Zenon, <1>9 DEF Adr
  <2>3. x[skip + k] = (medium[Adr(k)] - PadUnder(off + (k - 1))) % Modulus
    <3>1. x[skip + k] = (medium[b + r + ((skip + k) - 1)] - PadUnder(r + ((skip + k) - 1))) % Modulus
      BY Zenon, <1>9, <1>11, <2>1 DEF IsClear
    <3> QED
      BY Zenon, <2>1, <2>2, <3>1
  <2>4. Adr(k) \in Cells
    BY Zenon, <1>12, <2>1, <2>2
  <2>5. owner.pad[Adr(k)] = PadUnder(off + (k - 1))
    BY Zenon, <1>1, <1>8, <1>9, <2>4, AdrPad
  <2> QED
    BY Zenon, <2>3, <2>4, <2>5 DEF Clear
<1>14. PICK y : y = SubSeq(x, skip + 1, skip + n)
  BY Zenon
<1>15. y \in Seq(Bytes) /\ Len(y) = n /\ \A k \in 1..n : y[k] = x[skip + k]
  <2>1. skip + n <= Len(x)
    BY Zenon, <1>12
  <2>2. IsPart(y, x, skip, n)
    BY Zenon, <1>12, <1>14, <2>1, PartIs
  <2> QED
    BY Zenon, <2>2 DEF IsPart
<1>16. y = [k \in 1..n |-> y[k]]
  BY <1>15
<1>17. answer'.data = y
  <2>1. answer' = [ok |-> TRUE, data |-> y]
    BY Zenon, <1>8, <1>9, <1>14
  <2> QED
    BY Zenon, <2>1
<1>18. y = [k \in 1..n |-> Clear(Adr(k), medium[Adr(k)])]
  BY Zenon, <1>13, <1>15, <1>16
<1> QED
  BY Zenon, <1>8, <1>9, <1>13, <1>17, <1>18

-----------------------------------------------------------------------------
(* The invariant.                                                             *)

LEMMA InitInv == ASSUME Init PROVE Inv
<1>1. disk \in Disks /\ owner = OwnerOf(disk) /\ known = None /\ table = None /\ vol = None
  BY Zenon DEF Init
<1>2. disk.len \in Nat /\ disk.align \in Nat
  BY Zenon, <1>1, DisksAssumption
<1>3. ASSUME NEW c \in Cells PROVE (c * c + 3) % Modulus \in Bytes
  <2>1. c \in Nat
    BY <1>2 DEF Cells
  <2>2. c * c + 3 \in Nat
    BY <2>1
  <2> QED
    BY Zenon, <2>2, RequestsAssumption, Floor DEF Bytes
<1>4. medium \in [Cells -> Bytes]
  BY Zenon, <1>3 DEF Init
<1>5. ReqOK /\ JobOK /\ DoneOK /\ ReachOK
  <2>1. 0 \in Nat
    OBVIOUS
  <2> QED
    BY Zenon, <2>1 DEF Init, ReqOK, JobOK, DoneOK, ReachOK
<1> QED
  BY Zenon, <1>1, <1>2, <1>4, <1>5 DEF Inv, Opened, Seated, MountedRight, VolOK, MediumOK

LEMMA MediumKept == ASSUME MediumOK, UNCHANGED <<disk, medium>> PROVE MediumOK'
<1>1. Cells' = Cells /\ Bytes' = Bytes
  BY Zenon DEF Cells, Bytes
<1> QED
  BY Zenon, <1>1 DEF MediumOK

\* The filesystem is asked nothing before a volume is mounted.
LEMMA NothingAsked ==
  ASSUME ReqOK, req = None, UNCHANGED <<req, done, job>>
  PROVE  ReqOK' /\ JobOK' /\ DoneOK' /\ ReachOK'
  BY Zenon DEF ReqOK, JobOK, DoneOK, ReachOK

\* A request that is answered leaves nothing behind.
LEMMA Answered ==
  ASSUME Inv, req' = None, job' = None, done' = 0, MediumOK', UNCHANGED <<opening, owner>>
  PROVE  Inv'
<1>1. 0 \in Nat
  OBVIOUS
<1>2. ReqOK' /\ JobOK' /\ DoneOK' /\ ReachOK'
  BY Zenon, <1>1 DEF ReqOK, JobOK, DoneOK, ReachOK
<1> QED
  BY Zenon, <1>2, OpenedFrame DEF Inv, opening

\* A write that fails underway leaves bytes, in the blocks around the request alone.
LEMMA TornIs ==
  ASSUME Inv, FailsTorn
  PROVE  /\ MediumOK' /\ req # None /\ req.op = "write" /\ InVolume
         /\ \A c \in Cells : medium'[c] # medium[c] => c \in Blocks
<1>1. PICK lo, hi \in job.at..(job.at + Len(job.data) - 1) : \E torn \in [lo..hi -> Junk] :
        medium' = [c \in Cells |-> IF c \in lo..hi THEN torn[c] ELSE medium[c]]
  BY Zenon DEF FailsTorn
<1>2. PICK torn \in [lo..hi -> Junk] : medium' = [c \in Cells |-> IF c \in lo..hi THEN torn[c] ELSE medium[c]]
  BY Zenon, <1>1
<1>3. /\ job # None /\ MediumOK /\ JobOK /\ ReachOK /\ disk' = disk
  BY Zenon DEF Inv, FailsTorn, opening
<1>4. MediumOK'
  <2>1. \A c \in lo..hi : torn[c] \in Bytes
    BY Zenon, RequestsAssumption DEF Bytes
  <2>2. medium' \in [Cells -> Bytes]
    BY Zenon, <1>2, <1>3, <2>1 DEF MediumOK
  <2>3. Cells' = Cells /\ Bytes' = Bytes
    BY Zenon, <1>3 DEF Cells, Bytes
  <2> QED
    BY Zenon, <1>3, <2>2, <2>3 DEF MediumOK
<1>5. ASSUME NEW c \in Cells, medium'[c] # medium[c] PROVE c \in Blocks
  <2>1. c \in lo..hi
    BY Zenon, <1>2, <1>5
  <2>2. PICK at \in Nat, data \in Seq(Bytes) : at = job.at /\ data = job.data
    <3>1. job \in [at : Nat, data : Seq(Bytes), take : Nat]
      BY Zenon, <1>3 DEF JobOK
    <3>2. job.at \in Nat /\ job.data \in Seq(Bytes)
      BY <3>1
    <3> QED
      BY Zenon, <3>2
  <2>3. PICK l \in Nat : l = Len(data)
    OBVIOUS
  <2>4. lo \in at..(at + l - 1) /\ hi \in at..(at + l - 1)
    BY Zenon, <1>1, <2>2, <2>3
  <2>5. PICK j \in 1..l : at + j - 1 = c
    <3>1. c \in at..(at + l - 1)
      BY <2>1, <2>4
    <3>2. (c - at) + 1 \in 1..l /\ at + ((c - at) + 1) - 1 = c
      BY <3>1
    <3> QED
      BY Zenon, <3>2
  <2> QED
    BY Zenon, <1>3, <2>2, <2>3, <2>5 DEF ReachOK
<1> QED
  BY Zenon, <1>3, <1>4, <1>5 DEF JobOK

\* A new request has written nothing.
LEMMA Asked == ASSUME Inv, NEW r \in Requests, Request(r) PROVE Inv'
<1>1. /\ vol # None /\ req = None /\ req' = r /\ UNCHANGED <<disk, known, table, vol, owner, medium, done, job>>
      /\ Opened /\ MediumOK /\ ReqOK
  BY Zenon DEF Inv, Request, opening
<1>2. done = 0 /\ job = None
  BY Zenon, <1>1 DEF ReqOK
<1>3. r.len \in Nat
  BY Zenon, RequestsAssumption
<1>4. 0 <= r.len /\ ~(0 > 0) /\ 1..0 = {} /\ 0 \in Nat
  BY <1>3
<1>5. ReqOK' /\ JobOK' /\ ReachOK'
  BY Zenon, <1>1, <1>2, <1>4 DEF ReqOK, JobOK, ReachOK
<1>6. DoneOK'
  BY Zenon, <1>1, <1>2, <1>4 DEF DoneOK
<1> QED
  BY Zenon, <1>1, <1>5, <1>6, MediumKept, OpenedFrame DEF Inv

\* What is done stays done while nothing is written.
LEMMA DoneKept ==
  ASSUME DoneOK, UNCHANGED <<disk, owner, vol, req, medium, done>> PROVE DoneOK'
<1>1. ASSUME NEW k \in 1..done', \A i \in 1..done : Landed(i) PROVE Landed(k)'
  BY Zenon, <1>1, LandedKept
<1>2. InVolume' <=> InVolume
  BY Zenon, PlacesKept
<1> QED
  BY Zenon, <1>1, <1>2 DEF DoneOK

LEMMA ChunkKeeps == ASSUME Inv, WriteAtChunk PROVE Inv'
<1>1. UNCHANGED <<disk, known, table, vol, owner, req, medium, done>> /\ req # None
  BY Zenon DEF WriteAtChunk, opening
<1>2. JobOK' /\ ReachOK'
  BY Zenon, ChunkStarts
<1>3. ReqOK'
  BY Zenon, <1>1 DEF Inv, ReqOK
<1> QED
  BY Zenon, <1>1, <1>2, <1>3, DoneKept, MediumKept, OpenedFrame DEF Inv

LEMMA StutterKeeps == ASSUME Inv, UNCHANGED vars PROVE Inv'
<1>1. UNCHANGED <<disk, known, table, vol, owner, req, medium, done, job>>
  BY Zenon DEF vars, opening
<1>2. InVolume' <=> InVolume
  BY Zenon, <1>1, PlacesKept
<1>3. JobOK'
  <2>1. PICK at, data, take : at = job.at /\ data = job.data /\ take = job.take
    BY Zenon
  <2>2. at = job'.at /\ data = job'.data /\ take = job'.take /\ Bytes' = Bytes
    BY Zenon, <1>1, <2>1 DEF Bytes
  <2>3. Holds(at, data, take) => Holds(at, data, take)'
    BY Zenon, <1>1, HoldsKept
  <2>4. job # None => Holds(at, data, take)
    BY Zenon, <2>1 DEF Inv, JobOK
  <2>5. job' # None => Holds(job.at, job.data, job.take)'
    BY Zenon, <1>1, <2>2, <2>3, <2>4
  <2> QED
    BY Zenon, <1>1, <1>2, <2>2, <2>5 DEF Inv, JobOK
<1>4. ReqOK' /\ ReachOK'
  BY Zenon, <1>1, BlocksKept DEF Inv, ReqOK, ReachOK
<1> QED
  BY Zenon, <1>1, <1>3, <1>4, DoneKept, MediumKept, OpenedFrame DEF Inv

\* A step of the opening: no volume was mounted before it.
LEMMA OpenKeeps ==
  ASSUME Inv, OpenStep, UNCHANGED <<owner, medium, req, done, job, calls, answer>>
  PROVE  /\ Inv' \/ Astray'
         /\ vol = None /\ UNCHANGED disk
<1>1. Opened /\ MediumOK /\ ReqOK
  BY Zenon DEF Inv
<1>2. ASSUME NEW lost, Scan(lost) PROVE Opened' /\ vol = None /\ UNCHANGED disk
  BY Zenon, <1>1, <1>2, ScanOpens DEF Scan, Opened, Seated
<1>3. ASSUME NEW i \in DOMAIN disk.parts, NEW lost, OpenPlain(i, lost)
      PROVE  Opened' /\ vol = None /\ UNCHANGED disk
  <2>1. MountedRight' /\ VolOK'
    BY Zenon, <1>1, <1>3, PlainOpens
  <2>2. table # None /\ vol = None /\ UNCHANGED <<disk, known, table>>
    BY Zenon, <1>3 DEF OpenPlain
  <2> QED
    BY Zenon, <1>1, <2>1, <2>2 DEF Opened, Seated, Unprotected
<1>4. ASSUME NEW i \in DOMAIN disk.parts, NEW pw, NEW lost, Unlock(i, pw, lost)
      PROVE  (Opened' \/ Astray') /\ vol = None /\ UNCHANGED disk
  <2>1. /\ MountedRight'
        /\ VolOK' \/ (vol' # None /\ vol'.base \in Nat /\ vol'.part \notin DOMAIN owner'.extent)
    BY Zenon, <1>1, <1>4, UnlockOpens
  <2>2. table # None /\ vol = None /\ UNCHANGED <<disk, known, table>>
    BY Zenon, <1>4 DEF Unlock
  <2>3. Seated'
    BY Zenon, <1>1, <2>1, <2>2 DEF Opened, Seated, Unprotected
  <2> QED
    BY Zenon, <2>1, <2>2, <2>3 DEF Opened, Astray
<1>5. (Opened' \/ Astray') /\ vol = None /\ UNCHANGED disk
  BY Zenon, <1>2, <1>3, <1>4 DEF OpenStep
<1>6. req = None
  BY Zenon, <1>1, <1>5 DEF ReqOK
<1> QED
  BY Zenon, <1>1, <1>5, <1>6, NothingAsked, MediumKept DEF Inv

LEMMA LengthKeeps ==
  ASSUME Inv, NEW d \in Claims, NEW fault \in BOOLEAN, OpenWritable(disk.len + d, fault)
  PROVE  Inv'
<1>1. Opened /\ MediumOK /\ ReqOK
  BY Zenon DEF Inv
<1>2. disk.len + d \in Int
  <2>1. disk.len \in Nat /\ d \in Int
    BY Zenon, <1>1, RequestsAssumption DEF MediumOK
  <2> QED
    BY <2>1
<1>3. Opened'
  BY Zenon, <1>1, <1>2, LengthConfirmed
<1>4. known = None /\ UNCHANGED <<disk, owner, vol, medium, req, done, job>>
  BY Zenon DEF OpenWritable
<1>5. req = None
  BY Zenon, <1>1, <1>4 DEF Opened, Seated, ReqOK
<1> QED
  BY Zenon, <1>1, <1>3, <1>4, <1>5, NothingAsked, MediumKept DEF Inv

LEMMA NextKeeps == ASSUME Inv, [Next]_vars PROVE Inv' \/ Astray'
<1>1. ASSUME NEW d \in Claims, NEW fault \in BOOLEAN, OpenWritable(disk.len + d, fault) PROVE Inv'
  BY Zenon, <1>1, LengthKeeps
<1>2. CASE OpenStep /\ UNCHANGED <<owner, medium, req, done, job, calls, answer>>
  BY Zenon, <1>2, OpenKeeps
<1>3. ASSUME NEW r \in Requests, Request(r) PROVE Inv'
  BY Zenon, <1>3, Asked
<1>4. CASE Read
  <2>1. req' = None /\ job' = None /\ done' = 0 /\ UNCHANGED <<opening, owner, medium>>
    BY Zenon, <1>4 DEF Read, Finish
  <2> QED
    BY Zenon, <2>1, Answered, MediumKept DEF Inv, opening
<1>5. CASE WriteReturns \/ Fails
  <2>1. req' = None /\ job' = None /\ done' = 0 /\ UNCHANGED <<opening, owner, medium>>
    BY Zenon, <1>5 DEF WriteReturns, Fails, Finish
  <2> QED
    BY Zenon, <2>1, Answered, MediumKept DEF Inv, opening
<1>6. CASE WriteAtChunk
  BY Zenon, <1>6, ChunkKeeps
<1>7. ASSUME NEW n \in 1..disk.len, PWrite(n) PROVE Inv'
  <2>1. UNCHANGED <<disk, known, table, vol, owner>>
    BY Zenon, <1>7, JobTurns
  <2> QED
    BY Zenon, <1>7, <2>1, PWriteKeeps, TurnReaches, OpenedFrame DEF Inv
<1>8. CASE UNCHANGED vars
  BY Zenon, <1>8, StutterKeeps
<1>9. CASE FailsTorn
  <2>1. req' = None /\ job' = None /\ done' = 0 /\ UNCHANGED <<opening, owner>>
    BY Zenon, <1>9 DEF FailsTorn, Finish
  <2> QED
    BY Zenon, <1>9, <2>1, TornIs, Answered
<1> QED
  BY Zenon, <1>1, <1>2, <1>3, <1>4, <1>5, <1>6, <1>7, <1>8, <1>9 DEF Next

\* A volume that its partition does not hold stays mounted.
LEMMA AstrayKept == ASSUME Astray, [Next]_vars PROVE Astray'
<1>1. vol # None /\ table # None /\ known # None
  BY Zenon DEF Astray, Seated
<1>2. UNCHANGED <<disk, known, table, vol, owner>>
  <2>1. \A d, fault : ~OpenWritable(d, fault)
    BY Zenon, <1>1 DEF OpenWritable
  <2>2. ~OpenStep
    <3>1. \A E : ~Scan(E)
      BY Zenon, <1>1 DEF Scan
    <3>2. \A i, E : ~OpenPlain(i, E)
      BY Zenon, <1>1 DEF OpenPlain
    <3>3. \A i, pw, E : ~Unlock(i, pw, E)
      BY ZenonT(60), <1>1 DEF Unlock
    <3> QED
      BY Zenon, <3>1, <3>2, <3>3 DEF OpenStep
  <2>3. ASSUME NEW r, Request(r) PROVE UNCHANGED <<opening, owner>>
    BY Zenon, <2>3 DEF Request
  <2>4. CASE Read \/ WriteAtChunk \/ WriteReturns \/ Fails \/ FailsTorn
    BY Zenon, <2>4 DEF Read, WriteAtChunk, WriteReturns, Fails, FailsTorn, opening
  <2>5. ASSUME NEW n, PWrite(n) PROVE UNCHANGED <<opening, owner>>
    BY Zenon, <2>5 DEF PWrite
  <2>6. CASE UNCHANGED vars
    BY Zenon, <2>6 DEF vars, opening
  <2> QED
    BY Zenon, <2>1, <2>2, <2>3, <2>4, <2>5, <2>6 DEF Next, opening
<1> QED
  BY Zenon, <1>2, SeatedFrame DEF Astray

-----------------------------------------------------------------------------
(* The flat store.                                                            *)

LEMMA FlatCell == \A c \in Cells : Flattened[c] = Clear(c, medium[c])
  BY Zenon DEF Flattened, Clear

LEMMA FlatKept ==
  /\ UNCHANGED <<disk, owner, medium>> => Flattened' = Flattened
  /\ UNCHANGED <<vol, owner>> => Extended' = Extended
<1>1. ASSUME UNCHANGED <<disk, owner, medium>> PROVE Flattened' = Flattened
  <2>1. Cells' = Cells
    BY Zenon, <1>1 DEF Cells
  <2> QED
    BY Zenon, <1>1, <2>1 DEF Flattened
<1>2. ASSUME UNCHANGED <<vol, owner>> PROVE Extended' = Extended
  BY Zenon, <1>2 DEF Extended
<1> QED
  BY Zenon, <1>1, <1>2

\* A mounted volume has an extent, which is the one it works in.
LEMMA MountedIs ==
  ASSUME Opened, vol # None
  PROVE  Extended # None /\ Extended.base = vol.base /\ Extended.size = vol.len
<1>1. vol.base \in Nat /\ vol.len \in Nat /\ owner.extent[vol.part] = [base |-> vol.base, size |-> vol.len]
  BY Zenon, VolumeIs
<1>2. PICK e : e = [base |-> vol.base, size |-> vol.len]
  BY Zenon
<1>3. e \in [base : Int, size : Int] /\ e.base = vol.base /\ e.size = vol.len
  BY <1>1, <1>2
<1>4. Extended = e
  BY Zenon, <1>1, <1>2 DEF Extended, Opened, VolOK
<1>5. [base : Int, size : Int] \subseteq [base : Int, size : Int \cup {None}]
  OBVIOUS
<1> QED
  BY Zenon, <1>3, <1>4, <1>5, NoneAssumption

\* One that its partition does not hold has no size.
LEMMA AstrayIs == ASSUME Astray PROVE F!Unbounded /\ Extended # None
<1>1. PICK e : e = [base |-> vol.base, size |-> None]
  BY Zenon
<1>2. Extended = e
  BY Zenon, <1>1 DEF Extended, Astray
<1>3. e \in [base : Int, size : Int \cup {None}] /\ e.size = None
  <2>1. vol.base \in Nat
    BY Zenon DEF Astray
  <2> QED
    BY <1>1, <2>1
<1>4. e # None
  BY Zenon, <1>3, NoneAssumption
<1> QED
  BY Zenon, <1>2, <1>3, <1>4 DEF F!Unbounded

LEMMA HasExtent == (Opened /\ vol # None) \/ Astray => Extended # None
  BY Zenon, MountedIs, AstrayIs

LEMMA HasExtentNext == ((Opened /\ vol # None) \/ Astray => Extended # None)'
  BY HasExtent, PTL

\* Opening a volume.
LEMMA OpenIsMount ==
  ASSUME Inv, OpenStep, UNCHANGED <<owner, medium, req, done, job, calls, answer>>
  PROVE  F!Mount \/ UNCHANGED <<Flattened, Extended, req, answer>>
<1>1. (Opened' \/ Astray') /\ vol = None /\ UNCHANGED disk
  BY Zenon, OpenKeeps DEF Inv
<1>2. Flattened' = Flattened /\ Extended = None
  BY Zenon, <1>1, FlatKept DEF Extended
<1>3. CASE vol' = None
  <2>1. Extended' = None
    BY Zenon, <1>3 DEF Extended
  <2> QED
    BY Zenon, <1>2, <2>1
<1>4. CASE vol' # None
  <2>1. Extended' # None
    BY Zenon, <1>1, <1>4, HasExtentNext
  <2> QED
    BY Zenon, <1>2, <2>1 DEF F!Mount
<1> QED
  BY Zenon, <1>3, <1>4

\* A turn of pwrite_all lands part of the write.
LEMMA TurnIsLand == ASSUME Inv, NEW n \in 1..disk.len, PWrite(n) PROVE F!Land
<1>1. Writing /\ UNCHANGED <<disk, vol, owner, req, answer>>
  BY Zenon, JobTurns
<1>2. PICK at, data, take, l : Turn(n, at, data, take, l)
  BY Zenon, JobTurns
<1>3. Extended' = Extended /\ Extended.base = vol.base /\ Extended.size = vol.len
  BY Zenon, <1>1, FlatKept, MountedIs DEF Writing
<1>4. Cells' = Cells /\ DOMAIN Flattened = Cells
  BY Zenon, <1>1, PlacesKept DEF Flattened
<1>5. \A k : F!Addr(k) = Adr(k)
  BY Zenon, <1>3 DEF F!Addr, Adr
<1>6. F!InRange
  BY Zenon, <1>1, <1>3, BoundIs DEF F!InRange, Writing
<1>7. ASSUME NEW c \in Cells, Flattened'[c] # Flattened[c]
      PROVE  \E k \in 1..req.len : c = Adr(k) /\ Flattened'[c] = req.data[k]
  <2>1. Flattened'[c] = Clear(c, medium'[c])
    BY Zenon, <1>1, <1>4 DEF Flattened, Clear
  <2>2. Flattened[c] = Clear(c, medium[c])
    BY Zenon, FlatCell
  <2>3. medium'[c] # medium[c]
    BY Zenon, <1>7, <2>1, <2>2
  <2>4. PICK k \in 1..req.len : c = Adr(k) /\ Clear(c, medium'[c]) = req.data[k]
    BY Zenon, <1>1, <1>2, <2>3, TurnWrites
  <2> QED
    BY Zenon, <2>1, <2>4
<1> QED
  BY Zenon, <1>1, <1>3, <1>4, <1>5, <1>6, <1>7 DEF F!Land, Writing

\* A request answered without changing anything.
LEMMA AnswerFrame ==
  ASSUME UNCHANGED <<opening, owner, medium>>
  PROVE  Flattened' = Flattened /\ Extended' = Extended
  BY Zenon, FlatKept DEF opening

LEMMA EmptyIs == ASSUME NEW f \in [1..0 -> {0}] PROVE f = << >>
  OBVIOUS

\* A read that succeeds.
LEMMA ReadSucceeds == ASSUME Inv, Read PROVE F!Succeed
<1>1. /\ Opened /\ req # None /\ req.op = "read" /\ req.len \in Nat /\ vol # None
      /\ req' = None /\ UNCHANGED <<opening, owner, medium>>
  BY Zenon, RequestIs DEF Inv, Read, Finish
<1>2. Flattened' = Flattened /\ Extended' = Extended /\ DOMAIN Flattened = Cells
  BY Zenon, <1>1, AnswerFrame DEF Flattened
<1>3. Extended.base = vol.base /\ Extended.size = vol.len
  BY Zenon, <1>1, MountedIs
<1>4. \A k : F!Addr(k) = Adr(k)
  BY Zenon, <1>3 DEF F!Addr, Adr
<1>5. answer'.ok
  <2>1. PICK data : answer' = [ok |-> TRUE, data |-> data]
    BY Zenon DEF Read, Finish
  <2> QED
    BY <2>1
<1>6. CASE vol.luks /\ req.len = 0
  <2>1. answer' = [ok |-> TRUE, data |-> << >>]
    BY Zenon, <1>6 DEF Read, Finish
  <2>2. answer'.data = << >> /\ ~(req.len > 0)
    BY <1>6, <2>1
  <2>3. [k \in 1..req.len |-> Flattened[F!Addr(k)]] = << >>
    <3>1. 1..req.len = {}
      BY <1>6
    <3>2. PICK f : f = [k \in 1..req.len |-> Flattened[F!Addr(k)]]
      BY Zenon
    <3>3. DOMAIN f = {} /\ f = [k \in DOMAIN f |-> f[k]]
      BY Zenon, <3>1, <3>2
    <3>4. f \in [1..0 -> {0}]
      BY <3>3
    <3> QED
      BY Zenon, <3>2, <3>4, EmptyIs
  <2> QED
    BY Zenon, <1>1, <1>2, <1>5, <2>2, <2>3 DEF F!Succeed
<1>7. CASE ~(vol.luks /\ req.len = 0)
  <2>1. /\ InVolume /\ \A k \in 1..req.len : Adr(k) \in Cells
        /\ answer'.data = [k \in 1..req.len |-> Clear(Adr(k), medium[Adr(k)])]
    BY Zenon, <1>7, ReadGives
  <2>2. F!InRange
    BY Zenon, <1>1, <1>3, <2>1, BoundIs DEF F!InRange
  <2>3. \A k \in 1..req.len : Flattened[F!Addr(k)] = Clear(Adr(k), medium[Adr(k)])
    BY Zenon, <1>4, <2>1, FlatCell
  <2>4. answer'.data = [k \in 1..req.len |-> Flattened[F!Addr(k)]]
    BY Zenon, <2>1, <2>3
  <2> QED
    BY Zenon, <1>1, <1>2, <1>4, <1>5, <2>1, <2>2, <2>4 DEF F!Succeed
<1> QED
  BY Zenon, <1>6, <1>7

\* A write that returns has landed as a whole.
LEMMA WriteSucceeds == ASSUME Inv, WriteReturns PROVE F!Succeed
<1>1. /\ Opened /\ DoneOK /\ req # None /\ req.op = "write" /\ req.len \in Nat /\ vol # None
      /\ done = req.len /\ req' = None /\ UNCHANGED <<opening, owner, medium>>
  BY Zenon, RequestIs DEF Inv, WriteReturns, Finish
<1>2. Flattened' = Flattened /\ Extended' = Extended /\ DOMAIN Flattened = Cells
  BY Zenon, <1>1, AnswerFrame DEF Flattened
<1>3. Extended.base = vol.base /\ Extended.size = vol.len
  BY Zenon, <1>1, MountedIs
<1>4. \A k : F!Addr(k) = Adr(k)
  BY Zenon, <1>3 DEF F!Addr, Adr
<1>5. answer'.ok
  BY DEF WriteReturns, Finish
<1>6. (done > 0 => InVolume) /\ \A k \in 1..done : Landed(k)
  BY Zenon, <1>1 DEF DoneOK
<1>7. req.len > 0 => F!InRange
  BY Zenon, <1>1, <1>3, <1>6, BoundIs DEF F!InRange
<1>8. \A k \in 1..req.len : F!Addr(k) \in Cells /\ Flattened[F!Addr(k)] = req.data[k]
  BY Zenon, <1>1, <1>4, <1>6, FlatCell DEF Landed
<1> QED
  BY Zenon, <1>1, <1>2, <1>5, <1>7, <1>8 DEF F!Succeed

\* A write that fails underway spoils nothing but the blocks around it.
LEMMA TornIsFail == ASSUME Inv, FailsTorn PROVE F!Fail
<1>1. /\ req # None /\ req.op = "write" /\ InVolume
      /\ \A c \in Cells : medium'[c] # medium[c] => c \in Blocks
  BY Zenon, TornIs
<1>2. Opened /\ vol # None /\ req' = None /\ UNCHANGED <<disk, vol, owner>>
  BY Zenon, <1>1, RequestIs DEF Inv, FailsTorn, Finish, opening
<1>3. ~answer'.ok
  BY DEF FailsTorn, Finish
<1>4. Extended' = Extended /\ Extended.size = vol.len
  BY Zenon, <1>2, FlatKept, MountedIs
<1>5. F!InRange
  BY Zenon, <1>1, <1>2, <1>4, BoundIs DEF F!InRange
<1>6. Cells' = Cells /\ DOMAIN Flattened = Cells
  BY Zenon, <1>2 DEF Cells, Flattened
<1>7. ASSUME NEW c \in Cells, Flattened'[c] # Flattened[c] PROVE c \in Blocks
  <2>1. Flattened'[c] = Clear(c, medium'[c]) /\ Flattened[c] = Clear(c, medium[c])
    BY Zenon, <1>2, <1>6 DEF Flattened, Clear
  <2>2. medium'[c] # medium[c]
    BY Zenon, <1>7, <2>1
  <2> QED
    BY Zenon, <1>1, <2>2
<1> QED
  BY Zenon, <1>1, <1>2, <1>3, <1>4, <1>5, <1>6, <1>7 DEF F!Fail

\* Every step is one of the flat store or changes nothing of it.
LEMMA StepIsFlat == ASSUME Inv, [Next]_vars PROVE [F!Next]_F!vars
<1>1. (UNCHANGED <<Flattened, Extended, req, answer>>) => UNCHANGED F!vars
  BY Zenon DEF F!vars
<1>2. (UNCHANGED <<disk, owner, medium, vol, req, answer>>) => UNCHANGED F!vars
  BY Zenon, <1>1, FlatKept
<1>3. ASSUME NEW d \in Claims, NEW fault \in BOOLEAN, OpenWritable(disk.len + d, fault)
      PROVE  UNCHANGED F!vars
  BY Zenon, <1>2, <1>3 DEF OpenWritable
<1>4. CASE OpenStep /\ UNCHANGED <<owner, medium, req, done, job, calls, answer>>
  BY Zenon, <1>1, <1>4, OpenIsMount DEF F!Next
<1>5. ASSUME NEW r \in Requests, Request(r) PROVE F!Next \/ UNCHANGED F!vars
  <2>1. vol # None /\ req = None /\ req' = r /\ UNCHANGED <<disk, owner, medium, vol, answer>>
    BY Zenon, <1>5 DEF Request, opening
  <2>2. Flattened' = Flattened /\ Extended' = Extended /\ Extended # None
    BY Zenon, <2>1, FlatKept, HasExtent DEF Inv
  <2>3. CASE req' = None
    BY Zenon, <1>2, <2>1, <2>3
  <2>4. CASE req' # None
    BY Zenon, <2>1, <2>2, <2>4 DEF F!Next, F!Ask
  <2> QED
    BY Zenon, <2>3, <2>4
<1>6. CASE Read \/ WriteReturns
  BY Zenon, <1>6, ReadSucceeds, WriteSucceeds DEF F!Next
<1>7. CASE WriteAtChunk
  BY Zenon, <1>2, <1>7 DEF WriteAtChunk, opening
<1>8. CASE Fails
  <2>1. req # None /\ req' = None /\ UNCHANGED <<opening, owner, medium>>
    BY Zenon, <1>8 DEF Fails, Finish
  <2>2. ~answer'.ok
    BY <1>8 DEF Fails, Finish
  <2> QED
    BY Zenon, <2>1, <2>2, AnswerFrame DEF F!Next, F!Fail
<1>9. ASSUME NEW n \in 1..disk.len, PWrite(n) PROVE F!Next
  BY Zenon, <1>9, TurnIsLand DEF F!Next
<1>10. CASE UNCHANGED vars
  BY Zenon, <1>2, <1>10 DEF vars, opening
<1>11. CASE FailsTorn
  BY Zenon, <1>11, TornIsFail DEF F!Next
<1> QED
  BY Zenon, <1>3, <1>4, <1>5, <1>6, <1>7, <1>8, <1>9, <1>10, <1>11 DEF Next

-----------------------------------------------------------------------------

\* For any disks of the kind DisksAssumption describes, any passwords and any failed
\* reads: what bridge.rs mounts is opened by the newest sound header, with a password
\* and the key of that header, LUKS is never mounted as plain, and the filesystem
\* mounted is there.
THEOREM OpensRight == Spec => []MountedRight
<1>1. Init => Inv
  BY Zenon, InitInv
<1>2. (Inv \/ Astray) /\ [Next]_vars => (Inv \/ Astray)'
  BY Zenon, NextKeeps, AstrayKept
<1>3. Inv \/ Astray => MountedRight
  BY Zenon DEF Inv, Opened, Astray, Seated
<1> QED
  BY <1>1, <1>2, <1>3, PTL DEF Spec

\* For any such disk, any geometry (sector and block sizes, partial blocks, segments,
\* IV offsets), any chunk size, any requests and any failure: a volume that lies in its
\* partition is a flat array of bytes.  What VolumeSource::write_at acknowledges has
\* landed where and as it says and what read_at gives is there, both as the owner of the
\* disk reads it; no write changes a byte it does not name, unless it fails, and then
\* none outside the cipher sectors and device blocks around it.  Of a volume whose
\* header puts the segment behind the end of its partition nothing is said.
THEOREM VolumeIsFlat == Spec => Flat
<1>1. Init => Inv
  BY Zenon, InitInv
<1>2. (Inv \/ Astray) /\ [Next]_vars => (Inv \/ Astray)' /\ [F!Next]_F!vars
  BY Zenon, NextKeeps, StepIsFlat, AstrayKept, AstrayIs DEF F!Next
<1>3. Init => F!Init
  BY Zenon DEF Init, F!Init, Extended
<1> QED
  BY <1>1, <1>2, <1>3, PTL DEF Spec, Flat, F!Spec
=============================================================================
