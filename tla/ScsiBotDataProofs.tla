-------------------------- MODULE ScsiBotDataProofs --------------------------
(***************************************************************************)
(* That reads and writes are true: what read_at hands over is what the drive *)
(* holds, what write_at acknowledges is on the drive and nothing else has    *)
(* changed, and no block outside the range of a write_at ever changes.  The  *)
(* argument is on top of the one of ScsiBotProofs: since a status with the   *)
(* host's tag is the one of its command, the counts of both sides tell       *)
(* whether the units between are the ones that were meant.                  *)
(***************************************************************************)
EXTENDS ScsiBotProofs

-----------------------------------------------------------------------------
(* Blocks of a request.                                                     *)

LEMMA Quotient ==
  ASSUME NEW b \in Nat, b > 0, NEW q \in Nat, NEW r \in 0..b - 1
  PROVE  (q * b + r) \div b = q
<1>1. PICK n \in Nat : n = q * b + r
  OBVIOUS
<1>2. PICK x \in Nat, s \in 0..b - 1 : x = n \div b /\ n = x * b + s
  BY DivMod
<1>3. CASE x < q
  <2>1. (x + 1) * b <= q * b
    BY <1>3
  <2>2. QED BY <1>1, <1>2, <2>1
<1>4. CASE q < x
  <2>1. (q + 1) * b <= x * b
    BY <1>4
  <2>2. QED BY <1>1, <1>2, <2>1
<1>5. QED BY <1>1, <1>2, <1>3, <1>4

\* The blocks of a command are as many as the rest of the request needs, or fewer.
LEMMA ChunkBlocks ==
  ASSUME off \in Addr, len \in 0..Size, off + len <= Size, NEW d \in 0..len, d < len
  PROVE  \E n \in Nat : Chunk(d).span = n * bs /\ (n - 1) * bs < Chunk(d).within + len - d
<1> DEFINE r  == (off + d) % bs
           m  == r + len - d
           up == (m + bs - 1) \div bs
<1>1. /\ bs \in Nat /\ bs > 0 /\ off \in Nat /\ len \in Nat /\ d \in Nat /\ d < len
      /\ MaxBlocks \in Nat
  BY ScsiAssumption DEF Addr, Size
<1>2. Chunk(d).span = Least(up, MaxBlocks) * bs /\ Chunk(d).within = r
  BY Zenon DEF Chunk
<1>3. r \in Nat
  BY <1>1
<1> HIDE DEF r
<1>4. m \in Nat
  BY <1>1, <1>3
<1> HIDE DEF m
<1>5. PICK k \in Nat : m <= k * bs
  BY <1>1, <1>4
<1>6. up \in Nat /\ up * bs <= m + bs - 1
  BY <1>1, <1>4, <1>5, RoundUp
<1> HIDE DEF up
<1>7. PICK n \in Nat : n = Least(up, MaxBlocks) /\ n <= up
  BY <1>1, <1>6 DEF Least
<1>8. n * bs <= up * bs
  BY <1>1, <1>6, <1>7
<1>9. (n - 1) * bs = n * bs - bs
  BY <1>1
<1>10. (n - 1) * bs < m
  BY <1>1, <1>4, <1>6, <1>8, <1>9
<1>11. QED BY Zenon, <1>2, <1>7, <1>10 DEF m

\* Every block of a command holds a unit of the request.
LEMMA ChunkTouches ==
  ASSUME off \in Addr, len \in 0..Size, off + len <= Size, NEW d \in 0..len, d < len,
         NEW a \in Chunk(d).lba * bs..Chunk(d).lba * bs + Chunk(d).span - 1
  PROVE  \E u \in Named : u \div bs = a \div bs
<1> DEFINE q == Chunk(d).lba
           w == Chunk(d).within
           s == Chunk(d).span
<1>1. q \in Nat /\ w \in 0..bs - 1 /\ s \in Nat /\ q * bs + w = off + d
  BY Zenon, ChunkFacts
<1>2. PICK n \in Nat : s = n * bs /\ (n - 1) * bs < w + len - d
  BY Zenon, ChunkBlocks
<1>3. bs \in Nat /\ bs > 0 /\ off \in Nat /\ len \in Nat /\ d \in Nat /\ d < len
  BY ScsiAssumption DEF Addr, Size
<1>4. a \in q * bs..q * bs + s - 1
  BY Zenon
<1> HIDE DEF q, w, s
<1>5. PICK x \in Nat : x = q * bs
  BY <1>1, <1>3
<1>6. a \in Nat /\ x <= a /\ a < x + s
  BY <1>1, <1>4, <1>5
<1>7. PICK m \in Nat, r \in 0..bs - 1 : m = a \div bs /\ a = m * bs + r
  BY <1>3, <1>6, DivMod
<1>8. CASE m <= q
  <2>1. m = q
    <3>1. q * bs < (m + 1) * bs
      BY <1>3, <1>5, <1>6, <1>7
    <3>2. QED BY <1>1, <1>3, <1>7, <1>8, <3>1
  <2>2. (off + d) \div bs = q
    <3>1. (q * bs + w) \div bs = q
      BY Zenon, <1>1, <1>3, Quotient
    <3>2. QED BY Zenon, <1>1, <3>1
  <2>3. off + d \in Named
    BY <1>3 DEF Named
  <2>4. QED BY Zenon, <1>7, <2>1, <2>2, <2>3
<1>9. CASE q < m
  <2>1. m < q + n
    <3>1. m * bs < (q + n) * bs
      BY <1>1, <1>2, <1>3, <1>5, <1>6, <1>7
    <3>2. QED BY <1>1, <1>3, <1>7, <3>1
  <2>2. m * bs <= (q + n - 1) * bs
    BY <1>1, <1>3, <1>7, <2>1
  <2>3. (q + n - 1) * bs = q * bs + (n - 1) * bs
    BY <1>1, <1>2, <1>3
  <2>4. m * bs < off + len
    BY <1>1, <1>2, <1>3, <1>7, <2>2, <2>3
  <2>5. (q + 1) * bs <= m * bs
    BY <1>1, <1>3, <1>7, <1>9
  <2>6. m * bs \in Named
    BY <1>1, <1>3, <1>7, <2>4, <2>5 DEF Named
  <2>7. (m * bs + 0) \div bs = m
    BY <1>3, <1>7, Quotient
  <2>8. QED BY <1>3, <1>7, <2>6, <2>7
<1>10. QED BY <1>1, <1>7, <1>8, <1>9

-----------------------------------------------------------------------------
(* The invariant.                                                           *)

\* The drive as the request should have left it after its first n units.
Mix(n) == [a \in Addr |-> IF a \in off..off + n - 1 THEN calls * Size + a ELSE before[a]]

\* How far the request is once its command has been carried out.
Ahead == done + Chunk(done).take

Touched(c) == c.lba * bs..c.lba * bs + c.len - 1

\* When as many units were returned as moved, they are in their places.
ReadTrue ==
  /\ Served /\ cmd.op = "read" /\ transferred = dcount =>
       \A i \in 1..transferred : inbuf[i] = image[cmd.lba * bs + i - 1]
  /\ phase = "answer" /\ answer = "ok" /\ cmd.op = "read" /\ transferred = cmd.len =>
       \A i \in 1..cmd.len : inbuf[i] = image[cmd.lba * bs + i - 1]

\* read_at so far.  Behind its first command no older write is left to disturb it.
Collected ==
  kind = "read" /\ (phase # "none" \/ result = "ok") =>
    /\ Len(collected) = done
    /\ \A i \in 1..done : collected[i] = image[off + i - 1]
    /\ done > 0 => dphase = "cbw" \/ dcmd.op # "write"
    /\ phase = "none" => done = len

\* The command of the request has not yet changed the drive, and nothing else will.
Undisturbed ==
  /\ outer = NoCmd
  /\ \/ phase \in {"chunk", "cbw"} /\ dphase = "cbw"
     \/ Served /\ ~(cmd.op = "write" /\ dphase = "status")
     \/ phase = "answer" /\ answer = "ok" /\ cmd.op = "read"

Mixed == kind = "write" /\ Undisturbed => image = Mix(done)

\* The blocks on their way to the drive: the caller's units and the neighbours' old ones.
Outgoing ==
  phase \in {"cbw", "data", "csw"} /\ cmd.op = "write" =>
    \A i \in 1..cmd.len : cmd.data[i] = Mix(Ahead)[cmd.lba * bs + i - 1]

\* When as many units arrived as were reported, they are the ones of the command.
Arrived ==
  Served /\ cmd.op = "write" =>
    /\ transferred <= Len(dgot)
    /\ transferred = Len(dgot) => \A i \in 1..transferred : dgot[i] = cmd.data[i]

\* A drive that states no residue has written all it received.
Committed ==
  Served /\ cmd.op = "write" /\ dphase = "status" /\ dstatus.status = "passed" /\ dstatus.residue = 0 =>
    /\ Len(dgot) = cmd.len
    /\ image = [a \in Addr |-> IF a \in Touched(cmd) THEN dgot[a - cmd.lba * bs + 1] ELSE Mix(done)[a]]

Answered ==
  phase = "answer" /\ answer = "ok" /\ cmd.op = "write" /\ transferred = cmd.len => image = Mix(Ahead)

\* Between two commands, and behind the last one, no older write is left.
Stored ==
  /\ phase = "chunk" /\ done > 0 => dphase = "cbw"
  /\ Passed("write") /\ len > 0 => dphase = "cbw" /\ done = len /\ image = Mix(len)

\* Only the blocks of write requests change.
Aimed ==
  /\ \A a \in Addr : image[a] # a => a \div bs \in aimed
  /\ kind = "write" => \A u \in Named : u \div bs \in aimed
  /\ dphase # "cbw" /\ dcmd.op = "write" => \A a \in Touched(dcmd) : a \div bs \in aimed

Moving == ReadTrue /\ Mixed /\ Arrived /\ Committed /\ Answered
DataInv == Collected /\ Outgoing /\ Stored /\ Aimed /\ Moving

-----------------------------------------------------------------------------
(* What most steps leave alone.                                             *)

\* The command out belongs to a request: a read or write command to a transfer.
LEMMA OfTransfer ==
  ASSUME BotInv
  PROVE  /\ phase \in Issued /\ cmd.op = "read" => kind \in {"read", "write"} /\ outer = NoCmd
         /\ phase \in Issued /\ cmd.op = "write" => kind = "write" /\ outer = NoCmd
         /\ phase = "chunk" => kind \in {"read", "write"}
         /\ phase \in Issued /\ outer # NoCmd => cmd.op = "sense"
<1>1. /\ phase \in Issued => Asked.op \in OpsOf(kind)
      /\ outer # NoCmd => cmd.op = "sense"
      /\ phase = "chunk" => kind \in {"read", "write"}
  BY Zenon DEF BotInv, Joint, Asking
<1>2. kind \in Kinds
  BY Zenon DEF BotInv, Typed, RequestTyped
<1>3. outer = NoCmd => Asked = cmd
  BY Zenon DEF Asked
<1>4. /\ "read" \in OpsOf(kind) => kind \in {"read", "write"}
      /\ "write" \in OpsOf(kind) => kind = "write"
  BY Zenon, <1>2 DEF OpsOf, Kinds, Optional
<1>5. QED BY Zenon, <1>1, <1>3, <1>4

\* A request that is not a transfer has no data to keep.
LEMMA OtherKinds ==
  ASSUME BotInv, kind \notin {"read", "write"}
  PROVE  Collected /\ Outgoing /\ Stored /\ Moving
<1>1. /\ phase # "chunk"
      /\ phase \in Issued => cmd.op # "read" /\ cmd.op # "write"
  BY Zenon, OfTransfer
<1>2. {"cbw", "data", "csw", "answer"} \subseteq Issued
  BY Zenon DEF Issued
<1>3. Served => phase \in Issued
  BY <1>2, Zenon DEF Served
<1>4. QED BY Zenon, <1>1, <1>2, <1>3 DEF Collected, Outgoing, Stored, Passed, Moving, ReadTrue, Mixed, Arrived,
                                Committed, Answered

\* The units a write command is to put on the drive are of blocks the request touches.
LEMMA CommandAimed ==
  ASSUME BotInv, Aimed, phase \in Issued, cmd.op = "write"
  PROVE  \A a \in Touched(cmd) : a \div bs \in aimed
<1>1. kind = "write" /\ outer = NoCmd
  BY Zenon, OfTransfer
<1>2. done < len /\ off + len <= Size /\ cmd.lba = Chunk(done).lba /\ cmd.len = Chunk(done).span
  BY Zenon, <1>1 DEF BotInv, Joint, Asking, Asked
<1>3. off \in Addr /\ len \in 0..Size /\ done \in 0..len
  BY Zenon DEF BotInv, Typed, RequestTyped
<1>4. SUFFICES ASSUME NEW a \in Touched(cmd) PROVE a \div bs \in aimed
  BY Zenon
<1>5. a \in Chunk(done).lba * bs..Chunk(done).lba * bs + Chunk(done).span - 1
  BY Zenon, <1>2 DEF Touched
<1>6. PICK u \in Named : u \div bs = a \div bs
  BY Zenon, <1>2, <1>3, <1>5, ChunkTouches
<1>7. QED BY Zenon, <1>1, <1>6 DEF Aimed

LEMMA SameRequest ==
  ASSUME UNCHANGED <<request, progress>>
  PROVE  /\ UNCHANGED <<kind, off, len, calls, before, aimed, done, collected, result>>
         /\ Mix(done)' = Mix(done) /\ Mix(Ahead)' = Mix(Ahead) /\ Mix(len)' = Mix(len)
         /\ Named' = Named
<1>1. UNCHANGED <<kind, off, len, calls, before, aimed, done, collected, result>>
  BY Zenon DEF request, progress
<1>2. Ahead' = Ahead
  BY Zenon, <1>1 DEF Ahead, Chunk
<1>3. Mix(done)' = Mix(done)
  BY Zenon, <1>1 DEF Mix
<1>4. Mix(Ahead)' = Mix(Ahead)
  BY Zenon, <1>1, <1>2 DEF Mix
<1>5. Mix(len)' = Mix(len)
  BY Zenon, <1>1 DEF Mix
<1>6. Named' = Named
  BY Zenon, <1>1 DEF Named
<1>7. QED BY Zenon, <1>1, <1>3, <1>4, <1>5, <1>6

\* A step of a command: the request is where it was, and the drive in its command, in the
\* host's, or in none.
LEMMA CommandFrame ==
  ASSUME BotInv, DataInv, UNCHANGED <<request, progress, image>>,
         phase \in Issued, phase' \in Issued,
         phase' \in {"cbw", "data", "csw"} /\ cmd'.op = "write"
           => cmd' = cmd /\ phase \in {"cbw", "data", "csw"},
         dphase' = "cbw" \/ (dphase # "cbw" /\ dcmd' = dcmd) \/ dcmd' = cmd
  PROVE  Collected' /\ Outgoing' /\ Stored' /\ Aimed'
<1>1. UNCHANGED <<kind, off, len, calls, before, aimed, done, collected, result>>
        /\ Mix(Ahead)' = Mix(Ahead) /\ Named' = Named
  BY Zenon, SameRequest
<1>2. phase # "none" /\ phase # "chunk" /\ phase' # "none" /\ phase' # "chunk"
  BY Zenon DEF Issued
<1>3. Collected'
  <2>1. kind = "read" => cmd.op # "write"
    BY Zenon, OfTransfer
  <2>2. QED BY Zenon, <1>1, <1>2, <2>1 DEF DataInv, Collected
<1>4. Outgoing'
  BY Zenon, <1>1 DEF DataInv, Outgoing
<1>5. Stored'
  BY Zenon, <1>2 DEF Stored, Passed
<1>6. Aimed'
  <2>1. cmd.op = "write" => \A a \in Touched(cmd) : a \div bs \in aimed
    BY Zenon, CommandAimed DEF DataInv
  <2>2. /\ \A a \in Addr : image'[a] # a => a \div bs \in aimed'
        /\ kind' = "write" => \A u \in Named' : u \div bs \in aimed'
    BY Zenon, <1>1 DEF DataInv, Aimed
  <2>3. dphase' # "cbw" /\ dcmd'.op = "write" => \A a \in Touched(dcmd)' : a \div bs \in aimed'
    BY Zenon, <1>1, <2>1 DEF DataInv, Aimed, Touched
  <2>4. QED BY Zenon, <2>2, <2>3 DEF Aimed
<1>7. QED BY Zenon, <1>3, <1>4, <1>5, <1>6

\* A step after which the host makes nothing of the data.
LEMMA Closed ==
  ASSUME ~Served', phase' # "chunk", phase' = "cbw" => outer' # NoCmd,
         phase' = "answer" => answer' # "ok"
  PROVE  Moving'
BY Zenon DEF Moving, ReadTrue, Mixed, Undisturbed, Arrived, Committed, Answered

\* A step that moves no units.
LEMMA Unmoved ==
  ASSUME Moving,
         UNCHANGED <<request, progress, image, cmd, outer, dcmd, dgot, dcount, dstatus, transferred, inbuf>>,
         phase \in {"data", "csw"}, phase' \in {"data", "csw"},
         dphase' = dphase \/ (cmd.op # "write" /\ dphase # "cbw")
  PROVE  Moving'
<1>1. UNCHANGED <<kind, off, len, calls, before, aimed, done, collected, result>>
        /\ Mix(done)' = Mix(done)
  BY Zenon, SameRequest
<1>2. Served' => Served
  BY Zenon DEF Served
<1>3. phase' # "chunk" /\ phase' # "cbw" /\ phase' # "answer"
  BY Zenon
<1>4. ReadTrue'
  BY Zenon, <1>2, <1>3 DEF Moving, ReadTrue
<1>5. Mixed'
  BY Zenon, <1>1, <1>2, <1>3 DEF Moving, Mixed, Undisturbed
<1>6. Arrived'
  BY Zenon, <1>2 DEF Moving, Arrived
<1>7. Committed'
  BY Zenon, <1>1, <1>2 DEF Moving, Committed, Touched
<1>8. Answered'
  BY Zenon, <1>3 DEF Answered
<1>9. QED BY Zenon, <1>4, <1>5, <1>6, <1>7, <1>8 DEF Moving

-----------------------------------------------------------------------------
(* The steps of a command.                                                  *)

\* A command fails.
LEMMA FailData ==
  ASSUME BotInv, DataInv, UNCHANGED <<request, progress, image, cmd>>,
         phase \in {"cbw", "data", "csw"}, phase' \in {"reset", "answer"},
         phase' = "answer" => answer' # "ok",
         dphase' = "cbw" \/ UNCHANGED <<dphase, dcmd>> \/ (dphase # "cbw" /\ dcmd' = dcmd)
  PROVE  DataInv'
<1>1. phase \in Issued /\ phase' \in Issued
  BY Zenon DEF Issued
<1>2. Collected' /\ Outgoing' /\ Stored' /\ Aimed'
  BY Zenon, <1>1, CommandFrame
<1>3. ~Served'
  BY Zenon DEF Served
<1>4. Moving'
  BY Zenon, <1>3, Closed
<1>5. QED BY Zenon, <1>2, <1>4 DEF DataInv

\* The drive takes the CBW.
LEMMA CbwTakenData ==
  ASSUME BotInv, DataInv, phase = "cbw", dphase = "cbw", Took, dcmd' = cmd, phase' \in {"data", "csw"},
         UNCHANGED <<request, progress, cmd, transferred, inbuf, outer>>
  PROVE  DataInv'
<1>1. phase \in Issued /\ phase' \in Issued
  BY Zenon DEF Issued
<1>2. image' = image /\ dcount' = 0 /\ dgot' = <<>> /\ Len(dgot') = 0
        /\ (cmd.op = "write" /\ dphase' = "status" => dstatus'.status = "failed")
  <2>1. Len(<<>>) = 0
    BY Zenon
  <2>2. QED BY Zenon, <2>1 DEF Took
<1>3. Collected' /\ Outgoing' /\ Stored' /\ Aimed'
  BY Zenon, <1>1, <1>2, CommandFrame
<1>4. transferred' = 0 /\ 1..transferred' = {}
  BY DEF BotInv, Joint, Answering
<1>5. phase' # "answer" /\ phase' # "chunk" /\ phase' # "cbw"
  BY Zenon
<1>6. ReadTrue'
  BY Zenon, <1>4, <1>5 DEF ReadTrue
<1>7. Mixed'
  <2>1. kind' = kind /\ Mix(done)' = Mix(done)
    BY Zenon, SameRequest
  <2>2. QED BY Zenon, <1>2, <1>5, <2>1 DEF DataInv, Moving, Mixed, Undisturbed
<1>8. Arrived'
  <2>1. transferred' <= Len(dgot')
    BY <1>2, <1>4
  <2>2. QED BY Zenon, <1>4, <2>1 DEF Arrived
<1>9. Committed'
  BY Zenon, <1>2 DEF Committed
<1>10. Answered'
  BY Zenon, <1>5 DEF Answered
<1>11. QED BY Zenon, <1>3, <1>6, <1>7, <1>8, <1>9, <1>10 DEF DataInv, Moving

LEMMA SendCbwData == ASSUME BotInv, DataInv, SendCbw PROVE DataInv'
<1>1. phase = "cbw" /\ UNCHANGED <<request, progress, cmd, transferred, inbuf, outer>>
  BY Zenon DEF SendCbw
<1>2. CASE /\ dphase = "cbw" /\ dcmd' = cmd /\ (RefusesCommand \/ AcceptsCommand)
           /\ phase' = (IF cmd.len > 0 THEN "data" ELSE "csw")
  BY Zenon, <1>1, <1>2, Refused, Accepted, CbwTakenData
<1>3. CASE /\ ~gone /\ dphase = "out" /\ phase' = (IF cmd.len > 0 THEN "data" ELSE "csw")
           /\ UNCHANGED <<drive, dphase, dcmd>>
  <2>1. phase \in Issued /\ phase' \in Issued /\ UNCHANGED image
    BY Zenon, <1>1, <1>3 DEF Issued, drive
  <2>2. Collected' /\ Outgoing' /\ Stored' /\ Aimed'
    BY Zenon, <1>1, <1>3, <2>1, CommandFrame
  <2>3. ~Served'
    BY Zenon, <1>1, <1>3, KeptIsOlder DEF Served
  <2>4. Moving'
    BY Zenon, <1>3, <2>3, Closed
  <2>5. QED BY Zenon, <2>2, <2>4 DEF DataInv
<1>4. CASE Fail(UsbError) /\ UNCHANGED <<bus, drive>>
  BY Zenon, <1>1, <1>4, FailData DEF Fail, bus, drive
<1>5. CASE Fail("usb") /\ UNCHANGED <<bus, drive>>
  BY Zenon, <1>1, <1>5, FailData DEF Fail, bus, drive
<1>6. CASE Answer("protocol") /\ AwaitsCbw /\ UNCHANGED drive
  BY Zenon, <1>1, <1>6, FailData DEF Answer, AwaitsCbw, drive
<1>7. QED BY Zenon, <1>2, <1>3, <1>4, <1>5, <1>6 DEF SendCbw

\* As many units were returned as moved: the new ones are behind the old ones.
LEMMA ReceivedTrue ==
  ASSUME BotInv, ReadTrue, phase = "data", cmd.op = "read", dphase = "in",
         NEW j \in 1..davail - dcount, NEW p \in 0..j, NEW g \in 0..p, Receives(j, p, g),
         transferred' = dcount'
  PROVE  \A i \in 1..transferred' : inbuf'[i] = image[cmd.lba * bs + i - 1]
<1>1. /\ dcmd = cmd /\ transferred <= dcount /\ transferred \in Nat /\ dcount \in Nat
      /\ cmd.lba \in Nat /\ davail \in Nat /\ dcount <= davail
  BY Zenon, SendsOwn DEF InOps
<1> DEFINE u(i) == Unit(dcount + (IF i > g THEN i + j - p ELSE i) - 1)
           e    == [i \in 1..p |-> u(i)]
<1>2. dcount' = dcount + j /\ transferred' = transferred + p /\ inbuf' = inbuf \o e
  BY Zenon DEF Receives, EntersData
<1>3. transferred = dcount /\ p = j
  BY <1>1, <1>2
<1>4. \A i \in 1..p : u(i) = image[cmd.lba * bs + (dcount + i - 1)]
  <2>1. SUFFICES ASSUME NEW i \in 1..p PROVE u(i) = image[cmd.lba * bs + (dcount + i - 1)]
    BY Zenon
  <2>2. dcount + (IF i > g THEN i + j - p ELSE i) - 1 = dcount + i - 1
    BY <1>1, <1>3
  <2>3. u(i) = Unit(dcount + i - 1)
    BY Zenon, <2>2
  <2>4. QED BY Zenon, <1>1, <2>3 DEF Unit
<1>5. \A i \in 1..p : u(i) \in Nat
  <2>1. SUFFICES ASSUME NEW i \in 1..p PROVE u(i) \in Nat
    BY Zenon
  <2>2. PICK k \in Nat : k = dcount + (IF i > g THEN i + j - p ELSE i) - 1 /\ k < davail
    BY <1>1, <1>3
  <2>3. Unit(k) \in UnitsOf(cmd.op)
    BY Zenon, <2>2, UnitsReceived DEF InOps
  <2>4. QED BY Zenon, <2>2, <2>3 DEF UnitsOf
<1> HIDE DEF u
<1>6. e \in Seq(Nat) /\ Len(e) = p /\ \A i \in 1..p : e[i] = u(i)
  BY <1>5
<1> HIDE DEF e
<1>7. inbuf \in Seq(Nat) /\ Len(inbuf) = transferred
  BY Zenon DEF BotInv, Typed, CommandTyped, UnitsOf
<1>8. \A i \in 1..transferred : inbuf[i] = image[cmd.lba * bs + i - 1]
  <2>1. Served
    BY Zenon, <1>1 DEF Served
  <2>2. QED BY Zenon, <1>3, <2>1 DEF ReadTrue
<1>9. SUFFICES ASSUME NEW i \in 1..transferred' PROVE inbuf'[i] = image[cmd.lba * bs + i - 1]
  BY Zenon
<1>10. CASE i <= transferred
  <2>1. i \in 1..transferred /\ inbuf'[i] = inbuf[i]
    BY <1>1, <1>2, <1>6, <1>7, <1>10
  <2>2. QED BY Zenon, <1>8, <2>1
<1>11. CASE i > transferred
  <2>1. PICK k \in 1..p : k = i - transferred
    BY <1>1, <1>2, <1>11
  <2>2. inbuf'[i] = e[k]
    BY <1>2, <1>6, <1>7, <1>11, <2>1
  <2>3. PICK x \in Nat : x = cmd.lba * bs
    BY <1>1, ScsiAssumption
  <2>4. x + (dcount + k - 1) = x + i - 1
    BY <1>1, <1>3, <2>1
  <2>5. QED BY Zenon, <1>4, <1>6, <2>2, <2>3, <2>4
<1>12. i <= transferred \/ i > transferred
  BY <1>1, <1>2
<1>13. QED BY Zenon, <1>10, <1>11, <1>12

LEMMA ReceivesData ==
  ASSUME BotInv, DataInv, phase = "data", cmd.op \in InOps, dphase = "in",
         NEW j \in 1..davail - dcount, NEW p \in 0..j, NEW g \in 0..p, Receives(j, p, g), InRead,
         phase' \in {"data", "csw"} \/ Fail("usb")
  PROVE  DataInv'
<1>1. UNCHANGED <<request, progress, cmd, outer, image>>
  BY Zenon DEF InRead
<1>2. UNCHANGED <<dcmd, dgot, dstatus>> /\ cmd.op # "write"
  BY Zenon DEF Receives, InOps
<1>3. CASE Fail("usb")
  BY Zenon, <1>1, <1>2, <1>3, FailData DEF Fail
<1>4. CASE phase' \in {"data", "csw"}
  <2>1. phase \in Issued /\ phase' \in Issued
    BY Zenon, <1>4 DEF Issued
  <2>2. Collected' /\ Outgoing' /\ Stored' /\ Aimed'
    BY Zenon, <1>1, <1>2, <2>1, CommandFrame
  <2>3. phase' # "answer" /\ phase' # "chunk" /\ phase' # "cbw"
    BY Zenon, <1>4
  <2>4. ReadTrue'
    <3>1. cmd.op = "read" /\ transferred' = dcount' =>
            \A i \in 1..transferred' : inbuf'[i] = image[cmd.lba * bs + i - 1]
      BY Zenon, ReceivedTrue DEF DataInv, Moving
    <3>2. QED BY Zenon, <1>1, <2>3, <3>1 DEF ReadTrue
  <2>5. Mixed'
    <3>1. kind' = kind /\ Mix(done)' = Mix(done)
      BY Zenon, <1>1, SameRequest
    <3>2. Served' => Served
      BY Zenon, <1>1, <1>2 DEF Served
    <3>3. QED BY Zenon, <1>1, <1>2, <2>3, <3>1, <3>2 DEF DataInv, Moving, Mixed, Undisturbed
  <2>6. Arrived' /\ Committed' /\ Answered'
    BY Zenon, <1>1, <1>2 DEF Arrived, Committed, Answered
  <2>7. QED BY Zenon, <2>2, <2>4, <2>5, <2>6 DEF DataInv, Moving
<1>5. QED BY Zenon, <1>3, <1>4

\* The data phase is over, with no more units.
LEMMA EndsData ==
  ASSUME BotInv, DataInv, phase = "data", phase' = "csw",
         UNCHANGED <<request, progress, image, cmd, outer, dcmd, dgot, dcount, dstatus, transferred, inbuf>>,
         dphase' = dphase \/ (cmd.op # "write" /\ dphase # "cbw")
  PROVE  DataInv'
<1>1. phase \in Issued /\ phase' \in Issued
  BY Zenon DEF Issued
<1>2. Collected' /\ Outgoing' /\ Stored' /\ Aimed'
  BY Zenon, <1>1, CommandFrame
<1>3. Moving'
  BY Zenon, Unmoved DEF DataInv
<1>4. QED BY Zenon, <1>2, <1>3 DEF DataInv

LEMMA ReadDataData == ASSUME BotInv, DataInv, ReadData PROVE DataInv'
<1>1. phase = "data" /\ cmd.op \in InOps /\ InRead
  BY Zenon DEF ReadData, Direction, InRead
<1>2. UNCHANGED <<request, progress, cmd, outer, image>> /\ cmd.op # "write"
  BY Zenon, <1>1 DEF InRead, InOps
<1>3. davail \in Nat /\ dcount \in 0..davail
  BY Zenon DEF BotInv, Typed, DriveTyped
<1>4. CASE /\ Sending /\ dcount < davail /\ Receives(davail - dcount, davail - dcount, 0)
           /\ phase' = (IF transferred' = cmd.len THEN "csw" ELSE "data")
  <2>1. PICK j \in 1..davail - dcount : j = davail - dcount
    BY <1>3, <1>4
  <2>2. j \in 0..j /\ 0 \in 0..j
    BY <1>3, <2>1
  <2>3. Receives(j, j, 0) /\ dphase = "in" /\ phase' \in {"data", "csw"}
    BY Zenon, <1>4, <2>1 DEF Sending
  <2>4. QED BY Zenon, <1>1, <2>2, <2>3, ReceivesData
<1>5. CASE /\ Sending
           /\ \E j \in 1..davail - dcount : \E p \in 0..j - 1 : \E g \in 0..p :
                /\ Receives(j, p, g)
                /\ IF p = 0 THEN Fail("usb") ELSE UNCHANGED <<phase, answer>>
  <2>1. PICK j \in 1..davail - dcount : \E p \in 0..j - 1 : \E g \in 0..p :
               /\ Receives(j, p, g)
               /\ IF p = 0 THEN Fail("usb") ELSE UNCHANGED <<phase, answer>>
    BY Zenon, <1>5
  <2>2. PICK p \in 0..j - 1 : \E g \in 0..p :
               /\ Receives(j, p, g)
               /\ IF p = 0 THEN Fail("usb") ELSE UNCHANGED <<phase, answer>>
    BY Zenon, <2>1
  <2>3. PICK g \in 0..p :
               /\ Receives(j, p, g)
               /\ IF p = 0 THEN Fail("usb") ELSE UNCHANGED <<phase, answer>>
    BY Zenon, <2>2
  <2>4. p \in 0..j
    BY <1>3
  <2>5. phase' \in {"data", "csw"} \/ Fail("usb")
    BY Zenon, <1>1, <2>3
  <2>6. QED BY Zenon, <1>1, <1>5, <2>3, <2>4, <2>5, ReceivesData DEF Sending
<1>6. CASE /\ Sending /\ dphase' = "status" /\ phase' = "csw"
           /\ UNCHANGED <<dcmd, dcount, dgot, dstatus, transferred, inbuf>>
  BY Zenon, <1>1, <1>2, <1>6, EndsData DEF Sending
<1>7. CASE AwaitsCbw /\ Fail("usb")
  BY Zenon, <1>1, <1>2, <1>7, FailData DEF Fail, AwaitsCbw
<1>8. CASE Fail(UsbError) /\ StillIn
  BY Zenon, <1>1, <1>2, <1>8, FailData DEF Fail, StillIn
<1>9. QED BY Zenon, <1>4, <1>5, <1>6, <1>7, <1>8 DEF ReadData

\* As many units arrived as were reported: the new ones are the next of the command.
LEMMA MovedTrue ==
  ASSUME BotInv, Arrived, Served, cmd.op = "write", NEW e \in Seq(Nat), NEW p \in Nat, Moves(e, p),
         transferred' = transferred + p
  PROVE  /\ transferred' <= Len(dgot')
         /\ transferred' = Len(dgot') => \A i \in 1..transferred' : dgot'[i] = cmd.data[i]
<1>1. /\ dgot' = dgot \o e /\ p \in 0..Len(e)
      /\ Len(e) = p => \A i \in 1..p : e[i] = cmd.data[transferred + i]
  BY Zenon DEF Moves
<1>2. /\ transferred <= Len(dgot)
      /\ transferred = Len(dgot) => \A i \in 1..transferred : dgot[i] = cmd.data[i]
  BY Zenon DEF Arrived
<1>3. dgot \in Seq(Nat) /\ transferred \in Nat
  BY Remaining DEF BotInv, Typed, DriveTyped
<1>4. Len(dgot') = Len(dgot) + Len(e) /\ Len(dgot) \in Nat /\ Len(e) \in Nat
  BY <1>1, <1>3, Joined, Zenon
<1>5. transferred' <= Len(dgot')
  BY <1>1, <1>2, <1>3, <1>4
<1>6. ASSUME transferred' = Len(dgot'), NEW i \in 1..transferred' PROVE dgot'[i] = cmd.data[i]
  <2>1. transferred = Len(dgot) /\ p = Len(e)
    BY <1>1, <1>2, <1>3, <1>4, <1>6
  <2>2. CASE i <= transferred
    <3>1. i \in 1..transferred /\ dgot'[i] = dgot[i]
      BY <1>1, <1>3, <1>6, <2>1, <2>2
    <3>2. QED BY Zenon, <1>2, <2>1, <3>1
  <2>3. CASE i > transferred
    <3>1. PICK k \in 1..p : k = i - transferred
      BY <1>3, <1>6, <2>3
    <3>2. dgot'[i] = e[k]
      BY <1>1, <1>3, <1>6, <2>1, <2>3, <3>1
    <3>3. transferred + k = i
      BY <1>3, <1>6, <3>1
    <3>4. QED BY Zenon, <1>1, <2>1, <3>2, <3>3
  <2>4. i <= transferred \/ i > transferred
    BY <1>3, <1>6
  <2>5. QED BY Zenon, <2>2, <2>3, <2>4
<1>7. QED BY Zenon, <1>5, <1>6

LEMMA MovesData ==
  ASSUME BotInv, DataInv, phase = "data", cmd.op = "write", dphase = "out",
         NEW e \in Seq(Nat), NEW p \in Nat, Moves(e, p), Sent(p),
         UNCHANGED <<request, progress, image, cmd, outer, dphase, dcmd>>
  PROVE  DataInv'
<1>1. transferred' = transferred + p
  BY Zenon DEF Sent
<1>2. CASE Fail("usb")
  BY Zenon, <1>2, FailData DEF Fail
<1>3. CASE phase' \in {"data", "csw"}
  <2>1. phase \in Issued /\ phase' \in Issued
    BY Zenon, <1>3 DEF Issued
  <2>2. Collected' /\ Outgoing' /\ Stored' /\ Aimed'
    BY Zenon, <2>1, CommandFrame
  <2>3. phase' # "answer" /\ phase' # "chunk" /\ phase' # "cbw" /\ dphase' # "status"
    BY Zenon, <1>3
  <2>4. Served' => Served
    BY Zenon DEF Served
  <2>5. Mixed'
    <3>1. kind' = kind /\ Mix(done)' = Mix(done)
      BY Zenon, SameRequest
    <3>2. QED BY Zenon, <2>3, <2>4, <3>1 DEF DataInv, Moving, Mixed, Undisturbed
  <2>6. Arrived'
    <3>1. Served => /\ transferred' <= Len(dgot')
                    /\ transferred' = Len(dgot') => \A i \in 1..transferred' : dgot'[i] = cmd.data[i]
      BY Zenon, <1>1, MovedTrue DEF DataInv, Moving
    <3>2. QED BY Zenon, <2>4, <3>1 DEF Arrived
  <2>7. ReadTrue' /\ Committed' /\ Answered'
    BY Zenon, <2>3 DEF ReadTrue, Committed, Answered
  <2>8. QED BY Zenon, <2>2, <2>5, <2>6, <2>7 DEF DataInv, Moving
<1>4. QED BY Zenon, <1>2, <1>3 DEF Sent

LEMMA SendDataData == ASSUME BotInv, DataInv, SendData PROVE DataInv'
<1>1. /\ phase = "data" /\ cmd.op = "write"
      /\ UNCHANGED <<request, progress, cmd, inbuf, outer, dphase, dcmd, dcount, dstatus, drive>>
  BY Zenon DEF SendData
<1>2. image' = image
  BY Zenon, <1>1 DEF drive
<1>3. CASE Taking /\ Taken
  <2>1. PICK e \in Seq(Nat), p \in Nat : Moves(e, p) /\ Sent(p)
    BY Zenon, <1>1, <1>3, SentUnits
  <2>2. QED BY Zenon, <1>1, <1>2, <1>3, <2>1, MovesData DEF Taking
<1>4. CASE phase' = "csw" /\ UNCHANGED <<dgot, transferred>>
  BY Zenon, <1>1, <1>2, <1>4, EndsData
<1>5. CASE Fail(UsbError)
  BY Zenon, <1>1, <1>2, <1>5, FailData DEF Fail
<1>6. QED BY Zenon, <1>1, <1>3, <1>4, <1>5 DEF SendData, Taken

-----------------------------------------------------------------------------
(* The CSW, the reset and the drive.                                        *)

\* The blocks of the next command of a transfer, in units.
LEMMA ChunkUnits ==
  ASSUME BotInv, off + len <= Size, done < len
  PROVE  \E x \in Nat : /\ x = Chunk(done).lba * bs /\ x + Chunk(done).within = off + done
                        /\ x + Chunk(done).span <= Size
                        /\ Chunk(done).within \in Nat /\ Chunk(done).span \in Nat
                        /\ Chunk(done).take \in Nat /\ Chunk(done).take > 0
                        /\ Chunk(done).within + Chunk(done).take <= Chunk(done).span
                        /\ Ahead \in done + 1..len /\ off \in Nat /\ done \in Nat /\ len \in Nat
                        /\ Ahead = done + Chunk(done).take
<1>1. off \in Addr /\ len \in 0..Size /\ done \in 0..len
  BY Zenon DEF BotInv, Typed, RequestTyped
<1>2. bs \in Nat /\ Size \in Nat
  BY ScsiAssumption DEF Size
<1>3. off \in Nat /\ len \in Nat /\ done \in Nat
  BY <1>1, <1>2 DEF Addr
<1>4. /\ Chunk(done).lba \in Nat /\ Chunk(done).within \in 0..bs - 1 /\ Chunk(done).span \in Nat
      /\ Chunk(done).lba * bs + Chunk(done).within = off + done
      /\ Chunk(done).lba * bs + Chunk(done).span <= Size
      /\ Chunk(done).take \in 1..len - done
      /\ Chunk(done).within + Chunk(done).take <= Chunk(done).span
  BY Zenon, <1>1, ChunkFacts
<1>5. PICK x \in Nat : x = Chunk(done).lba * bs
  BY <1>2, <1>4
<1>6. PICK t \in Nat : t = Chunk(done).take /\ t > 0 /\ t <= len - done
  BY <1>3, <1>4
<1>7. Ahead = done + t /\ Ahead \in done + 1..len
  BY <1>3, <1>6 DEF Ahead
<1>8. Chunk(done).within \in Nat
  BY <1>2, <1>4
<1>9. QED BY Zenon, <1>3, <1>4, <1>5, <1>6, <1>7, <1>8

\* Outside the units of the next command both mixes are the same.
LEMMA MixBeyond ==
  ASSUME BotInv, off + len <= Size, done < len, NEW a \in Addr, a \notin off + done..off + Ahead - 1
  PROVE  Mix(Ahead)[a] = Mix(done)[a]
<1>1. off \in Nat /\ done \in Nat /\ Ahead \in Nat /\ done < Ahead
  BY ChunkUnits
<1>2. a \in Int
  BY DEF Addr
<1>3. a \in off..off + Ahead - 1 <=> a \in off..off + done - 1
  BY <1>1, <1>2
<1>4. QED BY Zenon, <1>3 DEF Mix

\* Within them, the mix behind the command has the caller's unit.
LEMMA MixWithin ==
  ASSUME BotInv, off + len <= Size, done < len, NEW a \in off + done..off + Ahead - 1
  PROVE  a \in Addr /\ Mix(Ahead)[a] = calls * Size + a
<1>1. off \in Nat /\ done \in Nat /\ Ahead \in Nat /\ Ahead <= len /\ len \in Nat
  BY ChunkUnits
<1>2. a \in Addr /\ a \in off..off + Ahead - 1
  BY <1>1, Zero DEF Addr
<1>3. QED BY Zenon, <1>2 DEF Mix

\* The units of a command are in its blocks.
LEMMA ChunkHolds ==
  ASSUME BotInv, off + len <= Size, done < len
  PROVE  off + done..off + Ahead - 1
           \subseteq Chunk(done).lba * bs..Chunk(done).lba * bs + Chunk(done).span - 1
<1>1. PICK x \in Nat, w \in Nat, t \in Nat, s \in Nat :
             /\ x = Chunk(done).lba * bs /\ x + w = off + done /\ w + t <= s /\ s = Chunk(done).span
             /\ off \in Nat /\ done \in Nat /\ Ahead = done + t
  BY Zenon, ChunkUnits
<1>2. off + done..off + Ahead - 1 \subseteq x..x + s - 1
  BY <1>1
<1>3. QED BY Zenon, <1>1, <1>2

\* The blocks of the command have replaced the ones before.
LEMMA Overlaid ==
  ASSUME BotInv, phase \in Issued, cmd.op = "write", Len(dgot) = cmd.len,
         \A i \in 1..cmd.len : dgot[i] = Mix(Ahead)[cmd.lba * bs + i - 1],
         image = [a \in Addr |-> IF a \in Touched(cmd) THEN dgot[a - cmd.lba * bs + 1] ELSE Mix(done)[a]]
  PROVE  image = Mix(Ahead)
<1>1. kind = "write" /\ outer = NoCmd
  BY Zenon, OfTransfer
<1>2. done < len /\ off + len <= Size /\ cmd.lba = Chunk(done).lba /\ cmd.len = Chunk(done).span
  BY Zenon, <1>1 DEF BotInv, Joint, Asking, Asked
<1>3. PICK x \in Nat, s \in Nat : x = Chunk(done).lba * bs /\ s = cmd.len
  BY Zenon, <1>2, ChunkUnits
<1>4. x = cmd.lba * bs /\ Touched(cmd) = x..x + s - 1
  BY Zenon, <1>2, <1>3 DEF Touched
<1>5. ASSUME NEW a \in Addr PROVE image[a] = Mix(Ahead)[a]
  <2>1. a \in Int
    BY DEF Addr
  <2>2. CASE a \in Touched(cmd)
    <3>1. a \in x..x + s - 1
      BY Zenon, <1>4, <2>2
    <3>2. PICK i \in 1..s : i = a - x + 1 /\ x + i - 1 = a
      BY <2>1, <3>1
    <3>3. image[a] = dgot[i]
      BY Zenon, <1>4, <2>2, <3>2
    <3>4. QED BY Zenon, <1>3, <1>4, <3>2, <3>3
  <2>3. CASE a \notin Touched(cmd)
    <3>1. a \notin off + done..off + Ahead - 1
      BY Zenon, <1>2, <2>3, ChunkHolds DEF Touched
    <3>2. image[a] = Mix(done)[a]
      BY Zenon, <2>3
    <3>3. QED BY Zenon, <1>2, <3>1, <3>2, MixBeyond
  <2>4. QED BY Zenon, <2>2, <2>3
<1>6. image \in [Addr -> Nat] /\ Mix(Ahead) = [a \in Addr |-> Mix(Ahead)[a]]
  BY Zenon DEF BotInv, Typed, DriveTyped, Mix
<1>7. QED BY Zenon, <1>5, <1>6

\* The CSW says that the command was carried out.
LEMMA PassedData ==
  ASSUME BotInv, DataInv, phase = "csw", dphase = "status", CswVerdict = "passed", AwaitsCbw,
         Answer("ok"), SameCommand, UNCHANGED <<request, progress, image>>
  PROVE  DataInv'
<1>1. /\ phase' = "answer" /\ answer' = "ok" /\ dphase' = "cbw"
      /\ UNCHANGED <<cmd, transferred, inbuf, outer>>
  BY Zenon DEF Answer, AwaitsCbw, SameCommand
<1>2. phase \in Issued /\ phase' \in Issued
  BY Zenon, <1>1 DEF Issued
<1>3. Collected' /\ Outgoing' /\ Stored' /\ Aimed'
  BY Zenon, <1>1, <1>2, CommandFrame
<1>4. /\ dcmd.tag = cmd.tag /\ dstatus.status = "passed"
      /\ cmd.op = "write" => dstatus.residue = 0
  BY Zenon DEF CswVerdict
<1>5. dcmd = cmd /\ Served
  BY Zenon, <1>4, OwnStatus
<1>6. ~Served'
  BY Zenon, <1>1 DEF Served
<1>7. ReadTrue'
  <2>1. ASSUME cmd.op = "read", transferred = cmd.len PROVE transferred = dcount
    <3>1. /\ transferred <= dcount /\ davail <= cmd.len /\ dcount \in 0..davail /\ davail \in Nat
          /\ cmd.len \in Nat
      BY Zenon, <1>5, <2>1, CmdTypes DEF BotInv, Typed, DriveTyped, Joint, InStep, InCommand, InOps
    <3>2. QED BY <2>1, <3>1
  <2>2. QED BY Zenon, <1>1, <1>5, <1>6, <2>1 DEF DataInv, Moving, ReadTrue
<1>8. Mixed'
  <2>1. kind' = kind /\ Mix(done)' = Mix(done)
    BY Zenon, SameRequest
  <2>2. cmd.op = "read" /\ outer = NoCmd => Undisturbed
    BY Zenon, <1>5 DEF Undisturbed
  <2>3. Undisturbed' => cmd.op = "read" /\ outer = NoCmd
    BY Zenon, <1>1, <1>6 DEF Undisturbed
  <2>4. QED BY Zenon, <2>1, <2>2, <2>3 DEF DataInv, Moving, Mixed
<1>9. Answered'
  <2>1. ASSUME cmd.op = "write", transferred = cmd.len PROVE image = Mix(Ahead)
    <3>1. /\ Len(dgot) = cmd.len
          /\ image = [a \in Addr |-> IF a \in Touched(cmd) THEN dgot[a - cmd.lba * bs + 1] ELSE Mix(done)[a]]
      BY Zenon, <1>4, <1>5, <2>1 DEF DataInv, Moving, Committed
    <3>2. \A i \in 1..cmd.len : dgot[i] = cmd.data[i]
      BY Zenon, <1>5, <2>1, <3>1 DEF DataInv, Moving, Arrived
    <3>3. \A i \in 1..cmd.len : dgot[i] = Mix(Ahead)[cmd.lba * bs + i - 1]
      BY Zenon, <2>1, <3>2 DEF DataInv, Outgoing
    <3>4. QED BY Zenon, <1>2, <2>1, <3>1, <3>3, Overlaid
  <2>2. Mix(Ahead)' = Mix(Ahead)
    BY Zenon, SameRequest
  <2>3. QED BY Zenon, <1>1, <2>1, <2>2 DEF Answered
<1>10. Arrived' /\ Committed'
  BY Zenon, <1>6 DEF Arrived, Committed
<1>11. QED BY Zenon, <1>3, <1>7, <1>8, <1>9, <1>10 DEF DataInv, Moving

\* REQUEST SENSE takes the place of the failed command.
LEMMA AsksWhyData ==
  ASSUME BotInv, DataInv, phase = "csw", AwaitsCbw, Issue(tag, "sense", 0, 1, <<>>), outer' = cmd,
         UNCHANGED <<request, progress, image>>
  PROVE  DataInv'
<1>1. phase' = "cbw" /\ cmd'.op = "sense" /\ dphase' = "cbw"
  BY Zenon DEF Issue, AwaitsCbw
<1>2. phase \in Issued /\ phase' \in Issued
  BY Zenon, <1>1 DEF Issued
<1>3. Collected' /\ Outgoing' /\ Stored' /\ Aimed'
  BY Zenon, <1>1, <1>2, CommandFrame
<1>4. outer' # NoCmd
  BY Zenon, <1>2, CommandOut, NoCmdFacts
<1>5. ~Served'
  BY Zenon, <1>1 DEF Served
<1>6. Moving'
  BY Zenon, <1>1, <1>4, <1>5, Closed
<1>7. QED BY Zenon, <1>3, <1>6 DEF DataInv

\* The CSW is read again.
LEMMA RetryData ==
  ASSUME BotInv, DataInv, phase = "csw", RetryCsw, SameCommand, StillIn \/ AwaitsCbw,
         UNCHANGED <<request, progress, image>>
  PROVE  DataInv'
<1>1. UNCHANGED <<cmd, transferred, inbuf, outer>>
  BY Zenon DEF SameCommand
<1>2. CASE phase' = "reset"
  BY Zenon, <1>1, <1>2, FailData DEF StillIn, AwaitsCbw
<1>3. CASE phase' = "csw"
  <2>1. phase \in Issued /\ phase' \in Issued
    BY Zenon, <1>3 DEF Issued
  <2>2. CASE StillIn
    <3>1. UNCHANGED <<dphase, dcmd, dgot, dcount, dstatus>>
      BY Zenon, <2>2 DEF StillIn
    <3>2. Collected' /\ Outgoing' /\ Stored' /\ Aimed'
      BY Zenon, <1>1, <2>1, <3>1, CommandFrame
    <3>3. Moving'
      BY Zenon, <1>1, <1>3, <3>1, Unmoved DEF DataInv
    <3>4. QED BY Zenon, <3>2, <3>3 DEF DataInv
  <2>3. CASE AwaitsCbw
    <3>1. dphase' = "cbw" /\ ~Served'
      BY Zenon, <2>3 DEF AwaitsCbw, Served
    <3>2. Collected' /\ Outgoing' /\ Stored' /\ Aimed'
      BY Zenon, <1>1, <2>1, <3>1, CommandFrame
    <3>3. Moving'
      BY Zenon, <1>3, <3>1, Closed
    <3>4. QED BY Zenon, <3>2, <3>3 DEF DataInv
  <2>4. QED BY Zenon, <2>2, <2>3
<1>4. phase' = "reset" \/ phase' = "csw"
  BY Zenon DEF RetryCsw, Fail
<1>5. QED BY Zenon, <1>2, <1>3, <1>4

LEMMA ReadCswData == ASSUME BotInv, DataInv, ReadCsw PROVE DataInv'
<1>1. phase = "csw" /\ UNCHANGED <<request, progress, image>>
  BY Zenon DEF ReadCsw, drive
<1>2. CASE dphase = "status" /\ AwaitsCbw /\ DecodeCsw
  <2>1. dphase' = "cbw"
    BY Zenon, <1>2 DEF AwaitsCbw
  <2>2. CASE CswVerdict = "passed" /\ Answer("ok") /\ SameCommand
    BY Zenon, <1>1, <1>2, <2>2, PassedData
  <2>3. CASE Answer("protocol") /\ SameCommand
    BY Zenon, <1>1, <2>1, <2>3, FailData DEF Answer, SameCommand
  <2>4. CASE Fail("protocol") /\ SameCommand
    BY Zenon, <1>1, <2>1, <2>4, FailData DEF Fail, SameCommand
  <2>5. CASE Answer("failed") /\ SameCommand
    BY Zenon, <1>1, <2>1, <2>5, FailData DEF Answer, SameCommand
  <2>6. CASE Issue(tag, "sense", 0, 1, <<>>) /\ outer' = cmd
    BY Zenon, <1>1, <1>2, <2>6, AsksWhyData
  <2>7. QED BY Zenon, <1>2, <2>2, <2>3, <2>4, <2>5, <2>6 DEF DecodeCsw
<1>3. CASE Answer("gone") /\ SameCommand /\ StillIn
  BY Zenon, <1>1, <1>3, FailData DEF Answer, SameCommand, StillIn
<1>4. CASE RetryCsw /\ SameCommand /\ (StillIn \/ AwaitsCbw)
  BY Zenon, <1>1, <1>4, RetryData
<1>5. CASE Fail("usb") /\ SameCommand /\ StillIn
  BY Zenon, <1>1, <1>5, FailData DEF Fail, SameCommand, StillIn
<1>6. QED BY Zenon, <1>2, <1>3, <1>4, <1>5 DEF ReadCsw

\* SenseAnswered returns an error for the command.
LEMMA SenseAnsweredData == ASSUME BotInv, DataInv, SenseAnswered PROVE DataInv'
<1>1. /\ phase = "answer" /\ phase' = "answer" /\ answer' = "failed"
      /\ UNCHANGED <<request, progress, dphase, dcmd, image>>
  BY Zenon DEF SenseAnswered, bus, drive
<1>2. phase \in Issued /\ phase' \in Issued
  BY Zenon, <1>1 DEF Issued
<1>3. Collected' /\ Outgoing' /\ Stored' /\ Aimed'
  BY Zenon, <1>1, <1>2, CommandFrame
<1>4. ~Served'
  BY Zenon, <1>1 DEF Served
<1>5. Moving'
  BY Zenon, <1>1, <1>4, Closed
<1>6. QED BY Zenon, <1>3, <1>5 DEF DataInv

\* What the drive writes is in blocks that were aimed at.
LEMMA WrittenAimed ==
  ASSUME BotInv, Aimed, dphase = "out", NEW n \in Nat, n <= Len(dgot), NEW a \in Addr,
         Written(dcmd.lba, dgot, n)[a] # a
  PROVE  a \div bs \in aimed
<1>1. dcmd.op = "write" /\ davail <= dcmd.len /\ Len(dgot) <= davail
  BY Zenon DEF BotInv, Joint, InCommand, Typed, DriveTyped
<1>2. CASE a \in dcmd.lba * bs..dcmd.lba * bs + n - 1
  <2>1. dgot \in Seq(Nat) /\ davail \in Nat /\ dcmd.len \in Nat /\ dcmd.lba \in Nat
    BY Zenon, CmdTypes DEF BotInv, Typed, DriveTyped
  <2>2. PICK x \in Nat : x = dcmd.lba * bs
    BY <2>1, ScsiAssumption
  <2>3. n <= dcmd.len
    BY <1>1, <2>1
  <2>4. a \in x..x + dcmd.len - 1
    BY <1>2, <2>1, <2>2, <2>3 DEF Addr
  <2>5. QED BY Zenon, <1>1, <2>2, <2>4 DEF Aimed, Touched
<1>3. CASE a \notin dcmd.lba * bs..dcmd.lba * bs + n - 1
  BY Zenon, <1>3 DEF Aimed, Written
<1>4. QED BY Zenon, <1>2, <1>3

\* The drive writes blocks of a command it has kept or still serves: read_at has nothing yet.
LEMMA WriteGoesOn ==
  ASSUME BotInv, DataInv, dphase = "out", NEW n \in Nat, n <= Len(dgot),
         image' = Written(dcmd.lba, dgot, n), UNCHANGED <<request, progress>>,
         phase' = phase \/ (phase # "none" /\ phase' # "none"), dphase' = "cbw" \/ dcmd' = dcmd
  PROVE  Collected' /\ Aimed'
<1>1. UNCHANGED <<kind, off, len, calls, before, aimed, done, collected, result>> /\ Named' = Named
  BY Zenon, SameRequest
<1>2. dcmd.op = "write"
  BY Zenon DEF BotInv, Joint, InCommand
<1>3. done \in Nat
  BY Zero DEF BotInv, Typed, RequestTyped
<1>4. Collected'
  <2>1. SUFFICES ASSUME kind = "read", phase' # "none" \/ result = "ok"
                 PROVE  /\ Len(collected) = done
                        /\ \A i \in 1..done : collected[i] = image'[off + i - 1]
                        /\ done > 0 => dphase' = "cbw" \/ dcmd'.op # "write"
                        /\ phase' = "none" => done = len
    BY Zenon, <1>1 DEF Collected
  <2>2. phase # "none" \/ result = "ok"
    BY Zenon, <2>1
  <2>3. /\ Len(collected) = done /\ (phase = "none" => done = len)
        /\ ~(done > 0)
    BY Zenon, <1>2, <2>1, <2>2 DEF DataInv, Collected
  <2>4. 1..done = {}
    BY <1>3, <2>3
  <2>5. phase' = "none" => phase = "none"
    BY Zenon
  <2>6. QED BY Zenon, <2>3, <2>4, <2>5
<1>5. Aimed'
  <2>1. \A a \in Addr : image'[a] # a => a \div bs \in aimed
    BY Zenon, WrittenAimed DEF DataInv
  <2>2. QED BY Zenon, <1>1, <2>1 DEF DataInv, Aimed, Touched
<1>6. QED BY Zenon, <1>4, <1>5

\* A reset of a drive that was not receiving leaves it as it is.
LEMMA NothingWritten ==
  ASSUME BotInv, dphase # "out", NEW b \in 0..(IF dphase = "out" THEN Len(dgot) \div bs ELSE 0)
  PROVE  Written(dcmd.lba, dgot, b * bs) = image
<1>1. b = 0 /\ b * bs = 0
  BY ScsiAssumption
<1>2. PICK x \in Nat : x = dcmd.lba * bs
  BY CmdTypes, ScsiAssumption
<1>3. \A a \in Addr : a \notin x..x + 0 - 1
  BY DEF Addr
<1>4. image \in [Addr -> Nat]
  BY Zenon, TakenTypes
<1>5. Written(dcmd.lba, dgot, 0) = [a \in Addr |-> image[a]]
  BY Zenon, <1>2, <1>3 DEF Written
<1>6. QED BY Zenon, <1>1, <1>4, <1>5

LEMMA RecoverData == ASSUME BotInv, DataInv, Recover PROVE DataInv'
<1>1. /\ phase = "reset" /\ phase' = "answer"
      /\ UNCHANGED <<request, progress, cmd, transferred, inbuf, answer, outer>>
  BY Zenon DEF Recover
<1>2. phase \in Issued /\ phase' \in Issued
  BY Zenon, <1>1 DEF Issued
<1>3. answer' # "ok" /\ ~Served'
  <2>1. answer \in Errors
    BY Zenon, <1>1 DEF BotInv, Joint, Answering
  <2>2. QED BY <1>1, <2>1 DEF Errors, Served
<1>4. Moving'
  BY Zenon, <1>1, <1>3, Closed
<1>5. Outgoing' /\ Stored'
  BY Zenon, <1>1 DEF Outgoing, Stored, Passed
<1>6. CASE image' = image /\ (StillIn \/ AwaitsCbw)
  <2>1. Collected' /\ Outgoing' /\ Stored' /\ Aimed'
    BY Zenon, <1>1, <1>2, <1>6, CommandFrame DEF StillIn, AwaitsCbw
  <2>2. QED BY Zenon, <1>4, <2>1 DEF DataInv
<1>7. CASE /\ AwaitsCbw
           /\ \E b \in 0..(IF dphase = "out" THEN Len(dgot) \div bs ELSE 0) :
                image' = Written(dcmd.lba, dgot, b * bs)
  <2>1. PICK b \in 0..(IF dphase = "out" THEN Len(dgot) \div bs ELSE 0) :
               image' = Written(dcmd.lba, dgot, b * bs)
    BY Zenon, <1>7
  <2>2. CASE dphase # "out"
    BY Zenon, <1>6, <1>7, <2>1, <2>2, NothingWritten
  <2>3. CASE dphase = "out"
    <3>1. Len(dgot) \in Nat
      BY DEF BotInv, Typed, DriveTyped
    <3>2. b * bs \in Nat /\ b * bs <= Len(dgot)
      BY Zenon, <2>3, <3>1, WholeBlocks
    <3>3. Collected' /\ Aimed'
      BY Zenon, <1>1, <1>7, <2>1, <2>3, <3>2, WriteGoesOn DEF AwaitsCbw
    <3>4. QED BY Zenon, <1>4, <1>5, <3>3 DEF DataInv
  <2>4. QED BY Zenon, <2>2, <2>3
<1>8. QED BY Zenon, <1>6, <1>7 DEF Recover

\* The drive commits what it received: the last step of a write, or of one that the host gave up.
LEMMA DriveCommitsData == ASSUME BotInv, DataInv, DriveCommits PROVE DataInv'
<1>1. /\ dphase = "out" /\ dphase' = "status" /\ Len(dgot) = davail
      /\ UNCHANGED <<request, progress, hostcmd, dcmd, dgot, dcount>>
  BY Zenon DEF DriveCommits
<1>2. UNCHANGED <<cmd, phase, transferred, inbuf, answer, outer>>
  BY Zenon, <1>1 DEF hostcmd
<1>3. PICK b \in 0..Len(dgot) \div bs :
             /\ image' = Written(dcmd.lba, dgot, b * bs)
             /\ dstatus'.residue = dcmd.len - b * bs
  BY DEF DriveCommits
<1>4. Len(dgot) \in Nat
  BY DEF BotInv, Typed, DriveTyped
<1>5. b * bs \in Nat /\ b * bs <= Len(dgot)
  BY Zenon, <1>4, WholeBlocks
<1>6. Collected' /\ Aimed'
  BY Zenon, <1>1, <1>2, <1>3, <1>5, WriteGoesOn
<1>7. /\ UNCHANGED <<kind, off, len, calls, before, aimed, done, collected, result>>
      /\ Mix(done)' = Mix(done) /\ Mix(Ahead)' = Mix(Ahead)
  BY Zenon, <1>1, SameRequest
<1>8. Outgoing'
  BY Zenon, <1>2, <1>7 DEF DataInv, Outgoing
<1>9. dcmd.op = "write" /\ davail <= dcmd.len
  BY Zenon, <1>1 DEF BotInv, Joint, InCommand, Typed, DriveTyped
<1>10. Stored'
  <2>1. ~(phase = "chunk" /\ done > 0) /\ ~(Passed("write") /\ len > 0)
    BY Zenon, <1>1 DEF DataInv, Stored
  <2>2. QED BY Zenon, <1>2, <1>7, <2>1 DEF Stored, Passed
<1>11. /\ Served' => Served /\ cmd = dcmd
       /\ ~(phase = "answer" /\ answer = "ok")
  <2>1. Served' => Served /\ cmd = dcmd
    BY Zenon, <1>1, <1>2 DEF Served
  <2>2. phase = "answer" /\ answer = "ok" => dphase = "cbw"
    BY Zenon DEF BotInv, Joint, Answering
  <2>3. QED BY Zenon, <1>1, <2>1, <2>2
<1>12. ReadTrue' /\ Answered'
  BY Zenon, <1>2, <1>9, <1>11 DEF ReadTrue, Answered
<1>13. Mixed'
  BY Zenon, <1>1, <1>2, <1>9, <1>11 DEF Mixed, Undisturbed
<1>14. Arrived'
  BY Zenon, <1>1, <1>2, <1>11 DEF DataInv, Moving, Arrived
<1>15. Committed'
  <2>1. SUFFICES ASSUME Served', cmd.op = "write", dstatus'.residue = 0
                 PROVE  /\ Len(dgot) = cmd.len
                        /\ image' = [a \in Addr |-> IF a \in Touched(cmd) THEN dgot[a - cmd.lba * bs + 1]
                                                    ELSE Mix(done)[a]]
    BY Zenon, <1>1, <1>2, <1>7 DEF Committed, Touched
  <2>2. Served /\ cmd = dcmd /\ kind = "write" /\ outer = NoCmd
    <3>1. Served /\ cmd = dcmd
      BY Zenon, <1>11, <2>1
    <3>2. phase \in Issued
      BY Zenon, <3>1 DEF Served, Issued
    <3>3. QED BY Zenon, <2>1, <3>1, <3>2, OfTransfer
  <2>3. image = Mix(done)
    BY Zenon, <1>1, <2>1, <2>2 DEF DataInv, Moving, Mixed, Undisturbed
  <2>4. dcmd.len = b * bs /\ Len(dgot) = dcmd.len
    <3>1. PICK m \in Nat : m = b * bs /\ m <= Len(dgot)
      BY Zenon, <1>5
    <3>2. dcmd.len \in Nat /\ dcmd.len - m = 0
      BY Zenon, <1>3, <2>1, <3>1, CmdTypes
    <3>3. QED BY <1>1, <1>4, <1>9, <3>1, <3>2
  <2>5. image' = Written(cmd.lba, dgot, cmd.len)
    BY Zenon, <1>3, <2>2, <2>4
  <2>6. QED BY Zenon, <2>2, <2>3, <2>4, <2>5 DEF Written, Touched
<1>16. QED BY Zenon, <1>6, <1>8, <1>10, <1>12, <1>13, <1>14, <1>15 DEF DataInv, Moving

\* A step beside the request, the command and the drive.
LEMMA DataStutters ==
  ASSUME DataInv, UNCHANGED <<request, hostcmd, progress, bus, drive>>
  PROVE  DataInv'
<1>1. /\ UNCHANGED <<kind, off, len, calls, before, aimed, done, collected, result>>
      /\ Mix(done)' = Mix(done) /\ Mix(Ahead)' = Mix(Ahead) /\ Mix(len)' = Mix(len) /\ Named' = Named
  BY Zenon, SameRequest
<1>2. UNCHANGED <<cmd, phase, transferred, inbuf, answer, outer>>
  BY Zenon DEF hostcmd
<1>3. UNCHANGED <<dphase, dcmd, dcount, dgot, dstatus>> /\ image' = image
  BY Zenon DEF bus, drive
<1>4. Served' = Served /\ Touched(dcmd)' = Touched(dcmd) /\ Touched(cmd)' = Touched(cmd)
  BY Zenon, <1>2, <1>3 DEF Served, Touched
<1>5. Collected' /\ Outgoing' /\ Stored' /\ Aimed'
  <2>1. Collected'
    BY Zenon, <1>1, <1>2, <1>3 DEF DataInv, Collected
  <2>2. Outgoing'
    BY Zenon, <1>1, <1>2, <1>3 DEF DataInv, Outgoing
  <2>3. Stored'
    BY Zenon, <1>1, <1>2, <1>3 DEF DataInv, Stored, Passed
  <2>4. Aimed'
    BY Zenon, <1>1, <1>3, <1>4 DEF DataInv, Aimed
  <2>5. QED BY Zenon, <2>1, <2>2, <2>3, <2>4
<1>6. Moving'
  <2>1. ReadTrue'
    BY Zenon, <1>2, <1>3, <1>4 DEF DataInv, Moving, ReadTrue
  <2>2. Mixed'
    BY Zenon, <1>1, <1>2, <1>3, <1>4 DEF DataInv, Moving, Mixed, Undisturbed
  <2>3. Arrived'
    BY Zenon, <1>2, <1>3, <1>4 DEF DataInv, Moving, Arrived
  <2>4. Committed'
    BY Zenon, <1>1, <1>2, <1>3, <1>4 DEF DataInv, Moving, Committed
  <2>5. Answered'
    BY Zenon, <1>1, <1>2, <1>3 DEF DataInv, Moving, Answered
  <2>6. QED BY Zenon, <2>1, <2>2, <2>3, <2>4, <2>5 DEF Moving
<1>7. QED BY Zenon, <1>5, <1>6 DEF DataInv

-----------------------------------------------------------------------------
(* The requests.                                                            *)

LEMMA RestOfWorld ==
  ASSUME Rest_of_world PROVE UNCHANGED <<dphase, dcmd, image>>
BY Zenon DEF Rest_of_world, bus, drive

\* Between two commands nothing is on its way.
LEMMA Between ==
  ASSUME phase' \in {"none", "chunk", "cbw"}
  PROVE  ReadTrue' /\ Arrived' /\ Committed' /\ Answered'
<1>1. phase' # "data" /\ phase' # "csw" /\ phase' # "answer"
  BY Zenon
<1>2. ~Served'
  BY Zenon, <1>1 DEF Served
<1>3. QED BY Zenon, <1>1, <1>2 DEF ReadTrue, Arrived, Committed, Answered

LEMMA SameAim ==
  ASSUME DataInv, Rest_of_world, aimed \subseteq aimed',
         kind' = "write" => \A u \in Named' : u \div bs \in aimed'
  PROVE  Aimed'
<1>1. UNCHANGED <<dphase, dcmd, image>>
  BY Zenon, RestOfWorld
<1>2. Touched(dcmd)' = Touched(dcmd)
  BY Zenon, <1>1 DEF Touched
<1>3. QED BY Zenon, <1>1, <1>2 DEF DataInv, Aimed

\* The request goes on where it is.
LEMMA SameTransfer ==
  ASSUME DataInv, Rest_of_world, UNCHANGED request
  PROVE  Aimed' /\ UNCHANGED <<kind, off, len, calls, before>>
<1>1. UNCHANGED <<kind, off, len, calls, before, aimed>>
  BY Zenon DEF request
<1>2. Named' = Named
  BY Zenon, <1>1 DEF Named
<1>3. QED BY Zenon, <1>1, <1>2, SameAim DEF DataInv, Aimed

\* A request that is not a transfer moves no data.
LEMMA OtherData == BotInv /\ kind \notin {"read", "write"} => Collected /\ Outgoing /\ Stored /\ Moving
BY Zenon, OtherKinds

LEMMA OtherRequest ==
  ASSUME BotInv', DataInv, Rest_of_world, kind' \notin {"read", "write"}, aimed \subseteq aimed'
  PROVE  DataInv'
<1>1. (BotInv /\ kind \notin {"read", "write"} => Collected /\ Outgoing /\ Stored /\ Moving)'
  BY OtherData, PTL
<1>2. Aimed'
  BY Zenon, SameAim
<1>3. QED BY Zenon, <1>1, <1>2 DEF DataInv

\* A request that gives up promises nothing.
LEMMA GivesUp ==
  ASSUME DataInv, Rest_of_world, phase' = "none", result' # "ok", Aimed'
  PROVE  DataInv'
<1>1. Moving'
  BY Zenon, Between DEF Moving, Mixed, Undisturbed, Served
<1>2. Collected' /\ Outgoing' /\ Stored'
  BY Zenon DEF Collected, Outgoing, Stored, Passed
<1>3. QED BY Zenon, <1>1, <1>2 DEF DataInv

\* read_at and write_at start from the drive as it is.
LEMMA StartTransferData ==
  ASSUME BotInv, DataInv, NEW k \in {"read", "write"}, NEW o \in Addr, NEW n \in 0..Size,
         StartTransfer(k, o, n)
  PROVE  DataInv'
<1>1. Request(k, o, n) /\ Rest_of_world
  BY Zenon DEF StartTransfer, Request
<1>2. /\ kind' = k /\ off' = o /\ len' = n /\ done' = 0 /\ collected' = <<>> /\ before' = image
      /\ aimed' = aimed \cup (IF k = "write" THEN {u \div bs : u \in o..o + n - 1} ELSE {})
  BY Zenon, <1>1 DEF Request
<1>3. Aimed'
  <2>1. Named' = o..o + n - 1
    BY Zenon, <1>2 DEF Named
  <2>2. QED BY Zenon, <1>1, <1>2, <2>1, SameAim
<1>4. CASE Finish("bounds")
  <2>1. phase' = "none" /\ result' # "ok"
    BY Zenon, <1>4 DEF Finish, NoCommand
  <2>2. QED BY Zenon, <1>1, <1>3, <2>1, GivesUp
<1>5. CASE NoCommand("chunk") /\ result' = "none"
  <2>1. phase' = "chunk"
    BY Zenon, <1>5 DEF NoCommand
  <2>2. Collected'
    <3>1. Len(<<>>) = 0 /\ 1..0 = {} /\ ~(0 > 0)
      OBVIOUS
    <3>2. QED BY Zenon, <1>2, <2>1, <3>1 DEF Collected
  <2>3. Outgoing'
    BY Zenon, <2>1 DEF Outgoing
  <2>4. Stored'
    <3>1. ~(0 > 0)
      OBVIOUS
    <3>2. QED BY Zenon, <1>2, <2>1, <3>1 DEF Stored, Passed
  <2>5. Mix(done)' = image'
    <3>1. o \in Int
      BY DEF Addr
    <3>2. o..o + 0 - 1 = {}
      BY <3>1
    <3>3. image' = image /\ image = [a \in Addr |-> image[a]]
      BY Zenon, <1>1, RestOfWorld, TakenTypes
    <3>4. QED BY Zenon, <1>2, <3>2, <3>3 DEF Mix
  <2>6. Moving'
    BY Zenon, <2>1, <2>5, Between DEF Moving, Mixed
  <2>7. QED BY Zenon, <1>3, <2>2, <2>3, <2>4, <2>6 DEF DataInv
<1>6. QED BY Zenon, <1>4, <1>5 DEF StartTransfer

\* The next command of a transfer goes out.
LEMMA ChunkIssued ==
  ASSUME DataInv, Rest_of_world, UNCHANGED <<request, done, collected, result>>,
         phase \in {"chunk", "answer"}, phase' = "cbw", Outgoing',
         kind = "write" /\ dphase = "cbw" => image = Mix(done)
  PROVE  DataInv'
<1>1. Aimed' /\ UNCHANGED <<kind, off, len, calls, before>> /\ UNCHANGED <<dphase, dcmd, image>>
  BY Zenon, SameTransfer, RestOfWorld
<1>2. Collected'
  BY Zenon, <1>1 DEF DataInv, Collected
<1>3. Stored'
  BY Zenon DEF Stored, Passed
<1>4. Mixed'
  <2>1. Mix(done)' = Mix(done)
    BY Zenon, <1>1 DEF Mix
  <2>2. ~Served'
    BY Zenon DEF Served
  <2>3. QED BY Zenon, <1>1, <2>1, <2>2 DEF Mixed, Undisturbed
<1>5. QED BY Zenon, <1>1, <1>2, <1>3, <1>4, Between DEF DataInv, Moving

\* A command of a transfer has passed.
LEMMA ChunkPassed ==
  ASSUME DataInv, Rest_of_world, UNCHANGED request, phase' = "chunk", dphase = "cbw",
         kind = "write" => image = Mix(done)',
         kind = "read" => Len(collected') = done' /\ \A i \in 1..done' : collected'[i] = image[off + i - 1]
  PROVE  DataInv'
<1>1. Aimed' /\ UNCHANGED <<kind, off, len, calls, before>> /\ UNCHANGED <<dphase, dcmd, image>>
  BY Zenon, SameTransfer, RestOfWorld
<1>2. Collected' /\ Outgoing' /\ Stored'
  BY Zenon, <1>1 DEF Collected, Outgoing, Stored, Passed
<1>3. Mixed'
  BY Zenon, <1>1 DEF Mixed
<1>4. QED BY Zenon, <1>1, <1>2, <1>3, Between DEF DataInv, Moving

\* The caller's unit for an address of the request.
LEMMA PayloadAt ==
  ASSUME BotInv, NEW i \in Nat, NEW a \in Nat, a = off + i
  PROVE  Payload(i) = calls * Size + a
<1>1. calls \in Nat /\ Size \in Nat /\ off \in Nat
  BY Zero DEF BotInv, Typed, RequestTyped, Addr
<1>2. PICK m \in Nat : m = calls * Size
  BY <1>1
<1>3. m + off + i = m + a
  BY <1>1, <1>2
<1>4. QED BY Zenon, <1>2, <1>3 DEF Payload

\* A command that needs no neighbours carries the caller's units.
LEMMA WholeChunk ==
  ASSUME BotInv, off + len <= Size, done < len, Chunk(done).take = Chunk(done).span,
         NEW i \in 1..Chunk(done).span
  PROVE  Payload(done + i - 1) = Mix(Ahead)[Chunk(done).lba * bs + i - 1]
<1>1. PICK x \in Nat, w \in Nat, s \in Nat :
             /\ x = Chunk(done).lba * bs /\ x + w = off + done /\ w + s <= s /\ s = Chunk(done).span
             /\ off \in Nat /\ done \in Nat /\ Ahead = done + s
  BY Zenon, ChunkUnits
<1>2. PICK a \in Nat, d \in Nat : /\ a = x + i - 1 /\ d = done + i - 1 /\ a = off + d
                                  /\ a \in off + done..off + Ahead - 1
  BY <1>1
<1>3. Payload(d) = calls * Size + a
  BY Zenon, <1>2, PayloadAt
<1>4. Mix(Ahead)[a] = calls * Size + a
  BY Zenon, <1>2, MixWithin
<1>5. QED BY Zenon, <1>1, <1>2, <1>3, <1>4

LEMMA NextChunkData == ASSUME BotInv, DataInv, NextChunk PROVE DataInv'
<1>1. /\ phase = "chunk" /\ Rest_of_world /\ UNCHANGED <<request, done, collected>>
  BY Zenon DEF NextChunk, InTransfer
<1>2. /\ kind \in {"read", "write"} /\ outer = NoCmd /\ (len = 0 \/ off + len <= Size)
      /\ done \in 0..len /\ len \in 0..Size
  BY Zenon, <1>1 DEF BotInv, Typed, RequestTyped, Joint, Asking, Issued
<1>3. kind = "write" /\ dphase = "cbw" => image = Mix(done)
  BY Zenon, <1>1, <1>2 DEF DataInv, Moving, Mixed, Undisturbed
<1>4. CASE done = len
  <2>1. phase' = "none" /\ result' = "ok"
    BY Zenon, <1>4 DEF NextChunk, Finish, NoCommand
  <2>2. Aimed' /\ UNCHANGED <<kind, off, len, calls, before>> /\ UNCHANGED <<dphase, dcmd, image>>
    BY Zenon, <1>1, SameTransfer, RestOfWorld
  <2>3. Collected'
    BY Zenon, <1>1, <1>4, <2>2 DEF DataInv, Collected
  <2>4. Outgoing'
    BY Zenon, <2>1 DEF Outgoing
  <2>5. Stored'
    <3>1. SUFFICES ASSUME kind = "write", len > 0
                   PROVE  dphase = "cbw" /\ done = len /\ image = Mix(len)'
      BY Zenon, <1>1, <2>1, <2>2 DEF Stored, Passed
    <3>2. dphase = "cbw"
      BY Zenon, <1>1, <1>4, <3>1 DEF DataInv, Stored
    <3>3. Mix(len)' = Mix(len)
      BY Zenon, <2>2 DEF Mix
    <3>4. QED BY Zenon, <1>3, <1>4, <3>1, <3>2, <3>3
  <2>6. Moving'
    BY Zenon, <2>1, Between DEF Moving, Mixed, Undisturbed, Served
  <2>7. QED BY Zenon, <2>2, <2>3, <2>4, <2>5, <2>6 DEF DataInv
<1>5. CASE done # len
  <2> DEFINE c == Chunk(done)
             us == [i \in 1..c.span |-> Payload(done + i - 1)]
  <2>1. done < len /\ off + len <= Size
    BY <1>2, <1>5
  <2>2. result' = result
    BY Zenon, <1>5 DEF NextChunk
  <2>3. \/ Command("read", c.lba, c.span, <<>>)
        \/ c.take = c.span /\ Command("write", c.lba, c.span, us)
    BY Zenon, <1>5 DEF NextChunk
  <2>4. phase' = "cbw"
    BY Zenon, <2>3 DEF Command, Issue
  <2>5. Outgoing'
    <3>1. CASE Command("read", c.lba, c.span, <<>>)
      <4>1. cmd'.op = "read"
        BY Zenon, <3>1 DEF Command, Issue
      <4>2. QED BY Zenon, <4>1 DEF Outgoing
    <3>2. CASE c.take = c.span /\ Command("write", c.lba, c.span, us)
      <4>1. cmd'.lba = c.lba /\ cmd'.len = c.span /\ cmd'.data = us
        BY Zenon, <3>2 DEF Command, Issue
      <4>2. UNCHANGED <<off, len, calls, before, done>>
        BY Zenon, <1>1 DEF request
      <4>3. Ahead' = Ahead
        BY Zenon, <4>2 DEF Ahead, Chunk
      <4>4. Mix(Ahead)' = Mix(Ahead)
        BY Zenon, <4>2, <4>3 DEF Mix
      <4>5. \A i \in 1..c.span : us[i] = Mix(Ahead)[c.lba * bs + i - 1]
        BY Zenon, <2>1, <3>2, WholeChunk
      <4>6. QED BY Zenon, <4>1, <4>4, <4>5 DEF Outgoing
    <3>3. QED BY Zenon, <2>3, <3>1, <3>2
  <2>6. QED BY Zenon, <1>1, <1>3, <2>2, <2>4, <2>5, ChunkIssued
<1>6. QED BY Zenon, <1>4, <1>5

\* All units of a read command are in the buffer, as the drive holds them.
LEMMA BufferTrue ==
  ASSUME BotInv, DataInv, Returned("read"), answer = "ok", ~ShortPhase, NEW i \in 1..cmd.len
  PROVE  ChunkBuffer(i) = image[cmd.lba * bs + i - 1]
<1>1. /\ phase = "answer" /\ cmd.op = "read" /\ transferred \in 0..cmd.len /\ cmd.len \in Nat
      /\ Len(inbuf) = transferred
  BY Zenon DEF Returned, BotInv, Typed, CommandTyped, Cmds
<1>2. transferred = cmd.len /\ i <= Len(inbuf)
  BY <1>1 DEF ShortPhase
<1>3. inbuf[i] = image[cmd.lba * bs + i - 1]
  BY Zenon, <1>1, <1>2 DEF DataInv, Moving, ReadTrue
<1>4. QED BY Zenon, <1>2, <1>3 DEF ChunkBuffer

\* read_at appends the units of the command to the ones it has.
LEMMA Appended ==
  ASSUME NEW s \in Seq(Nat), NEW t \in Nat, NEW e \in Seq(Nat), Len(e) = t, NEW i \in 1..Len(s) + t
  PROVE  \/ i \in 1..Len(s) /\ (s \o e)[i] = s[i]
         \/ \E k \in 1..t : i = Len(s) + k /\ (s \o e)[i] = e[k]
<1>1. CASE i <= Len(s)
  BY <1>1
<1>2. CASE i > Len(s)
  <2>1. PICK k \in 1..t : k = i - Len(s) /\ i = Len(s) + k
    BY <1>2
  <2>2. (s \o e)[i] = e[k]
    BY <1>2, <2>1
  <2>3. QED BY Zenon, <2>1, <2>2
<1>3. QED BY <1>1, <1>2

\* A unit of the request in the buffer of its command.
LEMMA PartTrue ==
  ASSUME BotInv, DataInv, Returned("read"), InTransfer, answer = "ok", ~ShortPhase,
         NEW k \in 1..Chunk(done).take
  PROVE  /\ ChunkBuffer(Chunk(done).within + k) = image[off + (done + k) - 1]
         /\ ChunkBuffer(Chunk(done).within + k) \in Nat
<1>1. /\ phase = "answer" /\ done < len /\ off + len <= Size
      /\ cmd.lba = Chunk(done).lba /\ cmd.len = Chunk(done).span
  BY Zenon, ChunkReturned
<1>2. PICK x \in Nat, w \in Nat, t \in Nat, s \in Nat :
             /\ x = Chunk(done).lba * bs /\ x + w = off + done /\ w + t <= s /\ s = Chunk(done).span
             /\ w = Chunk(done).within /\ t = Chunk(done).take
             /\ x + s <= Size /\ off \in Nat /\ done \in Nat
  BY Zenon, <1>1, ChunkUnits
<1>3. PICK j \in 1..s : j = w + k /\ x + j - 1 = off + (done + k) - 1
  BY <1>2
<1>4. ChunkBuffer(j) = image[x + j - 1]
  BY Zenon, <1>1, <1>2, BufferTrue
<1>5. x + j - 1 \in Addr
  BY <1>2, Zero DEF Addr
<1>6. image[x + j - 1] \in Nat
  BY Zenon, <1>5, TakenTypes
<1>7. QED BY Zenon, <1>2, <1>3, <1>4, <1>6

LEMMA Gathered ==
  ASSUME NEW t \in Nat, NEW F, F = [k \in 1..t |-> F[k]], \A k \in 1..t : F[k] \in Nat
  PROVE  F \in Seq(Nat) /\ Len(F) = t
OBVIOUS

\* read_at has the next units of its range.
LEMMA ReadFurther ==
  ASSUME BotInv, DataInv, Returned("read"), InTransfer, kind = "read", answer = "ok", ~ShortPhase,
         collected' = collected \o [i \in 1..Chunk(done).take |-> ChunkBuffer(Chunk(done).within + i)],
         done' = done + Chunk(done).take
  PROVE  Len(collected') = done' /\ \A i \in 1..done' : collected'[i] = image[off + i - 1]
<1>1. /\ phase = "answer" /\ done < len /\ off + len <= Size /\ collected \in Seq(Nat)
  BY Zenon, ChunkReturned
<1>2. PICK t \in Nat : t = Chunk(done).take
  BY Zenon, <1>1, ChunkUnits
<1>3. Len(collected) = done /\ \A i \in 1..done : collected[i] = image[off + i - 1]
  BY Zenon, <1>1 DEF DataInv, Collected
<1>4. PICK got : got = [i \in 1..t |-> ChunkBuffer(Chunk(done).within + i)]
  BY Zenon
<1>5. \A k \in 1..t : got[k] = image[off + (done + k) - 1] /\ got[k] \in Nat
  BY Zenon, <1>2, <1>4, PartTrue
<1>6. got = [k \in 1..t |-> got[k]]
  BY Zenon, <1>4
<1>7. got \in Seq(Nat) /\ Len(got) = t
  BY Zenon, <1>5, <1>6, Gathered
<1>8. collected' = collected \o got /\ done' = done + t
  BY Zenon, <1>2, <1>4
<1>9. Len(collected') = done'
  BY Zenon, <1>1, <1>3, <1>7, <1>8, Joined
<1>10. ASSUME NEW i \in 1..done' PROVE collected'[i] = image[off + i - 1]
  <2>1. i \in 1..Len(collected) + t
    BY Zenon, <1>3, <1>8
  <2>2. \/ i \in 1..Len(collected) /\ (collected \o got)[i] = collected[i]
        \/ \E k \in 1..t : i = Len(collected) + k /\ (collected \o got)[i] = got[k]
    BY Zenon, <1>1, <1>7, <2>1, Appended
  <2>3. QED BY Zenon, <1>3, <1>5, <1>8, <2>2
<1>11. QED BY Zenon, <1>9, <1>10

\* What write_at makes of the blocks it read: the caller's units inside, the old ones around.
LEMMA Modified ==
  ASSUME BotInv, DataInv, Returned("read"), InTransfer, kind = "write", answer = "ok", ~ShortPhase,
         image = Mix(done), NEW i \in 1..Chunk(done).span
  PROVE  (IF i \in Chunk(done).within + 1..Chunk(done).within + Chunk(done).take
          THEN Payload(done + i - Chunk(done).within - 1) ELSE ChunkBuffer(i))
           = Mix(Ahead)[Chunk(done).lba * bs + i - 1]
<1>1. /\ done < len /\ off + len <= Size /\ cmd.lba = Chunk(done).lba /\ cmd.len = Chunk(done).span
  BY Zenon, ChunkReturned
<1>2. PICK x \in Nat, w \in Nat, t \in Nat, s \in Nat :
             /\ x = Chunk(done).lba * bs /\ x + w = off + done /\ w + t <= s /\ s = Chunk(done).span
             /\ w = Chunk(done).within /\ t = Chunk(done).take
             /\ x + s <= Size /\ off \in Nat /\ done \in Nat /\ Ahead = done + t
  BY Zenon, <1>1, ChunkUnits
<1>3. i \in 1..s
  BY Zenon, <1>2
<1>4. PICK a \in Nat : a = x + i - 1
  BY <1>2, <1>3
<1>5. a \in Addr
  BY <1>2, <1>3, <1>4, Zero DEF Addr
<1>6. CASE i \in w + 1..w + t
  <2>1. PICK d \in Nat : d = done + i - w - 1 /\ a = off + d /\ a \in off + done..off + Ahead - 1
    BY <1>2, <1>4, <1>6
  <2>2. Payload(d) = calls * Size + a
    BY Zenon, <2>1, PayloadAt
  <2>3. Mix(Ahead)[a] = calls * Size + a
    BY Zenon, <1>1, <2>1, MixWithin
  <2>4. QED BY Zenon, <1>2, <1>4, <1>6, <2>1, <2>2, <2>3
<1>7. CASE i \notin w + 1..w + t
  <2>1. a \notin off + done..off + Ahead - 1
    BY <1>2, <1>3, <1>4, <1>7
  <2>2. Mix(Ahead)[a] = image[a]
    BY Zenon, <1>1, <1>5, <2>1, MixBeyond
  <2>3. ChunkBuffer(i) = image[cmd.lba * bs + i - 1]
    BY Zenon, <1>1, BufferTrue
  <2>4. QED BY Zenon, <1>1, <1>2, <1>4, <1>7, <2>2, <2>3
<1>8. QED BY Zenon, <1>6, <1>7

LEMMA ChunkReadData == ASSUME BotInv, DataInv, ChunkRead PROVE DataInv'
<1> DEFINE c == Chunk(done)
           unit(i) == IF i \in c.within + 1..c.within + c.take
                      THEN Payload(done + i - c.within - 1) ELSE ChunkBuffer(i)
           us  == [i \in 1..c.span |-> unit(i)]
<1>1. Returned("read") /\ InTransfer
  BY Zenon DEF ChunkRead
<1>2. /\ phase = "answer" /\ outer = NoCmd /\ cmd.op = "read"
      /\ Rest_of_world /\ UNCHANGED request
  BY Zenon, <1>1, ChunkReturned
<1>3. answer = "ok" => dphase = "cbw"
  BY Zenon, <1>2 DEF BotInv, Joint, Answering
<1>4. CASE \/ answer # "ok" /\ Finish(answer) /\ UNCHANGED <<done, collected>>
           \/ answer = "ok" /\ ShortPhase /\ Finish("protocol") /\ UNCHANGED <<done, collected>>
  <2>1. phase' = "none" /\ result' # "ok"
    BY Zenon, <1>4 DEF Finish, NoCommand
  <2>2. QED BY Zenon, <1>2, <2>1, SameTransfer, GivesUp
<1>5. CASE /\ answer = "ok" /\ ~ShortPhase /\ kind = "read"
           /\ collected' = collected \o [i \in 1..c.take |-> ChunkBuffer(c.within + i)]
           /\ done' = done + c.take /\ NoCommand("chunk")
  <2>1. phase' = "chunk"
    BY Zenon, <1>5 DEF NoCommand
  <2>2. Len(collected') = done' /\ \A i \in 1..done' : collected'[i] = image[off + i - 1]
    BY Zenon, <1>1, <1>5, ReadFurther
  <2>3. QED BY Zenon, <1>2, <1>3, <1>5, <2>1, <2>2, ChunkPassed
<1>6. CASE /\ answer = "ok" /\ ~ShortPhase /\ kind = "write"
           /\ Command("write", c.lba, c.span, us)
           /\ UNCHANGED <<done, collected, result>>
  <2>1. image = Mix(done)
    BY Zenon, <1>2, <1>6 DEF DataInv, Moving, Mixed, Undisturbed
  <2>2. cmd'.lba = c.lba /\ cmd'.len = c.span /\ cmd'.data = us /\ phase' = "cbw"
    BY Zenon, <1>6 DEF Command, Issue
  <2>3. Outgoing'
    <3>1. UNCHANGED <<off, len, calls, before, done>>
      BY Zenon, <1>2, <1>6 DEF request
    <3>2. Ahead' = Ahead
      BY Zenon, <3>1 DEF Ahead, Chunk
    <3>3. Mix(Ahead)' = Mix(Ahead)
      BY Zenon, <3>1, <3>2 DEF Mix
    <3>4. \A i \in 1..c.span : us[i] = Mix(Ahead)[c.lba * bs + i - 1]
      BY Zenon, <1>1, <1>6, <2>1, Modified
    <3>5. QED BY Zenon, <2>2, <3>3, <3>4 DEF Outgoing
  <2>4. QED BY Zenon, <1>2, <1>6, <2>1, <2>2, <2>3, ChunkIssued
<1>7. QED BY Zenon, <1>4, <1>5, <1>6 DEF ChunkRead

LEMMA ChunkWrittenData == ASSUME BotInv, DataInv, ChunkWritten PROVE DataInv'
<1>1. Returned("write") /\ InTransfer
  BY Zenon DEF ChunkWritten
<1>2. /\ phase = "answer" /\ cmd.op = "write" /\ kind = "write"
      /\ Rest_of_world /\ UNCHANGED request
  BY Zenon, <1>1, ChunkReturned
<1>3. CASE \/ answer # "ok" /\ Finish(answer) /\ UNCHANGED done
           \/ answer = "ok" /\ ShortPhase /\ Finish("protocol") /\ UNCHANGED done
  <2>1. phase' = "none" /\ result' # "ok"
    BY Zenon, <1>3 DEF Finish, NoCommand
  <2>2. QED BY Zenon, <1>2, <2>1, SameTransfer, GivesUp
<1>4. CASE /\ answer = "ok" /\ ~ShortPhase /\ done' = done + Chunk(done).take /\ NoCommand("chunk")
  <2>1. phase' = "chunk" /\ done' = Ahead
    BY Zenon, <1>4 DEF NoCommand, Ahead
  <2>2. dphase = "cbw"
    BY Zenon, <1>2, <1>4 DEF BotInv, Joint, Answering
  <2>3. transferred \in 0..cmd.len /\ cmd.len \in Nat
    BY Zenon DEF BotInv, Typed, CommandTyped, Cmds
  <2>4. transferred = cmd.len
    BY <1>4, <2>3 DEF ShortPhase
  <2>5. image = Mix(Ahead)
    BY Zenon, <1>2, <1>4, <2>4 DEF DataInv, Moving, Answered
  <2>6. UNCHANGED <<off, calls, before>>
    BY Zenon, <1>2 DEF request
  <2>7. Mix(done)' = Mix(Ahead)
    BY Zenon, <2>1, <2>6 DEF Mix
  <2>8. QED BY Zenon, <1>2, <2>1, <2>2, <2>5, <2>7, ChunkPassed
<1>5. QED BY Zenon, <1>3, <1>4 DEF ChunkWritten

\* open, flush and write_cache_state, from the request to its return.
LEMMA OtherStarts ==
  ASSUME BotInv', DataInv, StartOpen \/ StartFlush \/ StartCacheState
  PROVE  DataInv'
<1>1. PICK k \in {"open", "flush", "cache"} : Request(k, 0, 0)
  BY Zenon DEF StartOpen, StartFlush, StartCacheState
<1>2. Rest_of_world /\ kind' = k /\ aimed \subseteq aimed'
  BY Zenon, <1>1 DEF Request
<1>3. kind' \notin {"read", "write"}
  BY Zenon, <1>2
<1>4. QED BY Zenon, <1>2, <1>3, OtherRequest

LEMMA OtherReturns ==
  ASSUME BotInv, BotInv', DataInv, Rest_of_world, UNCHANGED request,
         NEW op \in Ops, Returned(op), op \notin {"read", "write"}
  PROVE  DataInv'
<1>1. op \in OpsOf(kind) /\ kind \in Kinds
  BY Zenon, Returns DEF RequestTyped
<1>2. kind \notin {"read", "write"}
  BY Zenon, <1>1 DEF OpsOf
<1>3. UNCHANGED <<kind, aimed>>
  BY Zenon DEF request
<1>4. QED BY Zenon, <1>2, <1>3, OtherRequest

LEMMA OtherSteps ==
  ASSUME BotInv, BotInv', DataInv,
         \/ OpenInquired \/ OpenTested \/ OpenSensed
         \/ \E op \in {"capacity", "capacity16"} : OpenSized(op)
         \/ \E op \in {"sync10", "sync16"} : Synchronized(op)
         \/ \E op \in {"mode6", "mode10"} : CacheAnswered(op)
  PROVE  DataInv'
<1>1. PICK op \in {"inquiry", "tur", "sense", "capacity", "capacity16", "sync10", "sync16", "mode6", "mode10"} :
             Returned(op) /\ Rest_of_world /\ UNCHANGED request
  BY Zenon DEF OpenInquired, OpenTested, OpenSensed, OpenSized, InOpen, Synchronized, CacheAnswered,
               InTransfer
<1>2. op \in Ops /\ op \notin {"read", "write"}
  BY Zenon DEF Ops, InOps, NoData
<1>3. QED BY Zenon, <1>1, <1>2, OtherReturns

-----------------------------------------------------------------------------
(* The theorems.                                                            *)

LEMMA DataStarts == Init => DataInv
<1> SUFFICES ASSUME Init PROVE DataInv
  BY Zenon
<1>1. /\ kind = "none" /\ phase = "none" /\ dphase = "cbw" /\ result = "none"
      /\ image = [a \in Addr |-> a]
  BY Zenon DEF Init
<1>2. Collected /\ Outgoing /\ Stored /\ Aimed
  BY Zenon, <1>1 DEF Collected, Outgoing, Stored, Passed, Aimed
<1>3. Moving
  BY Zenon, <1>1 DEF Moving, ReadTrue, Mixed, Arrived, Committed, Answered, Served
<1>4. QED BY Zenon, <1>2, <1>3 DEF DataInv

LEMMA DataSteps == BotInv /\ BotInv' /\ DataInv /\ [Next]_vars => DataInv'
<1> SUFFICES ASSUME BotInv, BotInv', DataInv, [Next]_vars PROVE DataInv'
  BY Zenon
<1>1. ASSUME HostStep PROVE DataInv'
  BY Zenon, <1>1, SendCbwData, ReadDataData, SendDataData, ReadCswData, RecoverData, SenseAnsweredData,
     NextChunkData, ChunkReadData, ChunkWrittenData, OtherSteps DEF HostStep
<1>2. ASSUME NEW k \in {"read", "write"}, NEW r \in Requests, StartTransfer(k, r[1], r[2])
      PROVE  DataInv'
  <2>1. r[1] \in Addr /\ r[2] \in 0..Size
    BY Zenon, ScsiAssumption DEF Addr, Size
  <2>2. QED BY Zenon, <1>2, <2>1, StartTransferData
<1>3. ASSUME Unplug \/ UNCHANGED vars PROVE DataInv'
  BY Zenon, <1>3, DataStutters DEF Unplug, vars
<1>4. QED BY Zenon, <1>1, <1>2, <1>3, DriveCommitsData, OtherStarts DEF Next

\* The invariant of the data holds in every state.
THEOREM DataKept == Spec => []DataInv
<1>1. QED BY DataStarts, DataSteps, BotKept, PTL DEF Spec

\* A read_at that returns Ok hands over what the drive holds at those addresses, whatever
\* units the transport loses and however an earlier request ended (read_at, command_inner).
THEOREM ReadsAreTrue == Spec => []PassedReadIsTrue
<1>1. BotInv /\ DataInv => PassedReadIsTrue
  <2> SUFFICES ASSUME BotInv, DataInv, Passed("read")
               PROVE  collected = [i \in 1..len |-> image[off + i - 1]]
    BY Zenon DEF PassedReadIsTrue
  <2>1. Len(collected) = len /\ \A i \in 1..len : collected[i] = image[off + i - 1]
    BY Zenon DEF DataInv, Collected, Passed
  <2>2. collected \in Seq(Nat)
    BY Zenon DEF BotInv, Typed, RequestTyped
  <2>3. collected = [i \in 1..len |-> collected[i]]
    BY <2>1, <2>2
  <2>4. QED BY Zenon, <2>1, <2>3
<1>2. QED BY <1>1, BotKept, DataKept, PTL

\* A write_at that returns Ok has put the caller's units on the drive and left every other
\* unit as it was when the request started; and no block changes that no write_at names
\* (write_at, command_out_inner, decode_csw).
THEOREM WritesAreExact == Spec => []WritesExact
<1>1. TypeOK /\ DataInv => WritesExact
  <2> SUFFICES ASSUME TypeOK, DataInv PROVE WritesExact
    BY Zenon
  <2>1. Passed("write") /\ len > 0 =>
          image = [a \in Addr |-> IF a \in Named THEN calls * Size + a ELSE before[a]]
    BY Zenon DEF DataInv, Stored, Mix, Named
  <2>2. \A a \in Addr : image[a] # a => a \div bs \in aimed
    BY Zenon DEF DataInv, Aimed
  <2>3. QED BY Zenon, <2>1, <2>2 DEF WritesExact
<1>2. QED BY <1>1, BotTyped, DataKept, PTL
=============================================================================
