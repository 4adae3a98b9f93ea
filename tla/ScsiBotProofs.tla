---------------------------- MODULE ScsiBotProofs ----------------------------
(***************************************************************************)
(* That host and drive keep in step: whatever the transport loses or repeats *)
(* and whichever reset fails, a status that the host takes for an answer is  *)
(* the one of its own command, and a flush that is answered has reached the  *)
(* medium.  First the inductive invariant of ScsiBot, for any drive, request *)
(* sizes and number of calls, and that the steps of the requests keep it     *)
(* (open, read_at, write_at, flush and write_cache_state between their       *)
(* commands); then the steps of one command, and the theorems.               *)
(***************************************************************************)
EXTENDS ScsiBot, TLAPS

-----------------------------------------------------------------------------
(* Arithmetic of blocks.                                                    *)

\* Division with remainder.
LEMMA DivMod ==
  ASSUME NEW n \in Nat, NEW b \in Nat, b > 0
  PROVE  /\ n \div b \in Nat /\ n % b \in 0..b - 1
         /\ n = (n \div b) * b + (n % b)
<1>1. n % b \in 0..b - 1
  OBVIOUS
<1>2. n = (n \div b) * b + (n % b)
  OBVIOUS
<1>3. n \div b \in Int
  OBVIOUS
<1>4. n \div b >= 0
  BY <1>1, <1>2, <1>3
<1>5. QED BY <1>1, <1>2, <1>3, <1>4

\* Rounding up to whole blocks stays below a bound that is whole blocks itself, and
\* reaches into the last of them.
LEMMA RoundUp ==
  ASSUME NEW n \in Nat, NEW b \in Nat, b > 0, NEW k \in Nat, n <= k * b
  PROVE  /\ (n + b - 1) \div b \in 0..k
         /\ n <= ((n + b - 1) \div b) * b
         /\ ((n + b - 1) \div b) * b <= n + b - 1
<1> DEFINE m == n + b - 1
<1>1. m \in Nat
  OBVIOUS
<1>2. m \div b \in Nat /\ m % b \in 0..b - 1 /\ m = (m \div b) * b + (m % b)
  BY Zenon, <1>1, DivMod
<1> HIDE DEF m
<1>3. n <= (m \div b) * b /\ (m \div b) * b <= m
  BY <1>2 DEF m
<1>4. (m \div b) * b < (k + 1) * b
  BY <1>1, <1>3 DEF m
<1>5. m \div b <= k
  BY <1>2, <1>4
<1>6. QED BY <1>2, <1>3, <1>5 DEF m

\* The commands of one request, from the d-th unit on: whole blocks of the drive that hold
\* the next units, none of which is outside the range of the request.
LEMMA ChunkFacts ==
  ASSUME off \in Addr, len \in 0..Size, off + len <= Size, NEW d \in 0..len, d < len
  PROVE  /\ Chunk(d).lba \in Nat /\ Chunk(d).within \in 0..bs - 1 /\ Chunk(d).span \in Nat
         /\ Chunk(d).lba * bs + Chunk(d).within = off + d
         /\ Chunk(d).lba * bs + Chunk(d).span <= Size
         /\ Chunk(d).take \in 1..len - d
         /\ Chunk(d).within + Chunk(d).take <= Chunk(d).span
<1> DEFINE pos == off + d
           q   == pos \div bs
           r   == pos % bs
           n   == r + len - d
           up  == (n + bs - 1) \div bs
           cnt == Least(up, MaxBlocks)
           sp  == cnt * bs
<1>1. /\ bs \in Nat /\ bs > 0 /\ NBlocks \in Nat /\ pos \in Nat /\ Size = NBlocks * bs
      /\ MaxBlocks \in Nat /\ MaxBlocks > 0 /\ off \in Nat /\ len \in Nat /\ Size \in Nat
  BY ScsiAssumption DEF Addr, Size
<1>2. q \in Nat /\ r \in 0..bs - 1 /\ pos = q * bs + r
  BY Zenon, <1>1, DivMod
<1>3. Chunk(d) = [lba |-> q, within |-> r, span |-> sp, take |-> Least(sp - r, len - d)]
  BY Zenon DEF Chunk
<1>4. pos = off + d
  BY Zenon
<1> HIDE DEF pos, q, r
<1>5. n \in Nat /\ n > 0
  BY <1>1, <1>2
<1>6. q * bs + n = off + len
  BY <1>1, <1>2, <1>4
<1>7. q * bs <= NBlocks * bs
  BY <1>1, <1>2, <1>5, <1>6
<1>8. q <= NBlocks
  BY <1>1, <1>2, <1>7
<1>9. PICK k \in Nat : k = NBlocks - q
  BY <1>1, <1>2, <1>8
<1> HIDE DEF n
<1>10. k * bs = NBlocks * bs - q * bs
  BY <1>1, <1>2, <1>9
<1>11. n <= k * bs
  BY <1>1, <1>2, <1>5, <1>6, <1>10
<1>12. up \in 0..k /\ n <= up * bs
  BY Zenon, <1>1, <1>5, <1>11, RoundUp
<1> HIDE DEF up
<1>13. up >= 1
  BY <1>1, <1>5, <1>12
<1>14. cnt \in 1..k
  BY <1>1, <1>12, <1>13 DEF Least
<1> HIDE DEF cnt
<1>15. sp <= k * bs /\ sp >= bs /\ sp \in Nat
  BY <1>1, <1>14
<1>16. q * bs + sp <= Size
  BY <1>1, <1>2, <1>10, <1>15
<1> HIDE DEF sp
<1>17. Least(sp - r, len - d) \in 1..len - d /\ r + Least(sp - r, len - d) <= sp
  BY <1>1, <1>2, <1>15 DEF Least
<1>18. QED BY <1>2, <1>3, <1>4, <1>15, <1>16, <1>17

-----------------------------------------------------------------------------
(* The invariant.                                                           *)

Tags   == 0..TagMod - 1
Issued == {"cbw", "data", "csw", "reset", "answer"}
Cmds   == {c \in [op : Ops, tag : -1..TagMod - 1, lba : Nat, len : Nat, data : Seq(Nat)] :
             c.op = "write" => Len(c.data) = c.len}

\* What the data phase of a command carries to the host.
UnitsOf(op) == IF op = "read" THEN Nat ELSE IF op = "sense" THEN Senses ELSE {Garbage}

Flags ==
  /\ ready \in BOOLEAN /\ no_flush_command \in BOOLEAN /\ cleared_halt \in BOOLEAN
  /\ attention \in BOOLEAN /\ gone \in BOOLEAN

RequestTyped ==
  /\ kind \in Kinds /\ off \in Addr /\ len \in 0..Size /\ done \in 0..len
  /\ collected \in Seq(Nat) /\ Len(collected) <= done
  /\ tries \in 0..3 /\ calls \in 0..MaxCalls
  /\ result \in Errors \cup {"none", "ok"} /\ before \in [Addr -> Nat]

CommandTyped ==
  /\ cmd \in Cmds /\ outer \in Cmds /\ tag \in Tags
  /\ phase \in Issued \cup {"none", "chunk"}
  /\ transferred \in 0..cmd.len /\ inbuf \in Seq(UnitsOf(cmd.op))
  /\ cmd.op # "write" => Len(inbuf) = transferred
  /\ answer \in Errors \cup {"none", "ok"} /\ sense \in Senses

DriveTyped ==
  /\ dphase \in {"cbw", "in", "out", "status"} /\ dcmd \in Cmds
  /\ davail \in Nat /\ dcount \in 0..davail /\ dgot \in Seq(Nat) /\ Len(dgot) <= davail
  /\ dend \in {"done", "zlp", "short", "stall"}
  /\ dstatus \in [status : {"passed", "failed", "phase"}, residue : Int]
  /\ halted \subseteq {"in", "out"} /\ dsense \in Senses /\ spin \in 0..MaxSpin
  /\ lacks \subseteq Optional /\ faults \in 0..MaxFaults
  /\ image \in [Addr -> Nat] /\ medium \in [Addr -> Nat]

\* The command the request waits for: the failed one while REQUEST SENSE asks why.
Asked == IF outer = NoCmd THEN cmd ELSE outer

OpsOf(k) ==
  CASE k = "open"  -> {"inquiry", "tur", "sense", "capacity", "capacity16"}
    [] k = "read"  -> {"read"}
    [] k = "write" -> {"read", "write"}
    [] k = "flush" -> Optional
    [] k = "cache" -> {"mode6", "mode10"}
    [] OTHER       -> {}

\* What the request knows of its command.
Asking ==
  /\ phase \notin Issued => cmd = NoCmd /\ outer = NoCmd
  /\ phase \in Issued => cmd.tag \in Tags /\ Asked.op \in OpsOf(kind)
  /\ outer # NoCmd =>
       cmd.op = "sense" /\ outer.op # "sense" /\ outer.tag \in Tags /\ sense = "unknown"
  /\ phase = "chunk" => kind \in {"read", "write"}
  /\ kind \in {"read", "write", "flush", "cache"} => ready
  /\ phase # "none" /\ kind \in {"read", "write"} => len = 0 \/ off + len <= Size
  /\ phase \in Issued /\ kind \in {"read", "write"} =>
       /\ done < len /\ off + len <= Size
       /\ Asked.lba = Chunk(done).lba /\ Asked.len = Chunk(done).span

\* How far the command is.
Answering ==
  /\ phase \in {"cbw", "data", "csw"} => answer = "none"
  /\ phase = "reset" => answer \in Errors
  /\ phase = "answer" => answer \in Errors \cup {"ok"}
  /\ phase = "answer" /\ answer = "ok" => dphase = "cbw"
  /\ phase = "cbw" => transferred = 0 /\ inbuf = <<>>
  /\ phase \in {"cbw", "data", "csw", "reset"} =>
       sense = "unknown" /\ tag \in {cmd.tag + 1, cmd.tag + 1 - TagMod}

\* What the drive's side says of the command it is in.
InCommand ==
  /\ dphase = "cbw" => dcmd = NoCmd
  /\ dphase # "cbw" => dcmd.tag \in Tags /\ davail <= dcmd.len
  /\ dphase = "out" => dcmd.op = "write" /\ dcount = 0
  /\ dphase = "in" => dcmd.op \in InOps
  /\ dcmd.op \in {"read", "write"} => ready /\ dcmd.lba * bs + dcmd.len <= Size

\* The next tag is j tags behind the one of the drive's command.
Age(j) == tag \in {dcmd.tag + j, dcmd.tag + j - TagMod}

\* A write the drive has kept, because a reset failed, is at most a tag older for every
\* fault there was.
KeptWrite ==
  dphase # "cbw" /\ dcmd.op = "write" /\ ~gone =>
    /\ phase \in {"none", "chunk", "answer"} => \E j \in 1..faults : Age(j)
    /\ phase = "cbw" => \E j \in 2..faults + 1 : Age(j)
    /\ phase \in {"data", "csw", "reset"} => dcmd = cmd \/ \E j \in 2..faults + 1 : Age(j)

\* The drive serves the host's command.
Served == phase \in {"data", "csw"} /\ dphase # "cbw" /\ dcmd = cmd

\* Behind the CBW the drive is in the host's command, or in an older write that the CBW
\* has ended and whose status has another tag.
InStep ==
  /\ phase \in {"data", "csw"} /\ dphase # "cbw" =>
       \/ dcmd = cmd
       \/ /\ dcmd.op = "write" /\ dcmd.tag # cmd.tag /\ dphase \in {"out", "status"}
          /\ dphase = "out" => Len(dgot) = davail
  /\ Served /\ cmd.op \in InOps => transferred <= dcount

\* ILLEGAL REQUEST is read only as the reason of the command it was given for.
Sensed ==
  /\ dphase # "cbw" /\ dstatus.status = "failed" /\ dsense = "illegal" => dcmd.op \in lacks
  /\ outer # NoCmd /\ dsense = "illegal" => outer.op \in lacks
  /\ outer # NoCmd => \A i \in 1..Len(inbuf) : inbuf[i] = "illegal" => outer.op \in lacks
  /\ phase = "answer" /\ outer = NoCmd /\ cmd.op \in Optional /\ answer = "failed"
       /\ sense = "illegal" => cmd.op \in lacks
  /\ cmd.op = "sync16" \/ outer.op = "sync16" => "sync10" \in lacks
  /\ no_flush_command => Optional \subseteq lacks

\* Where a SYNCHRONIZE CACHE that passed is on its way to the caller.
Flushed ==
  /\ Served /\ cmd.op \in Optional /\ dphase = "status" /\ dstatus.status = "passed"
       => medium = image
  /\ phase = "answer" /\ answer = "ok" /\ cmd.op \in Optional => medium = image
  /\ Passed("flush") => (dphase = "cbw" /\ medium = image) \/ Optional \subseteq lacks

Typed == Flags /\ RequestTyped /\ CommandTyped /\ DriveTyped
Joint == Asking /\ Answering /\ InCommand /\ KeptWrite /\ InStep
BotInv == Typed /\ Joint /\ Sensed /\ Flushed

-----------------------------------------------------------------------------
(* Steps of a request: the drive is left alone.                             *)

\* Everything that is not the request's own.
Beneath == CommandTyped /\ DriveTyped /\ Answering /\ InCommand /\ KeptWrite /\ InStep
             /\ Sensed /\ Flushed

LEMMA TagSpace == TagMod \in Nat /\ MaxFaults \in Nat /\ MaxFaults < TagMod
BY Zenon, ScsiAssumption

\* The tag behind t.
LEMMA NextTag ==
  ASSUME NEW t \in Tags
  PROVE  (t + 1) % TagMod \in Tags /\ (t + 1) % TagMod \in {t + 1, t + 1 - TagMod}
<1>1. TagMod \in Nat /\ TagMod > 0
  BY ScsiAssumption
<1>2. t \in 0..TagMod - 1
  BY Zenon DEF Tags
<1>3. (t + 1) % TagMod = IF t + 1 = TagMod THEN 0 ELSE t + 1
  BY <1>1, <1>2
<1>4. QED BY <1>1, <1>2, <1>3 DEF Tags

\* A tag that is j behind d is followed by one that is j + 1 behind it.
LEMMA Older ==
  ASSUME NEW d \in Tags, NEW t \in Tags, NEW u \in Tags, NEW j \in Nat, j < TagMod,
         t \in {d + j, d + j - TagMod}, u \in {t + 1, t + 1 - TagMod}
  PROVE  u \in {d + (j + 1), d + (j + 1) - TagMod}
<1>1. TagMod \in Nat /\ d \in Nat /\ t \in Nat /\ u \in Nat /\ d < TagMod
  BY TagSpace DEF Tags
<1>2. CASE t = d + j
  BY <1>1, <1>2
<1>3. CASE t = d + j - TagMod /\ u = t + 1
  BY <1>1, <1>3
<1>4. CASE t = d + j - TagMod /\ u = t + 1 - TagMod
  BY <1>1, <1>4
<1>5. QED BY Zenon, <1>2, <1>3, <1>4

\* A command goes out while the drive may still be in an older one.
LEMMA IssueStep ==
  ASSUME BotInv, UNCHANGED <<bus, drive, gone, faults>>,
         phase \in {"none", "chunk", "answer"}, outer = NoCmd,
         NEW t \in Tags, t = tag \/ ~ready, ready' = ready,
         NEW op \in Ops, NEW lba \in Nat, NEW n \in Nat, NEW data \in Seq(Nat),
         op = "write" => Len(data) = n,
         op = "sync16" => "sync10" \in lacks,
         no_flush_command' => Optional \subseteq lacks,
         Issue(t, op, lba, n, data), sense' = "unknown", UNCHANGED outer
  PROVE  Beneath'
<1>1. /\ UNCHANGED <<dphase, dcmd, davail, dcount, dgot, dend, dstatus, halted, dsense, spin,
                     attention, has, lacks, image, medium, gone, faults>>
  BY Zenon DEF bus, drive
<1>2. /\ cmd' = [op |-> op, tag |-> t, lba |-> lba, len |-> n, data |-> data]
      /\ tag' = (t + 1) % TagMod
      /\ phase' = "cbw" /\ transferred' = 0 /\ inbuf' = <<>> /\ answer' = "none"
  BY Zenon DEF Issue
<1>3. tag' \in Tags /\ tag' \in {t + 1, t + 1 - TagMod}
  BY Zenon, <1>2, NextTag
<1>4. cmd' \in Cmds /\ cmd'.op = op /\ cmd'.tag = t /\ cmd'.len = n
  BY <1>2 DEF Cmds, Tags
<1>5. CommandTyped'
  <2>1. outer' \in Cmds
    BY Zenon DEF BotInv, Typed, CommandTyped
  <2>2. <<>> \in Seq(UnitsOf(op)) /\ Len(<<>>) = 0
    OBVIOUS
  <2>3. QED BY <1>2, <1>3, <1>4, <2>1, <2>2 DEF CommandTyped, Issued, Senses
<1>6. DriveTyped'
  BY <1>1, Zenon DEF BotInv, Typed, DriveTyped
<1>7. Answering'
  BY Zenon, <1>2, <1>3, <1>4 DEF Answering
<1>8. InCommand'
  BY <1>1, Zenon DEF BotInv, Joint, InCommand
<1>9. KeptWrite'
  <2>1. SUFFICES ASSUME dphase # "cbw", dcmd.op = "write", ~gone
                 PROVE  \E j \in 2..faults + 1 : tag' \in {dcmd.tag + j, dcmd.tag + j - TagMod}
    BY <1>1, <1>2 DEF KeptWrite, Age
  <2>2. t = tag
    BY Zenon, <2>1 DEF BotInv, Joint, InCommand
  <2>3. PICK j \in 1..faults : tag \in {dcmd.tag + j, dcmd.tag + j - TagMod}
    BY Zenon, <2>1 DEF BotInv, Joint, KeptWrite, Age
  <2>4. dcmd.tag \in 0..TagMod - 1 /\ tag \in 0..TagMod - 1 /\ faults \in 0..MaxFaults
    BY Zenon, <2>1 DEF BotInv, Joint, InCommand, Typed, CommandTyped, DriveTyped, Tags
  <2>5. tag' \in {dcmd.tag + (j + 1), dcmd.tag + (j + 1) - TagMod} /\ j + 1 \in 2..faults + 1
    <3>1. j \in Nat /\ j < TagMod /\ j + 1 \in 2..faults + 1
      BY <2>3, <2>4, TagSpace
    <3>2. QED BY Zenon, <1>3, <2>2, <2>3, <2>4, <3>1, Older DEF Tags
  <2>6. QED BY Zenon, <2>5
<1>10. InStep'
  BY Zenon, <1>2 DEF InStep, Served
<1>11. Sensed'
  BY Zenon, <1>1, <1>2, <1>4 DEF BotInv, Sensed, NoCmd
<1>12. Flushed'
  BY Zenon, <1>2 DEF Flushed, Served, Passed
<1>13. QED BY Zenon, <1>5, <1>6, <1>7, <1>8, <1>9, <1>10, <1>11, <1>12 DEF Beneath

\* The locals of a command go out of scope.
LEMMA DropStep ==
  ASSUME BotInv, UNCHANGED <<bus, drive, gone, faults>>,
         phase \in {"none", "chunk", "answer"}, outer = NoCmd, ready => ready',
         NEW p \in {"none", "chunk"}, NoCommand(p),
         no_flush_command' => Optional \subseteq lacks,
         p = "none" /\ kind' = "flush" /\ result' = "ok"
           => (dphase = "cbw" /\ medium = image) \/ Optional \subseteq lacks
  PROVE  Beneath'
<1>1. UNCHANGED <<dphase, dcmd, davail, dcount, dgot, dend, dstatus, halted, dsense, spin,
                  attention, has, lacks, image, medium, gone, faults>>
  BY Zenon DEF bus, drive
<1>2. /\ phase' = p /\ cmd' = NoCmd /\ transferred' = 0 /\ inbuf' = <<>>
      /\ answer' = "none" /\ sense' = "unknown" /\ UNCHANGED <<tag, outer>>
  BY Zenon DEF NoCommand
<1>3. NoCmd \in Cmds /\ NoCmd.op = "tur" /\ NoCmd.len = 0
  BY ScsiAssumption DEF NoCmd, Cmds, Ops, NoData
<1>4. CommandTyped'
  <2>1. <<>> \in Seq(UnitsOf("tur")) /\ Len(<<>>) = 0
    OBVIOUS
  <2>2. tag' \in Tags
    BY Zenon, <1>2 DEF BotInv, Typed, CommandTyped
  <2>3. QED BY <1>2, <1>3, <2>1, <2>2 DEF CommandTyped, Senses
<1>5. DriveTyped'
  BY <1>1, Zenon DEF BotInv, Typed, DriveTyped
<1>6. Answering'
  BY Zenon, <1>2 DEF Answering
<1>7. InCommand'
  BY Zenon, <1>1 DEF BotInv, Joint, InCommand
<1>8. KeptWrite'
  BY <1>1, <1>2 DEF BotInv, Joint, KeptWrite, Age
<1>9. InStep'
  BY Zenon, <1>2 DEF InStep, Served
<1>10. Sensed'
  BY Zenon, <1>1, <1>2, <1>3 DEF BotInv, Sensed
<1>11. Flushed'
  BY Zenon, <1>1, <1>2 DEF Flushed, Served, Passed
<1>12. QED BY Zenon, <1>4, <1>5, <1>6, <1>7, <1>8, <1>9, <1>10, <1>11 DEF Beneath

\* A request sends a command of its own.
LEMMA Issues ==
  ASSUME BotInv, Rest_of_world, phase \in {"none", "chunk", "answer"}, outer = NoCmd,
         NEW t \in Tags, t = tag \/ ~ready, ready' = ready,
         NEW op \in Ops, NEW lba \in Nat, NEW n \in Nat, NEW data \in Seq(Nat),
         op = "write" => Len(data) = n,
         op = "sync16" => "sync10" \in lacks,
         Issue(t, op, lba, n, data), sense' = "unknown", UNCHANGED outer,
         no_flush_command' \in BOOLEAN, no_flush_command' => no_flush_command, RequestTyped',
         op \in OpsOf(kind'), kind' \in {"read", "write", "flush", "cache"} => ready,
         kind' \in {"read", "write"} =>
           /\ UNCHANGED <<off, len, done>> /\ done < len /\ off + len <= Size
           /\ lba = Chunk(done).lba /\ n = Chunk(done).span
  PROVE  BotInv'
<1>1. UNCHANGED <<bus, drive, gone, faults>>
  BY Zenon DEF Rest_of_world
<1>2. no_flush_command' => Optional \subseteq lacks
  BY Zenon DEF BotInv, Sensed
<1>3. Beneath'
  BY Zenon, <1>1, <1>2, IssueStep
<1>4. /\ phase' = "cbw" /\ outer' = NoCmd /\ cmd'.op = op /\ cmd'.tag = t /\ cmd'.lba = lba
      /\ cmd'.len = n /\ cleared_halt' = FALSE
  BY Zenon DEF Issue
<1>5. Flags'
  BY <1>1, <1>4, Zenon DEF BotInv, Typed, Flags, drive
<1>6. Asking'
  <2>1. Asked' = cmd'
    BY Zenon, <1>4 DEF Asked
  <2>2. kind' \in {"read", "write"} => Chunk(done)' = Chunk(done)
    BY Zenon DEF Chunk, Least
  <2>3. QED BY Zenon, <1>4, <2>1, <2>2 DEF Asking, Issued
<1>7. QED BY Zenon, <1>3, <1>5, <1>6 DEF BotInv, Typed, Joint, Beneath

\* A request ends, or gets to its next chunk.
LEMMA Drops ==
  ASSUME BotInv, Rest_of_world, phase \in {"none", "chunk", "answer"}, outer = NoCmd,
         ready => ready', ready' \in BOOLEAN, NEW p \in {"none", "chunk"}, NoCommand(p),
         no_flush_command' \in BOOLEAN, no_flush_command' => Optional \subseteq lacks,
         p = "none" /\ kind' = "flush" /\ result' = "ok"
           => (dphase = "cbw" /\ medium = image) \/ Optional \subseteq lacks,
         RequestTyped', kind' \in {"read", "write", "flush", "cache"} => ready',
         p = "chunk" => kind' \in {"read", "write"} /\ (len' = 0 \/ off' + len' <= Size)
  PROVE  BotInv'
<1>1. UNCHANGED <<bus, drive, gone, faults>>
  BY Zenon DEF Rest_of_world
<1>2. Beneath'
  BY Zenon, <1>1, DropStep
<1>3. phase' = p /\ cmd' = NoCmd /\ outer' = NoCmd /\ cleared_halt' = FALSE
  BY Zenon DEF NoCommand
<1>4. Flags'
  BY <1>1, <1>3, Zenon DEF BotInv, Typed, Flags, drive
<1>5. Asking'
  BY Zenon, <1>3 DEF Asking, Issued
<1>6. QED BY Zenon, <1>2, <1>4, <1>5 DEF BotInv, Typed, Joint, Beneath

\* A request starts.
LEMMA Begins ==
  ASSUME BotInv, NEW k \in Kinds, NEW o \in Addr, NEW n \in 0..Size, Request(k, o, n),
         result' \in Errors \cup {"none", "ok"}
  PROVE  RequestTyped' /\ Rest_of_world /\ phase = "none" /\ outer = NoCmd
<1>1. /\ kind' = k /\ off' = o /\ len' = n /\ done' = 0 /\ collected' = <<>> /\ tries' = 0
      /\ calls' = calls + 1 /\ calls < MaxCalls /\ before' = image /\ Rest_of_world
      /\ phase = "none"
  BY Zenon DEF Request
<1>2. calls \in 0..MaxCalls /\ image \in [Addr -> Nat] /\ outer = NoCmd
  BY Zenon, <1>1 DEF BotInv, Typed, RequestTyped, DriveTyped, Joint, Asking, Issued
<1>3. <<>> \in Seq(Nat) /\ Len(<<>>) = 0 /\ 0 \in 0..n /\ calls + 1 \in 0..MaxCalls
  BY <1>1, <1>2, ScsiAssumption
<1>4. QED BY <1>1, <1>2, <1>3 DEF RequestTyped

LEMMA Zero == 0 \in Addr /\ 0 \in 0..Size /\ Size \in Nat
BY ScsiAssumption DEF Addr, Size

LEMMA StartOpenStep == ASSUME BotInv, StartOpen PROVE BotInv'
<1>1. /\ ~ready /\ Request("open", 0, 0) /\ Issue(1 % TagMod, "inquiry", 0, 1, <<>>)
      /\ sense' = "unknown" /\ no_flush_command' = FALSE /\ result' = "none"
      /\ UNCHANGED <<ready, outer>>
  BY Zenon DEF StartOpen
<1>2. 1 % TagMod \in Tags
  BY ScsiAssumption DEF Tags
<1>3. RequestTyped' /\ Rest_of_world /\ phase = "none" /\ outer = NoCmd
  BY Zenon, <1>1, Begins, Zero DEF Kinds
<1>4. kind' = "open" /\ "inquiry" \in OpsOf("open") /\ "inquiry" \in Ops /\ <<>> \in Seq(Nat)
  BY <1>1 DEF Request, OpsOf, Ops, InOps
<1>5. QED BY Zenon, <1>1, <1>2, <1>3, <1>4, Issues

\* A command of the request has returned.
LEMMA Returns ==
  ASSUME BotInv, NEW op, Returned(op)
  PROVE  /\ phase = "answer" /\ outer = NoCmd /\ cmd.op = op /\ op \in OpsOf(kind)
         /\ tag \in Tags /\ answer \in Errors \cup {"ok"} /\ RequestTyped
         /\ kind \in {"read", "write", "flush", "cache"} => ready
         /\ ready \in BOOLEAN /\ no_flush_command \in BOOLEAN
         /\ no_flush_command => Optional \subseteq lacks
<1>1. phase = "answer" /\ outer = NoCmd /\ cmd.op = op
  BY Zenon DEF Returned
<1>2. op \in OpsOf(kind) /\ answer \in Errors \cup {"ok"}
  BY Zenon, <1>1 DEF BotInv, Joint, Asking, Answering, Asked, Issued
<1>3. QED BY Zenon, <1>1, <1>2 DEF BotInv, Typed, Flags, CommandTyped, Joint, Asking, Sensed

\* What a step of open leaves typed.
LEMMA OpenFrame ==
  ASSUME BotInv, InOpen, NEW op \in {"inquiry", "tur", "sense", "capacity", "capacity16"},
         Returned(op), tries' \in 0..3, result' \in Errors \cup {"none", "ok"}
  PROVE  /\ RequestTyped' /\ Rest_of_world /\ kind = "open" /\ kind' = "open"
         /\ no_flush_command' = no_flush_command
<1>1. op \in OpsOf(kind) /\ RequestTyped
  BY Zenon, Returns
<1>2. UNCHANGED <<kind, off, len, calls, before, done, collected, no_flush_command>> /\ Rest_of_world
  BY Zenon DEF InOpen, request
<1>3. kind = "open"
  BY Zenon, <1>1 DEF OpsOf, RequestTyped, Kinds, Optional
<1>4. QED BY Zenon, <1>1, <1>2, <1>3 DEF RequestTyped

LEMMA OpenOps ==
  /\ \A op \in {"tur", "capacity", "capacity16", "sense"} :
       op \in Ops /\ op \in OpsOf("open") /\ op # "write" /\ op # "sync16"
  /\ <<>> \in Seq(Nat)
  /\ {"failed", "protocol", "gone", "ok", "bounds"} \subseteq Errors \cup {"none", "ok"}
BY DEF Ops, InOps, NoData, OpsOf, Errors

\* open sends its next command.
LEMMA OpenIssues ==
  ASSUME BotInv, InOpen, NEW op \in {"inquiry", "tur", "sense", "capacity", "capacity16"},
         Returned(op), tries' \in 0..3, result' = result, ready' = ready,
         NEW o \in {"tur", "capacity", "capacity16", "sense"}, NEW n \in Nat,
         Command(o, 0, n, <<>>)
  PROVE  BotInv'
<1>1. RequestTyped' /\ Rest_of_world /\ kind' = "open" /\ no_flush_command' = no_flush_command
  <2>1. result' \in Errors \cup {"none", "ok"}
    BY Zenon DEF BotInv, Typed, RequestTyped
  <2>2. QED BY Zenon, <2>1, OpenFrame
<1>2. phase = "answer" /\ outer = NoCmd /\ tag \in Tags /\ no_flush_command \in BOOLEAN
  BY Zenon, Returns
<1>3. Issue(tag, o, 0, n, <<>>) /\ sense' = "unknown" /\ UNCHANGED outer
  BY Zenon DEF Command
<1>4. o \in Ops /\ o \in OpsOf("open") /\ o # "write" /\ o # "sync16" /\ <<>> \in Seq(Nat)
  BY Zenon, OpenOps
<1>5. QED BY Zenon, <1>1, <1>2, <1>3, <1>4, Issues

\* open returns.
LEMMA OpenFinishes ==
  ASSUME BotInv, InOpen, NEW op \in {"inquiry", "tur", "sense", "capacity", "capacity16"},
         Returned(op), tries' = tries, ready => ready', ready' \in BOOLEAN,
         NEW r \in Errors \cup {"none", "ok"}, Finish(r)
  PROVE  BotInv'
<1>1. result' = r /\ NoCommand("none")
  BY Zenon DEF Finish
<1>2. tries' \in 0..3
  BY Zenon DEF BotInv, Typed, RequestTyped
<1>3. RequestTyped' /\ Rest_of_world /\ kind' = "open" /\ no_flush_command' = no_flush_command
  BY Zenon, <1>1, <1>2, OpenFrame
<1>4. phase = "answer" /\ outer = NoCmd /\ no_flush_command \in BOOLEAN
        /\ (no_flush_command => Optional \subseteq lacks)
  BY Zenon, Returns
<1>5. QED BY Zenon, <1>1, <1>3, <1>4, Drops

LEMMA OpenInquiredStep == ASSUME BotInv, OpenInquired PROVE BotInv'
<1>1. Returned("inquiry") /\ InOpen /\ ready' = ready
  BY Zenon DEF OpenInquired
<1>2. answer \in Errors \cup {"none", "ok"} /\ ready \in BOOLEAN
  BY Zenon, <1>1, Returns
<1>3. CASE Command("tur", 0, 0, <<>>) /\ tries' = 1 /\ UNCHANGED result
  BY <1>1, <1>3, OpenIssues
<1>4. CASE Finish("protocol") /\ UNCHANGED tries
  BY <1>1, <1>2, <1>4, OpenFinishes, OpenOps
<1>5. CASE Finish(answer) /\ UNCHANGED tries
  BY <1>1, <1>2, <1>5, OpenFinishes
<1>6. QED BY Zenon, <1>3, <1>4, <1>5 DEF OpenInquired

LEMMA OpenTestedStep == ASSUME BotInv, OpenTested PROVE BotInv'
<1>1. Returned("tur") /\ InOpen /\ ready' = ready /\ tries' = tries
  BY Zenon DEF OpenTested
<1>2. ready \in BOOLEAN /\ tries \in 0..3
  BY Zenon, <1>1, Returns DEF RequestTyped
<1>3. CASE answer = "gone"
  BY <1>1, <1>2, <1>3, OpenFinishes, OpenOps DEF OpenTested
<1>4. CASE answer # "gone"
  <2>1. PICK o \in {"capacity", "sense"} : Command(o, 0, 1, <<>>)
    BY Zenon, <1>4 DEF OpenTested
  <2>2. result' = result
    BY Zenon, <1>4 DEF OpenTested
  <2>3. QED BY Zenon, <1>1, <1>2, <2>1, <2>2, OpenIssues
<1>5. QED BY Zenon, <1>3, <1>4

LEMMA OpenSensedStep == ASSUME BotInv, OpenSensed PROVE BotInv'
<1>1. Returned("sense") /\ InOpen /\ ready' = ready
  BY Zenon DEF OpenSensed
<1>2. ready \in BOOLEAN /\ tries \in 0..3
  BY Zenon, <1>1, Returns DEF RequestTyped
<1>3. CASE answer = "ok" /\ SenseRead \notin {"notready", "attention"}
  BY <1>1, <1>2, <1>3, OpenFinishes, OpenOps DEF OpenSensed
<1>4. CASE ~(answer = "ok" /\ SenseRead \notin {"notready", "attention"})
  <2>1. result' = result /\ IF tries < 3 THEN Command("tur", 0, 0, <<>>) /\ tries' = tries + 1
                            ELSE Command("capacity", 0, 1, <<>>) /\ UNCHANGED tries
    BY Zenon, <1>4 DEF OpenSensed
  <2>2. tries' \in 0..3
    BY <1>2, <2>1
  <2>3. QED BY Zenon, <1>1, <2>1, <2>2, OpenIssues
<1>5. QED BY Zenon, <1>3, <1>4

LEMMA OpenSizedStep ==
  ASSUME BotInv, NEW op \in {"capacity", "capacity16"}, OpenSized(op) PROVE BotInv'
<1>1. Returned(op) /\ InOpen /\ tries' = tries
  BY Zenon DEF OpenSized
<1>2. ready \in BOOLEAN /\ tries \in 0..3 /\ answer \in Errors \cup {"none", "ok"}
  BY Zenon, <1>1, Returns DEF RequestTyped
<1>3. CASE Finish("ok") /\ ready' = TRUE
  BY Zenon, <1>1, <1>2, <1>3, OpenFinishes, OpenOps
<1>4. CASE Finish("protocol") /\ UNCHANGED ready
  BY Zenon, <1>1, <1>2, <1>4, OpenFinishes, OpenOps
<1>5. CASE Finish(answer) /\ UNCHANGED ready
  BY Zenon, <1>1, <1>2, <1>5, OpenFinishes
<1>6. CASE Command("capacity16", 0, 1, <<>>) /\ UNCHANGED <<ready, result>>
  BY Zenon, <1>1, <1>2, <1>6, OpenIssues
<1>7. QED BY Zenon, <1>3, <1>4, <1>5, <1>6 DEF OpenSized

-----------------------------------------------------------------------------
(* Reads and writes.                                                        *)

LEMMA StartTransferStep ==
  ASSUME BotInv, NEW k \in {"read", "write"}, NEW o \in Addr, NEW n \in 0..Size,
         StartTransfer(k, o, n)
  PROVE  BotInv'
<1>1. ready /\ Request(k, o, n) /\ UNCHANGED <<ready, no_flush_command>>
  BY Zenon DEF StartTransfer
<1>2. PICK p \in {"none", "chunk"} :
        /\ NoCommand(p) /\ result' \in {"bounds", "none"}
        /\ p = "chunk" => ~(n > 0 /\ o + n > Size)
  BY Zenon DEF StartTransfer, Finish
<1>3. RequestTyped' /\ Rest_of_world /\ phase = "none" /\ outer = NoCmd
  BY Zenon, <1>1, <1>2, Begins DEF Kinds, Errors
<1>4. kind' = k /\ off' = o /\ len' = n
  BY Zenon, <1>1 DEF Request
<1>5. o \in Int /\ n \in Nat /\ Size \in Nat
  BY Zero DEF Addr
<1>6. p = "chunk" => kind' \in {"read", "write"} /\ (len' = 0 \/ off' + len' <= Size)
  BY <1>2, <1>4, <1>5
<1>7. /\ ready' = ready /\ ready' \in BOOLEAN /\ no_flush_command' \in BOOLEAN
      /\ no_flush_command' => Optional \subseteq lacks
  BY Zenon, <1>1 DEF BotInv, Typed, Flags, Sensed
<1>8. QED BY <1>1, <1>2, <1>3, <1>4, <1>6, <1>7, Drops

\* What a step of a transfer, a flush or write_cache_state leaves typed.
LEMMA TransferFrame ==
  ASSUME BotInv, UNCHANGED <<request, ready, no_flush_command, tries>>,
         done' \in 0..len, collected' \in Seq(Nat), Len(collected') <= done',
         result' \in Errors \cup {"none", "ok"}
  PROVE  /\ RequestTyped' /\ UNCHANGED <<kind, off, len, calls, before, aimed>>
         /\ ready' = ready /\ no_flush_command' = no_flush_command
         /\ ready' \in BOOLEAN /\ no_flush_command' \in BOOLEAN
         /\ no_flush_command' => Optional \subseteq lacks
<1>1. UNCHANGED <<kind, off, len, calls, before, aimed>>
  BY Zenon DEF request
<1>2. QED BY Zenon, <1>1 DEF BotInv, Typed, RequestTyped, Flags, Sensed

LEMMA Payloads ==
  ASSUME off \in Addr, calls \in Nat, NEW i \in Nat
  PROVE  Payload(i) \in Nat
<1>1. Size \in Nat /\ off \in Nat
  BY Zero DEF Addr
<1>2. calls * Size \in Nat
  BY <1>1
<1>3. QED BY <1>1, <1>2 DEF Payload

LEMMA Joined ==
  ASSUME NEW S, NEW s \in Seq(S), NEW t \in Seq(S)
  PROVE  /\ s \o t \in Seq(S) /\ Len(s \o t) = Len(s) + Len(t)
         /\ Len(s) \in Nat /\ Len(t) \in Nat
OBVIOUS

\* A transfer between two chunks, or with a command out, that is not over yet.
LEMMA ChunkBounds ==
  ASSUME BotInv, off + len <= Size, done < len
  PROVE  /\ Chunk(done).lba \in Nat /\ Chunk(done).span \in Nat
         /\ Chunk(done).within \in 0..bs - 1 /\ bs \in Nat
         /\ Chunk(done).take \in 1..len - done /\ len \in Nat /\ done \in Nat
         /\ Chunk(done).within + Chunk(done).take <= Chunk(done).span
<1>1. off \in Addr /\ len \in 0..Size /\ done \in 0..len /\ Size \in Nat /\ bs \in Nat
  BY Zenon, Zero, ScsiAssumption DEF BotInv, Typed, RequestTyped
<1>2. QED BY <1>1, ChunkFacts

LEMMA NextChunkStep == ASSUME BotInv, NextChunk PROVE BotInv'
<1>1. phase = "chunk" /\ InTransfer /\ UNCHANGED <<done, collected>>
  BY Zenon DEF NextChunk
<1>2. Rest_of_world /\ UNCHANGED <<request, ready, no_flush_command, tries>>
  BY Zenon, <1>1 DEF InTransfer
<1>3. /\ RequestTyped /\ kind \in {"read", "write"} /\ ready /\ outer = NoCmd
      /\ (len = 0 \/ off + len <= Size) /\ tag \in Tags
  BY Zenon, <1>1 DEF BotInv, Typed, CommandTyped, Joint, Asking, Issued
<1>4. /\ done \in 0..len /\ collected \in Seq(Nat) /\ Len(collected) <= done
      /\ result \in Errors \cup {"none", "ok"} /\ len \in Nat /\ off \in Addr /\ calls \in Nat
  BY <1>3, Zero DEF RequestTyped
<1>5. CASE done = len
  <2>1. result' = "ok" /\ NoCommand("none")
    BY Zenon, <1>5 DEF NextChunk, Finish
  <2>2. /\ RequestTyped' /\ kind' = kind /\ ready' = ready /\ ready' \in BOOLEAN
        /\ no_flush_command' \in BOOLEAN /\ (no_flush_command' => Optional \subseteq lacks)
    BY Zenon, <1>1, <1>2, <1>4, <2>1, TransferFrame
  <2>3. QED BY <1>1, <1>2, <1>3, <2>1, <2>2, Drops
<1>6. CASE done # len
  <2> DEFINE c == Chunk(done)
             us == [i \in 1..c.span |-> Payload(done + i - 1)]
  <2>1. done < len /\ off + len <= Size
    BY <1>3, <1>4, <1>6
  <2>2. c.lba \in Nat /\ c.span \in Nat
    BY Zenon, <2>1, ChunkBounds
  <2>3. result' = result
    BY Zenon, <1>6 DEF NextChunk
  <2>4. Command("read", c.lba, c.span, <<>>) \/ (kind = "write" /\ Command("write", c.lba, c.span, us))
    BY Zenon, <1>3, <1>6 DEF NextChunk
  <2>5. \A i \in 1..c.span : Payload(done + i - 1) \in Nat
    <3>1. SUFFICES ASSUME NEW i \in 1..c.span PROVE Payload(done + i - 1) \in Nat
      BY Zenon
    <3>2. done + i - 1 \in Nat
      BY <1>4, <2>2
    <3>3. QED BY Zenon, <1>4, <3>2, Payloads
  <2> HIDE DEF c
  <2>6. c = Chunk(done)
    BY Zenon DEF c
  <2>7. us \in Seq(Nat) /\ Len(us) = c.span
    BY <2>2, <2>5
  <2>8. <<>> \in Seq(Nat) /\ "read" \in Ops /\ "write" \in Ops /\ "read" \in OpsOf(kind)
        /\ (kind = "write" => "write" \in OpsOf(kind))
    BY <1>3 DEF Ops, InOps, OpsOf
  <2>9. /\ RequestTyped' /\ UNCHANGED <<kind, off, len>> /\ ready' = ready
        /\ no_flush_command' = no_flush_command /\ no_flush_command' \in BOOLEAN
    BY Zenon, <1>1, <1>2, <1>4, <2>3, TransferFrame
  <2> HIDE DEF us
  <2>10. CASE Command("read", c.lba, c.span, <<>>)
    <3>1. PICK data \in Seq(Nat) : data = <<>>
      BY Zenon, <2>8
    <3>2. Issue(tag, "read", c.lba, c.span, data) /\ sense' = "unknown" /\ UNCHANGED outer
      BY Zenon, <2>10, <3>1 DEF Command
    <3>3. QED BY <1>1, <1>2, <1>3, <2>1, <2>2, <2>8, <2>9, <2>6, <3>2, Issues
  <2>11. CASE kind = "write" /\ Command("write", c.lba, c.span, us)
    <3>1. Issue(tag, "write", c.lba, c.span, us) /\ sense' = "unknown" /\ UNCHANGED outer
      BY Zenon, <2>11 DEF Command
    <3>2. QED BY <1>1, <1>2, <1>3, <2>1, <2>2, <2>7, <2>8, <2>9, <2>11, <2>6, <3>1, Issues
  <2>12. QED BY Zenon, <2>4, <2>10, <2>11
<1>7. QED BY Zenon, <1>5, <1>6

\* A command of read_at or write_at has returned.
LEMMA ChunkReturned ==
  ASSUME BotInv, NEW op \in {"read", "write"}, Returned(op), InTransfer
  PROVE  /\ kind \in {"read", "write"} /\ (op = "write" => kind = "write")
         /\ phase = "answer" /\ outer = NoCmd /\ cmd.op = op
         /\ tag \in Tags /\ answer \in Errors \cup {"ok"} /\ ready
         /\ done < len /\ off + len <= Size
         /\ cmd.lba = Chunk(done).lba /\ cmd.len = Chunk(done).span
         /\ Rest_of_world /\ UNCHANGED <<request, ready, no_flush_command, tries>>
         /\ done \in 0..len /\ collected \in Seq(Nat) /\ Len(collected) <= done
         /\ result \in Errors \cup {"none", "ok"} /\ len \in Nat /\ off \in Addr /\ calls \in Nat
<1>1. /\ phase = "answer" /\ outer = NoCmd /\ cmd.op = op /\ op \in OpsOf(kind) /\ RequestTyped
      /\ tag \in Tags /\ answer \in Errors \cup {"ok"}
      /\ kind \in {"read", "write", "flush", "cache"} => ready
  BY Zenon, Returns
<1>2. kind \in {"read", "write"} /\ (op = "write" => kind = "write")
  BY Zenon, <1>1 DEF OpsOf, RequestTyped, Kinds, Optional
<1>3. /\ done < len /\ off + len <= Size
      /\ cmd.lba = Chunk(done).lba /\ cmd.len = Chunk(done).span
  BY Zenon, <1>1, <1>2 DEF BotInv, Joint, Asking, Asked, Issued
<1>4. Rest_of_world /\ UNCHANGED <<request, ready, no_flush_command, tries>>
  BY Zenon DEF InTransfer
<1>5. QED BY <1>1, <1>2, <1>3, <1>4, Zero DEF RequestTyped

\* read_at or write_at gives up on a chunk, or is done with it.
LEMMA ChunkDropped ==
  ASSUME BotInv, NEW op \in {"read", "write"}, Returned(op), InTransfer,
         NEW p \in {"none", "chunk"}, NoCommand(p), result' \in Errors \cup {"none", "ok"},
         done' \in 0..len, collected' \in Seq(Nat), Len(collected') <= done'
  PROVE  BotInv'
<1>1. /\ kind \in {"read", "write"} /\ phase = "answer" /\ outer = NoCmd /\ ready
      /\ off + len <= Size /\ Rest_of_world /\ UNCHANGED <<request, ready, no_flush_command, tries>>
  BY Zenon, ChunkReturned
<1>2. /\ RequestTyped' /\ UNCHANGED <<kind, off, len>> /\ ready' = ready /\ ready' \in BOOLEAN
      /\ no_flush_command' \in BOOLEAN /\ (no_flush_command' => Optional \subseteq lacks)
  BY Zenon, <1>1, TransferFrame
<1>3. QED BY <1>1, <1>2, Drops

LEMMA ChunkReadStep == ASSUME BotInv, ChunkRead PROVE BotInv'
<1> DEFINE c == Chunk(done)
           part(i) == ChunkBuffer(c.within + i)
           unit(i) == IF i \in c.within + 1..c.within + c.take
                      THEN Payload(done + i - c.within - 1) ELSE ChunkBuffer(i)
           got == [i \in 1..c.take |-> part(i)]
           us  == [i \in 1..c.span |-> unit(i)]
<1>1. Returned("read") /\ InTransfer
  BY Zenon DEF ChunkRead
<1>2. /\ kind \in {"read", "write"} /\ phase = "answer" /\ outer = NoCmd /\ cmd.op = "read"
      /\ tag \in Tags /\ answer \in Errors \cup {"ok"} /\ ready
      /\ done < len /\ off + len <= Size
      /\ cmd.lba = c.lba /\ cmd.len = c.span
      /\ Rest_of_world /\ UNCHANGED <<request, ready, no_flush_command, tries>>
      /\ done \in 0..len /\ collected \in Seq(Nat) /\ Len(collected) <= done
      /\ result \in Errors \cup {"none", "ok"} /\ len \in Nat /\ off \in Addr /\ calls \in Nat
  BY Zenon, <1>1, ChunkReturned
<1>3. /\ c.lba \in Nat /\ c.span \in Nat /\ c.within \in 0..bs - 1 /\ bs \in Nat
      /\ c.take \in 1..len - done /\ c.within + c.take <= c.span
  BY Zenon, <1>2, ChunkBounds
<1> HIDE DEF c
<1>4. c = Chunk(done)
  BY Zenon DEF c
<1>5. CASE \/ answer # "ok" /\ Finish(answer) /\ UNCHANGED <<done, collected>>
           \/ answer = "ok" /\ ShortPhase /\ Finish("protocol") /\ UNCHANGED <<done, collected>>
  <2>1. NoCommand("none") /\ result' \in Errors \cup {"none", "ok"} /\ UNCHANGED <<done, collected>>
    BY Zenon, <1>2, <1>5 DEF Finish, Errors
  <2>2. QED BY Zenon, <1>1, <1>2, <2>1, ChunkDropped
<1>6. ~ShortPhase => \A i \in 1..c.span : ChunkBuffer(i) \in Nat
  <2>1. SUFFICES ASSUME ~ShortPhase, NEW i \in 1..c.span PROVE ChunkBuffer(i) \in Nat
    BY Zenon
  <2>2. inbuf \in Seq(Nat) /\ Len(inbuf) = transferred /\ transferred \in 0..c.span
    BY Zenon, <1>2 DEF BotInv, Typed, CommandTyped, UnitsOf
  <2>3. transferred = c.span
    BY <1>2, <1>3, <2>1, <2>2 DEF ShortPhase
  <2>4. inbuf[i] \in Nat /\ i <= Len(inbuf)
    BY <1>3, <2>2, <2>3
  <2>5. QED BY Zenon, <2>4 DEF ChunkBuffer
<1>7. CASE /\ answer = "ok" /\ ~ShortPhase /\ kind = "read"
           /\ collected' = collected \o got /\ done' = done + c.take
           /\ NoCommand("chunk") /\ UNCHANGED result
  <2>1. \A i \in 1..c.take : part(i) \in Nat
    <3>1. SUFFICES ASSUME NEW i \in 1..c.take PROVE part(i) \in Nat
      BY Zenon
    <3>2. c.within + i \in 1..c.span
      BY <1>3
    <3>3. QED BY Zenon, <1>6, <1>7, <3>2
  <2> HIDE DEF part
  <2>2. c.take \in Nat
    BY <1>2, <1>3
  <2>3. got \in Seq(Nat) /\ Len(got) = c.take
    BY <2>1, <2>2
  <2> HIDE DEF got
  <2>4. collected \in Seq(Nat) /\ collected' = collected \o got /\ done' = done + c.take
    BY Zenon, <1>2, <1>7
  <2>5. collected' \in Seq(Nat) /\ Len(collected') = Len(collected) + c.take
    BY <2>3, <2>4, Joined, Zenon
  <2>6. done' \in 0..len /\ Len(collected') <= done'
    <3>1. Len(collected) \in Nat /\ Len(collected) <= done /\ done \in 0..len /\ len \in Nat
      BY <1>2
    <3>2. c.take \in 1..len - done /\ done' = done + c.take /\ Len(collected') = Len(collected) + c.take
      BY Zenon, <1>3, <2>5, <2>4
    <3>3. QED BY <3>1, <3>2
  <2>7. QED BY Zenon, <1>1, <1>2, <1>7, <2>5, <2>6, ChunkDropped
<1>8. CASE /\ answer = "ok" /\ ~ShortPhase /\ kind = "write"
           /\ Command("write", c.lba, c.span, us)
           /\ UNCHANGED <<done, collected, result>>
  <2>1. \A i \in 1..c.span : unit(i) \in Nat
    <3>1. SUFFICES ASSUME NEW i \in 1..c.span PROVE unit(i) \in Nat
      BY Zenon
    <3>2. CASE i \in c.within + 1..c.within + c.take
      <4>1. done + i - c.within - 1 \in Nat
        <5>1. done \in Nat /\ c.within \in Nat /\ c.take \in Nat
          BY <1>2, <1>3
        <5>2. QED BY <3>2, <5>1
      <4>2. QED BY Zenon, <1>2, <3>2, <4>1, Payloads
    <3>3. CASE i \notin c.within + 1..c.within + c.take
      BY Zenon, <1>6, <1>8, <3>3
    <3>4. QED BY Zenon, <3>2, <3>3
  <2> HIDE DEF unit
  <2>2. us \in Seq(Nat) /\ Len(us) = c.span
    BY <1>3, <2>1
  <2> HIDE DEF us
  <2>3. Issue(tag, "write", c.lba, c.span, us) /\ sense' = "unknown" /\ UNCHANGED outer
    BY Zenon, <1>8 DEF Command
  <2>4. /\ RequestTyped' /\ UNCHANGED <<kind, off, len>> /\ ready' = ready
        /\ no_flush_command' = no_flush_command /\ no_flush_command' \in BOOLEAN
    BY Zenon, <1>2, <1>8, TransferFrame
  <2>5. "write" \in Ops /\ "write" \in OpsOf("write")
    BY Zenon DEF Ops, OpsOf
  <2>6. QED BY <1>2, <1>3, <1>8, <2>2, <2>3, <2>4, <2>5, <1>4, Issues
<1>9. QED BY Zenon, <1>5, <1>7, <1>8 DEF ChunkRead, c

LEMMA NoUnits == \E data \in Seq(Nat) : data = <<>>
<1>1. <<>> \in Seq(Nat)
  OBVIOUS
<1>2. QED BY Zenon, <1>1

LEMMA ChunkWrittenStep == ASSUME BotInv, ChunkWritten PROVE BotInv'
<1>1. Returned("write") /\ InTransfer /\ collected' = collected
  BY Zenon DEF ChunkWritten
<1>2. /\ answer \in Errors \cup {"ok"} /\ done < len /\ off + len <= Size
      /\ done \in 0..len /\ collected \in Seq(Nat) /\ Len(collected) <= done
      /\ result \in Errors \cup {"none", "ok"} /\ len \in Nat
  BY Zenon, <1>1, ChunkReturned
<1>3. CASE \/ answer # "ok" /\ Finish(answer) /\ UNCHANGED done
           \/ answer = "ok" /\ ShortPhase /\ Finish("protocol") /\ UNCHANGED done
  <2>1. NoCommand("none") /\ result' \in Errors \cup {"none", "ok"} /\ done' = done
    BY Zenon, <1>2, <1>3 DEF Finish, Errors
  <2>2. QED BY Zenon, <1>1, <1>2, <2>1, ChunkDropped
<1>4. CASE done' = done + Chunk(done).take /\ NoCommand("chunk") /\ UNCHANGED result
  <2>1. PICK take \in 1..len - done : take = Chunk(done).take
    BY Zenon, <1>2, ChunkBounds
  <2>2. Len(collected) \in Nat /\ Len(collected') = Len(collected)
    BY <1>1, <1>2
  <2>3. done' \in 0..len /\ Len(collected') <= done'
    BY <1>2, <1>4, <2>1, <2>2
  <2>4. QED BY Zenon, <1>1, <1>2, <1>4, <2>3, ChunkDropped
<1>5. QED BY Zenon, <1>3, <1>4 DEF ChunkWritten

-----------------------------------------------------------------------------
(* Flushes, and the state of the write cache.                               *)

LEMMA StartFlushStep == ASSUME BotInv, StartFlush PROVE BotInv'
<1>1. ready /\ Request("flush", 0, 0) /\ UNCHANGED <<ready, no_flush_command>>
  BY Zenon DEF StartFlush
<1>2. kind' = "flush" /\ tag \in Tags /\ ready' \in BOOLEAN /\ no_flush_command' \in BOOLEAN
        /\ (no_flush_command => Optional \subseteq lacks)
  BY Zenon, <1>1 DEF Request, BotInv, Typed, Flags, CommandTyped, Sensed
<1>3. CASE no_flush_command
  <2>1. result' = "ok" /\ NoCommand("none")
    BY Zenon, <1>3 DEF StartFlush, Finish
  <2>2. RequestTyped' /\ Rest_of_world /\ phase = "none" /\ outer = NoCmd
    BY Zenon, <1>1, <2>1, Begins, Zero DEF Kinds
  <2>3. QED BY Zenon, <1>1, <1>2, <1>3, <2>1, <2>2, Drops
<1>4. CASE ~no_flush_command
  <2>1. PICK data \in Seq(Nat) : data = <<>>
    BY Zenon, NoUnits
  <2>2. Issue(tag, "sync10", 0, 0, data) /\ sense' = "unknown" /\ UNCHANGED outer /\ result' = "none"
    BY Zenon, <1>4, <2>1 DEF StartFlush, Command
  <2>3. RequestTyped' /\ Rest_of_world /\ phase = "none" /\ outer = NoCmd
    BY Zenon, <1>1, <2>2, Begins, Zero DEF Kinds
  <2>4. "sync10" \in Ops /\ "sync10" \in OpsOf("flush")
    BY Zenon DEF Ops, NoData, OpsOf, Optional
  <2>5. QED BY Zenon, <1>1, <1>2, <2>2, <2>3, <2>4, Issues
<1>5. QED BY Zenon, <1>3, <1>4

\* An opcode is given up only if the drive lacks it.
LEMMA SynchronizedStep ==
  ASSUME BotInv, NEW op \in {"sync10", "sync16"}, Synchronized(op) PROVE BotInv'
<1>1. /\ Returned(op) /\ Rest_of_world /\ UNCHANGED <<request, ready, done, collected, tries>>
  BY Zenon DEF Synchronized
<1>2. /\ phase = "answer" /\ outer = NoCmd /\ cmd.op = op /\ op \in OpsOf(kind)
      /\ tag \in Tags /\ answer \in Errors \cup {"ok"} /\ RequestTyped
      /\ kind \in {"read", "write", "flush", "cache"} => ready
      /\ ready \in BOOLEAN /\ no_flush_command \in BOOLEAN
      /\ no_flush_command => Optional \subseteq lacks
  BY Zenon, <1>1, Returns
<1>3. kind = "flush"
  BY Zenon, <1>2 DEF OpsOf, RequestTyped, Kinds
<1>4. UNCHANGED <<kind, off, len, calls, before>>
  BY Zenon, <1>1 DEF request
<1>5. result' \in Errors \cup {"none", "ok"} => RequestTyped'
  BY <1>1, <1>2, <1>4, Zenon DEF RequestTyped
<1>6. Unsupported => op \in lacks
  BY Zenon, <1>2 DEF BotInv, Sensed, Unsupported, Optional
<1>7. op = "sync16" => "sync10" \in lacks
  BY Zenon, <1>2 DEF BotInv, Sensed
<1>8. CASE ~Unsupported /\ Finish(answer) /\ UNCHANGED no_flush_command
  <2>1. result' = answer /\ NoCommand("none")
    BY Zenon, <1>8 DEF Finish
  <2>2. answer = "ok" => dphase = "cbw" /\ medium = image
    BY Zenon, <1>2 DEF BotInv, Joint, Answering, Flushed, Optional
  <2>3. QED BY Zenon, <1>1, <1>2, <1>3, <1>4, <1>5, <1>8, <2>1, <2>2, Drops
<1>9. CASE /\ Unsupported /\ op = "sync10" /\ Command("sync16", 0, 0, <<>>)
           /\ UNCHANGED <<result, no_flush_command>>
  <2>1. PICK data \in Seq(Nat) : data = <<>>
    BY Zenon, NoUnits
  <2>2. Issue(tag, "sync16", 0, 0, data) /\ sense' = "unknown" /\ UNCHANGED outer
    BY Zenon, <1>9, <2>1 DEF Command
  <2>3. "sync16" \in Ops /\ "sync16" \in OpsOf("flush")
    BY Zenon DEF Ops, NoData, OpsOf, Optional
  <2>4. RequestTyped'
    BY Zenon, <1>2, <1>5, <1>9 DEF RequestTyped
  <2>5. QED BY Zenon, <1>1, <1>2, <1>3, <1>4, <1>6, <1>9, <2>2, <2>3, <2>4, Issues
<1>10. CASE Unsupported /\ op = "sync16" /\ Finish("ok") /\ no_flush_command' = TRUE
  <2>1. result' = "ok" /\ NoCommand("none")
    BY Zenon, <1>10 DEF Finish
  <2>2. Optional \subseteq lacks
    BY Zenon, <1>6, <1>7, <1>10 DEF Optional
  <2>3. QED BY Zenon, <1>1, <1>2, <1>3, <1>4, <1>5, <1>10, <2>1, <2>2, Drops
<1>11. QED BY Zenon, <1>8, <1>9, <1>10 DEF Synchronized

LEMMA StartCacheStateStep == ASSUME BotInv, StartCacheState PROVE BotInv'
<1>1. ready /\ Request("cache", 0, 0) /\ UNCHANGED <<ready, no_flush_command>> /\ result' = "none"
  BY Zenon DEF StartCacheState
<1>2. PICK data \in Seq(Nat) : data = <<>>
  BY Zenon, NoUnits
<1>3. Issue(tag, "mode6", 0, 2, data) /\ sense' = "unknown" /\ UNCHANGED outer
  BY Zenon, <1>2 DEF StartCacheState, Command
<1>4. RequestTyped' /\ Rest_of_world /\ phase = "none" /\ outer = NoCmd
  BY Zenon, <1>1, Begins, Zero DEF Kinds
<1>5. kind' = "cache" /\ tag \in Tags /\ no_flush_command' \in BOOLEAN
  BY Zenon, <1>1 DEF Request, BotInv, Typed, Flags, CommandTyped
<1>6. "mode6" \in Ops /\ "mode6" \in OpsOf("cache")
  BY Zenon DEF Ops, InOps, OpsOf
<1>7. QED BY Zenon, <1>1, <1>3, <1>4, <1>5, <1>6, Issues

LEMMA CacheAnsweredStep ==
  ASSUME BotInv, NEW op \in {"mode6", "mode10"}, CacheAnswered(op) PROVE BotInv'
<1>1. Returned(op) /\ InTransfer /\ UNCHANGED <<done, collected>>
  BY Zenon DEF CacheAnswered
<1>2. Rest_of_world /\ UNCHANGED <<request, ready, no_flush_command, tries>>
  BY Zenon, <1>1 DEF InTransfer
<1>3. /\ phase = "answer" /\ outer = NoCmd /\ op \in OpsOf(kind) /\ tag \in Tags /\ RequestTyped
      /\ kind \in {"read", "write", "flush", "cache"} => ready
  BY Zenon, <1>1, Returns
<1>4. kind = "cache"
  BY Zenon, <1>3 DEF OpsOf, RequestTyped, Kinds, Optional
<1>5. result' \in Errors \cup {"none", "ok"} =>
        /\ RequestTyped' /\ kind' = kind /\ ready' = ready /\ ready' \in BOOLEAN
        /\ no_flush_command' = no_flush_command /\ no_flush_command' \in BOOLEAN
        /\ (no_flush_command' => Optional \subseteq lacks)
  BY Zenon, <1>1, <1>2, <1>3, TransferFrame DEF RequestTyped
<1>6. CASE Command("mode10", 0, 2, <<>>) /\ UNCHANGED result
  <2>1. PICK data \in Seq(Nat) : data = <<>>
    BY Zenon, NoUnits
  <2>2. Issue(tag, "mode10", 0, 2, data) /\ sense' = "unknown" /\ UNCHANGED outer
    BY Zenon, <1>6, <2>1 DEF Command
  <2>3. "mode10" \in Ops /\ "mode10" \in OpsOf("cache")
    BY Zenon DEF Ops, InOps, OpsOf
  <2>4. result' \in Errors \cup {"none", "ok"}
    BY Zenon, <1>3, <1>6 DEF RequestTyped
  <2>5. QED BY Zenon, <1>2, <1>3, <1>4, <1>5, <2>2, <2>3, <2>4, Issues
<1>7. CASE Finish("ok")
  <2>1. result' = "ok" /\ NoCommand("none")
    BY Zenon, <1>7 DEF Finish
  <2>2. QED BY Zenon, <1>2, <1>3, <1>4, <1>5, <2>1, Drops
<1>8. QED BY Zenon, <1>6, <1>7 DEF CacheAnswered


-----------------------------------------------------------------------------
(* What the steps of a command have in common.                              *)

\* The request does not change while a command is out.
LEMMA Wire ==
  ASSUME BotInv, UNCHANGED <<request, progress>>, cleared_halt' \in BOOLEAN,
         attention' \in BOOLEAN, gone' \in BOOLEAN, Asking', Beneath'
  PROVE  BotInv'
<1>1. UNCHANGED <<kind, off, len, calls, before, aimed, ready, no_flush_command, done, collected,
                  tries, result>>
  BY Zenon DEF request, progress
<1>2. RequestTyped'
  BY <1>1, Zenon DEF BotInv, Typed, RequestTyped
<1>3. Flags'
  BY <1>1, Zenon DEF BotInv, Typed, Flags
<1>4. QED BY Zenon, <1>2, <1>3 DEF BotInv, Typed, Joint, Beneath

\* The command stays the same.
LEMMA SameAsked ==
  ASSUME BotInv, UNCHANGED <<request, progress, cmd, sense, outer>>,
         phase' = phase \/ (phase \in Issued /\ phase' \in Issued)
  PROVE  Asking'
<1>1. UNCHANGED <<kind, off, len, done, ready>>
  BY Zenon DEF request, progress
<1>2. Asked' = Asked
  BY Zenon DEF Asked
<1>3. Chunk(done)' = Chunk(done)
  BY Zenon, <1>1 DEF Chunk, Least
<1>4. phase' \in Issued <=> phase \in Issued
  BY Zenon
<1>5. phase' \notin Issued => phase' = phase
  BY Zenon
<1>6. phase' = "chunk" => phase = "chunk"
  BY Zenon DEF Issued
<1>7. phase' # "none" => phase # "none"
  BY Zenon DEF Issued
<1>8. QED BY Zenon, <1>1, <1>2, <1>3, <1>4, <1>6, <1>7 DEF BotInv, Joint, Asking

LEMMA Widened ==
  ASSUME NEW m \in Nat, NEW n \in Nat, m <= n
  PROVE  1..m \subseteq 1..n /\ 2..m + 1 \subseteq 2..n + 1
OBVIOUS

\* The drive stays in its command.
LEMMA SameKept ==
  ASSUME BotInv, UNCHANGED <<cmd, tag, dcmd>>, dphase # "cbw", gone' = gone \/ gone' = TRUE,
         faults' \in Nat, faults <= faults',
         phase' = phase \/ (phase \in {"cbw", "data", "csw"} /\ phase' \in {"data", "csw", "reset"})
  PROVE  KeptWrite'
<1>1. faults \in Nat
  BY DEF BotInv, Typed, DriveTyped
<1>2. 1..faults \subseteq 1..faults' /\ 2..faults + 1 \subseteq 2..faults' + 1
  BY Zenon, <1>1, Widened
<1>3. \A j : Age(j)' <=> Age(j)
  BY Zenon DEF Age
<1>4. ~gone' => ~gone
  BY Zenon
<1>5. dcmd.op = "write" /\ ~gone =>
        /\ phase \in {"none", "chunk", "answer"} => \E j \in 1..faults : Age(j)
        /\ phase = "cbw" => \E j \in 2..faults + 1 : Age(j)
        /\ phase \in {"data", "csw", "reset"} => dcmd = cmd \/ \E j \in 2..faults + 1 : Age(j)
  BY Zenon DEF BotInv, Joint, KeptWrite
<1>6. dcmd.op = "write" /\ ~gone =>
        /\ phase \in {"none", "chunk", "answer"} => \E j \in 1..faults' : Age(j)'
        /\ phase = "cbw" => \E j \in 2..faults' + 1 : Age(j)'
        /\ phase \in {"data", "csw", "reset"} => dcmd = cmd \/ \E j \in 2..faults' + 1 : Age(j)'
  BY <1>2, <1>3, <1>5, Zenon
<1>7. QED BY Zenon, <1>4, <1>6 DEF KeptWrite

\* A command fails, and the reset is still to come.
LEMMA FailStep ==
  ASSUME BotInv, phase \in {"cbw", "data", "csw"}, NEW a \in Errors, Fail(a),
         UNCHANGED <<request, progress, cmd, tag, transferred, inbuf, sense, outer, gone>>,
         StillIn, UNCHANGED drive, cleared_halt' \in BOOLEAN,
         halted' \subseteq {"in", "out"}, faults' \in 0..MaxFaults, faults <= faults'
  PROVE  BotInv'
<1>1. UNCHANGED <<dphase, dcmd, davail, dcount, dgot, dend, dstatus, dsense, spin, attention, has,
                  lacks, image, medium>>
  BY Zenon DEF StillIn, drive
<1>2. phase' = "reset" /\ answer' = a
  BY Zenon DEF Fail
<1>3. Asking'
  BY Zenon, <1>2, SameAsked DEF Issued
<1>4. CommandTyped'
  BY <1>2, Zenon DEF BotInv, Typed, CommandTyped, Issued
<1>5. DriveTyped'
  BY <1>1, Zenon DEF BotInv, Typed, DriveTyped
<1>6. Answering'
  BY Zenon, <1>1, <1>2 DEF BotInv, Joint, Answering
<1>7. InCommand'
  <2>1. ready' = ready
    BY Zenon DEF progress
  <2>2. QED BY <1>1, <2>1, Zenon DEF BotInv, Joint, InCommand
<1>8. KeptWrite'
  <2>1. CASE dphase = "cbw"
    BY Zenon, <1>1, <2>1 DEF KeptWrite
  <2>2. CASE dphase # "cbw"
    <3>1. faults' \in Nat /\ dcmd' = dcmd
      BY <1>1, TagSpace
    <3>2. QED BY Zenon, <1>2, <2>2, <3>1, SameKept
  <2>3. QED BY Zenon, <2>1, <2>2
<1>9. InStep'
  BY Zenon, <1>2 DEF InStep, Served
<1>10. Sensed'
  <2>1. no_flush_command' = no_flush_command
    BY Zenon DEF progress
  <2>2. QED BY Zenon, <1>1, <1>2, <2>1 DEF BotInv, Sensed
<1>11. Flushed'
  BY Zenon, <1>2 DEF Flushed, Served, Passed
<1>12. attention' \in BOOLEAN /\ gone' \in BOOLEAN
  BY <1>1, Zenon DEF BotInv, Typed, Flags
<1>13. QED BY Zenon, <1>3, <1>4, <1>5, <1>6, <1>7, <1>8, <1>9, <1>10, <1>11, <1>12, Wire DEF Beneath

LEMMA NoCmdFacts ==
  NoCmd \in Cmds /\ NoCmd.op = "tur" /\ NoCmd.len = 0 /\ NoCmd.tag = -1 /\ NoCmd.tag \notin Tags
BY ScsiAssumption DEF NoCmd, Cmds, Ops, NoData, Tags

\* The drive is done with its command.
LEMMA Idle ==
  ASSUME BotInv, AwaitsCbw, halted' \subseteq {"in", "out"}, faults' \in 0..MaxFaults,
         dsense' \in Senses, UNCHANGED <<spin, lacks, medium>>, image' \in [Addr -> Nat]
  PROVE  DriveTyped' /\ InCommand' /\ KeptWrite' /\ InStep'
<1>1. /\ dphase' = "cbw" /\ dcmd' = NoCmd /\ davail' = 0 /\ dcount' = 0 /\ dgot' = <<>>
      /\ dend' = "done" /\ dstatus' = NoStatus
  BY Zenon DEF AwaitsCbw
<1>2. dcmd' \in Cmds /\ dcmd'.op = "tur"
  BY Zenon, <1>1, NoCmdFacts
<1>3. DriveTyped'
  <2>1. spin' \in 0..MaxSpin /\ lacks' \subseteq Optional /\ medium' \in [Addr -> Nat]
    BY Zenon DEF BotInv, Typed, DriveTyped
  <2>2. dgot' \in Seq(Nat) /\ Len(dgot') = 0
    BY <1>1
  <2>3. dstatus' \in [status : {"passed", "failed", "phase"}, residue : Int]
    BY <1>1 DEF NoStatus
  <2>4. QED BY <1>1, <1>2, <2>1, <2>2, <2>3 DEF DriveTyped
<1>4. InCommand'
  BY Zenon, <1>1, <1>2 DEF InCommand
<1>5. KeptWrite' /\ InStep'
  BY Zenon, <1>1 DEF KeptWrite, InStep, Served
<1>6. QED BY Zenon, <1>3, <1>4, <1>5

\* A command is over, or its drive is, and it is not yet answered to the request.
LEMMA IdleStep ==
  ASSUME BotInv, phase \in {"cbw", "data", "csw"}, AwaitsCbw, phase' \in {"csw", "reset", "answer"},
         UNCHANGED <<request, progress, cmd, tag, transferred, inbuf, sense, outer, gone, drive>>,
         cleared_halt' \in BOOLEAN, halted' \subseteq {"in", "out"}, faults' \in 0..MaxFaults,
         phase' = "csw" => answer' = "none", phase' = "reset" => answer' \in Errors,
         phase' = "answer" => answer' \in Errors \cup {"ok"},
         phase' = "answer" /\ answer' = "ok" /\ cmd.op \in Optional => medium = image
  PROVE  BotInv'
<1>1. UNCHANGED <<dsense, spin, attention, has, lacks, image, medium>>
  BY Zenon DEF drive
<1>2. DriveTyped' /\ InCommand' /\ KeptWrite' /\ InStep' /\ dphase' = "cbw"
  <2>1. dsense' \in Senses /\ image' \in [Addr -> Nat]
    BY Zenon, <1>1 DEF BotInv, Typed, DriveTyped
  <2>2. QED BY Zenon, <1>1, <2>1, Idle DEF AwaitsCbw
<1>3. Asking'
  BY Zenon, SameAsked DEF Issued
<1>4. CommandTyped'
  <2>1. phase' \in Issued \cup {"none", "chunk"} /\ answer' \in Errors \cup {"none", "ok"}
    BY Zenon DEF Issued
  <2>2. QED BY <2>1, Zenon DEF BotInv, Typed, CommandTyped
<1>5. Answering'
  BY Zenon, <1>2 DEF BotInv, Joint, Answering
<1>6. Sensed'
  <2>1. no_flush_command' = no_flush_command /\ sense = "unknown"
    BY Zenon DEF progress, BotInv, Joint, Answering
  <2>2. QED BY Zenon, <1>1, <1>2, <2>1 DEF BotInv, Sensed
<1>7. Flushed'
  BY Zenon, <1>1, <1>2 DEF Flushed, Served, Passed
<1>8. attention' \in BOOLEAN /\ gone' \in BOOLEAN
  BY <1>1, Zenon DEF BotInv, Typed, Flags
<1>9. QED BY Zenon, <1>2, <1>3, <1>4, <1>5, <1>6, <1>7, <1>8, Wire DEF Beneath

-----------------------------------------------------------------------------
(* The CBW.                                                                 *)

\* What the drive does with a command, whether it refuses it or not.
Took ==
  /\ dphase' \in {"in", "out", "status"} /\ davail' \in 0..cmd.len /\ dcount' = 0 /\ dgot' = <<>>
  /\ dend' \in {"done", "zlp", "short", "stall"}
  /\ dstatus' \in [status : {"passed", "failed", "phase"}, residue : Int]
  /\ halted' \subseteq {"in", "out"} /\ dsense' \in Senses /\ spin' \in 0..MaxSpin
  /\ attention' \in BOOLEAN /\ faults' \in 0..MaxFaults
  /\ lacks \subseteq lacks' /\ lacks' \subseteq Optional
  /\ image' = image /\ medium' \in [Addr -> Nat]
  /\ dphase' = "out" => cmd.op = "write"
  /\ dphase' = "in" => cmd.op \in InOps
  /\ dstatus'.status = "failed" /\ dsense' = "illegal" => cmd.op \in lacks'
  /\ cmd.op = "sense" /\ dsense' = "illegal" => dsense = "illegal"
  /\ cmd.op \in Optional /\ dstatus'.status = "passed" => medium' = image
  /\ cmd.op = "write" /\ dphase' = "status" => dstatus'.status = "failed"

LEMMA TakenTypes ==
  ASSUME BotInv
  PROVE  /\ halted \subseteq {"in", "out"} /\ dsense \in Senses /\ spin \in 0..MaxSpin
         /\ attention \in BOOLEAN /\ faults \in 0..MaxFaults /\ MaxFaults \in Nat /\ MaxSpin \in Nat
         /\ lacks \subseteq Optional /\ medium \in [Addr -> Nat] /\ image \in [Addr -> Nat]
         /\ cmd.op \in Ops /\ cmd.len \in Nat
BY Zenon, ScsiAssumption DEF BotInv, Typed, Flags, DriveTyped, CommandTyped, Cmds

LEMMA Faulty ==
  ASSUME BotInv, faults' = faults \/ Fault
  PROVE  faults' \in 0..MaxFaults /\ faults <= faults'
BY TakenTypes DEF Fault

LEMMA Refused == ASSUME BotInv, RefusesCommand PROVE Took
<1>1. PICK s \in Senses :
        /\ Refuses(s) /\ dsense' = s
        /\ attention' = (attention /\ s # "attention")
        /\ spin' = IF s = "notready" THEN spin - 1 ELSE spin
        /\ lacks' = IF s = "illegal" THEN lacks \cup {cmd.op} ELSE lacks
  BY Zenon DEF RefusesCommand
<1>2. /\ dstatus' = [status |-> "failed", residue |-> cmd.len] /\ dgot' = <<>>
      /\ UNCHANGED <<has, image, medium>>
  BY Zenon DEF RefusesCommand
<1>3. faults' \in 0..MaxFaults
  BY Zenon, <1>1, Faulty DEF Refuses
<1>4. spin' \in 0..MaxSpin
  BY <1>1, TakenTypes DEF Refuses
<1>5. attention' \in BOOLEAN
  BY Zenon, <1>1
<1>6. lacks \subseteq lacks' /\ lacks' \subseteq Optional /\ (dsense' = "illegal" => cmd.op \in lacks')
        /\ (cmd.op = "sense" => dsense' # "illegal")
  BY Zenon, <1>1, TakenTypes DEF Refuses, Optional
<1>7. /\ dphase' \in {"in", "status"} /\ (dphase' = "in" => cmd.op \in InOps)
      /\ davail' = 0 /\ dcount' = 0 /\ dend' \in {"done", "zlp", "short", "stall"}
      /\ halted' \subseteq {"in", "out"}
  <2>1. halted \subseteq {"in", "out"}
    BY Zenon, TakenTypes
  <2>2. CASE Direction(cmd.op) = "in"
    <3>1. PICK e \in {"zlp", "short", "stall"} : EntersData(0, e, 0)
      BY Zenon, <2>2 DEF RefusesCommand
    <3>2. QED BY Zenon, <2>1, <2>2, <3>1 DEF EntersData, Direction
  <2>3. CASE Direction(cmd.op) # "in"
    BY Zenon, <2>1, <2>3 DEF RefusesCommand
  <2>4. QED BY Zenon, <2>2, <2>3
<1>8. /\ dstatus' \in [status : {"passed", "failed", "phase"}, residue : Int]
      /\ dstatus'.status = "failed" /\ medium' \in [Addr -> Nat] /\ 0 \in 0..cmd.len
  BY <1>2, TakenTypes
<1>9. QED BY Zenon, <1>1, <1>2, <1>3, <1>4, <1>5, <1>6, <1>7, <1>8 DEF Took

LEMMA Accepted == ASSUME BotInv, AcceptsCommand PROVE Took
<1>1. /\ dsense' \in ToldSenses /\ attention' = (attention /\ cmd.op # "sense") /\ dgot' = <<>>
      /\ UNCHANGED <<spin, lacks, image>>
  BY Zenon DEF AcceptsCommand
<1>2. dsense' \in Senses /\ (dsense' = "illegal" => cmd.op = "sense" /\ dsense = "illegal")
  BY Zenon, <1>1, TakenTypes DEF ToldSenses, Senses
<1>3. spin' \in 0..MaxSpin /\ lacks' = lacks /\ lacks' \subseteq Optional
  BY Zenon, <1>1, TakenTypes
<1>4. attention' \in BOOLEAN
  BY Zenon, <1>1
<1>5. PICK l \in Nat : l = cmd.len
  BY Zenon, TakenTypes
<1>6. halted \subseteq {"in", "out"} /\ medium \in [Addr -> Nat] /\ image \in [Addr -> Nat]
  BY Zenon, TakenTypes
<1>7. CASE Direction(cmd.op) = "in"
  <2>1. PICK n \in 0..l, e \in {"done", "zlp", "short", "stall"} :
          EntersData(n, e, 0) /\ Passes(l - n) /\ (UNCHANGED faults \/ Fault)
    <3>1. CASE EntersData(cmd.len, "done", 0) /\ Passes(0) /\ UNCHANGED faults
      <4>1. l \in 0..l /\ l - l = 0
        OBVIOUS
      <4>2. QED BY Zenon, <1>5, <3>1, <4>1
    <3>2. CASE \E n \in 0..cmd.len - 1, e \in {"zlp", "short", "stall"} :
                 /\ EntersData(n, e, 0) /\ Passes(cmd.len - n)
                 /\ IF cmd.op \in {"mode6", "mode10"} THEN UNCHANGED faults ELSE Fault
      BY <1>5, <3>2
    <3>3. QED BY Zenon, <1>7, <3>1, <3>2 DEF AcceptsCommand
  <2>2. medium' = medium /\ cmd.op \in InOps
    BY Zenon, <1>7 DEF AcceptsCommand, Direction
  <2>3. faults' \in 0..MaxFaults
    BY Zenon, <2>1, Faulty
  <2>4. /\ dphase' \in {"in", "status"} /\ davail' = n /\ dcount' = 0 /\ dend' = e
        /\ halted' \subseteq {"in", "out"}
    BY Zenon, <1>6, <2>1 DEF EntersData
  <2>5. dstatus' \in [status : {"passed", "failed", "phase"}, residue : Int] /\ dstatus'.status = "passed"
    BY <1>5, <2>1 DEF Passes
  <2>6. cmd.op \notin Optional /\ cmd.op # "write"
    BY Zenon, <2>2 DEF Optional, InOps
  <2>7. QED BY Zenon, <1>1, <1>2, <1>3, <1>4, <1>5, <1>6, <2>2, <2>3, <2>4, <2>5, <2>6 DEF Took
<1>8. CASE Direction(cmd.op) = "out"
  <2>1. /\ dphase' = "out" /\ dcount' = 0 /\ Passes(0) /\ UNCHANGED <<halted, medium>>
        /\ \/ davail' = cmd.len /\ dend' = "done" /\ UNCHANGED faults
           \/ \E n \in 0..cmd.len - 1 : davail' = n /\ dend' = "stall" /\ Fault
    BY Zenon, <1>8 DEF AcceptsCommand
  <2>2. cmd.op = "write"
    BY Zenon, <1>8 DEF Direction
  <2>3. faults' \in 0..MaxFaults
    BY Zenon, <2>1, Faulty
  <2>4. davail' \in 0..l /\ dend' \in {"done", "zlp", "short", "stall"}
    BY <1>5, <2>1
  <2>5. dstatus' \in [status : {"passed", "failed", "phase"}, residue : Int] /\ dstatus'.status = "passed"
    BY <2>1 DEF Passes
  <2>6. QED BY Zenon, <1>1, <1>2, <1>3, <1>4, <1>5, <1>6, <2>1, <2>2, <2>3, <2>4, <2>5 DEF Took, Optional
<1>9. CASE Direction(cmd.op) \notin {"in", "out"}
  <2>1. /\ dphase' = "status" /\ davail' = 0 /\ dcount' = 0 /\ dend' = "done"
        /\ Passes(0) /\ UNCHANGED <<halted, faults>>
        /\ medium' = IF cmd.op = "tur" THEN medium ELSE image
    BY Zenon, <1>9 DEF AcceptsCommand
  <2>2. cmd.op # "write" /\ cmd.op # "sense"
    BY Zenon, <1>9 DEF Direction, InOps
  <2>3. faults' \in 0..MaxFaults /\ 0 \in 0..l
    BY <2>1, TakenTypes
  <2>4. medium' \in [Addr -> Nat] /\ (cmd.op \in Optional => medium' = image)
    BY Zenon, <1>6, <2>1 DEF Optional
  <2>5. dstatus' \in [status : {"passed", "failed", "phase"}, residue : Int] /\ dstatus'.status = "passed"
    BY <2>1 DEF Passes
  <2>6. QED BY Zenon, <1>1, <1>2, <1>3, <1>4, <1>5, <1>6, <2>1, <2>2, <2>3, <2>4, <2>5 DEF Took
<1>10. QED BY Zenon, <1>7, <1>8, <1>9

\* The command that is out, and where its blocks are.
LEMMA CommandOut ==
  ASSUME BotInv, phase \in Issued
  PROVE  /\ cmd.tag \in Tags /\ cmd \in Cmds /\ cmd.op \in Ops /\ cmd.len \in Nat /\ cmd.lba \in Nat
         /\ outer # NoCmd => cmd.op = "sense"
         /\ cmd.op \in {"read", "write"} => ready /\ cmd.lba * bs + cmd.len <= Size
<1>1. /\ cmd.tag \in Tags /\ Asked.op \in OpsOf(kind) /\ cmd \in Cmds /\ kind \in Kinds
      /\ outer # NoCmd => cmd.op = "sense"
      /\ kind \in {"read", "write", "flush", "cache"} => ready
      /\ kind \in {"read", "write"} => /\ done < len /\ off + len <= Size
                                       /\ Asked.lba = Chunk(done).lba /\ Asked.len = Chunk(done).span
  BY Zenon DEF BotInv, Typed, CommandTyped, RequestTyped, Joint, Asking
<1>2. cmd.op \in Ops /\ cmd.len \in Nat /\ cmd.lba \in Nat
  BY Zenon, <1>1 DEF Cmds
<1>3. ASSUME cmd.op \in {"read", "write"} PROVE ready /\ cmd.lba * bs + cmd.len <= Size
  <2>1. Asked = cmd
    BY Zenon, <1>1, <1>3 DEF Asked
  <2>2. kind \in {"read", "write"}
    BY Zenon, <1>1, <1>3, <2>1 DEF OpsOf, Kinds, Optional
  <2>3. off \in Addr /\ len \in 0..Size /\ done \in 0..len
    BY Zenon DEF BotInv, Typed, RequestTyped
  <2>4. Chunk(done).lba * bs + Chunk(done).span <= Size
    BY Zenon, <1>1, <2>2, <2>3, ChunkFacts
  <2>5. QED BY Zenon, <1>1, <2>1, <2>2, <2>4
<1>4. QED BY Zenon, <1>1, <1>2, <1>3

\* The drive takes the CBW.
LEMMA CbwTaken ==
  ASSUME BotInv, phase = "cbw", Took, dcmd' = cmd, phase' \in {"data", "csw"}, UNCHANGED answer,
         UNCHANGED <<request, progress, cmd, tag, transferred, inbuf, cleared_halt, sense, outer, gone>>
  PROVE  BotInv'
<1>1. /\ cmd.tag \in Tags /\ cmd \in Cmds /\ cmd.len \in Nat /\ (outer # NoCmd => cmd.op = "sense")
      /\ cmd.op \in {"read", "write"} => ready /\ cmd.lba * bs + cmd.len <= Size
  BY Zenon, CommandOut DEF Issued
<1>2. answer = "none" /\ transferred = 0 /\ inbuf = <<>> /\ sense = "unknown"
  BY Zenon DEF BotInv, Joint, Answering
<1>3. ready' = ready /\ no_flush_command' = no_flush_command
  BY Zenon DEF progress
<1>4. Asking'
  BY Zenon, SameAsked DEF Issued
<1>5. CommandTyped'
  <2>1. phase' \in Issued
    BY Zenon DEF Issued
  <2>2. QED BY <2>1, Zenon DEF BotInv, Typed, CommandTyped
<1>6. DriveTyped'
  <2>1. image \in [Addr -> Nat]
    BY Zenon, TakenTypes
  <2>2. <<>> \in Seq(Nat) /\ Len(<<>>) = 0
    OBVIOUS
  <2>3. davail' \in Nat /\ 0 \in 0..davail' /\ Len(<<>>) <= davail'
    BY <1>1, <2>2 DEF Took
  <2>4. QED BY Zenon, <1>1, <2>1, <2>2, <2>3 DEF Took, DriveTyped
<1>7. Answering'
  BY Zenon, <1>2 DEF BotInv, Joint, Answering
<1>8. InCommand'
  BY <1>1, <1>3 DEF Took, InCommand
<1>9. KeptWrite'
  BY Zenon DEF KeptWrite
<1>10. InStep'
  BY <1>2 DEF Took, InStep
<1>11. Sensed'
  <2>1. lacks \subseteq lacks'
    BY Zenon DEF Took
  <2>2. (dstatus'.status = "failed" /\ dsense' = "illegal" => cmd.op \in lacks')
    BY Zenon DEF Took
  <2>3. outer # NoCmd /\ dsense' = "illegal" => outer.op \in lacks'
    BY Zenon, <1>1, <2>1 DEF Took, BotInv, Sensed
  <2>4. inbuf' = <<>>
    BY Zenon, <1>2
  <2>5. (cmd.op = "sync16" \/ outer.op = "sync16" => "sync10" \in lacks')
          /\ (no_flush_command => Optional \subseteq lacks')
    BY Zenon, <2>1 DEF BotInv, Sensed
  <2>6. QED BY <1>3, <2>2, <2>3, <2>4, <2>5 DEF Sensed
<1>12. Flushed'
  BY Zenon DEF Took, Flushed, Served, Passed
<1>13. attention' \in BOOLEAN /\ gone' \in BOOLEAN /\ cleared_halt' \in BOOLEAN
  BY Zenon DEF BotInv, Typed, Flags, Took
<1>14. QED BY Zenon, <1>4, <1>5, <1>6, <1>7, <1>8, <1>9, <1>10, <1>11, <1>12, <1>13, Wire DEF Beneath

LEMMA CmdTypes ==
  ASSUME BotInv PROVE dcmd \in Cmds /\ dcmd.len \in Nat /\ dcmd.lba \in Nat /\ dcmd.op \in Ops
BY Zenon DEF BotInv, Typed, DriveTyped, Cmds

\* A tag that is two or more behind another one is not the same.
LEMMA TagsDiffer ==
  ASSUME NEW d \in Tags, NEW c \in Tags, NEW t \in Tags, NEW j \in Nat, j >= 2, j <= TagMod,
         t \in {d + j, d + j - TagMod}, t \in {c + 1, c + 1 - TagMod}
  PROVE  d # c
BY TagSpace DEF Tags

\* Until its CBW is taken, a command is not the one of a write that the drive has kept.
LEMMA KeptIsOlder ==
  ASSUME BotInv, phase = "cbw", ~gone, dphase = "out"
  PROVE  dcmd.op = "write" /\ dcmd.tag # cmd.tag
<1>1. /\ cmd.tag \in Tags /\ dcmd.tag \in Tags /\ dcmd.op = "write" /\ tag \in Tags
      /\ tag \in {cmd.tag + 1, cmd.tag + 1 - TagMod}
      /\ \E j \in 2..faults + 1 : tag \in {dcmd.tag + j, dcmd.tag + j - TagMod}
  BY Zenon DEF BotInv, Typed, CommandTyped, Joint, Asking, Issued, Answering, InCommand, KeptWrite, Age
<1>2. PICK j \in 2..faults + 1 : tag \in {dcmd.tag + j, dcmd.tag + j - TagMod}
  BY Zenon, <1>1
<1>3. faults \in 0..MaxFaults
  BY Zenon, TakenTypes
<1>4. j \in Nat /\ j >= 2 /\ j <= TagMod
  BY <1>3, TagSpace
<1>5. QED BY Zenon, <1>1, <1>2, <1>4, TagsDiffer

\* The CBW ends an older write that the drive has kept.
LEMMA CbwEndsOlder ==
  ASSUME BotInv, phase = "cbw", ~gone, dphase = "out", Len(dgot) < davail, davail' = Len(dgot),
         phase' \in {"data", "csw"},
         UNCHANGED <<answer, drive, faults, dphase, dcmd, dcount, dgot, dend, dstatus, halted>>,
         UNCHANGED <<request, progress, cmd, tag, transferred, inbuf, cleared_halt, sense, outer, gone>>
  PROVE  BotInv'
<1>1. UNCHANGED <<dsense, spin, attention, has, lacks, image, medium>>
  BY Zenon DEF drive
<1>2. ready' = ready /\ no_flush_command' = no_flush_command
  BY Zenon DEF progress
<1>3. dcmd.op = "write" /\ dcmd.tag # cmd.tag /\ davail <= dcmd.len
  BY Zenon, KeptIsOlder DEF BotInv, Joint, InCommand
<1>4. dcount = 0 /\ davail \in Nat /\ dgot \in Seq(Nat) /\ Len(dgot) \in Nat
  BY DEF BotInv, Typed, DriveTyped, Joint, InCommand
<1>5. Asking'
  BY Zenon, SameAsked DEF Issued
<1>6. CommandTyped'
  <2>1. phase' \in Issued
    BY Zenon DEF Issued
  <2>2. QED BY <2>1, Zenon DEF BotInv, Typed, CommandTyped
<1>7. DriveTyped'
  BY <1>1, <1>4 DEF BotInv, Typed, DriveTyped
<1>8. Answering'
  BY Zenon DEF BotInv, Joint, Answering
<1>9. InCommand'
  <2>1. davail' <= dcmd.len
    BY <1>3, <1>4, CmdTypes
  <2>2. QED BY Zenon, <1>2, <2>1 DEF BotInv, Joint, InCommand
<1>10. KeptWrite'
  <2>1. faults \in Nat
    BY TakenTypes
  <2>2. QED BY <2>1, SameKept
<1>11. InStep'
  BY Zenon, <1>3 DEF InStep, Served
<1>12. Sensed'
  BY Zenon, <1>1, <1>2 DEF BotInv, Sensed
<1>13. Flushed'
  BY Zenon DEF Flushed, Served, Passed
<1>14. attention' \in BOOLEAN /\ gone' \in BOOLEAN /\ cleared_halt' \in BOOLEAN
  BY <1>1, Zenon DEF BotInv, Typed, Flags
<1>15. QED BY Zenon, <1>5, <1>6, <1>7, <1>8, <1>9, <1>10, <1>11, <1>12, <1>13, <1>14, Wire DEF Beneath

LEMMA UsbErrors == UsbError \in Errors /\ "usb" \in Errors /\ "protocol" \in Errors /\ "gone" \in Errors
BY Zenon DEF UsbError, Errors

LEMMA SendCbwStep == ASSUME BotInv, SendCbw PROVE BotInv'
<1>1. /\ phase = "cbw"
      /\ UNCHANGED <<request, progress, cmd, tag, transferred, inbuf, cleared_halt, sense, outer, gone>>
  BY Zenon DEF SendCbw
<1>2. cleared_halt' \in BOOLEAN /\ halted \subseteq {"in", "out"}
  BY <1>1, Zenon DEF BotInv, Typed, Flags, DriveTyped
<1>3. CASE /\ dcmd' = cmd /\ (RefusesCommand \/ AcceptsCommand)
           /\ phase' = (IF cmd.len > 0 THEN "data" ELSE "csw") /\ UNCHANGED answer
  <2>1. Took
    BY Zenon, <1>3, Refused, Accepted
  <2>2. QED BY Zenon, <1>1, <1>3, <2>1, CbwTaken
<1>4. CASE /\ ~gone /\ dphase = "out" /\ Len(dgot) < davail /\ davail' = Len(dgot)
           /\ phase' = (IF cmd.len > 0 THEN "data" ELSE "csw")
           /\ UNCHANGED <<answer, drive, faults, dphase, dcmd, dcount, dgot, dend, dstatus, halted>>
  BY Zenon, <1>1, <1>4, CbwEndsOlder
<1>5. CASE Fail(UsbError) /\ UNCHANGED <<bus, drive, faults>>
  <2>1. StillIn /\ UNCHANGED <<halted, drive, faults>>
    BY Zenon, <1>5 DEF bus, StillIn
  <2>2. faults' \in 0..MaxFaults /\ faults <= faults'
    BY Zenon, <2>1, Faulty
  <2>3. QED BY Zenon, <1>1, <1>2, <1>5, <2>1, <2>2, FailStep, UsbErrors
<1>6. CASE Fault /\ Fail("usb") /\ UNCHANGED <<bus, drive>>
  <2>1. StillIn /\ UNCHANGED <<halted, drive>>
    BY Zenon, <1>6 DEF bus, StillIn
  <2>2. faults' \in 0..MaxFaults /\ faults <= faults'
    BY Zenon, <1>6, Faulty
  <2>3. QED BY Zenon, <1>1, <1>2, <1>6, <2>1, <2>2, FailStep, UsbErrors
<1>7. CASE Fault /\ Answer("protocol") /\ AwaitsCbw /\ halted' = {"in", "out"} /\ UNCHANGED drive
  <2>1. phase' = "answer" /\ answer' = "protocol"
    BY Zenon, <1>7 DEF Answer
  <2>2. faults' \in 0..MaxFaults
    BY Zenon, <1>7, Faulty
  <2>3. QED BY Zenon, <1>1, <1>2, <1>7, <2>1, <2>2, IdleStep, UsbErrors
<1>8. QED BY Zenon, <1>3, <1>4, <1>5, <1>6, <1>7 DEF SendCbw

-----------------------------------------------------------------------------
(* The data phase.                                                          *)

\* In an IN data phase the drive is in the host's own command.
LEMMA SendsOwn ==
  ASSUME BotInv, phase = "data", cmd.op \in InOps, dphase = "in"
  PROVE  /\ dcmd = cmd /\ transferred <= dcount /\ davail <= cmd.len
         /\ transferred \in Nat /\ dcount \in Nat /\ davail \in Nat /\ cmd.len \in Nat /\ cmd.lba \in Nat
         /\ dcount <= davail
         /\ cmd.op = "read" => cmd.lba * bs + cmd.len <= Size
<1>1. dcmd = cmd
  BY Zenon DEF BotInv, Joint, InStep
<1>2. transferred <= dcount /\ davail <= cmd.len
  BY Zenon, <1>1 DEF BotInv, Joint, InStep, Served, InCommand
<1>3. /\ transferred \in 0..cmd.len /\ davail \in Nat /\ dcount \in 0..davail /\ cmd.len \in Nat
      /\ cmd.lba \in Nat
  BY Zenon DEF BotInv, Typed, CommandTyped, DriveTyped, Cmds
<1>4. cmd.op = "read" => cmd.lba * bs + cmd.len <= Size
  BY Zenon, <1>1 DEF BotInv, Joint, InCommand
<1>5. QED BY <1>1, <1>2, <1>3, <1>4

\* The units that a bulk read returns.
LEMMA UnitsReceived ==
  ASSUME BotInv, phase = "data", cmd.op \in InOps, dphase = "in", NEW i \in Nat, i < davail
  PROVE  Unit(i) \in UnitsOf(cmd.op)
<1>1. /\ dcmd = cmd /\ davail <= cmd.len /\ davail \in Nat /\ cmd.len \in Nat /\ cmd.lba \in Nat
      /\ cmd.op = "read" => cmd.lba * bs + cmd.len <= Size
  BY Zenon, SendsOwn
<1>2. CASE cmd.op = "read"
  <2>1. PICK x \in Nat : x = cmd.lba * bs
    BY <1>1, ScsiAssumption
  <2>2. x + i \in Addr
    BY <1>1, <1>2, <2>1, Zero DEF Addr
  <2>3. image[x + i] \in Nat
    BY Zenon, <2>2, TakenTypes
  <2>4. QED BY Zenon, <1>1, <1>2, <2>1, <2>3 DEF Unit, UnitsOf
<1>3. CASE cmd.op = "sense"
  BY Zenon, <1>1, <1>3, TakenTypes DEF Unit, UnitsOf
<1>4. CASE cmd.op \notin {"read", "sense"}
  BY Zenon, <1>1, <1>4 DEF Unit, UnitsOf
<1>5. QED BY Zenon, <1>2, <1>3, <1>4

\* The host's buffer behind a read that returns p of j units.
LEMMA Buffered ==
  ASSUME BotInv, phase = "data", cmd.op \in InOps, dphase = "in",
         NEW j \in 1..davail - dcount, NEW p \in 0..j, NEW g \in 0..p, Receives(j, p, g)
  PROVE  /\ inbuf' \in Seq(UnitsOf(cmd.op)) /\ Len(inbuf') = transferred'
         /\ transferred' = transferred + p /\ transferred' <= dcount + j /\ transferred' \in 0..cmd.len
         /\ dcount + j \in 0..davail
         /\ outer # NoCmd => \A i \in 1..Len(inbuf') : inbuf'[i] = "illegal" => outer.op \in lacks
<1> DEFINE u(i) == Unit(dcount + (IF i > g THEN i + j - p ELSE i) - 1)
           e    == [i \in 1..p |-> u(i)]
<1>1. /\ transferred <= dcount /\ davail <= cmd.len /\ dcount <= davail
      /\ transferred \in Nat /\ dcount \in Nat /\ davail \in Nat /\ cmd.len \in Nat /\ dcmd = cmd
  BY Zenon, SendsOwn
<1>2. inbuf' = inbuf \o e /\ transferred' = transferred + p
  BY Zenon DEF Receives
<1>3. inbuf \in Seq(UnitsOf(cmd.op)) /\ Len(inbuf) = transferred
  BY Zenon DEF BotInv, Typed, CommandTyped, InOps
<1>4. \A i \in 1..p : u(i) \in UnitsOf(cmd.op)
  <2>1. SUFFICES ASSUME NEW i \in 1..p PROVE u(i) \in UnitsOf(cmd.op)
    BY Zenon
  <2>2. PICK k \in Nat : k = dcount + (IF i > g THEN i + j - p ELSE i) - 1 /\ k < davail
    BY <1>1
  <2>3. QED BY Zenon, <2>2, UnitsReceived
<1>5. cmd.op = "sense" => \A i \in 1..p : u(i) = dsense
  BY Zenon, <1>1 DEF Unit
<1> HIDE DEF u
<1>6. e \in Seq(UnitsOf(cmd.op)) /\ Len(e) = p /\ \A i \in 1..p : e[i] = u(i)
  BY <1>4
<1> HIDE DEF e
<1>7. inbuf' \in Seq(UnitsOf(cmd.op)) /\ Len(inbuf') = transferred'
  BY <1>2, <1>3, <1>6, Joined, Zenon
<1>8. transferred' <= dcount + j /\ transferred' \in 0..cmd.len /\ dcount + j \in 0..davail
  BY <1>1, <1>2
<1>9. ASSUME outer # NoCmd, NEW i \in 1..Len(inbuf'), inbuf'[i] = "illegal" PROVE outer.op \in lacks
  <2>1. cmd.op = "sense"
    BY Zenon, <1>9 DEF BotInv, Joint, Asking
  <2>2. /\ \A k \in 1..Len(inbuf) : inbuf[k] = "illegal" => outer.op \in lacks
        /\ dsense = "illegal" => outer.op \in lacks
    BY Zenon, <1>9 DEF BotInv, Sensed
  <2>3. CASE i <= Len(inbuf)
    <3>1. inbuf'[i] = inbuf[i] /\ i \in 1..Len(inbuf)
      BY <1>2, <1>3, <1>6, <2>3
    <3>2. QED BY Zenon, <1>9, <2>2, <3>1
  <2>4. CASE i > Len(inbuf)
    <3>1. PICK k \in 1..p : k = i - Len(inbuf)
      BY <1>2, <1>3, <1>6, <1>7, <2>4
    <3>2. inbuf'[i] = e[k]
      BY SMTT(30), <1>2, <1>3, <1>6, <2>4, <3>1
    <3>3. QED BY Zenon, <1>5, <1>6, <1>9, <2>1, <2>2, <3>1, <3>2
  <2>5. QED BY <1>1, <1>3, <1>7, <1>2, <2>3, <2>4
<1>10. QED BY Zenon, <1>2, <1>7, <1>8, <1>9

\* The frame of a data-phase read.
InRead == UNCHANGED <<request, progress, cmd, tag, cleared_halt, sense, outer,
                      spin, attention, has, lacks, image, medium, gone>>

\* A data-phase read that returns units.
LEMMA ReceivesStep ==
  ASSUME BotInv, phase = "data", cmd.op \in InOps, dphase = "in",
         NEW j \in 1..davail - dcount, NEW p \in 0..j, NEW g \in 0..p, Receives(j, p, g), InRead,
         \/ phase' \in {"data", "csw"} /\ answer' = answer
         \/ Fail("usb"),
         faults' \in 0..MaxFaults, faults <= faults'
  PROVE  BotInv'
<1>1. /\ inbuf' \in Seq(UnitsOf(cmd.op)) /\ Len(inbuf') = transferred'
      /\ transferred' <= dcount + j /\ transferred' \in 0..cmd.len /\ dcount + j \in 0..davail
      /\ outer # NoCmd => \A i \in 1..Len(inbuf') : inbuf'[i] = "illegal" => outer.op \in lacks
  BY Zenon, Buffered
<1>2. /\ dcmd = cmd /\ cmd.op # "write" /\ cmd.op \notin Optional
  BY Zenon, SendsOwn DEF InOps, Optional
<1>3. /\ davail' = davail /\ dend' = dend /\ dcount' = dcount + j
      /\ dphase' \in {"in", "status"} /\ halted' \subseteq halted \cup {"in"}
      /\ UNCHANGED <<dcmd, dgot, dstatus>>
      /\ dsense' = dsense \/ (dcmd.op = "sense" /\ dsense' = "none")
  BY Zenon DEF Receives, EntersData
<1>4. UNCHANGED <<request, progress, cmd, tag, cleared_halt, sense, outer,
                  spin, attention, has, lacks, image, medium, gone>>
  BY Zenon DEF InRead
<1>5. ready' = ready /\ no_flush_command' = no_flush_command
  BY Zenon, <1>4 DEF progress
<1>6. /\ phase' \in {"data", "csw", "reset"} /\ (phase' = "reset" => answer' = "usb")
      /\ (phase' # "reset" => answer' = answer)
  BY Zenon DEF Fail
<1>7. Asking'
  BY Zenon, <1>4, <1>6, SameAsked DEF Issued
<1>8. CommandTyped'
  <2>1. cmd' \in Cmds /\ outer' \in Cmds /\ tag' \in Tags /\ sense' \in Senses
    BY Zenon, <1>4 DEF BotInv, Typed, CommandTyped
  <2>2. answer' \in Errors \cup {"none", "ok"} /\ phase' \in Issued
    BY Zenon, <1>6 DEF BotInv, Typed, CommandTyped, Errors, Issued
  <2>3. QED BY Zenon, <1>1, <1>4, <2>1, <2>2 DEF CommandTyped
<1>9. DriveTyped'
  <2>1. halted' \subseteq {"in", "out"} /\ dsense' \in Senses
    BY Zenon, <1>3, TakenTypes DEF Senses
  <2>2. dphase' \in {"cbw", "in", "out", "status"} /\ dcount' \in 0..davail'
    BY Zenon, <1>1, <1>3
  <2>3. QED BY Zenon, <1>3, <1>4, <2>1, <2>2 DEF BotInv, Typed, DriveTyped
<1>10. Answering'
  BY Zenon, <1>4, <1>6 DEF BotInv, Joint, Answering, Errors
<1>11. InCommand'
  BY Zenon, <1>2, <1>3, <1>5 DEF BotInv, Joint, InCommand
<1>12. KeptWrite'
  BY Zenon, <1>2, <1>3 DEF KeptWrite
<1>13. InStep'
  BY Zenon, <1>1, <1>2, <1>3, <1>4 DEF InStep
<1>14. Sensed'
  <2>1. dsense' = "illegal" => dsense = "illegal"
    BY Zenon, <1>3
  <2>2. QED BY Zenon, <1>1, <1>3, <1>4, <1>5, <1>6, <2>1 DEF BotInv, Sensed
<1>15. Flushed'
  BY Zenon, <1>2, <1>4, <1>6 DEF Flushed, Served, Passed
<1>16. attention' \in BOOLEAN /\ gone' \in BOOLEAN /\ cleared_halt' \in BOOLEAN
  BY <1>4, Zenon DEF BotInv, Typed, Flags
<1>17. QED BY Zenon, <1>4, <1>7, <1>8, <1>9, <1>10, <1>11, <1>12, <1>13, <1>14, <1>15, <1>16, Wire DEF Beneath

\* The host goes on to the CSW of a command that is still the drive's, or is not; the drive
\* may be done with the data phase.
LEMMA DataEnds ==
  ASSUME BotInv, phase = "data", phase' = "csw", InRead,
         UNCHANGED <<answer, halted, dcmd, davail, dcount, dgot, dend, dstatus, transferred, inbuf, dsense>>,
         dphase' = dphase \/ (dphase = "in" /\ cmd.op \in InOps /\ dphase' = "status"),
         faults' \in 0..MaxFaults, faults <= faults'
  PROVE  BotInv'
<1>1. UNCHANGED <<request, progress, cmd, tag, cleared_halt, sense, outer,
                  spin, attention, has, lacks, image, medium, gone>>
  BY Zenon DEF InRead
<1>2. ready' = ready /\ no_flush_command' = no_flush_command
  BY Zenon, <1>1 DEF progress
<1>3. Asking'
  BY Zenon, <1>1, SameAsked DEF Issued
<1>4. CommandTyped'
  BY <1>1, Zenon DEF BotInv, Typed, CommandTyped, Issued
<1>5. DriveTyped'
  <2>1. dphase' \in {"cbw", "in", "out", "status"}
    BY Zenon DEF BotInv, Typed, DriveTyped
  <2>2. QED BY <1>1, <2>1, Zenon DEF BotInv, Typed, DriveTyped
<1>6. Answering'
  BY Zenon, <1>1 DEF BotInv, Joint, Answering
<1>7. InCommand'
  BY Zenon, <1>2 DEF BotInv, Joint, InCommand
<1>8. KeptWrite'
  <2>1. CASE dphase = "cbw"
    BY Zenon, <2>1 DEF KeptWrite
  <2>2. CASE dphase # "cbw"
    <3>1. faults' \in Nat
      BY TagSpace
    <3>2. QED BY Zenon, <1>1, <2>2, <3>1, SameKept
  <2>3. QED BY Zenon, <2>1, <2>2
<1>9. InStep'
  BY Zenon, <1>1 DEF BotInv, Joint, InStep, Served
<1>10. Sensed'
  BY Zenon, <1>1, <1>2 DEF BotInv, Sensed
<1>11. Flushed'
  BY Zenon, <1>1 DEF BotInv, Flushed, Served, Passed, Optional, InOps
<1>12. attention' \in BOOLEAN /\ gone' \in BOOLEAN /\ cleared_halt' \in BOOLEAN
  BY <1>1, Zenon DEF BotInv, Typed, Flags
<1>13. QED BY Zenon, <1>1, <1>3, <1>4, <1>5, <1>6, <1>7, <1>8, <1>9, <1>10, <1>11, <1>12, Wire DEF Beneath

LEMMA ReadDataStep == ASSUME BotInv, ReadData PROVE BotInv'
<1>1. phase = "data" /\ cmd.op \in InOps /\ InRead
  BY Zenon DEF ReadData, Direction, InRead
<1>2. /\ UNCHANGED <<request, progress, cmd, tag, sense, outer, gone>> /\ cleared_halt' \in BOOLEAN
      /\ UNCHANGED <<spin, attention, has, lacks, image, medium>>
  BY <1>1, Zenon DEF InRead, BotInv, Typed, Flags
<1>3. halted \subseteq {"in", "out"} /\ davail \in Nat /\ dcount \in 0..davail
  BY Zenon DEF BotInv, Typed, DriveTyped
<1>4. CASE /\ Sending /\ dcount < davail /\ Receives(davail - dcount, davail - dcount, 0)
           /\ phase' = (IF transferred' = cmd.len THEN "csw" ELSE "data")
           /\ UNCHANGED <<answer, faults>>
  <2>1. PICK j \in 1..davail - dcount : j = davail - dcount
    BY <1>3, <1>4
  <2>2. j \in 0..j /\ 0 \in 0..j /\ Receives(j, j, 0) /\ dphase = "in" /\ phase' \in {"data", "csw"}
    BY <1>3, <1>4, <2>1 DEF Sending
  <2>3. faults' \in 0..MaxFaults /\ faults <= faults'
    BY Zenon, <1>4, Faulty
  <2>4. QED BY Zenon, <1>1, <1>4, <2>2, <2>3, ReceivesStep
<1>5. CASE /\ Sending /\ dcount < davail /\ Fault
           /\ \E j \in 1..davail - dcount : \E p \in 0..j - 1 : \E g \in 0..p :
                /\ Receives(j, p, g)
                /\ IF p = 0 THEN Fail("usb") ELSE UNCHANGED <<phase, answer>>
  <2>1. PICK j \in 1..davail - dcount : \E p \in 0..j - 1 : \E g \in 0..p :
               /\ Receives(j, p, g)
               /\ IF p = 0 THEN Fail("usb") ELSE UNCHANGED <<phase, answer>>
    BY Zenon, <1>5
  <2>2. PICK p \in 0..j - 1 : \E g \in 0..p :
               /\ Receives(j, p, g)
               /\ IF p = 0 THEN Fail("usb") ELSE UNCHANGED <<phase, answer>>
    BY Zenon, <2>1
  <2>3. PICK g \in 0..p :
               /\ Receives(j, p, g)
               /\ IF p = 0 THEN Fail("usb") ELSE UNCHANGED <<phase, answer>>
    BY Zenon, <2>2
  <2>4. p \in 0..j /\ dphase = "in"
    BY <1>3, <1>5 DEF Sending
  <2>5. (phase' \in {"data", "csw"} /\ answer' = answer) \/ Fail("usb")
    BY Zenon, <1>1, <2>3
  <2>6. faults' \in 0..MaxFaults /\ faults <= faults'
    BY Zenon, <1>5, Faulty
  <2>7. QED BY Zenon, <1>1, <2>3, <2>4, <2>5, <2>6, ReceivesStep
<1>6. CASE /\ Sending /\ dcount = davail /\ dphase' = "status" /\ phase' = "csw"
           /\ UNCHANGED <<answer, faults, halted, dcmd, davail, dcount, dgot, dend, dstatus,
                          transferred, inbuf, dsense>>
  <2>1. faults' \in 0..MaxFaults /\ faults <= faults'
    BY Zenon, <1>6, Faulty
  <2>2. QED BY Zenon, <1>1, <1>6, <2>1, DataEnds DEF Sending
<1>7. CASE AwaitsCbw /\ Fail("usb") /\ UNCHANGED <<faults, halted, transferred, inbuf, dsense>>
  <2>1. phase' = "reset" /\ answer' = "usb" /\ UNCHANGED drive
    BY Zenon, <1>2, <1>7 DEF Fail, drive
  <2>2. faults' \in 0..MaxFaults
    BY Zenon, <1>7, Faulty
  <2>3. QED BY Zenon, <1>1, <1>2, <1>3, <1>7, <2>1, <2>2, IdleStep, UsbErrors
<1>8. CASE Fail(UsbError) /\ StillIn /\ UNCHANGED <<faults, halted, transferred, inbuf, dsense>>
  <2>1. UNCHANGED drive
    BY Zenon, <1>2, <1>8 DEF drive
  <2>2. faults' \in 0..MaxFaults /\ faults <= faults'
    BY Zenon, <1>8, Faulty
  <2>3. QED BY Zenon, <1>1, <1>2, <1>3, <1>8, <2>1, <2>2, FailStep, UsbErrors
<1>9. QED BY Zenon, <1>4, <1>5, <1>6, <1>7, <1>8 DEF ReadData

LEMMA Prefix ==
  ASSUME NEW S, NEW s \in Seq(S), NEW n \in 0..Len(s)
  PROVE  /\ SubSeq(s, 1, n) \in Seq(S) /\ Len(SubSeq(s, 1, n)) = n
         /\ \A i \in 1..n : SubSeq(s, 1, n)[i] = s[i]
OBVIOUS

LEMMA Regrouped ==
  ASSUME NEW r \in Seq(Nat), NEW s \in Seq(Nat), NEW t \in Seq(Nat)
  PROVE  r \o s \o t = r \o (s \o t)
OBVIOUS

LEMMA Suffix ==
  ASSUME NEW S, NEW s \in Seq(S), NEW n \in 0..Len(s)
  PROVE  /\ SubSeq(s, n + 1, Len(s)) \in Seq(S) /\ Len(SubSeq(s, n + 1, Len(s))) = Len(s) - n
         /\ \A i \in 1..Len(s) - n : SubSeq(s, n + 1, Len(s))[i] = s[n + i]
OBVIOUS

\* What is left to send of a write.
LEMMA Remaining ==
  ASSUME BotInv, cmd.op = "write"
  PROVE  /\ Rest \in Seq(Nat) /\ Len(Rest) = cmd.len - transferred
         /\ \A i \in 1..cmd.len - transferred : Rest[i] = cmd.data[transferred + i]
         /\ transferred \in 0..cmd.len /\ cmd.len \in Nat
<1>1. cmd.data \in Seq(Nat) /\ Len(cmd.data) = cmd.len /\ transferred \in 0..cmd.len /\ cmd.len \in Nat
  BY Zenon DEF BotInv, Typed, CommandTyped, Cmds
<1>2. Rest = SubSeq(cmd.data, transferred + 1, Len(cmd.data))
  BY Zenon, <1>1 DEF Rest
<1>3. PICK s \in Seq(Nat) : s = cmd.data /\ Len(s) = cmd.len
  BY Zenon, <1>1
<1>4. PICK n \in 0..Len(s) : n = transferred
  BY Zenon, <1>1, <1>3
<1>5. Rest = SubSeq(s, n + 1, Len(s))
  BY Zenon, <1>2, <1>3, <1>4
<1>6. Rest \in Seq(Nat) /\ Len(Rest) = Len(s) - n /\ \A i \in 1..Len(s) - n : Rest[i] = s[n + i]
  BY <1>5, Suffix, Zenon
<1>7. QED BY Zenon, <1>1, <1>3, <1>4, <1>6

\* The e units that the drive gets of a write, of which the host believes p: they are the
\* next p if there are no others.
Moves(e, p) ==
  /\ dgot' = dgot \o e /\ e \in Seq(Nat) /\ Len(e) <= Room
  /\ p \in 0..Len(e) /\ p <= cmd.len - transferred
  /\ Len(e) = p => \A i \in 1..p : e[i] = cmd.data[transferred + i]

\* The first two cases of SendData.
Taken ==
  \/ /\ \E n \in {Least(Room, Len(Rest))} : dgot' = dgot \o SubSeq(Rest, 1, n) /\ Sent(n)
     /\ UNCHANGED faults
  \/ /\ Fault
     /\ \E k \in 0..Least(Room, Len(Rest)) : \E m \in 0..Least(Room - k, Len(Rest)) :
          /\ dgot' = dgot \o SubSeq(Rest, 1, k) \o SubSeq(Rest, 1, m)
          /\ \E p \in 0..m : Sent(p)

LEMMA SentUnits ==
  ASSUME BotInv, cmd.op = "write", Taken
  PROVE  \E e \in Seq(Nat), p \in Nat :
           Moves(e, p) /\ Sent(p) /\ faults' \in 0..MaxFaults /\ faults <= faults'
<1>1. /\ Rest \in Seq(Nat) /\ Len(Rest) = cmd.len - transferred
      /\ \A i \in 1..cmd.len - transferred : Rest[i] = cmd.data[transferred + i]
      /\ transferred \in 0..cmd.len /\ cmd.len \in Nat
  BY Zenon, Remaining
<1>2. dgot \in Seq(Nat) /\ Room \in Nat
  BY DEF BotInv, Typed, DriveTyped, Room
<1>3. Rest \in Seq(Nat)
  BY Zenon, <1>1
<1>4. Len(Rest) \in Nat
  BY <1>3
<1>5. faults' \in 0..MaxFaults /\ faults <= faults'
  BY Zenon, Faulty DEF Taken
<1>6. CASE \E n \in {Least(Room, Len(Rest))} : dgot' = dgot \o SubSeq(Rest, 1, n) /\ Sent(n)
  <2>1. PICK n : n = Least(Room, Len(Rest)) /\ dgot' = dgot \o SubSeq(Rest, 1, n) /\ Sent(n)
    BY Zenon, <1>6
  <2>2. n \in 0..Len(Rest) /\ n <= Room
    BY <1>2, <1>4, <2>1 DEF Least
  <2>3. /\ SubSeq(Rest, 1, n) \in Seq(Nat) /\ Len(SubSeq(Rest, 1, n)) = n
        /\ \A i \in 1..n : SubSeq(Rest, 1, n)[i] = Rest[i]
    BY <1>3, <2>2, Prefix, Zenon
  <2>4. PICK e \in Seq(Nat) : e = SubSeq(Rest, 1, n) /\ Len(e) = n /\ \A i \in 1..n : e[i] = Rest[i]
    BY <2>3, Zenon
  <2>5. n \in Nat /\ n \in 0..Len(e) /\ n <= cmd.len - transferred
    BY <1>1, <2>2, <2>4
  <2>6. \A i \in 1..n : e[i] = cmd.data[transferred + i]
    BY <1>1, <2>4, <2>5
  <2>7. Moves(e, n)
    BY Zenon, <2>1, <2>2, <2>4, <2>5, <2>6 DEF Moves
  <2>8. QED BY Zenon, <1>5, <2>1, <2>5, <2>7
<1>7. CASE \E k \in 0..Least(Room, Len(Rest)) : \E m \in 0..Least(Room - k, Len(Rest)) :
             /\ dgot' = dgot \o SubSeq(Rest, 1, k) \o SubSeq(Rest, 1, m)
             /\ \E p \in 0..m : Sent(p)
  <2>1. PICK k \in 0..Least(Room, Len(Rest)) : \E m \in 0..Least(Room - k, Len(Rest)) :
               /\ dgot' = dgot \o SubSeq(Rest, 1, k) \o SubSeq(Rest, 1, m)
               /\ \E p \in 0..m : Sent(p)
    BY Zenon, <1>7
  <2>2. PICK m \in 0..Least(Room - k, Len(Rest)) :
               /\ dgot' = dgot \o SubSeq(Rest, 1, k) \o SubSeq(Rest, 1, m)
               /\ \E p \in 0..m : Sent(p)
    BY Zenon, <2>1
  <2>3. PICK p \in 0..m : Sent(p)
    BY Zenon, <2>2
  <2>4. k \in 0..Len(Rest) /\ k <= Room
    BY <1>2, <1>4 DEF Least
  <2>5. m \in 0..Len(Rest) /\ m <= Room - k
    BY <1>2, <1>4, <2>4 DEF Least
  <2>6. /\ SubSeq(Rest, 1, k) \in Seq(Nat) /\ Len(SubSeq(Rest, 1, k)) = k
        /\ \A i \in 1..k : SubSeq(Rest, 1, k)[i] = Rest[i]
    BY <1>3, <2>4, Prefix, Zenon
  <2>7. PICK s \in Seq(Nat) : s = SubSeq(Rest, 1, k) /\ Len(s) = k
    BY <2>6, Zenon
  <2>8. /\ SubSeq(Rest, 1, m) \in Seq(Nat) /\ Len(SubSeq(Rest, 1, m)) = m
        /\ \A i \in 1..m : SubSeq(Rest, 1, m)[i] = Rest[i]
    BY <1>3, <2>5, Prefix, Zenon
  <2>9. PICK t \in Seq(Nat) : t = SubSeq(Rest, 1, m) /\ Len(t) = m /\ \A i \in 1..m : t[i] = Rest[i]
    BY <2>8, Zenon
  <2>10. s \o t \in Seq(Nat) /\ Len(s \o t) = k + m
    BY <2>7, <2>9, Joined
  <2>11. PICK e \in Seq(Nat) : e = s \o t /\ Len(e) = k + m
    BY <2>10, Zenon
  <2>12. dgot' = dgot \o e
    <3>1. dgot' = dgot \o s \o t
      BY Zenon, <2>2, <2>7, <2>9
    <3>2. dgot \in Seq(Nat) /\ s \in Seq(Nat) /\ t \in Seq(Nat)
      BY Zenon, <1>2
    <3>3. dgot \o s \o t = dgot \o (s \o t)
      BY ZenonT(60), <3>2, Regrouped
    <3>4. QED BY <2>11, <3>1, <3>3, Zenon
  <2>13. /\ p \in Nat /\ p \in 0..Len(e) /\ p <= cmd.len - transferred /\ Len(e) <= Room
         /\ Len(e) = p => k = 0 /\ m = p
    <3>1. k \in Nat /\ m \in Nat /\ k + m <= Room /\ m <= cmd.len - transferred /\ Len(e) = k + m
      BY <1>1, <1>2, <2>4, <2>5, <2>11
    <3>2. p \in Nat /\ p <= m
      BY <3>1
    <3>3. PICK c \in Int : c = cmd.len - transferred
      BY <1>1
    <3>4. p <= c
      BY <3>1, <3>2, <3>3
    <3>5. Len(e) <= Room
      BY Zenon, <3>1
    <3>6. p \in 0..Len(e)
      BY <3>1, <3>2
    <3>7. Len(e) = p => k = 0 /\ m = p
      BY <3>1, <3>2
    <3>8. QED BY Zenon, <3>2, <3>3, <3>4, <3>5, <3>6, <3>7
  <2>14. ASSUME Len(e) = p PROVE \A i \in 1..p : e[i] = cmd.data[transferred + i]
    <3>1. k = 0 /\ m = p
      BY Zenon, <2>13, <2>14
    <3>2. \A i \in 1..p : e[i] = t[i]
      BY <2>7, <2>9, <2>11, <2>13, <3>1
    <3>3. QED BY <1>1, <2>9, <2>13, <3>1, <3>2
  <2>15. Moves(e, p)
    BY Zenon, <2>12, <2>13, <2>14 DEF Moves
  <2>16. QED BY Zenon, <1>5, <2>3, <2>13, <2>15
<1>8. QED BY Zenon, <1>6, <1>7 DEF Taken

\* A write call moves units.
LEMMA MovesStep ==
  ASSUME BotInv, phase = "data", cmd.op = "write", dphase = "out",
         NEW e \in Seq(Nat), NEW p \in Nat, Moves(e, p), Sent(p),
         faults' \in 0..MaxFaults, faults <= faults',
         UNCHANGED <<request, progress, cmd, tag, inbuf, cleared_halt, sense, outer, dphase, dcmd,
                     davail, dcount, dend, dstatus, halted, drive, gone>>
  PROVE  BotInv'
<1>1. UNCHANGED <<dsense, spin, attention, has, lacks, image, medium>>
  BY Zenon DEF drive
<1>2. ready' = ready /\ no_flush_command' = no_flush_command
  BY Zenon DEF progress
<1>3. /\ dgot \in Seq(Nat) /\ Len(dgot) \in Nat /\ davail \in Nat /\ Len(dgot) <= davail
      /\ transferred \in 0..cmd.len /\ cmd.len \in Nat
  BY Remaining DEF BotInv, Typed, DriveTyped
<1>4. dgot' \in Seq(Nat) /\ Len(dgot') = Len(dgot) + Len(e) /\ Len(e) \in Nat
  BY Zenon, <1>3, Joined DEF Moves
<1>5. Len(dgot') <= davail /\ (Len(dgot) = davail => Len(dgot') = davail)
  BY <1>3, <1>4 DEF Moves, Room
<1>6. transferred' \in 0..cmd.len
  BY <1>3, <1>4 DEF Moves, Sent
<1>7. /\ phase' \in {"data", "csw", "reset"} /\ (phase' = "reset" => answer' = "usb")
      /\ (phase' # "reset" => answer' = answer)
  BY Zenon DEF Sent, Fail
<1>8. Asking'
  BY Zenon, <1>7, SameAsked DEF Issued
<1>9. CommandTyped'
  <2>1. answer' \in Errors \cup {"none", "ok"} /\ phase' \in Issued
    BY Zenon, <1>7 DEF BotInv, Typed, CommandTyped, Errors, Issued
  <2>2. QED BY Zenon, <1>6, <2>1 DEF BotInv, Typed, CommandTyped
<1>10. DriveTyped'
  BY <1>1, <1>4, <1>5, Zenon DEF BotInv, Typed, DriveTyped
<1>11. Answering'
  BY Zenon, <1>7 DEF BotInv, Joint, Answering, Errors
<1>12. InCommand'
  BY Zenon, <1>2 DEF BotInv, Joint, InCommand
<1>13. KeptWrite'
  <2>1. faults' \in Nat
    BY TagSpace
  <2>2. QED BY Zenon, <1>7, <2>1, SameKept
<1>14. InStep'
  BY Zenon, <1>5 DEF BotInv, Joint, InStep, Served, InOps
<1>15. Sensed'
  BY Zenon, <1>1, <1>2, <1>7 DEF BotInv, Sensed
<1>16. Flushed'
  BY Zenon, <1>7 DEF Flushed, Served, Passed, Optional
<1>17. attention' \in BOOLEAN /\ gone' \in BOOLEAN /\ cleared_halt' \in BOOLEAN
  BY <1>1, Zenon DEF BotInv, Typed, Flags
<1>18. QED BY Zenon, <1>8, <1>9, <1>10, <1>11, <1>12, <1>13, <1>14, <1>15, <1>16, <1>17, Wire DEF Beneath

LEMMA SendDataStep == ASSUME BotInv, SendData PROVE BotInv'
<1>1. /\ phase = "data" /\ cmd.op = "write"
      /\ UNCHANGED <<request, progress, cmd, tag, inbuf, cleared_halt, sense, outer, dphase, dcmd,
                     davail, dcount, dend, dstatus, halted, drive, gone>>
  BY Zenon DEF SendData
<1>2. CASE Taking /\ Taken
  <2>1. PICK e \in Seq(Nat), p \in Nat :
               Moves(e, p) /\ Sent(p) /\ faults' \in 0..MaxFaults /\ faults <= faults'
    BY Zenon, <1>1, <1>2, SentUnits
  <2>2. dphase = "out"
    BY Zenon, <1>2 DEF Taking
  <2>3. QED BY Zenon, <1>1, <2>1, <2>2, MovesStep
<1>3. CASE Fault /\ phase' = "csw" /\ UNCHANGED <<answer, dgot, transferred>>
  <2>1. faults' \in 0..MaxFaults /\ faults <= faults'
    BY Zenon, <1>3, Faulty
  <2>2. InRead /\ dsense' = dsense
    BY Zenon, <1>1 DEF InRead, drive
  <2>3. QED BY Zenon, <1>1, <1>3, <2>1, <2>2, DataEnds
<1>4. CASE Fail(UsbError) /\ UNCHANGED <<dgot, transferred, faults>>
  <2>1. StillIn /\ halted' \subseteq {"in", "out"}
    BY Zenon, <1>1, <1>4, TakenTypes DEF StillIn
  <2>2. faults' \in 0..MaxFaults /\ faults <= faults'
    BY Zenon, <1>4, Faulty
  <2>3. cleared_halt' \in BOOLEAN
    BY <1>1, Zenon DEF BotInv, Typed, Flags
  <2>4. QED BY Zenon, <1>1, <1>4, <2>1, <2>2, <2>3, FailStep, UsbErrors
<1>5. QED BY Zenon, <1>1, <1>2, <1>3, <1>4 DEF SendData, Taken

-----------------------------------------------------------------------------
(* The CSW, and what follows a failure.                                     *)

\* A status with the host's tag is the one of the host's command.
LEMMA OwnStatus ==
  ASSUME BotInv, phase = "csw", dphase = "status", dcmd.tag = cmd.tag
  PROVE  dcmd = cmd /\ Served
BY Zenon DEF BotInv, Joint, InStep, Served

\* A CSW says that the command failed, and REQUEST SENSE is to say why.
LEMMA AsksWhy ==
  ASSUME BotInv, phase = "csw", dphase = "status", CswVerdict = "failed", AwaitsCbw,
         cmd.op # "sense", Issue(tag, "sense", 0, 1, <<>>), outer' = cmd,
         UNCHANGED <<request, progress, sense, drive, gone, halted, faults>>
  PROVE  BotInv'
<1>1. UNCHANGED <<dsense, spin, attention, has, lacks, image, medium>>
  BY Zenon DEF drive
<1>2. ready' = ready /\ no_flush_command' = no_flush_command
        /\ UNCHANGED <<kind, off, len, done>>
  BY Zenon DEF progress, request
<1>3. /\ cmd'.op = "sense" /\ cmd'.tag = tag /\ cmd'.len = 1 /\ tag' = (tag + 1) % TagMod
      /\ phase' = "cbw" /\ transferred' = 0 /\ inbuf' = <<>> /\ answer' = "none" /\ cleared_halt' = FALSE
      /\ cmd' = [op |-> "sense", tag |-> tag, lba |-> 0, len |-> 1, data |-> <<>>]
  BY Zenon DEF Issue
<1>4. /\ cmd.tag \in Tags /\ cmd \in Cmds /\ tag \in Tags /\ outer = NoCmd /\ sense = "unknown"
      /\ sense \in Senses
  BY Zenon, CommandOut DEF Issued, BotInv, Typed, CommandTyped, Joint, Answering
<1>5. cmd # NoCmd /\ Asked = cmd /\ Asked' = cmd
  BY Zenon, <1>4, NoCmdFacts DEF Asked
<1>6. dstatus.status = "failed" /\ dcmd = cmd
  BY Zenon, OwnStatus DEF CswVerdict
<1>7. tag' \in Tags /\ tag' \in {tag + 1, tag + 1 - TagMod}
  BY Zenon, <1>3, <1>4, NextTag
<1>8. Asking'
  <2>1. Chunk(done)' = Chunk(done)
    BY Zenon, <1>2 DEF Chunk, Least
  <2>2. QED BY <1>2, <1>3, <1>4, <1>5, <2>1 DEF BotInv, Joint, Asking, Issued
<1>9. CommandTyped'
  <2>1. cmd' \in Cmds
    BY <1>3, <1>4 DEF Cmds, Tags, Ops, InOps
  <2>2. <<>> \in Seq(UnitsOf("sense")) /\ Len(<<>>) = 0
    OBVIOUS
  <2>3. QED BY <1>3, <1>4, <1>7, <2>1, <2>2 DEF CommandTyped, Issued
<1>10. DriveTyped' /\ InCommand' /\ KeptWrite' /\ InStep' /\ dphase' = "cbw"
  <2>1. dsense' \in Senses /\ image' \in [Addr -> Nat] /\ halted' \subseteq {"in", "out"} /\ faults' \in 0..MaxFaults
    BY Zenon, <1>1, TakenTypes
  <2>2. QED BY Zenon, <1>1, <2>1, Idle DEF AwaitsCbw
<1>11. Answering'
  BY Zenon, <1>3, <1>4, <1>7 DEF Answering
<1>12. Sensed'
  BY <1>1, <1>2, <1>3, <1>6, <1>10 DEF BotInv, Sensed
<1>13. Flushed'
  BY Zenon, <1>3 DEF Flushed, Served, Passed
<1>14. attention' \in BOOLEAN /\ gone' \in BOOLEAN /\ cleared_halt' \in BOOLEAN
  BY <1>1, <1>3, Zenon DEF BotInv, Typed, Flags
<1>15. QED BY Zenon, <1>8, <1>9, <1>10, <1>11, <1>12, <1>13, <1>14, Wire DEF Beneath

\* A CSW decides the command.
LEMMA DecodeStep ==
  ASSUME BotInv, phase = "csw", dphase = "status", AwaitsCbw, DecodeCsw,
         UNCHANGED <<request, progress, sense, drive, gone, halted, faults>>
  PROVE  BotInv'
<1>1. halted' \subseteq {"in", "out"} /\ faults' \in 0..MaxFaults
  BY Zenon, TakenTypes
<1>2. CASE CswVerdict = "passed" /\ Answer("ok") /\ SameCommand /\ UNCHANGED cleared_halt
  <2>1. phase' = "answer" /\ answer' = "ok" /\ UNCHANGED <<cmd, tag, transferred, inbuf, outer>>
    BY Zenon, <1>2 DEF Answer, SameCommand
  <2>2. Served /\ dstatus.status = "passed"
    BY Zenon, <1>2, OwnStatus DEF CswVerdict
  <2>3. cmd.op \in Optional => medium = image
    BY Zenon, <2>2 DEF BotInv, Flushed
  <2>4. cleared_halt' \in BOOLEAN
    BY <1>2, Zenon DEF BotInv, Typed, Flags
  <2>5. QED BY Zenon, <1>1, <2>1, <2>3, <2>4, IdleStep
<1>3. CASE /\ CswVerdict # "passed" /\ SameCommand /\ UNCHANGED cleared_halt
           /\ Answer("protocol") \/ Fail("protocol") \/ Answer("failed")
  <2>1. phase' \in {"answer", "reset"} /\ answer' \in Errors /\ UNCHANGED <<cmd, tag, transferred, inbuf, outer>>
    BY Zenon, <1>3 DEF Answer, Fail, SameCommand, Errors
  <2>2. cleared_halt' \in BOOLEAN
    BY <1>3, Zenon DEF BotInv, Typed, Flags
  <2>3. answer' # "ok"
    BY Zenon, <2>1 DEF Errors
  <2>4. QED BY Zenon, <1>1, <2>1, <2>2, <2>3, IdleStep
<1>4. CASE CswVerdict = "failed" /\ cmd.op # "sense" /\ Issue(tag, "sense", 0, 1, <<>>) /\ outer' = cmd
  BY Zenon, <1>4, AsksWhy
<1>5. QED BY Zenon, <1>2, <1>3, <1>4 DEF DecodeCsw

\* The read of the CSW is repeated.
LEMMA RetryStep ==
  ASSUME BotInv, phase = "csw", RetryCsw, SameCommand, StillIn \/ AwaitsCbw,
         UNCHANGED <<request, progress, sense, drive, gone>>,
         faults' \in 0..MaxFaults, faults <= faults'
  PROVE  BotInv'
<1>1. UNCHANGED <<cmd, tag, transferred, inbuf, outer>>
  BY Zenon DEF SameCommand
<1>2. /\ cleared_halt' \in BOOLEAN /\ halted' \subseteq {"in", "out"}
      /\ Fail("usb") \/ UNCHANGED <<phase, answer>>
  <2>1. cleared_halt \in BOOLEAN
    BY Zenon DEF BotInv, Typed, Flags
  <2>2. QED BY Zenon, <2>1, TakenTypes DEF RetryCsw
<1>3. answer = "none"
  BY Zenon DEF BotInv, Joint, Answering
<1>4. CASE AwaitsCbw
  <2>1. phase' \in {"csw", "reset"} /\ (phase' = "csw" => answer' = "none")
          /\ (phase' = "reset" => answer' \in Errors)
    BY Zenon, <1>2, <1>3, UsbErrors DEF Fail
  <2>2. QED BY Zenon, <1>1, <1>2, <1>4, <2>1, IdleStep
<1>5. CASE StillIn /\ Fail("usb")
  BY Zenon, <1>1, <1>2, <1>5, FailStep, UsbErrors
<1>6. CASE StillIn /\ UNCHANGED <<phase, answer>>
  <2>1. UNCHANGED <<dphase, dcmd, davail, dcount, dgot, dend, dstatus, dsense, spin, attention, has,
                    lacks, image, medium>>
    BY Zenon, <1>6 DEF StillIn, drive
  <2>2. ready' = ready /\ no_flush_command' = no_flush_command
    BY Zenon DEF progress
  <2>3. Asking'
    BY Zenon, <1>1, <1>6, SameAsked
  <2>4. CommandTyped'
    BY <1>1, <1>6, Zenon DEF BotInv, Typed, CommandTyped
  <2>5. DriveTyped'
    BY <1>2, <2>1, Zenon DEF BotInv, Typed, DriveTyped
  <2>6. Answering' /\ InCommand' /\ InStep'
    BY <1>1, <1>6, <2>1, <2>2, Zenon DEF BotInv, Joint, Answering, InCommand, InStep, Served
  <2>7. KeptWrite'
    <3>1. CASE dphase = "cbw"
      BY Zenon, <2>1, <3>1 DEF KeptWrite
    <3>2. CASE dphase # "cbw"
      <4>1. faults' \in Nat /\ dcmd' = dcmd
        BY <2>1, TagSpace
      <4>2. QED BY Zenon, <1>1, <1>6, <3>2, <4>1, SameKept
    <3>3. QED BY Zenon, <3>1, <3>2
  <2>8. Sensed'
    BY <1>1, <1>6, <2>1, <2>2, Zenon DEF BotInv, Sensed
  <2>9. Flushed'
    BY Zenon, <1>1, <1>6, <2>1 DEF BotInv, Flushed, Served, Passed
  <2>10. attention' \in BOOLEAN /\ gone' \in BOOLEAN
    BY <2>1, Zenon DEF BotInv, Typed, Flags
  <2>11. QED BY <1>2, <2>3, <2>4, <2>5, <2>6, <2>7, <2>8, <2>9, <2>10, Wire DEF Beneath
<1>7. QED BY Zenon, <1>2, <1>4, <1>5, <1>6

\* The drive goes while the CSW is awaited.
LEMMA CswGone ==
  ASSUME BotInv, phase = "csw", gone, Answer("gone"), SameCommand, StillIn,
         UNCHANGED <<cleared_halt, halted, faults, request, progress, sense, drive, gone>>
  PROVE  BotInv'
<1>1. UNCHANGED <<cmd, tag, transferred, inbuf, outer>> /\ phase' = "answer" /\ answer' = "gone"
  BY Zenon DEF SameCommand, Answer
<1>2. UNCHANGED <<dphase, dcmd, davail, dcount, dgot, dend, dstatus, dsense, spin, attention, has,
                  lacks, image, medium>>
  BY Zenon DEF StillIn, drive
<1>3. ready' = ready /\ no_flush_command' = no_flush_command
  BY Zenon DEF progress
<1>4. Asking'
  BY Zenon, <1>1, SameAsked DEF Issued
<1>5. CommandTyped'
  BY <1>1, Zenon DEF BotInv, Typed, CommandTyped, Errors, Issued
<1>6. DriveTyped'
  BY <1>2, Zenon DEF BotInv, Typed, DriveTyped
<1>7. Answering'
  BY Zenon, <1>1, UsbErrors DEF Answering
<1>8. InCommand'
  BY <1>2, <1>3, Zenon DEF BotInv, Joint, InCommand
<1>9. KeptWrite' /\ InStep'
  BY Zenon, <1>1 DEF KeptWrite, InStep, Served
<1>10. Sensed'
  BY Zenon, <1>1, <1>2, <1>3 DEF BotInv, Sensed
<1>11. Flushed'
  BY Zenon, <1>1 DEF Flushed, Served, Passed
<1>12. attention' \in BOOLEAN /\ gone' \in BOOLEAN /\ cleared_halt' \in BOOLEAN
  BY <1>2, Zenon DEF BotInv, Typed, Flags
<1>13. QED BY Zenon, <1>4, <1>5, <1>6, <1>7, <1>8, <1>9, <1>10, <1>11, <1>12, Wire DEF Beneath

LEMMA ReadCswStep == ASSUME BotInv, ReadCsw PROVE BotInv'
<1>1. phase = "csw" /\ UNCHANGED <<request, progress, sense, drive, gone>>
  BY Zenon DEF ReadCsw
<1>2. CASE /\ dphase = "status" /\ AwaitsCbw /\ DecodeCsw /\ UNCHANGED <<halted, faults>>
  BY Zenon, <1>1, <1>2, DecodeStep
<1>3. CASE gone /\ Answer("gone") /\ SameCommand /\ StillIn /\ UNCHANGED <<cleared_halt, halted, faults>>
  BY Zenon, <1>1, <1>3, CswGone
<1>4. CASE /\ RetryCsw /\ SameCommand /\ (StillIn \/ AwaitsCbw) /\ (UNCHANGED faults \/ Fault)
  <2>1. faults' \in 0..MaxFaults /\ faults <= faults'
    BY Zenon, <1>4, Faulty
  <2>2. QED BY Zenon, <1>1, <1>4, <2>1, RetryStep
<1>5. CASE /\ Fault /\ Fail("usb") /\ SameCommand /\ cleared_halt' = TRUE /\ StillIn /\ UNCHANGED halted
  <2>1. faults' \in 0..MaxFaults /\ faults <= faults'
    BY Zenon, <1>5, Faulty
  <2>2. UNCHANGED <<cmd, tag, transferred, inbuf, outer>> /\ halted' \subseteq {"in", "out"}
    BY Zenon, <1>5, TakenTypes DEF SameCommand
  <2>3. QED BY Zenon, <1>1, <1>5, <2>1, <2>2, FailStep, UsbErrors
<1>6. QED BY Zenon, <1>2, <1>3, <1>4, <1>5 DEF ReadCsw

\* The blocks that reach the drive's cache.
LEMMA WrittenTyped ==
  ASSUME BotInv, NEW n \in Nat, n <= Len(dgot)
  PROVE  Written(dcmd.lba, dgot, n) \in [Addr -> Nat]
<1>1. PICK x \in Nat : x = dcmd.lba * bs
  BY CmdTypes, ScsiAssumption
<1>2. dgot \in Seq(Nat) /\ image \in [Addr -> Nat]
  BY Zenon DEF BotInv, Typed, DriveTyped
<1>3. ASSUME NEW a \in Addr, a \in x..x + n - 1 PROVE dgot[a - x + 1] \in Nat
  <2>1. a - x + 1 \in 1..Len(dgot)
    BY <1>2, <1>3
  <2>2. QED BY <1>2, <2>1
<1>4. \A a \in Addr : (IF a \in x..x + n - 1 THEN dgot[a - x + 1] ELSE image[a]) \in Nat
  BY Zenon, <1>2, <1>3
<1>5. QED BY Zenon, <1>1, <1>4 DEF Written

LEMMA WholeBlocks ==
  ASSUME NEW n \in Nat, NEW b \in 0..n \div bs
  PROVE  b * bs \in Nat /\ b * bs <= n
<1>1. bs \in Nat /\ bs > 0
  BY ScsiAssumption
<1>2. n \div bs \in Nat /\ n % bs \in 0..bs - 1 /\ n = (n \div bs) * bs + (n % bs)
  BY Zenon, <1>1, DivMod
<1>3. PICK q \in Nat : q = n \div bs
  BY Zenon, <1>2
<1>4. b \in Nat /\ b <= q
  BY <1>3
<1>5. b * bs <= q * bs /\ b * bs \in Nat
  BY <1>1, <1>4
<1>6. PICK y \in Nat : y = q * bs /\ y <= n
  BY <1>1, <1>2, <1>3
<1>7. QED BY <1>5, <1>6

LEMMA RecoverStep == ASSUME BotInv, Recover PROVE BotInv'
<1>1. /\ phase = "reset" /\ phase' = "answer"
      /\ UNCHANGED <<request, progress, cmd, tag, transferred, inbuf, cleared_halt, answer, sense, outer,
                     dsense, spin, attention, has, lacks, medium, gone>>
  BY Zenon DEF Recover
<1>2. ready' = ready /\ no_flush_command' = no_flush_command
  BY Zenon, <1>1 DEF progress
<1>3. answer \in Errors /\ sense = "unknown" /\ tag \in {cmd.tag + 1, cmd.tag + 1 - TagMod}
  BY Zenon, <1>1 DEF BotInv, Joint, Answering
<1>4. answer # "ok"
  BY Zenon, <1>3 DEF Errors
<1>5. Asking'
  BY Zenon, <1>1, SameAsked DEF Issued
<1>6. CommandTyped'
  BY <1>1, Zenon DEF BotInv, Typed, CommandTyped, Issued
<1>7. Answering'
  BY Zenon, <1>1, <1>3, <1>4 DEF Answering
<1>8. Flushed'
  BY Zenon, <1>1, <1>4 DEF Flushed, Served, Passed
<1>9. attention' \in BOOLEAN /\ gone' \in BOOLEAN /\ cleared_halt' \in BOOLEAN
  BY <1>1, Zenon DEF BotInv, Typed, Flags
<1>10. CASE /\ AwaitsCbw /\ halted' \subseteq halted /\ (UNCHANGED faults \/ Fault)
            /\ \E b \in 0..(IF dphase = "out" THEN Len(dgot) \div bs ELSE 0) :
                 image' = Written(dcmd.lba, dgot, b * bs)
  <2>1. PICK b \in 0..(IF dphase = "out" THEN Len(dgot) \div bs ELSE 0) :
               image' = Written(dcmd.lba, dgot, b * bs)
    BY Zenon, <1>10
  <2>2. Len(dgot) \in Nat
    BY DEF BotInv, Typed, DriveTyped
  <2>3. b * bs \in Nat /\ b * bs <= Len(dgot)
    <3>1. b = 0 \/ b \in 0..Len(dgot) \div bs
      BY <2>1
    <3>2. b = 0 => b * bs = 0
      BY ScsiAssumption
    <3>3. QED BY <2>2, <3>1, <3>2, WholeBlocks
  <2>4. image' \in [Addr -> Nat]
    BY Zenon, <2>1, <2>3, WrittenTyped
  <2>5. dsense' \in Senses /\ halted' \subseteq {"in", "out"} /\ faults' \in 0..MaxFaults
    BY Zenon, <1>1, <1>10, TakenTypes, Faulty
  <2>6. DriveTyped' /\ InCommand' /\ KeptWrite' /\ InStep' /\ dphase' = "cbw"
    BY Zenon, <1>1, <1>10, <2>4, <2>5, Idle DEF AwaitsCbw
  <2>7. Sensed'
    BY Zenon, <1>1, <1>2, <1>3, <2>6 DEF BotInv, Sensed
  <2>8. QED BY Zenon, <1>1, <1>5, <1>6, <1>7, <1>8, <1>9, <2>6, <2>7, Wire DEF Beneath
<1>11. CASE StillIn /\ UNCHANGED <<halted, image>> /\ ((gone /\ UNCHANGED faults) \/ Fault)
  <2>1. UNCHANGED <<dphase, dcmd, davail, dcount, dgot, dend, dstatus>>
    BY Zenon, <1>11 DEF StillIn
  <2>2. faults' \in 0..MaxFaults
    BY Zenon, <1>11, Faulty
  <2>3. DriveTyped'
    BY <1>1, <1>11, <2>1, <2>2, Zenon DEF BotInv, Typed, DriveTyped
  <2>4. InCommand'
    BY <1>2, <2>1, Zenon DEF BotInv, Joint, InCommand
  <2>5. KeptWrite'
    <3>1. SUFFICES ASSUME dphase # "cbw", dcmd.op = "write", ~gone
                   PROVE  \E j \in 1..faults' : tag \in {dcmd.tag + j, dcmd.tag + j - TagMod}
      BY Zenon, <1>1, <2>1 DEF KeptWrite, Age
    <3>2. faults' = faults + 1 /\ faults \in Nat
      BY <1>11, <3>1, TakenTypes DEF Fault
    <3>3. \/ dcmd = cmd
          \/ \E j \in 2..faults + 1 : tag \in {dcmd.tag + j, dcmd.tag + j - TagMod}
      BY Zenon, <1>1, <3>1 DEF BotInv, Joint, KeptWrite, Age
    <3>4. CASE dcmd = cmd
      <4>1. 1 \in 1..faults'
        BY <3>2
      <4>2. QED BY Zenon, <1>3, <3>4, <4>1
    <3>5. CASE \E j \in 2..faults + 1 : tag \in {dcmd.tag + j, dcmd.tag + j - TagMod}
      BY <3>2, <3>5
    <3>6. QED BY Zenon, <3>3, <3>4, <3>5
  <2>6. InStep'
    BY Zenon, <1>1 DEF InStep, Served
  <2>7. Sensed'
    BY Zenon, <1>1, <1>2, <1>3, <2>1 DEF BotInv, Sensed
  <2>8. QED BY <1>1, <1>5, <1>6, <1>7, <1>8, <1>9, <2>3, <2>4, <2>5, <2>6, <2>7, Wire DEF Beneath
<1>12. QED BY Zenon, <1>10, <1>11 DEF Recover

LEMMA SenseAnsweredStep == ASSUME BotInv, SenseAnswered PROVE BotInv'
<1>1. /\ phase = "answer" /\ outer # NoCmd /\ cmd' = outer /\ outer' = NoCmd /\ answer' = "failed"
      /\ sense' = (IF answer = "ok" THEN SenseRead ELSE "unknown")
      /\ transferred' = 0 /\ inbuf' = <<>>
      /\ UNCHANGED <<request, progress, tag, phase, cleared_halt, bus, drive, gone, faults>>
  BY Zenon DEF SenseAnswered
<1>2. UNCHANGED <<dphase, dcmd, davail, dcount, dgot, dend, dstatus, halted, dsense, spin, attention,
                  has, lacks, image, medium>>
  BY Zenon, <1>1 DEF bus, drive
<1>3. ready' = ready /\ no_flush_command' = no_flush_command /\ UNCHANGED <<kind, off, len, done>>
  BY Zenon, <1>1 DEF progress, request
<1>4. /\ cmd.op = "sense" /\ outer.tag \in Tags /\ outer \in Cmds /\ inbuf \in Seq(Senses)
      /\ tag \in Tags
  BY Zenon, <1>1 DEF BotInv, Typed, CommandTyped, Joint, Asking, UnitsOf
<1>5. /\ sense' \in Senses
      /\ sense' = "illegal" => outer.op \in lacks
  <2>1. \A i \in 1..Len(inbuf) : inbuf[i] = "illegal" => outer.op \in lacks
    BY Zenon, <1>1 DEF BotInv, Sensed
  <2>2. CASE answer = "ok" /\ inbuf # <<>>
    <3>1. 1 \in 1..Len(inbuf) /\ inbuf[1] \in Senses
      BY <1>4, <2>2
    <3>2. sense' = inbuf[1]
      BY Zenon, <1>1, <2>2 DEF SenseRead
    <3>3. QED BY Zenon, <2>1, <3>1, <3>2
  <2>3. CASE ~(answer = "ok" /\ inbuf # <<>>)
    BY Zenon, <1>1, <2>3 DEF SenseRead, Senses
  <2>4. QED BY Zenon, <2>2, <2>3
<1>6. Asking'
  <2>1. Asked' = Asked
    BY Zenon, <1>1 DEF Asked
  <2>2. Chunk(done)' = Chunk(done)
    BY Zenon, <1>3 DEF Chunk, Least
  <2>3. QED BY <1>1, <1>3, <1>4, <2>1, <2>2 DEF BotInv, Joint, Asking, Issued
<1>7. CommandTyped'
  <2>1. <<>> \in Seq(UnitsOf(outer.op)) /\ Len(<<>>) = 0 /\ outer.len \in Nat
    BY <1>4 DEF Cmds
  <2>2. outer' \in Cmds
    BY Zenon, <1>1, NoCmdFacts
  <2>3. 0 \in 0..outer.len
    BY <2>1
  <2>4. QED BY Zenon, <1>1, <1>4, <1>5, <2>1, <2>2, <2>3 DEF CommandTyped, Issued, Errors
<1>8. DriveTyped'
  BY <1>1, <1>2, Zenon DEF BotInv, Typed, DriveTyped
<1>9. Answering'
  BY Zenon, <1>1 DEF Answering, Errors
<1>10. InCommand'
  BY <1>2, <1>3, Zenon DEF BotInv, Joint, InCommand
<1>11. KeptWrite'
  BY Zenon, <1>1, <1>2 DEF BotInv, Joint, KeptWrite, Age
<1>12. InStep'
  BY Zenon, <1>1 DEF InStep, Served
<1>13. Sensed'
  BY Zenon, <1>1, <1>2, <1>3, <1>5, NoCmdFacts DEF BotInv, Sensed
<1>14. Flushed'
  BY Zenon, <1>1 DEF Flushed, Served, Passed
<1>15. attention' \in BOOLEAN /\ gone' \in BOOLEAN /\ cleared_halt' \in BOOLEAN
  BY <1>1, <1>2, Zenon DEF BotInv, Typed, Flags
<1>16. QED BY <1>1, <1>6, <1>7, <1>8, <1>9, <1>10, <1>11, <1>12, <1>13, <1>14, <1>15, Wire DEF Beneath

-----------------------------------------------------------------------------
(* The drive on its own, and the theorems.                                  *)

LEMMA DriveCommitsStep == ASSUME BotInv, DriveCommits PROVE BotInv'
<1>1. /\ dphase = "out" /\ dphase' = "status" /\ halted' \subseteq halted \cup {"out"}
      /\ UNCHANGED <<request, hostcmd, progress, dcmd, davail, dcount, dgot, dend, spin,
                     attention, has, lacks, medium, gone>>
  BY Zenon DEF DriveCommits
<1>2. UNCHANGED <<cmd, tag, phase, transferred, inbuf, cleared_halt, answer, sense, outer>>
  BY Zenon, <1>1 DEF hostcmd
<1>3. ready' = ready /\ no_flush_command' = no_flush_command /\ UNCHANGED <<kind, result>>
  BY Zenon, <1>1 DEF progress, request
<1>4. PICK b \in 0..Len(dgot) \div bs, st \in {"passed", "failed", "phase"} :
         /\ image' = Written(dcmd.lba, dgot, b * bs)
         /\ dstatus' = [status |-> st, residue |-> dcmd.len - b * bs]
         /\ dsense' = IF st = "failed" THEN "other" ELSE dsense
         /\ IF st = "passed" /\ b = Len(dgot) \div bs THEN UNCHANGED faults ELSE Fault
  BY Zenon DEF DriveCommits
<1>5. faults' \in 0..MaxFaults /\ faults <= faults'
  BY Zenon, <1>4, Faulty
<1>6. b * bs \in Nat /\ b * bs <= Len(dgot)
  BY WholeBlocks DEF BotInv, Typed, DriveTyped
<1>7. image' \in [Addr -> Nat]
  BY Zenon, <1>4, <1>6, WrittenTyped
<1>8. dstatus' \in [status : {"passed", "failed", "phase"}, residue : Int] /\ dstatus'.status = st
  BY <1>4, <1>6, CmdTypes
<1>9. dsense' \in Senses /\ (dsense' = "illegal" => dsense = "illegal" /\ st # "failed")
  BY Zenon, <1>4, TakenTypes DEF Senses
<1>10. dcmd.op = "write" /\ (phase = "answer" => answer # "ok")
  BY Zenon, <1>1 DEF BotInv, Joint, InCommand, Answering
<1>11. Asking'
  BY Zenon, <1>1, <1>2, SameAsked
<1>12. CommandTyped'
  BY <1>2, Zenon DEF BotInv, Typed, CommandTyped
<1>13. DriveTyped'
  <2>1. halted' \subseteq {"in", "out"}
    BY Zenon, <1>1, TakenTypes
  <2>2. QED BY <1>1, <1>5, <1>7, <1>8, <1>9, <2>1 DEF BotInv, Typed, DriveTyped
<1>14. Answering'
  BY Zenon, <1>1, <1>2, <1>10 DEF BotInv, Joint, Answering
<1>15. InCommand'
  BY Zenon, <1>1, <1>3 DEF BotInv, Joint, InCommand
<1>16. KeptWrite'
  <2>1. faults' \in Nat
    BY <1>5, TagSpace
  <2>2. QED BY Zenon, <1>1, <1>2, <1>5, <2>1, SameKept
<1>17. InStep'
  BY Zenon, <1>1, <1>2 DEF BotInv, Joint, InStep, Served
<1>18. Sensed'
  BY <1>1, <1>2, <1>3, <1>8, <1>9 DEF BotInv, Sensed
<1>19. Flushed'
  BY Zenon, <1>1, <1>2, <1>3, <1>10 DEF BotInv, Flushed, Served, Passed, Optional
<1>20. attention' \in BOOLEAN /\ gone' \in BOOLEAN /\ cleared_halt' \in BOOLEAN
  BY <1>1, <1>2, Zenon DEF BotInv, Typed, Flags
<1>21. QED BY <1>1, <1>11, <1>12, <1>13, <1>14, <1>15, <1>16, <1>17, <1>18, <1>19, <1>20, Wire DEF Beneath

LEMMA UnplugStep == ASSUME BotInv, Unplug PROVE BotInv'
<1>1. gone' = TRUE /\ Fault /\ UNCHANGED <<request, hostcmd, progress, bus, drive>>
  BY Zenon DEF Unplug
<1>2. UNCHANGED <<cmd, tag, phase, transferred, inbuf, cleared_halt, answer, sense, outer, dphase, dcmd,
                  davail, dcount, dgot, dend, dstatus, halted, dsense, spin, attention, has, lacks,
                  image, medium>>
  BY Zenon, <1>1 DEF hostcmd, bus, drive
<1>3. UNCHANGED <<ready, no_flush_command, kind, result>>
  BY Zenon, <1>1 DEF progress, request
<1>4. faults' \in 0..MaxFaults
  BY Zenon, <1>1, Faulty
<1>5. Asking'
  BY Zenon, <1>1, <1>2, SameAsked
<1>6. CommandTyped'
  BY <1>2, Zenon DEF BotInv, Typed, CommandTyped
<1>7. DriveTyped'
  BY <1>2, <1>4, Zenon DEF BotInv, Typed, DriveTyped
<1>8. Answering' /\ InCommand' /\ InStep'
  BY <1>2, <1>3, Zenon DEF BotInv, Joint, Answering, InCommand, InStep, Served
<1>9. KeptWrite'
  BY Zenon, <1>1 DEF KeptWrite
<1>10. Sensed'
  BY <1>2, <1>3, Zenon DEF BotInv, Sensed
<1>11. Flushed'
  BY <1>2, <1>3, Zenon DEF BotInv, Flushed, Served, Passed
<1>12. attention' \in BOOLEAN /\ gone' \in BOOLEAN /\ cleared_halt' \in BOOLEAN
  BY <1>1, <1>2, Zenon DEF BotInv, Typed, Flags
<1>13. QED BY Zenon, <1>1, <1>5, <1>6, <1>7, <1>8, <1>9, <1>10, <1>11, <1>12, Wire DEF Beneath

LEMMA BotStarts == Init => BotInv
<1> SUFFICES ASSUME Init PROVE BotInv
  BY Zenon
<1>1. NoCmd \in Cmds /\ NoCmd.op = "tur" /\ NoCmd.len = 0
  BY Zenon, NoCmdFacts
<1>2. Flags
  BY Zenon DEF Init, Flags
<1>3. image \in [Addr -> Nat]
  BY DEF Init, Addr
<1>4. RequestTyped
  <2>1. <<>> \in Seq(Nat) /\ Len(<<>>) = 0
    OBVIOUS
  <2>2. 0 \in 0..MaxCalls
    BY ScsiAssumption
  <2>3. QED BY <1>3, <2>1, <2>2, Zero DEF Init, RequestTyped, Kinds
<1>5. CommandTyped
  <2>1. <<>> \in Seq(UnitsOf("tur")) /\ Len(<<>>) = 0
    OBVIOUS
  <2>2. 1 % TagMod \in Tags
    BY ScsiAssumption DEF Tags
  <2>3. QED BY <1>1, <2>1, <2>2 DEF Init, CommandTyped, Senses
<1>6. DriveTyped
  <2>1. <<>> \in Seq(Nat) /\ Len(<<>>) = 0
    OBVIOUS
  <2>2. NoStatus \in [status : {"passed", "failed", "phase"}, residue : Int]
    BY DEF NoStatus
  <2>3. QED BY <1>1, <1>3, <2>1, <2>2, TagSpace DEF Init, DriveTyped, Senses
<1>7. Joint
  BY Zenon, <1>1 DEF Init, Joint, Asking, Answering, InCommand, KeptWrite, InStep, Served, Issued
<1>8. Sensed /\ Flushed
  BY Zenon, <1>1 DEF Init, Sensed, Flushed, Served, Passed
<1>9. QED BY Zenon, <1>2, <1>4, <1>5, <1>6, <1>7, <1>8 DEF BotInv, Typed

LEMMA BotStutters == BotInv /\ UNCHANGED vars => BotInv'
<1> SUFFICES ASSUME BotInv, UNCHANGED vars PROVE BotInv'
  BY Zenon
<1>1. UNCHANGED <<request, progress, gone, faults>> /\ UNCHANGED hostcmd /\ UNCHANGED bus
        /\ UNCHANGED drive
  BY Zenon DEF vars
<1>2. UNCHANGED <<cmd, tag, phase, transferred, inbuf, cleared_halt, answer, sense, outer>>
  BY Zenon, <1>1 DEF hostcmd
<1>3. UNCHANGED <<dphase, dcmd, davail, dcount, dgot, dend, dstatus, halted>>
  BY Zenon, <1>1 DEF bus
<1>4. UNCHANGED <<dsense, spin, attention, has, lacks, image, medium>>
  BY Zenon, <1>1 DEF drive
<1>5. Asking'
  BY Zenon, <1>1, <1>2, SameAsked
<1>6. CommandTyped'
  BY Zenon, <1>2 DEF BotInv, Typed, CommandTyped
<1>7. DriveTyped'
  BY Zenon, <1>1, <1>3, <1>4 DEF BotInv, Typed, DriveTyped
<1>8. Answering'
  BY Zenon, <1>2, <1>3 DEF BotInv, Joint, Answering
<1>9. InCommand'
  <2>1. UNCHANGED ready
    BY Zenon, <1>1 DEF progress
  <2>2. QED BY Zenon, <2>1, <1>3 DEF BotInv, Joint, InCommand
<1>10. InStep'
  BY Zenon, <1>2, <1>3 DEF BotInv, Joint, InStep, Served
<1>11. KeptWrite'
  BY Zenon, <1>1, <1>2, <1>3 DEF BotInv, Joint, KeptWrite, Age
<1>12. Sensed'
  <2>1. UNCHANGED no_flush_command
    BY Zenon, <1>1 DEF progress
  <2>2. QED BY Zenon, <2>1, <1>2, <1>3, <1>4 DEF BotInv, Sensed
<1>13. Flushed'
  <2>1. UNCHANGED kind /\ UNCHANGED result
    BY Zenon, <1>1 DEF progress, request
  <2>2. QED BY Zenon, <2>1, <1>2, <1>3, <1>4 DEF BotInv, Flushed, Served, Passed
<1>14. attention' \in BOOLEAN /\ gone' \in BOOLEAN /\ cleared_halt' \in BOOLEAN
  BY Zenon, <1>1, <1>2, <1>4 DEF BotInv, Typed, Flags
<1>15. QED BY Zenon, <1>1, <1>5, <1>6, <1>7, <1>8, <1>9, <1>10, <1>11, <1>12, <1>13, <1>14, Wire
           DEF Beneath

LEMMA BotSteps == BotInv /\ [Next]_vars => BotInv'
<1> SUFFICES ASSUME BotInv, [Next]_vars PROVE BotInv'
  BY Zenon
<1>1. ASSUME HostStep PROVE BotInv'
  BY <1>1, SendCbwStep, ReadDataStep, SendDataStep, ReadCswStep, RecoverStep, SenseAnsweredStep,
     OpenInquiredStep, OpenTestedStep, OpenSensedStep, OpenSizedStep, NextChunkStep, ChunkReadStep,
     ChunkWrittenStep, SynchronizedStep, CacheAnsweredStep, Zenon DEF HostStep
<1>2. ASSUME NEW k \in {"read", "write"}, NEW r \in Requests, StartTransfer(k, r[1], r[2])
      PROVE  BotInv'
  <2>1. r[1] \in Addr /\ r[2] \in 0..Size
    BY Zenon, ScsiAssumption DEF Addr, Size
  <2>2. QED BY Zenon, <1>2, <2>1, StartTransferStep
<1>3. QED BY Zenon, <1>1, <1>2, DriveCommitsStep, UnplugStep, StartOpenStep, StartFlushStep,
             StartCacheStateStep, BotStutters DEF Next

\* For every drive, request size and number of calls, host and drive keep in step.
THEOREM BotKept == Spec => []BotInv
<1>1. QED BY BotStarts, BotSteps, PTL DEF Spec

\* Every field of the device, the transport and the drive keeps its range: no read or write
\* reaches beyond the blocks, and no buffer holds more than was asked for.
THEOREM BotTyped == Spec => []TypeOK
<1>1. BotInv => TypeOK
  <2> SUFFICES ASSUME BotInv PROVE TypeOK
    BY Zenon
  <2>1. Len(collected) <= len
    <3>1. Len(collected) \in Nat /\ len \in Nat /\ done \in 0..len /\ Len(collected) <= done
      BY Zero DEF BotInv, Typed, RequestTyped
    <3>2. QED BY <3>1
  <2>2. /\ ready \in BOOLEAN /\ no_flush_command \in BOOLEAN /\ cleared_halt \in BOOLEAN
    BY Zenon DEF BotInv, Typed, Flags
  <2>3. cmd.op \in Ops
    BY Zenon, TakenTypes
  <2>4. QED BY <2>1, <2>2, <2>3 DEF BotInv, Typed, RequestTyped, CommandTyped, DriveTyped, TypeOK, Tags, Issued
<1>2. QED BY <1>1, BotKept, PTL

\* flush returns Ok only when the medium has what the drive's cache has, or the drive has
\* neither form of SYNCHRONIZE CACHE, through every loss, repetition and failed reset
\* (synchronize_cache, command_inner).
THEOREM FlushesReach == Spec => []FlushReachesMedium
<1>1. BotInv => FlushReachesMedium
  BY Zenon DEF BotInv, Flushed, FlushReachesMedium
<1>2. QED BY <1>1, BotKept, PTL
=============================================================================
