------------------------------- MODULE ScsiBot -------------------------------
(***************************************************************************)
(* ScsiBlockDevice (core/src/usb/scsi.rs) and the Bulk-Only Transport of     *)
(* bot.rs: byte requests cut into block commands, each a CBW, a data phase   *)
(* and a CSW, with Reset Recovery and REQUEST SENSE after a failure.         *)
(*                                                                         *)
(* The drive and the bulk transport are external.  The transport does what   *)
(* UsbTransport shows it doing: an OUT call may move units it does not       *)
(* report, or repeat a round; an IN call may lose units it moved.  Every     *)
(* such misbehaviour is counted in faults.  SharedDevice's lock admits one   *)
(* request at a time.                                                       *)
(*                                                                         *)
(* A block holds bs units.  The unit that request k writes at address a is   *)
(* k * Size + a, so misplaced and stale units are told apart.                *)
(***************************************************************************)
EXTENDS Integers, Sequences

CONSTANTS
  NBlocks,   \* capacity.blocks
  bs,        \* capacity.block_size, in units
  MaxBlocks, \* blocks per command: max_transfer and MAX_SCSI_TRANSFER over bs
  Requests,  \* the offsets and lengths read_at and write_at are called with
  TagMod,    \* tags wrap, at 2^32 in the code
  MaxCalls,  \* bound on requests
  MaxFaults, \* bound on misbehaviour of the drive and the transport
  MaxSpin    \* bound on the TEST UNIT READYs a drive refuses while it starts up

ASSUME ScsiAssumption ==
  /\ NBlocks \in Nat \ {0} /\ bs \in Nat \ {0} /\ MaxBlocks \in Nat \ {0}
  /\ Requests \subseteq (0..NBlocks * bs - 1) \X (0..NBlocks * bs)
  /\ TagMod \in Nat \ {0} /\ MaxCalls \in Nat /\ MaxFaults \in Nat /\ MaxSpin \in Nat
  /\ MaxFaults < TagMod \* a command the drive has kept is not as old as the tags are many

Size == NBlocks * bs
Addr == 0..Size - 1
Garbage == -1

InOps   == {"inquiry", "capacity", "capacity16", "mode6", "mode10", "read", "sense"}
NoData  == {"tur", "sync10", "sync16"}
Optional == {"sync10", "sync16"}
Ops     == InOps \cup NoData \cup {"write"}
Kinds   == {"none", "open", "read", "write", "flush", "cache"}
Errors  == {"failed", "protocol", "usb", "gone", "bounds"}
Senses  == {"unknown", "none", "attention", "notready", "illegal", "other"}
NoStatus == [status |-> "passed", residue |-> 0]
NoCmd   == [op |-> "tur", tag |-> -1, lba |-> 0, len |-> 0, data |-> <<>>]

VARIABLES
  ready,            \* open has succeeded
  no_flush_command,
  kind, off, len, done, collected, tries, calls, result, \* the request
  cmd, tag, phase, transferred, inbuf, cleared_halt, answer, sense, \* the command
  outer,            \* the failed command a REQUEST SENSE is asking about
  dphase, dcmd, davail, dcount, dgot, dend, dstatus, halted, \* the drive's side
  dsense, spin, attention,
  has, lacks,       \* optional opcodes the drive has shown to have, and to lack
  gone,             \* unplugged, or the transport is Dead
  image, medium,    \* what the drive would return, and what survives a power loss
  faults,
  before,           \* history: image when the request started
  aimed             \* history: the blocks that write requests so far touch

request == <<kind, off, len, calls, before, aimed>>
hostcmd == <<cmd, tag, phase, transferred, inbuf, cleared_halt, answer, sense, outer>>
progress == <<ready, no_flush_command, done, collected, tries, result>>
bus     == <<dphase, dcmd, davail, dcount, dgot, dend, dstatus, halted>>
drive   == <<dsense, spin, attention, has, lacks, image, medium>>
vars    == <<request, hostcmd, progress, bus, drive, gone, faults>>

TypeOK ==
  /\ ready \in BOOLEAN /\ no_flush_command \in BOOLEAN
  /\ kind \in Kinds /\ off \in Addr /\ len \in 0..Size /\ done \in 0..len
  /\ Len(collected) <= len /\ tries \in 0..3 /\ calls \in 0..MaxCalls
  /\ result \in Errors \cup {"none", "ok"}
  /\ cmd.op \in Ops /\ tag \in 0..TagMod - 1
  /\ phase \in {"none", "chunk", "cbw", "data", "csw", "reset", "answer"}
  /\ transferred \in 0..cmd.len /\ cleared_halt \in BOOLEAN
  /\ answer \in Errors \cup {"none", "ok"} /\ sense \in Senses
  /\ dphase \in {"cbw", "in", "out", "status"}
  /\ dcount \in 0..davail /\ Len(dgot) <= davail
  /\ dend \in {"done", "zlp", "short", "stall"}
  /\ halted \subseteq {"in", "out"} /\ dsense \in Senses
  /\ image \in [Addr -> Nat] /\ medium \in [Addr -> Nat]
  /\ faults \in 0..MaxFaults

Init ==
  /\ ready = FALSE /\ no_flush_command = FALSE
  /\ kind = "none" /\ off = 0 /\ len = 0 /\ done = 0 /\ collected = <<>>
  /\ tries = 0 /\ calls = 0 /\ result = "none"
  /\ cmd = NoCmd /\ tag = 1 % TagMod /\ phase = "none" /\ transferred = 0
  /\ inbuf = <<>> /\ cleared_halt = FALSE /\ answer = "none" /\ sense = "unknown"
  /\ outer = NoCmd
  /\ dphase = "cbw" /\ dcmd = NoCmd /\ davail = 0 /\ dcount = 0 /\ dgot = <<>>
  /\ dend = "done" /\ dstatus = NoStatus /\ halted = {}
  /\ dsense = "none" /\ spin \in 0..MaxSpin /\ attention \in BOOLEAN
  /\ has = {} /\ lacks = {} /\ gone = FALSE
  /\ image = [a \in Addr |-> a] /\ medium = image
  /\ faults = 0 /\ before = image /\ aimed = {}

Least(m, n) == IF m < n THEN m ELSE n
Fault == faults < MaxFaults /\ faults' = faults + 1

-----------------------------------------------------------------------------
(* The drive (external).                                                    *)

Direction(op) == IF op = "write" THEN "out" ELSE IF op \in InOps THEN "in" ELSE "none"

\* The drive is done with a command.
AwaitsCbw ==
  /\ dphase' = "cbw" /\ dcmd' = NoCmd /\ davail' = 0 /\ dcount' = 0 /\ dgot' = <<>>
  /\ dend' = "done" /\ dstatus' = NoStatus

StillIn == UNCHANGED <<dphase, dcmd, davail, dcount, dgot, dend, dstatus>>

\* The drive is in its data phase, and moves on to the status once that is over.
EntersData(n, e, sent) ==
  /\ davail' = n /\ dend' = e /\ dcount' = sent
  /\ dphase' = IF sent = n /\ e # "zlp" THEN "status" ELSE "in"
  /\ halted' = IF sent = n /\ e = "stall" THEN halted \cup {"in"} ELSE halted

Passes(r) == dstatus' = [status |-> "passed", residue |-> r]

\* Why the drive refuses a command: a condition it must report, an opcode it does
\* not have, or a fault of the medium.
Refuses(s) ==
  \/ s = "attention" /\ attention /\ cmd.op \notin {"inquiry", "sense"} /\ UNCHANGED faults
  \/ s = "notready" /\ spin > 0 /\ cmd.op = "tur" /\ UNCHANGED faults
  \/ s = "illegal" /\ cmd.op \in Optional \ has /\ UNCHANGED faults
  \/ s = "other" /\ Fault

MustRefuse == \/ attention /\ cmd.op \notin {"inquiry", "sense"}
              \/ spin > 0 /\ cmd.op = "tur"
              \/ cmd.op \in lacks

\* A refusal drops sense data of an earlier command and ends the data phase at once.
RefusesCommand ==
  /\ \E s \in Senses :
       /\ Refuses(s) /\ dsense' = s
       /\ attention' = (attention /\ s # "attention")
       /\ spin' = IF s = "notready" THEN spin - 1 ELSE spin
       /\ lacks' = IF s = "illegal" THEN lacks \cup {cmd.op} ELSE lacks
  /\ dstatus' = [status |-> "failed", residue |-> cmd.len]
  /\ dgot' = <<>>
  /\ CASE Direction(cmd.op) = "in"  -> \E e \in {"zlp", "short", "stall"} :
                                         EntersData(0, e, 0)
       [] Direction(cmd.op) = "out" -> /\ davail' = 0 /\ dend' = "stall" /\ dcount' = 0
                                       /\ dphase' = "status"
                                       /\ halted' = halted \cup {"out"}
       [] OTHER                     -> /\ davail' = 0 /\ dend' = "done" /\ dcount' = 0
                                       /\ dphase' = "status" /\ UNCHANGED halted
  /\ UNCHANGED <<has, image, medium>>

\* The sense data after an accepted command.  REQUEST SENSE reports a pending unit
\* attention, and a drive that is starting up may say so whenever it is asked; any
\* other command makes the drive forget why an earlier one failed.
ToldSenses ==
  IF cmd.op # "sense" THEN {"none"}
  ELSE IF attention THEN {"attention"}
  ELSE {dsense} \cup (IF dsense = "none" /\ spin > 0 THEN {"notready"} ELSE {})

\* Only the length of a MODE SENSE answer is the drive's to choose.
AcceptsCommand ==
  /\ ~MustRefuse
  /\ dsense' \in ToldSenses
  /\ attention' = (attention /\ cmd.op # "sense")
  /\ dgot' = <<>>
  /\ CASE Direction(cmd.op) = "in" ->
            /\ \/ /\ EntersData(cmd.len, "done", 0) /\ Passes(0) /\ UNCHANGED faults
               \/ \E n \in 0..cmd.len - 1, e \in {"zlp", "short", "stall"} :
                    /\ EntersData(n, e, 0) /\ Passes(cmd.len - n)
                    /\ IF cmd.op \in {"mode6", "mode10"} THEN UNCHANGED faults ELSE Fault
            /\ UNCHANGED medium
       [] Direction(cmd.op) = "out" ->
            /\ dphase' = "out" /\ dcount' = 0 /\ Passes(0) /\ UNCHANGED <<halted, medium>>
            /\ \/ davail' = cmd.len /\ dend' = "done" /\ UNCHANGED faults
               \/ \E n \in 0..cmd.len - 1 : davail' = n /\ dend' = "stall" /\ Fault
       [] OTHER ->
            /\ dphase' = "status" /\ davail' = 0 /\ dcount' = 0 /\ dend' = "done"
            /\ Passes(0) /\ UNCHANGED <<halted, faults>>
            /\ medium' = IF cmd.op = "tur" THEN medium ELSE image
  /\ has' = has \cup ({cmd.op} \cap Optional)
  /\ UNCHANGED <<spin, lacks, image>>

\* The image with the first n units of us from block lba on.
Written(lba, us, n) ==
  [a \in Addr |-> IF a \in lba * bs..lba * bs + n - 1 THEN us[a - lba * bs + 1] ELSE image[a]]

\* Whole blocks of what the drive received reach its cache; it states what it left
\* out.  Leaving out whole blocks, or failing, is a fault.
DriveCommits ==
  /\ dphase = "out" /\ Len(dgot) = davail
  /\ \E b \in 0..Len(dgot) \div bs, st \in {"passed", "failed", "phase"} :
       /\ image' = Written(dcmd.lba, dgot, b * bs)
       /\ dstatus' = [status |-> st, residue |-> dcmd.len - b * bs]
       /\ dsense' = IF st = "failed" THEN "other" ELSE dsense
       /\ IF st = "passed" /\ b = Len(dgot) \div bs THEN UNCHANGED faults ELSE Fault
  /\ dphase' = "status"
  /\ halted' = IF dend = "stall" THEN halted \cup {"out"} ELSE halted
  /\ UNCHANGED <<request, hostcmd, progress, dcmd, davail, dcount, dgot, dend, spin,
                 attention, has, lacks, medium, gone>>

Unplug ==
  /\ ~gone /\ Fault
  /\ gone' = TRUE
  /\ UNCHANGED <<request, hostcmd, progress, bus, drive>>

-----------------------------------------------------------------------------
(* One command: command_inner, and command_out_inner for a write.           *)

Issue(t, op, lba, n, data) ==
  /\ cmd' = [op |-> op, tag |-> t, lba |-> lba, len |-> n, data |-> data]
  /\ tag' = (t + 1) % TagMod
  /\ phase' = "cbw" /\ transferred' = 0 /\ inbuf' = <<>> /\ cleared_halt' = FALSE
  /\ answer' = "none"

\* The command returns: at once, or after the reset of recover.
Answer(a) == phase' = "answer" /\ answer' = a
Fail(a)   == phase' = "reset" /\ answer' = a

UsbError == IF gone THEN "gone" ELSE "usb"

SendCbw ==
  /\ phase = "cbw"
  /\ \/ /\ ~gone /\ "out" \notin halted /\ dphase = "cbw"
        /\ dcmd' = cmd
        /\ RefusesCommand \/ AcceptsCommand
        /\ phase' = IF cmd.len > 0 THEN "data" ELSE "csw"
        /\ UNCHANGED answer
     \/ \* The drive still waits for data of an older command: this short packet ends it.
        /\ ~gone /\ "out" \notin halted /\ dphase = "out" /\ Len(dgot) < davail
        /\ davail' = Len(dgot)
        /\ phase' = IF cmd.len > 0 THEN "data" ELSE "csw"
        /\ UNCHANGED <<answer, drive, faults, dphase, dcmd, dcount, dgot, dend, dstatus, halted>>
     \/ \* Nobody takes it.
        /\ gone \/ "out" \in halted \/ dphase \in {"in", "status"}
        /\ Fail(UsbError)
        /\ UNCHANGED <<bus, drive, faults>>
     \/ \* A transport error.  If the CBW did arrive, it is as if the data phase failed.
        /\ ~gone /\ Fault /\ Fail("usb") /\ UNCHANGED <<bus, drive>>
     \/ \* A short write: the drive stalls on an invalid CBW until it is reset.
        /\ ~gone /\ Fault /\ Answer("protocol")
        /\ AwaitsCbw /\ halted' = {"in", "out"}
        /\ UNCHANGED drive
  /\ UNCHANGED <<request, progress, cmd, tag, transferred, inbuf, cleared_halt, sense, outer, gone>>

\* What the i-th unit of an IN data phase carries.
Unit(i) == CASE dcmd.op = "read"  -> image[dcmd.lba * bs + i]
             [] dcmd.op = "sense" -> dsense
             [] OTHER             -> Garbage

\* A data-phase read that moves j units and returns p: all but a run of them that
\* starts behind the first g, so that the ones behind it are out of place.
Receives(j, p, g) ==
  /\ EntersData(davail, dend, dcount + j)
  /\ UNCHANGED <<dcmd, dgot, dstatus>>
  /\ inbuf' = inbuf \o [i \in 1..p |-> Unit(dcount + (IF i > g THEN i + j - p ELSE i) - 1)]
  /\ transferred' = transferred + p
  /\ dsense' = IF dcmd.op = "sense" THEN "none" ELSE dsense

Sending == ~gone /\ "in" \notin halted /\ dphase = "in"

ReadData ==
  /\ phase = "data" /\ Direction(cmd.op) = "in"
  /\ \/ \* Ok(n)
        /\ Sending /\ dcount < davail
        /\ Receives(davail - dcount, davail - dcount, 0)
        /\ phase' = IF transferred' = cmd.len THEN "csw" ELSE "data"
        /\ UNCHANGED <<answer, faults>>
     \/ \* Units that were moved are not returned.
        /\ Sending /\ dcount < davail /\ Fault
        /\ \E j \in 1..davail - dcount : \E p \in 0..j - 1 : \E g \in 0..p :
             /\ Receives(j, p, g)
             /\ IF p = 0 THEN Fail("usb") ELSE UNCHANGED <<phase, answer>>
     \/ \* Ok(0): the drive ended the data phase early.
        /\ Sending /\ dcount = davail
        /\ dphase' = "status" /\ phase' = "csw"
        /\ UNCHANGED <<answer, faults, halted, dcmd, davail, dcount, dgot, dend, dstatus,
                       transferred, inbuf, dsense>>
     \/ \* The CSW is taken for data, and nothing follows it.
        /\ ~gone /\ "in" \notin halted /\ dphase = "status"
        /\ AwaitsCbw /\ Fail("usb")
        /\ UNCHANGED <<faults, halted, transferred, inbuf, dsense>>
     \/ /\ gone \/ "in" \in halted \/ dphase = "cbw" \/ (dphase = "out" /\ Len(dgot) < davail)
        /\ Fail(UsbError) /\ StillIn
        /\ UNCHANGED <<faults, halted, transferred, inbuf, dsense>>
  /\ UNCHANGED <<request, progress, cmd, tag, cleared_halt, sense, outer,
                 spin, attention, has, lacks, image, medium, gone>>

Taking == ~gone /\ "out" \notin halted /\ dphase = "out"
Rest   == SubSeq(cmd.data, transferred + 1, cmd.len)
Room   == davail - Len(dgot)

\* A write call of which p units are reported.
Sent(p) ==
  /\ transferred' = transferred + p
  /\ IF p = 0 THEN Fail("usb")
     ELSE /\ phase' = IF transferred' = cmd.len THEN "csw" ELSE "data"
          /\ UNCHANGED answer

SendData ==
  /\ phase = "data" /\ cmd.op = "write"
  /\ \/ \* The drive takes what it has room for.
        /\ Taking
        /\ \E n \in {Least(Room, Len(Rest))} :
             dgot' = dgot \o SubSeq(Rest, 1, n) /\ Sent(n)
        /\ UNCHANGED faults
     \/ \* A round that moved k units is done again, moves m, and reports p of them.
        /\ Taking /\ Fault
        /\ \E k \in 0..Least(Room, Len(Rest)) : \E m \in 0..Least(Room - k, Len(Rest)) :
             /\ dgot' = dgot \o SubSeq(Rest, 1, k) \o SubSeq(Rest, 1, m)
             /\ \E p \in 0..m : Sent(p)
     \/ \* Ok(0) ends the loop.
        /\ ~gone /\ Fault
        /\ phase' = "csw" /\ UNCHANGED <<answer, dgot, transferred>>
     \/ /\ ~Taking
        /\ Fail(UsbError)
        /\ UNCHANGED <<dgot, transferred, faults>>
  /\ UNCHANGED <<request, progress, cmd, tag, inbuf, cleared_halt, sense, outer, dphase, dcmd,
                 davail, dcount, dend, dstatus, halted, drive, gone>>

\* What a CSW says of the command: its tag first, then its status, and for an OUT
\* command the residue.  The variants leave out one of the checks.
CswVerdict_NoTag ==
  IF dstatus.status = "passed" /\ cmd.op = "write" /\ dstatus.residue # 0 THEN "protocol"
  ELSE dstatus.status
CswVerdict_NoResidue ==
  IF dcmd.tag # cmd.tag THEN "protocol" ELSE dstatus.status
CswVerdict ==
  IF \/ dcmd.tag # cmd.tag
     \/ dstatus.status = "passed" /\ cmd.op = "write" /\ dstatus.residue # 0
  THEN "protocol"
  ELSE dstatus.status

SameCommand == UNCHANGED <<cmd, tag, transferred, inbuf, outer>>

DecodeCsw ==
  \/ CswVerdict = "passed" /\ Answer("ok") /\ SameCommand /\ UNCHANGED cleared_halt
  \/ CswVerdict = "protocol" /\ Answer("protocol") /\ SameCommand /\ UNCHANGED cleared_halt
  \/ CswVerdict = "phase" /\ Fail("protocol") /\ SameCommand /\ UNCHANGED cleared_halt
  \/ \* ask_why is false for REQUEST SENSE only.
     /\ CswVerdict = "failed"
     /\ IF cmd.op = "sense" THEN Answer("failed") /\ SameCommand /\ UNCHANGED cleared_halt
        ELSE Issue(tag, "sense", 0, 1, <<>>) /\ outer' = cmd

\* No CSW: the first time the IN halt is cleared and the read repeated.
RetryCsw_NoLimit ==
  /\ cleared_halt' = TRUE /\ halted' = halted \ {"in"}
  /\ UNCHANGED <<phase, answer>>
RetryCsw ==
  IF cleared_halt THEN Fail("usb") /\ UNCHANGED <<halted, cleared_halt>>
  ELSE /\ cleared_halt' = TRUE /\ halted' = halted \ {"in"}
       /\ UNCHANGED <<phase, answer>>

NoCswComes == "in" \in halted \/ dphase \in {"cbw", "in"} \/ (dphase = "out" /\ Len(dgot) < davail)

ReadCsw ==
  /\ phase = "csw"
  /\ \/ /\ ~gone /\ "in" \notin halted /\ dphase = "status"
        /\ AwaitsCbw /\ DecodeCsw
        /\ UNCHANGED <<halted, faults>>
     \/ gone /\ Answer("gone") /\ SameCommand /\ StillIn /\ UNCHANGED <<cleared_halt, halted, faults>>
     \/ ~gone /\ NoCswComes /\ RetryCsw /\ SameCommand /\ StillIn /\ UNCHANGED faults
     \/ \* The CSW is lost, or late.
        /\ ~gone /\ ~NoCswComes /\ Fault /\ RetryCsw /\ SameCommand
        /\ StillIn \/ (dphase = "status" /\ AwaitsCbw)
     \/ \* clear_halt fails.
        /\ ~gone /\ NoCswComes /\ ~cleared_halt /\ Fault /\ Fail("usb") /\ SameCommand
        /\ cleared_halt' = TRUE /\ StillIn /\ UNCHANGED halted
  /\ UNCHANGED <<request, progress, sense, drive, gone>>

\* recover, and the resets of the CSW loop.  The drive drops the command it was in,
\* with any number of the blocks it received written; the error of a failing reset is
\* discarded.
Recover ==
  /\ phase = "reset" /\ phase' = "answer"
  /\ \/ /\ ~gone /\ AwaitsCbw
        /\ \E b \in 0..(IF dphase = "out" THEN Len(dgot) \div bs ELSE 0) :
             image' = Written(dcmd.lba, dgot, b * bs)
        /\ \/ halted' = {} /\ UNCHANGED faults
           \/ halted # {} /\ Fault /\ UNCHANGED halted
     \/ gone /\ StillIn /\ UNCHANGED <<halted, image, faults>>
     \/ ~gone /\ Fault /\ StillIn /\ UNCHANGED <<halted, image>>
  /\ UNCHANGED <<request, progress, cmd, tag, transferred, inbuf, cleared_halt, answer, sense, outer,
                 dsense, spin, attention, has, lacks, medium, gone>>

\* The buffer of REQUEST SENSE: zeroes unless the drive filled it.
SenseRead == IF inbuf = <<>> THEN "none" ELSE inbuf[1]

\* REQUEST SENSE after a failed command returns, and with it the command.
SenseAnswered ==
  /\ phase = "answer" /\ outer # NoCmd
  /\ cmd' = outer /\ outer' = NoCmd
  /\ answer' = "failed"
  /\ sense' = IF answer = "ok" THEN SenseRead ELSE "unknown"
  /\ transferred' = 0 /\ inbuf' = <<>>
  /\ UNCHANGED <<request, progress, tag, phase, cleared_halt, bus, drive, gone, faults>>

-----------------------------------------------------------------------------
(* The requests.                                                            *)

Rest_of_world == UNCHANGED <<bus, drive, gone, faults>>

Returned(op) == phase = "answer" /\ outer = NoCmd /\ cmd.op = op

Command(op, lba, n, data) ==
  Issue(tag, op, lba, n, data) /\ sense' = "unknown" /\ UNCHANGED outer

\* The locals of the last command go out of scope.
NoCommand(p) ==
  /\ phase' = p /\ cmd' = NoCmd /\ transferred' = 0 /\ inbuf' = <<>>
  /\ cleared_halt' = FALSE /\ answer' = "none" /\ sense' = "unknown"
  /\ UNCHANGED <<tag, outer>>

Finish(r) == result' = r /\ NoCommand("none")

Request(k, o, n) ==
  /\ phase = "none" /\ calls < MaxCalls
  /\ kind' = k /\ off' = o /\ len' = n /\ done' = 0 /\ collected' = <<>> /\ tries' = 0
  /\ calls' = calls + 1 /\ before' = image
  /\ aimed' = aimed \cup (IF k = "write" THEN {u \div bs : u \in o..o + n - 1} ELSE {})
  /\ Rest_of_world

\* open: a new ScsiBlockDevice.
StartOpen ==
  /\ ~ready /\ Request("open", 0, 0)
  /\ Issue(1 % TagMod, "inquiry", 0, 1, <<>>) /\ sense' = "unknown"
  /\ no_flush_command' = FALSE /\ result' = "none"
  /\ UNCHANGED <<ready, outer>>

InOpen == Rest_of_world /\ UNCHANGED <<request, no_flush_command, done, collected>>

\* The answer may say that this is no direct-access block device.
OpenInquired ==
  /\ Returned("inquiry") /\ InOpen
  /\ \/ answer = "ok" /\ Command("tur", 0, 0, <<>>) /\ tries' = 1 /\ UNCHANGED result
     \/ answer = "ok" /\ inbuf # <<>> /\ Finish("protocol") /\ UNCHANGED tries
     \/ answer # "ok" /\ Finish(answer) /\ UNCHANGED tries
  /\ UNCHANGED ready

\* TEST UNIT READY.  command has already asked why it failed; open asks again.
OpenTested ==
  /\ Returned("tur") /\ InOpen
  /\ IF answer = "gone" THEN Finish("gone")
     ELSE Command(IF answer = "ok" THEN "capacity" ELSE "sense", 0, 1, <<>>) /\ UNCHANGED result
  /\ UNCHANGED <<ready, tries>>

OpenSensed ==
  /\ Returned("sense") /\ InOpen
  /\ IF answer = "ok" /\ SenseRead \notin {"notready", "attention"}
     THEN Finish("failed") /\ UNCHANGED tries
     ELSE /\ IF tries < 3 THEN Command("tur", 0, 0, <<>>) /\ tries' = tries + 1
             ELSE Command("capacity", 0, 1, <<>>) /\ UNCHANGED tries
          /\ UNCHANGED result
  /\ UNCHANGED ready

\* A short answer leaves the block size zero; a last block of 2^32 - 1 asks for the
\* 16-byte form.
OpenSized(op) ==
  /\ Returned(op) /\ InOpen
  /\ \/ answer = "ok" /\ inbuf # <<>> /\ Finish("ok") /\ ready' = TRUE
     \/ answer = "ok" /\ inbuf = <<>> /\ Finish("protocol") /\ UNCHANGED ready
     \/ answer # "ok" /\ Finish(answer) /\ UNCHANGED ready
     \/ /\ op = "capacity" /\ answer = "ok" /\ inbuf # <<>>
        /\ Command("capacity16", 0, 1, <<>>) /\ UNCHANGED <<ready, result>>
  /\ UNCHANGED tries

\* read_at and write_at up to the loop.
StartTransfer(k, o, n) ==
  /\ ready /\ Request(k, o, n)
  /\ IF n > 0 /\ o + n > Size THEN Finish("bounds")
     ELSE NoCommand("chunk") /\ result' = "none"
  /\ UNCHANGED <<ready, no_flush_command>>

\* The blocks of one command, of which units within .. within + take - 1 are wanted.
Chunk(d) ==
  LET pos    == off + d
      within == pos % bs
      span   == Least((within + len - d + bs - 1) \div bs, MaxBlocks) * bs
  IN  [lba |-> pos \div bs, within |-> within, span |-> span,
       take |-> Least(span - within, len - d)]

\* The chunk buffer at position i: what was not received is still zeroed.
ChunkBuffer(i) == IF i <= Len(inbuf) THEN inbuf[i] ELSE Garbage

\* The caller's buffer at position i.
Payload(i) == calls * Size + off + i

InTransfer == Rest_of_world /\ UNCHANGED <<request, ready, no_flush_command, tries>>

NextChunk ==
  /\ phase = "chunk" /\ InTransfer
  /\ LET c == Chunk(done)
     IN  IF done = len THEN Finish("ok")
         ELSE /\ IF kind = "read" \/ c.take # c.span
                 THEN Command("read", c.lba, c.span, <<>>)
                 ELSE Command("write", c.lba, c.span, [i \in 1..c.span |-> Payload(done + i - 1)])
              /\ UNCHANGED result
  /\ UNCHANGED <<done, collected>>

\* Ok with fewer units than the blocks hold is an error too.
ShortPhase_Accepted == FALSE
ShortPhase == transferred < cmd.len

ChunkRead ==
  /\ Returned("read") /\ InTransfer
  /\ LET c == Chunk(done)
         inside(i) == i \in c.within + 1..c.within + c.take
     IN  \/ answer # "ok" /\ Finish(answer) /\ UNCHANGED <<done, collected>>
         \/ answer = "ok" /\ ShortPhase /\ Finish("protocol") /\ UNCHANGED <<done, collected>>
         \/ /\ answer = "ok" /\ ~ShortPhase /\ kind = "read"
            /\ collected' = collected \o [i \in 1..c.take |-> ChunkBuffer(c.within + i)]
            /\ done' = done + c.take
            /\ NoCommand("chunk") /\ UNCHANGED result
         \/ \* Read-modify-write.
            /\ answer = "ok" /\ ~ShortPhase /\ kind = "write"
            /\ Command("write", c.lba, c.span,
                 [i \in 1..c.span |-> IF inside(i) THEN Payload(done + i - c.within - 1) ELSE ChunkBuffer(i)])
            /\ UNCHANGED <<done, collected, result>>

ChunkWritten ==
  /\ Returned("write") /\ InTransfer
  /\ \/ answer # "ok" /\ Finish(answer) /\ UNCHANGED done
     \/ answer = "ok" /\ ShortPhase /\ Finish("protocol") /\ UNCHANGED done
     \/ /\ answer = "ok" /\ ~ShortPhase
        /\ done' = done + Chunk(done).take
        /\ NoCommand("chunk") /\ UNCHANGED result
  /\ UNCHANGED collected

\* flush: synchronize_cache.
StartFlush ==
  /\ ready /\ Request("flush", 0, 0)
  /\ IF no_flush_command THEN Finish("ok")
     ELSE Command("sync10", 0, 0, <<>>) /\ result' = "none"
  /\ UNCHANGED <<ready, no_flush_command>>

Unsupported == answer = "failed" /\ sense = "illegal"

Synchronized(op) ==
  /\ Returned(op) /\ Rest_of_world
  /\ \/ ~Unsupported /\ Finish(answer) /\ UNCHANGED no_flush_command
     \/ /\ Unsupported /\ op = "sync10"
        /\ Command("sync16", 0, 0, <<>>) /\ UNCHANGED <<result, no_flush_command>>
     \/ Unsupported /\ op = "sync16" /\ Finish("ok") /\ no_flush_command' = TRUE
  /\ UNCHANGED <<request, ready, done, collected, tries>>

\* write_cache_state: MODE SENSE, whose page may be there to parse or not.
StartCacheState ==
  /\ ready /\ Request("cache", 0, 0)
  /\ Command("mode6", 0, 2, <<>>) /\ result' = "none"
  /\ UNCHANGED <<ready, no_flush_command>>

CacheAnswered(op) ==
  /\ Returned(op) /\ InTransfer
  /\ \/ /\ op = "mode6" /\ Command("mode10", 0, 2, <<>>) /\ UNCHANGED result
     \/ /\ op = "mode10" \/ (answer = "ok" /\ transferred > 0)
        /\ Finish("ok")
  /\ UNCHANGED <<done, collected>>

HostStep ==
  \/ SendCbw \/ ReadData \/ SendData \/ ReadCsw \/ Recover \/ SenseAnswered
  \/ OpenInquired \/ OpenTested \/ OpenSensed
  \/ \E op \in {"capacity", "capacity16"} : OpenSized(op)
  \/ NextChunk \/ ChunkRead \/ ChunkWritten
  \/ \E op \in {"sync10", "sync16"} : Synchronized(op)
  \/ \E op \in {"mode6", "mode10"} : CacheAnswered(op)

Next ==
  \/ HostStep \/ DriveCommits \/ Unplug
  \/ StartOpen \/ StartFlush \/ StartCacheState
  \/ \E k \in {"read", "write"}, r \in Requests : StartTransfer(k, r[1], r[2])

Spec == Init /\ [][Next]_vars

\* Every bulk call of the transport returns (UsbTransport's CallReturns), and the drive
\* finishes a write it has all the data of.
FairSpec == Spec /\ WF_vars(HostStep) /\ WF_vars(DriveCommits)

-----------------------------------------------------------------------------
(* Properties.                                                              *)

Passed(k) == phase = "none" /\ kind = k /\ result = "ok"

Named == off..off + len - 1

\* A non-empty write_at that returns Ok has changed the units it names, to the caller's, and no
\* other: the neighbours a read-modify-write carries are as they were (write_at,
\* command_out_inner), whatever the transport repeats or forgets to report.  And no block
\* changes outside the range of every write_at so far, those that failed half way, and that
\* the drive may carry out later, included.
WritesExact ==
  /\ TypeOK
  /\ Passed("write") /\ len > 0 =>
       image = [a \in Addr |-> IF a \in Named THEN calls * Size + a ELSE before[a]]
  /\ \A a \in Addr : image[a] # a => a \div bs \in aimed

\* A read_at that returns Ok hands over what the drive holds at those addresses.
PassedReadIsTrue ==
  Passed("read") => collected = [i \in 1..len |-> image[off + i - 1]]

\* A flush that returns Ok has everything on the medium, unless the drive has neither
\* form of SYNCHRONIZE CACHE: "Only an invalid opcode is treated this way"
\* (synchronize_cache).
FlushReachesMedium == Passed("flush") => medium = image \/ Optional \subseteq lacks

\* open, read_at, write_at, flush and write_cache_state return: no loop over the data,
\* the CSW or the sense data goes on for ever.
RequestReturns == phase # "none" ~> phase = "none"

\* open gets past a drive that has a unit attention to report or is not ready once:
\* "Removable media commonly answer NOT READY once while spinning up".
OpenOutlastsSpinUp == phase = "none" /\ kind = "open" /\ faults = 0 => result = "ok"

=============================================================================
