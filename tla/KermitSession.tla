--------------------------- MODULE KermitSession ---------------------------
(***************************************************************************)
(* tmo kermit: file transfer with the Kermit protocol over the console     *)
(* line (tmo_shell/src/ek18/src: kermit.c the protocol, kermit_cmd.c the   *)
(* control program, zephyrio.c the line and the files).  Every packet is   *)
(* acknowledged before the next one is sent; a packet that is damaged or   *)
(* not the one that is wanted is answered with a NAK or with the packet    *)
(* sent last.  The device itself never times out.                          *)
(*                                                                         *)
(* The other Kermit is external: a Kermit that times out, that takes a NAK *)
(* for the next packet for an acknowledgement of this one, and that gives  *)
(* up after PeerLimit time-outs in a row.  It does not ask for a window:   *)
(* the device offers one of P_WSLOTS packets (rpar), but then keeps to     *)
(* what it is asked for (spar), and as the sender it waits for the answer  *)
(* to each packet anyway.  A block check is taken to find every damage.    *)
(* The line takes all that is written: with prj.conf:148 SEGGER_RTT_Write  *)
(* waits for room, and tx_data has nothing to repeat or to report.         *)
(*                                                                         *)
(* File contents are counted in units.  0 is a unit that is not one of the *)
(* file to transfer: one of an older file, the CR that a text transfer     *)
(* puts before a newline, or what a failed read has left in the buffer.    *)
(***************************************************************************)
EXTENDS Integers, Sequences, SequencesExt

CONSTANTS
    Length,      \* Length[f]: units of the f-th file to transfer
    OldFile,     \* OldFile[f]: the receiver's file of that name: its units, or NoFile
    NoFile,
    Sendings,    \* what the other Kermit may send: its first packet (S, or an I packet that
                 \* the device knows nothing of), how many files, whether attributes
                 \* are sent and whether the first file is sent whole; and the options
                 \* of the command: binary (-B) or text (-T), keep (-k)
    Receivings,  \* how the other Kermit may receive: whether it takes attributes, and
                 \* whether it cancels a file or all of them; and the options
    PktUnits,    \* units that fit into a data packet
    ObufLen,     \* obuflen, in units
    SeqNums,      \* the 64 of the sequence numbers
    NSlots,      \* P_WSLOTS
    Retry,       \* P_RETRY
    NumFiles,    \* files littlefs can have open
    PeerLimit,   \* time-outs after which the other Kermit gives up
    Cap,         \* bound on the packets in flight
    MaxFaults,   \* bound on the faults of the line and the users' stops
    MaxIo,       \* bound on the failures of the file system
    MaxSessions

Names == 1 .. Len(Length)
Slots == 0 .. NSlots - 1
\* The part of s from a to b, or to its end.
Piece(s, a, b) == SubSeq(s, a, IF b > Len(s) THEN Len(s) ELSE b)

Units(f) == [i \in 1 .. Length[f] |-> i]

Packet(t, seq, d) == [t |-> t, seq |-> seq % SeqNums, d |-> d]

\* Texts of an acknowledgement that cancel a file or all files.
X == <<"X">>
Z == <<"Z">>

\* Data of a Z packet whose file is incomplete.
D == <<"D">>

ASSUME ConstAssumption ==
    /\ Length \in Seq(Nat) /\ OldFile \in [Names -> {NoFile} \cup Seq({0})]
    /\ NoFile \notin Seq(Nat)
    /\ {PktUnits, ObufLen, NSlots, NumFiles} \subseteq Nat \ {0}
    /\ {Retry, PeerLimit, Cap, MaxFaults, MaxIo, MaxSessions} \subseteq Nat
    /\ Sendings \subseteq
           [first : {"S", "I"}, files : Names, attrs : BOOLEAN, whole : BOOLEAN,
            binary : BOOLEAN, keep : BOOLEAN]
    /\ Receivings \subseteq
           [attrs : BOOLEAN, cancel : {<<>>, X, Z}, binary : BOOLEAN, keep : BOOLEAN]
    /\ SeqNums \in Nat /\ SeqNums > 2

VARIABLES
    k,           \* the protocol's state (struct k_data) and the result of the command
    slots,       \* slots[s]: window slot: whether it is in use, its retry count
    disk,        \* the device's copies of the files
    handles,     \* files littlefs has open
    keep,        \* -k, which stays set for later commands
    toDev, toPeer,
    peer,        \* the other Kermit
    faults, iofaults, sessions,   \* bounds
    unwanted,    \* ghost: packets read in a row that were not the one wanted
    shorts,      \* ghost: packets of less than four characters read in this session
    altered,     \* ghost: the device has put a unit into a file of this session that is
                 \* not one of it, or has written a buffer not just once
    swallowed    \* ghost: packets of this session have been taken for a part of another

device == <<k, slots, disk, handles, keep, iofaults, unwanted, altered>>
ghosts == <<shorts, swallowed>>
vars == <<device, toDev, toPeer, peer, faults, sessions, ghosts>>

Protocol == [status |-> "idle", why |-> "none", what |-> "recv", state |-> "none",
             s_seq |-> 0, r_seq |-> 0, opkt |-> <<>>, file |-> 0, pos |-> 0,
             obuf |-> <<>>, attrs |-> FALSE, binary |-> TRUE]

NoSending ==
    [first |-> "S", files |-> 0, attrs |-> FALSE, whole |-> TRUE, binary |-> TRUE,
     keep |-> FALSE]

NoPeer == [status |-> "done", role |-> "none", sending |-> NoSending,
           says |-> Packet("S", 0, <<>>), pos |-> 0, i |-> 0, waits |-> 0, last |-> <<>>,
           got |-> [f \in Names |-> <<>>], cancel |-> <<>>, cancelled |-> {}, file |-> 0,
           attrs |-> FALSE]

Init ==
    /\ k = Protocol
    /\ slots = [s \in Slots |-> [used |-> FALSE, rtr |-> 0]]
    /\ disk = OldFile
    /\ handles = 0 /\ keep = FALSE
    /\ toDev = <<>> /\ toPeer = <<>> /\ peer = NoPeer
    /\ faults = 0 /\ iofaults = 0 /\ sessions = 0
    /\ unwanted = 0 /\ shorts = 0 /\ altered = FALSE /\ swallowed = FALSE

Running == k.status = "run"
PeerRunning == peer.status = "run"

-----------------------------------------------------------------------------
(* What the other Kermit sends                                             *)

\* The units of file f in a data packet that follows the first pos of them.
Chunk(f, pos) == Piece(Units(f), pos + 1, pos + PktUnits)

\* How many units of file f are sent: the first one, if it is given up, lacks its last
\* data packet.
GivesUp(f) == f = 1 /\ ~peer.sending.whole
Upto(f) == IF GivesUp(f) THEN ((Length[f] - 1) \div PktUnits) * PktUnits ELSE Length[f]

\* The other Kermit with its next packet.
Saying(t, d) == [peer EXCEPT !.says = Packet(t, @.seq + 1, d), !.waits = 0]

\* A file is announced, its attributes may follow, then its data and its end.
Following ==
    LET units == Chunk(peer.file, peer.pos) IN
    CASE peer.says.t \in {"S", "I", "Z"} ->
             IF peer.file < peer.sending.files
             THEN [Saying("F", <<peer.file + 1>>) EXCEPT !.file = @ + 1, !.pos = 0]
             ELSE Saying("B", <<>>)
      [] peer.says.t = "F" /\ peer.sending.attrs -> Saying("A", <<>>)
      [] OTHER ->
             IF peer.pos < Upto(peer.file)
             THEN [Saying("D", units) EXCEPT !.pos = @ + Len(units)]
             ELSE Saying("Z", IF GivesUp(peer.file) THEN D ELSE <<>>)

-----------------------------------------------------------------------------
(* Starting the command                                                    *)

\* K_INIT gives every slot back, but leaves the retry counts as they are.
InitSlots == [s \in Slots |-> [slots[s] EXCEPT !.used = FALSE]]

Quiet == ~Running /\ ~PeerRunning /\ toDev = <<>> /\ toPeer = <<>>

\* What the files have now is that of older ones.
Aged(content) == IF content = NoFile THEN NoFile ELSE [i \in 1 .. Len(content) |-> 0]

\* Bound of the model: sessions, and the faults of all of them.
Start(options) ==
    /\ Quiet
    /\ sessions < MaxSessions /\ sessions' = sessions + 1
    /\ slots' = InitSlots
    /\ keep' = (keep \/ options.keep)
    /\ unwanted' = 0 /\ shorts' = 0 /\ altered' = FALSE /\ swallowed' = FALSE
    /\ disk' = [f \in Names |-> Aged(disk[f])]
    /\ UNCHANGED <<handles, faults, iofaults>>

StartReceive(s) ==
    /\ Start(s)
    /\ k' = [Protocol EXCEPT !.status = "run", !.state = "R_WAIT", !.binary = s.binary]
    /\ peer' = [NoPeer EXCEPT !.status = "run", !.role = "send", !.sending = s,
                              !.says = Packet(s.first, 0, <<>>)]
    /\ toDev' = <<Packet(s.first, 0, <<>>)>> /\ toPeer' = <<>>

\* K_SEND: the S packet is sent at once.
StartSend(r) ==
    LET p == Packet("S", 0, <<>>) IN
    /\ Start(r)
    /\ k' = [Protocol EXCEPT !.status = "run", !.what = "send", !.state = "S_INIT",
                             !.opkt = <<p>>, !.binary = r.binary]
    /\ peer' = [NoPeer EXCEPT !.status = "run", !.role = "recv", !.cancel = r.cancel,
                              !.attrs = r.attrs]
    /\ toPeer' = <<p>> /\ toDev' = <<>>

-----------------------------------------------------------------------------
(* Sending packets                                                         *)

NextSeq(n) == (n + 1) % SeqNums
PrevSeq == (k.r_seq + SeqNums - 1) % SeqNums

\* spkt: the packet is kept for retransmission, also when it is a NAK.
spkt(kk, p) ==
    /\ k' = [kk EXCEPT !.s_seq = p.seq, !.opkt = <<p>>]
    /\ toPeer' = Append(toPeer, p)

\* An acknowledgement; the next packet is wanted.
ack(kk, text) ==
    spkt([kk EXCEPT !.r_seq = NextSeq(k.r_seq)], Packet("Y", k.r_seq, text))

\* Faulty variant: nothing is sent again.
F_resend == toPeer' = toPeer /\ k' = k

\* The packet sent last goes out again.
resend == toPeer' = toPeer \o k.opkt /\ k' = k

Failed(why) == [k EXCEPT !.status = "failed", !.why = why]

\* The other Kermit is told and the command fails; no file is closed.
epkt(why) == spkt(Failed(why), Packet("E", 0, <<>>))

\* Retry counts beyond the limit are all the same.
Bump(n) == IF n > Retry THEN n ELSE n + 1

FreeSlots == {s \in Slots : ~slots[s].used}
slot == CHOOSE s \in FreeSlots : \A t \in FreeSlots : s <= t

Counted == [slots EXCEPT ![slot].rtr = Bump(@)]

\* A NAK for the packet that is wanted; the command fails after too many of them,
\* if the result is looked at.
nak(looked) ==
    spkt(IF looked /\ slots[slot].rtr > Retry THEN Failed("retries") ELSE k,
         Packet("N", k.r_seq, <<>>))

-----------------------------------------------------------------------------
(* Reading packets                                                         *)

\* Damaged packets: less than four characters long, longer than the buffer, with
\* a bad check of the header or of the whole, or with a length field that is too large.
Damages == {"short", "long", "header", "body", "length"}
Good(p) == p.t \notin Damages \cup {"E"} /\ ~(k.what = "recv" /\ p.t \in {"N", "Y"})

\* Faulty variant: the packet before is taken, too.
F_IsWanted(p) == Good(p) /\ p.seq \in {k.r_seq, PrevSeq}

IsWanted(p) == Good(p) /\ p.seq = k.r_seq

\* The packet read next; with a length that is too large there is more to come.
Reads(p) ==
    /\ Running /\ FreeSlots # {} /\ toDev # <<>>
    /\ p = Head(toDev) /\ p.t # "length" /\ toDev' = Tail(toDev)
    /\ unwanted' = IF IsWanted(p) THEN 0
                   ELSE IF unwanted > Retry + 1 THEN unwanted ELSE unwanted + 1
    /\ shorts' = IF p.t = "short" THEN shorts + 1 ELSE shorts
    /\ UNCHANGED <<peer, keep, faults, sessions, swallowed>>

\* The characters that a packet with such a length waits for are taken from the one
\* behind it: both are one packet, whose check is bad, which is too long or still waits.
Swallow(kind) ==
    /\ Running /\ FreeSlots # {} /\ Len(toDev) > 1 /\ Head(toDev).t = "length"
    /\ kind \in {"body", "long", "length"}
    /\ toDev' = <<[toDev[2] EXCEPT !.t = kind]>> \o Tail(Tail(toDev))
    /\ swallowed' = TRUE
    /\ UNCHANGED <<device, toPeer, peer, faults, sessions, shorts>>

NoFileChange == UNCHANGED <<disk, handles, iofaults, altered>>

\* What goes wrong on the line or is stopped by a user uses up one of MaxFaults.
Uses == faults < MaxFaults /\ faults' = faults + 1

\* The command ends without a word to the other Kermit.
Stops(why) ==
    /\ k' = Failed(why)
    /\ UNCHANGED <<slots, disk, handles, keep, iofaults, unwanted, altered, toDev, toPeer,
                   peer, sessions, ghosts>>

\* There is no slot left: readpkt has no buffer, and the command fails.
NoSlot ==
    /\ Running /\ FreeSlots = {} /\ UNCHANGED faults
    /\ Stops("slots")

\* Three ^C, or one seen by the timer.
Interrupted ==
    /\ Running /\ Uses /\ Stops("user")

\* A slot that has taken a packet of one to three characters is not given back; the
\* result of the NAK is not looked at if the check of the whole is bad.
BadPacket(p) ==
    /\ Reads(p) /\ p.t \in Damages /\ NoFileChange
    /\ IF k.what = "recv" THEN nak(p.t # "body") ELSE resend
    /\ slots' = [slots EXCEPT ![slot] =
            [used |-> p.t = "short", rtr |-> IF k.what = "recv" THEN Bump(@.rtr) ELSE @.rtr]]

\* An echo of the device's own packets.
Echo(p) ==
    /\ Reads(p) /\ k.what = "recv" /\ p.t \in {"N", "Y"}
    /\ UNCHANGED <<k, slots, toPeer>> /\ NoFileChange

ErrorPacket(p) ==
    /\ Reads(p) /\ p.t = "E"
    /\ k' = Failed("peer")
    /\ UNCHANGED <<slots, toPeer>> /\ NoFileChange

\* The packet before once more: the answer to it is sent again.
PreviousPacket(p) ==
    /\ Reads(p) /\ Good(p) /\ ~IsWanted(p) /\ p.seq = PrevSeq /\ NoFileChange
    /\ slots' = Counted
    /\ IF slots[slot].rtr > Retry THEN epkt("retries") ELSE resend

OtherPacket(p) ==
    /\ Reads(p) /\ Good(p) /\ ~IsWanted(p) /\ p.seq # PrevSeq /\ NoFileChange
    /\ IF k.what = "recv" THEN nak(TRUE) /\ slots' = Counted ELSE resend /\ UNCHANGED slots

\* Faulty variant: the retries go on being counted.
F_Fresh == slots

\* The packet that is wanted: its slot is given back and counts from zero.
Fresh == [slots EXCEPT ![slot] = [used |-> FALSE, rtr |-> 0]]

Wanted(p) == Reads(p) /\ IsWanted(p)

-----------------------------------------------------------------------------
(* Files                                                                   *)

\* littlefs may refuse a file, and does when it has no room for another one.
OpenFile(ok) ==
    /\ ok => handles < NumFiles
    /\ handles' = IF ok THEN handles + 1 ELSE handles

\* A failure of the file system uses up one of MaxIo.
Io(ok) ==
    /\ ~ok => iofaults < MaxIo
    /\ iofaults' = IF ok THEN iofaults ELSE iofaults + 1

\* A file opened for writing keeps what it has until it is written over.
Content(f) == IF disk[f] = NoFile THEN <<>> ELSE disk[f]

WriteAt(f, pos, units) ==
    LET old == Content(f)
        end == pos + Len(units)
    IN Piece(old, 1, pos) \o units \o Piece(old, end + 1, Len(old))

\* writefile: how often a buffer is written.  A text is searched for CR, and every stretch
\* without one, also behind the buffer's end, writes all of the buffer: not at all, once or
\* more than once.
Times(units, n) == IF n = 0 THEN <<>> ELSE IF n = 1 THEN units ELSE units \o units
Stored(f, pos, units, n) ==
    IF n = 0 THEN Content(f) ELSE WriteAt(f, pos, Times(units, n))

\* An error is a short write, or a stretch of text that is not as long as the buffer;
\* bytes of a binary file are written or are not.
Writes(units, n, ok) ==
    /\ n \in 0 .. 2
    /\ k.binary => n = IF ok THEN 1 ELSE 0
    /\ units = <<>> => n = 1 /\ ok
    /\ altered' = (altered \/ (~k.binary /\ n # 1))

\* closefile: an incomplete file is deleted, unless it is to be kept.
AfterClose(content, flag) ==
    IF flag = D /\ ~keep THEN NoFile ELSE content

-----------------------------------------------------------------------------
(* Sending files                                                           *)

\* The units of the next data packet (getpkt, encode).
NextUnits(kk) == Piece(Units(kk.file), kk.pos + 1, kk.pos + PktUnits)

\* The units of the file in a data packet that also has another one: the CR of a newline,
\* or what the buffer holds after a read that has failed, which goes on like one that
\* has not.
FewerUnits(kk) == Piece(Units(kk.file), kk.pos + 1, kk.pos + PktUnits - 1)

\* Faulty variant: the input file stays open at its end.
F_SendEof == handles' = handles

\* The end of the input file closes it.
SendEof == handles' = handles - 1

\* sdata: the next data packet, or a Z packet at the end of the file.
SendData(kk) ==
    LET units == NextUnits(kk) seq == NextSeq(kk.s_seq) IN
    IF units = <<>>
    THEN /\ spkt([kk EXCEPT !.state = "S_EOF", !.r_seq = seq], Packet("Z", seq, <<>>))
         /\ SendEof
    ELSE /\ spkt([kk EXCEPT !.state = "S_DATA", !.r_seq = seq, !.pos = @ + Len(units)],
                 Packet("D", seq, units))
         /\ UNCHANGED handles

SendOther(kk) ==
    LET units == FewerUnits(kk) seq == NextSeq(kk.s_seq) IN
    /\ spkt([kk EXCEPT !.state = "S_DATA", !.r_seq = seq, !.pos = @ + Len(units)],
            Packet("D", seq, <<0>> \o units))
    /\ UNCHANGED handles

\* A packet with the right number that is no acknowledgement, a NAK for one.
NotAcked(p) ==
    /\ Wanted(p) /\ k.what = "send" /\ p.t # "Y" /\ NoFileChange
    /\ slots' = Fresh
    /\ resend

Acked(p) == Wanted(p) /\ k.what = "send" /\ p.t = "Y"

\* The other Kermit cancels the file or all of them; this slot is not given back.
SendCancelled(p) ==
    LET seq == NextSeq(k.s_seq) IN
    /\ Acked(p) /\ k.state = "S_DATA" /\ p.d \in {X, Z}
    /\ handles' = handles - 1
    /\ spkt([k EXCEPT !.state = "S_EOF", !.r_seq = seq,
                      !.file = IF p.d = Z THEN Len(Length) ELSE @], Packet("Z", seq, <<>>))
    /\ slots' = [Fresh EXCEPT ![slot].used = TRUE]
    /\ UNCHANGED <<disk, iofaults, altered>>

\* The S packet or the end of a file is acknowledged: the next file is announced,
\* or there is none.  A file that cannot be opened ends the command without a word
\* to the other Kermit.
SendNextFile(p, ok) ==
    LET seq == NextSeq(k.s_seq)
        kk == [k EXCEPT !.r_seq = seq, !.attrs = IF k.state = "S_INIT" THEN p.d = <<"A">> ELSE @]
    IN
    /\ Acked(p) /\ k.state \in {"S_INIT", "S_EOF"}
    /\ slots' = Fresh
    /\ IF k.file < Len(Length)
       THEN /\ OpenFile(ok) /\ Io(ok \/ handles = NumFiles)
            /\ IF ok THEN spkt([kk EXCEPT !.state = "S_FILE", !.file = @ + 1, !.pos = 0],
                               Packet("F", seq, <<k.file + 1>>))
                     ELSE k' = Failed("io") /\ UNCHANGED toPeer
       ELSE /\ spkt([kk EXCEPT !.state = "S_EOT"], Packet("B", seq, <<>>))
            /\ ok /\ UNCHANGED <<handles, iofaults>>
    /\ UNCHANGED <<disk, altered>>

SendAttributes(p) ==
    LET seq == NextSeq(k.s_seq) IN
    /\ Acked(p) /\ k.state = "S_FILE" /\ k.attrs /\ NoFileChange
    /\ slots' = Fresh
    /\ spkt([k EXCEPT !.state = "S_ATTR", !.r_seq = seq], Packet("A", seq, <<>>))

\* own: all of the packet is the file's.  If not, it is a text, or a read has failed.
SendNextData(p, own) ==
    /\ Acked(p) /\ (k.state = "S_FILE" => ~k.attrs)
    /\ k.state \in {"S_FILE", "S_ATTR", "S_DATA"}
    /\ ~(k.state = "S_DATA" /\ p.d \in {X, Z})
    /\ slots' = Fresh
    /\ IF own THEN SendData(k) ELSE SendOther(k)
    /\ Io(own \/ (~k.binary /\ NextUnits(k) # <<>>))
    /\ altered' = (altered \/ ~own)
    /\ UNCHANGED disk

SendDone(p) ==
    /\ Acked(p) /\ k.state = "S_EOT" /\ NoFileChange
    /\ slots' = Fresh
    /\ k' = [k EXCEPT !.status = "done"] /\ UNCHANGED toPeer

-----------------------------------------------------------------------------
(* Receiving files                                                         *)

Received(p) == Wanted(p) /\ k.what = "recv" /\ slots' = Fresh

\* The types of packet each state has an answer to.
Expected == [R_WAIT |-> {"S"}, R_FILE |-> {"F", "B"}, R_ATTR |-> {"A", "D", "Z"},
             R_DATA |-> {"D", "Z"}]

Unexpected(p) ==
    /\ Received(p) /\ p.t \notin Expected[k.state] /\ NoFileChange
    /\ epkt("unexpected")

ReceiveInit(p) ==
    /\ Received(p) /\ k.state = "R_WAIT" /\ p.t = "S" /\ NoFileChange
    /\ ack([k EXCEPT !.state = "R_FILE"], <<>>)

ReceiveName(p) ==
    /\ Received(p) /\ k.state = "R_FILE" /\ p.t = "F" /\ NoFileChange
    /\ ack([k EXCEPT !.state = "R_ATTR", !.file = p.d[1]], <<>>)

ReceiveBreak(p) ==
    /\ Received(p) /\ k.state = "R_FILE" /\ p.t = "B" /\ NoFileChange
    /\ ack([k EXCEPT !.status = "done"], <<>>)

\* Attributes are always accepted; they may say what the file is to be taken for.
ReceiveAttributes(p, binary) ==
    /\ Received(p) /\ k.state = "R_ATTR" /\ p.t = "A" /\ NoFileChange
    /\ ack([k EXCEPT !.binary = binary], <<"Y">>)

\* decode: full buffers are written, the rest stays in the buffer.
Full(units) == SubSeq(units, 1, (Len(units) \div ObufLen) * ObufLen)
Rest(units) == Piece(units, Len(Full(units)) + 1, Len(units))

\* The first data packet opens the output file; n is how often the buffers are written.
ReceiveData(p, opens, writes, n) ==
    LET first == k.state = "R_ATTR"
        kk == IF first THEN [k EXCEPT !.obuf = <<>>, !.pos = 0] ELSE k
        units == kk.obuf \o p.d
    IN
    /\ Received(p) /\ k.state \in {"R_ATTR", "R_DATA"} /\ p.t = "D"
    /\ IF first THEN OpenFile(opens) ELSE opens /\ UNCHANGED handles
    /\ Writes(IF opens THEN Full(units) ELSE <<>>, n, writes)
    /\ Io((writes \/ ~k.binary) /\ (opens \/ handles = NumFiles))
    /\ disk' = IF ~opens THEN disk
               ELSE [disk EXCEPT ![k.file] = Stored(k.file, kk.pos, Full(units), n)]
    /\ IF opens /\ writes
       THEN ack([kk EXCEPT !.state = "R_DATA", !.pos = @ + Len(Times(Full(units), n)),
                           !.obuf = Rest(units)], <<>>)
       ELSE spkt([Failed(IF writes \/ k.binary THEN "io" ELSE "text")
                      EXCEPT !.state = IF opens THEN "R_DATA" ELSE @],
                 Packet("E", 0, <<>>))

\* An empty file is opened, closed and acknowledged; then the command fails.
ReceiveEmpty(p, opens) ==
    /\ Received(p) /\ k.state = "R_ATTR" /\ p.t = "Z"
    /\ opens => handles < NumFiles
    /\ Io(opens \/ handles = NumFiles) /\ UNCHANGED altered
    /\ IF opens
       THEN /\ disk' = [disk EXCEPT ![k.file] = AfterClose(Content(k.file), p.d)]
            /\ ack([k EXCEPT !.state = "R_FILE", !.status = "failed", !.why = "empty"], <<>>)
       ELSE UNCHANGED disk /\ epkt("io")
    /\ UNCHANGED handles

\* Faulty variant: what is left in the buffer is forgotten.
F_Flushed(f, pos, obuf, n) == Content(f)

\* The rest of the buffer is written.
Flushed(f, pos, obuf, n) == Stored(f, pos, obuf, n)

\* The end of a file; whether the rest of it could be written does not matter.
ReceiveEof(p, writes, n, closes) ==
    /\ Received(p) /\ k.state = "R_DATA" /\ p.t = "Z"
    /\ Writes(k.obuf, n, writes)
    /\ Io((writes \/ ~k.binary) /\ closes)
    /\ disk' = [disk EXCEPT ![k.file] =
            AfterClose(Flushed(k.file, k.pos, k.obuf, n), IF closes THEN p.d ELSE <<>>)]
    /\ handles' = handles - 1
    /\ IF closes THEN ack([k EXCEPT !.state = "R_FILE", !.obuf = <<>>,
                                    !.pos = @ + Len(k.obuf)], <<>>)
                 ELSE epkt("io")

-----------------------------------------------------------------------------
(* The other Kermit                                                        *)

PeerReads(p) ==
    /\ PeerRunning /\ toPeer # <<>> /\ p = Head(toPeer) /\ toPeer' = Tail(toPeer)
    /\ UNCHANGED <<device, faults, sessions, ghosts>>

PeerSays(pp, p) == peer' = pp /\ toDev' = Append(toDev, p)

\* As the sender: an acknowledgement, or a NAK for the next packet, is progress.
IsProgress(p) ==
    \/ p.t = "Y" /\ p.seq = peer.says.seq
    \/ p.t = "N" /\ peer.says.t # "B" /\ p.seq = NextSeq(peer.says.seq)

PeerNext(p) ==
    /\ PeerReads(p) /\ peer.role = "send" /\ IsProgress(p)
    /\ IF peer.says.t # "B" THEN PeerSays(Following, Following.says)
                            ELSE peer' = [peer EXCEPT !.status = "done"] /\ UNCHANGED toDev

PeerAgain(p) ==
    /\ PeerReads(p) /\ peer.role = "send" /\ p.t = "N" /\ p.seq = peer.says.seq
    /\ PeerSays(peer, peer.says)

\* As the receiver: peer.i is the number of the packet that is wanted.  The user may
\* cancel the file or all of them; that goes with the answer to a data packet.
PeerTakes(p) ==
    LET cancels == p.t = "D" /\ peer.cancel # <<>>
        reply == Packet("Y", p.seq, IF p.t = "S" /\ peer.attrs THEN <<"A">>
                                    ELSE IF cancels THEN peer.cancel ELSE <<>>)
        file == IF p.t = "F" THEN p.d[1] ELSE peer.file
        taken == IF p.t = "D" THEN [peer.got EXCEPT ![file] = @ \o p.d] ELSE peer.got
        gone == IF ~cancels THEN {}
                ELSE IF peer.cancel = X THEN {file} ELSE file .. Len(Length)
    IN
    /\ PeerReads(p) /\ peer.role = "recv" /\ p.t # "E" /\ p.seq = peer.i
    /\ PeerSays([peer EXCEPT
           !.status = IF p.t = "B" THEN "done" ELSE @,
           !.i = NextSeq(@), !.waits = 0, !.last = <<reply>>, !.file = file, !.got = taken,
           !.cancel = IF cancels THEN <<>> ELSE @, !.cancelled = @ \cup gone],
         reply)

PeerRepeats(p) ==
    /\ PeerReads(p) /\ peer.role = "recv" /\ p.t # "E" /\ p.seq # peer.i
    /\ IF NextSeq(p.seq) = peer.i THEN peer' = peer /\ toDev' = toDev \o peer.last
                                  ELSE PeerSays(peer, Packet("N", peer.i, <<>>))

\* The device has given up, or an answer comes late.
PeerStops(p) ==
    /\ PeerReads(p) /\ p.t = "E" /\ UNCHANGED toDev
    /\ peer' = [peer EXCEPT !.status = "failed"]

PeerIgnores(p) ==
    /\ PeerReads(p) /\ peer.role = "send" /\ p.t \in {"Y", "N"}
    /\ p.seq # peer.says.seq /\ ~IsProgress(p)
    /\ UNCHANGED <<peer, toDev>>

InFlight == Len(toDev) + Len(toPeer)
Reminder == IF peer.role = "send" THEN peer.says ELSE Packet("N", peer.i, <<>>)

\* A time-out: the packet is sent again, or the NAK.
PeerRepeatsItself ==
    /\ PeerRunning
    /\ IF peer.waits < PeerLimit
       THEN PeerSays([peer EXCEPT !.waits = @ + 1], Reminder)
       ELSE PeerSays([peer EXCEPT !.status = "gaveup"], Packet("E", 0, <<>>))
    /\ UNCHANGED <<device, toPeer, sessions, ghosts>>

\* Nothing is under way, or only a packet that the device is still reading.
Silence ==
    toPeer = <<>> /\ (toDev = <<>> \/ (Running /\ Len(toDev) = 1 /\ Head(toDev).t = "length"))

PeerTimeout == Silence /\ PeerRepeatsItself /\ UNCHANGED faults

\* The user of the other Kermit aborts.
PeerAborts ==
    /\ PeerRunning /\ InFlight < Cap /\ Uses
    /\ PeerSays([peer EXCEPT !.status = "aborted"], Packet("E", 0, <<>>))
    /\ UNCHANGED <<device, toPeer, sessions, ghosts>>

\* Nobody reads at an end that has stopped.
NobodyReads ==
    \/ ~Running /\ toDev # <<>> /\ toDev' = <<>> /\ UNCHANGED toPeer
    \/ ~PeerRunning /\ toPeer # <<>> /\ toPeer' = <<>> /\ UNCHANGED toDev

Discard == NobodyReads /\ UNCHANGED <<device, peer, faults, sessions, ghosts>>

-----------------------------------------------------------------------------
(* The line                                                                *)

Fault == Uses /\ UNCHANGED <<device, sessions>>

Lose ==
    /\ Fault
    /\ \/ toDev # <<>> /\ toDev' = Tail(toDev) /\ UNCHANGED toPeer
       \/ toPeer # <<>> /\ toPeer' = Tail(toPeer) /\ UNCHANGED toDev
    /\ UNCHANGED <<peer, ghosts>>

Damage(kind) ==
    /\ Fault /\ toDev # <<>> /\ Head(toDev).t \notin Damages
    /\ toDev' = <<[Head(toDev) EXCEPT !.t = kind]>> \o Tail(toDev)
    /\ UNCHANGED <<peer, toPeer, ghosts>>

\* The device hears what it has sent.
Loopback ==
    /\ Fault /\ InFlight < Cap /\ toPeer # <<>>
    /\ toDev' = Append(toDev, Last(toPeer))
    /\ UNCHANGED <<peer, toPeer, ghosts>>

\* A time-out that comes too early.
EarlyTimeout ==
    /\ Uses /\ InFlight \in 1 .. Cap - 1 /\ peer.waits < PeerLimit
    /\ PeerRepeatsItself

-----------------------------------------------------------------------------

DeviceReads(p) ==
    \/ BadPacket(p) \/ Echo(p) \/ ErrorPacket(p) \/ PreviousPacket(p) \/ OtherPacket(p)
    \/ NotAcked(p) \/ SendCancelled(p) \/ SendAttributes(p)
    \/ \E own \in BOOLEAN : SendNextData(p, own)
    \/ \E ok \in BOOLEAN : SendNextFile(p, ok)
    \/ SendDone(p)
    \/ Unexpected(p) \/ ReceiveInit(p) \/ ReceiveName(p) \/ ReceiveBreak(p)
    \/ \E binary \in BOOLEAN : ReceiveAttributes(p, binary)
    \/ \E opens, writes \in BOOLEAN, n \in 0 .. 2 : ReceiveData(p, opens, writes, n)
    \/ \E opens \in BOOLEAN : ReceiveEmpty(p, opens)
    \/ \E writes, closes \in BOOLEAN, n \in 0 .. 2 : ReceiveEof(p, writes, n, closes)

Device == NoSlot \/ (toDev # <<>> /\ DeviceReads(Head(toDev)))

PeerReadsNext(p) ==
    PeerNext(p) \/ PeerAgain(p) \/ PeerTakes(p) \/ PeerRepeats(p) \/ PeerStops(p)
    \/ PeerIgnores(p)

Peer == PeerTimeout \/ (toPeer # <<>> /\ PeerReadsNext(Head(toPeer)))

User ==
    \/ \E s \in Sendings : StartReceive(s)
    \/ \E r \in Receivings : StartSend(r)
    \/ Interrupted \/ PeerAborts

Line == Lose \/ (\E kind \in Damages : Damage(kind)) \/ Loopback \/ EarlyTimeout \/ Discard

ReadsOn == \E kind \in Damages : Swallow(kind)

Next == Device \/ ReadsOn \/ Peer \/ User \/ Line

Spec == Init /\ [][Next]_vars

\* The device reads what has arrived, the other Kermit does and times out, and the line
\* carries what it does not lose; users and faults are not fair.
FairSpec ==
    Spec /\ WF_vars(Device) /\ WF_vars(ReadsOn) /\ WF_vars(Peer) /\ WF_vars(Discard)

-----------------------------------------------------------------------------
(* Properties                                                              *)

\* Every variable keeps its type, the sequence numbers their range.
TypeOK ==
    /\ k.status \in {"idle", "run", "done", "failed"} /\ k.what \in {"recv", "send"}
    /\ k.s_seq \in 0 .. SeqNums - 1 /\ k.r_seq \in 0 .. SeqNums - 1
    /\ Len(k.opkt) <= 1 /\ Len(k.obuf) < ObufLen
    /\ slots \in [Slots -> [used : BOOLEAN, rtr : 0 .. Retry + 1]]
    /\ handles \in 0 .. NumFiles /\ keep \in BOOLEAN

\* What has been received of a file, written and in the buffer, is a prefix of it, at
\* the device and at the other Kermit: whatever is lost, damaged, swallowed, repeated or
\* sent too early, no unit is missing, doubled or swapped.  Not so once the device itself
\* has altered a file of the session: by a CR before a newline it sends, by a read that
\* failed (zephyrio.c:396 goes on with what the buffer holds), or by a text it writes as
\* often as it has stretches without CR (zephyrio.c:449 writes all of the buffer).
InOrder ==
    /\ TypeOK
    /\ Running /\ k.state = "R_DATA" /\ ~altered =>
          LET taken == Piece(Content(k.file), 1, k.pos) \o k.obuf
          IN taken = Piece(Units(k.file), 1, Len(taken))
    /\ ~altered => \A f \in Names : IsPrefix(peer.got[f], Units(f))

\* A file the device has: whole, and after its end only what an older one had there.
Whole(f) ==
    /\ disk[f] # NoFile /\ IsPrefix(Units(f), disk[f])
    /\ \A i \in Length[f] + 1 .. Len(disk[f]) : disk[f][i] = 0

\* The files of this session, and those that are given up half-way.
Sent == 1 .. peer.sending.files
GivenUp == {f \in Sent : GivesUp(f)}

\* When a receiving session is over with success, every file that was sent whole is
\* whole and one that was not is gone unless it is to be kept; when a sending session
\* is over, the other Kermit has every file it did not cancel: both unless the device has
\* altered one, which does not keep a session from success.  And neither end takes
\* a session for finished that the other has not finished, nor leaves the other one alone:
\* while the device runs so does the other Kermit, unless that gave up or was aborted, or
\* has taken the B packet, the acknowledgement of which the device waits for.
WholeAtEnd ==
    /\ k.status = "done" /\ k.what = "recv" /\ iofaults = 0 /\ ~altered =>
          /\ \A f \in Sent \ GivenUp : Whole(f)
          /\ \A f \in GivenUp : keep \/ disk[f] = NoFile
    /\ k.status = "done" /\ k.what = "send" =>
          /\ peer.status = "done"
          /\ ~altered => \A f \in Names \ peer.cancelled : peer.got[f] = Units(f)
    /\ peer.status = "done" /\ peer.role = "send" => k.status = "done"
    /\ Running => \/ PeerRunning \/ peer.status \in {"gaveup", "aborted"}
                  \/ k.state = "S_EOT" /\ peer.status = "done"

\* The device gives up for too many retries only when more packets in a row than the
\* limit were not the one it wants, and for want of a slot only when as many packets were
\* too short or files cancelled; only the first session, for K_INIT leaves the counts.
GivesUpLate ==
    /\ sessions = 1 /\ k.why = "retries" => unwanted > Retry + 1
    /\ k.why = "slots" => shorts + (IF peer.cancelled = {} THEN 0 ELSE 1) >= NSlots

FileOpen == k.state \in {"S_FILE", "S_ATTR", "S_DATA", "R_DATA"}

\* littlefs has no more files open than the one of this session and one of each failed
\* session before: a session that ends well leaves none, whatever was cancelled.
NoHandleLeak ==
    handles <= (IF FileOpen THEN 1 ELSE 0) + (IF sessions = 0 THEN 0 ELSE sessions - 1)

\* What is lost, damaged, repeated or early never keeps a session from its end: it is
\* finished, unless somebody aborts it, the file system fails, a file is empty, a text is
\* not written as expected or the limits of retries and slots are met.  The device never
\* times out: as the sender it waits for ever if the answer to its last packet is lost, and
\* reading a packet whose length was damaged it may take what the other Kermit sends for a
\* part of it until that gives up, and its last word, too.
Completes ==
    Running ~> \/ k.status = "done"
               \/ k.why \in {"user", "slots", "retries", "empty", "text"}
               \/ iofaults > 0 \/ handles = NumFiles \/ peer.status = "aborted"
               \/ swallowed /\ peer.status = "gaveup"
               \/ peer.role = "send" /\ peer.sending.first = "I"
               \/ k.state = "S_EOT" /\ peer.status = "done"

=============================================================================
