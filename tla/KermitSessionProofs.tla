------------------------ MODULE KermitSessionProofs ------------------------
(***************************************************************************)
(* Proofs about file transfer with the Kermit protocol (KermitSession),    *)
(* for files of any number and length, packets and buffers of any size,    *)
(* any sequence numbers, slots, limits and faults of the line.             *)
(*                                                                         *)
(* The inductive invariant has these parts.  Types is the range of every   *)
(* variable, with what a state needs to be in it.  Lines relates the two   *)
(* ends and the packets between them: only the packet that is wanted and   *)
(* the one before it are on their way, and the answers to them.  StateSays *)
(* gives the type of the packet sent last, PeerState where the other       *)
(* Kermit is, SendEnds what the device knows of it when it has said that   *)
(* all is sent.  Faithful holds of a session as long as the device has not *)
(* altered a file of it: SendFiles and RecvState are where the device is   *)
(* compared with the other Kermit, GotWell, DataFits and Copies what       *)
(* either end has of the files, FilesDone which of them are complete.      *)
(* Counts and SlotsLost follow the retry counts and the slots, Leaks the   *)
(* open files.  NoWord says that a device that runs has not told the other *)
(* Kermit to stop.                                                         *)
(***************************************************************************)
EXTENDS KermitSession, FiniteSetTheorems, SequenceTheorems, TLAPS

RecvStates == {"R_WAIT", "R_FILE", "R_ATTR", "R_DATA"}
SendStates == {"S_INIT", "S_FILE", "S_ATTR", "S_DATA", "S_EOF", "S_EOT"}

Numbers == 0 .. SeqNums - 1

\* The packets that carry a transfer on and those that answer them.
Says == {"S", "I", "F", "A", "D", "Z", "B"}
Answers == {"Y", "N"}

\* The letters that packets carry.
Letters == {"X", "Z", "D", "A", "Y"}

Packets ==
    {p \in [t : Says \cup Answers \cup Damages \cup {"E"}, seq : Numbers,
            d : Seq(Nat) \cup Seq(Letters)] :
        (p.t = "D" => p.d \in Seq(Nat)) /\ (p.t = "F" => \E f \in Names : p.d = <<f>>)}

Protocols ==
    [status : {"idle", "run", "done", "failed"},
     why : {"none", "slots", "user", "retries", "peer", "unexpected", "io", "empty", "text"},
     what : {"recv", "send"}, state : {"none"} \cup RecvStates \cup SendStates,
     s_seq : Numbers, r_seq : Numbers, opkt : Seq(Packets), file : 0 .. Len(Length),
     pos : Nat, obuf : Seq(Nat), attrs : BOOLEAN, binary : BOOLEAN]

Peers ==
    [status : {"run", "done", "failed", "gaveup", "aborted"},
     role : {"none", "send", "recv"},
     sending : [first : {"S", "I"}, files : 0 .. Len(Length), attrs : BOOLEAN,
                whole : BOOLEAN, binary : BOOLEAN, keep : BOOLEAN],
     says : Packets, pos : Nat, i : Numbers, waits : Nat, last : Seq(Packets),
     got : [Names -> Seq(Nat)], cancel : {<<>>, X, Z}, cancelled : SUBSET Nat,
     file : 0 .. Len(Length), attrs : BOOLEAN]

SlotTables == [Slots -> [used : BOOLEAN, rtr : 0 .. Retry + 1]]

\* The device's side of the states a session goes through.
DeviceTypes ==
    /\ k \in Protocols /\ Len(k.opkt) <= 1 /\ Len(k.obuf) < ObufLen
    /\ slots \in SlotTables
    /\ disk \in [Names -> {NoFile} \cup Seq(Nat)]
    /\ handles \in 0 .. NumFiles /\ keep \in BOOLEAN
    /\ iofaults \in Nat /\ unwanted \in Nat /\ altered \in BOOLEAN
    /\ Running => k.state \in (IF k.what = "recv" THEN RecvStates ELSE SendStates)
    /\ k.state \in {"R_ATTR", "R_DATA", "S_FILE", "S_ATTR", "S_DATA"} => k.file \in Names
    /\ Running /\ k.what = "send" => k.opkt # <<>>
    /\ Running /\ FileOpen => handles > 0

PeerTypes ==
    /\ peer \in Peers /\ Len(peer.last) <= 1
    /\ peer.role = "send" =>
          peer.sending.files \in Names /\ (peer.says.t \in {"S", "I"} \/ peer.file \in Names)
    /\ peer.role = "send" => peer.says.t \in Says
    /\ k.status = "idle" <=> peer.role = "none"
    /\ k.what = "send" <=> peer.role = "recv"

LineTypes ==
    /\ toDev \in Seq(Packets) /\ toPeer \in Seq(Packets)
    /\ faults \in Nat /\ sessions \in Nat /\ shorts \in Nat
    /\ sessions = 0 <=> k.status = "idle"

Types == DeviceTypes /\ PeerTypes /\ LineTypes

-----------------------------------------------------------------------------
(* Operators                                                               *)

\* The numbers of packets go round.
LEMMA Numbering ==
    /\ \A n \in Numbers :
          /\ NextSeq(n) \in Numbers /\ NextSeq(n) = IF n = SeqNums - 1 THEN 0 ELSE n + 1
          /\ n % SeqNums = n /\ n \in Nat
    /\ 0 \in Numbers
    /\ k.r_seq \in Numbers =>
          PrevSeq \in Numbers /\ PrevSeq = IF k.r_seq = 0 THEN SeqNums - 1 ELSE k.r_seq - 1
  <1>1. SeqNums \in Nat /\ SeqNums > 2
    BY ConstAssumption
  <1>2. ASSUME NEW n \in Numbers
        PROVE  /\ NextSeq(n) \in Numbers
               /\ NextSeq(n) = IF n = SeqNums - 1 THEN 0 ELSE n + 1
               /\ n % SeqNums = n /\ n \in Nat
    BY <1>1, <1>2, Z3 DEF NextSeq, Numbers
  <1>3. ASSUME NEW n \in Numbers
        PROVE  (n + SeqNums - 1) % SeqNums = IF n = 0 THEN SeqNums - 1 ELSE n - 1
    BY <1>1, <1>3, Z3 DEF Numbers
  <1>4. k.r_seq \in Numbers => PrevSeq = IF k.r_seq = 0 THEN SeqNums - 1 ELSE k.r_seq - 1
    BY <1>3 DEF PrevSeq
  <1> QED
    BY <1>1, <1>2, <1>4 DEF Numbers

\* No two numbers have the same next one, and going on once or twice is no way round.
LEMMA NextNumber ==
    ASSUME NEW m \in Numbers, NEW n \in Numbers
    PROVE  /\ NextSeq(m) = NextSeq(n) => m = n
           /\ NextSeq(n) # n /\ NextSeq(NextSeq(n)) # n
  <1>1. SeqNums \in Nat /\ SeqNums > 2
    BY ConstAssumption
  <1>2. /\ NextSeq(m) = IF m = SeqNums - 1 THEN 0 ELSE m + 1
        /\ NextSeq(n) = IF n = SeqNums - 1 THEN 0 ELSE n + 1
        /\ NextSeq(NextSeq(n)) = IF NextSeq(n) = SeqNums - 1 THEN 0 ELSE NextSeq(n) + 1
    BY Numbering
  <1> QED
    BY <1>1, <1>2 DEF Numbers

\* A packet is put together from its parts.
LEMMA PacketParts ==
    ASSUME NEW t, NEW n \in Numbers, NEW d
    PROVE  Packet(t, n, d) = [t |-> t, seq |-> n, d |-> d]
  BY Numbering DEF Packet

\* A packet put together is one of Packets and has the parts it was given.
LEMMA PacketIs ==
    ASSUME NEW t \in Says \cup Answers \cup Damages \cup {"E"}, NEW n \in Numbers,
           NEW d \in Seq(Nat) \cup Seq(Letters),
           t = "D" => d \in Seq(Nat), t = "F" => \E f \in Names : d = <<f>>
    PROVE  /\ Packet(t, n, d) \in Packets
           /\ Packet(t, n, d).t = t /\ Packet(t, n, d).seq = n /\ Packet(t, n, d).d = d
  <1>1. Packet(t, n, d) = [t |-> t, seq |-> n, d |-> d]
    BY PacketParts
  <1>2. [t |-> t, seq |-> n, d |-> d] \in Packets
    BY DEF Packets
  <1> QED
    BY <1>1, <1>2

\* Files are numbered from 1, and each has a length.
LEMMA FileLengths ==
    /\ Len(Length) \in Nat /\ \A f \in Names : f \in Nat \ {0} /\ Length[f] \in Nat
    /\ 0 .. Len(Length) = Names \cup {0}
  <1>1. PICK n \in Nat : n = Len(Length) /\ Names = 1 .. n
    BY ConstAssumption DEF Names
  <1>2. \A f \in Names : f \in Nat \ {0} /\ Length[f] \in Nat
    BY <1>1, ConstAssumption
  <1>3. 0 .. n = (1 .. n) \cup {0}
    BY <1>1
  <1> QED
    BY <1>1, <1>2, <1>3, Zenon

\* The units of a file are numbered.
LEMMA UnitsAre ==
    ASSUME NEW f \in Names
    PROVE  /\ Units(f) \in Seq(Nat) /\ Len(Units(f)) = Length[f]
           /\ \A i \in 1 .. Length[f] : Units(f)[i] = i
  <1>1. PICK n \in Nat : n = Length[f]
    BY FileLengths
  <1>2. Units(f) = [i \in 1 .. n |-> i]
    BY <1>1, Zenon DEF Units
  <1>3. [i \in 1 .. n |-> i] \in Seq(Nat) /\ Len([i \in 1 .. n |-> i]) = n
    BY <1>1
  <1> QED
    BY <1>1, <1>2, <1>3, Zenon

\* The units that follow the first pos ones of a file.
LEMMA NextPiece ==
    ASSUME NEW f \in Names, NEW pos \in Nat
    PROVE  LET s == Piece(Units(f), pos + 1, pos + PktUnits) IN
           /\ s \in Seq(Nat)
           /\ s = <<>> <=> pos >= Length[f]
           /\ pos <= Length[f] => pos + Len(s) <= Length[f]
           /\ \A i \in 1 .. Len(s) : s[i] = pos + i
  <1>1. PktUnits \in Nat \ {0} /\ Length[f] \in Nat
    BY ConstAssumption, FileLengths
  <1>2. PICK u : /\ u \in Seq(Nat) /\ Len(u) = Length[f] /\ u = Units(f)
                 /\ \A i \in 1 .. Length[f] : u[i] = i
    BY UnitsAre, Zenon
  <1>3. PICK a \in Nat \ {0}, b \in Nat : a = pos + 1 /\ b = pos + PktUnits
    BY <1>1
  <1>4. PICK e \in Nat : e = IF b > Len(u) THEN Len(u) ELSE b
    BY <1>2
  <1>5. /\ Piece(u, a, b) \in Seq(Nat)
        /\ Len(Piece(u, a, b)) = IF a <= e THEN e - a + 1 ELSE 0
        /\ \A i \in 1 .. Len(Piece(u, a, b)) : Piece(u, a, b)[i] = u[a + i - 1]
    <2>1. u \in Seq(Nat)
      BY <1>2
    <2>2. a \in Nat \ {0} /\ b \in Nat
      BY <1>3
    <2>3. e \in Nat /\ e = IF b > Len(u) THEN Len(u) ELSE b
      BY <1>4
    <2> QED
      BY <2>1, <2>2, <2>3 DEF Piece
  <1> DEFINE s == Piece(u, a, b)
  <1>6. /\ s = Piece(u, a, b) /\ s \in Seq(Nat)
        /\ Len(s) = IF a <= e THEN e - a + 1 ELSE 0
        /\ \A i \in 1 .. Len(s) : s[i] = u[a + i - 1]
    BY <1>5, Zenon
  <1> HIDE DEF s
  <1>7. ASSUME NEW i \in 1 .. Len(s) PROVE s[i] = pos + i
    <2>1. a + i - 1 \in 1 .. Length[f] /\ a + i - 1 = pos + i
      <3>1. PICK l \in Nat, m \in Nat : l = Length[f] /\ m = Len(s)
        <4>1. Length[f] \in Nat /\ Len(s) \in Nat
          BY <1>1, <1>6
        <4> QED
          BY <4>1, Zenon
      <3>2. m = IF a <= e THEN e - a + 1 ELSE 0
        BY <1>6, <3>1
      <3>3. i \in 1 .. m /\ e <= l
        BY <1>2, <1>4, <1>7, <3>1
      <3>4. a + i - 1 \in 1 .. l /\ a + i - 1 = pos + i
        BY <1>3, <3>2, <3>3
      <3> QED
        BY <3>1, <3>4
    <2> QED
      BY <1>2, <1>6, <2>1
  <1>8. s = <<>> <=> Len(s) = 0
    BY <1>6
  <1>9. /\ s \in Seq(Nat)
        /\ s = <<>> <=> pos >= Length[f]
        /\ pos <= Length[f] => pos + Len(s) <= Length[f]
        /\ \A i \in 1 .. Len(s) : s[i] = pos + i
    <2>1. PICK l \in Nat, m \in Nat : l = Length[f] /\ m = Len(s)
      <3>1. Length[f] \in Nat /\ Len(s) \in Nat
        BY <1>1, <1>6
      <3> QED
        BY <3>1, Zenon
    <2>2. m = IF a <= e THEN e - a + 1 ELSE 0
      BY <1>6, <2>1, Zenon
    <2>3. e = IF b > l THEN l ELSE b
      BY <1>2, <1>4, <2>1, Zenon
    <2>4. PktUnits \in Nat /\ PktUnits > 0
      BY ConstAssumption
    <2>5. (m = 0 <=> pos >= l) /\ (pos <= l => pos + m <= l)
      BY <1>3, <2>2, <2>3, <2>4
    <2> QED
      BY <1>6, <1>7, <1>8, <2>1, <2>5, Zenon
  <1> QED
    BY <1>2, <1>3, <1>6, <1>9

\* And one unit fewer of them.
LEMMA FewerIs ==
    ASSUME k.file \in Names, k.pos \in Nat
    PROVE  FewerUnits(k) \in Seq(Nat)
  <1>1. PICK u \in Seq(Nat) : u = Units(k.file)
    BY UnitsAre
  <1>7. PktUnits \in Nat \ {0}
    BY ConstAssumption
  <1>2. PICK a \in Nat \ {0}, b \in Nat : a = k.pos + 1 /\ b = k.pos + PktUnits - 1
    BY <1>7
  <1>3. PICK e \in Nat : e = IF b > Len(u) THEN Len(u) ELSE b
    OBVIOUS
  <1>4. e <= Len(u)
    BY <1>3
  <1>5. SubSeq(u, a, e) \in Seq(Nat)
    BY <1>1, <1>2, <1>4
  <1>6. FewerUnits(k) = SubSeq(u, a, e)
    BY <1>1, <1>2, <1>3 DEF FewerUnits, Piece
  <1> QED
    BY <1>5, <1>6

\* The free slot with the least number.
LEMMA SlotIsFree ==
    ASSUME slots \in SlotTables, FreeSlots # {}
    PROVE  slot \in FreeSlots /\ slot \in Slots
  <1>1. FreeSlots \in SUBSET Nat /\ FreeSlots \subseteq Slots
    BY ConstAssumption DEF FreeSlots, Slots
  <1>2. \E i \in FreeSlots : \A j \in FreeSlots : i <= j
    <2> DEFINE T == {0 .. i : i \in FreeSlots}
    <2>1. T \subseteq FiniteSubsetsOf(Nat)
      <3> SUFFICES ASSUME NEW i \in FreeSlots PROVE 0 .. i \in FiniteSubsetsOf(Nat)
        OBVIOUS
      <3>1. IsFiniteSet(0 .. i)
        BY <1>1, FS_Interval
      <3>2. 0 .. i \subseteq Nat
        BY <1>1
      <3> QED
        BY <3>1, <3>2 DEF FiniteSubsetsOf
    <2>2. T # {}
      OBVIOUS
    <2> HIDE DEF T
    <2>3. PICK x \in T : \A y \in T : <<y, x>> \notin StrictSubsetOrdering(Nat)
      BY <2>1, <2>2, WFMin, FS_StrictSubsetOrderingWellFounded
    <2>4. PICK i \in FreeSlots : x = 0 .. i
      BY <2>3 DEF T
    <2>5. ASSUME NEW j \in FreeSlots, j < i PROVE FALSE
      <3>1. 0 .. j \subseteq 0 .. i /\ i \in 0 .. i /\ i \notin 0 .. j
        BY <1>1, <2>4, <2>5
      <3>2. 0 .. j \in SUBSET Nat /\ 0 .. i \in SUBSET Nat
        BY <1>1, <2>4
      <3>3. <<0 .. j, 0 .. i>> \in StrictSubsetOrdering(Nat)
        BY <3>1, <3>2, Zenon DEF StrictSubsetOrdering
      <3> QED
        BY <2>3, <2>4, <3>3 DEF T
    <2> QED
      BY <1>1, <2>4, <2>5
  <1>3. slot \in FreeSlots
    BY <1>2 DEF slot
  <1> QED
    BY <1>1, <1>3

\* Packets are read from the front of the line and added at its end.
LEMMA LineOps ==
    ASSUME NEW s \in Seq(Packets)
    PROVE  /\ s # <<>> => /\ Head(s) \in Packets /\ Tail(s) \in Seq(Packets)
                          /\ Head(s) = s[1] /\ Len(Tail(s)) = Len(s) - 1 /\ Len(s) \in Nat \ {0}
                          /\ \A i \in 1 .. Len(s) - 1 : Tail(s)[i] = s[i + 1]
           /\ \A p \in Packets :
                 /\ Append(s, p) \in Seq(Packets) /\ Len(Append(s, p)) = Len(s) + 1
                 /\ \A i \in 1 .. Len(s) : Append(s, p)[i] = s[i]
                 /\ Append(s, p)[Len(s) + 1] = p
  OBVIOUS

\* The protocol's state is kk but for p, which is kept and put on the line.
Puts(kk, p) ==
    /\ k' \in Protocols /\ k'.opkt = <<p>> /\ k'.s_seq = p.seq /\ Len(k'.opkt) = 1
    /\ k'.status = kk.status /\ k'.why = kk.why /\ k'.what = kk.what
    /\ k'.state = kk.state /\ k'.r_seq = kk.r_seq /\ k'.file = kk.file
    /\ k'.pos = kk.pos /\ k'.obuf = kk.obuf /\ k'.attrs = kk.attrs
    /\ k'.binary = kk.binary
    /\ toPeer' = Append(toPeer, p) /\ toPeer' \in Seq(Packets)

\* spkt puts a packet on the line and keeps it as the one sent last.
LEMMA Spkt ==
    ASSUME toPeer \in Seq(Packets), NEW kk \in Protocols, NEW p \in Packets, spkt(kk, p)
    PROVE  Puts(kk, p)
  <1>1. p.seq \in Numbers
    BY DEF Packets
  <1>2. k' = [kk EXCEPT !.s_seq = p.seq, !.opkt = <<p>>] /\ toPeer' = Append(toPeer, p)
    BY DEF spkt
  <1>3. <<p>> \in Seq(Packets) /\ Len(<<p>>) = 1
    OBVIOUS
  <1> QED
    BY <1>1, <1>2, <1>3, LineOps DEF Protocols, Puts

\* The slots after a packet.
LEMMA SlotTypes ==
    ASSUME slots \in SlotTables
    PROVE  /\ Counted \in SlotTables /\ Fresh \in SlotTables /\ InitSlots \in SlotTables
           /\ [Fresh EXCEPT ![slot].used = TRUE] \in SlotTables
           /\ \A u, b \in BOOLEAN :
                 [slots EXCEPT ![slot] = [used |-> u, rtr |-> IF b THEN Bump(@.rtr) ELSE @.rtr]]
                     \in SlotTables
  <1>1. Retry \in Nat
    BY ConstAssumption
  <1>2. \A n \in 0 .. Retry + 1 : Bump(n) \in 0 .. Retry + 1
    BY <1>1 DEF Bump
  <1>3. Counted \in SlotTables
    BY <1>2 DEF Counted, SlotTables
  <1>4. Fresh \in SlotTables /\ InitSlots \in SlotTables
    <2>1. [used |-> FALSE, rtr |-> 0] \in [used : BOOLEAN, rtr : 0 .. Retry + 1]
      BY <1>1
    <2>2. \A s \in Slots :
             [slots[s] EXCEPT !.used = FALSE] \in [used : BOOLEAN, rtr : 0 .. Retry + 1]
      BY DEF SlotTables
    <2>3. Fresh \in SlotTables
      BY <2>1 DEF Fresh, SlotTables
    <2>4. InitSlots \in SlotTables
      BY <2>2 DEF InitSlots, SlotTables
    <2> QED
      BY <2>3, <2>4
  <1>5. [Fresh EXCEPT ![slot].used = TRUE] \in SlotTables
    BY <1>4 DEF SlotTables
  <1>6. ASSUME NEW u \in BOOLEAN, NEW b \in BOOLEAN
        PROVE  [slots EXCEPT ![slot] = [used |-> u, rtr |-> IF b THEN Bump(@.rtr) ELSE @.rtr]]
                   \in SlotTables
    BY <1>2 DEF SlotTables
  <1> QED
    BY <1>3, <1>4, <1>5, <1>6

\* What reading the next packet leaves as it is, whatever the packet is.
LEMMA ReadTypes ==
    ASSUME Types, NEW p, Reads(p)
    PROVE  /\ p \in Packets /\ toDev \in Seq(Packets) /\ toDev # <<>> /\ p = Head(toDev)
           /\ toDev' = Tail(toDev) /\ toDev' \in Seq(Packets)
           /\ unwanted' \in Nat /\ shorts' \in Nat /\ Running /\ k.status = "run"
           /\ slot \in FreeSlots /\ slot \in Slots
           /\ UNCHANGED <<peer, keep, faults, sessions, swallowed>>
  <1>1. toDev \in Seq(Packets) /\ toDev # <<>> /\ p = Head(toDev) /\ toDev' = Tail(toDev)
    BY DEF Types, LineTypes, Reads
  <1>2. p \in Packets /\ toDev' \in Seq(Packets)
    BY <1>1, LineOps
  <1>3. unwanted' \in Nat /\ shorts' \in Nat
    BY ConstAssumption DEF Types, LineTypes, DeviceTypes, Reads
  <1>4. slot \in FreeSlots /\ slot \in Slots
    BY SlotIsFree DEF Types, DeviceTypes, Reads
  <1> QED
    BY <1>1, <1>2, <1>3, <1>4 DEF Reads, Running

\* Texts and numbers of packets.
LEMMA Texts ==
    /\ {<<>>, X, Z, D, <<"A">>, <<"Y">>} \subseteq Seq(Nat) \cup Seq(Letters)
    /\ X # <<>> /\ Z # <<>> /\ D # <<>> /\ X # Z
  <1>1. <<>> \in Seq(Nat)
    OBVIOUS
  <1>2. X \in Seq(Letters) /\ Z \in Seq(Letters) /\ D \in Seq(Letters)
        /\ <<"A">> \in Seq(Letters) /\ <<"Y">> \in Seq(Letters)
    BY DEF X, Z, D, Letters
  <1>3. X # <<>> /\ Z # <<>> /\ D # <<>>
    BY DEF X, Z, D
  <1>4. X # Z
    BY DEF X, Z
  <1> QED
    BY <1>1, <1>2, <1>3, <1>4

\* The device does not go on: it is silent, sends the last packet again, asks for the
\* one it wants, or fails.
Stays ==
    /\ k' \in Protocols /\ k'.what = k.what /\ k'.state = k.state /\ k'.r_seq = k.r_seq
    /\ k'.file = k.file /\ k'.pos = k.pos /\ k'.obuf = k.obuf
    /\ toPeer' \in Seq(Packets)
    /\ \/ k' = k /\ (toPeer' = toPeer \/ toPeer' = toPeer \o k.opkt)
       \/ /\ \/ k'.status = "run" /\ k'.why = k.why
             \/ k'.status = "failed" /\ k'.why = "retries"
          /\ k.what = "recv"
          /\ \E q \in Packets : q.t = "N" /\ q.seq = k.r_seq /\ k'.opkt = <<q>>
                                /\ toPeer' = Append(toPeer, q)
       \/ k'.status = "failed" /\ k'.why = "peer" /\ k'.opkt = k.opkt /\ toPeer' = toPeer
       \/ /\ k'.status = "failed" /\ k'.why = "retries"
          /\ \E q \in Packets : q.t = "E" /\ k'.opkt = <<q>> /\ toPeer' = Append(toPeer, q)

\* The packets that do not take the device on.
Ignored(p) ==
    \/ BadPacket(p) \/ Echo(p) \/ ErrorPacket(p) \/ PreviousPacket(p) \/ OtherPacket(p)
    \/ NotAcked(p)

\* What it does when such a packet arrives.
LEMMA AnswerSteps ==
    ASSUME Types, NEW p, Reads(p), Ignored(p)
    PROVE  Stays /\ NoFileChange
  <1> USE DEF Types
  <1>1. /\ k \in Protocols /\ k.s_seq \in Numbers /\ k.r_seq \in Numbers
        /\ k.opkt \in Seq(Packets) /\ toPeer \in Seq(Packets) /\ k.status = "run"
    BY ReadTypes DEF DeviceTypes, Protocols, LineTypes
  <1>2. NoFileChange
    BY DEF Ignored, BadPacket, Echo, ErrorPacket, PreviousPacket, OtherPacket, NotAcked
  <1>3. \/ k' = k /\ toPeer' \in {toPeer, toPeer \o k.opkt}
        \/ k' = Failed("peer") /\ toPeer' = toPeer
        \/ \E looked \in BOOLEAN : nak(looked) /\ k.what = "recv"
        \/ epkt("retries")
    BY DEF Ignored, BadPacket, Echo, ErrorPacket, PreviousPacket, OtherPacket, NotAcked, resend
  <1>4. \A why \in {"peer", "retries"} :
            /\ Failed(why) \in Protocols /\ Failed(why).status = "failed"
            /\ Failed(why).opkt = k.opkt /\ Failed(why).obuf = k.obuf
            /\ Failed(why).what = k.what /\ Failed(why).file = k.file
            /\ Failed(why).state = k.state /\ Failed(why).why = why
            /\ Failed(why).r_seq = k.r_seq /\ Failed(why).pos = k.pos
    BY <1>1 DEF Failed, Protocols
  <1>5. /\ Packet("N", k.r_seq, <<>>) \in Packets
        /\ Packet("E", 0, <<>>) \in Packets
    BY <1>1, PacketIs, Numbering, Texts DEF Answers
  <1>6. CASE k' = k /\ toPeer' \in {toPeer, toPeer \o k.opkt}
    <2>1. toPeer' \in Seq(Packets)
      BY <1>1, <1>6, ConcatProperties
    <2> QED
      BY <1>1, <1>2, <1>6, <2>1 DEF Stays
  <1>7. CASE k' = Failed("peer") /\ toPeer' = toPeer
    BY <1>1, <1>2, <1>4, <1>7 DEF Stays
  <1>8. CASE \E looked \in BOOLEAN : nak(looked) /\ k.what = "recv"
    <2> DEFINE q == Packet("N", k.r_seq, <<>>)
    <2>1. PICK kk \in {k, Failed("retries")} : spkt(kk, q)
      BY <1>8 DEF nak
    <2>2. /\ kk \in Protocols /\ kk.obuf = k.obuf /\ kk.r_seq = k.r_seq /\ kk.pos = k.pos
          /\ kk.what = k.what /\ kk.file = k.file /\ kk.state = k.state
          /\ \/ kk.status = "run" /\ kk.why = k.why
             \/ kk.status = "failed" /\ kk.why = "retries"
      BY <1>1, <1>4, <2>1
    <2>3. q.t = "N" /\ q.seq = k.r_seq /\ q \in Packets
      BY <1>1, <1>5, PacketParts
    <2> HIDE DEF q
    <2>4. Puts(kk, q)
      BY <1>1, <2>1, <2>2, <2>3, Spkt
    <2> QED
      BY <1>2, <1>8, <2>2, <2>3, <2>4 DEF Puts, Stays
  <1>9. CASE epkt("retries")
    <2> DEFINE q == Packet("E", 0, <<>>)
    <2>1. spkt(Failed("retries"), q)
      BY <1>9 DEF epkt
    <2>2. q.t = "E" /\ q \in Packets
      BY <1>5, PacketParts, Numbering
    <2> HIDE DEF q
    <2>3. Puts(Failed("retries"), q)
      BY <1>1, <1>4, <2>1, <2>2, Spkt
    <2> QED
      BY <1>2, <1>4, <2>2, <2>3 DEF Puts, Stays
  <1> QED
    BY <1>3, <1>6, <1>7, <1>8, <1>9

\* A packet that does not take the device on leaves its variables in their ranges.
LEMMA AnswerTypes ==
    ASSUME Types, NEW p, Reads(p), Stays, NoFileChange, Ignored(p)
    PROVE  DeviceTypes' /\ toPeer' \in Seq(Packets) /\ k'.what = k.what /\ k'.status # "idle"
  <1> USE DEF Types
  <1>1. k.status = "run" /\ (k.what = "send" => k.opkt # <<>>) /\ Len(k.opkt) <= 1
    BY ReadTypes DEF DeviceTypes, Running
  <1>2. slots' \in SlotTables
    <2>1. slots' \in {slots, Counted, Fresh}
             \/ \E u, b \in BOOLEAN :
                 slots' = [slots EXCEPT ![slot] =
                              [used |-> u, rtr |-> IF b THEN Bump(@.rtr) ELSE @.rtr]]
      <3>1. CASE BadPacket(p)
        <4>1. (p.t = "short") \in BOOLEAN /\ (k.what = "recv") \in BOOLEAN
          OBVIOUS
        <4> QED
          BY <3>1, <4>1 DEF BadPacket
      <3> QED
        BY <3>1 DEF Ignored, Echo, ErrorPacket, PreviousPacket, OtherPacket, NotAcked
    <2> QED
      BY <2>1, SlotTypes DEF DeviceTypes
  <1>3. /\ Len(k'.opkt) <= 1 /\ k'.status \in {"run", "failed"}
        /\ k.what = "send" /\ k'.status = "run" => k'.opkt # <<>>
    <2>1. \A q : Len(<<q>>) <= 1 /\ <<q>> # <<>>
      OBVIOUS
    <2>2. k'.opkt = k.opkt \/ \E q : k'.opkt = <<q>>
      BY DEF Stays
    <2>3. k'.status \in {"run", "failed"}
      BY <1>1 DEF Stays
    <2>4. Len(k'.opkt) <= 1
      BY <1>1, <2>1, <2>2, Zenon
    <2>5. k.what = "send" => k'.opkt # <<>>
      BY <1>1, <2>1, <2>2, Zenon
    <2> QED
      BY <2>3, <2>4, <2>5
  <1> QED
    BY <1>1, <1>2, <1>3, ReadTypes DEF Stays, DeviceTypes, NoFileChange, Running, FileOpen

\* The device goes on to the packet q, in the state st, at the unit pos of the file f.
SendsOn(q, st, f, pos) ==
    /\ q \in Packets /\ q.seq = NextSeq(k.s_seq)
    /\ k' \in Protocols /\ k'.status = "run" /\ k'.why = k.why /\ k'.what = "send"
    /\ k'.state = st /\ k'.file = f /\ k'.pos = pos /\ k'.obuf = k.obuf
    /\ k'.s_seq = q.seq /\ k'.r_seq = q.seq /\ k'.opkt = <<q>>
    /\ toPeer' = Append(toPeer, q) /\ toPeer' \in Seq(Packets)

\* The state of the protocol and the line after an acknowledgement has been read.
SendStep(p) ==
    \/ /\ k.state = "S_DATA" /\ p.d \in {X, Z} /\ handles' = handles - 1
       /\ iofaults' = iofaults /\ slots' = [Fresh EXCEPT ![slot].used = TRUE]
       /\ \E q : q.t = "Z" /\ SendsOn(q, "S_EOF", IF p.d = Z THEN Len(Length) ELSE k.file, k.pos)
    \/ /\ k.state \in {"S_INIT", "S_EOF"} /\ k.file + 1 \in Names /\ slots' = Fresh
       /\ handles < NumFiles /\ handles' = handles + 1 /\ iofaults' = iofaults
       /\ \E q : q.t = "F" /\ q.d = <<k.file + 1>> /\ SendsOn(q, "S_FILE", k.file + 1, 0)
    \/ /\ k.state \in {"S_INIT", "S_EOF"} /\ k' = Failed("io") /\ slots' = Fresh
       /\ toPeer' = toPeer /\ handles' = handles /\ iofaults' \in {iofaults, iofaults + 1}
    \/ /\ k.state \in {"S_INIT", "S_EOF"} /\ k.file = Len(Length) /\ slots' = Fresh
       /\ handles' = handles /\ iofaults' = iofaults
       /\ \E q : q.t = "B" /\ SendsOn(q, "S_EOT", k.file, k.pos)
    \/ /\ k.state = "S_FILE" /\ slots' = Fresh /\ handles' = handles /\ iofaults' = iofaults
       /\ \E q : q.t = "A" /\ SendsOn(q, "S_ATTR", k.file, k.pos)
    \/ /\ k.state \in {"S_FILE", "S_ATTR", "S_DATA"} /\ slots' = Fresh
       /\ NextUnits(k) = <<>> /\ handles' = handles - 1 /\ iofaults' = iofaults
       /\ \E q : q.t = "Z" /\ SendsOn(q, "S_EOF", k.file, k.pos)
    \/ /\ k.state \in {"S_FILE", "S_ATTR", "S_DATA"} /\ slots' = Fresh
       /\ handles' = handles /\ iofaults' \in {iofaults, iofaults + 1}
       /\ \E q, pos : /\ q.t = "D" /\ SendsOn(q, "S_DATA", k.file, pos)
                      /\ ~altered' => /\ q.d = NextUnits(k) /\ NextUnits(k) # <<>>
                                      /\ pos = k.pos + Len(NextUnits(k))
    \/ /\ k.state = "S_EOT" /\ k' = [k EXCEPT !.status = "done"] /\ slots' = Fresh
       /\ toPeer' = toPeer /\ handles' = handles /\ iofaults' = iofaults

\* The device in another state of the protocol.
LEMMA WithState ==
    ASSUME NEW kk \in Protocols, NEW st \in RecvStates \cup SendStates
    PROVE  [kk EXCEPT !.state = st] \in Protocols
  BY DEF Protocols

\* spkt with the next number is what SendsOn says of going on as the sender.
LEMMA Sends ==
    ASSUME toPeer \in Seq(Packets), NEW kk \in Protocols, NEW q \in Packets, spkt(kk, q),
           kk.status = "run", kk.what = "send", kk.obuf = k.obuf, kk.why = k.why,
           q.seq = NextSeq(k.s_seq), kk.r_seq = q.seq
    PROVE  SendsOn(q, kk.state, kk.file, kk.pos)
  BY Spkt DEF Puts, SendsOn

\* What the device does when it sends and an acknowledgement arrives.
LEMMA SendSteps ==
    ASSUME Types, NEW p, NEW ok \in BOOLEAN,
           SendCancelled(p) \/ SendNextFile(p, ok) \/ SendAttributes(p) \/ SendNextData(p, ok)
           \/ SendDone(p)
    PROVE  Acked(p) /\ SendStep(p) /\ disk' = disk /\ (altered => altered')
           /\ altered' \in BOOLEAN
  <1>1. Acked(p) /\ Reads(p) /\ k.what = "send"
    BY DEF SendCancelled, SendNextFile, SendAttributes, SendNextData, SendDone, Acked, Wanted
  <1>2. /\ k \in Protocols /\ k.s_seq \in Numbers /\ NextSeq(k.s_seq) \in Numbers
        /\ toPeer \in Seq(Packets) /\ Running /\ k.status = "run" /\ k.file \in Names \cup {0}
        /\ k.state \in SendStates
    BY <1>1, ReadTypes, Numbering, FileLengths DEF Types, DeviceTypes, Protocols, LineTypes
  <1>3. disk' = disk /\ (altered => altered') /\ altered' \in BOOLEAN
    BY DEF SendCancelled, SendNextFile, SendAttributes, SendNextData, SendDone, NoFileChange,
           Types, DeviceTypes
  <1>4. /\ \A f \in Names : <<f>> \in Seq(Nat)
        /\ <<>> \in Seq(Nat) \cup Seq(Letters)
    BY FileLengths, Texts
  <1> DEFINE seq == NextSeq(k.s_seq)
  <1>5. CASE SendCancelled(p)
    <2> DEFINE file == IF p.d = Z THEN Len(Length) ELSE k.file
               kk == [k EXCEPT !.state = "S_EOF", !.r_seq = seq, !.file = file]
               q == Packet("Z", seq, <<>>)
    <2>1. /\ kk \in Protocols /\ kk.status = "run" /\ kk.what = "send" /\ kk.state = "S_EOF"
          /\ kk.obuf = k.obuf /\ kk.why = k.why /\ kk.r_seq = seq /\ kk.pos = k.pos
          /\ kk.file = file
      <3>1. file \in 0 .. Len(Length)
        BY <1>2, FileLengths
      <3> HIDE DEF file
      <3> QED
        BY <1>1, <1>2, <3>1 DEF Protocols, SendStates
    <2>2. q \in Packets /\ q.t = "Z" /\ q.seq = seq
      <3>1. q \in Packets
        BY <1>2, <1>4, PacketIs DEF Says
      <3> QED
        BY <1>2, <3>1, PacketParts
    <2>3. /\ handles' = handles - 1 /\ iofaults' = iofaults /\ k.state = "S_DATA"
          /\ p.d \in {X, Z} /\ slots' = [Fresh EXCEPT ![slot].used = TRUE] /\ spkt(kk, q)
      BY <1>5 DEF SendCancelled
    <2> HIDE DEF kk, q
    <2>4. SendsOn(q, kk.state, kk.file, kk.pos)
      BY <1>2, <2>1, <2>2, <2>3, Sends
    <2> QED
      BY <1>1, <1>3, <2>1, <2>2, <2>3, <2>4 DEF SendStep
  <1>6. CASE SendNextFile(p, ok)
    <2> DEFINE k1 == [k EXCEPT !.r_seq = seq,
                               !.attrs = IF k.state = "S_INIT" THEN p.d = <<"A">> ELSE @]
    <2>1. k.state \in {"S_INIT", "S_EOF"} /\ slots' = Fresh
      BY <1>6 DEF SendNextFile
    <2>2. CASE k.file < Len(Length) /\ ok
      <3> DEFINE kk == [k1 EXCEPT !.state = "S_FILE", !.file = @ + 1, !.pos = 0]
                 q == Packet("F", seq, <<k.file + 1>>)
      <3>1. k.file + 1 \in Names /\ Len(Length) \in Nat
        BY <1>2, <2>2, FileLengths DEF Names
      <3>2. /\ kk \in Protocols /\ kk.state = "S_FILE" /\ kk.file = k.file + 1 /\ kk.pos = 0
            /\ kk.status = "run" /\ kk.what = "send" /\ kk.obuf = k.obuf /\ kk.why = k.why
            /\ kk.r_seq = seq
        BY <1>1, <1>2, <3>1, FileLengths DEF Protocols, SendStates
      <3>3. q \in Packets /\ q.t = "F" /\ q.seq = seq /\ q.d = <<k.file + 1>>
        <4>1. q \in Packets
          BY <1>2, <1>4, <3>1, PacketIs DEF Says
        <4> QED
          BY <1>2, <4>1, PacketParts
      <3>4. /\ handles' = handles + 1 /\ handles < NumFiles /\ iofaults' = iofaults
            /\ spkt(kk, q)
        BY <1>6, <2>2 DEF SendNextFile, OpenFile, Io
      <3> HIDE DEF kk, q
      <3>5. SendsOn(q, kk.state, kk.file, kk.pos)
        BY <1>2, <3>2, <3>3, <3>4, Sends
      <3> QED
        BY <1>1, <1>3, <2>1, <3>1, <3>2, <3>3, <3>4, <3>5 DEF SendStep
    <2>3. CASE k.file < Len(Length) /\ ~ok
      BY <1>1, <1>3, <1>6, <2>1, <2>3 DEF SendNextFile, OpenFile, Io, SendStep
    <2>4. CASE ~(k.file < Len(Length))
      <3> DEFINE kk == [k1 EXCEPT !.state = "S_EOT"]
                 q == Packet("B", seq, <<>>)
      <3>1. /\ kk \in Protocols /\ kk.state = "S_EOT" /\ kk.status = "run" /\ kk.why = k.why
            /\ kk.what = "send" /\ kk.obuf = k.obuf /\ kk.r_seq = seq /\ kk.file = k.file
            /\ kk.pos = k.pos
        BY <1>1, <1>2 DEF Protocols, SendStates
      <3>2. q \in Packets /\ q.t = "B" /\ q.seq = seq
        <4>1. q \in Packets
          BY <1>2, <1>4, PacketIs DEF Says
        <4> QED
          BY <1>2, <4>1, PacketParts
      <3>3. handles' = handles /\ iofaults' = iofaults /\ spkt(kk, q)
        BY <1>6, <2>4 DEF SendNextFile
      <3>4. k.file = Len(Length)
        BY <1>2, <2>4, FileLengths DEF Names
      <3> HIDE DEF kk, q
      <3>5. SendsOn(q, kk.state, kk.file, kk.pos)
        BY <1>2, <3>1, <3>2, <3>3, Sends
      <3> QED
        BY <1>1, <1>3, <2>1, <3>1, <3>2, <3>3, <3>4, <3>5 DEF SendStep
    <2> QED
      BY <2>2, <2>3, <2>4
  <1>7. CASE SendAttributes(p)
    <2> DEFINE kk == [k EXCEPT !.state = "S_ATTR", !.r_seq = seq]
               q == Packet("A", seq, <<>>)
    <2>1. /\ kk \in Protocols /\ kk.state = "S_ATTR" /\ kk.status = "run" /\ kk.why = k.why
          /\ kk.what = "send" /\ kk.obuf = k.obuf /\ kk.file = k.file /\ kk.r_seq = seq
          /\ kk.pos = k.pos
      BY <1>1, <1>2 DEF Protocols, SendStates
    <2>2. q \in Packets /\ q.t = "A" /\ q.seq = seq
      <3>1. q \in Packets
        BY <1>2, <1>4, PacketIs DEF Says
      <3> QED
        BY <1>2, <3>1, PacketParts
    <2>3. /\ handles' = handles /\ iofaults' = iofaults /\ spkt(kk, q) /\ k.state = "S_FILE"
          /\ slots' = Fresh
      BY <1>7 DEF SendAttributes, NoFileChange
    <2> HIDE DEF kk, q
    <2>4. SendsOn(q, kk.state, kk.file, kk.pos)
      BY <1>2, <2>1, <2>2, <2>3, Sends
    <2> QED
      BY <1>1, <1>3, <2>1, <2>2, <2>3, <2>4 DEF SendStep
  <1>8. CASE SendNextData(p, ok)
    <2>1. /\ k.state \in {"S_FILE", "S_ATTR", "S_DATA"} /\ iofaults' \in {iofaults, iofaults + 1}
          /\ ok => iofaults' = iofaults
          /\ k.file \in Names /\ k.pos \in Nat /\ slots' = Fresh
      BY <1>2, <1>8 DEF SendNextData, Types, DeviceTypes, Protocols, Io
    <2>2. NextUnits(k) \in Seq(Nat)
      BY <2>1, NextPiece DEF NextUnits
    <2>3. CASE ok /\ NextUnits(k) = <<>>
      <3> DEFINE kk == [k EXCEPT !.state = "S_EOF", !.r_seq = seq]
                 q == Packet("Z", seq, <<>>)
      <3>1. /\ kk \in Protocols /\ kk.state = "S_EOF" /\ kk.status = "run" /\ kk.why = k.why
            /\ kk.what = "send" /\ kk.obuf = k.obuf /\ kk.r_seq = seq /\ kk.file = k.file
            /\ kk.pos = k.pos
        BY <1>1, <1>2 DEF Protocols, SendStates
      <3>2. q \in Packets /\ q.t = "Z" /\ q.seq = seq
        <4>1. q \in Packets
          BY <1>2, <1>4, PacketIs DEF Says
        <4> QED
          BY <1>2, <4>1, PacketParts
      <3>3. handles' = handles - 1 /\ spkt(kk, q)
        BY <1>8, <2>3 DEF SendNextData, SendData, SendEof
      <3> HIDE DEF kk, q
      <3>4. SendsOn(q, kk.state, kk.file, kk.pos)
        BY <1>2, <3>1, <3>2, <3>3, Sends
      <3> QED
        BY <1>1, <1>3, <2>1, <2>3, <3>1, <3>2, <3>3, <3>4 DEF SendStep
    <2>4. CASE ok /\ NextUnits(k) # <<>>
      <3> DEFINE kk == [k EXCEPT !.state = "S_DATA", !.r_seq = seq,
                                 !.pos = @ + Len(NextUnits(k))]
                 q == Packet("D", seq, NextUnits(k))
      <3>1. /\ kk \in Protocols /\ kk.state = "S_DATA" /\ kk.status = "run" /\ kk.why = k.why
            /\ kk.what = "send" /\ kk.obuf = k.obuf /\ kk.file = k.file /\ kk.r_seq = seq
            /\ kk.pos = k.pos + Len(NextUnits(k))
        <4>1. k.pos + Len(NextUnits(k)) \in Nat
          BY <2>1, <2>2
        <4> QED
          BY <1>1, <1>2, <4>1 DEF Protocols, SendStates
      <3>2. q \in Packets /\ q.t = "D" /\ q.seq = seq /\ q.d = NextUnits(k)
        <4>1. q \in Packets
          BY <1>2, <2>2, PacketIs DEF Says
        <4> QED
          BY <1>2, <4>1, PacketParts
      <3>3. handles' = handles /\ spkt(kk, q)
        BY <1>8, <2>4 DEF SendNextData, SendData
      <3> HIDE DEF kk, q
      <3>4. SendsOn(q, kk.state, kk.file, kk.pos)
        BY <1>2, <3>1, <3>2, <3>3, Sends
      <3> QED
        BY <1>1, <1>3, <2>1, <2>4, <3>1, <3>2, <3>3, <3>4 DEF SendStep
    <2>5. CASE ~ok
      <3> DEFINE n == k.pos + Len(FewerUnits(k))
                 kk == [k EXCEPT !.state = "S_DATA", !.r_seq = seq, !.pos = n]
                 q == Packet("D", seq, <<0>> \o FewerUnits(k))
      <3>1. FewerUnits(k) \in Seq(Nat) /\ n \in Nat /\ <<0>> \o FewerUnits(k) \in Seq(Nat)
        <4>1. FewerUnits(k) \in Seq(Nat)
          BY <2>1, FewerIs
        <4>2. <<0>> \in Seq(Nat)
          OBVIOUS
        <4> QED
          BY <2>1, <4>1, <4>2, ConcatProperties
      <3>2. /\ kk \in Protocols /\ kk.state = "S_DATA" /\ kk.status = "run" /\ kk.why = k.why
            /\ kk.what = "send" /\ kk.obuf = k.obuf /\ kk.file = k.file /\ kk.r_seq = seq
            /\ kk.pos = n
        BY <1>1, <1>2, <3>1 DEF Protocols, SendStates
      <3>3. q \in Packets /\ q.t = "D" /\ q.seq = seq
        <4>1. q \in Packets
          BY <1>2, <3>1, PacketIs DEF Says
        <4> QED
          BY <1>2, <4>1, PacketParts
      <3>4. handles' = handles /\ spkt(kk, q) /\ altered'
        BY <1>8, <2>5 DEF SendNextData, SendOther
      <3> HIDE DEF kk, q
      <3>5. SendsOn(q, kk.state, kk.file, kk.pos)
        BY <1>2, <3>2, <3>3, <3>4, Sends
      <3> QED
        BY <1>1, <1>3, <2>1, <3>2, <3>3, <3>4, <3>5 DEF SendStep
    <2> QED
      BY <2>3, <2>4, <2>5
  <1>9. CASE SendDone(p)
    BY <1>1, <1>3, <1>9 DEF SendDone, NoFileChange, SendStep
  <1> QED
    BY <1>5, <1>6, <1>7, <1>8, <1>9

\* As the sender, the device stays in its ranges when it goes on.
LEMMA SendTypes ==
    ASSUME Types, NEW p, Acked(p), SendStep(p), disk' = disk, altered' \in BOOLEAN
    PROVE  /\ DeviceTypes' /\ toPeer' \in Seq(Packets) /\ k'.what = k.what
           /\ k'.status # "idle"
  <1>1. /\ k \in Protocols /\ k.s_seq \in Numbers /\ k.what = "send"
        /\ toPeer \in Seq(Packets) /\ Running /\ k.status = "run" /\ k.file \in Names \cup {0}
        /\ k.state \in SendStates /\ Len(k.obuf) < ObufLen /\ keep' = keep /\ keep \in BOOLEAN
        /\ NumFiles \in Nat /\ handles \in 0 .. NumFiles /\ unwanted' \in Nat
        /\ disk \in [Names -> {NoFile} \cup Seq(Nat)] /\ iofaults \in Nat
        /\ FileOpen => handles > 0
        /\ k.state \in {"S_FILE", "S_ATTR", "S_DATA"} => k.file \in Names
        /\ Len(k.opkt) <= 1 /\ k.opkt # <<>>
    BY ReadTypes, FileLengths, ConstAssumption
       DEF Types, DeviceTypes, Protocols, LineTypes, Acked, Wanted
  <1>2. slots' \in SlotTables
    BY SlotTypes DEF SendStep, Types, DeviceTypes
  <1>3. CASE k' = Failed("io") \/ k' = [k EXCEPT !.status = "done"]
    <2>1. /\ k' \in Protocols /\ k'.status \in {"failed", "done"} /\ k'.what = k.what
          /\ k'.opkt = k.opkt /\ k'.obuf = k.obuf /\ k'.state = k.state /\ k'.file = k.file
      BY <1>1, <1>3 DEF Failed, Protocols
    <2>2. toPeer' = toPeer /\ handles' = handles /\ iofaults' \in Nat
      <3>1. \A q, st, f, pos : ~SendsOn(q, st, f, pos)
        BY <2>1 DEF SendsOn
      <3> QED
        BY <1>1, <3>1 DEF SendStep
    <2>3. /\ Len(k'.opkt) <= 1 /\ Len(k'.obuf) < ObufLen /\ k'.status # "run"
          /\ k'.state \in {"R_ATTR", "R_DATA", "S_FILE", "S_ATTR", "S_DATA"}
                => k'.file \in Names
      BY <1>1, <2>1 DEF SendStates
    <2>4. keep' \in BOOLEAN /\ disk' \in [Names -> {NoFile} \cup Seq(Nat)]
          /\ handles' \in 0 .. NumFiles /\ unwanted' \in Nat
      BY <1>1, <2>2
    <2> QED
      BY <1>1, <1>2, <2>1, <2>2, <2>3, <2>4 DEF DeviceTypes, Running
  <1>4. CASE ~(k' = Failed("io") \/ k' = [k EXCEPT !.status = "done"])
    <2>1. PICK q, st, f, pos :
            /\ SendsOn(q, st, f, pos) /\ st \in SendStates
            /\ st \in {"S_FILE", "S_ATTR", "S_DATA"} => f \in Names /\ handles' > 0
            /\ handles' \in 0 .. NumFiles /\ iofaults' \in Nat
      BY <1>1, <1>4 DEF SendStep, SendStates, FileOpen
    <2>2. /\ k' \in Protocols /\ Len(k'.opkt) = 1 /\ k'.opkt # <<>> /\ k'.obuf = k.obuf
          /\ k'.what = "send" /\ k'.state = st /\ k'.file = f /\ k'.status = "run"
          /\ toPeer' \in Seq(Packets)
      <3>1. /\ k' \in Protocols /\ k'.opkt = <<q>> /\ k'.obuf = k.obuf
            /\ k'.what = "send" /\ k'.state = st /\ k'.file = f /\ k'.status = "run"
            /\ toPeer' \in Seq(Packets)
        BY <1>1, <2>1, Zenon DEF SendsOn
      <3>2. Len(<<q>>) = 1 /\ <<q>> # <<>>
        OBVIOUS
      <3> QED
        BY <3>1, <3>2, Zenon
    <2>3. k'.state \in SendStates
          /\ (k'.state \in {"R_ATTR", "R_DATA", "S_FILE", "S_ATTR", "S_DATA"}
                => k'.file \in Names /\ handles' > 0)
      <3>1. st \notin {"R_ATTR", "R_DATA"}
        BY <2>1 DEF SendStates
      <3> QED
        BY <2>1, <2>2, <3>1
    <2> QED
      BY <1>1, <1>2, <2>1, <2>2, <2>3 DEF DeviceTypes, Running, FileOpen
  <1> QED
    BY <1>3, <1>4

\* A buffer is written when it is full, what is left is less than a buffer.
LEMMA Buffers ==
    ASSUME NEW units \in Seq(Nat)
    PROVE  /\ Full(units) \in Seq(Nat) /\ Rest(units) \in Seq(Nat)
           /\ Len(Full(units)) + Len(Rest(units)) = Len(units)
           /\ Len(Rest(units)) < ObufLen
           /\ \A i \in 1 .. Len(Full(units)) : Full(units)[i] = units[i]
           /\ \A i \in 1 .. Len(Rest(units)) : Rest(units)[i] = units[Len(Full(units)) + i]
           /\ Full(units) = <<>> <=> Len(Full(units)) = 0
  <1>1. ObufLen \in Nat \ {0} /\ Len(units) \in Nat
    BY ConstAssumption
  <1>2. PICK n \in Nat : n = (Len(units) \div ObufLen) * ObufLen /\ n <= Len(units)
                         /\ Len(units) < n + ObufLen
    BY <1>1, Z3
  <1>3. PICK a : /\ a = Full(units) /\ a \in Seq(Nat) /\ Len(a) = n
                 /\ \A i \in 1 .. n : a[i] = units[i]
    <2>1. Full(units) = SubSeq(units, 1, n)
      BY <1>2 DEF Full
    <2>2. /\ SubSeq(units, 1, n) \in Seq(Nat) /\ Len(SubSeq(units, 1, n)) = n
          /\ \A i \in 1 .. n : SubSeq(units, 1, n)[i] = units[i]
      BY <1>1, <1>2
    <2> QED
      BY <2>1, <2>2
  <1>4. Rest(units) = SubSeq(units, n + 1, Len(units))
    BY <1>1, <1>3 DEF Rest, Piece
  <1>5. PICK b : /\ b = Rest(units) /\ b \in Seq(Nat) /\ Len(b) = Len(units) - n
                 /\ \A i \in 1 .. Len(units) - n : b[i] = units[n + i]
    <2>1. /\ SubSeq(units, n + 1, Len(units)) \in Seq(Nat)
          /\ Len(SubSeq(units, n + 1, Len(units))) = Len(units) - n
          /\ \A i \in 1 .. Len(units) - n : SubSeq(units, n + 1, Len(units))[i] = units[n + i]
      BY <1>1, <1>2
    <2> QED
      BY <1>4, <2>1
  <1>6. a = <<>> <=> n = 0
    BY <1>3
  <1>7. Len(a) + Len(b) = Len(units) /\ Len(b) < ObufLen
    BY <1>1, <1>2, <1>3, <1>5
  <1> QED
    BY <1>3, <1>5, <1>6, <1>7

\* Writing at pos changes the units from there on, and leaves those after them.
LEMMA Writing ==
    ASSUME NEW f \in Names, disk \in [Names -> {NoFile} \cup Seq(Nat)],
           NEW pos \in Nat, NEW units \in Seq(Nat)
    PROVE  LET old == Content(f)
               new == WriteAt(f, pos, units)
               end == pos + Len(units)
           IN  /\ old \in Seq(Nat) /\ new \in Seq(Nat)
               /\ pos <= Len(old) =>
                     /\ Len(new) = IF end > Len(old) THEN end ELSE Len(old)
                     /\ \A i \in 1 .. pos : new[i] = old[i]
                     /\ \A i \in pos + 1 .. end : new[i] = units[i - pos]
                     /\ \A i \in end + 1 .. Len(new) : i <= Len(old) /\ new[i] = old[i]
  <1>1. PICK old \in Seq(Nat) : old = Content(f)
    <2>1. CASE disk[f] = NoFile
      <3>1. Content(f) = <<>> /\ <<>> \in Seq(Nat)
        BY <2>1 DEF Content
      <3> QED
        BY <3>1
    <2>2. CASE disk[f] # NoFile
      BY <2>2 DEF Content
    <2> QED
      BY <2>1, <2>2
  <1>2. PICK end \in Nat : end = pos + Len(units)
    OBVIOUS
  <1>3. PICK a \in Seq(Nat) : /\ a = Piece(old, 1, pos)
                              /\ Len(a) = (IF pos > Len(old) THEN Len(old) ELSE pos)
                              /\ \A i \in 1 .. Len(a) : a[i] = old[i]
    <2>1. CASE pos > Len(old)
      BY <1>1, <2>1 DEF Piece
    <2>2. CASE ~(pos > Len(old))
      <3>1. Piece(old, 1, pos) = SubSeq(old, 1, pos)
        BY <2>2 DEF Piece
      <3> QED
        BY <1>1, <2>2, <3>1
    <2> QED
      BY <2>1, <2>2
  <1>4. PICK b \in Seq(Nat) : /\ b = Piece(old, end + 1, Len(old))
                              /\ Len(b) = (IF end > Len(old) THEN 0 ELSE Len(old) - end)
                              /\ \A i \in 1 .. Len(b) : b[i] = old[end + i]
    <2>1. Piece(old, end + 1, Len(old)) = SubSeq(old, end + 1, Len(old))
      BY <1>1, <1>2 DEF Piece
    <2>2. \E b \in Seq(Nat) : /\ b = Piece(old, end + 1, Len(old))
                              /\ Len(b) = (IF end > Len(old) THEN 0 ELSE Len(old) - end)
                              /\ \A i \in 1 .. Len(b) : b[i] = old[end + i]
      <3>1. /\ SubSeq(old, end + 1, Len(old)) \in Seq(Nat)
            /\ Len(SubSeq(old, end + 1, Len(old))) = IF end > Len(old) THEN 0 ELSE Len(old) - end
            /\ \A i \in 1 .. Len(old) - end : SubSeq(old, end + 1, Len(old))[i] = old[end + i]
        BY <1>1, <1>2
      <3>2. \A i \in 1 .. (IF end > Len(old) THEN 0 ELSE Len(old) - end) : i \in 1 .. Len(old) - end
        BY <1>1, <1>2
      <3> QED
        BY <2>1, <3>1, <3>2
    <2> QED
      BY <2>2
  <1>5. WriteAt(f, pos, units) = (a \o units) \o b
    BY <1>1, <1>2, <1>3, <1>4 DEF WriteAt
  <1>6. PICK c \in Seq(Nat) :
           /\ c = a \o units /\ Len(c) = Len(a) + Len(units)
           /\ \A i \in 1 .. Len(c) : c[i] = IF i <= Len(a) THEN a[i] ELSE units[i - Len(a)]
    <2>1. a \in Seq(Nat) /\ units \in Seq(Nat)
      BY <1>3
    <2>2. /\ a \o units \in Seq(Nat) /\ Len(a \o units) = Len(a) + Len(units)
          /\ \A i \in 1 .. Len(a) + Len(units) : (a \o units)[i] =
                IF i <= Len(a) THEN a[i] ELSE units[i - Len(a)]
      BY <2>1, ConcatProperties, Zenon
    <2> QED
      BY <2>2, Zenon
  <1>7. PICK new \in Seq(Nat) :
           /\ new = c \o b /\ Len(new) = Len(c) + Len(b)
           /\ \A i \in 1 .. Len(new) : new[i] = IF i <= Len(c) THEN c[i] ELSE b[i - Len(c)]
    <2>1. c \in Seq(Nat) /\ b \in Seq(Nat)
      BY <1>4, <1>6
    <2>2. /\ c \o b \in Seq(Nat) /\ Len(c \o b) = Len(c) + Len(b)
          /\ \A i \in 1 .. Len(c) + Len(b) : (c \o b)[i] =
                IF i <= Len(c) THEN c[i] ELSE b[i - Len(c)]
      BY <2>1, ConcatProperties, Zenon
    <2> QED
      BY <2>2, Zenon
  <1>8. PICK lo \in Nat, lu \in Nat, la \in Nat, lb \in Nat, lc \in Nat, ln \in Nat :
            /\ lo = Len(old) /\ lu = Len(units) /\ la = Len(a) /\ lb = Len(b) /\ lc = Len(c)
            /\ ln = Len(new)
    <2>1. \A s \in Seq(Nat) : Len(s) \in Nat
      OBVIOUS
    <2>2. /\ old \in Seq(Nat) /\ units \in Seq(Nat) /\ a \in Seq(Nat) /\ b \in Seq(Nat)
          /\ c \in Seq(Nat) /\ new \in Seq(Nat)
      BY <1>1, <1>3, <1>4, <1>6, <1>7
    <2> QED
      BY <2>1, <2>2, Zenon
  <1>9. /\ lc = la + lu /\ ln = lc + lb /\ end = pos + lu
        /\ pos <= lo => la = pos
        /\ end > lo => lb = 0
        /\ ~(end > lo) => lb = lo - end
    <2>1. lc = la + lu /\ ln = lc + lb /\ end = pos + lu
      BY <1>2, <1>6, <1>7, <1>8, Zenon
    <2>2. pos <= lo => la = pos
      <3>1. la = IF pos > lo THEN lo ELSE pos
        BY <1>3, <1>8, Zenon
      <3> QED
        BY <1>8, <3>1
    <2>3. lb = IF end > lo THEN 0 ELSE lo - end
      BY <1>4, <1>8, Zenon
    <2> QED
      BY <2>1, <2>2, <2>3, Zenon
  <1>10. ASSUME pos <= Len(old)
        PROVE  /\ Len(new) = IF end > Len(old) THEN end ELSE Len(old)
               /\ \A i \in 1 .. pos : new[i] = old[i]
               /\ \A i \in pos + 1 .. end : new[i] = units[i - pos]
               /\ \A i \in end + 1 .. Len(new) : i <= Len(old) /\ new[i] = old[i]
    <2>1. pos <= lo /\ la = pos /\ lc = end
      BY <1>8, <1>9, <1>10
    <2>2. ln = IF end > lo THEN end ELSE lo
      BY <1>2, <1>8, <1>9, <2>1
    <2>3. ASSUME NEW i \in 1 .. pos PROVE new[i] = old[i]
      <3>1. i \in 1 .. la /\ i <= la
        BY <2>1, <2>3
      <3>2. lc = la + lu /\ ln = lc + lb
        BY <1>9
      <3>3. i \in 1 .. lc /\ i \in 1 .. ln /\ i <= lc
        BY <1>8, <3>1, <3>2
      <3> QED
        BY <1>3, <1>6, <1>7, <1>8, <3>1, <3>3
    <2>4. ASSUME NEW i \in pos + 1 .. end PROVE new[i] = units[i - pos]
      <3>1. i \in 1 .. lc /\ i \in 1 .. ln /\ i <= lc /\ ~(i <= la) /\ i - la = i - pos
        BY <1>2, <1>8, <1>9, <2>1, <2>2, <2>4
      <3>2. c[i] = units[i - la]
        BY <1>6, <1>8, <3>1
      <3> QED
        BY <1>7, <1>8, <2>1, <3>1, <3>2
    <2>5. ASSUME NEW i \in end + 1 .. Len(new) PROVE i <= Len(old) /\ new[i] = old[i]
      <3>1. i \in end + 1 .. ln
        BY <1>8, <2>5
      <3>2. i <= lo /\ i - lc \in 1 .. lb /\ end + (i - lc) = i /\ i \in 1 .. ln /\ ~(i <= lc)
        BY <1>2, <1>8, <1>9, <2>1, <2>2, <3>1
      <3>3. b[i - lc] = old[i]
        BY <1>4, <1>8, <3>2
      <3> QED
        BY <1>7, <1>8, <3>2, <3>3
    <2> QED
      BY <1>8, <2>2, <2>3, <2>4, <2>5, Zenon
  <1> QED
    BY <1>1, <1>2, <1>5, <1>6, <1>7, <1>10

\* A buffer that is written not at all, once or twice.
LEMMA Storing ==
    ASSUME NEW f \in Names, disk \in [Names -> {NoFile} \cup Seq(Nat)],
           NEW pos \in Nat, NEW units \in Seq(Nat), NEW n \in 0 .. 2
    PROVE  /\ Times(units, n) \in Seq(Nat) /\ Stored(f, pos, units, n) \in Seq(Nat)
           /\ n = 1 => Times(units, n) = units
                       /\ Stored(f, pos, units, n) = WriteAt(f, pos, units)
           /\ n = 0 => Stored(f, pos, units, n) = Content(f)
  <1>1. units \o units \in Seq(Nat) /\ <<>> \in Seq(Nat)
    BY ConcatProperties
  <1>2. Times(units, n) \in Seq(Nat) /\ (n = 1 => Times(units, n) = units)
    BY <1>1 DEF Times
  <1>3. Content(f) \in Seq(Nat) /\ WriteAt(f, pos, Times(units, n)) \in Seq(Nat)
    BY <1>2, Writing, Zenon
  <1> QED
    BY <1>2, <1>3 DEF Stored

\* What the device has altered stays so; a buffer that it does not alter is written once,
\* or, in a binary file, not at all.
LEMMA WritesIs ==
    ASSUME Types, NEW units, NEW n \in 0 .. 2, NEW ok \in BOOLEAN, Writes(units, n, ok)
    PROVE  /\ altered' \in BOOLEAN /\ (altered => altered')
           /\ ~altered' => n = IF ok \/ ~k.binary THEN 1 ELSE 0
           /\ k.binary \in BOOLEAN /\ (units = <<>> => n = 1 /\ ok)
  <1>1. k.binary \in BOOLEAN /\ altered \in BOOLEAN
    BY DEF Types, DeviceTypes, Protocols
  <1> QED
    BY <1>1 DEF Writes

\* The device acknowledges the packet that was wanted, and wants the next one.
LEMMA Ack ==
    ASSUME k \in Protocols, toPeer \in Seq(Packets), NEW kk \in Protocols,
           NEW d \in Seq(Nat) \cup Seq(Letters), ack(kk, d)
    PROVE  /\ [kk EXCEPT !.r_seq = NextSeq(k.r_seq)] \in Protocols
           /\ Packet("Y", k.r_seq, d) \in Packets
           /\ Puts([kk EXCEPT !.r_seq = NextSeq(k.r_seq)], Packet("Y", k.r_seq, d))
  <1>1. k.r_seq \in Numbers /\ NextSeq(k.r_seq) \in Numbers
    BY Numbering DEF Protocols
  <1>2. Packet("Y", k.r_seq, d) \in Packets
    BY <1>1, PacketIs DEF Answers
  <1>3. [kk EXCEPT !.r_seq = NextSeq(k.r_seq)] \in Protocols
    BY <1>1 DEF Protocols
  <1>4. spkt([kk EXCEPT !.r_seq = NextSeq(k.r_seq)], Packet("Y", k.r_seq, d))
    BY DEF ack
  <1> QED
    BY <1>2, <1>3, <1>4, Spkt

\* The device fails and tells so.
LEMMA Epkt ==
    ASSUME k \in Protocols, toPeer \in Seq(Packets),
           NEW why \in {"unexpected", "io", "text"}, NEW st \in RecvStates \cup SendStates,
           spkt([Failed(why) EXCEPT !.state = st], Packet("E", 0, <<>>))
    PROVE  /\ [Failed(why) EXCEPT !.state = st] \in Protocols /\ Packet("E", 0, <<>>) \in Packets
           /\ Puts([Failed(why) EXCEPT !.state = st], Packet("E", 0, <<>>))
  <1>1. Packet("E", 0, <<>>) \in Packets
    BY PacketIs, Numbering, Texts
  <1>2. [Failed(why) EXCEPT !.state = st] \in Protocols
    BY DEF Failed, Protocols
  <1> QED
    BY <1>1, <1>2, Spkt

\* The device acknowledges a packet and goes on, in the state st, at the unit pos of the
\* file f, with obuf in its buffer.
AcksWith(st, status, f, pos, obuf) ==
    /\ k' \in Protocols /\ k'.status = status /\ k'.what = k.what
    /\ k'.why = (IF status = "failed" THEN "empty" ELSE k.why)
    /\ k'.state = st /\ k'.file = f /\ k'.pos = pos /\ k'.obuf = obuf
    /\ k'.r_seq = NextSeq(k.r_seq)
    /\ \E q \in Packets :
          q.t = "Y" /\ q.seq = k.r_seq /\ k'.opkt = <<q>> /\ toPeer' = Append(toPeer, q)
    /\ toPeer' \in Seq(Packets)

\* The device fails in the state st and says so.
FailsAloud(st) ==
    /\ k' \in Protocols /\ k'.status = "failed" /\ k'.what = k.what
    /\ k'.why \in {"unexpected", "io", "text"} /\ k'.state = st
    /\ k'.file = k.file /\ k'.pos = k.pos /\ k'.obuf = k.obuf /\ k'.r_seq = k.r_seq
    /\ \E q \in Packets : q.t = "E" /\ k'.opkt = <<q>> /\ toPeer' = Append(toPeer, q)
    /\ toPeer' \in Seq(Packets)

\* The output file is open after the step.
Opened == IF k.state = "R_ATTR" THEN handles < NumFiles /\ handles' = handles + 1
                                ELSE handles' = handles

Replaced(c) == disk' = [disk EXCEPT ![k.file] = c]

\* A data packet is taken, its full buffers are written.
DataTakes(p) ==
    /\ k.state \in {"R_ATTR", "R_DATA"} /\ p.t = "D" /\ Opened /\ iofaults' = iofaults
    /\ \E pos, end \in Nat, units, c \in Seq(Nat) :
          /\ k.state = "R_ATTR" => pos = 0 /\ units = p.d
          /\ k.state = "R_DATA" => pos = k.pos /\ units = k.obuf \o p.d
          /\ AcksWith("R_DATA", "run", k.file, end, Rest(units))
          /\ Replaced(c)
          /\ ~altered' => end = pos + Len(Full(units)) /\ c = WriteAt(k.file, pos, Full(units))

\* They cannot be written.
DataFails(p) ==
    /\ k.state \in {"R_ATTR", "R_DATA"} /\ p.t = "D" /\ Opened
    /\ iofaults' \in {iofaults, iofaults + 1} /\ FailsAloud("R_DATA")
    /\ \E pos \in Nat, units, c \in Seq(Nat) :
          /\ k.state = "R_ATTR" => pos = 0 /\ units = p.d
          /\ k.state = "R_DATA" => pos = k.pos /\ units = k.obuf \o p.d
          /\ Replaced(c)
          /\ ~altered' => c \in {Content(k.file), WriteAt(k.file, pos, Full(units))}

\* The end of a file is taken, the rest of it written or not.
EndTakes(p) ==
    /\ k.state = "R_DATA" /\ p.t = "Z" /\ handles' = handles - 1
    /\ AcksWith("R_FILE", "run", k.file, k.pos + Len(k.obuf), <<>>)
    /\ iofaults' \in {iofaults, iofaults + 1}
    /\ \E c \in Seq(Nat) :
          /\ Replaced(AfterClose(c, p.d))
          /\ ~altered' => \/ iofaults' = iofaults /\ c = WriteAt(k.file, k.pos, k.obuf)
                          \/ iofaults' = iofaults + 1 /\ c = Content(k.file)

\* The file cannot be closed.
EndFails(p) ==
    /\ k.state = "R_DATA" /\ p.t = "Z" /\ handles' = handles - 1
    /\ FailsAloud("R_DATA") /\ iofaults' = iofaults + 1
    /\ \E c \in Seq(Nat) :
          /\ Replaced(c)
          /\ ~altered' => c \in {Content(k.file), WriteAt(k.file, k.pos, k.obuf)}

\* The state of the protocol, the files and the line after the packet p has been taken.
ReceiveStep(p) ==
    \/ /\ FailsAloud(k.state) /\ UNCHANGED <<disk, handles>>
       /\ iofaults' \in {iofaults, iofaults + 1}
    \/ /\ k.state = "R_WAIT" /\ p.t = "S" /\ UNCHANGED <<disk, handles, iofaults>>
       /\ AcksWith("R_FILE", "run", k.file, k.pos, k.obuf)
    \/ /\ k.state = "R_FILE" /\ p.t = "F" /\ UNCHANGED <<disk, handles, iofaults>>
       /\ p.d[1] \in Names /\ AcksWith("R_ATTR", "run", p.d[1], k.pos, k.obuf)
    \/ /\ k.state = "R_FILE" /\ p.t = "B" /\ UNCHANGED <<disk, handles, iofaults>>
       /\ AcksWith("R_FILE", "done", k.file, k.pos, k.obuf)
    \/ /\ k.state = "R_ATTR" /\ p.t = "A" /\ UNCHANGED <<disk, handles, iofaults>>
       /\ AcksWith("R_ATTR", "run", k.file, k.pos, k.obuf)
    \/ DataTakes(p)
    \/ DataFails(p)
    \/ /\ k.state = "R_ATTR" /\ p.t = "Z" /\ UNCHANGED <<handles, iofaults>>
       /\ AcksWith("R_FILE", "failed", k.file, k.pos, k.obuf)
       /\ Replaced(AfterClose(Content(k.file), p.d))
    \/ EndTakes(p)
    \/ EndFails(p)

\* ack is what AcksWith says: the packet is acknowledged and the next one wanted.
LEMMA Acks ==
    ASSUME Types, NEW kk \in Protocols, NEW d \in Seq(Nat) \cup Seq(Letters), ack(kk, d),
           kk.what = k.what, kk.why = (IF kk.status = "failed" THEN "empty" ELSE k.why)
    PROVE  AcksWith(kk.state, kk.status, kk.file, kk.pos, kk.obuf)
  <1>1. k \in Protocols /\ toPeer \in Seq(Packets) /\ k.r_seq \in Numbers
        /\ NextSeq(k.r_seq) \in Numbers
    BY Numbering DEF Types, DeviceTypes, LineTypes, Protocols
  <1> DEFINE k2 == [kk EXCEPT !.r_seq = NextSeq(k.r_seq)]
             q == Packet("Y", k.r_seq, d)
  <1>2. k2 \in Protocols /\ q \in Packets /\ Puts(k2, q)
    BY <1>1, Ack
  <1>3. q.t = "Y" /\ q.seq = k.r_seq
    BY <1>1, PacketParts
  <1>4. /\ k2.status = kk.status /\ k2.why = kk.why /\ k2.what = kk.what
        /\ k2.state = kk.state /\ k2.r_seq = NextSeq(k.r_seq) /\ k2.file = kk.file
        /\ k2.pos = kk.pos /\ k2.obuf = kk.obuf
    BY DEF Protocols
  <1> HIDE DEF k2, q
  <1> QED
    BY <1>2, <1>3, <1>4 DEF Puts, AcksWith

\* A failure of which the other Kermit is told.
LEMMA Aloud ==
    ASSUME Types,
           NEW why \in {"unexpected", "io", "text"}, NEW st \in RecvStates \cup SendStates,
           spkt([Failed(why) EXCEPT !.state = st], Packet("E", 0, <<>>))
    PROVE  FailsAloud(st)
  <1>1. k \in Protocols /\ toPeer \in Seq(Packets) /\ 0 \in Numbers
    BY Numbering DEF Types, DeviceTypes, LineTypes
  <1> DEFINE k2 == [Failed(why) EXCEPT !.state = st]
             q == Packet("E", 0, <<>>)
  <1>2. k2 \in Protocols /\ q \in Packets /\ Puts(k2, q)
    BY <1>1, Epkt
  <1>3. q.t = "E"
    BY <1>1, PacketParts
  <1>4. /\ k2.status = "failed" /\ k2.why = why /\ k2.what = k.what /\ k2.state = st
        /\ k2.r_seq = k.r_seq /\ k2.file = k.file /\ k2.pos = k.pos /\ k2.obuf = k.obuf
    BY <1>1 DEF Protocols, Failed
  <1> HIDE DEF k2, q
  <1> QED
    BY <1>2, <1>3, <1>4 DEF Puts, FailsAloud

\* What the device does when it receives and the packet that is wanted arrives.
LEMMA ReceiveSteps ==
    ASSUME Types, NEW p, NEW opens \in BOOLEAN, NEW writes \in BOOLEAN, NEW closes \in BOOLEAN,
           NEW n \in 0 .. 2, NEW binary \in BOOLEAN,
           Unexpected(p) \/ ReceiveInit(p) \/ ReceiveName(p) \/ ReceiveBreak(p)
           \/ ReceiveAttributes(p, binary) \/ ReceiveData(p, opens, writes, n)
           \/ ReceiveEmpty(p, opens) \/ ReceiveEof(p, writes, n, closes)
    PROVE  Received(p) /\ ReceiveStep(p) /\ (altered => altered') /\ altered' \in BOOLEAN
  <1>1. Received(p) /\ Reads(p) /\ k.what = "recv" /\ slots' = Fresh
    BY DEF Unexpected, ReceiveInit, ReceiveName, ReceiveBreak, ReceiveAttributes, ReceiveData,
           ReceiveEmpty, ReceiveEof, Received, Wanted
  <1>2. /\ k \in Protocols /\ Running /\ k.status = "run" /\ k.state \in RecvStates
        /\ p \in Packets /\ k.file \in Nat /\ k.pos \in Nat /\ k.obuf \in Seq(Nat)
        /\ k.state \in {"R_ATTR", "R_DATA"} => k.file \in Names
        /\ iofaults \in Nat /\ disk \in [Names -> {NoFile} \cup Seq(Nat)]
    BY <1>1, ReadTypes, FileLengths DEF Types, DeviceTypes, Protocols
  <1>3. <<>> \in Seq(Nat) \cup Seq(Letters) /\ <<"Y">> \in Seq(Nat) \cup Seq(Letters)
    BY Texts
  <1>13. (altered => altered') /\ altered' \in BOOLEAN
    <2>1. CASE UNCHANGED altered
      BY <2>1 DEF Types, DeviceTypes
    <2>2. CASE ~UNCHANGED altered
      <3>1. \E units : Writes(units, n, writes)
        BY <2>2 DEF Unexpected, ReceiveInit, ReceiveName, ReceiveBreak, ReceiveAttributes,
                    ReceiveData, ReceiveEmpty, ReceiveEof, NoFileChange
      <3> QED
        BY <3>1, WritesIs
    <2> QED
      BY <2>1, <2>2
  <1>4. \A why : Failed(why) = [Failed(why) EXCEPT !.state = k.state]
    BY <1>2 DEF Failed, Protocols
  <1>5. CASE Unexpected(p)
    <2>1. spkt([Failed("unexpected") EXCEPT !.state = k.state], Packet("E", 0, <<>>))
          /\ UNCHANGED <<disk, handles, iofaults>>
      BY <1>4, <1>5 DEF Unexpected, epkt, NoFileChange
    <2>2. FailsAloud(k.state)
      BY <1>2, <2>1, Aloud
    <2> QED
      BY <1>1, <1>13, <2>1, <2>2 DEF ReceiveStep
  <1>6. CASE ReceiveInit(p)
    <2> DEFINE kk == [k EXCEPT !.state = "R_FILE"]
    <2>1. /\ kk \in Protocols /\ kk.status = "run" /\ kk.what = k.what /\ kk.why = k.why
          /\ kk.state = "R_FILE" /\ kk.obuf = k.obuf /\ kk.file = k.file /\ kk.pos = k.pos
      <3>1. kk \in Protocols
        <4>1. k \in Protocols /\ "R_FILE" \in RecvStates
          BY <1>2 DEF RecvStates
        <4> QED
          BY <4>1, WithState
      <3>2. /\ kk.status = "run" /\ kk.what = k.what /\ kk.why = k.why
            /\ kk.state = "R_FILE" /\ kk.obuf = k.obuf /\ kk.file = k.file
            /\ kk.pos = k.pos
        BY <1>2 DEF Protocols
      <3> QED
        BY <3>1, <3>2
    <2>2. ack(kk, <<>>) /\ UNCHANGED <<disk, handles, iofaults>> /\ k.state = "R_WAIT"
          /\ p.t = "S"
      BY <1>6 DEF ReceiveInit, NoFileChange
    <2> HIDE DEF kk
    <2>3. AcksWith(kk.state, kk.status, kk.file, kk.pos, kk.obuf)
      BY <1>3, <2>1, <2>2, Acks
    <2> QED
      BY <1>1, <1>13, <2>1, <2>2, <2>3 DEF ReceiveStep
  <1>7. CASE ReceiveName(p)
    <2> DEFINE kk == [k EXCEPT !.state = "R_ATTR", !.file = p.d[1]]
    <2>1. p.d[1] \in Names
      BY <1>2, <1>7 DEF ReceiveName, Packets
    <2>2. /\ kk \in Protocols /\ kk.status = "run" /\ kk.what = k.what /\ kk.why = k.why
          /\ kk.state = "R_ATTR" /\ kk.obuf = k.obuf /\ kk.file = p.d[1] /\ kk.pos = k.pos
      BY <1>2, <2>1, FileLengths DEF Protocols, RecvStates
    <2>3. ack(kk, <<>>) /\ UNCHANGED <<disk, handles, iofaults>> /\ k.state = "R_FILE"
          /\ p.t = "F"
      BY <1>7 DEF ReceiveName, NoFileChange
    <2> HIDE DEF kk
    <2>4. AcksWith(kk.state, kk.status, kk.file, kk.pos, kk.obuf)
      BY <1>3, <2>2, <2>3, Acks
    <2> QED
      BY <1>1, <1>13, <2>1, <2>2, <2>3, <2>4 DEF ReceiveStep
  <1>8. CASE ReceiveBreak(p)
    <2> DEFINE kk == [k EXCEPT !.status = "done"]
    <2>1. /\ kk \in Protocols /\ kk.status = "done" /\ kk.what = k.what /\ kk.why = k.why
          /\ kk.state = k.state /\ kk.obuf = k.obuf /\ kk.file = k.file /\ kk.pos = k.pos
      BY <1>2 DEF Protocols
    <2>2. ack(kk, <<>>) /\ UNCHANGED <<disk, handles, iofaults>> /\ k.state = "R_FILE"
          /\ p.t = "B"
      BY <1>8 DEF ReceiveBreak, NoFileChange
    <2> HIDE DEF kk
    <2>3. AcksWith(kk.state, kk.status, kk.file, kk.pos, kk.obuf)
      BY <1>3, <2>1, <2>2, Acks
    <2> QED
      BY <1>1, <1>13, <2>1, <2>2, <2>3 DEF ReceiveStep
  <1>9. CASE ReceiveAttributes(p, binary)
    <2> DEFINE kk == [k EXCEPT !.binary = binary]
    <2>1. /\ kk \in Protocols /\ kk.status = "run" /\ kk.what = k.what /\ kk.why = k.why
          /\ kk.state = k.state /\ kk.obuf = k.obuf /\ kk.file = k.file /\ kk.pos = k.pos
      BY <1>2 DEF Protocols
    <2>2. ack(kk, <<"Y">>) /\ UNCHANGED <<disk, handles, iofaults>> /\ k.state = "R_ATTR"
          /\ p.t = "A"
      BY <1>9 DEF ReceiveAttributes, NoFileChange
    <2> HIDE DEF kk
    <2>3. AcksWith(kk.state, kk.status, kk.file, kk.pos, kk.obuf)
      BY <1>3, <2>1, <2>2, Acks
    <2> QED
      BY <1>1, <1>13, <2>1, <2>2, <2>3 DEF ReceiveStep
  <1>10. CASE ReceiveData(p, opens, writes, n)
    <2> DEFINE kk == IF k.state = "R_ATTR" THEN [k EXCEPT !.obuf = <<>>, !.pos = 0] ELSE k
               units == kk.obuf \o p.d
    <2>1. /\ kk \in Protocols /\ kk.status = "run" /\ kk.what = k.what /\ kk.file = k.file
          /\ kk.obuf \in Seq(Nat) /\ kk.pos \in Nat /\ kk.why = k.why
          /\ k.state = "R_ATTR" => kk.pos = 0 /\ kk.obuf = <<>>
          /\ k.state = "R_DATA" => kk.pos = k.pos /\ kk.obuf = k.obuf
      <3>1. CASE k.state = "R_ATTR"
        <4>1. <<>> \in Seq(Nat) /\ 0 \in Nat
          OBVIOUS
        <4> QED
          BY <1>1, <1>2, <3>1, <4>1 DEF Protocols
      <3>2. CASE k.state # "R_ATTR"
        BY <1>1, <1>2, <3>2 DEF Protocols
      <3> QED
        BY <3>1, <3>2
    <2>2. /\ p.d \in Seq(Nat) /\ p.t = "D" /\ k.state \in {"R_ATTR", "R_DATA"}
          /\ k.file \in Names
      BY <1>2, <1>10 DEF ReceiveData, Packets
    <2>3. /\ opens => Opened
          /\ ~opens => handles' = handles /\ k.state = "R_ATTR"
      BY <1>10 DEF ReceiveData, OpenFile, Opened
    <2>4. /\ ~writes => opens
          /\ Io((writes \/ ~k.binary) /\ (opens \/ handles = NumFiles))
          /\ disk' = IF ~opens THEN disk
                     ELSE [disk EXCEPT ![k.file] = Stored(k.file, kk.pos, Full(units), n)]
          /\ ~altered' => n = IF writes \/ ~k.binary THEN 1 ELSE 0
      <3>1. Writes(IF opens THEN Full(units) ELSE <<>>, n, writes)
        BY <1>10 DEF ReceiveData
      <3> QED
        BY <1>10, <3>1, WritesIs DEF ReceiveData
    <2>5. /\ opens /\ writes =>
                ack([kk EXCEPT !.state = "R_DATA", !.pos = @ + Len(Times(Full(units), n)),
                               !.obuf = Rest(units)], <<>>)
          /\ ~(opens /\ writes) =>
                \E why \in {"io", "text"} :
                   spkt([Failed(why) EXCEPT !.state = IF opens THEN "R_DATA" ELSE @],
                        Packet("E", 0, <<>>))
      BY <1>10 DEF ReceiveData
    <2> HIDE DEF kk
    <2>6. /\ units \in Seq(Nat)
          /\ k.state = "R_ATTR" => units = p.d
          /\ k.state = "R_DATA" => units = k.obuf \o p.d
      <3>1. units \in Seq(Nat)
        BY <2>1, <2>2, ConcatProperties
      <3>2. <<>> \o p.d = p.d
        BY <2>2
      <3> QED
        BY <2>1, <3>1, <3>2
    <2> HIDE DEF units
    <2> DEFINE full == Full(units)
               c == Stored(k.file, kk.pos, full, n)
    <2>10. /\ full \in Seq(Nat) /\ Rest(units) \in Seq(Nat)
           /\ Times(full, n) \in Seq(Nat) /\ c \in Seq(Nat)
           /\ n = 1 => Times(full, n) = full /\ c = WriteAt(k.file, kk.pos, full)
           /\ n = 0 => c = Content(k.file)
      <3>1. full \in Seq(Nat) /\ Rest(units) \in Seq(Nat)
        BY <2>6, Buffers
      <3> HIDE DEF full
      <3> QED
        BY <1>2, <2>1, <2>2, <3>1, Storing
    <2>11. opens => Replaced(c)
      BY <2>4 DEF Replaced
    <2> HIDE DEF c
    <2>7. CASE opens /\ writes
      <3> DEFINE end == kk.pos + Len(Times(full, n))
                 k2 == [kk EXCEPT !.state = "R_DATA", !.pos = end, !.obuf = Rest(units)]
      <3>1. ack(k2, <<>>)
        BY <2>5, <2>7
      <3>2. end \in Nat
        BY <2>1, <2>10
      <3>7. n = 1 => end = kk.pos + Len(Full(units))
        BY <2>10
      <3> HIDE DEF end
      <3>3. /\ k2 \in Protocols /\ k2.status = "run" /\ k2.what = k.what
            /\ k2.state = "R_DATA" /\ k2.obuf = Rest(units) /\ k2.file = k.file
            /\ k2.why = k.why /\ k2.pos = end
        BY <2>1, <2>10, <3>2 DEF Protocols, RecvStates
      <3> HIDE DEF k2
      <3>4. AcksWith(k2.state, k2.status, k2.file, k2.pos, k2.obuf)
        BY <1>3, <3>1, <3>3, Acks
      <3>5. iofaults' = iofaults /\ (~altered' => n = 1)
        BY <2>4, <2>7 DEF Io
      <3>6. \E pos, e \in Nat, u, d \in Seq(Nat) :
             /\ k.state = "R_ATTR" => pos = 0 /\ u = p.d
             /\ k.state = "R_DATA" => pos = k.pos /\ u = k.obuf \o p.d
             /\ AcksWith("R_DATA", "run", k.file, e, Rest(u))
             /\ Replaced(d)
             /\ ~altered' => /\ e = pos + Len(Full(u))
                             /\ d = WriteAt(k.file, pos, Full(u))
        BY <2>1, <2>6, <2>7, <2>10, <2>11, <3>2, <3>3, <3>4, <3>5, <3>7
      <3> QED
        BY <1>1, <1>13, <2>2, <2>3, <2>7, <3>5, <3>6 DEF ReceiveStep, DataTakes, DataFails
    <2>8. CASE opens /\ ~writes
      <3>1. PICK why \in {"io", "text"} :
              spkt([Failed(why) EXCEPT !.state = "R_DATA"], Packet("E", 0, <<>>))
        BY <2>5, <2>8
      <3>2. FailsAloud("R_DATA")
        BY <3>1, Aloud DEF RecvStates
      <3>3. iofaults' \in {iofaults, iofaults + 1} /\ (~altered' => n \in {0, 1})
        BY <2>4, <2>8 DEF Io
      <3>4. \E pos \in Nat, u, d \in Seq(Nat) :
             /\ k.state = "R_ATTR" => pos = 0 /\ u = p.d
             /\ k.state = "R_DATA" => pos = k.pos /\ u = k.obuf \o p.d
             /\ Replaced(d)
             /\ ~altered' => d \in {Content(k.file), WriteAt(k.file, pos, Full(u))}
        BY <2>1, <2>6, <2>8, <2>10, <2>11, <3>3
      <3> QED
        BY <1>1, <1>13, <2>2, <2>3, <2>8, <3>2, <3>3, <3>4 DEF ReceiveStep, DataTakes, DataFails
    <2>9. CASE ~opens
      <3>1. PICK why \in {"io", "text"} :
              spkt([Failed(why) EXCEPT !.state = k.state], Packet("E", 0, <<>>))
        <4>1. \A why : Failed(why).state = k.state
          BY <1>2 DEF Failed, Protocols
        <4> QED
          BY <2>5, <2>9, <4>1
      <3>2. FailsAloud(k.state)
        BY <1>2, <3>1, Aloud
      <3>3. UNCHANGED <<disk, handles>> /\ iofaults' \in {iofaults, iofaults + 1}
        BY <2>3, <2>4, <2>9 DEF Io
      <3> QED
        BY <1>1, <1>13, <3>2, <3>3 DEF ReceiveStep, DataTakes, DataFails
    <2> QED
      BY <2>7, <2>8, <2>9
  <1>11. CASE ReceiveEmpty(p, opens)
    <2>1. k.state = "R_ATTR" /\ p.t = "Z" /\ handles' = handles
      BY <1>11 DEF ReceiveEmpty
    <2>2. CASE opens
      <3> DEFINE kk == [k EXCEPT !.state = "R_FILE", !.status = "failed", !.why = "empty"]
      <3>1. /\ ack(kk, <<>>) /\ iofaults' = iofaults
            /\ Replaced(AfterClose(Content(k.file), p.d))
        BY <1>11, <2>2 DEF ReceiveEmpty, Io, Replaced
      <3>2. /\ kk \in Protocols /\ kk.status = "failed" /\ kk.what = k.what /\ kk.why = "empty"
            /\ kk.state = "R_FILE" /\ kk.obuf = k.obuf /\ kk.file = k.file /\ kk.pos = k.pos
        BY <1>2 DEF Protocols, RecvStates
      <3> HIDE DEF kk
      <3>3. AcksWith(kk.state, kk.status, kk.file, kk.pos, kk.obuf)
        BY <1>3, <3>1, <3>2, Acks
      <3> QED
        BY <1>1, <1>13, <2>1, <3>1, <3>2, <3>3 DEF ReceiveStep
    <2>3. CASE ~opens
      <3>1. spkt([Failed("io") EXCEPT !.state = k.state], Packet("E", 0, <<>>))
            /\ disk' = disk /\ iofaults' \in {iofaults, iofaults + 1}
        BY <1>4, <1>11, <2>3 DEF ReceiveEmpty, epkt, Io
      <3>2. FailsAloud(k.state)
        BY <1>2, <3>1, Aloud
      <3> QED
        BY <1>1, <1>13, <2>1, <3>1, <3>2 DEF ReceiveStep
    <2> QED
      BY <2>2, <2>3
  <1>12. CASE ReceiveEof(p, writes, n, closes)
    <2>1. /\ k.state = "R_DATA" /\ p.t = "Z" /\ handles' = handles - 1
          /\ Writes(k.obuf, n, writes) /\ Io((writes \/ ~k.binary) /\ closes)
      BY <1>12 DEF ReceiveEof
    <2> DEFINE c == Stored(k.file, k.pos, k.obuf, n)
    <2>4. /\ c \in Seq(Nat)
          /\ n = 1 => c = WriteAt(k.file, k.pos, k.obuf)
          /\ n = 0 => c = Content(k.file)
          /\ ~altered' => n = IF writes \/ ~k.binary THEN 1 ELSE 0
      <3>1. ~altered' => n = IF writes \/ ~k.binary THEN 1 ELSE 0
        BY <2>1, WritesIs
      <3>2. k.file \in Names /\ k.pos \in Nat /\ k.obuf \in Seq(Nat)
            /\ disk \in [Names -> {NoFile} \cup Seq(Nat)]
        BY <1>2, <2>1
      <3>3. /\ Stored(k.file, k.pos, k.obuf, n) \in Seq(Nat)
            /\ n = 1 => Stored(k.file, k.pos, k.obuf, n) = WriteAt(k.file, k.pos, k.obuf)
            /\ n = 0 => Stored(k.file, k.pos, k.obuf, n) = Content(k.file)
        BY <3>2, Storing
      <3> QED
        BY <3>1, <3>3, Zenon
    <2>5. Replaced(AfterClose(c, IF closes THEN p.d ELSE <<>>))
      BY <1>12 DEF ReceiveEof, Flushed, Replaced
    <2> HIDE DEF c
    <2>2. CASE closes
      <3> DEFINE kk == [k EXCEPT !.state = "R_FILE", !.obuf = <<>>, !.pos = @ + Len(k.obuf)]
      <3>1. ack(kk, <<>>)
        BY <1>12, <2>2 DEF ReceiveEof
      <3>2. /\ kk \in Protocols /\ kk.status = "run" /\ kk.what = k.what /\ kk.why = k.why
            /\ kk.state = "R_FILE" /\ kk.obuf = <<>> /\ kk.file = k.file
            /\ kk.pos = k.pos + Len(k.obuf)
        <4>1. k.pos + Len(k.obuf) \in Nat /\ <<>> \in Seq(Nat)
          BY <1>2
        <4> QED
          BY <1>2, <4>1 DEF Protocols, RecvStates
      <3> HIDE DEF kk
      <3>3. AcksWith(kk.state, kk.status, kk.file, kk.pos, kk.obuf)
        BY <1>3, <3>1, <3>2, Acks
      <3>4. /\ iofaults' \in {iofaults, iofaults + 1} /\ Replaced(AfterClose(c, p.d))
            /\ ~altered' => \/ iofaults' = iofaults /\ c = WriteAt(k.file, k.pos, k.obuf)
                            \/ iofaults' = iofaults + 1 /\ c = Content(k.file)
        BY <2>1, <2>2, <2>4, <2>5 DEF Io
      <3> QED
        BY <1>1, <1>13, <2>1, <2>4, <3>2, <3>3, <3>4 DEF ReceiveStep, EndTakes, EndFails
    <2>3. CASE ~closes
      <3>1. spkt([Failed("io") EXCEPT !.state = k.state], Packet("E", 0, <<>>))
            /\ iofaults' = iofaults + 1
        BY <1>4, <1>12, <2>3 DEF ReceiveEof, epkt, Io
      <3>2. FailsAloud("R_DATA")
        BY <1>2, <2>1, <3>1, Aloud
      <3>3. /\ Replaced(c)
            /\ ~altered' => c \in {Content(k.file), WriteAt(k.file, k.pos, k.obuf)}
        <4>1. AfterClose(c, <<>>) = c
          BY DEF AfterClose, D
        <4> QED
          BY <2>3, <2>4, <2>5, <4>1
      <3> QED
        BY <1>1, <1>13, <2>1, <2>4, <3>1, <3>2, <3>3 DEF ReceiveStep, EndTakes, EndFails
    <2> QED
      BY <2>2, <2>3
  <1> QED
    BY <1>5, <1>6, <1>7, <1>8, <1>9, <1>10, <1>11, <1>12, <1>13

\* As the receiver, the device stays in its ranges when it goes on.
LEMMA ReceiveTypes ==
    ASSUME Types, NEW p, Received(p), ReceiveStep(p), altered' \in BOOLEAN
    PROVE  /\ DeviceTypes' /\ toPeer' \in Seq(Packets) /\ k'.what = k.what
           /\ k'.status # "idle"
  <1>1. Reads(p) /\ k.what = "recv" /\ slots' = Fresh
    BY DEF Received, Wanted
  <1>2. /\ k \in Protocols /\ Running /\ k.status = "run" /\ k.state \in RecvStates
        /\ p \in Packets /\ k.file \in Nat /\ k.pos \in Nat /\ k.obuf \in Seq(Nat)
        /\ Len(k.obuf) < ObufLen /\ keep' = keep /\ keep \in BOOLEAN /\ unwanted' \in Nat
        /\ k.state \in {"R_ATTR", "R_DATA"} => k.file \in Names
        /\ iofaults \in Nat /\ disk \in [Names -> {NoFile} \cup Seq(Nat)]
        /\ NumFiles \in Nat /\ handles \in 0 .. NumFiles /\ ObufLen \in Nat \ {0}
        /\ k.state = "R_DATA" => handles > 0
    <2>1. k \in Protocols /\ k.status = "run" /\ Running /\ p \in Packets /\ unwanted' \in Nat
          /\ keep' = keep
      BY <1>1, ReadTypes DEF Types, DeviceTypes
    <2>2. ObufLen \in Nat \ {0} /\ NumFiles \in Nat /\ k.file \in Nat
      BY <2>1, FileLengths, ConstAssumption DEF Protocols
    <2> QED
      BY <1>1, <2>1, <2>2 DEF Types, DeviceTypes, Protocols, FileOpen
  <1>3. slots' \in SlotTables
    BY <1>1, SlotTypes DEF Types, DeviceTypes
  <1>4. /\ disk' \in [Names -> {NoFile} \cup Seq(Nat)] /\ iofaults' \in Nat
        /\ handles' \in 0 .. NumFiles
    <2>1. /\ iofaults' \in {iofaults, iofaults + 1}
          /\ handles' \in {handles, handles - 1, handles + 1}
          /\ handles' = handles + 1 => handles < NumFiles
          /\ handles' = handles - 1 => k.state = "R_DATA"
      <3>1. /\ handles \in Nat
            /\ Opened => handles' = handles \/ (handles < NumFiles /\ handles' = handles + 1)
        BY <1>2 DEF Opened
      <3>2. /\ iofaults' \in {iofaults, iofaults + 1}
            /\ handles' = handles \/ Opened \/ (k.state = "R_DATA" /\ handles' = handles - 1)
        BY DEF ReceiveStep, DataTakes, DataFails, EndTakes, EndFails
      <3> QED
        BY <3>1, <3>2
    <2>2. disk' = disk \/ \E c : Replaced(c) /\ c \in {NoFile} \cup Seq(Nat) /\ k.file \in Names
      <3>1. CASE disk' = disk
        BY <3>1
      <3>2. CASE disk' # disk
        <4>1. k.state \in {"R_ATTR", "R_DATA"} /\ k.file \in Names
          BY <1>2, <3>2 DEF ReceiveStep, DataTakes, DataFails, EndTakes, EndFails
        <4>2. Content(k.file) \in Seq(Nat)
          BY <1>2, <4>1, Writing, Zenon
        <4>3. \A c \in Seq(Nat) : AfterClose(c, p.d) \in {NoFile} \cup Seq(Nat)
          BY DEF AfterClose
        <4> QED
          BY <3>2, <4>1, <4>2, <4>3 DEF ReceiveStep, DataTakes, DataFails, EndTakes, EndFails
      <3> QED
        BY <3>1, <3>2
    <2>3. disk' \in [Names -> {NoFile} \cup Seq(Nat)]
      BY <1>2, <2>2 DEF Replaced
    <2> QED
      BY <1>2, <2>1, <2>3
  <1>5. /\ k' \in Protocols /\ Len(k'.opkt) = 1 /\ Len(k'.obuf) < ObufLen /\ k'.what = k.what
        /\ k'.status \in {"run", "done", "failed"} /\ toPeer' \in Seq(Packets)
        /\ k'.state \in RecvStates
        /\ k'.state \in {"R_ATTR", "R_DATA"} => k'.file \in Names
        /\ k'.status = "run" /\ k'.state = "R_DATA" => handles' > 0
    <2>1. ASSUME NEW st \in {k.state, "R_DATA"}, FailsAloud(st), st = "R_DATA" => k.file \in Names
          PROVE  /\ k' \in Protocols /\ Len(k'.opkt) = 1 /\ Len(k'.obuf) < ObufLen
                 /\ k'.what = k.what
                 /\ k'.status \in {"run", "done", "failed"} /\ toPeer' \in Seq(Packets)
                 /\ k'.state \in RecvStates
                 /\ k'.state \in {"R_ATTR", "R_DATA"} => k'.file \in Names
                 /\ k'.status = "run" /\ k'.state = "R_DATA" => handles' > 0
      BY <1>2, <2>1 DEF FailsAloud, RecvStates
    <2>2. ASSUME NEW status \in {"run", "done", "failed"}, NEW st \in RecvStates, NEW f, NEW pos,
                 NEW obuf, AcksWith(st, status, f, pos, obuf), Len(obuf) < ObufLen,
                 st \in {"R_ATTR", "R_DATA"} => f \in Names, st = "R_DATA" => handles' > 0
          PROVE  /\ k' \in Protocols /\ Len(k'.opkt) = 1 /\ Len(k'.obuf) < ObufLen
                 /\ k'.what = k.what
                 /\ k'.status \in {"run", "done", "failed"} /\ toPeer' \in Seq(Packets)
                 /\ k'.state \in RecvStates
                 /\ k'.state \in {"R_ATTR", "R_DATA"} => k'.file \in Names
                 /\ k'.status = "run" /\ k'.state = "R_DATA" => handles' > 0
      BY <1>2, <2>2 DEF AcksWith, RecvStates
    <2>3. CASE \E pos \in Nat, units \in Seq(Nat) :
                  AcksWith("R_DATA", "run", k.file, pos, Rest(units))
      <3>1. PICK pos \in Nat, units \in Seq(Nat) :
                  AcksWith("R_DATA", "run", k.file, pos, Rest(units))
        BY <2>3
      <3>2. Len(Rest(units)) < ObufLen
        BY Buffers
      <3>3. handles' > 0
        BY <1>2, <3>1
           DEF ReceiveStep, DataTakes, DataFails, EndTakes, EndFails, Opened, AcksWith, FailsAloud
      <3>4. k.file \in Names
        BY <1>2, <3>1
           DEF ReceiveStep, DataTakes, DataFails, EndTakes, EndFails, AcksWith, FailsAloud
      <3> QED
        BY <2>2, <3>1, <3>2, <3>3, <3>4 DEF RecvStates
    <2>4. CASE \E st \in {k.state, "R_DATA"} : FailsAloud(st)
      <3>1. PICK st \in {k.state, "R_DATA"} : FailsAloud(st)
        BY <2>4
      <3>2. st = "R_DATA" => k.file \in Names
        BY <1>2, <3>1
           DEF ReceiveStep, DataTakes, DataFails, EndTakes, EndFails, FailsAloud, AcksWith
      <3> QED
        BY <2>1, <3>1, <3>2
    <2>5. CASE ~\E st \in {k.state, "R_DATA"} : FailsAloud(st)
      <3> DEFINE Ok(status, st, f, pos) ==
              \/ AcksWith(st, status, f, pos, k.obuf) /\ (st = "R_ATTR" => f \in Names)
              \/ AcksWith(st, status, f, pos, <<>>) /\ (st = "R_ATTR" => f \in Names)
      <3>1. \/ \E pos \in Nat, units \in Seq(Nat) :
                  AcksWith("R_DATA", "run", k.file, pos, Rest(units))
            \/ \E status \in {"run", "done", "failed"}, st \in {"R_FILE", "R_ATTR"},
                  f \in Nat, pos \in Nat : Ok(status, st, f, pos)
        <4>1. k.pos + Len(k.obuf) \in Nat /\ Names \subseteq Nat
          BY <1>2, FileLengths
        <4>2. \/ \E pos \in Nat, units \in Seq(Nat) :
                     AcksWith("R_DATA", "run", k.file, pos, Rest(units))
              \/ AcksWith("R_FILE", "run", k.file, k.pos, k.obuf)
              \/ p.d[1] \in Names /\ AcksWith("R_ATTR", "run", p.d[1], k.pos, k.obuf)
              \/ AcksWith("R_FILE", "done", k.file, k.pos, k.obuf)
              \/ k.file \in Names /\ AcksWith("R_ATTR", "run", k.file, k.pos, k.obuf)
              \/ AcksWith("R_FILE", "failed", k.file, k.pos, k.obuf)
              \/ AcksWith("R_FILE", "run", k.file, k.pos + Len(k.obuf), <<>>)
          <5>1. /\ ~FailsAloud(k.state) /\ ~FailsAloud("R_DATA")
                /\ k.state \in {"R_ATTR", "R_DATA"} => k.file \in Names
            BY <1>2, <2>5
          <5>2. ~DataFails(p) /\ ~EndFails(p)
            BY <5>1 DEF DataFails, EndFails
          <5>3. DataTakes(p) => \E pos \in Nat, units \in Seq(Nat) :
                                   AcksWith("R_DATA", "run", k.file, pos, Rest(units))
            BY Zenon DEF DataTakes
          <5>4. EndTakes(p) => AcksWith("R_FILE", "run", k.file, k.pos + Len(k.obuf), <<>>)
            BY DEF EndTakes
          <5> QED
            <6>1. CASE k.state \in {"R_WAIT", "R_FILE"}
              BY <5>1, <5>2, <5>3, <5>4, <6>1, Zenon DEF ReceiveStep
            <6>2. CASE k.state = "R_ATTR"
              BY <5>1, <5>2, <5>3, <5>4, <6>2, Zenon DEF ReceiveStep
            <6>3. CASE k.state \notin {"R_WAIT", "R_FILE", "R_ATTR"}
              BY <5>1, <5>2, <5>3, <5>4, <6>3, Zenon DEF ReceiveStep
            <6> QED
              BY <6>1, <6>2, <6>3, Zenon
        <4> QED
          BY <1>2, <4>1, <4>2
      <3>2. Len(<<>>) < ObufLen /\ Len(k.obuf) < ObufLen
        BY <1>2
      <3>3. CASE \E status \in {"run", "done", "failed"}, st \in {"R_FILE", "R_ATTR"},
                    f \in Nat, pos \in Nat :
                       AcksWith(st, status, f, pos, k.obuf) /\ (st = "R_ATTR" => f \in Names)
        <4>1. PICK status \in {"run", "done", "failed"}, st \in {"R_FILE", "R_ATTR"},
                   f \in Nat, pos \in Nat :
                       AcksWith(st, status, f, pos, k.obuf) /\ (st = "R_ATTR" => f \in Names)
          BY <3>3, Zenon
        <4>2. /\ st \in RecvStates /\ st # "R_DATA"
              /\ st \in {"R_ATTR", "R_DATA"} => f \in Names
          BY <4>1 DEF RecvStates
        <4> QED
          BY <2>2, <3>2, <4>1, <4>2
      <3>4. CASE \E status \in {"run", "done", "failed"}, st \in {"R_FILE", "R_ATTR"},
                    f \in Nat, pos \in Nat :
                       AcksWith(st, status, f, pos, <<>>) /\ (st = "R_ATTR" => f \in Names)
        <4>1. PICK status \in {"run", "done", "failed"}, st \in {"R_FILE", "R_ATTR"},
                   f \in Nat, pos \in Nat :
                       AcksWith(st, status, f, pos, <<>>) /\ (st = "R_ATTR" => f \in Names)
          BY <3>4, Zenon
        <4>2. /\ st \in RecvStates /\ st # "R_DATA"
              /\ st \in {"R_ATTR", "R_DATA"} => f \in Names
          BY <4>1 DEF RecvStates
        <4> QED
          BY <2>2, <3>2, <4>1, <4>2
      <3> QED
        BY <2>3, <3>1, <3>3, <3>4, Zenon
    <2> QED
      BY <2>4, <2>5
  <1>6. keep' \in BOOLEAN /\ unwanted' \in Nat /\ k'.what = "recv"
    BY <1>1, <1>2, <1>5
  <1>7. /\ Running' => k'.state \in (IF k'.what = "recv" THEN RecvStates ELSE SendStates)
        /\ k'.state \in {"R_ATTR", "R_DATA", "S_FILE", "S_ATTR", "S_DATA"} => k'.file \in Names
        /\ Running' /\ FileOpen' => handles' > 0
    BY <1>5, <1>6 DEF Running, FileOpen, RecvStates
  <1> QED
    BY <1>3, <1>4, <1>5, <1>6, <1>7 DEF DeviceTypes

\* What is sent of a file.
LEMMA UptoIs ==
    ASSUME NEW f \in Names
    PROVE  Upto(f) \in Int /\ Upto(f) <= Length[f] /\ (~GivesUp(f) => Upto(f) = Length[f])
  <1>1. PktUnits \in Nat \ {0} /\ Length[f] \in Nat
    BY ConstAssumption, FileLengths
  <1>2. ASSUME NEW n \in Nat
        PROVE  /\ ((n - 1) \div PktUnits) * PktUnits \in Int
               /\ ((n - 1) \div PktUnits) * PktUnits <= n
    BY <1>1, <1>2, Z3
  <1> QED
    BY <1>1, <1>2 DEF Upto

\* The device fails by itself.
LEMMA StopTypes ==
    ASSUME Types, Running, NEW why \in {"slots", "user"}, Stops(why)
    PROVE  /\ DeviceTypes' /\ PeerTypes' /\ toDev' = toDev /\ toPeer' = toPeer
           /\ k'.status # "idle" /\ UNCHANGED <<shorts, sessions>>
  <1>1. k' = Failed(why) /\ k \in Protocols /\ k.status = "run"
        /\ UNCHANGED <<slots, disk, handles, keep, iofaults, unwanted, altered, toDev, toPeer,
                       peer, shorts, swallowed, sessions>>
    BY DEF Stops, Types, DeviceTypes, Running, ghosts
  <1>2. /\ k' \in Protocols /\ k'.status = "failed" /\ k'.what = k.what /\ k'.opkt = k.opkt
        /\ k'.obuf = k.obuf /\ k'.state = k.state /\ k'.file = k.file
    BY <1>1 DEF Failed, Protocols
  <1> QED
    BY <1>1, <1>2 DEF Types, DeviceTypes, PeerTypes, Running, FileOpen

\* The steps of the device.
LEMMA DeviceSteps ==
    ASSUME Types, Device
    PROVE  /\ Running /\ UNCHANGED <<peer, keep, faults, sessions>>
           /\ (altered => altered') /\ altered' \in BOOLEAN
           /\ \/ NoSlot
              \/ \E p : Reads(p) /\ Ignored(p) /\ Stays /\ NoFileChange
              \/ \E p : Reads(p) /\ Acked(p) /\ SendStep(p) /\ disk' = disk
              \/ \E p : Reads(p) /\ Received(p) /\ ReceiveStep(p)
  <1>3. altered \in BOOLEAN
    BY DEF Types, DeviceTypes
  <1>1. CASE NoSlot
    BY <1>1, <1>3 DEF NoSlot, Stops
  <1>2. CASE toDev # <<>> /\ DeviceReads(Head(toDev))
    <2>1. PICK p : DeviceReads(p)
      BY <1>2
    <2>2. Reads(p)
      BY <2>1
         DEF DeviceReads, BadPacket, Echo, ErrorPacket, PreviousPacket, OtherPacket, NotAcked,
             SendCancelled, SendNextFile, SendAttributes, SendNextData, SendDone, Unexpected,
             ReceiveInit, ReceiveName, ReceiveBreak, ReceiveAttributes, ReceiveData,
             ReceiveEmpty, ReceiveEof, Received, Acked, Wanted
    <2>3. CASE Ignored(p)
      BY <1>3, <2>2, <2>3, AnswerSteps DEF Reads, NoFileChange
    <2>4. CASE SendCancelled(p) \/ (\E ok \in BOOLEAN : SendNextFile(p, ok))
               \/ SendAttributes(p) \/ (\E own \in BOOLEAN : SendNextData(p, own))
               \/ SendDone(p)
      <3>1. /\ Acked(p) /\ SendStep(p) /\ disk' = disk
            /\ (altered => altered') /\ altered' \in BOOLEAN
        BY <2>4, SendSteps
      <3> QED
        BY <2>2, <3>1 DEF Reads
    <2>5. CASE Unexpected(p) \/ ReceiveInit(p) \/ ReceiveName(p) \/ ReceiveBreak(p)
               \/ (\E binary \in BOOLEAN : ReceiveAttributes(p, binary))
               \/ (\E opens, writes \in BOOLEAN, n \in 0 .. 2 :
                      ReceiveData(p, opens, writes, n))
               \/ (\E opens \in BOOLEAN : ReceiveEmpty(p, opens))
               \/ (\E writes, closes \in BOOLEAN, n \in 0 .. 2 :
                      ReceiveEof(p, writes, n, closes))
      <3>2. 0 \in 0 .. 2 /\ TRUE \in BOOLEAN
        OBVIOUS
      <3>1. /\ Received(p) /\ ReceiveStep(p)
            /\ (altered => altered') /\ altered' \in BOOLEAN
        BY <2>5, <3>2, ReceiveSteps
      <3> QED
        BY <2>2, <3>1 DEF Reads
    <2> QED
      BY <2>1, <2>3, <2>4, <2>5 DEF DeviceReads, Ignored
  <1> QED
    BY <1>1, <1>2 DEF Device

\* Whatever the device does keeps the ranges of all variables.
LEMMA DeviceKeepsTypes ==
    ASSUME Types, Device
    PROVE  Types'
  <1>1. CASE NoSlot
    <2>1. Running /\ Stops("slots") /\ UNCHANGED faults
      BY <1>1 DEF NoSlot
    <2> QED
      BY <2>1, StopTypes DEF Types, LineTypes, Running
  <1>2. ASSUME NEW p, Reads(p), DeviceTypes', toPeer' \in Seq(Packets), k'.what = k.what,
               k'.status # "idle"
        PROVE  Types'
    <2>1. /\ toDev' \in Seq(Packets) /\ shorts' \in Nat /\ Running
          /\ UNCHANGED <<peer, faults, sessions>>
      BY <1>2, ReadTypes
    <2> QED
      BY <1>2, <2>1 DEF Types, PeerTypes, LineTypes, Running
  <1> QED
    BY <1>1, <1>2, DeviceSteps, AnswerTypes, SendTypes, ReceiveTypes

\* The other Kermit goes on to a packet of type t with data d, of the file f of which n
\* units have then been sent.
GoesOn(t, d, f, n) ==
    /\ Following.says = [t |-> t, seq |-> NextSeq(peer.says.seq), d |-> d]
    /\ Following.file = f /\ Following.pos = n

\* The other Kermit but for what it says, how far it is, and how often it has waited.
SamePeer(q) ==
    /\ q \in Peers /\ q.status = peer.status /\ q.role = peer.role
    /\ q.sending = peer.sending /\ q.last = peer.last /\ q.i = peer.i /\ q.got = peer.got
    /\ q.cancel = peer.cancel /\ q.cancelled = peer.cancelled /\ q.attrs = peer.attrs

\* A next packet changes nothing of the other Kermit but what it says.
LEMMA SayingIs ==
    ASSUME peer \in Peers, NEW t, NEW d, Packet(t, peer.says.seq + 1, d) \in Packets
    PROVE  /\ SamePeer(Saying(t, d))
           /\ Saying(t, d).says = Packet(t, peer.says.seq + 1, d)
           /\ Saying(t, d).file = peer.file /\ Saying(t, d).pos = peer.pos
  <1>1. PICK q \in Packets : q = Packet(t, peer.says.seq + 1, d)
    OBVIOUS
  <1>2. Saying(t, d) = [peer EXCEPT !.says = q, !.waits = 0]
    BY <1>1 DEF Saying
  <1>3. SamePeer([peer EXCEPT !.says = q, !.waits = 0])
    BY <1>1 DEF SamePeer, Peers
  <1>4. /\ [peer EXCEPT !.says = q, !.waits = 0].says = q
        /\ [peer EXCEPT !.says = q, !.waits = 0].file = peer.file
        /\ [peer EXCEPT !.says = q, !.waits = 0].pos = peer.pos
    BY DEF Peers
  <1> QED
    BY <1>1, <1>2, <1>3, <1>4

\* What the other Kermit sends next.
LEMMA FollowingIs ==
    ASSUME PeerTypes, peer.role = "send", peer.says.t # "B"
    PROVE  /\ SamePeer(Following) /\ Following.says.t \in Says
           /\ Following.says.seq = NextSeq(peer.says.seq)
           /\ Following.says.t \notin {"S", "I"} /\ Following.file \in Names
           /\ \/ /\ peer.says.t \in {"S", "I", "Z"} /\ peer.file < peer.sending.files
                 /\ GoesOn("F", <<peer.file + 1>>, peer.file + 1, 0)
              \/ /\ peer.says.t \in {"S", "I", "Z"} /\ ~(peer.file < peer.sending.files)
                 /\ GoesOn("B", <<>>, peer.file, peer.pos)
              \/ /\ peer.says.t = "F" /\ peer.sending.attrs
                 /\ GoesOn("A", <<>>, peer.file, peer.pos)
              \/ /\ peer.says.t \in {"F", "A", "D"}
                 /\ peer.says.t = "F" => ~peer.sending.attrs
                 /\ peer.pos < Upto(peer.file)
                 /\ GoesOn("D", Chunk(peer.file, peer.pos), peer.file,
                           peer.pos + Len(Chunk(peer.file, peer.pos)))
              \/ /\ peer.says.t \in {"F", "A", "D"}
                 /\ peer.says.t = "F" => ~peer.sending.attrs
                 /\ ~(peer.pos < Upto(peer.file))
                 /\ GoesOn("Z", IF GivesUp(peer.file) THEN D ELSE <<>>, peer.file, peer.pos)
  <1>1. /\ peer \in Peers /\ peer.says.seq \in Numbers /\ NextSeq(peer.says.seq) \in Numbers
        /\ peer.sending.files \in Names /\ peer.file \in Names \cup {0} /\ peer.pos \in Nat
        /\ peer.says.t \in Says /\ (peer.says.t \in {"S", "I"} \/ peer.file \in Names)
    BY Numbering, FileLengths DEF PeerTypes, Peers, Packets
  <1>2. ASSUME NEW t \in Says, NEW d \in Seq(Nat) \cup Seq(Letters),
               t = "D" => d \in Seq(Nat), t = "F" => \E f \in Names : d = <<f>>,
               NEW f \in Names, NEW n \in Nat
        PROVE  /\ Packet(t, peer.says.seq + 1, d)
                     = [t |-> t, seq |-> NextSeq(peer.says.seq), d |-> d]
               /\ Packet(t, peer.says.seq + 1, d) \in Packets
    <2>1. Packet(t, peer.says.seq + 1, d) = [t |-> t, seq |-> NextSeq(peer.says.seq), d |-> d]
      BY DEF Packet, NextSeq
    <2> QED
      BY <1>1, <1>2, <2>1 DEF Packets
  <1> DEFINE units == Chunk(peer.file, peer.pos)
  <1>3. CASE peer.says.t \in {"S", "I", "Z"} /\ peer.file < peer.sending.files
    <2>1. Following = [Saying("F", <<peer.file + 1>>) EXCEPT !.file = @ + 1, !.pos = 0]
      BY <1>3 DEF Following
    <2>2. peer.file + 1 \in Names /\ <<peer.file + 1>> \in Seq(Nat)
      BY <1>1, <1>3, FileLengths DEF Names
    <2>3. /\ Packet("F", peer.says.seq + 1, <<peer.file + 1>>)
               = [t |-> "F", seq |-> NextSeq(peer.says.seq), d |-> <<peer.file + 1>>]
          /\ Packet("F", peer.says.seq + 1, <<peer.file + 1>>) \in Packets
      BY <1>2, <2>2 DEF Says
    <2> QED
      <3>1. PICK q : /\ q = Saying("F", <<peer.file + 1>>) /\ SamePeer(q)
                     /\ q.file = peer.file
                     /\ q.says = Packet("F", peer.says.seq + 1, <<peer.file + 1>>)
        BY <1>1, <2>3, SayingIs
      <3>2. Following = [q EXCEPT !.file = peer.file + 1, !.pos = 0]
        BY <2>1, <3>1
      <3>3. SamePeer(Following) /\ Following.says = q.says /\ Following.file = peer.file + 1
            /\ Following.pos = 0
        BY <2>2, <3>1, <3>2, FileLengths DEF SamePeer, Peers
      <3> QED
        BY <1>1, <1>3, <2>2, <2>3, <3>1, <3>3 DEF GoesOn, Says
  <1>4. CASE peer.says.t \in {"S", "I", "Z"} /\ ~(peer.file < peer.sending.files)
    <2>1. Following = Saying("B", <<>>)
      BY <1>4 DEF Following
    <2>2. peer.file \in Names
      BY <1>1, <1>4, FileLengths
    <2>3. /\ Packet("B", peer.says.seq + 1, <<>>)
               = [t |-> "B", seq |-> NextSeq(peer.says.seq), d |-> <<>>]
          /\ Packet("B", peer.says.seq + 1, <<>>) \in Packets
      BY <1>2, <2>2, Texts DEF Says
    <2> QED
      BY <1>1, <1>4, <2>1, <2>2, <2>3, SayingIs DEF GoesOn, Says
  <1>5. CASE peer.says.t = "F" /\ peer.sending.attrs
    <2>1. Following = Saying("A", <<>>)
      BY <1>5 DEF Following
    <2>2. peer.file \in Names
      BY <1>1, <1>5
    <2>3. /\ Packet("A", peer.says.seq + 1, <<>>)
               = [t |-> "A", seq |-> NextSeq(peer.says.seq), d |-> <<>>]
          /\ Packet("A", peer.says.seq + 1, <<>>) \in Packets
      BY <1>2, <2>2, Texts DEF Says
    <2> QED
      BY <1>1, <1>5, <2>1, <2>2, <2>3, SayingIs DEF GoesOn, Says
  <1>6. CASE peer.says.t \in {"F", "A", "D"} /\ (peer.says.t = "F" => ~peer.sending.attrs)
             /\ peer.pos < Upto(peer.file)
    <2>1. Following = [Saying("D", units) EXCEPT !.pos = @ + Len(units)]
      BY <1>6 DEF Following
    <2>2. peer.file \in Names /\ units \in Seq(Nat)
      BY <1>1, <1>6, NextPiece DEF Chunk
    <2> HIDE DEF units
    <2>3. peer.pos + Len(units) \in Nat
      BY <1>1, <2>2
    <2>4. /\ Packet("D", peer.says.seq + 1, units)
               = [t |-> "D", seq |-> NextSeq(peer.says.seq), d |-> units]
          /\ Packet("D", peer.says.seq + 1, units) \in Packets
      BY <1>2, <2>2 DEF Says
    <2>5. /\ GoesOn("D", units, peer.file, peer.pos + Len(units))
          /\ SamePeer(Following) /\ Following.says.t \in Says
          /\ Following.says.seq = NextSeq(peer.says.seq)
          /\ Following.says.t \notin {"S", "I"} /\ Following.file \in Names
      <3>1. PICK q : /\ q = Saying("D", units) /\ SamePeer(q) /\ q.file = peer.file
                     /\ q.pos = peer.pos /\ q.says = Packet("D", peer.says.seq + 1, units)
        BY <1>1, <2>4, SayingIs
      <3>2. Following = [q EXCEPT !.pos = peer.pos + Len(units)]
        BY <2>1, <3>1
      <3>3. SamePeer(Following) /\ Following.says = q.says /\ Following.file = peer.file
            /\ Following.pos = peer.pos + Len(units)
        BY <2>3, <3>1, <3>2 DEF SamePeer, Peers
      <3> QED
        BY <1>1, <1>6, <2>2, <2>4, <3>1, <3>3 DEF GoesOn, Says
    <2> QED
      BY <1>6, <2>5 DEF units
  <1>7. CASE peer.says.t \in {"F", "A", "D"} /\ (peer.says.t = "F" => ~peer.sending.attrs)
             /\ ~(peer.pos < Upto(peer.file))
    <2>1. Following = Saying("Z", IF GivesUp(peer.file) THEN D ELSE <<>>)
      BY <1>7 DEF Following
    <2>2. PICK d \in Seq(Nat) \cup Seq(Letters) : d = IF GivesUp(peer.file) THEN D ELSE <<>>
      BY Texts
    <2>3. peer.file \in Names
      BY <1>1, <1>7
    <2>4. /\ Packet("Z", peer.says.seq + 1, d)
               = [t |-> "Z", seq |-> NextSeq(peer.says.seq), d |-> d]
          /\ Packet("Z", peer.says.seq + 1, d) \in Packets
      BY <1>2, <2>2, <2>3 DEF Says
    <2> QED
      BY <1>1, <1>7, <2>1, <2>2, <2>3, <2>4, SayingIs DEF GoesOn, Says
  <1> QED
    BY <1>1, <1>3, <1>4, <1>5, <1>6, <1>7 DEF Says

\* The other Kermit takes p, answers it and may cancel a file with the answer.
Takes(p, reply) ==
    /\ PeerRunning /\ peer.role = "recv" /\ p \in Packets /\ p.t # "E" /\ p.seq = peer.i
    /\ reply \in Packets /\ reply.t = "Y" /\ reply.seq = p.seq
    /\ reply.d \in {X, Z} <=> p.t = "D" /\ peer.cancel # <<>>
    /\ reply.d \in {X, Z} => reply.d = peer.cancel
    /\ toDev' = Append(toDev, reply) /\ peer'.last = <<reply>>
    /\ peer' \in Peers /\ peer'.i = NextSeq(peer.i)
    /\ peer'.status = (IF p.t = "B" THEN "done" ELSE "run")
    /\ peer'.role = "recv" /\ peer'.says = peer.says /\ peer'.sending = peer.sending
    /\ p.t = "F" => p.d[1] \in Names
    /\ peer'.file = (IF p.t = "F" THEN p.d[1] ELSE peer.file)
    /\ peer'.got = (IF p.t = "D" THEN [peer.got EXCEPT ![peer.file] = @ \o p.d] ELSE peer.got)
    /\ peer'.cancel = (IF reply.d \in {X, Z} THEN <<>> ELSE peer.cancel)
    /\ peer'.cancelled = peer.cancelled \cup
           (IF reply.d \notin {X, Z} THEN {}
            ELSE IF reply.d = X THEN {peer.file} ELSE peer.file .. Len(Length))

\* A packet the other Kermit wants is taken as Takes says.
LEMMA PeerTakesIs ==
    ASSUME PeerTypes, NEW p \in Packets, PeerTakes(p)
    PROVE  \E reply \in Packets : Takes(p, reply)
  <1> DEFINE cancels == p.t = "D" /\ peer.cancel # <<>>
             text == IF p.t = "S" /\ peer.attrs THEN <<"A">>
                     ELSE IF cancels THEN peer.cancel ELSE <<>>
             reply == Packet("Y", p.seq, text)
             file == IF p.t = "F" THEN p.d[1] ELSE peer.file
             got == IF p.t = "D" THEN [peer.got EXCEPT ![file] = @ \o p.d] ELSE peer.got
             gone == IF ~cancels THEN {}
                     ELSE IF peer.cancel = X THEN {file} ELSE file .. Len(Length)
  <1>1. /\ peer \in Peers /\ PeerRunning /\ peer.status = "run" /\ peer.role = "recv"
        /\ p.t # "E" /\ p.seq = peer.i
        /\ peer.i \in Numbers /\ NextSeq(peer.i) \in Numbers
        /\ peer.cancel \in {<<>>, X, Z} /\ peer.file \in 0 .. Len(Length)
        /\ peer.got \in [Names -> Seq(Nat)]
    BY Numbering DEF PeerTypes, Peers, PeerTakes, PeerReads, PeerRunning
  <1>2. /\ peer' = [peer EXCEPT
              !.status = IF p.t = "B" THEN "done" ELSE peer.status,
              !.i = NextSeq(peer.i), !.waits = 0, !.last = <<reply>>, !.file = file,
              !.got = got, !.cancel = IF cancels THEN <<>> ELSE peer.cancel,
              !.cancelled = peer.cancelled \cup gone]
        /\ toDev' = Append(toDev, reply)
    BY DEF PeerTakes, PeerSays
  <1>3. /\ reply \in Packets /\ reply.t = "Y" /\ reply.seq = p.seq
        /\ reply.d = text
    <2>1. text \in Seq(Nat) \cup Seq(Letters)
      BY <1>1, Texts
    <2>2. Packet("Y", p.seq, text) \in Packets
      BY <1>1, <2>1, PacketIs DEF Answers
    <2> HIDE DEF text
    <2> QED
      BY <1>1, <2>2, PacketParts
  <1>4. /\ text \in {X, Z} <=> cancels
        /\ text \in {X, Z} => text = peer.cancel
    <2>1. /\ <<"A">> \notin {X, Z} /\ <<>> \notin {X, Z}
      BY DEF X, Z
    <2> QED
      BY <1>1, <2>1
  <1>5. file \in 0 .. Len(Length) /\ (p.t = "F" => p.d[1] \in Names) /\ file \in Nat
    BY <1>1, FileLengths DEF Packets
  <1>6. got \in [Names -> Seq(Nat)]
    <2>1. CASE p.t = "D"
      <3>1. p.d \in Seq(Nat)
        BY <2>1 DEF Packets
      <3>2. \A f \in Names : peer.got[f] \o p.d \in Seq(Nat)
        BY <1>1, <3>1
      <3> QED
        BY <1>1, <2>1, <3>2
    <2>2. CASE p.t # "D"
      BY <1>1, <2>2
    <2> QED
      BY <2>1, <2>2
  <1>7. gone \in SUBSET Nat
    BY <1>5, FileLengths
  <1>8. /\ got = (IF p.t = "D" THEN [peer.got EXCEPT ![peer.file] = @ \o p.d] ELSE peer.got)
        /\ gone = (IF ~cancels THEN {}
                   ELSE IF peer.cancel = X THEN {peer.file} ELSE peer.file .. Len(Length))
    OBVIOUS
  <1> HIDE DEF cancels, text, reply, file, got, gone
  <1>9. PICK st \in {"run", "done"}, cn \in {<<>>, X, Z}, gn \in SUBSET Nat :
           /\ st = (IF p.t = "B" THEN "done" ELSE "run")
           /\ cn = (IF cancels THEN <<>> ELSE peer.cancel)
           /\ gn = peer.cancelled \cup gone
           /\ peer' = [peer EXCEPT
                 !.status = st, !.i = NextSeq(peer.i), !.waits = 0, !.last = <<reply>>,
                 !.file = file, !.got = got, !.cancel = cn, !.cancelled = gn]
    <2>1. PICK gn \in SUBSET Nat : gn = peer.cancelled \cup gone
      <3>1. peer.cancelled \in SUBSET Nat
        BY <1>1 DEF Peers
      <3> QED
        BY <1>7, <3>1
    <2>2. PICK st \in {"run", "done"} : st = (IF p.t = "B" THEN "done" ELSE peer.status)
      BY <1>1
    <2>3. PICK cn \in {<<>>, X, Z} : cn = (IF cancels THEN <<>> ELSE peer.cancel)
      BY <1>1
    <2> QED
      BY <1>1, <1>2, <2>1, <2>2, <2>3
  <1>10. /\ peer' \in Peers /\ peer'.last = <<reply>> /\ peer'.i = NextSeq(peer.i)
         /\ peer'.status = st
         /\ peer'.role = peer.role /\ peer'.says = peer.says /\ peer'.sending = peer.sending
         /\ peer'.file = file /\ peer'.got = got /\ peer'.cancel = cn
         /\ peer'.cancelled = gn
    <2>1. <<reply>> \in Seq(Packets) /\ 0 \in Nat
      BY <1>3
    <2>2. PICK ls \in Seq(Packets) : ls = <<reply>>
      BY <2>1
    <2>3. PICK n \in Numbers : n = NextSeq(peer.i)
      BY <1>1
    <2>4. peer' = [peer EXCEPT
                 !.status = st, !.i = n, !.waits = 0, !.last = ls,
                 !.file = file, !.got = got, !.cancel = cn, !.cancelled = gn]
      BY <1>9, <2>2, <2>3
    <2>5. peer' \in Peers
      <3>1. /\ peer \in Peers /\ st \in {"run", "done"} /\ n \in Numbers /\ 0 \in Nat
            /\ ls \in Seq(Packets) /\ file \in 0 .. Len(Length)
            /\ got \in [Names -> Seq(Nat)] /\ cn \in {<<>>, X, Z} /\ gn \in SUBSET Nat
        BY <1>1, <1>5, <1>6, <1>9, <2>2, <2>3
      <3>2. \A q : q \in SUBSET Nat => [peer EXCEPT
                 !.status = st, !.i = n, !.waits = 0, !.last = ls,
                 !.file = file, !.got = got, !.cancel = cn, !.cancelled = q] \in Peers
        BY <3>1 DEF Peers
      <3> QED
        BY <2>4, <3>1, <3>2
    <2>6. /\ peer'.last = ls /\ peer'.i = n /\ peer'.status = st
          /\ peer'.role = peer.role /\ peer'.says = peer.says
          /\ peer'.sending = peer.sending
          /\ peer'.file = file /\ peer'.got = got /\ peer'.cancel = cn
          /\ peer'.cancelled = gn
      BY <1>1, <2>4 DEF Peers
    <2> QED
      BY <2>2, <2>3, <2>5, <2>6
  <1>11. /\ peer'.cancel = (IF reply.d \in {X, Z} THEN <<>> ELSE peer.cancel)
         /\ peer'.cancelled = peer.cancelled \cup
               (IF reply.d \notin {X, Z} THEN {}
                ELSE IF reply.d = X THEN {peer.file} ELSE peer.file .. Len(Length))
    BY <1>3, <1>4, <1>8, <1>9, <1>10 DEF cancels
  <1>12. Takes(p, reply)
    <2>1. /\ PeerRunning /\ peer.role = "recv" /\ p \in Packets /\ p.t # "E" /\ p.seq = peer.i
          /\ reply \in Packets /\ reply.t = "Y" /\ reply.seq = p.seq
          /\ toDev' = Append(toDev, reply)
      BY <1>1, <1>2, <1>3
    <2>2. /\ reply.d \in {X, Z} <=> p.t = "D" /\ peer.cancel # <<>>
          /\ reply.d \in {X, Z} => reply.d = peer.cancel
      BY <1>3, <1>4 DEF cancels
    <2>3. peer'.last = <<reply>> /\ peer' \in Peers /\ peer'.i = NextSeq(peer.i)
          /\ peer'.status = (IF p.t = "B" THEN "done" ELSE "run")
      BY <1>9, <1>10
    <2>4. peer'.role = "recv" /\ peer'.says = peer.says /\ peer'.sending = peer.sending
      BY <1>1, <1>10
    <2>5. /\ p.t = "F" => p.d[1] \in Names
          /\ peer'.file = (IF p.t = "F" THEN p.d[1] ELSE peer.file)
      BY <1>5, <1>10 DEF file
    <2>6. peer'.got = (IF p.t = "D" THEN [peer.got EXCEPT ![peer.file] = @ \o p.d]
                                    ELSE peer.got)
      BY <1>8, <1>10
    <2> QED
      BY <1>11, <2>1, <2>2, <2>3, <2>4, <2>5, <2>6, Zenon DEF Takes
  <1> QED
    BY <1>3, <1>12

\* The other Kermit with what it says, and the packet it sends.
LEMMA PeerKeeps ==
    ASSUME Types, UNCHANGED <<device, shorts, sessions>>, faults' \in Nat,
           toPeer' \in Seq(Packets), toDev' \in Seq(Packets),
           peer' \in Peers, Len(peer'.last) <= 1, peer'.role = peer.role,
           peer'.sending = peer.sending,
           peer.role = "send" =>
               peer'.says.t \in Says /\ (peer'.says.t \in {"S", "I"} \/ peer'.file \in Names)
    PROVE  Types'
  <1>1. DeviceTypes'
    BY DEF Types, DeviceTypes, device, Running, FileOpen
  <1> QED
    BY <1>1 DEF Types, PeerTypes, LineTypes, device

\* The other Kermit but for its state and how often it has waited.
LEMMA WithStatus ==
    ASSUME peer \in Peers, NEW st \in {"run", "done", "failed", "gaveup", "aborted"}
    PROVE  /\ [peer EXCEPT !.status = st] \in Peers
           /\ \A q \in {[peer EXCEPT !.status = st], [peer EXCEPT !.waits = @ + 1]} :
                 /\ q \in Peers
                 /\ q.last = peer.last /\ q.role = peer.role /\ q.sending = peer.sending
                 /\ q.says = peer.says /\ q.file = peer.file /\ q.got = peer.got
                 /\ q.i = peer.i /\ q.cancel = peer.cancel /\ q.cancelled = peer.cancelled
                 /\ q.pos = peer.pos
  <1>1. [peer EXCEPT !.status = st] \in Peers
    BY DEF Peers
  <1>2. [peer EXCEPT !.waits = @ + 1] \in Peers
    <2>1. PICK n \in Nat : n = peer.waits + 1
      BY DEF Peers
    <2>2. [peer EXCEPT !.waits = n] \in Peers
      BY DEF Peers
    <2> QED
      BY <2>1, <2>2
  <1>3. ASSUME NEW q \in {[peer EXCEPT !.status = st], [peer EXCEPT !.waits = @ + 1]}
        PROVE  /\ q.last = peer.last /\ q.role = peer.role /\ q.sending = peer.sending
               /\ q.says = peer.says /\ q.file = peer.file /\ q.got = peer.got
               /\ q.i = peer.i /\ q.cancel = peer.cancel /\ q.cancelled = peer.cancelled
               /\ q.pos = peer.pos
    <2>1. CASE q = [peer EXCEPT !.status = st]
      BY <2>1 DEF Peers
    <2>2. CASE q = [peer EXCEPT !.waits = @ + 1]
      BY <2>2 DEF Peers
    <2> QED
      BY <1>3, <2>1, <2>2
  <1> QED
    BY <1>1, <1>2, <1>3

\* What the other Kermit sends when it has waited for too long.
LEMMA ReminderIs ==
    ASSUME PeerTypes
    PROVE  /\ Packet("E", 0, <<>>) \in Packets /\ Packet("N", peer.i, <<>>) \in Packets
           /\ Packet("N", peer.i, <<>>).seq = peer.i
           /\ Reminder \in Packets
           /\ Reminder = peer.says \/ Reminder = Packet("N", peer.i, <<>>)
  <1>1. peer.i \in Numbers /\ peer.says \in Packets
    BY DEF PeerTypes, Peers
  <1>2. Packet("E", 0, <<>>) \in Packets /\ Packet("N", peer.i, <<>>) \in Packets
    BY <1>1, PacketIs, Numbering, Texts DEF Answers
  <1> QED
    BY <1>1, <1>2, PacketParts DEF Reminder

\* A step of the other Kermit.
LEMMA PeerKeepsTypes ==
    ASSUME Types,
           \/ toPeer # <<>> /\ PeerReadsNext(Head(toPeer))
           \/ PeerRepeatsItself /\ faults' \in Nat
           \/ PeerAborts
    PROVE  Types'
  <1>1. /\ toDev \in Seq(Packets) /\ toPeer \in Seq(Packets) /\ peer \in Peers
        /\ faults \in Nat /\ Len(peer.last) <= 1 /\ PeerTypes
    BY DEF Types, LineTypes, PeerTypes
  <1>2. \A st \in {"run", "done", "failed", "gaveup", "aborted"} :
           \A q \in {[peer EXCEPT !.status = st], [peer EXCEPT !.waits = @ + 1]} :
                 /\ q \in Peers /\ Len(q.last) <= 1
                 /\ q.last = peer.last /\ q.role = peer.role /\ q.sending = peer.sending
                 /\ q.says = peer.says /\ q.file = peer.file
    BY <1>1, WithStatus
  <1>3. CASE toPeer # <<>> /\ PeerReadsNext(Head(toPeer))
    <2>1. PICK p \in Packets : PeerReadsNext(p)
      BY <1>1, <1>3, LineOps
    <2>2. PeerReads(p)
      BY <2>1 DEF PeerReadsNext, PeerNext, PeerAgain, PeerTakes, PeerRepeats, PeerStops,
                  PeerIgnores
    <2>3. /\ toPeer' \in Seq(Packets) /\ UNCHANGED <<device, shorts, sessions>>
          /\ faults' \in Nat /\ PeerRunning
      BY <1>1, <2>2, LineOps DEF PeerReads, ghosts
    <2>4. CASE PeerNext(p)
      <3>1. peer.role = "send"
        BY <2>4 DEF PeerNext
      <3>2. CASE peer.says.t # "B"
        <4>1. peer' = Following /\ toDev' = Append(toDev, Following.says)
          BY <2>4, <3>2 DEF PeerNext, PeerSays
        <4>2. /\ SamePeer(Following) /\ Following.says.t \in Says
              /\ Following.file \in Names
          BY <1>1, <3>1, <3>2, FollowingIs
        <4>3. Following.says \in Packets
          BY <4>2 DEF SamePeer, Peers
        <4> QED
          BY <1>1, <2>3, <3>1, <4>1, <4>2, <4>3, LineOps, PeerKeeps DEF SamePeer
      <3>3. CASE peer.says.t = "B"
        BY <1>1, <1>2, <2>3, <2>4, <3>1, <3>3, PeerKeeps DEF PeerNext, PeerTypes
      <3> QED
        BY <3>2, <3>3
    <2>5. CASE PeerAgain(p)
      <3>1. peer' = peer /\ toDev' = Append(toDev, peer.says) /\ peer.says \in Packets
        BY <1>1, <2>5 DEF PeerAgain, PeerSays, Peers
      <3> QED
        BY <1>1, <2>3, <3>1, LineOps, PeerKeeps DEF PeerTypes
    <2>6. CASE PeerTakes(p)
      <3>1. PICK reply \in Packets : Takes(p, reply)
        BY <1>1, <2>6, PeerTakesIs
      <3>2. toDev' \in Seq(Packets) /\ peer' \in Peers /\ Len(peer'.last) <= 1
            /\ peer'.role = peer.role /\ peer'.sending = peer.sending /\ peer.role # "send"
        BY <1>1, <3>1, LineOps DEF Takes
      <3> QED
        BY <2>3, <3>2, PeerKeeps
    <2>7. CASE PeerRepeats(p)
      <3>1. peer' = peer
            /\ (toDev' = toDev \o peer.last \/ toDev' = Append(toDev, Packet("N", peer.i, <<>>)))
        BY <2>7 DEF PeerRepeats, PeerSays
      <3>2. peer.last \in Seq(Packets) /\ Packet("N", peer.i, <<>>) \in Packets
        BY <1>1, <2>7, ReminderIs DEF Peers, PeerRepeats
      <3>3. toDev' \in Seq(Packets)
        <4>1. toDev \o peer.last \in Seq(Packets)
          BY <1>1, <3>2, ConcatProperties
        <4>2. Append(toDev, Packet("N", peer.i, <<>>)) \in Seq(Packets)
          BY <1>1, <3>2, LineOps
        <4> QED
          BY <3>1, <4>1, <4>2
      <3> QED
        BY <1>1, <2>3, <3>1, <3>3, PeerKeeps DEF PeerTypes
    <2>8. CASE PeerStops(p)
      BY <1>1, <1>2, <2>3, <2>8, PeerKeeps DEF PeerStops, PeerTypes
    <2>9. CASE PeerIgnores(p)
      BY <1>1, <2>3, <2>9, PeerKeeps DEF PeerIgnores, PeerTypes
    <2> QED
      BY <2>1, <2>4, <2>5, <2>6, <2>7, <2>8, <2>9 DEF PeerReadsNext
  <1>4. CASE (PeerRepeatsItself /\ faults' \in Nat) \/ PeerAborts
    <2>1. /\ UNCHANGED <<device, toPeer, shorts, sessions>> /\ PeerRunning
          /\ PeerRepeatsItself \/ faults' \in Nat
      BY <1>1, <1>4 DEF PeerRepeatsItself, PeerAborts, Uses, ghosts
    <2>2. PICK q \in Peers, r \in Packets :
              /\ peer' = q /\ Len(q.last) <= 1 /\ q.role = peer.role
              /\ q.sending = peer.sending /\ q.says = peer.says /\ q.file = peer.file
              /\ toDev' = Append(toDev, r)
      BY <1>1, <1>2, <1>4, ReminderIs DEF PeerRepeatsItself, PeerAborts, PeerSays
    <2>3. toDev' \in Seq(Packets) /\ faults' \in Nat
      BY <1>1, <1>4, <2>2, LineOps DEF PeerAborts, Uses
    <2> QED
      BY <1>1, <2>1, <2>2, <2>3, PeerKeeps DEF PeerTypes
  <1> QED
    BY <1>3, <1>4

\* What a command starts from.
LEMMA Beginnings ==
    /\ Protocol \in Protocols /\ NoPeer \in Peers
    /\ \A first \in {"S", "I"} : Packet(first, 0, <<>>) = [t |-> first, seq |-> 0, d |-> <<>>]
    /\ \A first \in {"S", "I"} : Packet(first, 0, <<>>) \in Packets
  <1>1. /\ 0 \in Numbers /\ Len(Length) \in Nat /\ <<>> \in Seq(Nat) /\ <<>> \in Seq(Packets)
        /\ <<>> \in Seq(Nat) \cup Seq(Letters)
    BY Numbering, FileLengths
  <1>2. \A first \in {"S", "I"} : Packet(first, 0, <<>>) = [t |-> first, seq |-> 0, d |-> <<>>]
    BY <1>1, PacketParts
  <1>3. ASSUME NEW first \in {"S", "I"} PROVE Packet(first, 0, <<>>) \in Packets
    BY <1>1, PacketIs DEF Says
  <1>4. Protocol \in Protocols
    BY <1>1 DEF Protocol, Protocols
  <1>5. NoPeer \in Peers
    <2>1. Packet("S", 0, <<>>) \in Packets
      BY <1>3
    <2>2. NoSending \in [first : {"S", "I"}, files : 0 .. Len(Length), attrs : BOOLEAN,
                         whole : BOOLEAN, binary : BOOLEAN, keep : BOOLEAN]
      BY <1>1 DEF NoSending
    <2>3. [f \in Names |-> <<>>] \in [Names -> Seq(Nat)]
      BY <1>1
    <2>4. {} \in SUBSET Nat
      OBVIOUS
    <2> QED
      BY <1>1, <2>1, <2>2, <2>3, <2>4 DEF NoPeer, Peers
  <1> QED
    BY <1>2, <1>3, <1>4, <1>5

\* The variables start in their ranges.
LEMMA InitTypes ==
    ASSUME Init
    PROVE  Types
  <1>1. /\ disk \in [Names -> {NoFile} \cup Seq(Nat)]
        /\ slots \in SlotTables /\ handles \in 0 .. NumFiles /\ ObufLen > 0 /\ ObufLen \in Nat
    <2>1. Seq({0}) \subseteq Seq(Nat)
      OBVIOUS
    <2>2. Retry \in Nat /\ NumFiles \in Nat \ {0} /\ ObufLen \in Nat \ {0}
          /\ OldFile \in [Names -> {NoFile} \cup Seq({0})]
      BY ConstAssumption
    <2> QED
      BY <2>1, <2>2 DEF Init, SlotTables
  <1>2. k = Protocol /\ peer = NoPeer /\ toDev = <<>> /\ toPeer = <<>>
        /\ faults = 0 /\ sessions = 0 /\ shorts = 0 /\ keep = FALSE /\ iofaults = 0
        /\ unwanted = 0 /\ altered = FALSE
    BY DEF Init
  <1>3. /\ k.status = "idle" /\ k.what = "recv" /\ k.state = "none" /\ k.opkt = <<>>
        /\ k.obuf = <<>>
    BY <1>2 DEF Protocol
  <1>4. peer.role = "none" /\ peer.last = <<>>
    BY <1>2 DEF NoPeer
  <1>5. DeviceTypes
    <2>1. k \in Protocols /\ Len(k.opkt) <= 1 /\ Len(k.obuf) < ObufLen /\ ~Running
          /\ k.state \notin {"R_ATTR", "R_DATA", "S_FILE", "S_ATTR", "S_DATA"}
      BY <1>1, <1>2, <1>3, Beginnings DEF Running
    <2>2. keep \in BOOLEAN /\ iofaults \in Nat /\ unwanted \in Nat /\ altered \in BOOLEAN
      BY <1>2
    <2> QED
      BY <1>1, <2>1, <2>2 DEF DeviceTypes
  <1>6. PeerTypes
    BY <1>2, <1>3, <1>4, Beginnings DEF PeerTypes
  <1>7. LineTypes
    BY <1>2, <1>3 DEF LineTypes
  <1> QED
    BY <1>5, <1>6, <1>7 DEF Types

\* A command starts.
StartsReceive(s) ==
    /\ k' \in Protocols /\ k'.status = "run" /\ k'.why = "none" /\ k'.what = "recv"
    /\ k'.state = "R_WAIT" /\ k'.opkt = <<>> /\ k'.obuf = <<>> /\ k'.r_seq = 0 /\ k'.pos = 0
    /\ peer' \in Peers /\ peer'.status = "run" /\ peer'.role = "send" /\ peer'.sending = s
    /\ peer'.says = Packet(s.first, 0, <<>>) /\ peer'.last = <<>> /\ peer'.cancelled = {}
    /\ peer'.got = [f \in Names |-> <<>>] /\ peer'.file = 0 /\ peer'.pos = 0
    /\ peer'.cancel = <<>>
    /\ toDev' = <<peer'.says>> /\ toPeer' = <<>>

StartsSend(r) ==
    LET p == Packet("S", 0, <<>>) IN
    /\ k' \in Protocols /\ k'.status = "run" /\ k'.why = "none" /\ k'.what = "send"
    /\ k'.state = "S_INIT" /\ k'.opkt = <<p>> /\ k'.obuf = <<>> /\ k'.r_seq = 0 /\ k'.s_seq = 0
    /\ k'.file = 0 /\ k'.pos = 0
    /\ peer' \in Peers /\ peer'.status = "run" /\ peer'.role = "recv" /\ peer'.cancel = r.cancel
    /\ peer'.i = 0 /\ peer'.last = <<>> /\ peer'.cancelled = {}
    /\ peer'.got = [f \in Names |-> <<>>] /\ peer'.file = 0
    /\ toPeer' = <<p>> /\ toDev' = <<>>

\* The two ways a session starts.
LEMMA StartIs ==
    /\ \A s \in Sendings : StartReceive(s) => StartsReceive(s)
    /\ \A r \in Receivings : StartSend(r) => StartsSend(r)
  <1>1. ASSUME NEW s \in Sendings, StartReceive(s)
        PROVE  StartsReceive(s)
    <2>1. s \in [first : {"S", "I"}, files : Names, attrs : BOOLEAN, whole : BOOLEAN,
                 binary : BOOLEAN, keep : BOOLEAN]
      BY ConstAssumption
    <2>2. /\ s \in [first : {"S", "I"}, files : 0 .. Len(Length), attrs : BOOLEAN,
                    whole : BOOLEAN, binary : BOOLEAN, keep : BOOLEAN]
          /\ s.first \in {"S", "I"} /\ s.binary \in BOOLEAN
      BY <2>1, FileLengths
    <2>3. PICK p \in Packets : p = Packet(s.first, 0, <<>>)
      BY <2>2, Beginnings
    <2>4. /\ k' = [Protocol EXCEPT !.status = "run", !.state = "R_WAIT", !.binary = s.binary]
          /\ peer' = [NoPeer EXCEPT !.status = "run", !.role = "send", !.sending = s, !.says = p]
          /\ toDev' = <<p>> /\ toPeer' = <<>>
      BY <1>1, <2>3 DEF StartReceive
    <2>5. /\ k' \in Protocols /\ k'.status = "run" /\ k'.why = "none" /\ k'.what = "recv"
          /\ k'.state = "R_WAIT" /\ k'.opkt = <<>> /\ k'.obuf = <<>> /\ k'.r_seq = 0
          /\ k'.pos = 0
      <3>1. k' \in Protocols
        BY <2>2, <2>4, Beginnings DEF Protocols, RecvStates
      <3> QED
        BY <2>4, <3>1 DEF Protocol
    <2>6. /\ peer' \in Peers /\ peer'.status = "run" /\ peer'.role = "send"
          /\ peer'.sending = s /\ peer'.says = p
      BY <2>2, <2>4, Beginnings DEF Peers
    <2>7. /\ peer'.last = <<>> /\ peer'.cancelled = {} /\ peer'.cancel = <<>>
          /\ peer'.got = [f \in Names |-> <<>>] /\ peer'.file = 0 /\ peer'.pos = 0
      BY <2>4 DEF NoPeer
    <2> QED
      BY <2>3, <2>4, <2>5, <2>6, <2>7 DEF StartsReceive
  <1>2. ASSUME NEW r \in Receivings, StartSend(r)
        PROVE  StartsSend(r)
    <2>1. r.attrs \in BOOLEAN /\ r.cancel \in {<<>>, X, Z} /\ r.binary \in BOOLEAN
      BY ConstAssumption
    <2>2. PICK p \in Packets : p = Packet("S", 0, <<>>)
      BY Beginnings
    <2>3. PICK a \in BOOLEAN, c \in {<<>>, X, Z} : a = r.attrs /\ c = r.cancel
      BY <2>1
    <2>4. /\ k' = [Protocol EXCEPT !.status = "run", !.what = "send", !.state = "S_INIT",
                                   !.opkt = <<p>>, !.binary = r.binary]
          /\ peer' = [NoPeer EXCEPT !.status = "run", !.role = "recv", !.cancel = c,
                                    !.attrs = a]
          /\ toPeer' = <<p>> /\ toDev' = <<>>
      BY <1>2, <2>2, <2>3 DEF StartSend
    <2>5. <<p>> \in Seq(Packets)
      OBVIOUS
    <2>6. /\ k' \in Protocols /\ k'.status = "run" /\ k'.why = "none" /\ k'.what = "send"
          /\ k'.state = "S_INIT" /\ k'.opkt = <<p>> /\ k'.obuf = <<>> /\ k'.r_seq = 0
          /\ k'.s_seq = 0 /\ k'.file = 0 /\ k'.pos = 0
      <3>1. k' \in Protocols
        BY <2>1, <2>4, <2>5, Beginnings DEF Protocols, SendStates
      <3> QED
        BY <2>4, <3>1 DEF Protocol
    <2>7. peer' \in Peers /\ peer'.status = "run" /\ peer'.role = "recv" /\ peer'.cancel = c
      BY <2>4, Beginnings DEF Peers
    <2>8. /\ peer'.i = 0 /\ peer'.last = <<>> /\ peer'.cancelled = {}
          /\ peer'.got = [f \in Names |-> <<>>] /\ peer'.file = 0
      BY <2>4 DEF NoPeer
    <2> QED
      BY <2>2, <2>3, <2>4, <2>6, <2>7, <2>8 DEF StartsSend
  <1> QED
    BY <1>1, <1>2

\* A copy of which nothing is known but its length is that of an older file.
LEMMA AgedIs ==
    ASSUME NEW c \in {NoFile} \cup Seq(Nat)
    PROVE  /\ Aged(c) \in {NoFile} \cup Seq(Nat)
           /\ c # NoFile => \A i \in 1 .. Len(Aged(c)) : Aged(c)[i] = 0
           /\ Aged(c) = NoFile <=> c = NoFile
  <1>1. CASE c = NoFile
    BY <1>1 DEF Aged
  <1>2. CASE c # NoFile
    <2>1. PICK n \in Nat : n = Len(c)
      BY <1>2
    <2>2. Aged(c) = [i \in 1 .. n |-> 0]
      BY <1>2, <2>1 DEF Aged
    <2>3. [i \in 1 .. n |-> 0] \in Seq(Nat) /\ Len([i \in 1 .. n |-> 0]) = n
      BY <2>1
    <2>4. NoFile \notin Seq(Nat)
      BY ConstAssumption
    <2> QED
      BY <1>2, <2>2, <2>3, <2>4
  <1> QED
    BY <1>1, <1>2

\* What the users and the line do.
LEMMA StartTypes ==
    ASSUME Types,
           (\E s \in Sendings : StartReceive(s)) \/ (\E r \in Receivings : StartSend(r))
    PROVE  Types'
  <1>1. /\ sessions' = sessions + 1 /\ sessions' \in Nat \ {0} /\ slots' \in SlotTables
        /\ keep' \in BOOLEAN /\ unwanted' = 0 /\ shorts' = 0 /\ altered' = FALSE
        /\ disk' = [f \in Names |-> Aged(disk[f])]
        /\ UNCHANGED <<handles, faults, iofaults>>
        /\ ObufLen \in Nat \ {0}
    <2>7. \A o \in Sendings \cup Receivings : o.keep \in BOOLEAN
      BY ConstAssumption
    <2>1. /\ sessions' = sessions + 1 /\ slots' = InitSlots /\ keep' \in {keep, TRUE}
          /\ unwanted' = 0 /\ shorts' = 0 /\ altered' = FALSE
          /\ disk' = [f \in Names |-> Aged(disk[f])] /\ UNCHANGED <<handles, faults, iofaults>>
      <3>1. PICK o \in Sendings \cup Receivings : Start(o)
        BY DEF StartReceive, StartSend
      <3>2. keep \in BOOLEAN /\ o.keep \in BOOLEAN
        BY <2>7 DEF Types, DeviceTypes
      <3>3. (keep \/ o.keep) \in {keep, TRUE}
        BY <3>2
      <3> QED
        BY <3>1, <3>3 DEF Start
    <2>2. sessions \in Nat /\ keep \in BOOLEAN /\ slots \in SlotTables
      BY DEF Types, LineTypes, DeviceTypes
    <2>3. ObufLen \in Nat \ {0}
      BY ConstAssumption
    <2>4. slots' \in SlotTables
      BY <2>1, <2>2, SlotTypes
    <2>5. sessions' \in Nat \ {0}
      BY <2>1, <2>2
    <2>6. keep' \in BOOLEAN
      <3>1. CASE keep' = keep
        BY <2>2, <3>1, Zenon
      <3>2. CASE keep' = TRUE
        BY <3>2, Zenon
      <3> QED
        BY <2>1, <3>1, <3>2, Zenon
    <2> QED
      BY <2>1, <2>3, <2>4, <2>5, <2>6
  <1>2. DeviceTypes'
    <2>1. /\ k' \in Protocols /\ Len(k'.opkt) <= 1 /\ Len(k'.obuf) < ObufLen
          /\ k'.state = (IF k'.what = "recv" THEN "R_WAIT" ELSE "S_INIT")
          /\ k'.what = "send" => k'.opkt # <<>>
      <3>1. ASSUME NEW s \in Sendings, StartReceive(s)
            PROVE /\ k' \in Protocols /\ Len(k'.opkt) <= 1 /\ Len(k'.obuf) < ObufLen
                  /\ k'.state = (IF k'.what = "recv" THEN "R_WAIT" ELSE "S_INIT")
                  /\ k'.what = "send" => k'.opkt # <<>>
        BY <1>1, <3>1, StartIs DEF StartsReceive
      <3>2. ASSUME NEW r \in Receivings, StartSend(r)
            PROVE /\ k' \in Protocols /\ Len(k'.opkt) <= 1 /\ Len(k'.obuf) < ObufLen
                  /\ k'.state = (IF k'.what = "recv" THEN "R_WAIT" ELSE "S_INIT")
                  /\ k'.what = "send" => k'.opkt # <<>>
        <4>1. StartsSend(r)
          BY <3>2, StartIs
        <4>2. PICK p \in Packets : p = Packet("S", 0, <<>>)
          BY Beginnings
        <4> QED
          BY <1>1, <4>1, <4>2 DEF StartsSend
      <3> QED
        BY <3>1, <3>2
    <2>2. 0 \in Nat /\ handles \in 0 .. NumFiles /\ iofaults \in Nat
          /\ disk' \in [Names -> {NoFile} \cup Seq(Nat)]
      <3>1. disk \in [Names -> {NoFile} \cup Seq(Nat)]
        BY DEF Types, DeviceTypes
      <3>2. \A f \in Names : Aged(disk[f]) \in {NoFile} \cup Seq(Nat)
        BY <3>1, AgedIs
      <3>3. disk' \in [Names -> {NoFile} \cup Seq(Nat)]
        BY <1>1, <3>2
      <3> QED
        BY <3>3 DEF Types, DeviceTypes
    <2>3. k'.state \in {"R_WAIT", "S_INIT"} /\ k'.what \in {"recv", "send"}
      BY <2>1 DEF Protocols
    <2> QED
      BY <1>1, <2>1, <2>2, <2>3 DEF DeviceTypes, RecvStates, SendStates, Running, FileOpen
  <1>3. PeerTypes'
    <2>1. ASSUME NEW s \in Sendings, StartReceive(s) PROVE PeerTypes'
      <3>1. s.files \in Names /\ s.first \in {"S", "I"}
        BY ConstAssumption
      <3>2. Packet(s.first, 0, <<>>).t = s.first
        BY <3>1, Beginnings
      <3> QED
        BY <2>1, <3>1, <3>2, StartIs DEF PeerTypes, StartsReceive, Says
    <2>2. ASSUME NEW r \in Receivings, StartSend(r) PROVE PeerTypes'
      BY <2>2, StartIs DEF PeerTypes, StartsSend
    <2> QED
      BY <2>1, <2>2
  <1>4. LineTypes'
    <2>1. toDev' \in Seq(Packets) /\ toPeer' \in Seq(Packets) /\ k'.status = "run"
      <3>1. ASSUME NEW s \in Sendings, StartReceive(s)
            PROVE toDev' \in Seq(Packets) /\ toPeer' \in Seq(Packets) /\ k'.status = "run"
        <4>1. StartsReceive(s) /\ s.first \in {"S", "I"}
          BY <3>1, StartIs, ConstAssumption
        <4>2. PICK p \in Packets : p = Packet(s.first, 0, <<>>)
          BY <4>1, Beginnings
        <4> QED
          BY <4>1, <4>2 DEF StartsReceive
      <3>2. ASSUME NEW r \in Receivings, StartSend(r)
            PROVE toDev' \in Seq(Packets) /\ toPeer' \in Seq(Packets) /\ k'.status = "run"
        <4>1. StartsSend(r)
          BY <3>2, StartIs
        <4>2. PICK p \in Packets : p = Packet("S", 0, <<>>)
          BY Beginnings
        <4> QED
          BY <4>1, <4>2 DEF StartsSend
      <3> QED
        BY <3>1, <3>2
    <2> QED
      BY <1>1, <2>1 DEF Types, LineTypes
  <1> QED
    BY <1>2, <1>3, <1>4 DEF Types

\* The packet behind the next one.
LEMMA Behind ==
    ASSUME NEW s \in Seq(Packets), Len(s) > 1
    PROVE  Tail(s) \in Seq(Packets) /\ Tail(s) # <<>> /\ Head(Tail(s)) = s[2]
  <1>1. s # <<>>
    OBVIOUS
  <1>2. Tail(s) \in Seq(Packets) /\ Len(Tail(s)) = Len(s) - 1 /\ Len(s) \in Nat
        /\ \A i \in 1 .. Len(s) - 1 : Tail(s)[i] = s[i + 1]
    BY <1>1, LineOps
  <1>6. PICK m \in Nat : m = Len(s) /\ m > 1
    BY <1>2
  <1>3. Tail(s) # <<>> /\ 1 \in 1 .. Len(s) - 1
    <2>1. 1 \in 1 .. m - 1 /\ m - 1 # 0
      BY <1>6
    <2>2. Len(Tail(s)) = m - 1
      BY <1>2, <1>6, Zenon
    <2>3. Tail(s) # <<>>
      <3>1. Len(<<>>) = 0
        OBVIOUS
      <3>2. Len(Tail(s)) # 0
        BY <2>1, <2>2, Zenon
      <3> QED
        BY <3>1, <3>2, Zenon
    <2>4. 1 \in 1 .. Len(s) - 1
      BY <1>6, <2>1, Zenon
    <2> QED
      BY <2>3, <2>4
  <1>4. Head(Tail(s)) = Tail(s)[1]
    BY <1>2, <1>3, LineOps
  <1>5. Tail(s)[1] = s[1 + 1]
    BY <1>2, <1>3, Zenon
  <1>7. 1 + 1 = 2
    OBVIOUS
  <1> QED
    BY <1>2, <1>3, <1>4, <1>5, <1>7, Zenon

\* What the line does to packets leaves packets on it.
LEMMA LineStepTypes ==
    ASSUME Types,
           \/ Lose \/ (\E kind \in Damages : Damage(kind)) \/ Loopback \/ Discard
           \/ ReadsOn
    PROVE  Types'
  <1>1. toDev \in Seq(Packets) /\ toPeer \in Seq(Packets) /\ faults \in Nat
    BY DEF Types, LineTypes
  <1>2. UNCHANGED <<device, peer, shorts, sessions>> /\ faults' \in Nat
    <2>1. CASE Lose
      BY <1>1, <2>1 DEF Lose, Fault, Uses, ghosts
    <2>2. CASE \E kind \in Damages : Damage(kind)
      BY <1>1, <2>2 DEF Damage, Fault, Uses, ghosts
    <2>3. CASE Loopback
      BY <1>1, <2>3 DEF Loopback, Fault, Uses, ghosts
    <2>4. CASE Discard
      BY <1>1, <2>4 DEF Discard, ghosts
    <2>5. CASE ReadsOn
      BY <1>1, <2>5 DEF ReadsOn, Swallow
    <2> QED
      BY <2>1, <2>2, <2>3, <2>4, <2>5
  <1>3. toDev' \in Seq(Packets) /\ toPeer' \in Seq(Packets)
    <2>1. CASE Lose
      BY <1>1, <2>1, LineOps DEF Lose
    <2>6. ASSUME NEW s \in Seq(Packets), s # <<>>, NEW kind \in Damages
          PROVE  <<[Head(s) EXCEPT !.t = kind]>> \o Tail(s) \in Seq(Packets)
      <3>1. Head(s) \in Packets /\ Tail(s) \in Seq(Packets)
        BY <2>6, LineOps
      <3>2. [Head(s) EXCEPT !.t = kind] \in Packets
        BY <3>1 DEF Packets, Damages
      <3>3. <<[Head(s) EXCEPT !.t = kind]>> \in Seq(Packets)
        BY <3>2
      <3> QED
        BY <3>1, <3>3, ConcatProperties
    <2>2. ASSUME NEW kind \in Damages, Damage(kind) PROVE toDev' \in Seq(Packets)
      BY <1>1, <2>2, <2>6 DEF Damage
    <2>5. CASE ReadsOn
      <3>1. PICK kind \in Damages : Swallow(kind)
        BY <2>5 DEF ReadsOn
      <3>2. Tail(toDev) \in Seq(Packets) /\ Tail(toDev) # <<>> /\ Head(Tail(toDev)) = toDev[2]
        BY <1>1, <3>1, Behind DEF Swallow
      <3>3. toDev' = <<[Head(Tail(toDev)) EXCEPT !.t = kind]>> \o Tail(Tail(toDev))
            /\ toPeer' = toPeer
        BY <3>1, <3>2 DEF Swallow
      <3> QED
        BY <1>1, <2>6, <3>2, <3>3
    <2>3. CASE Loopback
      <3>1. toPeer # <<>> /\ toDev' = Append(toDev, Last(toPeer)) /\ toPeer' = toPeer
        BY <2>3 DEF Loopback
      <3>2. Last(toPeer) \in Packets
        BY <1>1, <3>1 DEF Last
      <3> QED
        BY <1>1, <3>1, <3>2, LineOps
    <2>4. CASE Discard
      <3>1. \/ toDev' = <<>> /\ toPeer' = toPeer
            \/ toPeer' = <<>> /\ toDev' = toDev
        BY <2>4 DEF Discard, NobodyReads
      <3>2. <<>> \in Seq(Packets)
        OBVIOUS
      <3> QED
        BY <1>1, <3>1, <3>2
    <2> QED
      BY <1>1, <2>1, <2>2, <2>3, <2>4, <2>5 DEF Damage
  <1> QED
    BY <1>2, <1>3 DEF Types, DeviceTypes, PeerTypes, LineTypes, device, Running, FileOpen

\* Types is inductive.
LEMMA NextTypes ==
    ASSUME Types, [Next]_vars
    PROVE  Types'
  <1>1. CASE Device
    BY <1>1, DeviceKeepsTypes
  <1>2. CASE Peer \/ EarlyTimeout \/ PeerAborts
    <2>1. faults \in Nat
      BY DEF Types, LineTypes
    <2>2. \/ toPeer # <<>> /\ PeerReadsNext(Head(toPeer))
          \/ PeerRepeatsItself /\ faults' \in Nat
          \/ PeerAborts
      BY <1>2, <2>1 DEF Peer, EarlyTimeout, PeerTimeout, Uses
    <2> QED
      BY <2>2, PeerKeepsTypes
  <1>3. CASE Interrupted
    <2>1. Running /\ Stops("user") /\ faults' \in Nat
      BY <1>3 DEF Interrupted, Uses, Types, LineTypes
    <2> QED
      BY <2>1, StopTypes DEF Types, LineTypes, Running
  <1>4. CASE \E s \in Sendings : StartReceive(s)
    BY <1>4, StartTypes
  <1>5. CASE \E r \in Receivings : StartSend(r)
    BY <1>5, StartTypes
  <1>6. CASE Lose \/ (\E kind \in Damages : Damage(kind)) \/ Loopback \/ Discard \/ ReadsOn
    BY <1>6, LineStepTypes
  <1>7. CASE UNCHANGED vars
    BY <1>7
       DEF Types, DeviceTypes, PeerTypes, LineTypes, vars, device, ghosts, Running, FileOpen
  <1> QED
    BY <1>1, <1>2, <1>3, <1>4, <1>5, <1>6, <1>7 DEF Next, Peer, User, Line

\* Every variable keeps its type and the states of the two ends fit together.
THEOREM TypesHold == Spec => []Types
  <1> QED
    BY InitTypes, NextTypes, PTL DEF Spec

-----------------------------------------------------------------------------
(* Open files                                                              *)

\* A step of the other Kermit or of the line, which the device does not see, or one by
\* which it has not read a packet yet.
Outside ==
    /\ UNCHANGED <<device, shorts, sessions>>
    /\ \/ toPeer # <<>> /\ PeerReadsNext(Head(toPeer))
       \/ PeerRepeatsItself
       \/ PeerAborts
       \/ Lose \/ (\E kind \in Damages : Damage(kind)) \/ Loopback \/ Discard
       \/ ReadsOn

Starts ==
    \/ \E s \in Sendings : StartReceive(s)
    \/ \E r \in Receivings : StartSend(r)

\* The steps of the system.
LEMMA Steps ==
    ASSUME [Next]_vars
    PROVE  Device \/ (Running /\ Stops("user")) \/ Starts \/ Outside \/ UNCHANGED vars
  <1>1. CASE Peer
    <2>1. CASE PeerTimeout
      BY <2>1 DEF PeerTimeout, PeerRepeatsItself, Outside, ghosts
    <2>2. CASE toPeer # <<>> /\ PeerReadsNext(Head(toPeer))
      BY <2>2 DEF PeerReadsNext, PeerReads, PeerNext, PeerAgain, PeerTakes, PeerRepeats,
                  PeerStops, PeerIgnores, Outside, ghosts
    <2> QED
      BY <1>1, <2>1, <2>2 DEF Peer
  <1>2. CASE User
    BY <1>2 DEF User, Interrupted, PeerAborts, Outside, Starts, ghosts
  <1>3. CASE Line
    <2>1. CASE EarlyTimeout
      BY <2>1 DEF EarlyTimeout, PeerRepeatsItself, Outside, ghosts
    <2>2. CASE ~EarlyTimeout
      BY <1>3, <2>2 DEF Line, Lose, Damage, Loopback, Discard, Fault, Outside, ghosts
    <2> QED
      BY <2>1, <2>2
  <1>4. CASE ReadsOn
    BY <1>4 DEF ReadsOn, Swallow, Outside
  <1> QED
    BY <1>1, <1>2, <1>3, <1>4 DEF Next

\* A step of the device opens a file when its state says so, and closes it where the
\* state leaves it.
LEMMA HandleSteps ==
    ASSUME Types, Device
    PROVE  \/ handles' = handles /\ (FileOpen => FileOpen')
           \/ handles' = handles + 1 /\ ~FileOpen /\ FileOpen'
           \/ handles' = handles - 1
  <1>1. CASE NoSlot
    <2>1. k' = Failed("slots") /\ k \in Protocols /\ handles' = handles
      BY <1>1 DEF NoSlot, Stops, Types, DeviceTypes
    <2>2. k'.state = k.state
      BY <2>1 DEF Failed, Protocols
    <2> QED
      BY <2>1, <2>2 DEF FileOpen
  <1>2. CASE Stays /\ NoFileChange
    BY <1>2 DEF Stays, NoFileChange, FileOpen
  <1>3. ASSUME NEW p, Reads(p), Acked(p), SendStep(p)
        PROVE  \/ handles' = handles /\ (FileOpen => FileOpen')
               \/ handles' = handles + 1 /\ ~FileOpen /\ FileOpen'
               \/ handles' = handles - 1
    <2>1. k \in Protocols
      BY DEF Types, DeviceTypes
    <2>2. \/ handles' = handles - 1
          \/ k.state \in {"S_INIT", "S_EOF", "S_EOT"} /\ handles' = handles
          \/ k.state \in {"S_INIT", "S_EOF"} /\ handles' = handles + 1 /\ k'.state = "S_FILE"
          \/ k.state \in {"S_FILE", "S_ATTR", "S_DATA"} /\ handles' = handles
                /\ k'.state \in {"S_ATTR", "S_DATA"}
      BY <1>3, <2>1 DEF SendStep, SendsOn
    <2> QED
      BY <2>2 DEF FileOpen
  <1>4. ASSUME NEW p, Reads(p), Received(p), ReceiveStep(p)
        PROVE  \/ handles' = handles /\ (FileOpen => FileOpen')
               \/ handles' = handles + 1 /\ ~FileOpen /\ FileOpen'
               \/ handles' = handles - 1
    <2>1. CASE Opened /\ k.state \in {"R_ATTR", "R_DATA"} /\ k'.state = "R_DATA"
      BY <2>1 DEF Opened, FileOpen
    <2>2. CASE ~(Opened /\ k.state \in {"R_ATTR", "R_DATA"} /\ k'.state = "R_DATA")
      <3>1. \/ handles' = handles - 1
            \/ handles' = handles /\ k'.state = k.state
            \/ handles' = handles /\ k.state \in {"R_WAIT", "R_FILE", "R_ATTR"}
        BY <1>4, <2>2
           DEF ReceiveStep, DataTakes, DataFails, EndTakes, EndFails, FailsAloud, AcksWith
      <3> QED
        BY <3>1 DEF FileOpen
    <2> QED
      BY <2>1, <2>2
  <1> QED
    BY <1>1, <1>2, <1>3, <1>4, DeviceSteps

\* No session has left more than one file open, and none is open before the first.
Leaks == NoHandleLeak /\ (sessions = 0 => ~FileOpen)

\* Leaks is kept by every step.
LEMMA NextLeaks ==
    ASSUME Types, Leaks, [Next]_vars
    PROVE  Leaks'
  <1>1. handles \in Nat /\ sessions \in Nat
    BY ConstAssumption DEF Types, DeviceTypes, LineTypes
  <1>2. CASE Device
    <2>1. sessions' = sessions /\ sessions # 0 /\ handles' \in Nat
      <3>1. Running /\ sessions' = sessions /\ Types'
        BY <1>2, DeviceSteps, DeviceKeepsTypes
      <3> QED
        BY <3>1, ConstAssumption DEF Types, DeviceTypes, LineTypes, Running
    <2>2. (FileOpen => handles <= sessions) /\ (~FileOpen => handles <= sessions - 1)
      BY <1>1, <2>1 DEF Leaks, NoHandleLeak
    <2>3. (FileOpen' => handles' <= sessions) /\ (~FileOpen' => handles' <= sessions - 1)
      BY <1>1, <1>2, <2>1, <2>2, HandleSteps
    <2> QED
      BY <1>1, <2>1, <2>3 DEF Leaks, NoHandleLeak
  <1>3. CASE Running /\ Stops("user")
    <2>1. k' = Failed("user") /\ k \in Protocols /\ handles' = handles /\ sessions' = sessions
      BY <1>3 DEF Stops, Types, DeviceTypes
    <2>2. k'.state = k.state
      BY <2>1 DEF Failed, Protocols
    <2> QED
      BY <2>1, <2>2 DEF Leaks, NoHandleLeak, FileOpen
  <1>4. CASE Starts
    <2>1. /\ sessions' = sessions + 1 /\ handles' = handles
          /\ k'.state \in {"R_WAIT", "S_INIT"}
      BY <1>4, StartIs DEF Starts, StartReceive, StartSend, Start, StartsReceive, StartsSend
    <2> QED
      BY <1>1, <2>1 DEF Leaks, NoHandleLeak, FileOpen
  <1>5. CASE Outside \/ UNCHANGED vars
    BY <1>5 DEF Outside, vars, device, Leaks, NoHandleLeak, FileOpen
  <1> QED
    BY <1>2, <1>3, <1>4, <1>5, Steps

\* littlefs has no more files open than the one of this session and one of each session
\* before, whatever was cancelled, damaged or lost.
THEOREM NoLeak == Spec => []NoHandleLeak
  <1>1. Init => Leaks
    BY DEF Init, Leaks, NoHandleLeak, FileOpen, Protocol
  <1>2. Leaks => NoHandleLeak
    BY DEF Leaks
  <1> QED
    BY <1>1, <1>2, NextLeaks, TypesHold, PTL DEF Spec

-----------------------------------------------------------------------------
(* Giving up                                                               *)

\* Only the slot in use counts retries, and no further than the packets that were not
\* wanted.
Counts ==
    /\ sessions = 0 => \A s \in Slots : slots[s].rtr = 0
    /\ sessions <= 1 /\ Running =>
          /\ \A s \in FreeSlots : s # slot => slots[s].rtr = 0
          /\ \A s \in FreeSlots : slots[s].rtr <= unwanted
    /\ Running => k.why = "none"
    /\ sessions = 1 /\ k.why = "retries" => unwanted > Retry + 1

\* The slot of the packet read is left in use or not, with n retries.
SlotBecomes(used, n) ==
    /\ slots'[slot].used = used /\ slots'[slot].rtr = n
    /\ \A s \in Slots : s # slot => slots'[s] = slots[s]

\* All packets that are read change nothing but their slot.
LEMMA SlotsKeepCounts ==
    ASSUME slots \in SlotTables, slot \in FreeSlots, NEW used \in BOOLEAN, NEW n \in Nat,
           SlotBecomes(used, n), unwanted' \in Nat, used = FALSE => n <= unwanted',
           \A s \in FreeSlots : s # slot => slots[s].rtr = 0
    PROVE  /\ \A s \in FreeSlots' : s # slot' => slots'[s].rtr = 0
           /\ \A s \in FreeSlots' : slots'[s].rtr <= unwanted'
  <1>1. slot \in Slots /\ ~slots[slot].used
    BY DEF FreeSlots
  <1>2. CASE used = FALSE
    <2>1. FreeSlots' = FreeSlots
      BY <1>1, <1>2 DEF FreeSlots, SlotBecomes
    <2>2. slot' = slot
      BY <2>1 DEF slot
    <2>3. \A s \in FreeSlots : s # slot => slots'[s].rtr = 0
      BY DEF FreeSlots, SlotBecomes
    <2> QED
      BY <1>2, <2>1, <2>2, <2>3 DEF SlotBecomes
  <1>3. CASE used = TRUE
    <2>1. \A s \in FreeSlots' : s \in FreeSlots /\ s # slot
      BY <1>3 DEF FreeSlots, SlotBecomes
    <2>2. \A s \in FreeSlots' : slots'[s].rtr = 0
      BY <2>1 DEF FreeSlots, SlotBecomes
    <2> QED
      BY <2>2
  <1> QED
    BY <1>2, <1>3

\* The ways a packet leaves the slots, each as a change of the slot in use alone.
LEMMA SlotChanges ==
    ASSUME slots \in SlotTables, slot \in FreeSlots
    PROVE  /\ slots' = slots => SlotBecomes(FALSE, slots[slot].rtr)
           /\ slots' = Counted => SlotBecomes(FALSE, Bump(slots[slot].rtr))
           /\ slots' = Fresh => SlotBecomes(FALSE, 0)
           /\ slots' = [Fresh EXCEPT ![slot].used = TRUE] => SlotBecomes(TRUE, 0)
           /\ \A u \in BOOLEAN, n \in Nat :
                 slots' = [slots EXCEPT ![slot] = [used |-> u, rtr |-> n]] => SlotBecomes(u, n)
  <1>1. slot \in Slots /\ slots[slot].used = FALSE
    BY DEF FreeSlots, SlotTables
  <1>2. slots' = slots => SlotBecomes(FALSE, slots[slot].rtr)
    BY <1>1 DEF SlotBecomes
  <1>3. slots' = Counted => SlotBecomes(FALSE, Bump(slots[slot].rtr))
    BY <1>1 DEF SlotBecomes, Counted, SlotTables
  <1>4. slots' = Fresh => SlotBecomes(FALSE, 0)
    BY <1>1 DEF SlotBecomes, Fresh, SlotTables
  <1>5. slots' = [Fresh EXCEPT ![slot].used = TRUE] => SlotBecomes(TRUE, 0)
    BY <1>1 DEF SlotBecomes, Fresh, SlotTables
  <1>6. ASSUME NEW u \in BOOLEAN, NEW n \in Nat,
               slots' = [slots EXCEPT ![slot] = [used |-> u, rtr |-> n]]
        PROVE  SlotBecomes(u, n)
    <2>1. CASE u = TRUE
      BY <1>1, <1>6, <2>1 DEF SlotBecomes, SlotTables
    <2>2. CASE u = FALSE
      BY <1>1, <1>6, <2>2 DEF SlotBecomes, SlotTables
    <2> QED
      BY <2>1, <2>2
  <1> QED
    BY <1>2, <1>3, <1>4, <1>5, <1>6

\* The retries that are counted when a packet does not take the device on, and why it
\* fails.
LEMMA IgnoredSlots ==
    ASSUME Types, NEW p, Reads(p), Ignored(p), k.why = "none"
    PROVE  /\ \E used \in BOOLEAN, n \in 0 .. Retry + 1 :
                 /\ SlotBecomes(used, n) /\ (used = TRUE => p.t = "short")
                 /\ n \in {0, slots[slot].rtr, Bump(slots[slot].rtr)}
                 /\ IsWanted(p) => n = 0
           /\ k'.why = "retries" => slots[slot].rtr > Retry /\ ~IsWanted(p)
  <1>1. /\ slots \in SlotTables /\ slot \in FreeSlots /\ slot \in Slots /\ k \in Protocols
        /\ Retry \in Nat
    BY ReadTypes, ConstAssumption DEF Types, DeviceTypes
  <1>2. /\ slots[slot].rtr \in 0 .. Retry + 1 /\ Bump(slots[slot].rtr) \in 0 .. Retry + 1
        /\ 0 \in 0 .. Retry + 1
    BY <1>1 DEF SlotTables, FreeSlots, Bump
  <1>3. \A why : Failed(why).why = why
    BY <1>1 DEF Failed, Protocols
  <1>4. \A kk, q : kk \in {k, Failed("retries")} /\ spkt(kk, q) => k'.why = kk.why
    BY <1>1 DEF spkt, Failed, Protocols
  <1>5. CASE BadPacket(p)
    <2>1. \E n \in {slots[slot].rtr, Bump(slots[slot].rtr)} : SlotBecomes(p.t = "short", n)
      <3>1. PICK n \in {slots[slot].rtr, Bump(slots[slot].rtr)} :
                slots' = [slots EXCEPT ![slot] = [used |-> p.t = "short", rtr |-> n]]
        BY <1>5 DEF BadPacket
      <3>2. (p.t = "short") \in BOOLEAN /\ n \in Nat
        BY <1>2
      <3> QED
        BY <1>1, <3>1, <3>2, SlotChanges
    <2>2. ~IsWanted(p)
      BY <1>5 DEF BadPacket, IsWanted, Good
    <2>3. k'.why = "retries" => slots[slot].rtr > Retry
      <3>1. k' = k \/ \E looked \in BOOLEAN : nak(looked)
        BY <1>5 DEF BadPacket, resend
      <3>2. \A looked \in BOOLEAN : nak(looked) /\ ~(slots[slot].rtr > Retry) => k'.why = k.why
        BY <1>4 DEF nak
      <3> QED
        BY <3>1, <3>2
    <2>4. PICK used \in BOOLEAN : used = (p.t = "short")
      OBVIOUS
    <2> QED
      BY <1>2, <2>1, <2>2, <2>3, <2>4
  <1>6. CASE Echo(p) \/ ErrorPacket(p)
    <2>1. slots' = slots /\ (k' = k \/ k' = Failed("peer")) /\ ~IsWanted(p)
      BY <1>6 DEF Echo, ErrorPacket, IsWanted, Good
    <2>2. SlotBecomes(FALSE, slots[slot].rtr)
      BY <1>1, <2>1, SlotChanges
    <2> QED
      BY <1>2, <1>3, <2>1, <2>2
  <1>7. CASE PreviousPacket(p)
    <2>1. slots' = Counted /\ ~IsWanted(p)
          /\ IF slots[slot].rtr > Retry THEN epkt("retries") ELSE resend
      BY <1>7 DEF PreviousPacket
    <2>2. SlotBecomes(FALSE, Bump(slots[slot].rtr))
      BY <1>1, <2>1, SlotChanges
    <2>3. k'.why = "retries" => slots[slot].rtr > Retry
      BY <2>1 DEF resend
    <2> QED
      BY <1>2, <2>1, <2>2, <2>3
  <1>8. CASE OtherPacket(p)
    <2>1. /\ ~IsWanted(p)
          /\ (nak(TRUE) /\ slots' = Counted) \/ (k' = k /\ slots' = slots)
      BY <1>8 DEF OtherPacket, resend
    <2>2. \E n \in {slots[slot].rtr, Bump(slots[slot].rtr)} : SlotBecomes(FALSE, n)
      BY <1>1, <2>1, SlotChanges
    <2>3. k'.why = "retries" => slots[slot].rtr > Retry
      <3>1. nak(TRUE) /\ ~(slots[slot].rtr > Retry) => k'.why = k.why
        BY <1>4 DEF nak
      <3> QED
        BY <2>1, <3>1
    <2> QED
      BY <1>2, <2>1, <2>2, <2>3
  <1>9. CASE NotAcked(p)
    <2>1. k' = k /\ slots' = Fresh
      BY <1>9 DEF NotAcked, resend
    <2>2. SlotBecomes(FALSE, 0)
      BY <1>1, <2>1, SlotChanges
    <2> QED
      BY <1>2, <2>1, <2>2
  <1> QED
    BY <1>5, <1>6, <1>7, <1>8, <1>9 DEF Ignored

\* Counts is kept by every step.
LEMMA NextCounts ==
    ASSUME Types, Counts, [Next]_vars
    PROVE  Counts'
  <1>1. slots \in SlotTables /\ unwanted \in Nat /\ Retry \in Nat /\ sessions \in Nat
        /\ k \in Protocols /\ (Running => sessions # 0)
    BY ConstAssumption DEF Types, DeviceTypes, LineTypes, Running
  <1>2. \A why : Failed(why).why = why /\ Failed(why).status = "failed"
    BY <1>1 DEF Failed, Protocols
  <1>3. CASE Device
    <2>1. Running /\ sessions' = sessions /\ sessions # 0 /\ k.why = "none"
      BY <1>1, <1>3, DeviceSteps DEF Counts
    <2>2. CASE NoSlot
      <3>1. k' = Failed("slots")
        BY <2>2 DEF NoSlot, Stops
      <3> QED
        BY <1>2, <2>1, <3>1 DEF Counts, Running
    <2>3. ASSUME NEW p, Reads(p), Ignored(p), Stays PROVE Counts'
      <3>1. PICK used \in BOOLEAN, n \in 0 .. Retry + 1 :
                 /\ SlotBecomes(used, n)
                 /\ n \in {0, slots[slot].rtr, Bump(slots[slot].rtr)}
                 /\ IsWanted(p) => n = 0
        BY <2>1, <2>3, IgnoredSlots
      <3>2. k'.why = "retries" => slots[slot].rtr > Retry /\ ~IsWanted(p)
        BY <2>1, <2>3, IgnoredSlots
      <3>3. unwanted' = (IF IsWanted(p) THEN 0
                         ELSE IF unwanted > Retry + 1 THEN unwanted ELSE unwanted + 1)
            /\ unwanted' \in Nat /\ slot \in FreeSlots /\ slot \in Slots
        BY <2>3, ReadTypes DEF Reads
      <3>4. slots[slot].rtr \in 0 .. Retry + 1
        BY <1>1, <3>3 DEF SlotTables
      <3>5. CASE sessions = 1
        <4>1. slots[slot].rtr <= unwanted /\ \A s \in FreeSlots : s # slot => slots[s].rtr = 0
          BY <2>1, <3>3, <3>5 DEF Counts
        <4>2. n <= unwanted' /\ n \in Nat
          BY <1>1, <3>1, <3>3, <3>4, <4>1 DEF Bump
        <4>3. /\ \A s \in FreeSlots' : s # slot' => slots'[s].rtr = 0
              /\ \A s \in FreeSlots' : slots'[s].rtr <= unwanted'
          BY <1>1, <3>1, <3>3, <4>1, <4>2, SlotsKeepCounts
        <4>4. k'.why = "retries" => unwanted' > Retry + 1
          BY <1>1, <3>2, <3>3, <3>4, <4>1
        <4>5. Running' => k'.why = "none"
          BY <2>1, <2>3 DEF Stays, Running
        <4> QED
          BY <2>1, <3>5, <4>3, <4>4, <4>5 DEF Counts
      <3>6. CASE sessions # 1
        BY <1>1, <2>1, <2>3, <3>6 DEF Counts, Stays, Running
      <3> QED
        BY <3>5, <3>6
    <2>4. ASSUME NEW p, Reads(p), NEW used \in BOOLEAN, SlotBecomes(used, 0),
                 k'.why # "retries", Running' => k'.why = "none"
          PROVE  Counts'
      <3>1. unwanted' \in Nat /\ slot \in FreeSlots /\ 0 <= unwanted' /\ 0 \in Nat
        BY <2>4, ReadTypes
      <3>2. CASE sessions = 1
        <4>1. \A s \in FreeSlots : s # slot => slots[s].rtr = 0
          BY <2>1, <3>2 DEF Counts
        <4>2. /\ \A s \in FreeSlots' : s # slot' => slots'[s].rtr = 0
              /\ \A s \in FreeSlots' : slots'[s].rtr <= unwanted'
          BY <1>1, <2>4, <3>1, <4>1, SlotsKeepCounts
        <4> QED
          BY <2>1, <2>4, <3>2, <4>2 DEF Counts
      <3>3. CASE sessions # 1
        BY <1>1, <2>1, <2>4, <3>3 DEF Counts
      <3> QED
        BY <3>2, <3>3
    <2>6. ASSUME NEW p, Reads(p), SendStep(p) PROVE Counts'
      <3>1. \E used \in BOOLEAN : SlotBecomes(used, 0)
        <4>1. slot \in FreeSlots
          BY <2>6, ReadTypes
        <4> QED
          BY <1>1, <2>6, <4>1, SlotChanges DEF SendStep
      <3>2. k'.why \in {k.why, "io"} /\ (Running' => k'.why = k.why)
        <4>1. CASE k' = Failed("io")
          BY <1>2, <4>1 DEF Running
        <4>2. CASE k' = [k EXCEPT !.status = "done"]
          <5>1. k'.why = k.why
            BY <1>1, <4>2 DEF Protocols
          <5> QED
            BY <5>1
        <4>3. CASE \E q, st, f, pos : SendsOn(q, st, f, pos)
          BY <4>3 DEF SendsOn
        <4> QED
          BY <2>6, <4>1, <4>2, <4>3 DEF SendStep
      <3> QED
        BY <2>1, <2>4, <2>6, <3>1, <3>2
    <2>7. ASSUME NEW p, Reads(p), Received(p), ReceiveStep(p) PROVE Counts'
      <3>1. SlotBecomes(FALSE, 0)
        BY <1>1, <2>7, ReadTypes, SlotChanges DEF Received
      <3>2. k'.why # "retries" /\ (Running' => k'.why = "none")
        BY <2>1, <2>7
           DEF ReceiveStep, DataTakes, DataFails, EndTakes, EndFails, AcksWith, FailsAloud, Running
      <3> QED
        BY <2>4, <2>7, <3>1, <3>2
    <2> QED
      BY <1>3, <2>2, <2>3, <2>6, <2>7, DeviceSteps
  <1>4. CASE Running /\ Stops("user")
    <2>1. k' = Failed("user") /\ slots' = slots /\ sessions' = sessions
      BY <1>4 DEF Stops
    <2> QED
      BY <1>1, <1>2, <1>4, <2>1 DEF Counts, Running
  <1>5. CASE Starts
    <2>1. sessions' = sessions + 1 /\ slots' = InitSlots /\ k'.why = "none" /\ unwanted' = 0
      BY <1>5, StartIs DEF Starts, StartReceive, StartSend, Start, StartsReceive, StartsSend
    <2>2. CASE sessions = 0
      <3>1. \A s \in Slots : slots'[s].rtr = 0
        BY <1>1, <2>1, <2>2 DEF Counts, InitSlots, SlotTables
      <3> QED
        BY <2>1, <2>2, <3>1 DEF Counts, FreeSlots
    <2>3. CASE sessions # 0
      BY <1>1, <2>1, <2>3 DEF Counts
    <2> QED
      BY <2>2, <2>3
  <1>6. CASE Outside \/ UNCHANGED vars
    BY <1>6 DEF Outside, vars, device, Counts, Running, FreeSlots, slot
  <1> QED
    BY <1>3, <1>4, <1>5, <1>6, Steps

-----------------------------------------------------------------------------
(* Packets in line                                                         *)

\* The number that the sender of an answer wants next.
Level(p) == IF p.t = "Y" THEN NextSeq(p.seq) ELSE p.seq

\* The packets of a transfer in line are the one with the number w and the one before
\* it, in this order.
Asks(line, w) ==
    /\ \A i \in 1 .. Len(line) :
          line[i].t \in Says => line[i].seq = w \/ NextSeq(line[i].seq) = w
    /\ \A i, j \in 1 .. Len(line) :
          i < j /\ line[i].t \in Says /\ line[j].t \in Says /\ line[i].seq = w => line[j].seq = w

\* The packet with the number w is p.
Only(line, p, w) ==
    \A i \in 1 .. Len(line) : line[i].t \in Says /\ line[i].seq = w => line[i] = p

\* One end is at the packet c, the other one wants w: c or the next one.  The answers in
\* line want c or w, in this order.
Replies(line, c, w) ==
    /\ w = c \/ w = NextSeq(c)
    /\ \A i \in 1 .. Len(line) : line[i].t \in Answers => Level(line[i]) = c \/ Level(line[i]) = w
    /\ \A i, j \in 1 .. Len(line) :
          i < j /\ line[i].t \in Answers /\ line[j].t \in Answers /\ Level(line[i]) = NextSeq(c)
          => Level(line[j]) = NextSeq(c)

\* All packets of line are of the types T.
Carries(line, T) == \A i \in 1 .. Len(line) : line[i].t \in T

\* The acknowledgement of the packet c is the answer given last.
Answered(line, c, last) ==
    \A i \in 1 .. Len(line) : line[i].t = "Y" /\ line[i].seq = c => last = <<line[i]>>

\* The packets of the types S that are in one line are in another one, in this order.
PartOf(new, line, S) ==
    \E n \in {0, 1} : \A i \in 1 .. Len(new) :
        new[i].t \in S => i + n \in 1 .. Len(line) /\ new[i] = line[i + n]

\* A line that lost packets says no more than before.
LEMMA Parts ==
    ASSUME NEW new \in Seq(Packets), NEW line \in Seq(Packets)
    PROVE  /\ PartOf(new, line, Says) =>
                 /\ \A w : Asks(line, w) => Asks(new, w)
                 /\ \A o, w : Only(line, o, w) => Only(new, o, w)
           /\ PartOf(new, line, Answers) =>
                 \A c, w : Replies(line, c, w) => Replies(new, c, w)
  <1>1. Len(new) \in Nat /\ Len(line) \in Nat
    OBVIOUS
  <1>2. ASSUME PartOf(new, line, Says)
        PROVE  /\ \A w : Asks(line, w) => Asks(new, w)
               /\ \A o, w : Only(line, o, w) => Only(new, o, w)
    <2>1. PICK n \in {0, 1} : \A i \in 1 .. Len(new) :
              new[i].t \in Says => i + n \in 1 .. Len(line) /\ new[i] = line[i + n]
      BY <1>2 DEF PartOf
    <2>2. ASSUME NEW w, Asks(line, w) PROVE Asks(new, w)
      <3>1. ASSUME NEW i \in 1 .. Len(new), new[i].t \in Says
            PROVE  new[i].seq = w \/ NextSeq(new[i].seq) = w
        BY <2>1, <2>2, <3>1 DEF Asks
      <3>2. ASSUME NEW i \in 1 .. Len(new), NEW j \in 1 .. Len(new), i < j,
                   new[i].t \in Says, new[j].t \in Says, new[i].seq = w
            PROVE  new[j].seq = w
        <4>1. /\ i + n \in 1 .. Len(line) /\ j + n \in 1 .. Len(line) /\ i + n < j + n
              /\ new[i] = line[i + n] /\ new[j] = line[j + n]
          BY <1>1, <2>1, <3>2
        <4> QED
          BY <2>2, <3>2, <4>1 DEF Asks
      <3> QED
        BY <3>1, <3>2 DEF Asks
    <2>3. ASSUME NEW o, NEW w, Only(line, o, w) PROVE Only(new, o, w)
      BY <2>1, <2>3 DEF Only
    <2> QED
      BY <2>2, <2>3
  <1>3. ASSUME PartOf(new, line, Answers), NEW c, NEW w, Replies(line, c, w)
        PROVE  Replies(new, c, w)
    <2>1. PICK n \in {0, 1} : \A i \in 1 .. Len(new) :
              new[i].t \in Answers => i + n \in 1 .. Len(line) /\ new[i] = line[i + n]
      BY <1>3 DEF PartOf
    <2>2. w = c \/ w = NextSeq(c)
      BY <1>3 DEF Replies
    <2>3. ASSUME NEW i \in 1 .. Len(new), new[i].t \in Answers
          PROVE  Level(new[i]) = c \/ Level(new[i]) = w
      BY <1>3, <2>1, <2>3 DEF Replies
    <2>4. ASSUME NEW i \in 1 .. Len(new), NEW j \in 1 .. Len(new), i < j,
                 new[i].t \in Answers, new[j].t \in Answers, Level(new[i]) = NextSeq(c)
          PROVE  Level(new[j]) = NextSeq(c)
      <3>1. /\ i + n \in 1 .. Len(line) /\ j + n \in 1 .. Len(line) /\ i + n < j + n
            /\ new[i] = line[i + n] /\ new[j] = line[j + n]
        BY <1>1, <2>1, <2>4
      <3> QED
        BY <1>3, <2>4, <3>1 DEF Replies
    <2> QED
      BY <2>2, <2>3, <2>4 DEF Replies
  <1> QED
    BY <1>2, <1>3

\* A line that loses its first packet, or gets one of another type.
LEMMA PartsOf ==
    ASSUME NEW line \in Seq(Packets), NEW S
    PROVE  /\ PartOf(line, line, S) /\ PartOf(<<>>, line, S)
           /\ line # <<>> => PartOf(Tail(line), line, S)
           /\ \A p \in Packets : p.t \notin S => PartOf(Append(line, p), line, S)
           /\ \A p \in Packets :
                 line # <<>> /\ p.t \notin S => PartOf(<<p>> \o Tail(line), line, S)
  <1>1. PartOf(line, line, S) /\ PartOf(<<>>, line, S)
    <2>1. \A i \in 1 .. Len(line) : i + 0 \in 1 .. Len(line) /\ line[i] = line[i + 0]
      OBVIOUS
    <2>2. \A i \in 1 .. Len(<<>>) : FALSE
      OBVIOUS
    <2> QED
      BY <2>1, <2>2 DEF PartOf
  <1>2. ASSUME line # <<>> PROVE PartOf(Tail(line), line, S)
    <2>1. \A i \in 1 .. Len(Tail(line)) : i + 1 \in 1 .. Len(line) /\ Tail(line)[i] = line[i + 1]
      BY <1>2, LineOps
    <2> QED
      BY <2>1 DEF PartOf
  <1>3. ASSUME NEW p \in Packets, p.t \notin S PROVE PartOf(Append(line, p), line, S)
    <2>1. \A i \in 1 .. Len(Append(line, p)) :
             Append(line, p)[i].t \in S =>
                 i + 0 \in 1 .. Len(line) /\ Append(line, p)[i] = line[i + 0]
      BY <1>3, LineOps
    <2> QED
      BY <2>1 DEF PartOf
  <1>4. ASSUME NEW p \in Packets, line # <<>>, p.t \notin S
        PROVE  PartOf(<<p>> \o Tail(line), line, S)
    <2>1. /\ Tail(line) \in Seq(Packets) /\ Len(Tail(line)) = Len(line) - 1 /\ Len(line) \in Nat
          /\ \A i \in 1 .. Len(line) - 1 : Tail(line)[i] = line[i + 1]
      BY <1>4, LineOps
    <2>2. PICK u \in Seq(Packets) : u = Tail(line)
      BY <2>1
    <2>3. PICK o \in Seq(Packets) : o = <<p>> /\ Len(o) = 1 /\ o[1] = p
      <3>1. <<p>> \in Seq(Packets) /\ Len(<<p>>) = 1 /\ <<p>>[1] = p
        OBVIOUS
      <3> QED
        BY <3>1
    <2>4. /\ Len(o \o u) = 1 + Len(u)
          /\ \A i \in 1 .. 1 + Len(u) : (o \o u)[i] = IF i <= 1 THEN o[i] ELSE u[i - 1]
      BY <2>2, <2>3, ConcatProperties
    <2>5. ASSUME NEW i \in 1 .. Len(o \o u), (o \o u)[i].t \in S
          PROVE  i + 0 \in 1 .. Len(line) /\ (o \o u)[i] = line[i + 0]
      <3>1. i # 1
        BY <1>4, <2>3, <2>4, <2>5
      <3>2. i - 1 \in 1 .. Len(line) - 1 /\ (o \o u)[i] = u[i - 1] /\ i \in 1 .. Len(line)
        BY <2>1, <2>2, <2>4, <2>5, <3>1
      <3> QED
        BY <2>1, <2>2, <3>2
    <2>6. PartOf(o \o u, line, S)
      BY <2>5 DEF PartOf
    <2> QED
      BY <2>2, <2>3, <2>6
  <1> QED
    BY <1>1, <1>2, <1>3, <1>4

\* A line that loses its first packet and gets another type of packet for the next one.
LEMMA SwallowedPart ==
    ASSUME NEW line \in Seq(Packets), Len(line) > 1, NEW S, NEW p \in Packets, p.t \notin S
    PROVE  PartOf(<<p>> \o Tail(Tail(line)), line, S)
  <1>1. PICK u \in Seq(Packets) : u = Tail(line) /\ u # <<>>
    BY Behind
  <1>2. PICK m \in Nat \ {0, 1} : m = Len(line)
    OBVIOUS
  <1>3. Len(u) = m - 1 /\ \A i \in 1 .. m - 1 : u[i] = line[i + 1]
    <2>1. line # <<>>
      OBVIOUS
    <2> QED
      BY <1>1, <1>2, <2>1, LineOps
  <1>4. PICK w \in Seq(Packets) : /\ w = Tail(u) /\ Len(w) = m - 2
                                 /\ \A i \in 1 .. m - 2 : w[i] = u[i + 1]
    <2>1. /\ Tail(u) \in Seq(Packets) /\ Len(Tail(u)) = Len(u) - 1
          /\ \A i \in 1 .. Len(u) - 1 : Tail(u)[i] = u[i + 1]
      BY <1>1, LineOps
    <2>2. Len(u) - 1 = m - 2
      BY <1>3
    <2> QED
      BY <2>1, <2>2
  <1>5. PICK o \in Seq(Packets) : o = <<p>> /\ Len(o) = 1 /\ o[1] = p
    <2>1. <<p>> \in Seq(Packets) /\ Len(<<p>>) = 1 /\ <<p>>[1] = p
      OBVIOUS
    <2> QED
      BY <2>1
  <1>6. /\ Len(o \o w) = 1 + Len(w)
        /\ \A i \in 1 .. 1 + Len(w) : (o \o w)[i] = IF i <= 1 THEN o[i] ELSE w[i - 1]
    BY <1>4, <1>5, ConcatProperties
  <1>7. PICK new : new = o \o w /\ Len(new) = m - 1
                   /\ \A i \in 1 .. m - 1 : new[i] = IF i <= 1 THEN o[i] ELSE w[i - 1]
    <2>1. 1 + Len(w) = m - 1
      BY <1>4
    <2> QED
      BY <1>6, <2>1, Zenon
  <1>8. ASSUME NEW i \in 1 .. Len(new), new[i].t \in S
        PROVE  i + 1 \in 1 .. Len(line) /\ new[i] = line[i + 1]
    <2>1. i \in 2 .. m - 1
      BY <1>5, <1>7, <1>8
    <2>2. new[i] = w[i - 1] /\ i - 1 \in 1 .. m - 2 /\ (i - 1) + 1 = i
      BY <1>7, <2>1
    <2>3. new[i] = u[i]
      BY <1>4, <2>2
    <2> QED
      BY <1>2, <1>3, <2>1, <2>3
  <1>9. PartOf(new, line, S)
    BY <1>8 DEF PartOf
  <1> QED
    BY <1>1, <1>4, <1>5, <1>7, <1>9

\* A packet or an answer is added.
LEMMA Added ==
    ASSUME NEW line \in Seq(Packets), NEW p \in Packets
    PROVE  /\ \A w : /\ Asks(line, w) /\ (p.seq = w \/ NextSeq(p.seq) = w)
                     /\ \A i \in 1 .. Len(line) :
                           line[i].t \in Says /\ line[i].seq = w => p.seq = w
                     => Asks(Append(line, p), w)
           /\ \A o, w : Only(line, o, w) /\ (p.t \in Says /\ p.seq = w => p = o)
                     => Only(Append(line, p), o, w)
           /\ \A c, w : Replies(line, c, w) /\ Level(p) = w => Replies(Append(line, p), c, w)
  <1>1. PICK new \in Seq(Packets) : /\ new = Append(line, p) /\ Len(new) = Len(line) + 1
                                    /\ \A i \in 1 .. Len(line) : new[i] = line[i]
                                    /\ new[Len(line) + 1] = p
    BY LineOps
  <1>2. Len(line) \in Nat /\ \A i \in 1 .. Len(new) : i \in 1 .. Len(line) \/ i = Len(line) + 1
    BY <1>1
  <1>3. ASSUME NEW w, Asks(line, w), p.seq = w \/ NextSeq(p.seq) = w,
               \A i \in 1 .. Len(line) : line[i].t \in Says /\ line[i].seq = w => p.seq = w
        PROVE  Asks(new, w)
    <2>1. \A i \in 1 .. Len(new) :
             new[i].t \in Says => new[i].seq = w \/ NextSeq(new[i].seq) = w
      BY <1>1, <1>2, <1>3 DEF Asks
    <2>2. ASSUME NEW i \in 1 .. Len(new), NEW j \in 1 .. Len(new), i < j,
                 new[i].t \in Says, new[j].t \in Says, new[i].seq = w
          PROVE  new[j].seq = w
      <3>1. i \in 1 .. Len(line)
        BY <1>1, <1>2, <2>2
      <3> QED
        BY <1>1, <1>2, <1>3, <2>2, <3>1 DEF Asks
    <2> QED
      BY <2>1, <2>2 DEF Asks
  <1>4. ASSUME NEW o, NEW w, Only(line, o, w), p.t \in Says /\ p.seq = w => p = o
        PROVE  Only(new, o, w)
    BY <1>1, <1>2, <1>4 DEF Only
  <1>5. ASSUME NEW c, NEW w, Replies(line, c, w), Level(p) = w PROVE Replies(new, c, w)
    <2>1. w = c \/ w = NextSeq(c)
      BY <1>5 DEF Replies
    <2>2. \A i \in 1 .. Len(new) : new[i].t \in Answers => Level(new[i]) = c \/ Level(new[i]) = w
      BY <1>1, <1>2, <1>5 DEF Replies
    <2>3. ASSUME NEW i \in 1 .. Len(new), NEW j \in 1 .. Len(new), i < j,
                 new[i].t \in Answers, new[j].t \in Answers, Level(new[i]) = NextSeq(c)
          PROVE  Level(new[j]) = NextSeq(c)
      <3>1. i \in 1 .. Len(line)
        BY <1>1, <1>2, <2>3
      <3>2. Level(line[i]) = NextSeq(c) /\ line[i].t \in Answers
        BY <1>1, <2>3, <3>1
      <3>3. CASE j = Len(line) + 1
        BY <1>1, <1>5, <2>1, <3>1, <3>2, <3>3 DEF Replies
      <3>4. CASE j \in 1 .. Len(line)
        BY <1>1, <1>5, <2>3, <3>1, <3>2, <3>4 DEF Replies
      <3> QED
        BY <1>2, <3>3, <3>4
    <2> QED
      BY <2>1, <2>2, <2>3 DEF Replies
  <1> QED
    BY <1>1, <1>3, <1>4, <1>5

\* The packet that is wanted is taken: those behind it are that packet once more.
LEMMA WantedTaken ==
    ASSUME NEW line \in Seq(Packets), line # <<>>, NEW w \in Numbers, Asks(line, w),
           Head(line).t \in Says, Head(line).seq = w
    PROVE  /\ Asks(Tail(line), NextSeq(w))
           /\ \A o : Only(Tail(line), o, NextSeq(w))
  <1>1. PICK new \in Seq(Packets), n \in Nat \ {0} :
            /\ new = Tail(line) /\ n = Len(line) /\ Len(new) = n - 1
            /\ \A i \in 1 .. n - 1 : new[i] = line[i + 1]
            /\ Head(line) = line[1]
    <2>1. /\ Tail(line) \in Seq(Packets) /\ Len(line) \in Nat \ {0}
          /\ Len(Tail(line)) = Len(line) - 1 /\ Head(line) = line[1]
          /\ \A i \in 1 .. Len(line) - 1 : Tail(line)[i] = line[i + 1]
      BY LineOps
    <2> QED
      BY <2>1
  <1>2. ASSUME NEW i \in 1 .. Len(new), new[i].t \in Says PROVE new[i].seq = w
    <2>1. i + 1 \in 1 .. n /\ 1 \in 1 .. n /\ 1 < i + 1 /\ new[i] = line[i + 1]
      BY <1>1, <1>2
    <2> QED
      BY <1>1, <1>2, <2>1 DEF Asks
  <1>3. NextSeq(w) # w
    BY NextNumber
  <1> QED
    BY <1>1, <1>2, <1>3 DEF Asks, Only

\* An answer that goes further is taken: those behind it go as far.
LEMMA AnswerTaken ==
    ASSUME NEW line \in Seq(Packets), line # <<>>, NEW c \in Numbers, NEW w, Replies(line, c, w),
           Head(line).t \in Answers, Level(Head(line)) = NextSeq(c)
    PROVE  /\ w = NextSeq(c) /\ Replies(Tail(line), w, w)
           /\ \A i \in 1 .. Len(Tail(line)) :
                 Tail(line)[i].t \in Answers => Level(Tail(line)[i]) = w
  <1>1. PICK new \in Seq(Packets), n \in Nat \ {0} :
            /\ new = Tail(line) /\ n = Len(line) /\ Len(new) = n - 1
            /\ \A i \in 1 .. n - 1 : new[i] = line[i + 1]
            /\ Head(line) = line[1]
    <2>1. /\ Tail(line) \in Seq(Packets) /\ Len(line) \in Nat \ {0}
          /\ Len(Tail(line)) = Len(line) - 1 /\ Head(line) = line[1]
          /\ \A i \in 1 .. Len(line) - 1 : Tail(line)[i] = line[i + 1]
      BY LineOps
    <2> QED
      BY <2>1
  <1>2. NextSeq(c) # c /\ NextSeq(c) \in Numbers /\ NextSeq(NextSeq(c)) # NextSeq(c)
    BY NextNumber, Numbering
  <1>3. w = NextSeq(c)
    BY <1>1, <1>2 DEF Replies
  <1>4. ASSUME NEW i \in 1 .. Len(new), new[i].t \in Answers PROVE Level(new[i]) = w
    <2>1. i + 1 \in 1 .. n /\ 1 < i + 1 /\ new[i] = line[i + 1]
      BY <1>1, <1>4
    <2> QED
      BY <1>1, <1>3, <1>4, <2>1 DEF Replies
  <1>5. Replies(new, w, w)
    BY <1>2, <1>3, <1>4 DEF Replies
  <1> QED
    BY <1>1, <1>3, <1>4, <1>5

\* The packet c is taken and answered for the first time.
LEMMA AnswerGiven ==
    ASSUME NEW line \in Seq(Packets), NEW p \in Packets, NEW c \in Numbers, Replies(line, c, c),
           Level(p) = NextSeq(c)
    PROVE  /\ Replies(Append(line, p), c, NextSeq(c))
           /\ \A i \in 1 .. Len(line) : line[i].t = "Y" => line[i].seq # c
  <1>1. PICK new \in Seq(Packets) : /\ new = Append(line, p) /\ Len(new) = Len(line) + 1
                                    /\ \A i \in 1 .. Len(line) : new[i] = line[i]
                                    /\ new[Len(line) + 1] = p
    BY LineOps
  <1>2. Len(line) \in Nat /\ \A i \in 1 .. Len(new) : i \in 1 .. Len(line) \/ i = Len(line) + 1
    BY <1>1
  <1>3. NextSeq(c) # c
    BY NextNumber
  <1>4. \A i \in 1 .. Len(line) : line[i].t \in Answers => Level(line[i]) = c
    BY DEF Replies
  <1>5. \A i \in 1 .. Len(new) :
           new[i].t \in Answers => Level(new[i]) = c \/ Level(new[i]) = NextSeq(c)
    BY <1>1, <1>2, <1>4
  <1>6. ASSUME NEW i \in 1 .. Len(new), NEW j \in 1 .. Len(new), i < j,
               new[i].t \in Answers, new[j].t \in Answers, Level(new[i]) = NextSeq(c)
        PROVE  Level(new[j]) = NextSeq(c)
    <2>1. i \in 1 .. Len(line)
      BY <1>1, <1>2, <1>6
    <2> QED
      BY <1>1, <1>3, <1>4, <1>6, <2>1
  <1>7. \A i \in 1 .. Len(line) : line[i].t = "Y" => line[i].seq # c
    BY <1>3, <1>4 DEF Answers, Level
  <1> QED
    BY <1>1, <1>5, <1>6, <1>7 DEF Replies

\* The types of packets on a line that is read or added to.
LEMMA Carried ==
    ASSUME NEW line \in Seq(Packets), NEW T
    PROVE  /\ Carries(<<>>, T)
           /\ Carries(line, T) /\ line # <<>> => Carries(Tail(line), T) /\ Head(line).t \in T
           /\ \A p \in Packets : Carries(line, T) /\ p.t \in T => Carries(Append(line, p), T)
  <1>1. Carries(<<>>, T)
    BY DEF Carries
  <1>2. ASSUME Carries(line, T), line # <<>> PROVE Carries(Tail(line), T) /\ Head(line).t \in T
    <2>1. /\ Len(line) \in Nat \ {0} /\ Len(Tail(line)) = Len(line) - 1 /\ Head(line) = line[1]
          /\ \A i \in 1 .. Len(line) - 1 : Tail(line)[i] = line[i + 1]
      BY <1>2, LineOps
    <2>2. ASSUME NEW i \in 1 .. Len(Tail(line)) PROVE Tail(line)[i].t \in T
      <3>1. i + 1 \in 1 .. Len(line) /\ Tail(line)[i] = line[i + 1]
        BY <2>1
      <3> QED
        BY <1>2, <3>1 DEF Carries
    <2>3. 1 \in 1 .. Len(line)
      BY <2>1
    <2> QED
      BY <1>2, <2>1, <2>2, <2>3 DEF Carries
  <1>3. ASSUME NEW p \in Packets, Carries(line, T), p.t \in T PROVE Carries(Append(line, p), T)
    <2>1. /\ Len(line) \in Nat /\ Len(Append(line, p)) = Len(line) + 1
          /\ \A i \in 1 .. Len(line) : Append(line, p)[i] = line[i]
          /\ Append(line, p)[Len(line) + 1] = p
      BY LineOps
    <2>2. \A i \in 1 .. Len(Append(line, p)) : i \in 1 .. Len(line) \/ i = Len(line) + 1
      BY <2>1
    <2> QED
      BY <1>3, <2>1, <2>2 DEF Carries
  <1> QED
    BY <1>1, <1>2, <1>3

\* The acknowledgement on the line stays the answer given last.
LEMMA StillAnswered ==
    ASSUME NEW line \in Seq(Packets), NEW c, NEW last, Answered(line, c, last)
    PROVE  /\ \A new \in Seq(Packets) : PartOf(new, line, Answers) => Answered(new, c, last)
           /\ \A p \in Packets : (p.t = "Y" /\ p.seq = c => last = <<p>>)
                                 => Answered(Append(line, p), c, last)
  <1>1. ASSUME NEW new \in Seq(Packets), PartOf(new, line, Answers)
        PROVE  Answered(new, c, last)
    <2>1. PICK n \in {0, 1} : \A i \in 1 .. Len(new) :
              new[i].t \in Answers => i + n \in 1 .. Len(line) /\ new[i] = line[i + n]
      BY <1>1 DEF PartOf
    <2> QED
      BY <2>1 DEF Answered, Answers
  <1>2. ASSUME NEW p \in Packets, p.t = "Y" /\ p.seq = c => last = <<p>>
        PROVE  Answered(Append(line, p), c, last)
    <2>1. /\ Len(line) \in Nat /\ Len(Append(line, p)) = Len(line) + 1
          /\ \A i \in 1 .. Len(line) : Append(line, p)[i] = line[i]
          /\ Append(line, p)[Len(line) + 1] = p
      BY LineOps
    <2>2. \A i \in 1 .. Len(Append(line, p)) : i \in 1 .. Len(line) \/ i = Len(line) + 1
      BY <2>1
    <2> QED
      BY <1>2, <2>1, <2>2 DEF Answered
  <1> QED
    BY <1>1, <1>2

-----------------------------------------------------------------------------
(* What the two ends know of each other                                    *)

\* The lines when the device sends.
SendLines ==
    k.what = "send" =>
        /\ Carries(toPeer, Says \cup {"E"}) /\ Asks(toPeer, peer.i)
        /\ peer.last # <<>> => peer.last[1].t = "Y" /\ NextSeq(peer.last[1].seq) = peer.i
        /\ Running =>
              /\ k.opkt[1].t \in Says /\ k.opkt[1].seq = k.s_seq /\ k.r_seq = k.s_seq
              /\ Only(toPeer, k.opkt[1], peer.i)
              /\ Replies(toDev, k.s_seq, peer.i) /\ Answered(toDev, k.s_seq, peer.last)

\* The lines when it receives.
RecvLines ==
    peer.role = "send" =>
        /\ Carries(toPeer, Answers \cup {"E"}) /\ Replies(toPeer, peer.says.seq, k.r_seq)
        /\ peer.says.t = "B" /\ k.r_seq # peer.says.seq => k.status = "done"
        /\ peer.status = "done" => k.status = "done"
        /\ Running =>
              /\ Asks(toDev, k.r_seq) /\ Only(toDev, peer.says, k.r_seq)
              /\ k.opkt # <<>> => k.opkt[1].t \in Answers /\ Level(k.opkt[1]) = k.r_seq

Lines == SendLines /\ RecvLines

\* A sequence of at most one packet.
LEMMA Single ==
    ASSUME NEW s \in Seq(Packets), Len(s) <= 1, s # <<>>
    PROVE  /\ s[1] \in Packets /\ s = <<s[1]>>
           /\ \A line \in Seq(Packets) : line \o s = Append(line, s[1])
  <1>1. Len(s) = 1 /\ s[1] \in Packets
    <2>1. Len(s) \in Nat /\ Len(s) # 0
      BY EmptySeq
    <2>2. \A n \in Nat : n # 0 /\ n <= 1 => n = 1
      OBVIOUS
    <2>3. Len(s) = 1
      BY <2>1, <2>2, Zenon
    <2> QED
      BY <2>3
  <1>2. s = <<s[1]>>
    <2>1. \A o : Len(<<o>>) = 1 /\ <<o>>[1] = o
      OBVIOUS
    <2>2. <<s[1]>> \in Seq(Packets)
      BY <1>1
    <2>3. \A i \in 1 .. Len(s) : s[i] = <<s[1]>>[i]
      BY <1>1, <2>1
    <2> QED
      BY <1>1, <2>1, <2>2, <2>3, SeqEqual
  <1>3. \A line \in Seq(Packets), o \in Packets : line \o <<o>> = Append(line, o)
    BY AppendIsConcat
  <1> QED
    BY <1>1, <1>2, <1>3

\* The last packet of a device that sends.
LEMMA LastPacket ==
    ASSUME Types, k.opkt # <<>>
    PROVE  k.opkt[1] \in Packets /\ k.opkt = <<k.opkt[1]>>
           /\ toPeer \o k.opkt = Append(toPeer, k.opkt[1])
  <1>1. /\ k.opkt \in Seq(Packets) /\ Len(k.opkt) <= 1 /\ toPeer \in Seq(Packets)
    BY DEF Types, DeviceTypes, LineTypes, Protocols
  <1> QED
    BY <1>1, Single

\* The device sends.
LEMMA SendDeviceLines ==
    ASSUME Types, Types', SendLines, k.what = "send", Device
    PROVE  SendLines'
  <1>1. /\ toDev \in Seq(Packets) /\ toPeer \in Seq(Packets) /\ toDev' \in Seq(Packets)
        /\ k.s_seq \in Numbers /\ k \in Protocols
        /\ peer' = peer /\ peer.i \in Numbers /\ Running /\ k.opkt # <<>>
    BY DeviceSteps DEF Types, LineTypes, DeviceTypes, PeerTypes, Protocols, Peers
  <1>2. PICK o \in Packets : /\ o = k.opkt[1] /\ k.opkt = <<o>>
                             /\ toPeer \o k.opkt = Append(toPeer, o)
    BY <1>1, LastPacket
  <1>3. /\ Carries(toPeer, Says \cup {"E"}) /\ Asks(toPeer, peer.i)
        /\ peer.last # <<>> => peer.last[1].t = "Y" /\ NextSeq(peer.last[1].seq) = peer.i
        /\ o.t \in Says /\ o.seq = k.s_seq /\ k.r_seq = k.s_seq
        /\ Only(toPeer, o, peer.i)
        /\ Replies(toDev, k.s_seq, peer.i) /\ Answered(toDev, k.s_seq, peer.last)
    BY <1>1, <1>2 DEF SendLines
  <1>4. ASSUME toPeer' = toPeer, ~Running' PROVE SendLines'
    BY <1>1, <1>3, <1>4 DEF SendLines
  <1>5. ASSUME NEW q \in Packets, q.t = "E", toPeer' = Append(toPeer, q), ~Running'
        PROVE  SendLines'
    <2>1. Carries(toPeer', Says \cup {"E"}) /\ Asks(toPeer', peer.i)
      <3>1. PartOf(toPeer', toPeer, Says) /\ toPeer' \in Seq(Packets)
        BY <1>1, <1>5, PartsOf, LineOps DEF Says
      <3> QED
        BY <1>1, <1>3, <1>5, <3>1, Parts, Carried
    <2> QED
      BY <1>1, <1>3, <1>5, <2>1 DEF SendLines
  <1>6. CASE NoSlot
    <2>1. k' = Failed("slots") /\ toPeer' = toPeer
      BY <1>6 DEF NoSlot, Stops
    <2>2. ~Running'
      BY <1>1, <2>1 DEF Failed, Protocols, Running
    <2> QED
      BY <1>4, <2>1, <2>2
  <1>7. ASSUME NEW p, Reads(p), Stays PROVE SendLines'
    <2>1. toDev' = Tail(toDev) /\ toDev # <<>>
      BY <1>7 DEF Reads
    <2>2. Replies(toDev', k.s_seq, peer.i) /\ Answered(toDev', k.s_seq, peer.last)
      <3>1. PartOf(toDev', toDev, Answers)
        BY <1>1, <2>1, PartsOf
      <3> QED
        BY <1>1, <1>3, <3>1, Parts, StillAnswered
    <2>3. CASE k' = k /\ toPeer' = toPeer
      BY <1>1, <1>2, <1>3, <2>2, <2>3 DEF SendLines
    <2>4. CASE k' = k /\ toPeer' = toPeer \o k.opkt
      <3>1. /\ peer.i = o.seq \/ peer.i = NextSeq(o.seq)
            /\ \A i \in 1 .. Len(toPeer) :
                   toPeer[i].t \in Says /\ toPeer[i].seq = peer.i => o.seq = peer.i
        BY <1>3 DEF Replies, Only
      <3>2. Carries(Append(toPeer, o), Says \cup {"E"})
        BY <1>1, <1>3, Carried
      <3>3. Asks(Append(toPeer, o), peer.i)
        BY <1>1, <1>3, <3>1, Added
      <3>4. Only(Append(toPeer, o), o, peer.i)
        BY <1>1, <1>3, Added
      <3> QED
        BY <1>1, <1>2, <1>3, <2>2, <2>4, <3>2, <3>3, <3>4 DEF SendLines
    <2>5. CASE ~(k' = k)
      <3>1. \/ k'.status = "failed" /\ toPeer' = toPeer
            \/ /\ k'.status = "failed"
               /\ \E q \in Packets : q.t = "E" /\ toPeer' = Append(toPeer, q)
        BY <1>7, <2>5 DEF Stays
      <3>2. k'.status = "failed" => ~Running'
        BY DEF Running
      <3> QED
        BY <1>4, <1>5, <3>1, <3>2
    <2>6. k' = k => toPeer' = toPeer \/ toPeer' = toPeer \o k.opkt
      BY <1>1, <1>7 DEF Stays, Running
    <2> QED
      BY <2>3, <2>4, <2>5, <2>6
  <1>8. ASSUME NEW p, Reads(p), Acked(p), SendStep(p) PROVE SendLines'
    <2>1. /\ toDev' = Tail(toDev) /\ toDev # <<>> /\ p = Head(toDev) /\ p.t = "Y"
          /\ p.seq = k.s_seq
      BY <1>3, <1>8 DEF Reads, Acked, Wanted, IsWanted
    <2>2. Level(p) = NextSeq(k.s_seq) /\ p.t \in Answers
      BY <2>1 DEF Level, Answers
    <2>3. /\ peer.i = NextSeq(k.s_seq) /\ Replies(toDev', peer.i, peer.i)
          /\ \A i \in 1 .. Len(toDev') : toDev'[i].t \in Answers => Level(toDev'[i]) = peer.i
      BY <1>1, <1>3, <2>1, <2>2, AnswerTaken
    <2>4. NextSeq(peer.i) # peer.i /\ peer.i # k.s_seq
      BY <1>1, <2>3, NextNumber
    <2>5. Answered(toDev', peer.i, peer.last)
      BY <2>3, <2>4 DEF Answered, Answers, Level
    <2>6. ASSUME NEW q, NEW st, NEW f, NEW pos, SendsOn(q, st, f, pos), q.t \in Says
          PROVE  SendLines'
      <3>1. q \in Packets /\ q.seq = peer.i /\ toPeer' = Append(toPeer, q)
            /\ k'.opkt = <<q>> /\ k'.s_seq = q.seq /\ k'.r_seq = q.seq
        BY <2>3, <2>6 DEF SendsOn
      <3>2. Carries(toPeer', Says \cup {"E"}) /\ Asks(toPeer', peer.i)
        BY <1>1, <1>3, <2>6, <3>1, Carried, Added
      <3>3. Only(toPeer', q, peer.i)
        <4>1. Only(toPeer, q, peer.i)
          BY <1>3, <2>4 DEF Only
        <4> QED
          BY <1>1, <3>1, <4>1, Added
      <3>4. k'.opkt[1] = q
        BY <3>1
      <3> QED
        BY <1>1, <1>3, <2>3, <2>5, <2>6, <3>1, <3>2, <3>3, <3>4 DEF SendLines
    <2>7. CASE \E q, st, f, pos : SendsOn(q, st, f, pos) /\ q.t \in Says
      BY <2>6, <2>7
    <2>8. CASE k' = Failed("io") \/ k' = [k EXCEPT !.status = "done"]
      <3>1. ~Running' /\ k'.status # "run"
        BY <1>1, <2>8 DEF Failed, Protocols, Running
      <3>2. \A q, st, f, pos : ~SendsOn(q, st, f, pos)
        BY <3>1 DEF SendsOn
      <3>3. toPeer' = toPeer
        BY <1>8, <3>2 DEF SendStep
      <3> QED
        BY <1>4, <3>1, <3>3
    <2> QED
      BY <1>8, <2>7, <2>8 DEF SendStep, Says
  <1>9. ~\E p : Reads(p) /\ Received(p)
    BY DEF Received
  <1> QED
    BY <1>6, <1>7, <1>8, <1>9, DeviceSteps

\* The device receives.
LEMMA RecvDeviceLines ==
    ASSUME Types, Types', RecvLines, peer.role = "send", Device
    PROVE  RecvLines'
  <1>1. /\ toDev \in Seq(Packets) /\ toPeer \in Seq(Packets) /\ toDev' \in Seq(Packets)
        /\ k.r_seq \in Numbers /\ k \in Protocols /\ k.what = "recv" /\ k.status = "run"
        /\ peer' = peer /\ peer.says.seq \in Numbers /\ Running
    BY DeviceSteps
       DEF Types, LineTypes, DeviceTypes, PeerTypes, Protocols, Peers, Packets, Running
  <1>2. /\ Carries(toPeer, Answers \cup {"E"}) /\ Replies(toPeer, peer.says.seq, k.r_seq)
        /\ Asks(toDev, k.r_seq) /\ Only(toDev, peer.says, k.r_seq)
        /\ k.opkt # <<>> => k.opkt[1].t \in Answers /\ Level(k.opkt[1]) = k.r_seq
        /\ ~(peer.says.t = "B" /\ k.r_seq # peer.says.seq) /\ peer.status # "done"
    BY <1>1 DEF RecvLines
  <1>3. ASSUME toPeer' = toPeer, k'.r_seq = k.r_seq, ~Running' PROVE RecvLines'
    BY <1>1, <1>2, <1>3 DEF RecvLines
  <1>4. ASSUME NEW q \in Packets, q.t = "E", toPeer' = Append(toPeer, q), k'.r_seq = k.r_seq,
               ~Running'
        PROVE  RecvLines'
    <2>1. Carries(toPeer', Answers \cup {"E"}) /\ Replies(toPeer', peer.says.seq, k.r_seq)
      <3>1. PartOf(toPeer', toPeer, Answers) /\ toPeer' \in Seq(Packets)
        BY <1>1, <1>4, PartsOf, LineOps DEF Answers
      <3>2. Replies(toPeer', peer.says.seq, k.r_seq)
        BY <1>1, <1>2, <3>1, Parts
      <3>3. Carries(toPeer', Answers \cup {"E"})
        BY <1>1, <1>2, <1>4, Carried
      <3> QED
        BY <3>2, <3>3
    <2> QED
      BY <1>1, <1>2, <1>4, <2>1 DEF RecvLines
  <1>5. CASE NoSlot
    <2>1. k' = Failed("slots") /\ toPeer' = toPeer
      BY <1>5 DEF NoSlot, Stops
    <2>2. ~Running' /\ k'.r_seq = k.r_seq
      BY <1>1, <2>1 DEF Failed, Protocols, Running
    <2> QED
      BY <1>3, <2>1, <2>2
  <1>6. ASSUME NEW p, Reads(p), Stays PROVE RecvLines'
    <2>1. toDev' = Tail(toDev) /\ toDev # <<>> /\ k'.r_seq = k.r_seq
      BY <1>6 DEF Reads, Stays
    <2>2. Asks(toDev', k.r_seq) /\ Only(toDev', peer.says, k.r_seq)
      <3>1. PartOf(toDev', toDev, Says)
        BY <1>1, <2>1, PartsOf
      <3> QED
        BY <1>1, <1>2, <3>1, Parts
    <2>3. ASSUME NEW q \in Packets, q.t \in Answers, Level(q) = k.r_seq,
                 toPeer' = Append(toPeer, q), k'.opkt = <<q>>
          PROVE  RecvLines'
      <3>1. Carries(toPeer', Answers \cup {"E"}) /\ Replies(toPeer', peer.says.seq, k.r_seq)
        BY <1>1, <1>2, <2>3, Carried, Added
      <3>2. k'.opkt[1] = q
        BY <2>3
      <3> QED
        BY <1>1, <1>2, <2>1, <2>2, <2>3, <3>1, <3>2 DEF RecvLines
    <2>4. CASE k' = k /\ toPeer' = toPeer
      BY <1>1, <1>2, <2>1, <2>2, <2>4 DEF RecvLines
    <2>5. CASE k' = k /\ toPeer' = toPeer \o k.opkt
      <3>1. CASE k.opkt = <<>>
        <4>1. toPeer' = toPeer
          BY <1>1, <2>5, <3>1
        <4> QED
          BY <2>4, <2>5, <4>1
      <3>2. CASE k.opkt # <<>>
        <4>1. k.opkt[1] \in Packets /\ k.opkt = <<k.opkt[1]>>
              /\ toPeer' = Append(toPeer, k.opkt[1])
          BY <2>5, <3>2, LastPacket, Zenon
        <4> QED
          BY <1>2, <2>3, <2>5, <3>2, <4>1
      <3> QED
        BY <3>1, <3>2
    <2>6. CASE \E q \in Packets : q.t = "N" /\ q.seq = k.r_seq /\ k'.opkt = <<q>>
                                  /\ toPeer' = Append(toPeer, q)
      BY <2>3, <2>6 DEF Answers, Level
    <2>7. CASE k'.status = "failed" /\ toPeer' = toPeer
      BY <1>3, <2>1, <2>7 DEF Running
    <2>8. CASE /\ k'.status = "failed"
               /\ \E q \in Packets : q.t = "E" /\ toPeer' = Append(toPeer, q)
      BY <1>4, <2>1, <2>8 DEF Running
    <2> QED
      BY <1>6, <2>4, <2>5, <2>6, <2>7, <2>8 DEF Stays
  <1>7. ASSUME NEW p, Reads(p), Received(p), ReceiveStep(p) PROVE RecvLines'
    <2>1. /\ toDev' = Tail(toDev) /\ toDev # <<>> /\ p = Head(toDev) /\ IsWanted(p)
          /\ p \in Packets /\ 1 \in 1 .. Len(toDev) /\ toDev[1] = p
      BY <1>1, <1>7, LineOps DEF Reads, Received, Wanted
    <2>2. p.seq = k.r_seq /\ p.t \in Says
      BY <1>1, <2>1 DEF IsWanted, Good, Packets, Answers
    <2>3. p = peer.says /\ peer.says.seq = k.r_seq
      BY <1>2, <2>1, <2>2 DEF Only
    <2>4. ASSUME NEW st, NEW status, NEW f, NEW pos, NEW obuf,
                 AcksWith(st, status, f, pos, obuf), p.t = "B" => status = "done"
          PROVE  RecvLines'
      <3>1. PICK q \in Packets : q.t = "Y" /\ q.seq = k.r_seq /\ k'.opkt = <<q>>
                                 /\ toPeer' = Append(toPeer, q)
        BY <2>4 DEF AcksWith
      <3>2. Level(q) = NextSeq(k.r_seq) /\ q.t \in Answers /\ k'.r_seq = NextSeq(k.r_seq)
            /\ k'.opkt[1] = q /\ k'.status = status
        BY <2>4, <3>1 DEF Level, Answers, AcksWith
      <3>3. Carries(toPeer', Answers \cup {"E"})
            /\ Replies(toPeer', peer.says.seq, NextSeq(k.r_seq))
        BY <1>1, <1>2, <2>3, <3>1, <3>2, Carried, AnswerGiven
      <3>4. Asks(toDev', NextSeq(k.r_seq)) /\ Only(toDev', peer.says, NextSeq(k.r_seq))
        BY <1>1, <1>2, <2>1, <2>2, WantedTaken
      <3> QED
        BY <1>1, <1>2, <2>3, <2>4, <3>2, <3>3, <3>4 DEF RecvLines
    <2>5. ASSUME NEW st, FailsAloud(st) PROVE RecvLines'
      BY <1>4, <2>5 DEF FailsAloud, Running
    <2>6. \/ \E st : FailsAloud(st)
          \/ \E st, status, f, pos, obuf :
                AcksWith(st, status, f, pos, obuf) /\ (p.t = "B" => status = "done")
      BY <1>7 DEF ReceiveStep, DataTakes, DataFails, EndTakes, EndFails
    <2> QED
      BY <2>4, <2>5, <2>6
  <1>8. ~\E p : Reads(p) /\ Acked(p)
    BY <1>1 DEF Acked
  <1> QED
    BY <1>5, <1>6, <1>7, <1>8, DeviceSteps

\* The other Kermit is where it was; it may have ended.
PeerStays ==
    /\ peer'.last = peer.last /\ peer'.role = peer.role /\ peer'.sending = peer.sending
    /\ peer'.says = peer.says /\ peer'.file = peer.file /\ peer'.got = peer.got
    /\ peer'.i = peer.i /\ peer'.cancel = peer.cancel /\ peer'.cancelled = peer.cancelled
    /\ peer'.pos = peer.pos
    /\ ~PeerRunning => peer'.status = peer.status
    /\ peer'.status = "done" =>
          \/ peer.status = "done"
          \/ peer.role = "send" /\ peer.says.t = "B" /\ toPeer # <<>> /\ IsProgress(Head(toPeer))

\* The other Kermit sends its next packet.
PeerSendsOn ==
    /\ toPeer # <<>> /\ IsProgress(Head(toPeer)) /\ toPeer' = Tail(toPeer)
    /\ PeerRunning /\ peer.role = "send" /\ peer.says.t # "B"
    /\ peer' = Following /\ toDev' = Append(toDev, Following.says)

\* It says once more what it has said.
PeerSaysAgain(r) ==
    /\ toDev' = Append(toDev, r)
    /\ IF peer.role = "send" THEN r = peer.says
                             ELSE peer.last = <<r>> \/ (r.t = "N" /\ r.seq = peer.i)

\* The packets of the types that go to either end.
Forth == IF peer.role = "send" THEN Says ELSE Answers

\* The line loses packets, damages them or adds nothing that matters.
LinesLose ==
    /\ PartOf(toPeer', toPeer, Says) /\ PartOf(toPeer', toPeer, Answers)
    /\ \A T : Carries(toPeer, T) => Carries(toPeer', T)

\* What the other Kermit and the line may do.
LEMMA OutsideSteps ==
    ASSUME Types, Outside,
           Carries(toPeer, IF peer.role = "send" THEN Answers \cup {"E"} ELSE Says \cup {"E"})
           \/ peer.role = "none"
    PROVE  \/ PeerSendsOn
           \/ /\ toPeer # <<>> /\ toPeer' = Tail(toPeer)
              /\ \E reply \in Packets : Takes(Head(toPeer), reply)
           \/ /\ PeerStays /\ LinesLose
              /\ \/ PartOf(toDev', toDev, Forth) \/ peer.role = "none"
                 \/ \E r \in Packets : PeerSaysAgain(r)
  <1>1. /\ toDev \in Seq(Packets) /\ toPeer \in Seq(Packets) /\ peer \in Peers /\ PeerTypes
        /\ peer.last \in Seq(Packets) /\ Len(peer.last) <= 1 /\ peer.says \in Packets
    BY DEF Types, LineTypes, PeerTypes, Peers
  <1>2. \A st \in {"run", "done", "failed", "gaveup", "aborted"} :
           \A q \in {[peer EXCEPT !.status = st], [peer EXCEPT !.waits = @ + 1]} :
                 /\ q.last = peer.last /\ q.role = peer.role /\ q.sending = peer.sending
                 /\ q.says = peer.says /\ q.file = peer.file /\ q.got = peer.got
                 /\ q.i = peer.i /\ q.cancel = peer.cancel /\ q.cancelled = peer.cancelled
                 /\ q.pos = peer.pos
    <2> SUFFICES ASSUME NEW st \in {"run", "done", "failed", "gaveup", "aborted"},
                        NEW q \in {[peer EXCEPT !.status = st], [peer EXCEPT !.waits = @ + 1]}
                 PROVE  /\ q.last = peer.last /\ q.role = peer.role /\ q.sending = peer.sending
                        /\ q.says = peer.says /\ q.file = peer.file /\ q.got = peer.got
                        /\ q.i = peer.i /\ q.cancel = peer.cancel
                        /\ q.cancelled = peer.cancelled /\ q.pos = peer.pos
      BY Zenon
    <2> QED
      BY <1>1, WithStatus, Zenon
  <1>3. /\ \A st : [peer EXCEPT !.status = st].status = st
        /\ [peer EXCEPT !.waits = @ + 1].status = peer.status
    BY <1>1 DEF Peers
  <1>4. peer' = peer => PeerStays
    BY DEF PeerStays
  <1>5. toPeer' = toPeer => LinesLose
    BY <1>1, PartsOf DEF LinesLose
  <1>6. toPeer # <<>> /\ toPeer' = Tail(toPeer) => LinesLose
    BY <1>1, PartsOf, Carried DEF LinesLose
  <1>7. toPeer' = <<>> => LinesLose
    BY <1>1, PartsOf, Carried DEF LinesLose
  <1>8. toDev' = toDev => PartOf(toDev', toDev, Forth)
    BY <1>1, PartsOf
  <1>9. CASE toPeer # <<>> /\ PeerReadsNext(Head(toPeer))
    <2>1. PICK p \in Packets : PeerReadsNext(p) /\ p = Head(toPeer)
      BY <1>1, <1>9, LineOps
    <2>2. PeerRunning /\ toPeer' = Tail(toPeer) /\ toPeer # <<>>
      BY <1>9, <2>1 DEF PeerReadsNext, PeerNext, PeerAgain, PeerTakes, PeerRepeats, PeerStops,
                  PeerIgnores, PeerReads
    <2>3. CASE PeerNext(p)
      <3>1. CASE peer.says.t # "B"
        BY <2>1, <2>2, <2>3, <3>1 DEF PeerNext, PeerSays, PeerSendsOn
      <3>2. CASE peer.says.t = "B"
        <4>1. peer' = [peer EXCEPT !.status = "done"] /\ toDev' = toDev /\ IsProgress(p)
              /\ peer.role = "send"
          BY <2>3, <3>2 DEF PeerNext
        <4>2. PeerStays
          BY <1>2, <2>1, <2>2, <3>2, <4>1 DEF PeerStays
        <4> QED
          BY <1>6, <1>8, <2>2, <4>1, <4>2
      <3> QED
        BY <3>1, <3>2
    <2>4. CASE PeerAgain(p)
      BY <1>1, <1>4, <1>6, <2>2, <2>4 DEF PeerAgain, PeerSays, PeerSaysAgain
    <2>5. CASE PeerTakes(p)
      BY <1>1, <2>1, <2>2, <2>5, PeerTakesIs
    <2>6. CASE PeerRepeats(p)
      <3>1. /\ peer' = peer /\ peer.role = "recv"
            /\ (toDev' = toDev \o peer.last \/ toDev' = Append(toDev, Packet("N", peer.i, <<>>)))
        BY <2>6 DEF PeerRepeats, PeerSays
      <3>2. CASE toDev' = Append(toDev, Packet("N", peer.i, <<>>))
        <4>1. /\ Packet("N", peer.i, <<>>) \in Packets /\ Packet("N", peer.i, <<>>).t = "N"
              /\ Packet("N", peer.i, <<>>).seq = peer.i
          BY <1>1, ReminderIs DEF Packet
        <4>2. PeerSaysAgain(Packet("N", peer.i, <<>>))
          BY <3>1, <3>2, <4>1 DEF PeerSaysAgain
        <4> QED
          BY <1>4, <1>6, <2>2, <3>1, <4>1, <4>2
      <3>3. CASE toDev' = toDev \o peer.last /\ peer.last = <<>>
        <4>1. toDev' = toDev
          BY <1>1, <3>3
        <4> QED
          BY <1>4, <1>6, <1>8, <2>2, <3>1, <4>1
      <3>4. CASE toDev' = toDev \o peer.last /\ peer.last # <<>>
        <4>1. PICK r \in Packets : peer.last = <<r>> /\ toDev' = Append(toDev, r)
          BY <1>1, <3>4, Single
        <4>2. PeerSaysAgain(r)
          BY <3>1, <4>1 DEF PeerSaysAgain
        <4> QED
          BY <1>4, <1>6, <2>2, <3>1, <4>2
      <3> QED
        BY <3>1, <3>2, <3>3, <3>4
    <2>7. CASE PeerStops(p)
      <3>1. peer' = [peer EXCEPT !.status = "failed"] /\ toDev' = toDev
        BY <2>7 DEF PeerStops
      <3>2. PeerStays
        BY <1>2, <1>3, <2>2, <3>1 DEF PeerStays
      <3> QED
        BY <1>6, <1>8, <2>2, <3>1, <3>2
    <2>8. CASE PeerIgnores(p)
      BY <1>4, <1>6, <1>8, <2>2, <2>8 DEF PeerIgnores
    <2> QED
      BY <2>1, <2>3, <2>4, <2>5, <2>6, <2>7, <2>8 DEF PeerReadsNext
  <1>10. CASE PeerRepeatsItself \/ PeerAborts
    <2>1. PeerRunning /\ toPeer' = toPeer
      BY <1>10 DEF PeerRepeatsItself, PeerAborts
    <2>2. CASE PeerSays([peer EXCEPT !.waits = @ + 1], Reminder)
      <3>1. peer' = [peer EXCEPT !.waits = @ + 1] /\ toDev' = Append(toDev, Reminder)
            /\ Reminder \in Packets
        BY <1>1, <2>2, ReminderIs DEF PeerSays
      <3>2. PeerStays
        BY <1>2, <1>3, <2>1, <3>1 DEF PeerStays, PeerRunning
      <3>3. PeerSaysAgain(Reminder)
        <4>1. Packet("N", peer.i, <<>>).t = "N" /\ Packet("N", peer.i, <<>>).seq = peer.i
          BY <1>1, ReminderIs DEF Packet
        <4> QED
          BY <3>1, <4>1 DEF PeerSaysAgain, Reminder
      <3> QED
        BY <1>5, <2>1, <3>1, <3>2, <3>3
    <2>3. CASE \E st \in {"gaveup", "aborted"} :
                  PeerSays([peer EXCEPT !.status = st], Packet("E", 0, <<>>))
      <3>1. PICK st \in {"gaveup", "aborted"} :
               peer' = [peer EXCEPT !.status = st] /\ toDev' = Append(toDev, Packet("E", 0, <<>>))
        BY <2>3 DEF PeerSays
      <3>2. Packet("E", 0, <<>>) \in Packets /\ Packet("E", 0, <<>>).t = "E"
        BY <1>1, ReminderIs DEF Packet
      <3>3. PartOf(toDev', toDev, Forth)
        BY <1>1, <3>1, <3>2, PartsOf DEF Forth, Says, Answers
      <3>4. PeerStays
        BY <1>2, <1>3, <2>1, <3>1 DEF PeerStays
      <3> QED
        BY <1>5, <2>1, <3>3, <3>4
    <2> QED
      BY <1>10, <2>2, <2>3 DEF PeerRepeatsItself, PeerAborts
  <1>11. CASE Lose \/ (\E kind \in Damages : Damage(kind)) \/ Loopback \/ Discard \/ ReadsOn
    <2>1. peer' = peer
      BY <1>11 DEF Lose, Damage, Loopback, Discard, Fault, ReadsOn, Swallow
    <2>2. LinesLose
      BY <1>5, <1>6, <1>7, <1>11
         DEF Lose, Damage, Loopback, Discard, NobodyReads, ReadsOn, Swallow
    <2>5. CASE ReadsOn
      <3>1. PICK kind \in Damages : Swallow(kind)
        BY <2>5 DEF ReadsOn
      <3>2. Len(toDev) > 1 /\ toDev' = <<[toDev[2] EXCEPT !.t = kind]>> \o Tail(Tail(toDev))
        BY <3>1 DEF Swallow
      <3>3. toDev[2] \in Packets
        <4>1. toDev[2] = Head(Tail(toDev)) /\ Tail(toDev) \in Seq(Packets)
              /\ Tail(toDev) # <<>>
          BY <1>1, <3>2, Behind
        <4> QED
          BY <4>1, LineOps
      <3>4. [toDev[2] EXCEPT !.t = kind] \in Packets /\ [toDev[2] EXCEPT !.t = kind].t = kind
        BY <3>3 DEF Packets, Damages
      <3>5. kind \notin Forth
        BY DEF Forth, Damages, Says, Answers
      <3>6. PartOf(toDev', toDev, Forth)
        BY <1>1, <3>2, <3>4, <3>5, SwallowedPart
      <3> QED
        BY <1>4, <2>1, <2>2, <3>6
    <2>3. CASE ~Loopback /\ ~ReadsOn
      <3>1. \/ toDev' = toDev \/ toDev' = <<>> \/ (toDev # <<>> /\ toDev' = Tail(toDev))
            \/ \E kind \in Damages : Damage(kind)
        BY <1>11, <2>3 DEF Lose, Discard, NobodyReads
      <3>2. ASSUME NEW kind \in Damages, Damage(kind) PROVE PartOf(toDev', toDev, Forth)
        <4>1. toDev # <<>> /\ toDev' = <<[Head(toDev) EXCEPT !.t = kind]>> \o Tail(toDev)
          BY <3>2 DEF Damage
        <4>2. Head(toDev) \in Packets
          BY <1>1, <4>1, LineOps
        <4>3. [Head(toDev) EXCEPT !.t = kind] \in Packets
              /\ [Head(toDev) EXCEPT !.t = kind].t = kind
          BY <4>2 DEF Packets, Damages
        <4>4. kind \notin Forth
          BY DEF Forth, Damages, Says, Answers
        <4> QED
          BY <1>1, <4>1, <4>3, <4>4, PartsOf
      <3>3. PartOf(toDev', toDev, Forth)
        BY <1>1, <1>8, <3>1, <3>2, PartsOf
      <3> QED
        BY <1>4, <2>1, <2>2, <3>3
    <2>4. CASE Loopback
      <3>1. toPeer # <<>> /\ toDev' = Append(toDev, Last(toPeer))
        BY <2>4 DEF Loopback
      <3>2. Last(toPeer) \in Packets /\ Last(toPeer) = toPeer[Len(toPeer)]
            /\ Len(toPeer) \in 1 .. Len(toPeer)
        BY <1>1, <3>1 DEF Last
      <3>3. peer.role # "none" => Last(toPeer).t \notin Forth
        BY <3>2 DEF Carries, Forth, Says, Answers
      <3>4. PartOf(toDev', toDev, Forth) \/ peer.role = "none"
        BY <1>1, <3>1, <3>2, <3>3, PartsOf
      <3> QED
        BY <1>4, <2>1, <2>2, <3>4
    <2> QED
      BY <2>3, <2>4, <2>5
  <1> QED
    BY <1>9, <1>10, <1>11 DEF Outside

\* The other Kermit and the line keep to the protocol.
LEMMA OutsideLines ==
    ASSUME Types, Types', Lines, Outside
    PROVE  Lines'
  <1>1. /\ toDev \in Seq(Packets) /\ toPeer \in Seq(Packets) /\ peer \in Peers /\ PeerTypes
        /\ toDev' \in Seq(Packets) /\ toPeer' \in Seq(Packets)
        /\ peer.i \in Numbers /\ peer.says \in Packets /\ peer.says.seq \in Numbers
        /\ (k.what = "send" <=> peer.role = "recv") /\ peer.role \in {"none", "send", "recv"}
        /\ (peer.role = "send" => peer.says.t \in Says)
    BY DEF Types, LineTypes, PeerTypes, Peers, Packets
  <1>2. k' = k
    BY DEF Outside, device
  <1>3. \/ peer.role = "none"
        \/ Carries(toPeer, IF peer.role = "send" THEN Answers \cup {"E"} ELSE Says \cup {"E"})
    BY <1>1 DEF Lines, SendLines, RecvLines
  <1>4. CASE PeerSendsOn
    <2>1. PICK p \in Packets : p = Head(toPeer) /\ IsProgress(p)
      BY <1>1, <1>4, LineOps DEF PeerSendsOn
    <2>2. peer.role = "send" /\ peer.says.t # "B" /\ toPeer # <<>> /\ toPeer' = Tail(toPeer)
      BY <1>4 DEF PeerSendsOn
    <2>3. PICK q : q = Following.says
      OBVIOUS
    <2>4. /\ SamePeer(Following) /\ q.t \in Says /\ q.seq = NextSeq(peer.says.seq)
          /\ peer' = Following /\ toDev' = Append(toDev, q) /\ q \in Packets
      BY <1>1, <1>4, <2>2, <2>3, FollowingIs DEF PeerSendsOn, SamePeer, Peers
    <2>5. p.t \in Answers /\ Level(p) = NextSeq(peer.says.seq)
      BY <2>1 DEF IsProgress, Answers, Level
    <2>6. /\ Carries(toPeer, Answers \cup {"E"}) /\ Replies(toPeer, peer.says.seq, k.r_seq)
          /\ peer.status = "done" => k.status = "done"
          /\ Running => /\ Asks(toDev, k.r_seq) /\ Only(toDev, peer.says, k.r_seq)
                        /\ k.opkt # <<>> => k.opkt[1].t \in Answers /\ Level(k.opkt[1]) = k.r_seq
      BY <2>2 DEF Lines, RecvLines
    <2>7. k.r_seq = q.seq /\ Replies(toPeer', k.r_seq, k.r_seq)
      BY <1>1, <2>1, <2>2, <2>4, <2>5, <2>6, AnswerTaken
    <2>8. Carries(toPeer', Answers \cup {"E"})
      BY <1>1, <2>2, <2>6, Carried
    <2>9. ASSUME Running PROVE Asks(toDev', k.r_seq) /\ Only(toDev', q, k.r_seq)
      <3>1. peer.says.seq # k.r_seq
        BY <1>1, <2>4, <2>7, NextNumber
      <3>2. \A i \in 1 .. Len(toDev) : ~(toDev[i].t \in Says /\ toDev[i].seq = k.r_seq)
        BY <2>6, <2>9, <3>1 DEF Only
      <3>3. Asks(toDev, k.r_seq) /\ Only(toDev, q, k.r_seq)
        BY <2>6, <2>9, <3>2 DEF Only
      <3>4. Asks(Append(toDev, q), k.r_seq)
        BY <1>1, <2>4, <2>7, <3>2, <3>3, Added
      <3>5. Only(Append(toDev, q), q, k.r_seq)
        BY <1>1, <2>4, <3>3, Added
      <3> QED
        BY <2>4, <3>4, <3>5
    <2>10. peer'.role = peer.role /\ peer'.status = peer.status /\ peer'.says = q
      BY <2>3, <2>4 DEF SamePeer
    <2>11. RecvLines'
      BY <1>2, <2>6, <2>7, <2>8, <2>9, <2>10 DEF RecvLines, Running
    <2> QED
      BY <1>1, <1>2, <2>2, <2>11 DEF Lines, SendLines
  <1>5. ASSUME toPeer # <<>>, toPeer' = Tail(toPeer), NEW reply \in Packets,
               Takes(Head(toPeer), reply)
        PROVE  Lines'
    <2>1. PICK p \in Packets : p = Head(toPeer) /\ Takes(p, reply)
      BY <1>5 DEF Takes
    <2>2. /\ peer.role = "recv" /\ p.t # "E" /\ p.seq = peer.i /\ reply.t = "Y"
          /\ reply.seq = peer.i /\ toDev' = Append(toDev, reply) /\ peer'.last = <<reply>>
          /\ peer'.i = NextSeq(peer.i) /\ peer'.role = "recv" /\ NextSeq(peer.i) # peer.i
      BY <1>1, <2>1, NextNumber DEF Takes
    <2>3. /\ Carries(toPeer, Says \cup {"E"}) /\ Asks(toPeer, peer.i)
          /\ Running =>
                /\ k.opkt[1].t \in Says /\ k.opkt[1].seq = k.s_seq /\ k.r_seq = k.s_seq
                /\ Only(toPeer, k.opkt[1], peer.i)
                /\ Replies(toDev, k.s_seq, peer.i) /\ Answered(toDev, k.s_seq, peer.last)
      BY <1>1, <2>2 DEF Lines, SendLines
    <2>4. p.t \in Says /\ Carries(toPeer', Says \cup {"E"})
      BY <1>1, <1>5, <2>1, <2>2, <2>3, Carried
    <2>5. Asks(toPeer', peer'.i) /\ \A o : Only(toPeer', o, peer'.i)
      BY <1>1, <1>5, <2>1, <2>2, <2>3, <2>4, WantedTaken
    <2>6. peer'.last[1] = reply
      BY <2>2
    <2>7. ASSUME Running
          PROVE  Replies(toDev', k.s_seq, peer'.i) /\ Answered(toDev', k.s_seq, peer'.last)
      <3>1. p = k.opkt[1]
        <4>1. 1 \in 1 .. Len(toPeer) /\ toPeer[1] = p
          BY <1>1, <1>5, <2>1, LineOps
        <4> QED
          BY <2>2, <2>3, <2>4, <2>7, <4>1 DEF Only
      <3>2. k.s_seq = peer.i /\ Replies(toDev, peer.i, peer.i) /\ Level(reply) = NextSeq(peer.i)
        BY <2>2, <2>3, <2>7, <3>1 DEF Level
      <3>3. /\ Replies(toDev', peer.i, NextSeq(peer.i))
            /\ \A i \in 1 .. Len(toDev) : toDev[i].t = "Y" => toDev[i].seq # peer.i
        BY <1>1, <2>2, <3>2, AnswerGiven
      <3>4. Answered(toDev, peer.i, <<reply>>)
        BY <3>3 DEF Answered
      <3>5. Answered(toDev', peer.i, <<reply>>)
        BY <1>1, <2>2, <3>4, StillAnswered
      <3> QED
        BY <2>2, <3>2, <3>3, <3>5
    <2>8. SendLines'
      BY <1>2, <2>2, <2>3, <2>4, <2>5, <2>6, <2>7 DEF SendLines, Running
    <2> QED
      BY <2>2, <2>8 DEF Lines, RecvLines
  <1>6. CASE PeerStays /\ LinesLose /\ peer.role = "recv"
             /\ (PartOf(toDev', toDev, Forth) \/ \E r \in Packets : PeerSaysAgain(r))
    <2>1. /\ Carries(toPeer, Says \cup {"E"}) /\ Asks(toPeer, peer.i)
          /\ peer.last # <<>> => peer.last[1].t = "Y" /\ NextSeq(peer.last[1].seq) = peer.i
          /\ Running =>
                /\ k.opkt[1].t \in Says /\ k.opkt[1].seq = k.s_seq /\ k.r_seq = k.s_seq
                /\ Only(toPeer, k.opkt[1], peer.i)
                /\ Replies(toDev, k.s_seq, peer.i) /\ Answered(toDev, k.s_seq, peer.last)
      BY <1>1, <1>6 DEF Lines, SendLines
    <2>2. PartOf(toPeer', toPeer, Says) /\ Carries(toPeer', Says \cup {"E"})
      BY <1>6, <2>1 DEF LinesLose
    <2>3. Asks(toPeer', peer.i) /\ (Running => Only(toPeer', k.opkt[1], peer.i))
      BY <1>1, <2>1, <2>2, Parts
    <2>4. peer'.i = peer.i /\ peer'.last = peer.last /\ peer'.role = peer.role
      BY <1>6 DEF PeerStays
    <2>5. ASSUME Running
          PROVE  Replies(toDev', k.s_seq, peer.i) /\ Answered(toDev', k.s_seq, peer.last)
      <3>1. CASE PartOf(toDev', toDev, Forth)
        <4>1. PartOf(toDev', toDev, Answers)
          BY <1>6, <3>1 DEF Forth
        <4> QED
          BY <1>1, <2>1, <2>5, <4>1, Parts, StillAnswered
      <3>2. ASSUME NEW r \in Packets, PeerSaysAgain(r)
            PROVE  Replies(toDev', k.s_seq, peer.i) /\ Answered(toDev', k.s_seq, peer.last)
        <4>1. toDev' = Append(toDev, r) /\ (peer.last = <<r>> \/ (r.t = "N" /\ r.seq = peer.i))
          BY <1>6, <3>2 DEF PeerSaysAgain
        <4>2. peer.last = <<r>> => peer.last # <<>> /\ peer.last[1] = r
          OBVIOUS
        <4>3. Level(r) = peer.i /\ (r.t = "Y" => peer.last = <<r>>)
          BY <2>1, <4>1, <4>2 DEF Level
        <4> QED
          BY <1>1, <2>1, <2>5, <4>1, <4>3, Added, StillAnswered
      <3> QED
        BY <1>6, <3>1, <3>2
    <2>6. SendLines'
      BY <1>2, <2>1, <2>2, <2>3, <2>4, <2>5 DEF SendLines, Running
    <2> QED
      BY <1>6, <2>4, <2>6 DEF Lines, RecvLines
  <1>7. CASE PeerStays /\ LinesLose /\ peer.role = "send"
             /\ (PartOf(toDev', toDev, Forth) \/ \E r \in Packets : PeerSaysAgain(r))
    <2>1. /\ Carries(toPeer, Answers \cup {"E"}) /\ Replies(toPeer, peer.says.seq, k.r_seq)
          /\ peer.says.t = "B" /\ k.r_seq # peer.says.seq => k.status = "done"
          /\ peer.status = "done" => k.status = "done"
          /\ Running => /\ Asks(toDev, k.r_seq) /\ Only(toDev, peer.says, k.r_seq)
                        /\ k.opkt # <<>> => k.opkt[1].t \in Answers /\ Level(k.opkt[1]) = k.r_seq
      BY <1>7 DEF Lines, RecvLines
    <2>2. Carries(toPeer', Answers \cup {"E"}) /\ PartOf(toPeer', toPeer, Answers)
      BY <1>7, <2>1 DEF LinesLose
    <2>3. Replies(toPeer', peer.says.seq, k.r_seq)
      BY <1>1, <2>1, <2>2, Parts
    <2>4. peer'.says = peer.says /\ peer'.role = peer.role
      BY <1>7 DEF PeerStays
    <2>5. peer'.status = "done" => k.status = "done"
      <3>1. ASSUME peer.says.t = "B", toPeer # <<>>, IsProgress(Head(toPeer))
            PROVE  k.status = "done"
        <4>1. Head(toPeer).t \in Answers /\ Level(Head(toPeer)) = NextSeq(peer.says.seq)
          BY <3>1 DEF IsProgress, Answers, Level
        <4>2. k.r_seq = NextSeq(peer.says.seq)
          BY <1>1, <2>1, <3>1, <4>1, AnswerTaken
        <4> QED
          BY <1>1, <2>1, <3>1, <4>2, NextNumber
      <3> QED
        BY <1>7, <2>1, <3>1 DEF PeerStays
    <2>6. ASSUME Running PROVE Asks(toDev', k.r_seq) /\ Only(toDev', peer.says, k.r_seq)
      <3>1. CASE PartOf(toDev', toDev, Forth)
        <4>1. PartOf(toDev', toDev, Says)
          BY <1>7, <3>1 DEF Forth
        <4> QED
          BY <1>1, <2>1, <2>6, <4>1, Parts
      <3>2. ASSUME NEW r \in Packets, PeerSaysAgain(r)
            PROVE  Asks(toDev', k.r_seq) /\ Only(toDev', peer.says, k.r_seq)
        <4>1. toDev' = Append(toDev, peer.says)
          BY <1>7, <3>2 DEF PeerSaysAgain
        <4>2. peer.says.seq = k.r_seq \/ NextSeq(peer.says.seq) = k.r_seq
          BY <2>1 DEF Replies
        <4>3. \A i \in 1 .. Len(toDev) :
                 toDev[i].t \in Says /\ toDev[i].seq = k.r_seq => peer.says.seq = k.r_seq
          BY <2>1, <2>6 DEF Only
        <4>4. Asks(Append(toDev, peer.says), k.r_seq)
          BY <1>1, <2>1, <2>6, <4>2, <4>3, Added
        <4>5. Only(Append(toDev, peer.says), peer.says, k.r_seq)
          BY <1>1, <2>1, <2>6, Added
        <4> QED
          BY <4>1, <4>4, <4>5
      <3> QED
        BY <1>7, <3>1, <3>2
    <2>7. RecvLines'
      BY <1>2, <2>1, <2>2, <2>3, <2>4, <2>5, <2>6 DEF RecvLines, Running
    <2> QED
      BY <1>1, <1>2, <1>7, <2>7 DEF Lines, SendLines
  <1>8. CASE PeerStays /\ peer.role = "none"
    BY <1>1, <1>2, <1>8 DEF PeerStays, Lines, SendLines, RecvLines
  <1> QED
    BY <1>1, <1>3, <1>4, <1>5, <1>6, <1>7, <1>8, OutsideSteps

\* The two ends start with the same number and empty lines.
LEMMA StartLines ==
    ASSUME Types, Types', Starts
    PROVE  Lines'
  <1>1. \A o : Len(<<o>>) = 1 /\ <<o>>[1] = o /\ Len(<<>>) = 0
    OBVIOUS
  <1>2. \A i, j \in 1 .. 1 : i = 1 /\ j = 1 /\ ~(i < j)
    OBVIOUS
  <1>3. \A t : Packet(t, 0, <<>>).t = t /\ Packet(t, 0, <<>>).seq = 0
    BY Numbering DEF Packet
  <1>4. \A c, last : Replies(<<>>, c, c) /\ Answered(<<>>, c, last)
    BY <1>1 DEF Replies, Answered
  <1>5. \A T : Carries(<<>>, T)
    BY <1>1 DEF Carries
  <1>6. \A o : o.seq = 0 => Asks(<<o>>, 0) /\ Only(<<o>>, o, 0)
    BY <1>1, <1>2 DEF Asks, Only
  <1>7. ASSUME NEW s \in Sendings, StartsReceive(s) PROVE Lines'
    <2>1. s.first \in {"S", "I"}
      BY ConstAssumption
    <2>2. PICK p : p = Packet(s.first, 0, <<>>)
      OBVIOUS
    <2>3. /\ peer'.role = "send" /\ peer'.says = p /\ peer'.status = "run" /\ toDev' = <<p>>
          /\ toPeer' = <<>> /\ k'.r_seq = 0 /\ k'.opkt = <<>> /\ k'.what = "recv"
      BY <1>7, <2>2 DEF StartsReceive
    <2>4. p.seq = 0 /\ p.t # "B"
      BY <1>3, <2>1, <2>2
    <2>5. RecvLines'
      BY <1>4, <1>5, <1>6, <2>3, <2>4 DEF RecvLines
    <2> QED
      BY <2>3, <2>5 DEF Lines, SendLines
  <1>8. ASSUME NEW r \in Receivings, StartsSend(r) PROVE Lines'
    <2>1. PICK p : p = Packet("S", 0, <<>>)
      OBVIOUS
    <2>2. /\ peer'.role = "recv" /\ peer'.last = <<>> /\ peer'.i = 0 /\ toDev' = <<>>
          /\ toPeer' = <<p>> /\ k'.r_seq = 0 /\ k'.s_seq = 0 /\ k'.opkt = <<p>>
          /\ k'.what = "send"
      BY <1>8, <2>1 DEF StartsSend
    <2>3. p.seq = 0 /\ p.t \in Says /\ k'.opkt[1] = p
      BY <1>1, <1>3, <2>1, <2>2 DEF Says
    <2>4. Carries(<<p>>, Says \cup {"E"})
      BY <1>1, <1>2, <2>3 DEF Carries
    <2>5. SendLines'
      BY <1>4, <1>6, <2>2, <2>3, <2>4 DEF SendLines
    <2> QED
      BY <2>2, <2>5 DEF Lines, RecvLines
  <1> QED
    BY <1>7, <1>8, StartIs DEF Starts

\* Whatever is lost, damaged, repeated or early: each end is at most one packet ahead of the
\* other, a packet with the number that is wanted is the packet that was sent last, and an
\* end that has finished has not left the other one in the middle.
LEMMA NextLines ==
    ASSUME Types, Types', Lines, [Next]_vars
    PROVE  Lines'
  <1>1. /\ (k.what = "send" <=> peer.role = "recv") /\ peer.role \in {"none", "send", "recv"}
        /\ k \in Protocols
    BY DEF Types, PeerTypes, DeviceTypes, Peers
  <1>2. CASE Device
    <2>1. peer' = peer /\ k'.what = k.what
      <3>1. \A why : Failed(why).what = k.what
        BY <1>1 DEF Failed, Protocols
      <3>2. CASE NoSlot
        BY <1>2, <3>1, <3>2, DeviceSteps DEF NoSlot, Stops
      <3>3. ASSUME NEW p, Acked(p), SendStep(p) PROVE k'.what = k.what
        <4>1. k.what = "send" /\ [k EXCEPT !.status = "done"].what = k.what
          BY <1>1, <3>3 DEF Acked, Protocols
        <4> QED
          BY <3>1, <3>3, <4>1 DEF SendStep, SendsOn
      <3>4. ASSUME NEW p, ReceiveStep(p) PROVE k'.what = k.what
        BY <3>4 DEF ReceiveStep, DataTakes, DataFails, EndTakes, EndFails, AcksWith, FailsAloud
      <3> QED
        BY <1>2, <3>2, <3>3, <3>4, DeviceSteps DEF Stays
    <2>2. CASE k.what = "send"
      BY <1>1, <1>2, <2>1, <2>2, SendDeviceLines DEF Lines, RecvLines
    <2>3. CASE peer.role = "send"
      BY <1>1, <1>2, <2>1, <2>3, RecvDeviceLines DEF Lines, SendLines
    <2>4. CASE k.what # "send" /\ peer.role # "send"
      BY <1>1, <2>1, <2>4 DEF Lines, RecvLines, SendLines
    <2> QED
      BY <2>2, <2>3, <2>4
  <1>3. CASE Running /\ Stops("user")
    <2>1. UNCHANGED <<toDev, toPeer, peer>> /\ k' = Failed("user")
      BY <1>3 DEF Stops
    <2>2. /\ k'.what = k.what /\ k'.r_seq = k.r_seq /\ k'.status = "failed"
      BY <1>1, <2>1 DEF Failed, Protocols
    <2> QED
      BY <1>3, <2>1, <2>2 DEF Lines, SendLines, RecvLines, Running
  <1>4. CASE UNCHANGED vars
    BY <1>4 DEF Lines, SendLines, RecvLines, Running, vars, device
  <1> QED
    BY <1>2, <1>3, <1>4, Steps, StartLines, OutsideLines

\* An acknowledgement that the device takes is the answer the other Kermit gave last.
LEMMA AnswerIsLast ==
    ASSUME Types, Lines, NEW p, Reads(p), Acked(p)
    PROVE  /\ k.what = "send" /\ Running /\ p \in Packets /\ p.t = "Y"
           /\ peer.last = <<p>> /\ peer.last # <<>> /\ peer.last[1] = p
           /\ peer.i = NextSeq(k.s_seq) /\ peer.i # k.s_seq
  <1>1. /\ toDev \in Seq(Packets) /\ k.s_seq \in Numbers /\ toDev # <<>> /\ p = Head(toDev)
        /\ k.what = "send" /\ Running /\ p.t = "Y"
    BY DEF Types, LineTypes, DeviceTypes, Protocols, Reads, Acked
  <1>2. Replies(toDev, k.s_seq, peer.i) /\ Answered(toDev, k.s_seq, peer.last)
        /\ k.r_seq = k.s_seq
    BY <1>1 DEF Lines, SendLines
  <1>3. p.seq = k.s_seq /\ Level(p) = NextSeq(k.s_seq) /\ p.t \in Answers
    BY <1>1, <1>2 DEF Acked, Wanted, IsWanted, Level, Answers
  <1>4. peer.i = NextSeq(k.s_seq)
    BY <1>1, <1>2, <1>3, AnswerTaken
  <1>5. 1 \in 1 .. Len(toDev) /\ toDev[1] = p /\ p \in Packets
    BY <1>1, LineOps
  <1>6. peer.last = <<p>>
    BY <1>1, <1>2, <1>3, <1>5 DEF Answered
  <1> QED
    BY <1>1, <1>4, <1>5, <1>6, NextNumber

\* The packet sent last has been taken by the other Kermit.
Taken == peer.i # k.s_seq

\* The packet that the other Kermit takes from a running device is the one sent last.
LEMMA TakenIsLast ==
    ASSUME Types, Lines, toPeer # <<>>, NEW p, p = Head(toPeer), NEW reply, Takes(p, reply)
    PROVE  /\ k.what = "send" /\ p.t \in Says /\ 1 \in 1 .. Len(toPeer) /\ toPeer[1] = p
           /\ Running => k.opkt[1] = p /\ ~Taken /\ peer'.i # k.s_seq
  <1>1. /\ toPeer \in Seq(Packets) /\ peer.role = "recv" /\ p.t # "E" /\ p.seq = peer.i
        /\ k.what = "send" /\ peer.i \in Numbers /\ peer'.i = NextSeq(peer.i)
    BY DEF Types, LineTypes, PeerTypes, Peers, Takes
  <1>2. 1 \in 1 .. Len(toPeer) /\ toPeer[1] = p
    BY <1>1, LineOps
  <1>3. p.t \in Says
    BY <1>1, <1>2 DEF Lines, SendLines, Carries
  <1>4. ASSUME Running PROVE k.opkt[1] = p /\ ~Taken /\ peer'.i # k.s_seq
    <2>1. Only(toPeer, k.opkt[1], peer.i) /\ k.opkt[1].seq = k.s_seq
      BY <1>1, <1>4 DEF Lines, SendLines
    <2>2. k.opkt[1] = p
      BY <1>1, <1>2, <1>3, <2>1 DEF Only
    <2> QED
      BY <1>1, <2>1, <2>2, NextNumber DEF Taken
  <1> QED
    BY <1>1, <1>2, <1>3, <1>4

\* A step of a device that sends on.
LEMMA DeviceLines ==
    ASSUME Types, Lines, NEW p, Reads(p), Acked(p), NEW q, NEW st, NEW f, NEW pos,
           SendsOn(q, st, f, pos)
    PROVE  /\ q.seq = peer.i /\ ~Taken' /\ Running' /\ k'.opkt[1] = q /\ peer' = peer
           /\ k'.state = st /\ k'.file = f /\ k'.pos = pos /\ k'.what = "send"
  BY AnswerIsLast DEF SendsOn, Taken, Running, Reads

-----------------------------------------------------------------------------
(* Slots that are lost                                                     *)

\* The type of the packet sent last, in each state.
Said(st, t) ==
    \/ st = "S_INIT" /\ t = "S"
    \/ st = "S_FILE" /\ t = "F"
    \/ st = "S_ATTR" /\ t = "A"
    \/ st = "S_DATA" /\ t = "D"
    \/ st = "S_EOF" /\ t = "Z"
    \/ st = "S_EOT" /\ t = "B"

StateSays == k.what = "send" /\ Running => Said(k.state, k.opkt[1].t)

\* StateSays is kept by every step.
LEMMA NextStateSays ==
    ASSUME Types, Types', Lines, StateSays, [Next]_vars
    PROVE  StateSays'
  <1>1. k \in Protocols
    BY DEF Types, DeviceTypes
  <1>2. \A why : Failed(why).status = "failed" /\ [k EXCEPT !.status = "done"].status = "done"
    BY <1>1 DEF Failed, Protocols
  <1>3. CASE Device
    <2>1. CASE NoSlot \/ (Running /\ Stops("user"))
      BY <1>2, <2>1 DEF NoSlot, Stops, StateSays, Running
    <2>2. ASSUME NEW p, Reads(p), Stays PROVE StateSays'
      BY <2>2 DEF Stays, StateSays, Running, Reads
    <2>3. ASSUME NEW p, Reads(p), Acked(p), SendStep(p) PROVE StateSays'
      <3>1. \A q, st, f, pos : SendsOn(q, st, f, pos) /\ Said(st, q.t) => StateSays'
        BY <2>3, DeviceLines DEF StateSays
      <3>2. k' = Failed("io") \/ k' = [k EXCEPT !.status = "done"] => StateSays'
        BY <1>2 DEF StateSays, Running
      <3> QED
        BY <2>3, <3>1, <3>2 DEF SendStep, Said
    <2>4. ASSUME NEW p, Received(p), ReceiveStep(p) PROVE StateSays'
      BY <2>4
         DEF Received, ReceiveStep, DataTakes, DataFails, EndTakes, EndFails, AcksWith, FailsAloud, StateSays
    <2> QED
      BY <1>3, <2>1, <2>2, <2>3, <2>4, DeviceSteps
  <1>4. CASE Running /\ Stops("user")
    BY <1>2, <1>4 DEF Stops, StateSays, Running
  <1>5. CASE Starts
    <2>1. \A r \in Receivings : StartsSend(r) => k'.opkt[1].t = "S" /\ k'.state = "S_INIT"
      BY DEF StartsSend, Packet
    <2>2. \A s \in Sendings : StartsReceive(s) => k'.what = "recv"
      BY DEF StartsReceive
    <2> QED
      BY <1>5, <2>1, <2>2, StartIs DEF Starts, StateSays, Said
  <1>6. CASE Outside \/ UNCHANGED vars
    BY <1>6 DEF Outside, StateSays, Running, device, vars
  <1> QED
    BY <1>3, <1>4, <1>5, <1>6, Steps

\* A file has been cancelled, but the device has not seen it.
Pending ==
    /\ Running /\ k.state = "S_DATA" /\ Taken
    /\ peer.last # <<>> /\ peer.last[1].d \in {X, Z}

Spent == {s \in Slots : slots[s].used}

\* A slot is lost with every packet that is too short, and with the file or the files that
\* the other Kermit cancels, once.
SlotsLost ==
    /\ Cardinality(Spent) <= shorts + 1
    /\ peer.cancelled = {} \/ Pending => Cardinality(Spent) <= shorts
    /\ peer.cancel # <<>> => peer.cancelled = {}
    /\ peer.last # <<>> /\ peer.last[1].d \in {X, Z} => peer.cancelled # {}
    /\ k.why = "slots" => NSlots <= shorts + 1 /\ (peer.cancelled = {} => NSlots <= shorts)

\* A packet takes no more than its slot.
LEMMA SpentSlots ==
    ASSUME slots \in SlotTables
    PROVE  /\ Cardinality(Spent) \in Nat
           /\ FreeSlots = {} => Cardinality(Spent) = NSlots
           /\ \A used \in BOOLEAN, n \in Nat :
                 slot \in FreeSlots /\ SlotBecomes(used, n) =>
                     /\ Cardinality(Spent') <= Cardinality(Spent) + 1
                     /\ used = FALSE => Cardinality(Spent') <= Cardinality(Spent)
  <1>1. IsFiniteSet(Slots) /\ Cardinality(Slots) = NSlots
    <2>1. NSlots \in Nat \ {0}
      BY ConstAssumption
    <2>2. 0 \in Int /\ NSlots - 1 \in Int /\ ~(0 > NSlots - 1) /\ NSlots - 1 - 0 + 1 = NSlots
      BY <2>1
    <2> QED
      BY <2>2, FS_Interval DEF Slots
  <1>2. \A S \in SUBSET Slots : IsFiniteSet(S) /\ Cardinality(S) \in Nat
    BY <1>1, FS_Subset, FS_CardinalityType
  <1>3. Spent \in SUBSET Slots /\ Spent' \in SUBSET Slots
    BY DEF Spent
  <1>4. FreeSlots = {} => Spent = Slots
    BY DEF Spent, FreeSlots
  <1>5. ASSUME NEW used \in BOOLEAN, NEW n \in Nat, slot \in FreeSlots, SlotBecomes(used, n)
        PROVE  /\ Cardinality(Spent') <= Cardinality(Spent) + 1
               /\ used = FALSE => Cardinality(Spent') <= Cardinality(Spent)
    <2>1. slot \in Slots
      BY <1>5 DEF FreeSlots
    <2>2. Spent' \subseteq Spent \cup {slot} /\ (used = FALSE => Spent' \subseteq Spent)
      BY <1>5 DEF SlotBecomes, Spent
    <2>3. /\ IsFiniteSet(Spent) /\ IsFiniteSet(Spent \cup {slot})
          /\ Cardinality(Spent \cup {slot}) =
                IF slot \in Spent THEN Cardinality(Spent) ELSE Cardinality(Spent) + 1
      BY <1>2, <1>3, FS_AddElement
    <2>4. /\ Cardinality(Spent') <= Cardinality(Spent \cup {slot})
          /\ used = FALSE => Cardinality(Spent') <= Cardinality(Spent)
      BY <2>2, <2>3, FS_Subset
    <2>5. /\ Cardinality(Spent) \in Nat /\ Cardinality(Spent') \in Nat
          /\ Cardinality(Spent \cup {slot}) \in Nat
      BY <1>2, <1>3, <2>1
    <2> QED
      BY <2>3, <2>4, <2>5
  <1> QED
    BY <1>1, <1>2, <1>3, <1>4, <1>5

\* SlotsLost is kept by every step.
LEMMA NextSlotsLost ==
    ASSUME Types, Types', Counts, Lines, StateSays, SlotsLost, [Next]_vars
    PROVE  SlotsLost'
  <1>1. /\ slots \in SlotTables /\ k \in Protocols /\ shorts \in Nat /\ peer \in Peers
        /\ NSlots \in Nat /\ Cardinality(Spent) \in Nat /\ Cardinality(Spent') \in Nat
        /\ Retry \in Nat /\ shorts' \in Nat
    <2>1. Cardinality(Spent) \in Nat
      BY SpentSlots DEF Types, DeviceTypes
    <2>2. Cardinality(Spent') \in Nat
      <3>1. slots' \in SlotTables
        BY DEF Types, DeviceTypes
      <3>2. Spent' \in SUBSET Slots /\ NSlots - 1 \in Int
        BY ConstAssumption DEF Spent
      <3>3. IsFiniteSet(Slots)
        BY <3>2, FS_Interval DEF Slots
      <3> QED
        BY <3>2, <3>3, FS_Subset, FS_CardinalityType
    <2> QED
      BY <2>1, <2>2, ConstAssumption DEF Types, DeviceTypes, LineTypes, PeerTypes
  <1>2. \A why : Failed(why).why = why /\ Failed(why).status = "failed"
    BY <1>1 DEF Failed, Protocols
  <1>3. CASE Device
    <2>1. Running /\ k.why = "none" /\ peer' = peer
      BY <1>3, DeviceSteps DEF Counts
    <2>2. CASE NoSlot
      <3>1. k' = Failed("slots") /\ slots' = slots /\ shorts' = shorts /\ FreeSlots = {}
        BY <2>2 DEF NoSlot, Stops, ghosts
      <3>2. Cardinality(Spent) = NSlots /\ Spent' = Spent /\ ~Running' /\ ~Pending'
        BY <1>1, <1>2, <3>1, SpentSlots DEF Spent, Running, Pending
      <3> QED
        BY <2>1, <3>1, <3>2 DEF SlotsLost
    <2>3. ASSUME NEW p, Reads(p), NEW used \in BOOLEAN, NEW n \in Nat, SlotBecomes(used, n),
                 used = TRUE => p.t = "short", Pending' => Pending, k'.why # "slots"
          PROVE  SlotsLost'
      <3>1. slot \in FreeSlots
        BY <2>3, ReadTypes
      <3>2. /\ Cardinality(Spent') <= Cardinality(Spent) + 1
            /\ used = FALSE => Cardinality(Spent') <= Cardinality(Spent)
        BY <1>1, <2>3, <3>1, SpentSlots
      <3>3. (shorts' = shorts + 1 \/ shorts' = shorts) /\ (p.t = "short" => shorts' = shorts + 1)
        BY <2>3 DEF Reads
      <3>4. \A m \in Nat : Cardinality(Spent) <= shorts + m => Cardinality(Spent') <= shorts' + m
        BY <1>1, <2>3, <3>2, <3>3
      <3>5. Cardinality(Spent) <= shorts => Cardinality(Spent') <= shorts'
        BY <1>1, <2>3, <3>2, <3>3
      <3> QED
        BY <2>1, <2>3, <3>4, <3>5 DEF SlotsLost
    <2>4. ASSUME NEW p, Reads(p), Ignored(p), Stays PROVE SlotsLost'
      <3>1. PICK used \in BOOLEAN, n \in 0 .. Retry + 1 :
                 SlotBecomes(used, n) /\ (used = TRUE => p.t = "short")
        BY <2>1, <2>4, IgnoredSlots
      <3>2. Pending' => Pending
        <4>1. k' = k => (Pending' => Pending)
          BY <2>1 DEF Pending, Running, Taken
        <4>2. k'.status = "failed" => ~Pending'
          BY DEF Pending, Running
        <4>3. k.what = "recv" => ~Pending'
          <5>1. k.what = "recv" => k'.what = "recv"
            BY <2>4 DEF Stays
          <5> QED
            BY <5>1 DEF Types, DeviceTypes, Pending, RecvStates
        <4> QED
          BY <2>4, <4>1, <4>2, <4>3 DEF Stays
      <3>3. k'.why # "slots"
        BY <2>1, <2>4 DEF Stays
      <3>4. n \in Nat
        BY <1>1
      <3> QED
        BY <2>3, <2>4, <3>1, <3>2, <3>3, <3>4
    <2>5. ASSUME NEW p, Reads(p), Acked(p), SendStep(p) PROVE SlotsLost'
      <3>1. ~Pending' /\ k'.why # "slots"
        <4>1. \A q, st, f, pos : SendsOn(q, st, f, pos) => ~Pending' /\ k'.why # "slots"
          <5> SUFFICES ASSUME NEW q, NEW st, NEW f, NEW pos, SendsOn(q, st, f, pos)
                       PROVE  ~Pending' /\ k'.why # "slots"
            OBVIOUS
          <5>1. ~Taken'
            BY <2>5, DeviceLines
          <5> QED
            BY <2>1, <5>1 DEF SendsOn, Pending
        <4>2. k' = Failed("io") => ~Pending' /\ k'.why # "slots"
          BY <1>2 DEF Pending, Running
        <4>3. k' = [k EXCEPT !.status = "done"] => ~Pending' /\ k'.why # "slots"
          <5>1. /\ [k EXCEPT !.status = "done"].status = "done"
                /\ [k EXCEPT !.status = "done"].why = k.why
            BY <1>1 DEF Protocols
          <5> QED
            BY <2>1, <5>1 DEF Pending, Running
        <4> QED
          BY <2>5, <4>1, <4>2, <4>3 DEF SendStep
      <3>2. CASE slots' = Fresh
        <4>1. SlotBecomes(FALSE, 0)
          BY <1>1, <2>5, <3>2, ReadTypes, SlotChanges
        <4> QED
          BY <2>3, <2>5, <3>1, <4>1
      <3>3. CASE slots' = [Fresh EXCEPT ![slot].used = TRUE] /\ k.state = "S_DATA"
                 /\ p.d \in {X, Z}
        <4>1. SlotBecomes(TRUE, 0) /\ slot \in FreeSlots
          BY <1>1, <2>5, <3>3, ReadTypes, SlotChanges
        <4>2. Cardinality(Spent') <= Cardinality(Spent) + 1
          BY <1>1, <4>1, SpentSlots
        <4>3. Pending /\ peer.cancelled # {}
          BY <2>1, <2>5, <3>3, AnswerIsLast DEF Pending, Taken, SlotsLost
        <4>4. Cardinality(Spent) <= shorts /\ (shorts' = shorts + 1 \/ shorts' = shorts)
          BY <2>5, <4>3 DEF SlotsLost, Reads
        <4>5. Cardinality(Spent') <= shorts' + 1
          BY <1>1, <4>2, <4>4
        <4> QED
          BY <2>1, <3>1, <4>3, <4>5 DEF SlotsLost
      <3> QED
        BY <2>5, <3>2, <3>3 DEF SendStep
    <2>6. ASSUME NEW p, Reads(p), Received(p), ReceiveStep(p) PROVE SlotsLost'
      <3>1. SlotBecomes(FALSE, 0)
        BY <1>1, <2>6, ReadTypes, SlotChanges DEF Received
      <3>2. k'.what = "recv" /\ k'.why # "slots"
        BY <2>1, <2>6
           DEF Received, ReceiveStep, DataTakes, DataFails, EndTakes, EndFails, AcksWith, FailsAloud
      <3>3. ~Pending'
        BY <3>2 DEF Types, DeviceTypes, Pending, RecvStates
      <3> QED
        BY <2>3, <2>6, <3>1, <3>2, <3>3
    <2> QED
      BY <1>3, <2>2, <2>4, <2>5, <2>6, DeviceSteps
  <1>4. CASE Running /\ Stops("user")
    <2>1. k' = Failed("user") /\ slots' = slots /\ peer' = peer /\ shorts' = shorts
      BY <1>4 DEF Stops, ghosts
    <2>2. k'.why = "user" /\ ~Pending' /\ Spent' = Spent
      BY <1>2, <2>1 DEF Pending, Running, Spent
    <2> QED
      BY <2>1, <2>2 DEF SlotsLost
  <1>5. CASE Starts
    <2>1. /\ slots' = InitSlots /\ k'.why = "none" /\ shorts' = 0
          /\ peer'.cancelled = {} /\ peer'.last = <<>>
      BY <1>5, StartIs DEF Starts, StartReceive, StartSend, Start, StartsReceive, StartsSend
    <2>2. Spent' = {}
      BY <1>1, <2>1 DEF Spent, InitSlots, SlotTables
    <2>3. Cardinality(Spent') = 0
      BY <2>2, FS_EmptySet
    <2> QED
      BY <2>1, <2>3 DEF SlotsLost
  <1>6. CASE Outside
    <2>1. k' = k /\ slots' = slots /\ shorts' = shorts /\ Spent' = Spent
      BY <1>6 DEF Outside, device, Spent
    <2>2. ASSUME peer'.cancelled = peer.cancelled, peer'.cancel = peer.cancel,
                 peer'.last = peer.last, peer'.i = peer.i
          PROVE  SlotsLost'
      BY <2>1, <2>2 DEF SlotsLost, Pending, Taken, Running
    <2>3. CASE PeerSendsOn
      <3>1. SamePeer(Following) /\ peer' = Following
        BY <2>3, FollowingIs DEF PeerSendsOn, Types
      <3> QED
        BY <2>2, <3>1 DEF SamePeer
    <2>4. CASE PeerStays
      BY <2>2, <2>4 DEF PeerStays
    <2>5. ASSUME toPeer # <<>>, NEW reply, Takes(Head(toPeer), reply) PROVE SlotsLost'
      <3>1. PICK p : p = Head(toPeer) /\ Takes(p, reply)
        BY <2>5
      <3>2. peer'.last = <<reply>> /\ peer'.last # <<>> /\ peer'.last[1] = reply
        BY <3>1 DEF Takes
      <3>3. ~Pending
        BY <2>5, <3>1, TakenIsLast DEF Pending
      <3>4. CASE reply.d \in {X, Z}
        <4>1. /\ peer.cancel # <<>> /\ p.t = "D" /\ peer'.cancel = <<>>
              /\ peer'.cancelled = peer.cancelled \cup
                    (IF reply.d = X THEN {peer.file} ELSE peer.file .. Len(Length))
          BY <3>1, <3>4 DEF Takes
        <4>2. peer'.cancelled # {}
          <5>1. peer.file \in 0 .. Len(Length) /\ Len(Length) \in Nat
            BY <1>1, FileLengths DEF Peers
          <5>2. peer.file \in peer.file .. Len(Length)
            BY <5>1
          <5> QED
            BY <4>1, <5>2
        <4>3. Cardinality(Spent) <= shorts
          BY <4>1 DEF SlotsLost
        <4> QED
          BY <1>1, <2>1, <3>2, <4>1, <4>2, <4>3 DEF SlotsLost
      <3>5. CASE reply.d \notin {X, Z}
        <4>1. peer'.cancelled = peer.cancelled /\ peer'.cancel = peer.cancel
          BY <3>1, <3>5 DEF Takes
        <4>2. ~Pending'
          BY <3>2, <3>5 DEF Pending
        <4> QED
          BY <2>1, <3>2, <3>3, <3>5, <4>1, <4>2 DEF SlotsLost
      <3> QED
        BY <3>4, <3>5
    <2>6. \/ peer.role = "none"
          \/ Carries(toPeer, IF peer.role = "send" THEN Answers \cup {"E"} ELSE Says \cup {"E"})
      BY <1>1 DEF Types, PeerTypes, Peers, Lines, SendLines, RecvLines
    <2> QED
      BY <1>6, <2>3, <2>4, <2>5, <2>6, OutsideSteps
  <1>7. CASE UNCHANGED vars
    BY <1>7 DEF SlotsLost, Spent, Pending, Taken, Running, vars, device, ghosts
  <1> QED
    BY <1>3, <1>4, <1>5, <1>6, <1>7, Steps

\* Nothing holds before the first session but the types.
LEMMA InitKnown ==
    ASSUME Init
    PROVE  Counts /\ Lines /\ StateSays /\ SlotsLost
  <1>1. /\ k.status = "idle" /\ k.what = "recv" /\ k.why = "none"
        /\ peer.role = "none" /\ peer.last = <<>> /\ peer.cancelled = {}
        /\ sessions = 0 /\ slots = [s \in Slots |-> [used |-> FALSE, rtr |-> 0]] /\ shorts = 0
    BY DEF Init, Protocol, NoPeer
  <1>2. Spent = {}
    BY <1>1 DEF Spent
  <1>3. Cardinality(Spent) = 0
    BY <1>2, FS_EmptySet
  <1>4. SlotsLost
    BY <1>1, <1>3 DEF SlotsLost
  <1> QED
    BY <1>1, <1>4 DEF Counts, Lines, SendLines, RecvLines, StateSays, Running

\* The device gives up for too many retries only when more packets in a row than the limit
\* were not the one it wants (in the first session), and for want of a slot only when as
\* many packets as there are slots were too short or files cancelled.
THEOREM GivesUpInTime == Spec => []GivesUpLate
  <1>1. Types /\ Counts /\ SlotsLost => GivesUpLate
    <2>1. shorts \in Nat => \A n \in {0, 1} : shorts + n \in Nat
      OBVIOUS
    <2>2. ASSUME SlotsLost, shorts \in Nat, k.why = "slots"
          PROVE  shorts + (IF peer.cancelled = {} THEN 0 ELSE 1) >= NSlots
      <3>1. NSlots \in Nat
        BY ConstAssumption
      <3>2. CASE peer.cancelled = {}
        BY <2>2, <3>1, <3>2 DEF SlotsLost
      <3>3. CASE peer.cancelled # {}
        BY <2>2, <3>1, <3>3 DEF SlotsLost
      <3> QED
        BY <3>2, <3>3
    <2> QED
      BY <2>2 DEF Counts, GivesUpLate, Types, LineTypes
  <1>2. Types /\ Counts /\ Lines /\ StateSays /\ SlotsLost /\ [Next]_vars
        => (Types /\ Counts /\ Lines /\ StateSays /\ SlotsLost)'
    BY NextTypes, NextCounts, NextLines, NextStateSays, NextSlotsLost
  <1> QED
    BY <1>1, <1>2, InitTypes, InitKnown, PTL DEF Spec

-----------------------------------------------------------------------------
(* Sending files                                                           *)

\* What the device has altered stays so until a new session starts.
LEMMA Unaltered ==
    ASSUME Types, [Next]_vars, ~Starts, ~altered'
    PROVE  ~altered
  <1>1. CASE Device
    BY <1>1, DeviceSteps
  <1>2. CASE ~Device
    BY <1>2, Steps DEF Stops, Outside, vars, device
  <1> QED
    BY <1>1, <1>2

\* Data that goes on where the copy of the file f ends.
Fits(p, f, got) ==
    p.t = "D" =>
        /\ f \in Names /\ Len(got[f]) + Len(p.d) <= Length[f]
        /\ \A i \in 1 .. Len(p.d) : p.d[i] = Len(got[f]) + i

\* The packets of a line with the number w fit.
FitIn(line, w, f, got) ==
    \A i \in 1 .. Len(line) : line[i].t \in Says /\ line[i].seq = w => Fits(line[i], f, got)

\* What the other Kermit has of a file is the beginning of it.
GotWell ==
    \A f \in Names :
        /\ Len(peer.got[f]) <= Length[f]
        /\ \A i \in 1 .. Len(peer.got[f]) : peer.got[f][i] = i

\* Also when the device has stopped, the data in line that will be taken fit.
DataFits ==
    k.what = "send" =>
        /\ FitIn(toPeer, peer.i, peer.file, peer.got)
        /\ Running /\ ~Taken => Fits(k.opkt[1], peer.file, peer.got)

\* The other Kermit has the file, or has cancelled it.
Complete(f) == f \in peer.cancelled \/ Len(peer.got[f]) = Length[f]

\* Where a device that sends is.
SendState ==
    /\ \A f \in Names :
          /\ f < k.file => Complete(f)
          /\ f = k.file /\ k.state \in {"S_EOF", "S_EOT"} => Complete(f)
          /\ f > k.file => peer.got[f] = <<>>
    /\ k.state = "S_INIT" => k.file = 0
    /\ k.state = "S_FILE" =>
          /\ k.opkt[1].d = <<k.file>> /\ k.pos = 0 /\ peer.got[k.file] = <<>>
          /\ Taken => peer.file = k.file
    /\ k.state = "S_ATTR" => k.pos = 0 /\ peer.got[k.file] = <<>> /\ peer.file = k.file
    /\ k.state = "S_DATA" =>
          /\ peer.file = k.file
          /\ Taken => Len(peer.got[k.file]) = k.pos
          /\ ~Taken => Len(peer.got[k.file]) + Len(k.opkt[1].d) = k.pos
    /\ k.state = "S_EOT" => k.file = Len(Length) /\ (Taken => peer.status = "done")

SendFiles ==
    k.what = "send" =>
        /\ peer.last # <<>> /\ peer.last[1].d = X => peer.file \in peer.cancelled
        /\ peer.last # <<>> /\ peer.last[1].d = Z =>
              \A f \in Names : f >= peer.file => f \in peer.cancelled
        /\ k.status = "done" => peer.status = "done" /\ \A f \in Names : Complete(f)
        /\ Running => SendState

\* Data that fit still do when packets are lost or one that fits is added.
LEMMA FitsKept ==
    ASSUME NEW line \in Seq(Packets), NEW w, NEW f, NEW got, FitIn(line, w, f, got)
    PROVE  /\ \A new \in Seq(Packets) : PartOf(new, line, Says) => FitIn(new, w, f, got)
           /\ \A p \in Packets : (p.t \in Says /\ p.seq = w => Fits(p, f, got))
                                 => FitIn(Append(line, p), w, f, got)
  <1>1. ASSUME NEW new \in Seq(Packets), PartOf(new, line, Says)
        PROVE  FitIn(new, w, f, got)
    <2>1. PICK n \in {0, 1} : \A i \in 1 .. Len(new) :
              new[i].t \in Says => i + n \in 1 .. Len(line) /\ new[i] = line[i + n]
      BY <1>1 DEF PartOf
    <2> QED
      BY <2>1 DEF FitIn
  <1>2. ASSUME NEW p \in Packets, p.t \in Says /\ p.seq = w => Fits(p, f, got)
        PROVE  FitIn(Append(line, p), w, f, got)
    <2>1. /\ Len(line) \in Nat /\ Len(Append(line, p)) = Len(line) + 1
          /\ \A i \in 1 .. Len(line) : Append(line, p)[i] = line[i]
          /\ Append(line, p)[Len(line) + 1] = p
      BY LineOps
    <2>2. \A i \in 1 .. Len(Append(line, p)) : i \in 1 .. Len(line) \/ i = Len(line) + 1
      BY <2>1
    <2> QED
      BY <1>2, <2>1, <2>2 DEF FitIn
  <1> QED
    BY <1>1, <1>2

\* Once the other Kermit has taken a packet the next data packet goes on from there.
LEMMA SendIsAt ==
    ASSUME Types, SendState, Running, Taken, k.state \in {"S_FILE", "S_ATTR", "S_DATA"}
    PROVE  k.file \in Names /\ peer.file = k.file /\ Len(peer.got[k.file]) = k.pos
           /\ k.pos \in Nat
  BY DEF Types, DeviceTypes, Protocols, SendState

\* What the other Kermit has after it has taken a packet that fits.
LEMMA GotAfter ==
    ASSUME Types, GotWell, NEW p, NEW reply, Takes(p, reply), Fits(p, peer.file, peer.got)
    PROVE  /\ GotWell' /\ \A f \in Names : Complete(f) => Complete(f)'
           /\ p.t # "D" => peer'.got = peer.got
           /\ p.t = "D" =>
                 /\ peer.file \in Names /\ peer'.file = peer.file
                 /\ Len(peer'.got[peer.file]) = Len(peer.got[peer.file]) + Len(p.d)
                 /\ \A f \in Names : f # peer.file => peer'.got[f] = peer.got[f]
  <1>1. /\ peer.got \in [Names -> Seq(Nat)] /\ p \in Packets
        /\ peer.cancelled \subseteq peer'.cancelled
        /\ \A f \in Names : Length[f] \in Nat
    BY FileLengths DEF Types, PeerTypes, Peers, Takes
  <1>2. CASE p.t # "D"
    <2>1. peer'.got = peer.got
      BY <1>2 DEF Takes
    <2> QED
      BY <1>1, <1>2, <2>1 DEF GotWell, Complete
  <1>3. CASE p.t = "D"
    <2>1. PICK f \in Names : f = peer.file
      BY <1>3 DEF Fits
    <2>2. PICK old \in Seq(Nat), d \in Seq(Nat) : old = peer.got[f] /\ d = p.d
      BY <1>1, <1>3 DEF Packets
    <2>3. /\ peer'.file = f /\ peer'.got = [peer.got EXCEPT ![f] = old \o d]
      BY <1>3, <2>1, <2>2 DEF Takes
    <2>4. PICK new : new = old \o d
      OBVIOUS
    <2>5. /\ peer'.got[f] = new /\ \A g \in Names : g # f => peer'.got[g] = peer.got[g]
      BY <1>1, <2>3, <2>4
    <2>6. /\ Len(old) \in Nat /\ Len(d) \in Nat /\ Len(new) = Len(old) + Len(d)
          /\ \A i \in 1 .. Len(old) : new[i] = old[i]
          /\ \A i \in 1 .. Len(d) : new[Len(old) + i] = d[i]
      <3>1. /\ Len(old) \in Nat /\ Len(d) \in Nat /\ Len(new) = Len(old) + Len(d)
            /\ \A i \in 1 .. Len(old) + Len(d) :
                  new[i] = IF i <= Len(old) THEN old[i] ELSE d[i - Len(old)]
        <4>1. /\ Len(old \o d) = Len(old) + Len(d)
              /\ \A i \in 1 .. Len(old) + Len(d) :
                    (old \o d)[i] = IF i <= Len(old) THEN old[i] ELSE d[i - Len(old)]
          BY ConcatProperties, ZenonT(60)
        <4>2. Len(old) \in Nat /\ Len(d) \in Nat
          BY <2>2
        <4> QED
          BY <2>4, <4>1, <4>2, Zenon
      <3>2. ASSUME NEW i \in 1 .. Len(d) PROVE new[Len(old) + i] = d[i]
        <4>1. /\ Len(old) + i \in 1 .. Len(old) + Len(d) /\ ~(Len(old) + i <= Len(old))
              /\ Len(old) + i - Len(old) = i
          BY <3>1, <3>2
        <4> QED
          BY <3>1, <4>1
      <3> QED
        BY <3>1, <3>2
    <2>7. /\ Len(new) <= Length[f] /\ \A i \in 1 .. Len(d) : d[i] = Len(old) + i
          /\ \A i \in 1 .. Len(old) : old[i] = i
      BY <1>3, <2>1, <2>2, <2>6 DEF Fits, GotWell
    <2>8. ASSUME NEW i \in 1 .. Len(new) PROVE new[i] = i
      <3>1. CASE i <= Len(old)
        BY <2>6, <2>7, <2>8, <3>1
      <3>2. CASE i > Len(old)
        <4>1. i - Len(old) \in 1 .. Len(d) /\ Len(old) + (i - Len(old)) = i
          BY <2>6, <2>8, <3>2
        <4> QED
          BY <2>6, <2>7, <4>1
      <3> QED
        BY <2>6, <2>8, <3>1, <3>2
    <2>9. GotWell'
      BY <2>5, <2>7, <2>8 DEF GotWell
    <2>10. ASSUME NEW g \in Names, Complete(g) PROVE Complete(g)'
      <3>1. CASE g \in peer.cancelled
        BY <1>1, <3>1 DEF Complete
      <3>2. CASE g = f /\ Len(old) = Length[f]
        <4>1. Length[f] \in Nat
          BY <1>1
        <4>2. Len(new) = Length[f]
          BY <2>6, <2>7, <3>2, <4>1
        <4> QED
          BY <2>5, <3>2, <4>2 DEF Complete
      <3>3. CASE g # f /\ Len(peer.got[g]) = Length[g]
        BY <2>5, <3>3 DEF Complete
      <3> QED
        BY <2>2, <2>10, <3>1, <3>2, <3>3 DEF Complete
    <2> QED
      BY <1>3, <2>1, <2>2, <2>3, <2>5, <2>6, <2>9, <2>10
  <1> QED
    BY <1>2, <1>3

\* The packet that the other Kermit takes fits, and none like it is left.
LEMMA TakenFits ==
    ASSUME Types, Types', Lines, DataFits, toPeer # <<>>, toPeer' = Tail(toPeer),
           NEW p, p = Head(toPeer), NEW reply, Takes(p, reply)
    PROVE  /\ Fits(p, peer.file, peer.got)
           /\ \A f, got : FitIn(toPeer', peer'.i, f, got)
  <1>1. /\ toPeer \in Seq(Packets) /\ peer.i \in Numbers /\ p.seq = peer.i
        /\ peer'.i = NextSeq(peer.i)
    BY DEF Types, LineTypes, PeerTypes, Peers, Takes
  <1>2. /\ k.what = "send" /\ p.t \in Says /\ 1 \in 1 .. Len(toPeer) /\ toPeer[1] = p
    BY TakenIsLast
  <1>3. Fits(p, peer.file, peer.got)
    BY <1>1, <1>2 DEF DataFits, FitIn
  <1>4. \A o : Only(toPeer', o, peer'.i)
    BY <1>1, <1>2, WantedTaken DEF Lines, SendLines
  <1>5. Only(toPeer', 1, peer'.i) /\ Only(toPeer', 2, peer'.i)
    BY <1>4
  <1>6. \A i \in 1 .. Len(toPeer') : ~(toPeer'[i].t \in Says /\ toPeer'[i].seq = peer'.i)
    <2> SUFFICES ASSUME NEW i \in 1 .. Len(toPeer'),
                        toPeer'[i].t \in Says /\ toPeer'[i].seq = peer'.i
                 PROVE  FALSE
      OBVIOUS
    <2>1. toPeer'[i] = 1 /\ toPeer'[i] = 2
      BY <1>5 DEF Only
    <2> QED
      BY <2>1
  <1> QED
    BY <1>3, <1>6 DEF FitIn

\* The packet q of the state st goes on from what the other Kermit has.
SendsFit(q, st, f, pos) ==
    /\ Fits(q, peer.file, peer.got)
    /\ \A g \in Names :
          /\ g < f => Complete(g)
          /\ g = f /\ st \in {"S_EOF", "S_EOT"} => Complete(g)
          /\ g > f => peer.got[g] = <<>>
    /\ st # "S_INIT"
    /\ st = "S_FILE" => q.d = <<f>> /\ pos = 0 /\ peer.got[f] = <<>>
    /\ st = "S_ATTR" => pos = 0 /\ peer.got[f] = <<>> /\ peer.file = f
    /\ st = "S_DATA" => peer.file = f /\ Len(peer.got[f]) + Len(q.d) = pos
    /\ st = "S_EOT" => f = Len(Length)

\* A device that sends goes on where the other Kermit's copies end.
LEMMA SendDeviceFiles ==
    ASSUME Types, Types', Lines, GotWell, DataFits, SendFiles, k.what = "send", Device,
           ~altered'
    PROVE  DataFits' /\ SendFiles'
  <1>1. /\ toPeer \in Seq(Packets) /\ toPeer' \in Seq(Packets) /\ k \in Protocols
        /\ peer' = peer /\ Running /\ k.status = "run" /\ peer.got \in [Names -> Seq(Nat)]
        /\ k.file \in 0 .. Len(Length)
    BY DeviceSteps DEF Types, LineTypes, DeviceTypes, PeerTypes, Peers, Protocols, Running
  <1>2. /\ FitIn(toPeer, peer.i, peer.file, peer.got)
        /\ ~Taken => Fits(k.opkt[1], peer.file, peer.got)
        /\ peer.last # <<>> /\ peer.last[1].d = X => peer.file \in peer.cancelled
        /\ peer.last # <<>> /\ peer.last[1].d = Z =>
              \A f \in Names : f >= peer.file => f \in peer.cancelled
        /\ SendState
    BY <1>1 DEF DataFits, SendFiles
  <1>3. ASSUME toPeer' = toPeer, k'.status = "failed" PROVE DataFits' /\ SendFiles'
    BY <1>1, <1>2, <1>3 DEF DataFits, SendFiles, Running
  <1>4. CASE NoSlot
    <2>1. k' = Failed("slots") /\ toPeer' = toPeer
      BY <1>4 DEF NoSlot, Stops
    <2>2. k'.status = "failed"
      BY <1>1, <2>1 DEF Failed, Protocols
    <2> QED
      BY <1>3, <2>1, <2>2
  <1>5. ASSUME NEW p, Reads(p), Stays PROVE DataFits' /\ SendFiles'
    <2>1. CASE k' = k /\ toPeer' = toPeer
      BY <1>1, <1>2, <2>1
      DEF DataFits, SendFiles, SendState, Running, Taken, Complete
    <2>2. CASE k' = k /\ toPeer' = toPeer \o k.opkt
      <3>1. PICK o \in Packets : o = k.opkt[1] /\ toPeer' = Append(toPeer, o)
        BY <1>1, <2>2, LastPacket DEF Types, DeviceTypes
      <3>2. o.seq = peer.i => Fits(o, peer.file, peer.got)
        BY <1>1, <1>2, <3>1 DEF Taken, Lines, SendLines
      <3>3. FitIn(toPeer', peer.i, peer.file, peer.got)
        BY <1>1, <1>2, <3>1, <3>2, FitsKept
      <3> QED
        BY <1>1, <1>2, <2>2, <3>3 DEF DataFits, SendFiles, SendState, Running, Taken, Complete
    <2>3. CASE ~(k' = k) /\ toPeer' = toPeer
      BY <1>1, <1>3, <1>5, <2>3 DEF Stays
    <2>4. ASSUME NEW q \in Packets, q.t = "E", toPeer' = Append(toPeer, q),
                 k'.status = "failed"
          PROVE  DataFits' /\ SendFiles'
      <3>1. FitIn(toPeer', peer.i, peer.file, peer.got)
        BY <1>1, <1>2, <2>4, FitsKept DEF Says
      <3> QED
        BY <1>1, <1>2, <2>4, <3>1 DEF DataFits, SendFiles, Running
    <2> QED
      BY <1>5, <2>1, <2>2, <2>3, <2>4 DEF Stays
  <1>6. ASSUME NEW p, Reads(p), Acked(p), SendStep(p) PROVE DataFits' /\ SendFiles'
    <2>1. /\ peer.last # <<>> /\ peer.last[1] = p /\ Taken
      BY <1>6, AnswerIsLast DEF Taken
    <2>2. ASSUME NEW q, NEW st, NEW f, NEW pos, SendsOn(q, st, f, pos),
                 SendsFit(q, st, f, pos)
          PROVE  DataFits' /\ SendFiles'
      <3>1. /\ q.seq = peer.i /\ ~Taken' /\ Running' /\ k'.opkt[1] = q
            /\ k'.state = st /\ k'.file = f /\ k'.pos = pos /\ k'.what = "send"
            /\ q \in Packets /\ toPeer' = Append(toPeer, q) /\ k'.status = "run"
        BY <1>6, <2>2, DeviceLines DEF SendsOn
      <3>2. FitIn(toPeer', peer.i, peer.file, peer.got)
        BY <1>1, <1>2, <2>2, <3>1, FitsKept DEF SendsFit
      <3>3. DataFits'
        BY <1>1, <2>2, <3>1, <3>2 DEF DataFits, SendsFit
      <3>4. \A g \in Names :
               /\ g < k'.file => Complete(g)'
               /\ g = k'.file /\ k'.state \in {"S_EOF", "S_EOT"} => Complete(g)'
               /\ g > k'.file => peer'.got[g] = <<>>
        BY <1>1, <2>2, <3>1 DEF Complete, SendsFit
      <3>5. SendState'
        BY <1>1, <2>2, <3>1, <3>4 DEF SendState, SendsFit
      <3> QED
        BY <1>1, <1>2, <3>1, <3>3, <3>5 DEF SendFiles
    <2>3. CASE \E q : q.t = "Z" /\ SendsOn(q, "S_EOF",
                                              IF p.d = Z THEN Len(Length) ELSE k.file, k.pos)
               /\ k.state = "S_DATA" /\ p.d \in {X, Z}
      <3>1. PICK q, f : /\ q.t = "Z" /\ SendsOn(q, "S_EOF", f, k.pos)
                        /\ f = IF p.d = Z THEN Len(Length) ELSE k.file
        BY <2>3, Zenon
      <3>2. k.file \in Names /\ peer.file = k.file
        BY <1>1, <1>2, <2>1, <2>3, SendIsAt
      <3>3. ASSUME NEW g \in Names
            PROVE  /\ g < f => Complete(g)
                   /\ g = f => Complete(g)
                   /\ g > f => peer.got[g] = <<>>
        <4>1. g \in Nat /\ g <= Len(Length) /\ Len(Length) \in Nat /\ k.file \in Nat
          BY <3>2, FileLengths DEF Names
        <4>2. CASE p.d = Z
          <5>1. g >= peer.file => Complete(g)
            BY <1>2, <2>1, <4>2 DEF Complete
          <5>2. g < k.file => Complete(g)
            BY <1>2 DEF SendState
          <5> QED
            BY <3>1, <3>2, <4>1, <4>2, <5>1, <5>2
        <4>3. CASE p.d = X /\ p.d # Z
          <5>1. k.file \in peer.cancelled /\ f = k.file
            BY <1>2, <2>1, <3>1, <3>2, <4>3
          <5> QED
            BY <1>2, <5>1 DEF Complete, SendState
        <4> QED
          BY <2>3, <4>2, <4>3
      <3>4. SendsFit(q, "S_EOF", f, k.pos)
        BY <3>1, <3>3 DEF Fits, SendsFit
      <3> QED
        BY <2>2, <3>1, <3>4
    <2>4. CASE \E q : /\ q.t = "F" /\ q.d = <<k.file + 1>>
                      /\ SendsOn(q, "S_FILE", k.file + 1, 0)
                      /\ k.state \in {"S_INIT", "S_EOF"} /\ k.file + 1 \in Names
      <3>1. PICK q : /\ q.t = "F" /\ q.d = <<k.file + 1>>
                     /\ SendsOn(q, "S_FILE", k.file + 1, 0)
        BY <2>4
      <3>2. PICK f \in Names : f = k.file + 1 /\ f > k.file
        BY <1>1, <2>4, FileLengths
      <3>3. ASSUME NEW g \in Names
            PROVE  (g < f => Complete(g)) /\ (g > f => peer.got[g] = <<>>)
        <4>1. g \in Nat \ {0} /\ k.file \in Nat
          BY <1>1, FileLengths
        <4>2. (g < f => g < k.file \/ g = k.file) /\ (g > f => g > k.file)
          BY <3>2, <4>1
        <4>3. k.state = "S_INIT" => ~(g < f)
          BY <1>2, <3>2, <4>1 DEF SendState
        <4> QED
          BY <1>2, <2>4, <4>2, <4>3 DEF SendState
      <3>4. peer.got[f] = <<>>
        BY <1>2, <3>2 DEF SendState
      <3>5. SendsFit(q, "S_FILE", f, 0) /\ SendsOn(q, "S_FILE", f, 0)
        BY <3>1, <3>2, <3>3, <3>4 DEF Fits, SendsFit
      <3> QED
        BY <2>2, <3>5
    <2>5. CASE k' = Failed("io") /\ toPeer' = toPeer
      <3>1. k'.status = "failed"
        BY <1>1, <2>5 DEF Failed, Protocols
      <3> QED
        BY <1>3, <2>5, <3>1
    <2>6. CASE \E q : q.t = "B" /\ SendsOn(q, "S_EOT", k.file, k.pos)
                      /\ k.state \in {"S_INIT", "S_EOF"} /\ k.file = Len(Length)
      <3>1. PICK q : q.t = "B" /\ SendsOn(q, "S_EOT", k.file, k.pos)
        BY <2>6
      <3>2. ASSUME NEW g \in Names
            PROVE  /\ g < k.file => Complete(g)
                   /\ g = k.file => Complete(g)
                   /\ g > k.file => peer.got[g] = <<>>
        <4>1. k.state = "S_INIT" => g # k.file
          BY <1>2, FileLengths DEF SendState
        <4> QED
          BY <1>2, <2>6, <4>1 DEF SendState
      <3>3. SendsFit(q, "S_EOT", k.file, k.pos)
        BY <2>6, <3>1, <3>2 DEF Fits, SendsFit
      <3> QED
        BY <2>2, <3>1, <3>3
    <2>7. CASE \E q : q.t = "A" /\ SendsOn(q, "S_ATTR", k.file, k.pos) /\ k.state = "S_FILE"
      <3>1. PICK q : q.t = "A" /\ SendsOn(q, "S_ATTR", k.file, k.pos)
        BY <2>7
      <3>2. k.pos = 0 /\ peer.got[k.file] = <<>> /\ peer.file = k.file
        BY <1>2, <2>1, <2>7 DEF SendState
      <3>3. \A g \in Names : (g < k.file => Complete(g)) /\ (g > k.file => peer.got[g] = <<>>)
        BY <1>2 DEF SendState
      <3>4. SendsFit(q, "S_ATTR", k.file, k.pos)
        BY <3>1, <3>2, <3>3 DEF Fits, SendsFit
      <3> QED
        BY <2>2, <3>1, <3>4
    <2>8. CASE \E q : q.t = "Z" /\ SendsOn(q, "S_EOF", k.file, k.pos)
                      /\ k.state \in {"S_FILE", "S_ATTR", "S_DATA"} /\ NextUnits(k) = <<>>
      <3>1. PICK q : q.t = "Z" /\ SendsOn(q, "S_EOF", k.file, k.pos)
        BY <2>8
      <3>2. k.file \in Names /\ peer.file = k.file /\ Len(peer.got[k.file]) = k.pos
            /\ k.pos \in Nat
        BY <1>1, <1>2, <2>1, <2>8, SendIsAt
      <3>3. k.pos >= Length[k.file]
        BY <2>8, <3>2, NextPiece DEF NextUnits
      <3>4. Complete(k.file)
        <4>1. Length[k.file] \in Nat /\ Len(peer.got[k.file]) <= Length[k.file]
          BY <3>2, FileLengths DEF GotWell
        <4>2. Len(peer.got[k.file]) = Length[k.file]
          BY <3>2, <3>3, <4>1
        <4> QED
          BY <4>2 DEF Complete
      <3>5. \A g \in Names : /\ g < k.file => Complete(g)
                             /\ g > k.file => peer.got[g] = <<>>
        BY <1>2 DEF SendState
      <3>6. SendsFit(q, "S_EOF", k.file, k.pos)
        BY <3>1, <3>4, <3>5 DEF Fits, SendsFit
      <3> QED
        BY <2>2, <3>1, <3>6
    <2>9. CASE \E q : /\ q.t = "D" /\ q.d = NextUnits(k)
                      /\ SendsOn(q, "S_DATA", k.file, k.pos + Len(NextUnits(k)))
                      /\ k.state \in {"S_FILE", "S_ATTR", "S_DATA"}
      <3>1. PICK q : q.t = "D" /\ q.d = NextUnits(k)
                     /\ SendsOn(q, "S_DATA", k.file, k.pos + Len(NextUnits(k)))
        BY <2>9
      <3>2. k.file \in Names /\ peer.file = k.file /\ Len(peer.got[k.file]) = k.pos
            /\ k.pos \in Nat
        BY <1>1, <1>2, <2>1, <2>9, SendIsAt
      <3>3. Len(peer.got[k.file]) <= Length[k.file]
        BY <3>2 DEF GotWell
      <3>4. k.pos + Len(q.d) <= Length[k.file] /\ \A i \in 1 .. Len(q.d) : q.d[i] = k.pos + i
        <4>1. PICK f \in Names, pos \in Nat : f = k.file /\ pos = k.pos
          BY <3>2
        <4>2. q.d = Piece(Units(f), pos + 1, pos + PktUnits)
          BY <3>1, <4>1 DEF NextUnits
        <4>3. pos <= Length[f]
          BY <3>2, <3>3, <4>1
        <4>4. pos + Len(q.d) <= Length[f] /\ \A i \in 1 .. Len(q.d) : q.d[i] = pos + i
          BY <4>2, <4>3, NextPiece, Zenon
        <4> QED
          BY <4>1, <4>4
      <3>5. Fits(q, peer.file, peer.got)
        BY <3>2, <3>4 DEF Fits
      <3>6. \A g \in Names : (g < k.file => Complete(g)) /\ (g > k.file => peer.got[g] = <<>>)
        BY <1>2 DEF SendState
      <3>7. PICK n : n = k.pos + Len(NextUnits(k))
        OBVIOUS
      <3>8. SendsOn(q, "S_DATA", k.file, n) /\ Len(peer.got[k.file]) + Len(q.d) = n
        BY <3>1, <3>2, <3>7
      <3>9. SendsFit(q, "S_DATA", k.file, n)
        BY <3>2, <3>5, <3>6, <3>8 DEF SendsFit
      <3> QED
        BY <2>2, <3>8, <3>9
    <2>10. CASE k' = [k EXCEPT !.status = "done"] /\ toPeer' = toPeer /\ k.state = "S_EOT"
      <3>1. k'.status = "done" /\ k'.what = "send" /\ ~Running'
        BY <1>1, <2>10 DEF Protocols, Running
      <3>2. peer.status = "done" /\ \A f \in Names : Complete(f)
        <4>1. k.file = Len(Length) /\ peer.status = "done"
          BY <1>2, <2>1, <2>10 DEF SendState
        <4>2. \A f \in Names : f < k.file \/ f = k.file
          BY <4>1, FileLengths DEF Names
        <4> QED
          BY <1>2, <2>10, <4>1, <4>2 DEF SendState
      <3>3. peer'.status = "done" /\ \A f \in Names : Complete(f)'
        BY <1>1, <3>2 DEF Complete
      <3> QED
        BY <1>1, <1>2, <2>10, <3>1, <3>3 DEF DataFits, SendFiles
    <2> QED
      BY <1>6, <2>3, <2>4, <2>5, <2>6, <2>7, <2>8, <2>9, <2>10 DEF SendStep
  <1>7. ~\E p : Reads(p) /\ Received(p)
    BY DEF Received
  <1> QED
    BY <1>4, <1>5, <1>6, <1>7, DeviceSteps

\* The other Kermit takes only data that continue its copy.
LEMMA OutsideFiles ==
    ASSUME Types, Types', Lines, StateSays, GotWell, DataFits, SendFiles, Outside
    PROVE  GotWell' /\ DataFits' /\ SendFiles'
  <1>1. /\ toPeer \in Seq(Packets) /\ toPeer' \in Seq(Packets) /\ peer \in Peers /\ PeerTypes
        /\ k' = k /\ k \in Protocols /\ (k.what = "send" <=> peer.role = "recv")
    BY DEF Types, LineTypes, DeviceTypes, PeerTypes, Outside, device
  <1>2. k.what = "send" =>
        /\ FitIn(toPeer, peer.i, peer.file, peer.got)
        /\ Running /\ ~Taken => Fits(k.opkt[1], peer.file, peer.got)
        /\ peer.last # <<>> /\ peer.last[1].d = X => peer.file \in peer.cancelled
        /\ peer.last # <<>> /\ peer.last[1].d = Z =>
              \A f \in Names : f >= peer.file => f \in peer.cancelled
        /\ k.status = "done" => peer.status = "done" /\ \A f \in Names : Complete(f)
        /\ Running => SendState
    BY DEF DataFits, SendFiles
  <1>3. CASE PeerSendsOn
    <2>1. SamePeer(Following) /\ peer' = Following /\ peer.role = "send"
      BY <1>1, <1>3, FollowingIs DEF PeerSendsOn
    <2>2. peer'.got = peer.got /\ k.what # "send"
      BY <1>1, <2>1 DEF SamePeer
    <2> QED
      BY <1>1, <2>2 DEF GotWell, DataFits, SendFiles
  <1>4. CASE PeerStays /\ LinesLose
    <2>1. GotWell'
      BY <1>4 DEF PeerStays, GotWell
    <2>2. ASSUME k.what = "send" PROVE DataFits' /\ SendFiles'
      <3>1. FitIn(toPeer', peer.i, peer.file, peer.got)
        BY <1>1, <1>2, <1>4, <2>2, FitsKept DEF LinesLose
      <3>2. /\ peer'.i = peer.i /\ peer'.file = peer.file /\ peer'.got = peer.got
            /\ peer'.last = peer.last /\ peer'.cancelled = peer.cancelled
            /\ peer.status = "done" => peer'.status = "done"
        BY <1>4 DEF PeerStays, PeerRunning
      <3>3. DataFits'
        BY <1>1, <1>2, <2>2, <3>1, <3>2 DEF DataFits, Running, Taken
      <3>4. SendFiles'
        BY <1>1, <1>2, <2>2, <3>2 DEF SendFiles, SendState, Running, Taken, Complete
      <3> QED
        BY <3>3, <3>4
    <2> QED
      BY <1>1, <2>1, <2>2 DEF DataFits, SendFiles
  <1>5. ASSUME toPeer # <<>>, toPeer' = Tail(toPeer), NEW reply \in Packets,
               Takes(Head(toPeer), reply)
        PROVE  GotWell' /\ DataFits' /\ SendFiles'
    <2>1. PICK p \in Packets : p = Head(toPeer) /\ Takes(p, reply)
      BY <1>5 DEF Takes
    <2>2. /\ k.what = "send" /\ (Running => k.opkt[1] = p /\ ~Taken /\ peer'.i # k.s_seq)
      BY <1>5, <2>1, TakenIsLast
    <2>3. /\ Fits(p, peer.file, peer.got) /\ \A f, got : FitIn(toPeer', peer'.i, f, got)
      BY <1>5, <2>1, TakenFits
    <2>4. /\ GotWell' /\ \A f \in Names : Complete(f) => Complete(f)'
          /\ p.t # "D" => peer'.got = peer.got
          /\ p.t = "D" =>
                /\ peer.file \in Names /\ peer'.file = peer.file
                /\ Len(peer'.got[peer.file]) = Len(peer.got[peer.file]) + Len(p.d)
                /\ \A f \in Names : f # peer.file => peer'.got[f] = peer.got[f]
      BY <2>1, <2>3, GotAfter
    <2>5. DataFits'
      BY <1>1, <2>2, <2>3 DEF DataFits, Running, Taken
    <2>6. /\ PeerRunning /\ peer'.last = <<reply>> /\ peer'.last[1] = reply
          /\ peer'.status = (IF p.t = "B" THEN "done" ELSE "run")
          /\ peer'.file = (IF p.t = "F" THEN p.d[1] ELSE peer.file)
          /\ (reply.d \in {X, Z} => p.t = "D")
      BY <2>1 DEF Takes
    <2>7. /\ reply.d = X => peer'.file \in peer'.cancelled
          /\ reply.d = Z => \A f \in Names : f >= peer'.file => f \in peer'.cancelled
      <3>1. X[1] = "X" /\ Z[1] = "Z"
        BY DEF X, Z
      <3>2. X # Z
        BY <3>1
      <3>3. reply.d \in {X, Z} =>
              /\ peer'.cancelled = peer.cancelled \cup
                    (IF reply.d = X THEN {peer.file} ELSE peer.file .. Len(Length))
              /\ peer'.file = peer.file
        BY <2>1, <2>6 DEF Takes
      <3>4. peer.file \in 0 .. Len(Length) /\ Len(Length) \in Nat
        BY <1>1, FileLengths DEF Peers
      <3>5. \A f \in Names : f >= peer.file => f \in peer.file .. Len(Length)
        BY <3>4 DEF Names
      <3> QED
        BY <3>2, <3>3, <3>5
    <2>8. k.status # "done"
      BY <1>2, <2>2, <2>6 DEF PeerRunning
    <2>9. ASSUME Running PROVE SendState'
      <3>1. SendState /\ Said(k.state, p.t) /\ k.opkt[1] = p /\ ~Taken /\ Taken'
        BY <1>1, <1>2, <2>2, <2>9 DEF StateSays, Taken
      <3>2. k.state = "S_DATA" => peer.file = k.file
        BY <3>1 DEF SendState
      <3>3. \A f \in Names :
               /\ f < k.file => Complete(f)'
               /\ f = k.file /\ k.state \in {"S_EOF", "S_EOT"} => Complete(f)'
        BY <2>4, <3>1 DEF SendState
      <3>4. ASSUME NEW f \in Names, f > k.file PROVE peer'.got[f] = <<>>
        <4>1. f # k.file
          BY <1>1, <3>4, FileLengths DEF Protocols
        <4>2. p.t = "D" => k.state = "S_DATA"
          BY <3>1 DEF Said
        <4> QED
          BY <2>4, <3>1, <3>2, <3>4, <4>1, <4>2 DEF SendState
      <3>5. ASSUME k.state # "S_DATA" PROVE p.t # "D" /\ peer'.got = peer.got
        BY <2>4, <3>1, <3>5 DEF Said
      <3>6. CASE k.state = "S_FILE"
        <4>1. p.t = "F" /\ p.d = <<k.file>> /\ peer'.got = peer.got
          BY <3>1, <3>5, <3>6 DEF Said, SendState
        <4>2. peer'.file = k.file
          BY <2>6, <4>1
        <4> QED
          BY <1>1, <3>1, <3>3, <3>4, <3>6, <4>1, <4>2 DEF SendState
      <3>7. CASE k.state = "S_ATTR"
        <4>1. peer'.file = peer.file /\ peer'.got = peer.got
          BY <2>6, <3>1, <3>5, <3>7 DEF Said
        <4> QED
          BY <1>1, <3>1, <3>3, <3>4, <3>7, <4>1 DEF SendState
      <3>8. CASE k.state = "S_DATA"
        <4>1. p.t = "D" /\ Len(peer.got[k.file]) + Len(p.d) = k.pos
          BY <3>1, <3>8 DEF Said, SendState
        <4>2. peer'.file = k.file /\ Len(peer'.got[k.file]) = k.pos
          BY <2>4, <3>2, <3>8, <4>1
        <4> QED
          BY <1>1, <3>1, <3>3, <3>4, <3>8, <4>2 DEF SendState
      <3>9. CASE k.state \in {"S_INIT", "S_EOF", "S_EOT"}
        <4>1. k.state = "S_EOT" => peer'.status = "done" /\ k.file = Len(Length)
          BY <2>6, <3>1 DEF Said, SendState
        <4>2. k.state = "S_INIT" => k.file = 0
          BY <3>1 DEF SendState
        <4> QED
          BY <1>1, <3>3, <3>4, <3>9, <4>1, <4>2 DEF SendState
      <3> QED
        BY <3>1, <3>6, <3>7, <3>8, <3>9 DEF Said
    <2>10. SendFiles'
      BY <1>1, <2>6, <2>7, <2>8, <2>9 DEF SendFiles, Running
    <2> QED
      BY <2>4, <2>5, <2>10
  <1>6. \/ peer.role = "none"
        \/ Carries(toPeer, IF peer.role = "send" THEN Answers \cup {"E"} ELSE Says \cup {"E"})
    BY <1>1 DEF Peers, Lines, SendLines, RecvLines
  <1> QED
    BY <1>3, <1>4, <1>5, <1>6, OutsideSteps

\* What is known of files the device sends is kept by every step.
LEMMA NextFiles ==
    ASSUME Types, Types', Lines, StateSays, GotWell, DataFits, SendFiles, [Next]_vars,
           ~Starts, ~altered'
    PROVE  GotWell' /\ DataFits' /\ SendFiles'
  <1>1. k \in Protocols
    BY DEF Types, DeviceTypes
  <1>2. CASE Device
    <2>1. peer' = peer
      BY <1>2, DeviceSteps
    <2>2. GotWell'
      BY <2>1 DEF GotWell
    <2>3. CASE k.what = "send"
      BY <1>2, <2>2, <2>3, SendDeviceFiles
    <2>4. CASE k.what # "send"
      <3>1. k'.what # "send"
        BY <2>1, <2>4 DEF Types, PeerTypes
      <3> QED
        BY <2>2, <3>1 DEF DataFits, SendFiles
    <2> QED
      BY <2>3, <2>4
  <1>3. CASE Running /\ Stops("user")
    <2>1. UNCHANGED <<toPeer, peer>> /\ k' = Failed("user")
      BY <1>3 DEF Stops
    <2>2. k'.what = k.what /\ k'.status = "failed"
      BY <1>1, <2>1 DEF Failed, Protocols
    <2> QED
      BY <2>1, <2>2 DEF GotWell, DataFits, SendFiles, Running
  <1>4. CASE UNCHANGED vars
    BY <1>4
    DEF GotWell, DataFits, SendFiles, SendState, Complete, Taken, Running, vars, device
  <1> QED
    BY <1>2, <1>3, <1>4, Steps, OutsideFiles

-----------------------------------------------------------------------------
(* Receiving files                                                         *)

\* Units received, written and in the buffer.
InAll == k.pos + Len(k.obuf)

\* The device wants the packet after the one the other Kermit has sent last.
Ahead == k.r_seq # peer.says.seq

\* Where the other Kermit is when it sends.
PeerState ==
    peer.role = "send" =>
        /\ peer.file <= peer.sending.files
        /\ peer.file \in Names => peer.pos <= Length[peer.file]
        /\ peer.says.t \in {"S", "I"} => peer.file = 0
        /\ peer.says.t = "F" => peer.says.d = <<peer.file>> /\ peer.pos = 0
        /\ peer.says.t = "A" => peer.pos = 0
        /\ peer.says.t = "D" =>
              /\ Len(peer.says.d) <= peer.pos
              /\ \A i \in 1 .. Len(peer.says.d) :
                    peer.says.d[i] = peer.pos - Len(peer.says.d) + i
        /\ peer.says.t = "Z" =>
              /\ peer.pos >= Upto(peer.file)
              /\ peer.says.d = IF GivesUp(peer.file) THEN D ELSE <<>>
        /\ peer.says.t = "B" => peer.file = peer.sending.files

\* Where the device is when it receives.
RecvState ==
    k.what = "recv" /\ Running =>
        /\ peer.says.t \in {"S", "I"} =>
              \/ ~Ahead /\ k.state = "R_WAIT"
              \/ Ahead /\ k.state = "R_FILE"
        /\ peer.says.t = "F" =>
              \/ ~Ahead /\ k.state = "R_FILE"
              \/ Ahead /\ k.state = "R_ATTR" /\ k.file = peer.file
        /\ peer.says.t = "A" => k.state = "R_ATTR" /\ k.file = peer.file
        /\ peer.says.t = "D" =>
              /\ k.file = peer.file
              /\ \/ ~Ahead /\ k.state = "R_ATTR" /\ peer.pos = Len(peer.says.d)
                 \/ ~Ahead /\ k.state = "R_DATA" /\ peer.pos = InAll + Len(peer.says.d)
                 \/ Ahead /\ k.state = "R_DATA" /\ peer.pos = InAll
        /\ peer.says.t = "Z" =>
              \/ ~Ahead /\ k.state = "R_ATTR" /\ k.file = peer.file
              \/ ~Ahead /\ k.state = "R_DATA" /\ k.file = peer.file /\ peer.pos = InAll
              \/ Ahead /\ k.state = "R_FILE"
        /\ peer.says.t = "B" => k.state = "R_FILE"

\* A copy of a file of n units is made of its units and of older ones.
Mixed(c, n) == \A i \in 1 .. Len(c) : c[i] = 0 \/ (c[i] = i /\ i <= n)

\* The first n units of a copy are there.
Begins(c, n) == n <= Len(c) /\ \A i \in 1 .. n : c[i] = i

\* What the device has of the files, and of the one it receives.
Copies ==
    /\ \A f \in Names : disk[f] # NoFile => Mixed(disk[f], Length[f])
    /\ Running /\ k.state = "R_DATA" =>
          /\ InAll <= Length[k.file] /\ Begins(Content(k.file), k.pos)
          /\ \A i \in 1 .. Len(k.obuf) : k.obuf[i] = k.pos + i

\* A file not there yet counts as an empty one.
LEMMA ContentIs ==
    ASSUME NEW f \in Names, disk \in [Names -> {NoFile} \cup Seq(Nat)], Copies
    PROVE  Content(f) \in Seq(Nat) /\ Mixed(Content(f), Length[f]) /\ Begins(Content(f), 0)
  <1>1. CASE disk[f] = NoFile
    <2>1. Content(f) = <<>> /\ <<>> \in Seq(Nat) /\ Len(<<>>) = 0
      BY <1>1 DEF Content
    <2> QED
      BY <2>1 DEF Mixed, Begins
  <1>2. CASE disk[f] # NoFile
    <2>1. Content(f) = disk[f] /\ disk[f] \in Seq(Nat)
      BY <1>2 DEF Content
    <2>2. Len(disk[f]) \in Nat
      BY <2>1
    <2> QED
      BY <1>2, <2>1, <2>2 DEF Copies, Mixed, Begins
  <1> QED
    BY <1>1, <1>2

\* Units that are written where the copy ends so far.
LEMMA Written ==
    ASSUME NEW f \in Names, disk \in [Names -> {NoFile} \cup Seq(Nat)], Copies,
           NEW pos \in Nat, NEW units \in Seq(Nat), Begins(Content(f), pos),
           \A i \in 1 .. Len(units) : units[i] = pos + i, pos + Len(units) <= Length[f]
    PROVE  \E new \in Seq(Nat) :
              /\ new = WriteAt(f, pos, units) /\ Mixed(new, Length[f])
              /\ Begins(new, pos + Len(units))
  <1>1. PICK old \in Seq(Nat) : /\ old = Content(f) /\ Mixed(old, Length[f])
                                /\ Begins(old, pos)
    BY ContentIs
  <1>2. PICK end \in Nat : end = pos + Len(units)
    OBVIOUS
  <1>3. pos <= Len(old) /\ Len(old) \in Nat /\ Length[f] \in Nat /\ Len(units) \in Nat
    BY <1>1, FileLengths DEF Begins
  <1>4. PICK new \in Seq(Nat) :
          /\ new = WriteAt(f, pos, units)
          /\ Len(new) = IF end > Len(old) THEN end ELSE Len(old)
          /\ \A i \in 1 .. pos : new[i] = old[i]
          /\ \A i \in pos + 1 .. end : new[i] = units[i - pos]
          /\ \A i \in end + 1 .. Len(new) : i <= Len(old) /\ new[i] = old[i]
    <2> DEFINE w == WriteAt(f, pos, units)
               o == Content(f)
               e == pos + Len(units)
    <2>1. /\ w = WriteAt(f, pos, units) /\ w \in Seq(Nat)
          /\ pos <= Len(o) =>
                /\ Len(w) = IF e > Len(o) THEN e ELSE Len(o)
                /\ \A i \in 1 .. pos : w[i] = o[i]
                /\ \A i \in pos + 1 .. e : w[i] = units[i - pos]
                /\ \A i \in e + 1 .. Len(w) : i <= Len(o) /\ w[i] = o[i]
      BY Writing, Zenon
    <2>2. o = old /\ e = end
      BY <1>1, <1>2, Zenon
    <2> HIDE DEF w, o, e
    <2> QED
      BY <1>3, <2>1, <2>2, Zenon
  <1>5. ASSUME NEW i \in 1 .. end PROVE new[i] = i /\ i <= Length[f]
    <2>1. i <= Length[f]
      BY <1>2, <1>3
    <2>2. CASE i <= pos
      <3>1. i \in 1 .. pos
        BY <2>2
      <3> QED
        BY <1>1, <1>4, <2>1, <3>1 DEF Begins
    <2>3. CASE ~(i <= pos)
      <3>1. PICK j \in 1 .. Len(units) : j = i - pos
        BY <1>2, <1>3, <2>3
      <3>2. pos + j = i /\ i \in pos + 1 .. end
        BY <1>2, <1>3, <2>3, <3>1
      <3>3. new[i] = units[j] /\ units[j] = pos + j
        BY <1>4, <3>1, <3>2
      <3> QED
        BY <2>1, <3>2, <3>3
    <2> QED
      BY <2>2, <2>3
  <1>6. ASSUME NEW i \in 1 .. Len(new) PROVE new[i] = 0 \/ (new[i] = i /\ i <= Length[f])
    <2>1. CASE i <= end
      BY <1>2, <1>5, <2>1
    <2>2. CASE i > end
      <3>1. i \in end + 1 .. Len(new) /\ i \in 1 .. Len(old) /\ new[i] = old[i]
        BY <1>2, <1>3, <1>4, <2>2
      <3> QED
        BY <1>1, <3>1 DEF Mixed
    <2> QED
      BY <1>2, <1>4, <2>1, <2>2
  <1>7. end <= Len(new)
    BY <1>2, <1>3, <1>4
  <1> QED
    BY <1>2, <1>4, <1>5, <1>6, <1>7 DEF Mixed, Begins

\* The packet that a receiving device takes is the one the other Kermit is at.
LEMMA ReceivedIs ==
    ASSUME Types, Lines, NEW p, Reads(p), Received(p)
    PROVE  /\ k.what = "recv" /\ Running /\ peer.role = "send" /\ p \in Packets
           /\ p = peer.says /\ ~Ahead /\ p.t \in Says
           /\ k.r_seq \in Numbers /\ NextSeq(k.r_seq) # peer.says.seq
  <1>1. /\ toDev \in Seq(Packets) /\ toDev # <<>> /\ p = Head(toDev) /\ p \in Packets
        /\ k.what = "recv" /\ Running /\ IsWanted(p) /\ k.status = "run" /\ k.r_seq \in Numbers
    BY ReadTypes DEF Types, DeviceTypes, Protocols, Received, Wanted
  <1>2. peer.role = "send"
    BY <1>1 DEF Types, PeerTypes, Peers
  <1>3. p.seq = k.r_seq /\ p.t \in Says
    BY <1>1 DEF IsWanted, Good, Packets, Answers
  <1>4. 1 \in 1 .. Len(toDev) /\ toDev[1] = p
    BY <1>1, LineOps
  <1>5. p = peer.says
    BY <1>1, <1>2, <1>3, <1>4 DEF Lines, RecvLines, Only
  <1> QED
    BY <1>1, <1>2, <1>3, <1>5, NextNumber DEF Ahead

\* Data that the device takes go on where it is.
LEMMA DataGoOn ==
    ASSUME Types, Lines, PeerState, RecvState, Copies, NEW p, Reads(p), Received(p),
           p.t = "D", NEW pos \in Nat, NEW units \in Seq(Nat),
           k.state = "R_ATTR" => pos = 0 /\ units = p.d,
           k.state = "R_DATA" => pos = k.pos /\ units = k.obuf \o p.d
    PROVE  /\ k.file \in Names /\ k.file = peer.file /\ Begins(Content(k.file), pos)
           /\ \A i \in 1 .. Len(units) : units[i] = pos + i
           /\ pos + Len(units) = peer.pos /\ peer.pos <= Length[k.file]
  <1>1. /\ p = peer.says /\ ~Ahead /\ k.what = "recv" /\ Running /\ peer.role = "send"
        /\ peer.pos \in Nat /\ k.pos \in Nat /\ k.obuf \in Seq(Nat) /\ p \in Packets
        /\ disk \in [Names -> {NoFile} \cup Seq(Nat)]
    BY ReceivedIs DEF Types, DeviceTypes, PeerTypes, Peers, Protocols
  <1>2. PICK d \in Seq(Nat) : d = p.d
    BY <1>1 DEF Packets
  <1>3. /\ Len(d) <= peer.pos /\ \A i \in 1 .. Len(d) : d[i] = peer.pos - Len(d) + i
        /\ k.file = peer.file
        /\ \/ k.state = "R_ATTR" /\ peer.pos = Len(d)
           \/ k.state = "R_DATA" /\ peer.pos = InAll + Len(d)
    BY <1>1, <1>2 DEF PeerState, RecvState
  <1>4. k.file \in Names
    BY <1>3 DEF Types, DeviceTypes
  <1>5. peer.pos <= Length[k.file]
    BY <1>1, <1>3, <1>4 DEF PeerState
  <1>6. CASE k.state = "R_ATTR"
    <2>1. pos = 0 /\ units = d /\ peer.pos = Len(d) /\ Len(d) \in Nat
      BY <1>2, <1>3, <1>6
    <2> QED
      BY <1>1, <1>3, <1>4, <1>5, <2>1, ContentIs
  <1>7. CASE k.state = "R_DATA"
    <2>1. PICK b \in Seq(Nat) : b = k.obuf
      BY <1>1
    <2>2. /\ pos = k.pos /\ units = b \o d /\ peer.pos = pos + Len(b) + Len(d)
          /\ Len(b) \in Nat /\ Len(d) \in Nat
      <3>1. pos = k.pos /\ units = b \o d
        BY <1>2, <1>7, <2>1
      <3>2. InAll = pos + Len(b)
        BY <2>1, <3>1 DEF InAll
      <3>3. peer.pos = InAll + Len(d)
        BY <1>3, <1>7
      <3> QED
        BY <3>1, <3>2, <3>3
    <2>3. Begins(Content(k.file), pos) /\ \A i \in 1 .. Len(b) : b[i] = pos + i
      BY <1>1, <1>7, <2>1, <2>2 DEF Copies
    <2>4. /\ Len(b \o d) = Len(b) + Len(d)
          /\ \A i \in 1 .. Len(b) + Len(d) :
                (b \o d)[i] = IF i <= Len(b) THEN b[i] ELSE d[i - Len(b)]
      BY ConcatProperties, Zenon
    <2>5. ASSUME NEW i \in 1 .. Len(units) PROVE units[i] = pos + i
      <3>1. i \in 1 .. Len(b) + Len(d)
        BY <2>2, <2>4
      <3>2. CASE i <= Len(b)
        BY <2>2, <2>3, <2>4, <3>1, <3>2
      <3>3. CASE ~(i <= Len(b))
        <4>1. i - Len(b) \in 1 .. Len(d) /\ units[i] = d[i - Len(b)]
          BY <2>2, <2>4, <3>1, <3>3
        <4>2. d[i - Len(b)] = peer.pos - Len(d) + (i - Len(b))
          BY <1>3, <4>1
        <4>3. PICK m \in Nat, n \in Nat : m = Len(b) /\ n = Len(d)
          BY <2>2
        <4>4. i \in Nat /\ peer.pos = pos + m + n
          BY <2>2, <3>1, <4>3
        <4>5. peer.pos - n + (i - m) = pos + i
          BY <4>3, <4>4
        <4> QED
          BY <4>1, <4>2, <4>3, <4>5
      <3> QED
        BY <3>2, <3>3
    <2>6. pos + Len(units) = peer.pos
      <3>1. PICK m \in Nat, n \in Nat : m = Len(b) /\ n = Len(d)
        BY <2>2
      <3>2. Len(units) = m + n /\ peer.pos = (pos + m) + n
        BY <2>2, <2>4, <3>1
      <3> QED
        BY <3>2
    <2> QED
      BY <1>3, <1>4, <1>5, <2>3, <2>5, <2>6
  <1> QED
    BY <1>3, <1>6, <1>7

\* The other Kermit stays where it was, or goes on to its next packet when the device has
\* taken the one before.
LEMMA SenderMoves ==
    ASSUME Types, Lines, Outside, peer.role = "send"
    PROVE  /\ k' = k /\ disk' = disk
           /\ \/ PeerStays
              \/ /\ peer' = Following /\ peer.says.t # "B" /\ SamePeer(Following)
                 /\ Ahead /\ ~Ahead'
  <1>1. /\ toPeer \in Seq(Packets) /\ PeerTypes /\ peer.says.seq \in Numbers
        /\ Carries(toPeer, Answers \cup {"E"}) /\ Replies(toPeer, peer.says.seq, k.r_seq)
    BY DEF Types, LineTypes, PeerTypes, Peers, Packets, Lines, RecvLines
  <1>2. k' = k /\ disk' = disk
    BY DEF Outside, device
  <1>3. CASE PeerSendsOn
    <2>1. /\ toPeer # <<>> /\ IsProgress(Head(toPeer)) /\ peer.says.t # "B"
          /\ peer' = Following
      BY <1>3 DEF PeerSendsOn
    <2>2. Head(toPeer).t \in Answers /\ Level(Head(toPeer)) = NextSeq(peer.says.seq)
      BY <2>1 DEF IsProgress, Answers, Level
    <2>3. k.r_seq = NextSeq(peer.says.seq)
      BY <1>1, <2>1, <2>2, AnswerTaken
    <2>4. SamePeer(Following) /\ Following.says.seq = NextSeq(peer.says.seq)
      BY <1>1, <2>1, FollowingIs
    <2>5. k.r_seq # peer.says.seq
      BY <1>1, <2>3, NextNumber
    <2> QED
      BY <1>2, <2>1, <2>3, <2>4, <2>5 DEF Ahead
  <1>4. ~\E reply \in Packets : Takes(Head(toPeer), reply)
    BY DEF Takes
  <1> QED
    BY <1>1, <1>2, <1>3, <1>4, OutsideSteps

\* PeerState is kept by every step.
LEMMA NextPeerState ==
    ASSUME Types, Types', Lines, PeerState, [Next]_vars
    PROVE  PeerState'
  <1>1. PeerTypes /\ peer \in Peers /\ PeerTypes'
    BY DEF Types, PeerTypes
  <1>2. CASE peer' = peer \/ PeerStays
    <2>1. /\ peer'.role = peer.role /\ peer'.sending = peer.sending /\ peer'.says = peer.says
          /\ peer'.file = peer.file /\ peer'.pos = peer.pos
      BY <1>2 DEF PeerStays
    <2>2. GivesUp(peer.file)' = GivesUp(peer.file) /\ Upto(peer.file)' = Upto(peer.file)
      BY <2>1 DEF GivesUp, Upto
    <2> QED
      BY <2>1, <2>2 DEF PeerState
  <1>3. CASE Starts
    <2>1. ASSUME NEW s \in Sendings, StartsReceive(s)
          PROVE  PeerState'
      <3>1. s.first \in {"S", "I"} /\ s.files \in Names
        BY ConstAssumption
      <3>2. peer'.says.t = s.first
        BY <2>1, <3>1, Beginnings DEF StartsReceive
      <3>3. peer'.file = 0 /\ peer'.pos = 0 /\ peer'.sending = s /\ 0 <= s.files /\ 0 \notin Names
        BY <2>1, <3>1, FileLengths DEF StartsReceive
      <3> QED
        BY <3>1, <3>2, <3>3 DEF PeerState
    <2>2. ASSUME NEW r \in Receivings, StartsSend(r)
          PROVE  PeerState'
      BY <2>2 DEF StartsSend, PeerState
    <2> QED
      BY <1>3, <2>1, <2>2, StartIs DEF Starts
  <1>4. ASSUME peer' = Following, peer.role = "send", peer.says.t # "B", SamePeer(Following)
        PROVE  PeerState'
    <2>1. /\ peer.pos \in Nat /\ peer.file \in Names \cup {0} /\ peer.file <= peer.sending.files
          /\ peer.file \in Names => peer.pos <= Length[peer.file]
          /\ peer.says.t = "F" => peer.pos = 0
          /\ peer.says.t \in {"S", "I"} \/ peer.file \in Names
          /\ peer.sending.files \in Names /\ peer.sending.files \in Nat
      BY <1>1, <1>4, FileLengths DEF PeerState, PeerTypes, Peers
    <2>2. peer'.sending = peer.sending
      BY <1>4 DEF SamePeer
    <2>3. CASE /\ peer.says.t \in {"S", "I", "Z"} /\ peer.file < peer.sending.files
               /\ GoesOn("F", <<peer.file + 1>>, peer.file + 1, 0)
      <3>1. /\ peer'.says.t = "F" /\ peer'.says.d = <<peer'.file>> /\ peer'.pos = 0
            /\ peer'.file = peer.file + 1
        BY <1>4, <2>3 DEF GoesOn
      <3>2. peer'.file <= peer'.sending.files
        BY <2>1, <2>2, <2>3, <3>1, FileLengths
      <3>3. peer'.file \in Names => 0 <= Length[peer'.file]
        BY FileLengths
      <3> QED
        BY <3>1, <3>2, <3>3 DEF PeerState
    <2>4. CASE /\ peer.says.t \in {"S", "I", "Z"} /\ ~(peer.file < peer.sending.files)
               /\ GoesOn("B", <<>>, peer.file, peer.pos)
      <3>1. peer'.says.t = "B" /\ peer'.file = peer.file /\ peer'.pos = peer.pos
        BY <1>4, <2>4 DEF GoesOn
      <3>2. peer'.file = peer'.sending.files
        BY <2>1, <2>2, <2>4, <3>1, FileLengths
      <3> QED
        BY <2>1, <2>2, <3>1, <3>2 DEF PeerState
    <2>5. CASE /\ peer.says.t = "F" /\ peer.sending.attrs
               /\ GoesOn("A", <<>>, peer.file, peer.pos)
      <3>1. peer'.says.t = "A" /\ peer'.file = peer.file /\ peer'.pos = peer.pos
        BY <1>4, <2>5 DEF GoesOn
      <3> QED
        BY <2>1, <2>2, <2>5, <3>1 DEF PeerState
    <2>6. CASE /\ peer.says.t \in {"F", "A", "D"} /\ peer.pos < Upto(peer.file)
               /\ GoesOn("D", Chunk(peer.file, peer.pos), peer.file,
                         peer.pos + Len(Chunk(peer.file, peer.pos)))
      <3>1. PICK d : d = Chunk(peer.file, peer.pos)
        OBVIOUS
      <3>2. /\ d \in Seq(Nat) /\ peer.pos + Len(d) <= Length[peer.file]
            /\ \A i \in 1 .. Len(d) : d[i] = peer.pos + i
        BY <2>1, <2>6, <3>1, NextPiece DEF Chunk
      <3>3. PICK n : n = peer.pos + Len(d)
        OBVIOUS
      <3>4. /\ peer'.says.t = "D" /\ peer'.says.d = d /\ peer'.file = peer.file
            /\ peer'.pos = n
        BY <1>4, <2>6, <3>1, <3>3 DEF GoesOn
      <3>5. n \in Nat /\ Len(d) <= n /\ \A i \in 1 .. Len(d) : d[i] = n - Len(d) + i
        BY <2>1, <3>2, <3>3
      <3> QED
        BY <2>1, <2>2, <3>2, <3>3, <3>4, <3>5 DEF PeerState
    <2>7. CASE /\ peer.says.t \in {"F", "A", "D"} /\ ~(peer.pos < Upto(peer.file))
               /\ GoesOn("Z", IF GivesUp(peer.file) THEN D ELSE <<>>, peer.file, peer.pos)
      <3>1. /\ peer'.says.t = "Z" /\ peer'.file = peer.file /\ peer'.pos = peer.pos
            /\ peer'.says.d = IF GivesUp(peer.file) THEN D ELSE <<>>
        BY <1>4, <2>7 DEF GoesOn
      <3>2. GivesUp(peer.file)' = GivesUp(peer.file) /\ Upto(peer.file)' = Upto(peer.file)
        BY <2>2, <3>1 DEF GivesUp, Upto
      <3>3. peer.pos >= Upto(peer.file)
        BY <2>1, <2>7, UptoIs
      <3> QED
        BY <2>1, <2>2, <3>1, <3>2, <3>3 DEF PeerState
    <2> QED
      BY <1>1, <1>4, <2>3, <2>4, <2>5, <2>6, <2>7, FollowingIs
  <1>5. CASE Outside /\ peer.role # "send"
    <2>1. peer'.role # "send"
      BY <1>1, <1>5 DEF Outside, device, PeerTypes, Peers
    <2> QED
      BY <2>1 DEF PeerState
  <1>6. Device \/ (Running /\ Stops("user")) \/ UNCHANGED vars => peer' = peer
    BY DeviceSteps DEF Stops, vars
  <1> QED
    BY <1>2, <1>3, <1>4, <1>5, <1>6, Steps, SenderMoves

\* What the device has after it has taken data.
LEMMA DataTaken ==
    ASSUME NEW units \in Seq(Nat), NEW pos \in Nat,
           k'.pos = pos + Len(Full(units)), k'.obuf = Rest(units)
    PROVE  InAll' = pos + Len(units)
  <1>1. PICK a \in Seq(Nat), b \in Seq(Nat) :
          a = Full(units) /\ b = Rest(units) /\ Len(a) + Len(b) = Len(units)
    BY Buffers
  <1>2. PICK m \in Nat, n \in Nat : m = Len(a) /\ n = Len(b)
    OBVIOUS
  <1>3. InAll' = (pos + m) + n /\ Len(units) = m + n
    BY <1>1, <1>2 DEF InAll
  <1> QED
    BY <1>2, <1>3

\* RecvState is kept by every step.
LEMMA NextRecvState ==
    ASSUME Types, Types', Lines, PeerState, RecvState, Copies, [Next]_vars, ~Starts, ~altered'
    PROVE  RecvState'
  <1>1. /\ PeerTypes
        /\ Running /\ k.what = "recv" => peer.role = "send"
    BY DEF Types, PeerTypes, Peers, Running
  <1>2. CASE Device
    <2>1. peer' = peer
      BY <1>2, DeviceSteps
    <2>2. CASE Stays
      <3>1. /\ k'.what = k.what /\ k'.state = k.state /\ k'.r_seq = k.r_seq /\ k'.file = k.file
            /\ Ahead' = Ahead /\ InAll' = InAll
        BY <2>1, <2>2 DEF Stays, Ahead, InAll
      <3>2. Running
        BY <1>2, DeviceSteps
      <3> QED
        BY <2>1, <3>1, <3>2 DEF RecvState
    <2>3. CASE k'.what = "send" \/ k'.status # "run"
      BY <2>3 DEF RecvState, Running
    <2>4. ASSUME NEW p, Reads(p), Received(p), ReceiveStep(p)
          PROVE  RecvState'
      <3>1. /\ k.what = "recv" /\ Running /\ p = peer.says /\ ~Ahead /\ p \in Packets
            /\ NextSeq(k.r_seq) # peer.says.seq
        BY <2>4, ReceivedIs
      <3>2. \A st, status, f, pos, obuf : AcksWith(st, status, f, pos, obuf) =>
               /\ Ahead' /\ k'.status = status /\ k'.state = st /\ k'.file = f
               /\ k'.pos = pos /\ k'.obuf = obuf
        BY <2>1, <3>1 DEF AcksWith, Ahead
      <3>3. CASE \E st : FailsAloud(st)
        BY <2>3, <3>3 DEF FailsAloud
      <3>4. CASE /\ k.state = "R_WAIT" /\ p.t = "S"
                 /\ AcksWith("R_FILE", "run", k.file, k.pos, k.obuf)
        BY <2>1, <3>1, <3>2, <3>4 DEF RecvState
      <3>5. CASE /\ k.state = "R_FILE" /\ p.t = "F" /\ p.d[1] \in Names
                 /\ AcksWith("R_ATTR", "run", p.d[1], k.pos, k.obuf)
        <4>1. p.d = <<peer.file>>
          BY <1>1, <3>1, <3>5 DEF PeerState
        <4>2. p.d[1] = peer.file
          BY <4>1
        <4> QED
          BY <2>1, <3>1, <3>2, <3>5, <4>2 DEF RecvState
      <3>6. CASE /\ k.state = "R_FILE" /\ p.t = "B"
                 /\ AcksWith("R_FILE", "done", k.file, k.pos, k.obuf)
        BY <2>3, <3>2, <3>6
      <3>7. CASE /\ k.state = "R_ATTR" /\ p.t = "A"
                 /\ AcksWith("R_ATTR", "run", k.file, k.pos, k.obuf)
        BY <2>1, <3>1, <3>2, <3>7 DEF RecvState
      <3>8. ASSUME p.t = "D", NEW pos \in Nat, NEW units \in Seq(Nat),
                   k.state = "R_ATTR" => pos = 0 /\ units = p.d,
                   k.state = "R_DATA" => pos = k.pos /\ units = k.obuf \o p.d,
                   AcksWith("R_DATA", "run", k.file, pos + Len(Full(units)), Rest(units))
            PROVE  RecvState'
        <4>1. k.file = peer.file /\ pos + Len(units) = peer.pos
          BY <2>4, <3>8, DataGoOn
        <4>2. /\ Ahead' /\ k'.state = "R_DATA" /\ k'.file = k.file
              /\ k'.pos = pos + Len(Full(units)) /\ k'.obuf = Rest(units)
          BY <3>2, <3>8
        <4>3. InAll' = peer.pos
          BY <3>8, <4>1, <4>2, DataTaken
        <4> QED
          BY <2>1, <3>1, <3>8, <4>1, <4>2, <4>3 DEF RecvState
      <3>9. CASE AcksWith("R_FILE", "failed", k.file, k.pos, k.obuf)
        BY <2>3, <3>2, <3>9
      <3>10. CASE p.t = "Z" /\ AcksWith("R_FILE", "run", k.file, k.pos + Len(k.obuf), <<>>)
        BY <2>1, <3>1, <3>2, <3>10 DEF RecvState
      <3>11. CASE DataTakes(p)
        <4>1. PICK pos \in Nat, units \in Seq(Nat) :
                  /\ k.state = "R_ATTR" => pos = 0 /\ units = p.d
                  /\ k.state = "R_DATA" => pos = k.pos /\ units = k.obuf \o p.d
                  /\ AcksWith("R_DATA", "run", k.file, pos + Len(Full(units)), Rest(units))
          BY <3>11 DEF DataTakes
        <4> QED
          BY <3>8, <3>11, <4>1 DEF DataTakes
      <3>12. DataFails(p) \/ EndFails(p) => RecvState'
        BY <3>3 DEF DataFails, EndFails
      <3>13. EndTakes(p) => RecvState'
        BY <3>10 DEF EndTakes
      <3> QED
        BY <2>4, <3>3, <3>4, <3>5, <3>6, <3>7, <3>9, <3>11, <3>12, <3>13 DEF ReceiveStep
    <2>5. k.what = "send" => k'.what = "send"
      BY <2>1 DEF Types, PeerTypes
    <2>6. NoSlot => k'.status = "failed"
      BY DEF NoSlot, Stops, Failed, Types, DeviceTypes, Protocols
    <2> QED
      BY <1>2, <2>2, <2>3, <2>4, <2>5, <2>6, DeviceSteps DEF Acked
  <1>3. CASE Running /\ Stops("user")
    <2>1. k'.status = "failed"
      BY <1>3 DEF Stops, Failed, Types, DeviceTypes, Protocols
    <2> QED
      BY <2>1 DEF RecvState, Running
  <1>4. CASE UNCHANGED vars
    BY <1>4 DEF vars, device, RecvState, Running, Ahead, InAll
  <1>5. CASE Outside /\ Running /\ k.what = "recv"
    <2>1. CASE k' = k /\ PeerStays
      BY <1>5, <2>1 DEF PeerStays, RecvState, Ahead, InAll, Running
    <2>2. ASSUME k' = k, peer' = Following, peer.says.t # "B", Ahead, ~Ahead'
          PROVE  RecvState'
      <3>1. PICK n : n = InAll
        OBVIOUS
      <3>2. InAll' = n
        BY <2>2, <3>1 DEF InAll
      <3>3. /\ peer.says.t \in {"S", "I", "Z"} => k.state = "R_FILE"
            /\ peer.says.t = "F" => peer.pos = 0
            /\ peer.says.t = "A" => peer.pos = 0
            /\ peer.says.t \in {"F", "A"} => k.state = "R_ATTR" /\ k.file = peer.file
            /\ peer.says.t = "D" => k.state = "R_DATA" /\ k.file = peer.file /\ peer.pos = n
        BY <1>1, <1>5, <2>2, <3>1 DEF PeerState, RecvState
      <3>4. CASE peer.says.t \in {"S", "I", "Z"}
        <4>1. peer'.says.t \in {"F", "B"}
          BY <1>1, <1>5, <2>2, <3>4, FollowingIs DEF GoesOn
        <4> QED
          BY <2>2, <3>3, <3>4, <4>1 DEF RecvState
      <3>5. CASE peer'.says.t = "A" /\ peer.says.t = "F" /\ peer'.file = peer.file
        BY <2>2, <3>3, <3>5 DEF RecvState
      <3>6. CASE /\ peer'.says.t = "D" /\ peer.says.t \in {"F", "A", "D"}
                 /\ peer'.file = peer.file /\ peer'.pos = peer.pos + Len(peer'.says.d)
        <4>1. PICK m : m = Len(peer'.says.d)
          OBVIOUS
        <4>2. m \in Nat
          <5>1. peer'.says.d \in Seq(Nat)
            BY <3>6 DEF Types, PeerTypes, Peers, Packets
          <5> QED
            BY <4>1, <5>1
        <4>3. peer.says.t \in {"F", "A"} => peer'.pos = m
          BY <3>3, <3>6, <4>1, <4>2
        <4>4. peer.says.t = "D" => peer'.pos = n + m
          BY <3>3, <3>6, <4>1
        <4> QED
          BY <2>2, <3>2, <3>3, <3>6, <4>1, <4>3, <4>4 DEF RecvState
      <3>7. CASE /\ peer'.says.t = "Z" /\ peer.says.t \in {"F", "A", "D"}
                 /\ peer'.file = peer.file /\ peer'.pos = peer.pos
        BY <2>2, <3>2, <3>3, <3>7 DEF RecvState
      <3>8. CASE ~(peer.says.t \in {"S", "I", "Z"})
        <4>1. GoesOn("D", Chunk(peer.file, peer.pos), peer.file,
                     peer.pos + Len(Chunk(peer.file, peer.pos)))
              => /\ peer'.says.t = "D" /\ peer'.file = peer.file
                 /\ peer'.pos = peer.pos + Len(peer'.says.d)
          BY <2>2 DEF GoesOn
        <4>2. \A d : GoesOn("Z", d, peer.file, peer.pos)
                     => peer'.says.t = "Z" /\ peer'.file = peer.file /\ peer'.pos = peer.pos
          BY <2>2 DEF GoesOn
        <4>3. GoesOn("A", <<>>, peer.file, peer.pos)
              => peer'.says.t = "A" /\ peer'.file = peer.file
          BY <2>2 DEF GoesOn
        <4> QED
          BY <1>1, <1>5, <2>2, <3>5, <3>6, <3>7, <3>8, <4>1, <4>2, <4>3, FollowingIs
      <3> QED
        BY <3>4, <3>8
    <2> QED
      BY <1>1, <1>5, <2>1, <2>2, SenderMoves
  <1>6. CASE Outside /\ ~(Running /\ k.what = "recv")
    <2>1. k' = k
      BY <1>6 DEF Outside, device
    <2> QED
      BY <1>6, <2>1 DEF RecvState, Running
  <1> QED
    BY <1>2, <1>3, <1>4, <1>5, <1>6, Steps

\* No content is taken for a missing file.
LEMMA NoFileIs == \A c \in Seq(Nat) : c # NoFile
  BY ConstAssumption

\* A file that is closed or written over; what is written goes on where the copy ends.
LEMMA NewCopy ==
    ASSUME NEW f \in Names, disk \in [Names -> {NoFile} \cup Seq(Nat)], Copies,
           NEW c, c = NoFile \/ (c \in Seq(Nat) /\ Mixed(c, Length[f])),
           disk' = [disk EXCEPT ![f] = c]
    PROVE  \A g \in Names : disk'[g] # NoFile => Mixed(disk'[g], Length[g])
  <1> SUFFICES ASSUME NEW g \in Names, disk'[g] # NoFile
               PROVE  Mixed(disk'[g], Length[g])
    OBVIOUS
  <1>1. CASE g = f
    BY <1>1
  <1>2. CASE g # f
    <2>1. disk'[g] = disk[g]
      BY <1>2
    <2> QED
      BY <2>1 DEF Copies
  <1> QED
    BY <1>1, <1>2

\* Data that the device takes: the full buffers it writes and what is left of them.
LEMMA DataWritten ==
    ASSUME Types, Lines, PeerState, RecvState, Copies, NEW p, Reads(p), Received(p),
           p.t = "D", NEW pos \in Nat, NEW units \in Seq(Nat),
           k.state = "R_ATTR" => pos = 0 /\ units = p.d,
           k.state = "R_DATA" => pos = k.pos /\ units = k.obuf \o p.d
    PROVE  /\ k.file \in Names /\ pos + Len(units) <= Length[k.file]
           /\ \E full, rest, new \in Seq(Nat), m \in Nat :
                 /\ full = Full(units) /\ rest = Rest(units) /\ m = Len(full)
                 /\ new = WriteAt(k.file, pos, full)
                 /\ Mixed(new, Length[k.file]) /\ Begins(new, pos + m)
                 /\ \A i \in 1 .. Len(rest) : rest[i] = (pos + m) + i
  <1>1. /\ k.file \in Names /\ Begins(Content(k.file), pos)
        /\ \A i \in 1 .. Len(units) : units[i] = pos + i
        /\ pos + Len(units) = peer.pos /\ peer.pos <= Length[k.file]
        /\ disk \in [Names -> {NoFile} \cup Seq(Nat)]
    BY DataGoOn DEF Types, DeviceTypes
  <1>2. PICK full \in Seq(Nat), rest \in Seq(Nat) :
            /\ full = Full(units) /\ rest = Rest(units)
            /\ Len(full) + Len(rest) = Len(units)
            /\ \A i \in 1 .. Len(full) : full[i] = units[i]
            /\ \A i \in 1 .. Len(rest) : rest[i] = units[Len(full) + i]
    BY Buffers
  <1>3. PICK m \in Nat, n \in Nat : m = Len(full) /\ n = Len(rest)
    OBVIOUS
  <1>4. Len(units) = m + n /\ pos + (m + n) <= Length[k.file] /\ Length[k.file] \in Nat
    BY <1>1, <1>2, <1>3, FileLengths
  <1>5. ASSUME NEW i \in 1 .. Len(full) PROVE full[i] = pos + i
    <2>1. i \in 1 .. Len(units)
      BY <1>3, <1>4
    <2> QED
      BY <1>1, <1>2, <2>1
  <1>6. ASSUME NEW i \in 1 .. Len(rest) PROVE rest[i] = (pos + m) + i
    <2>1. m + i \in 1 .. Len(units)
      BY <1>3, <1>4
    <2>2. rest[i] = units[m + i] /\ units[m + i] = pos + (m + i)
      BY <1>1, <1>2, <1>3, <2>1
    <2> QED
      BY <2>2
  <1>7. pos + Len(full) <= Length[k.file]
    BY <1>3, <1>4
  <1>8. PICK new \in Seq(Nat) : /\ new = WriteAt(k.file, pos, full)
                                /\ Mixed(new, Length[k.file]) /\ Begins(new, pos + Len(full))
    BY <1>1, <1>5, <1>7, Written
  <1> QED
    BY <1>1, <1>2, <1>3, <1>6, <1>8

\* Copies is kept by every step of a session in which nothing has been altered.
LEMMA NextCopies ==
    ASSUME Types, Types', Lines, PeerState, RecvState, Copies, [Next]_vars, ~Starts, ~altered'
    PROVE  Copies'
  <1>1. /\ disk \in [Names -> {NoFile} \cup Seq(Nat)] /\ k.file \in Nat
        /\ k.state \in {"R_ATTR", "R_DATA"} => k.file \in Names
        /\ Running' /\ k'.what = "send" => k'.state # "R_DATA"
    BY FileLengths DEF Types, DeviceTypes, Protocols, SendStates
  <1>2. CASE disk' = disk /\ ~(Running' /\ k'.state = "R_DATA")
    BY <1>2 DEF Copies
  <1>3. CASE /\ disk' = disk /\ k'.state = k.state /\ k'.file = k.file /\ k'.pos = k.pos
             /\ k'.obuf = k.obuf /\ (Running' => Running)
    <2>1. InAll' = InAll /\ Content(k.file)' = Content(k.file)
      BY <1>3 DEF InAll, Content
    <2> QED
      BY <1>3, <2>1 DEF Copies
  <1>4. CASE Device
    <2>1. CASE Stays /\ NoFileChange
      <3>1. Running
        BY <1>4, DeviceSteps
      <3> QED
        BY <1>3, <2>1, <3>1 DEF Stays, NoFileChange
    <2>2. CASE NoSlot
      BY <1>2, <2>2 DEF NoSlot, Stops, Failed, Types, DeviceTypes, Protocols, Running
    <2>3. ASSUME NEW p, Reads(p), Acked(p), disk' = disk
          PROVE  Copies'
      <3>1. peer' = peer
        BY <1>4, DeviceSteps
      <3>2. k'.what = "send"
        BY <2>3, <3>1 DEF Acked, Types, PeerTypes
      <3> QED
        BY <1>1, <1>2, <2>3, <3>2
    <2>4. ASSUME NEW p, Reads(p), Received(p), ReceiveStep(p)
          PROVE  Copies'
      <3>1. \A st, status, f, pos, obuf : AcksWith(st, status, f, pos, obuf) =>
               /\ k'.status = status /\ k'.state = st /\ k'.file = f /\ k'.pos = pos
               /\ k'.obuf = obuf
        BY DEF AcksWith
      <3>2. \A st : FailsAloud(st) => ~Running'
        BY DEF FailsAloud, Running
      <3>3. CASE disk' = disk /\ \E st : FailsAloud(st)
        BY <1>2, <3>2, <3>3
      <3>4. CASE /\ disk' = disk
                 /\ \/ AcksWith("R_FILE", "run", k.file, k.pos, k.obuf)
                    \/ AcksWith("R_ATTR", "run", p.d[1], k.pos, k.obuf)
                    \/ AcksWith("R_FILE", "done", k.file, k.pos, k.obuf)
                    \/ AcksWith("R_ATTR", "run", k.file, k.pos, k.obuf)
        <4>1. k'.state \in {"R_FILE", "R_ATTR"}
          BY <3>1, <3>4
        <4> QED
          BY <1>2, <3>4, <4>1
      <3>5. CASE /\ ~(Running' /\ k'.state = "R_DATA") /\ k.file \in Names
                 /\ \E c : /\ c = NoFile \/ (c \in Seq(Nat) /\ Mixed(c, Length[k.file]))
                           /\ Replaced(c)
        <4>1. \A g \in Names : disk'[g] # NoFile => Mixed(disk'[g], Length[g])
          BY <1>1, <3>5, NewCopy DEF Replaced
        <4> QED
          BY <3>5, <4>1 DEF Copies
      <3>6. k.file \in Names =>
               Content(k.file) \in Seq(Nat) /\ Mixed(Content(k.file), Length[k.file])
        BY <1>1, ContentIs
      <3>7. ASSUME p.t = "D", k.state \in {"R_ATTR", "R_DATA"},
                   NEW pos \in Nat, NEW units \in Seq(Nat),
                   k.state = "R_ATTR" => pos = 0 /\ units = p.d,
                   k.state = "R_DATA" => pos = k.pos /\ units = k.obuf \o p.d,
                   AcksWith("R_DATA", "run", k.file, pos + Len(Full(units)), Rest(units)),
                   Replaced(WriteAt(k.file, pos, Full(units)))
            PROVE  Copies'
        <4>1. PICK full \in Seq(Nat), rest \in Seq(Nat), new \in Seq(Nat), m \in Nat :
                  /\ full = Full(units) /\ rest = Rest(units) /\ m = Len(full)
                  /\ new = WriteAt(k.file, pos, full)
                  /\ Mixed(new, Length[k.file]) /\ Begins(new, pos + m)
                  /\ \A i \in 1 .. Len(rest) : rest[i] = (pos + m) + i
          BY <2>4, <3>7, DataWritten
        <4>2. k.file \in Names /\ pos + Len(units) <= Length[k.file]
          BY <2>4, <3>7, DataWritten
        <4>3. disk' = [disk EXCEPT ![k.file] = new]
          BY <3>7, <4>1 DEF Replaced
        <4>4. \A g \in Names : disk'[g] # NoFile => Mixed(disk'[g], Length[g])
          BY <1>1, <4>1, <4>2, <4>3, NewCopy
        <4>5. k'.file = k.file /\ k'.pos = pos + m /\ k'.obuf = rest
          BY <3>1, <3>7, <4>1
        <4>6. Content(k.file)' = new
          <5>1. new # NoFile
            BY <4>1, NoFileIs
          <5>2. disk'[k.file] = new
            BY <1>1, <4>2, <4>3
          <5> QED
            BY <4>5, <5>1, <5>2 DEF Content
        <4>7. Begins(Content(k.file), k.pos)'
          BY <4>1, <4>5, <4>6 DEF Begins
        <4>8. InAll' = pos + Len(units)
          <5>1. k'.pos = pos + Len(Full(units)) /\ k'.obuf = Rest(units)
            BY <3>1, <3>7, Zenon
          <5> QED
            BY <5>1, DataTaken, Zenon
        <4>9. InAll' <= Length[k'.file]
          BY <4>2, <4>5, <4>8
        <4>10. \A i \in 1 .. Len(k'.obuf) : k'.obuf[i] = k'.pos + i
          BY <4>1, <4>5
        <4> QED
          BY <4>4, <4>6, <4>7, <4>9, <4>10 DEF Copies
      <3>8. ASSUME p.t = "D", NEW pos \in Nat, NEW units \in Seq(Nat),
                    k.state = "R_ATTR" => pos = 0 /\ units = p.d,
                    k.state = "R_DATA" => pos = k.pos /\ units = k.obuf \o p.d
             PROVE  Mixed(WriteAt(k.file, pos, Full(units)), Length[k.file])
        <4>1. PICK full \in Seq(Nat), rest \in Seq(Nat), new \in Seq(Nat), m \in Nat :
                  /\ full = Full(units) /\ rest = Rest(units) /\ m = Len(full)
                  /\ new = WriteAt(k.file, pos, full)
                  /\ Mixed(new, Length[k.file]) /\ Begins(new, pos + m)
                  /\ \A i \in 1 .. Len(rest) : rest[i] = (pos + m) + i
          BY <2>4, <3>8, DataWritten
        <4>2. WriteAt(k.file, pos, Full(units)) = new
          BY <4>1, Zenon
        <4> QED
          BY <4>1, <4>2
      <3>15. CASE DataFails(p)
        <4>1. PICK pos \in Nat, units \in Seq(Nat), c \in Seq(Nat) :
                  /\ k.state = "R_ATTR" => pos = 0 /\ units = p.d
                  /\ k.state = "R_DATA" => pos = k.pos /\ units = k.obuf \o p.d
                  /\ Replaced(c)
                  /\ c \in {Content(k.file), WriteAt(k.file, pos, Full(units))}
          BY <3>15 DEF DataFails
        <4>2. p.t = "D" /\ k.file \in Names /\ ~Running'
          BY <1>1, <3>2, <3>15 DEF DataFails
        <4>3. Mixed(WriteAt(k.file, pos, Full(units)), Length[k.file])
          BY <3>8, <4>1, <4>2
        <4>4. Mixed(c, Length[k.file])
          BY <3>6, <4>1, <4>2, <4>3
        <4> QED
          BY <3>5, <4>1, <4>2, <4>4
      <3>9. ASSUME p.t = "Z", k.state = "R_DATA"
            PROVE  WriteAt(k.file, k.pos, k.obuf) \in Seq(Nat)
                   /\ Mixed(WriteAt(k.file, k.pos, k.obuf), Length[k.file])
        <4>1. /\ k.file \in Names /\ InAll <= Length[k.file] /\ Begins(Content(k.file), k.pos)
              /\ \A i \in 1 .. Len(k.obuf) : k.obuf[i] = k.pos + i
              /\ k.pos \in Nat /\ k.obuf \in Seq(Nat)
          BY <1>1, <2>4, <3>9 DEF Copies, Reads, Types, DeviceTypes, Protocols
        <4>2. k.pos + Len(k.obuf) <= Length[k.file]
          BY <4>1 DEF InAll
        <4> QED
          BY <1>1, <4>1, <4>2, Written
      <3>10. \A c : AfterClose(c, p.d) \in {c, NoFile}
        BY DEF AfterClose
      <3>11. CASE /\ k.state = "R_ATTR" /\ AcksWith("R_FILE", "failed", k.file, k.pos, k.obuf)
                  /\ Replaced(AfterClose(Content(k.file), p.d))
        <4>1. k.file \in Names /\ k'.state # "R_DATA"
          BY <1>1, <3>1, <3>11
        <4> QED
          BY <3>5, <3>6, <3>10, <3>11, <4>1
      <3>12. CASE EndTakes(p)
        <4>1. k.file \in Names /\ k'.state # "R_DATA" /\ p.t = "Z" /\ k.state = "R_DATA"
          BY <1>1, <3>1, <3>12 DEF EndTakes
        <4>2. PICK c : /\ Replaced(AfterClose(c, p.d))
                       /\ c \in {Content(k.file), WriteAt(k.file, k.pos, k.obuf)}
          BY <3>12 DEF EndTakes
        <4> QED
          BY <3>5, <3>6, <3>9, <3>10, <4>1, <4>2
      <3>13. CASE EndFails(p)
        <4>1. k.file \in Names /\ ~Running' /\ p.t = "Z" /\ k.state = "R_DATA"
          BY <1>1, <3>2, <3>13 DEF EndFails
        <4>2. PICK c : /\ Replaced(c)
                       /\ c \in {Content(k.file), WriteAt(k.file, k.pos, k.obuf)}
          BY <3>13 DEF EndFails
        <4> QED
          BY <3>5, <3>6, <3>9, <4>1, <4>2
      <3>14. CASE DataTakes(p)
        <4>1. PICK pos \in Nat, units \in Seq(Nat) :
                  /\ k.state = "R_ATTR" => pos = 0 /\ units = p.d
                  /\ k.state = "R_DATA" => pos = k.pos /\ units = k.obuf \o p.d
                  /\ AcksWith("R_DATA", "run", k.file, pos + Len(Full(units)), Rest(units))
                  /\ Replaced(WriteAt(k.file, pos, Full(units)))
          BY <3>14 DEF DataTakes
        <4> QED
          BY <3>7, <3>14, <4>1 DEF DataTakes
      <3> QED
        BY <2>4, <3>3, <3>4, <3>11, <3>12, <3>13, <3>14, <3>15 DEF ReceiveStep
    <2> QED
      BY <1>4, <2>1, <2>2, <2>3, <2>4, DeviceSteps
  <1>5. CASE Running /\ Stops("user")
    BY <1>2, <1>5 DEF Stops, Failed, Types, DeviceTypes, Protocols, Running
  <1>6. CASE Outside \/ UNCHANGED vars
    BY <1>3, <1>6 DEF Outside, vars, device, Running
  <1> QED
    BY <1>4, <1>5, <1>6, Steps

-----------------------------------------------------------------------------
(* Files that are complete                                                 *)

\* The file f is as it should be when it has been received.
Settled(f) == IF GivesUp(f) THEN keep \/ disk[f] = NoFile ELSE Whole(f)

\* The files before the one the other Kermit is at are, and that one when the device has
\* taken its end.
FilesDone ==
    k.what = "recv" /\ iofaults = 0 =>
        /\ k.status = "done" => \A f \in Sent : Settled(f)
        /\ Running =>
              \A f \in Names :
                  \/ f < peer.file
                  \/ f = peer.file /\ (peer.says.t = "B" \/ (peer.says.t = "Z" /\ Ahead))
                  => Settled(f)

\* A copy is whole when all the units of the file have been written.
LEMMA WholeIs ==
    ASSUME NEW f \in Names, NEW c \in Seq(Nat), Mixed(c, Length[f]), Begins(c, Length[f])
    PROVE  /\ c # NoFile /\ IsPrefix(Units(f), c)
           /\ \A i \in Length[f] + 1 .. Len(c) : c[i] = 0
  <1>1. Length[f] \in Nat /\ Length[f] <= Len(c)
    BY FileLengths DEF Begins
  <1>2. PICK u : /\ u \in Seq(Nat) /\ Len(u) = Length[f] /\ u = Units(f)
                 /\ \A i \in 1 .. Length[f] : u[i] = i
    BY UnitsAre, Zenon
  <1>3. PICK n \in Nat : n = Length[f] /\ n = Len(u) /\ n <= Len(c)
    BY <1>1, <1>2
  <1>4. IsPrefix(u, c)
    <2>1. /\ SubSeq(c, 1, n) \in Seq(Nat) /\ Len(SubSeq(c, 1, n)) = n
          /\ \A i \in 1 .. n : SubSeq(c, 1, n)[i] = c[i]
      BY <1>3
    <2>2. /\ SubSeq(u, 1, n) \in Seq(Nat) /\ Len(SubSeq(u, 1, n)) = n
          /\ \A i \in 1 .. n : SubSeq(u, 1, n)[i] = u[i]
      BY <1>2, <1>3
    <2>3. \A i \in 1 .. n : c[i] = u[i]
      BY <1>2, <1>3 DEF Begins
    <2>4. SubSeq(u, 1, n) = SubSeq(c, 1, n)
      BY <2>1, <2>2, <2>3, SeqEqual
    <2> QED
      BY <1>3, <2>4 DEF IsPrefix
  <1>5. \A i \in Length[f] + 1 .. Len(c) : c[i] = 0
    BY <1>1 DEF Mixed
  <1>6. c # NoFile
    BY NoFileIs
  <1> QED
    BY <1>2, <1>4, <1>5, <1>6

\* A file that is settled and left alone stays settled.
LEMMA SettledStays ==
    ASSUME NEW f, peer'.sending = peer.sending, keep' = keep, disk'[f] = disk[f], Settled(f)
    PROVE  Settled(f)'
  BY DEF Settled, GivesUp, Whole

\* The end of a file that the device takes.
LEMMA EndTaken ==
    ASSUME Types, Lines, PeerState, RecvState, Copies, NEW p, Reads(p), Received(p),
           k.state = "R_DATA", p.t = "Z", peer' = peer, NEW f, f = k.file,
           Replaced(AfterClose(WriteAt(k.file, k.pos, k.obuf), p.d))
    PROVE  f = peer.file /\ Settled(f)'
  <1>1. /\ p = peer.says /\ ~Ahead /\ k.what = "recv" /\ Running /\ peer.role = "send"
        /\ k.pos \in Nat /\ k.obuf \in Seq(Nat) /\ peer.pos \in Nat /\ keep' = keep
        /\ disk \in [Names -> {NoFile} \cup Seq(Nat)] /\ f \in Names
    BY ReceivedIs DEF Types, DeviceTypes, PeerTypes, Peers, Protocols, Reads
  <1>2. f = peer.file /\ peer.pos = InAll
    BY <1>1 DEF RecvState
  <1>3. /\ peer.pos >= Upto(f) /\ p.d = IF GivesUp(f) THEN D ELSE <<>>
    BY <1>1, <1>2 DEF PeerState
  <1>4. /\ Begins(Content(f), k.pos) /\ InAll <= Length[f]
        /\ \A i \in 1 .. Len(k.obuf) : k.obuf[i] = k.pos + i
    BY <1>1 DEF Copies
  <1>5. k.pos + Len(k.obuf) <= Length[f]
    BY <1>4 DEF InAll
  <1>6. PICK new \in Seq(Nat) : /\ new = WriteAt(f, k.pos, k.obuf)
                                /\ Mixed(new, Length[f]) /\ Begins(new, k.pos + Len(k.obuf))
    BY <1>1, <1>4, <1>5, Written
  <1>7. disk'[f] = AfterClose(new, p.d)
    BY <1>1, <1>6 DEF Replaced
  <1>8. GivesUp(f)' = GivesUp(f)
    BY DEF GivesUp
  <1>9. CASE GivesUp(f)
    <2>1. keep \/ disk'[f] = NoFile
      BY <1>3, <1>7, <1>9 DEF AfterClose
    <2> QED
      BY <1>1, <1>2, <1>8, <1>9, <2>1 DEF Settled
  <1>10. CASE ~GivesUp(f)
    <2>1. p.d # D
      BY <1>3, <1>10, Texts
    <2>2. disk'[f] = new
      BY <1>7, <2>1 DEF AfterClose
    <2>3. InAll = Length[f]
      BY <1>1, <1>2, <1>3, <1>4, <1>10, UptoIs, FileLengths
    <2>4. Begins(new, Length[f])
      BY <1>6, <2>3 DEF InAll
    <2>5. Whole(f)'
      BY <1>1, <1>6, <2>2, <2>4, WholeIs DEF Whole
    <2> QED
      BY <1>2, <1>8, <1>10, <2>5 DEF Settled
  <1> QED
    BY <1>2, <1>9, <1>10

\* FilesDone is kept by every step.
LEMMA NextFilesDone ==
    ASSUME Types, Types', Lines, PeerState, RecvState, Copies, FilesDone, [Next]_vars,
           ~Starts, ~altered'
    PROVE  FilesDone'
  <1>1. /\ iofaults \in Nat /\ PeerTypes /\ k \in Protocols
        /\ Running /\ k.what = "recv" => peer.role = "send"
        /\ k.status = "done" => ~Running
    BY DEF Types, DeviceTypes, PeerTypes, Peers, Running
  <1>2. CASE Device
    <2>1. peer' = peer /\ keep' = keep /\ Running
      BY <1>2, DeviceSteps
    <2>2. peer'.sending = peer.sending /\ Sent' = Sent
      BY <2>1 DEF Sent
    <2>3. \A f : disk'[f] = disk[f] /\ Settled(f) => Settled(f)'
      BY <2>1, <2>2, SettledStays
    <2>4. CASE Stays /\ NoFileChange
      <3>1. /\ k'.what = k.what /\ k'.status # "done" /\ Ahead' = Ahead
            /\ disk' = disk /\ iofaults' = iofaults
        BY <2>1, <2>4 DEF Stays, NoFileChange, Ahead, Running
      <3> QED
        BY <2>1, <2>3, <3>1 DEF FilesDone
    <2>5. CASE k'.what = "send" \/ k'.status = "failed"
      BY <2>5 DEF FilesDone, Running
    <2>6. ASSUME NEW p, Reads(p), Received(p), ReceiveStep(p), k'.status # "failed",
                 iofaults' = 0
          PROVE  FilesDone'
      <3>1. /\ k.what = "recv" /\ p = peer.says /\ ~Ahead /\ peer.role = "send"
        BY <2>6, ReceivedIs
      <3>2. /\ iofaults' = iofaults \/ iofaults' = iofaults + 1
                  => iofaults = 0 /\ iofaults' = iofaults
            /\ iofaults' # iofaults + 1
        BY <1>1, <2>6
      <3>3. \A st : ~FailsAloud(st)
        BY <2>6 DEF FailsAloud
      <3>4. \A st, status, f, pos, obuf : AcksWith(st, status, f, pos, obuf) => k'.status = status
        BY DEF AcksWith
      <3>5. iofaults = 0 => \A f \in Names : f < peer.file => Settled(f)
        BY <2>1, <3>1 DEF FilesDone
      <3>6. ASSUME iofaults = 0, k'.status = "run", peer.says.t \notin {"B", "Z"},
                   NEW c, disk' = disk \/ (Replaced(c) /\ k.file = peer.file)
            PROVE  FilesDone'
        <4>1. \A f \in Names : f < peer.file => disk'[f] = disk[f]
          BY <1>1, <3>6, FileLengths DEF Replaced, Types, DeviceTypes
        <4> QED
          BY <2>1, <2>3, <3>5, <3>6, <4>1 DEF FilesDone
      <3>7. CASE p.t = "B" /\ AcksWith("R_FILE", "done", k.file, k.pos, k.obuf) /\ disk' = disk
                 /\ iofaults = 0
        <4>1. peer.file = peer.sending.files /\ peer.file \in Nat /\ peer.sending.files \in Names
          BY <1>1, <3>1, <3>7, FileLengths DEF PeerState, PeerTypes, Peers
        <4>2. \A f \in Sent : f \in Names /\ (f < peer.file \/ f = peer.file)
          BY <4>1, FileLengths DEF Sent, Names
        <4>3. \A f \in Sent : Settled(f)
          BY <2>1, <3>1, <3>7, <4>2 DEF FilesDone
        <4>4. \A f \in Sent' : Settled(f)'
          BY <2>2, <2>3, <3>7, <4>3
        <4>5. k'.status = "done"
          BY <3>4, <3>7
        <4> QED
          BY <4>4, <4>5 DEF FilesDone, Running
      <3>8. CASE /\ p.t = "Z" /\ k.state = "R_DATA" /\ iofaults = 0
                 /\ AcksWith("R_FILE", "run", k.file, k.pos + Len(k.obuf), <<>>)
                 /\ Replaced(AfterClose(WriteAt(k.file, k.pos, k.obuf), p.d))
        <4>1. PICK g : g = k.file
          OBVIOUS
        <4>2. g = peer.file /\ Settled(g)'
          BY <2>1, <2>6, <3>8, <4>1, EndTaken
        <4>3. \A f \in Names : f < peer.file => disk'[f] = disk[f]
          BY <1>1, <3>8, <4>1, <4>2, FileLengths DEF Replaced, Types, DeviceTypes
        <4>4. k'.status = "run"
          BY <3>4, <3>8
        <4>5. \A f \in Names : f < peer.file => Settled(f)'
          BY <2>3, <3>5, <3>8, <4>3
        <4> QED
          BY <2>1, <4>2, <4>4, <4>5 DEF FilesDone
      <3>9. CASE /\ \/ AcksWith("R_FILE", "run", k.file, k.pos, k.obuf) /\ p.t = "S"
                    \/ AcksWith("R_ATTR", "run", p.d[1], k.pos, k.obuf) /\ p.t = "F"
                    \/ AcksWith("R_ATTR", "run", k.file, k.pos, k.obuf) /\ p.t = "A"
                 /\ disk' = disk /\ iofaults = 0
        BY <3>1, <3>4, <3>6, <3>9
      <3>10. ASSUME p.t = "D", k.state \in {"R_ATTR", "R_DATA"}, iofaults = 0,
                    NEW pos \in Nat, NEW units \in Seq(Nat),
                    k.state = "R_ATTR" => pos = 0 /\ units = p.d,
                    k.state = "R_DATA" => pos = k.pos /\ units = k.obuf \o p.d,
                    AcksWith("R_DATA", "run", k.file, pos + Len(Full(units)), Rest(units)),
                    Replaced(WriteAt(k.file, pos, Full(units)))
             PROVE  FilesDone'
        <4>1. k.file = peer.file
          BY <2>6, <3>10, DataGoOn
        <4> QED
          BY <3>1, <3>4, <3>6, <3>10, <4>1
      <3>11. ~AcksWith("R_FILE", "failed", k.file, k.pos, k.obuf)
        BY <2>6 DEF AcksWith
      <3>12. CASE DataTakes(p)
        <4>1. PICK pos \in Nat, units \in Seq(Nat) :
                  /\ k.state = "R_ATTR" => pos = 0 /\ units = p.d
                  /\ k.state = "R_DATA" => pos = k.pos /\ units = k.obuf \o p.d
                  /\ AcksWith("R_DATA", "run", k.file, pos + Len(Full(units)), Rest(units))
                  /\ Replaced(WriteAt(k.file, pos, Full(units)))
          BY <3>12 DEF DataTakes
        <4> QED
          BY <2>6, <3>2, <3>10, <3>12, <4>1 DEF DataTakes
      <3>13. EndTakes(p) => FilesDone'
        BY <3>2, <3>8 DEF EndTakes
      <3>14. ~DataFails(p) /\ ~EndFails(p)
        BY <3>3 DEF DataFails, EndFails
      <3> QED
        BY <2>6, <3>2, <3>3, <3>7, <3>9, <3>11, <3>12, <3>13, <3>14 DEF ReceiveStep
    <2>7. iofaults' # 0 => FilesDone'
      BY DEF FilesDone
    <2>8. k.what = "send" => k'.what = "send"
      BY <2>1 DEF Types, PeerTypes
    <2>9. NoSlot => k'.status = "failed"
      BY <1>1 DEF NoSlot, Stops, Failed, Protocols
    <2> QED
      BY <1>2, <2>4, <2>5, <2>6, <2>7, <2>8, <2>9, DeviceSteps DEF Acked
  <1>3. CASE Running /\ Stops("user")
    <2>1. k'.status = "failed"
      BY <1>1, <1>3 DEF Stops, Failed, Protocols
    <2> QED
      BY <2>1 DEF FilesDone, Running
  <1>4. ASSUME k' = k, disk' = disk, keep' = keep, iofaults' = iofaults,
               peer'.sending = peer.sending, peer'.file = peer.file, peer'.says = peer.says
        PROVE  FilesDone'
    <2>1. \A f : Settled(f) => Settled(f)'
      BY <1>4, SettledStays
    <2>2. Sent' = Sent /\ Ahead' = Ahead /\ Running' = Running
      BY <1>4 DEF Sent, Ahead, Running
    <2> QED
      BY <1>4, <2>1, <2>2 DEF FilesDone
  <1>5. CASE UNCHANGED vars
    BY <1>4, <1>5 DEF vars, device
  <1>6. CASE Outside /\ k.what = "recv"
    <2>1. k' = k /\ disk' = disk /\ keep' = keep /\ iofaults' = iofaults
      BY <1>6 DEF Outside, device
    <2>2. CASE PeerStays
      BY <1>4, <2>1, <2>2 DEF PeerStays
    <2>3. ASSUME peer' = Following, peer.says.t # "B", SamePeer(Following), Ahead, ~Ahead',
                 peer.role = "send"
          PROVE  FilesDone'
      <3>1. peer'.sending = peer.sending
        BY <2>3 DEF SamePeer
      <3>2. \A f : Settled(f) => Settled(f)'
        BY <2>1, <3>1, SettledStays
      <3>3. Sent' = Sent
        BY <3>1 DEF Sent
      <3>4. /\ peer.file \in Nat /\ (peer.file = 0 \/ peer.file \in Names) /\ 0 \notin Names
            /\ peer.says.t \in {"S", "I"} => peer.file = 0
            /\ peer.sending.files \in Names
        BY <1>1, <2>3, FileLengths DEF PeerState, PeerTypes, Peers
      <3>5. \/ /\ peer.says.t \in {"S", "I", "Z"} /\ peer'.file = peer.file + 1
               /\ peer'.says.t = "F"
            \/ peer.says.t = "Z" /\ peer'.file = peer.file /\ peer'.says.t = "B"
            \/ peer'.file = peer.file /\ peer'.says.t \in {"A", "D", "Z"}
        <4>1. peer.says.t \in {"S", "I"} => peer.file < peer.sending.files
          BY <3>4, FileLengths
        <4> QED
          BY <1>1, <2>3, <4>1, FollowingIs DEF GoesOn
      <3>6. ASSUME NEW f \in Names,
                   \/ f < peer'.file
                   \/ f = peer'.file /\ (peer'.says.t = "B" \/ (peer'.says.t = "Z" /\ Ahead'))
            PROVE  f < peer.file \/ (f = peer.file /\ peer.says.t = "Z" /\ Ahead)
        BY <2>3, <3>4, <3>5, <3>6, FileLengths
      <3>7. Running' = Running
        BY <2>1 DEF Running
      <3> QED
        BY <2>1, <3>2, <3>3, <3>6, <3>7 DEF FilesDone
    <2>4. CASE peer.role # "send"
      <3>1. peer.role = "none"
        BY <1>1, <1>6, <2>4 DEF PeerTypes, Peers
      <3>2. k.status = "idle"
        BY <1>1, <3>1 DEF PeerTypes
      <3> QED
        BY <2>1, <3>2 DEF FilesDone, Running
    <2> QED
      BY <1>6, <2>2, <2>3, <2>4, SenderMoves
  <1>7. CASE Outside /\ k.what # "recv"
    BY <1>7 DEF Outside, device, FilesDone
  <1> QED
    BY <1>2, <1>3, <1>5, <1>6, <1>7, Steps

\* What a device that sends says is over is over.
SendEnds ==
    k.what = "send" =>
        /\ k.status = "done" => peer.status = "done"
        /\ Running /\ k.state = "S_EOT" /\ Taken => peer.status = "done"

\* SendEnds is kept by every step, whatever has been altered.
LEMMA NextSendEnds ==
    ASSUME Types, Types', Lines, StateSays, SendEnds, [Next]_vars
    PROVE  SendEnds'
  <1>1. /\ k \in Protocols /\ (k.what = "send" <=> peer.role = "recv")
        /\ peer.role \in {"none", "send", "recv"}
    BY DEF Types, DeviceTypes, PeerTypes, Peers
  <1>2. ASSUME k'.status = "failed" PROVE SendEnds'
    BY <1>2 DEF SendEnds, Running
  <1>3. \A why : Failed(why).status = "failed"
    BY <1>1 DEF Failed, Protocols
  <1>4. CASE Device
    <2>1. peer' = peer /\ Running
      BY <1>4, DeviceSteps
    <2>2. (k.what = "send") <=> (k'.what = "send")
      BY <2>1 DEF Types, PeerTypes
    <2>3. CASE k.what # "send"
      BY <2>2, <2>3 DEF SendEnds
    <2>4. CASE k' = k
      BY <2>1, <2>4 DEF SendEnds, Running, Taken
    <2>5. Stays /\ k.what = "send" => k' = k \/ k'.status = "failed"
      BY DEF Stays
    <2>6. ASSUME NEW p, Reads(p), Acked(p), SendStep(p) PROVE SendEnds'
      <3>1. \A q, st, f, pos : SendsOn(q, st, f, pos) => ~Taken' /\ k'.status = "run"
        BY <1>4, <2>6, DeviceLines DEF SendsOn, Acked
      <3>2. CASE \E q, st, f, pos : SendsOn(q, st, f, pos)
        BY <3>1, <3>2 DEF SendEnds
      <3>3. CASE k' = Failed("io")
        BY <1>2, <1>3, <3>3
      <3>4. CASE k.state = "S_EOT" /\ k' = [k EXCEPT !.status = "done"]
        <4>1. Taken /\ k.what = "send"
          BY <2>6, AnswerIsLast DEF Taken, Acked
        <4>2. peer.status = "done"
          BY <2>1, <3>4, <4>1 DEF SendEnds
        <4> QED
          BY <2>1, <4>2 DEF SendEnds
      <3> QED
        BY <2>6, <3>2, <3>3, <3>4 DEF SendStep
    <2>7. NoSlot => k'.status = "failed"
      BY <1>3 DEF NoSlot, Stops
    <2>8. ~(k.what = "send" /\ \E p : Received(p))
      BY DEF Received
    <2> QED
      BY <1>2, <1>4, <2>3, <2>4, <2>5, <2>6, <2>7, <2>8, DeviceSteps
  <1>5. CASE Running /\ Stops("user")
    BY <1>2, <1>3, <1>5 DEF Stops
  <1>6. CASE Starts
    <2>1. k'.status = "run" /\ k'.state # "S_EOT"
      BY <1>6, StartIs DEF Starts, StartsReceive, StartsSend
    <2> QED
      BY <2>1 DEF SendEnds
  <1>7. CASE Outside /\ k.what = "send"
    <2>1. k' = k /\ peer.role = "recv"
      BY <1>1, <1>7 DEF Outside, device
    <2>2. CASE PeerStays
      BY <2>1, <2>2 DEF PeerStays, PeerRunning, SendEnds, Running, Taken
    <2>3. ASSUME NEW p, NEW reply, Takes(p, reply), p = Head(toPeer), toPeer # <<>>
          PROVE  SendEnds'
      <3>1. PeerRunning /\ peer'.status = (IF p.t = "B" THEN "done" ELSE "run")
        BY <2>3 DEF Takes
      <3>2. Running => k.opkt[1] = p
        BY <2>3, TakenIsLast
      <3>3. Running /\ k.state = "S_EOT" => p.t = "B"
        BY <1>7, <3>2 DEF StateSays, Said
      <3>4. k.status # "done"
        BY <1>7, <3>1 DEF SendEnds, PeerRunning
      <3> QED
        BY <2>1, <3>1, <3>3, <3>4 DEF SendEnds, Running
    <2>4. ~PeerSendsOn
      BY <2>1 DEF PeerSendsOn
    <2>5. Carries(toPeer, IF peer.role = "send" THEN Answers \cup {"E"} ELSE Says \cup {"E"})
      BY <1>7, <2>1 DEF Lines, SendLines
    <2> QED
      BY <1>7, <2>1, <2>2, <2>3, <2>4, <2>5, OutsideSteps
  <1>8. CASE Outside /\ k.what # "send"
    BY <1>8 DEF Outside, device, SendEnds
  <1>9. CASE UNCHANGED vars
    BY <1>9 DEF vars, device, SendEnds, Running, Taken
  <1> QED
    BY <1>4, <1>5, <1>6, <1>7, <1>8, <1>9, Steps

\* What holds of the files of a session as long as the device has not altered one.
Faithful == GotWell /\ DataFits /\ SendFiles /\ RecvState /\ Copies /\ FilesDone

\* A session starts with it, whatever the one before has left.
LEMMA StartFiles ==
    ASSUME Types, Types', Starts
    PROVE  Faithful'
  <1>1. GotWell' /\ DataFits' /\ SendFiles'
    <2>1. peer'.got = [f \in Names |-> <<>>]
      BY StartIs DEF Starts, StartsReceive, StartsSend
    <2>2. Len(<<>>) = 0 /\ \A i \in 1 .. 0 : FALSE
      OBVIOUS
    <2>3. \A f \in Names : peer'.got[f] = <<>> /\ 0 <= Length[f]
      BY <2>1, FileLengths
    <2>4. GotWell'
      BY <2>2, <2>3 DEF GotWell
    <2>5. ASSUME NEW r \in Receivings, StartsSend(r) PROVE DataFits' /\ SendFiles'
      <3>1. PICK p : p = Packet("S", 0, <<>>) /\ p.t = "S"
        <4>1. Packet("S", 0, <<>>).t = "S"
          BY DEF Packet
        <4> QED
          BY <4>1
      <3>2. /\ k'.opkt = <<p>> /\ k'.opkt[1] = p /\ k'.state = "S_INIT" /\ k'.file = 0
            /\ k'.status = "run" /\ toPeer' = <<p>> /\ peer'.last = <<>>
        BY <2>5, <3>1 DEF StartsSend
      <3>3. \A f, got : Fits(p, f, got)
        BY <3>1 DEF Fits
      <3>4. \A i \in 1 .. Len(<<p>>) : <<p>>[i] = p
        OBVIOUS
      <3>5. DataFits'
        BY <3>2, <3>3, <3>4 DEF DataFits, FitIn
      <3>6. \A f \in Names : ~(f < 0) /\ f # 0
        BY FileLengths
      <3>7. SendState'
        BY <2>3, <3>2, <3>6 DEF SendState
      <3> QED
        BY <3>2, <3>5, <3>7 DEF SendFiles
    <2>6. ASSUME NEW s \in Sendings, StartsReceive(s) PROVE DataFits' /\ SendFiles'
      BY <2>6 DEF StartsReceive, DataFits, SendFiles
    <2> QED
      BY <2>4, <2>5, <2>6, StartIs DEF Starts
  <1>2. RecvState'
    <2>1. ASSUME NEW s \in Sendings, StartsReceive(s)
          PROVE  RecvState'
      <3>1. s.first \in {"S", "I"}
        BY ConstAssumption
      <3>2. /\ peer'.says.t = s.first /\ peer'.says.seq = 0 /\ k'.r_seq = 0
            /\ k'.state = "R_WAIT"
        BY <2>1, <3>1, Beginnings DEF StartsReceive
      <3>3. ~Ahead'
        BY <3>2 DEF Ahead
      <3> QED
        BY <3>1, <3>2, <3>3 DEF RecvState
    <2>2. ASSUME NEW r \in Receivings, StartsSend(r)
          PROVE  RecvState'
      BY <2>2 DEF StartsSend, RecvState
    <2> QED
      BY <2>1, <2>2, StartIs DEF Starts
  <1>3. Copies'
    <2>1. disk' = [f \in Names |-> Aged(disk[f])] /\ k'.state # "R_DATA"
      <3>1. PICK o \in Sendings \cup Receivings : Start(o)
        BY DEF Starts, StartReceive, StartSend
      <3> QED
        BY <3>1, StartIs DEF Start, Starts, StartsReceive, StartsSend
    <2>2. ASSUME NEW f \in Names, disk'[f] # NoFile PROVE Mixed(disk'[f], Length[f])
      <3>1. disk[f] \in {NoFile} \cup Seq(Nat) /\ disk'[f] = Aged(disk[f])
        BY <2>1 DEF Types, DeviceTypes
      <3> QED
        BY <2>2, <3>1, AgedIs DEF Mixed
    <2> QED
      BY <2>1, <2>2 DEF Copies
  <1>4. FilesDone'
    <2>1. k'.status = "run" /\ peer'.file = 0 /\ \A f \in Names : ~(f < 0) /\ f # 0
      BY StartIs, FileLengths DEF Starts, StartsReceive, StartsSend
    <2> QED
      BY <2>1 DEF FilesDone
  <1> QED
    BY <1>1, <1>2, <1>3, <1>4 DEF Faithful

\* What holds of the files throughout.
FilesKept == PeerState /\ SendEnds /\ (altered \/ Faithful)

\* What holds of the files holds at the start.
LEMMA InitFiles ==
    ASSUME Init
    PROVE  FilesKept
  <1>1. /\ k.status = "idle" /\ k.what = "recv" /\ peer.role = "none"
        /\ peer.got = [f \in Names |-> <<>>] /\ disk = OldFile
    BY DEF Init, Protocol, NoPeer
  <1>2. Len(<<>>) = 0 /\ \A i \in 1 .. 0 : FALSE
    OBVIOUS
  <1>3. GotWell
    BY <1>1, <1>2, FileLengths DEF GotWell
  <1>4. ASSUME NEW f \in Names, OldFile[f] # NoFile PROVE Mixed(OldFile[f], Length[f])
    <2>1. OldFile[f] \in Seq({0})
      BY <1>4, ConstAssumption
    <2> QED
      BY <2>1 DEF Mixed
  <1>5. Copies
    BY <1>1, <1>4 DEF Copies, Running
  <1>6. DataFits /\ SendFiles /\ RecvState /\ FilesDone
    BY <1>1 DEF DataFits, SendFiles, RecvState, FilesDone, Running
  <1> QED
    BY <1>1, <1>3, <1>5, <1>6 DEF FilesKept, PeerState, SendEnds, Faithful

\* Every step keeps what holds of the files.
LEMMA NextFilesKept ==
    ASSUME Types, Types', Lines, StateSays, FilesKept, [Next]_vars
    PROVE  FilesKept'
  <1>1. PeerState' /\ SendEnds'
    BY NextPeerState, NextSendEnds DEF FilesKept
  <1>2. CASE Starts
    BY <1>1, <1>2, StartFiles DEF FilesKept
  <1>3. CASE ~Starts /\ ~altered'
    <2>1. Faithful /\ PeerState
      BY <1>3, Unaltered DEF FilesKept
    <2>2. GotWell' /\ DataFits' /\ SendFiles' /\ RecvState' /\ Copies' /\ FilesDone'
      BY <1>3, <2>1, NextFiles, NextRecvState, NextCopies, NextFilesDone DEF Faithful
    <2> QED
      BY <1>1, <2>2 DEF FilesKept, Faithful
  <1> QED
    BY <1>1, <1>2, <1>3 DEF FilesKept

\* The parts that the two theorems about the files need hold in every state.
LEMMA FilesAlways == Spec => [](Types /\ Lines /\ FilesKept)
  <1>1. Types /\ Lines /\ StateSays /\ FilesKept /\ [Next]_vars
        => (Types /\ Lines /\ StateSays /\ FilesKept)'
    BY NextTypes, NextLines, NextStateSays, NextFilesKept
  <1>2. Init => Types /\ Lines /\ StateSays /\ FilesKept
    BY InitTypes, InitKnown, InitFiles
  <1> QED
    BY <1>1, <1>2, PTL DEF Spec

\* What has been received of a file, written and in the buffer, is a prefix of it, at the
\* device and at the other Kermit.
THEOREM KeepsOrder == Spec => []InOrder
  <1>1. ASSUME Types, Copies, Running, k.state = "R_DATA"
        PROVE  LET taken == Piece(Content(k.file), 1, k.pos) \o k.obuf
               IN taken = Piece(Units(k.file), 1, Len(taken))
    <2>1. /\ k.file \in Names /\ disk \in [Names -> {NoFile} \cup Seq(Nat)]
          /\ k.pos \in Nat /\ k.obuf \in Seq(Nat)
      BY <1>1 DEF Types, DeviceTypes, Protocols
    <2>2. PICK old \in Seq(Nat), b \in Seq(Nat), pos \in Nat :
              old = Content(k.file) /\ b = k.obuf /\ pos = k.pos
      BY <1>1, <2>1, ContentIs
    <2>3. /\ pos <= Len(old) /\ \A i \in 1 .. pos : old[i] = i
          /\ \A i \in 1 .. Len(b) : b[i] = pos + i
      BY <1>1, <2>2 DEF Copies, Begins
    <2>4. pos + Len(b) <= Length[k.file]
      BY <1>1, <2>2 DEF Copies, InAll
    <2>5. PICK a \in Seq(Nat) : /\ a = Piece(old, 1, pos) /\ Len(a) = pos
                                /\ \A i \in 1 .. pos : a[i] = i
      <3>1. Piece(old, 1, pos) = SubSeq(old, 1, pos)
        BY <2>2, <2>3 DEF Piece
      <3>2. /\ SubSeq(old, 1, pos) \in Seq(Nat) /\ Len(SubSeq(old, 1, pos)) = pos
            /\ \A i \in 1 .. pos : SubSeq(old, 1, pos)[i] = old[i]
        BY <2>2, <2>3
      <3> QED
        BY <2>3, <3>1, <3>2
    <2>6. PICK n \in Nat : n = pos + Len(b) /\ n <= Length[k.file]
      BY <2>2, <2>4
    <2>7. PICK c \in Seq(Nat) : c = a \o b /\ Len(c) = n /\ \A i \in 1 .. n : c[i] = i
      <3>1. /\ a \o b \in Seq(Nat) /\ Len(a \o b) = Len(a) + Len(b)
            /\ \A i \in 1 .. Len(a) + Len(b) :
                  (a \o b)[i] = IF i <= Len(a) THEN a[i] ELSE b[i - Len(a)]
        BY ConcatProperties, Zenon
      <3>2. Len(a) + Len(b) = n
        BY <2>5, <2>6
      <3>3. ASSUME NEW i \in 1 .. n PROVE (a \o b)[i] = i
        <4>1. CASE i <= pos
          BY <2>5, <2>6, <3>1, <3>2, <4>1
        <4>2. CASE ~(i <= pos)
          <5>1. PICK j \in 1 .. Len(b) : j = i - pos
            <6>1. PICK m \in Nat : m = Len(b)
              BY <2>2
            <6>2. i - pos \in 1 .. m
              BY <2>6, <4>2, <6>1
            <6> QED
              BY <6>1, <6>2
          <5>2. b[j] = pos + j /\ pos + j = i
            BY <2>2, <2>3, <5>1
          <5>3. (a \o b)[i] = b[i - pos]
            BY <2>5, <3>1, <3>2, <4>2
          <5> QED
            BY <5>1, <5>2, <5>3
        <4> QED
          BY <4>1, <4>2
      <3> QED
        BY <3>1, <3>2, <3>3
    <2>8. PICK u : /\ u \in Seq(Nat) /\ Len(u) = Length[k.file] /\ u = Units(k.file)
                   /\ \A i \in 1 .. Length[k.file] : u[i] = i
      BY <2>1, UnitsAre, Zenon
    <2>9. n <= Len(u) /\ Piece(u, 1, n) = SubSeq(u, 1, n)
      BY <2>6, <2>8 DEF Piece
    <2>10. /\ SubSeq(u, 1, n) \in Seq(Nat) /\ Len(SubSeq(u, 1, n)) = n
           /\ \A i \in 1 .. n : SubSeq(u, 1, n)[i] = u[i]
      BY <2>6, <2>8, <2>9
    <2>11. \A i \in 1 .. n : u[i] = i
      BY <2>6, <2>8, <2>9
    <2>12. c = Piece(u, 1, Len(c))
      BY <2>7, <2>9, <2>10, <2>11, SeqEqual
    <2> QED
      BY <2>2, <2>5, <2>7, <2>8, <2>12
  <1>2. ASSUME Types, GotWell, NEW f \in Names PROVE IsPrefix(peer.got[f], Units(f))
    <2>1. PICK g \in Seq(Nat) : g = peer.got[f]
      BY <1>2 DEF Types, PeerTypes, Peers
    <2>2. PICK n \in Nat : n = Len(g)
      BY <2>1
    <2>3. n <= Length[f] /\ \A i \in 1 .. n : g[i] = i
      BY <1>2, <2>1, <2>2 DEF GotWell
    <2>4. PICK u : /\ u \in Seq(Nat) /\ Len(u) = Length[f] /\ u = Units(f)
                   /\ \A i \in 1 .. Length[f] : u[i] = i
      BY UnitsAre, Zenon
    <2>5. n <= Len(u) /\ \A i \in 1 .. n : u[i] = i
      BY <2>3, <2>4, FileLengths
    <2>6. /\ SubSeq(u, 1, n) \in Seq(Nat) /\ Len(SubSeq(u, 1, n)) = n
          /\ \A i \in 1 .. n : SubSeq(u, 1, n)[i] = u[i]
      BY <2>2, <2>4, <2>5
    <2>7. /\ SubSeq(g, 1, n) \in Seq(Nat) /\ Len(SubSeq(g, 1, n)) = n
          /\ \A i \in 1 .. n : SubSeq(g, 1, n)[i] = g[i]
      BY <2>1, <2>2
    <2>8. SubSeq(g, 1, n) = SubSeq(u, 1, n)
      BY <2>3, <2>5, <2>6, <2>7, SeqEqual
    <2> QED
      BY <2>1, <2>2, <2>4, <2>5, <2>8 DEF IsPrefix
  <1>3. Types => TypeOK
    BY DEF Types, DeviceTypes, Protocols, SlotTables, Numbers, TypeOK
  <1>4. Types /\ FilesKept => InOrder
    BY <1>1, <1>2, <1>3 DEF FilesKept, Faithful, InOrder
  <1> QED
    BY <1>4, FilesAlways, PTL

-----------------------------------------------------------------------------
(* Neither end is left alone                                               *)

\* A device that runs has not told the other Kermit of an error, and has said B if that
\* has finished.
NoWord ==
    Running =>
        /\ Carries(toPeer, Says \cup Answers) /\ peer.status # "failed"
        /\ peer.role = "recv" /\ peer.status = "done" => k.state = "S_EOT"

\* The other Kermit fails only by an error packet.
LEMMA OutsideFails ==
    ASSUME Types, Outside, peer'.status = "failed"
    PROVE  peer.status = "failed" \/ (toPeer # <<>> /\ Head(toPeer).t = "E")
  <1>1. /\ peer \in Peers /\ PeerTypes /\ toPeer \in Seq(Packets)
    BY DEF Types, PeerTypes, LineTypes
  <1>2. /\ \A st : [peer EXCEPT !.status = st].status = st
        /\ [peer EXCEPT !.waits = @ + 1].status = peer.status
    BY <1>1 DEF Peers
  <1>3. CASE toPeer # <<>> /\ PeerReadsNext(Head(toPeer))
    <2>1. PICK p \in Packets : p = Head(toPeer) /\ PeerReadsNext(p)
      BY <1>1, <1>3, LineOps
    <2>2. CASE PeerNext(p)
      <3>1. peer.role = "send" /\ PeerRunning /\ (peer' = Following \/ peer'.status = "done")
            /\ (peer' = Following => peer.says.t # "B" \/ peer'.status = "done")
        BY <1>2, <2>2 DEF PeerNext, PeerReads, PeerSays
      <3> QED
        BY <1>1, <3>1, FollowingIs DEF SamePeer
    <2>3. CASE PeerTakes(p)
      BY <1>1, <2>3, PeerTakesIs DEF Takes
    <2>4. CASE PeerStops(p)
      BY <1>3, <2>1, <2>4 DEF PeerStops
    <2>5. CASE PeerAgain(p) \/ PeerRepeats(p) \/ PeerIgnores(p)
      <3>1. peer' = peer
        BY <2>5 DEF PeerAgain, PeerRepeats, PeerIgnores, PeerSays
      <3> QED
        BY <3>1
    <2> QED
      BY <2>1, <2>2, <2>3, <2>4, <2>5 DEF PeerReadsNext
  <1>4. CASE PeerRepeatsItself \/ PeerAborts
    BY <1>2, <1>4 DEF PeerRepeatsItself, PeerAborts, PeerSays
  <1>5. CASE Lose \/ (\E kind \in Damages : Damage(kind)) \/ Loopback \/ Discard \/ ReadsOn
    <2>1. peer' = peer
      BY <1>5 DEF Lose, Damage, Loopback, Discard, ReadsOn, Swallow
    <2> QED
      BY <2>1
  <1> QED
    BY <1>3, <1>4, <1>5 DEF Outside

\* The device adds to the line what it says as long as it runs.
LEMMA DeviceNoWord ==
    ASSUME Types, Types', Lines, NoWord, Device, Running'
    PROVE  NoWord'
  <1>1. /\ k \in Protocols /\ toPeer \in Seq(Packets) /\ Running /\ peer' = peer
        /\ (k.what = "recv" => peer.role = "send") /\ (k.what = "send" => k.opkt # <<>>)
    BY DeviceSteps DEF Types, DeviceTypes, PeerTypes, LineTypes, Peers, Protocols, Running
  <1>2. /\ Carries(toPeer, Says \cup Answers) /\ peer.status # "failed"
        /\ peer.role = "recv" /\ peer.status = "done" => k.state = "S_EOT"
    BY <1>1 DEF NoWord
  <1>3. \A q \in Packets : q.t \in Says \cup Answers /\ toPeer' = Append(toPeer, q)
            => Carries(toPeer', Says \cup Answers)
    BY <1>1, <1>2, Carried
  <1>4. \A why : Failed(why).status = "failed" /\ [k EXCEPT !.status = "done"].status = "done"
    BY <1>1 DEF Failed, Protocols
  <1>5. ~NoSlot
    BY <1>4 DEF NoSlot, Stops, Running
  <1>6. ASSUME NEW p, Reads(p), Stays PROVE NoWord'
    <2>1. k'.state = k.state /\ k'.what = k.what
      BY <1>6 DEF Stays
    <2>2. CASE toPeer' = toPeer
      BY <1>1, <1>2, <2>1, <2>2 DEF NoWord
    <2>3. CASE \E q \in Packets : q.t = "N" /\ toPeer' = Append(toPeer, q)
      BY <1>1, <1>2, <1>3, <2>1, <2>3 DEF NoWord, Answers
    <2>4. CASE toPeer' = toPeer \o k.opkt
      <3>1. CASE k.opkt = <<>>
        <4>1. toPeer' = toPeer
          BY <1>1, <2>4, <3>1
        <4> QED
          BY <2>2, <4>1
      <3>2. CASE k.opkt # <<>>
        <4>1. k.opkt[1] \in Packets /\ toPeer' = Append(toPeer, k.opkt[1])
          BY <2>4, <3>2, LastPacket, Zenon
        <4>2. k.opkt[1].t \in Says \cup Answers
          BY <1>1, <3>2 DEF Lines, SendLines, RecvLines, Types, DeviceTypes, Protocols
        <4> QED
          BY <1>1, <1>2, <1>3, <2>1, <4>1, <4>2 DEF NoWord
      <3> QED
        BY <3>1, <3>2
    <2> QED
      BY <1>6, <2>2, <2>3, <2>4 DEF Stays, Running
  <1>7. ASSUME NEW p, Reads(p), Acked(p), SendStep(p) PROVE NoWord'
    <2>1. \A q, st, f, pos : SendsOn(q, st, f, pos) /\ q.t \in Says /\ k.state # "S_EOT"
                => NoWord'
      BY <1>1, <1>2, <1>3 DEF SendsOn, NoWord
    <2> QED
      BY <1>4, <1>7, <2>1 DEF SendStep, Says, Running
  <1>8. ASSUME NEW p, Reads(p), Received(p), ReceiveStep(p) PROVE NoWord'
    <2>1. \E q \in Packets : q.t = "Y" /\ toPeer' = Append(toPeer, q)
      BY <1>8
         DEF ReceiveStep, DataTakes, DataFails, EndTakes, EndFails, AcksWith, FailsAloud, Running
    <2>2. peer.role = "send"
      BY <1>1, <1>8 DEF Received
    <2> QED
      BY <1>1, <1>2, <1>3, <2>1, <2>2 DEF NoWord, Answers
  <1> QED
    BY <1>5, <1>6, <1>7, <1>8, DeviceSteps

\* NoWord is kept by every step.
LEMMA NextNoWord ==
    ASSUME Types, Types', Lines, StateSays, NoWord, [Next]_vars
    PROVE  NoWord'
  <1> SUFFICES ASSUME Running' PROVE NoWord'
    BY DEF NoWord
  <1>1. /\ k \in Protocols /\ toPeer \in Seq(Packets)
        /\ (k.what = "send" <=> peer.role = "recv") /\ peer.role \in {"none", "send", "recv"}
    BY DEF Types, DeviceTypes, PeerTypes, LineTypes, Peers
  <1>2. CASE Device
    BY <1>2, DeviceNoWord
  <1>3. CASE Running /\ Stops("user")
    BY <1>1, <1>3 DEF Stops, Failed, Protocols, Running
  <1>4. CASE Starts
    <2>1. peer'.status = "run" /\ (toPeer' = <<>> \/ toPeer' = <<Packet("S", 0, <<>>)>>)
      BY <1>4, StartIs DEF Starts, StartsReceive, StartsSend
    <2>2. Packet("S", 0, <<>>).t = "S"
      BY DEF Packet
    <2>3. \A o : Len(<<o>>) = 1 /\ <<o>>[1] = o /\ Len(<<>>) = 0
      OBVIOUS
    <2>4. Carries(toPeer', Says \cup Answers)
      BY <2>1, <2>2, <2>3 DEF Carries, Says
    <2> QED
      BY <2>1, <2>4 DEF NoWord
  <1>5. CASE Outside
    <2>1. k' = k /\ Running
      BY <1>5 DEF Outside, device, Running
    <2>2. /\ Carries(toPeer, Says \cup Answers) /\ peer.status # "failed"
          /\ peer.role = "recv" /\ peer.status = "done" => k.state = "S_EOT"
      BY <2>1 DEF NoWord
    <2>3. toPeer # <<>> => /\ Carries(Tail(toPeer), Says \cup Answers)
                           /\ Head(toPeer).t \in Says \cup Answers
      BY <1>1, <2>2, Carried
    <2>4. peer'.status # "failed"
      BY <1>5, <2>2, <2>3, OutsideFails DEF Says, Answers
    <2>5. \/ peer.role = "none"
          \/ Carries(toPeer, IF peer.role = "send" THEN Answers \cup {"E"} ELSE Says \cup {"E"})
      BY <1>1 DEF Lines, SendLines, RecvLines
    <2>6. CASE PeerSendsOn
      <3>1. /\ toPeer # <<>> /\ toPeer' = Tail(toPeer) /\ PeerRunning /\ peer' = Following
            /\ peer.role = "send" /\ peer.says.t # "B"
        BY <2>6 DEF PeerSendsOn
      <3>2. SamePeer(Following)
        BY <3>1, FollowingIs DEF Types
      <3> QED
        BY <2>3, <2>4, <3>1, <3>2 DEF NoWord, SamePeer
    <2>7. CASE toPeer # <<>> /\ toPeer' = Tail(toPeer)
               /\ \E reply \in Packets : Takes(Head(toPeer), reply)
      <3>1. PICK p, reply : p = Head(toPeer) /\ Takes(p, reply)
        BY <2>7
      <3>2. k.opkt[1] = p /\ k.what = "send"
        BY <2>1, <2>7, <3>1, TakenIsLast
      <3>3. peer'.status = "done" => k.state = "S_EOT"
        BY <2>1, <3>1, <3>2 DEF Takes, StateSays, Said
      <3> QED
        BY <2>1, <2>3, <2>4, <2>7, <3>3 DEF NoWord
    <2>8. CASE PeerStays /\ LinesLose
      <3>1. Carries(toPeer', Says \cup Answers)
        BY <2>2, <2>8 DEF LinesLose
      <3>2. peer'.role = "recv" /\ peer'.status = "done" => k.state = "S_EOT"
        BY <2>2, <2>8 DEF PeerStays
      <3> QED
        BY <2>1, <2>4, <3>1, <3>2 DEF NoWord
    <2> QED
      BY <1>5, <2>5, <2>6, <2>7, <2>8, OutsideSteps
  <1>6. CASE UNCHANGED vars
    BY <1>6 DEF NoWord, Running, vars, device
  <1> QED
    BY <1>2, <1>3, <1>4, <1>5, <1>6, Steps

\* When a session is over with success, the files are complete where they have been sent to,
\* and neither end takes a session for finished that the other has not finished or leaves
\* the other one alone.
THEOREM EndsWhole == Spec => []WholeAtEnd
  <1>1. ASSUME FilesDone, k.status = "done", k.what = "recv", iofaults = 0
        PROVE  /\ \A f \in Sent \ GivenUp : Whole(f)
               /\ \A f \in GivenUp : keep \/ disk[f] = NoFile
    BY <1>1 DEF FilesDone, Settled, GivenUp
  <1>2. ASSUME Types, GotWell, SendFiles, k.status = "done", k.what = "send"
        PROVE  \A f \in Names \ peer.cancelled : peer.got[f] = Units(f)
    <2>1. \A f \in Names : Complete(f)
      BY <1>2 DEF SendFiles
    <2>2. ASSUME NEW f \in Names, f \notin peer.cancelled PROVE peer.got[f] = Units(f)
      <3>1. PICK g \in Seq(Nat) : g = peer.got[f]
        BY <1>2 DEF Types, PeerTypes, Peers
      <3>2. Len(g) = Length[f] /\ \A i \in 1 .. Len(g) : g[i] = i
        BY <1>2, <2>1, <2>2, <3>1 DEF GotWell, Complete
      <3>3. PICK u : /\ u \in Seq(Nat) /\ Len(u) = Length[f] /\ u = Units(f)
                     /\ \A i \in 1 .. Length[f] : u[i] = i
        BY UnitsAre, Zenon
      <3>4. g = u
        BY <3>1, <3>2, <3>3, SeqEqual
      <3> QED
        BY <3>1, <3>3, <3>4
    <2> QED
      BY <2>2
  <1>3. ASSUME Types, Lines, NoWord, Running
        PROVE  \/ PeerRunning \/ peer.status \in {"gaveup", "aborted"}
               \/ k.state = "S_EOT" /\ peer.status = "done"
    <2>1. /\ peer.status \in {"run", "done", "failed", "gaveup", "aborted"}
          /\ peer.role \in {"send", "recv"}
      BY <1>3 DEF Types, PeerTypes, Peers, Running
    <2>2. peer.status # "failed" /\ (peer.status = "done" => peer.role = "recv")
      BY <1>3, <2>1 DEF NoWord, Lines, RecvLines, Running
    <2> QED
      BY <1>3, <2>1, <2>2 DEF NoWord, PeerRunning
  <1>4. Types /\ Lines /\ NoWord /\ FilesKept => WholeAtEnd
    BY <1>1, <1>2, <1>3 DEF FilesKept, Faithful, SendEnds, Lines, RecvLines, WholeAtEnd
  <1>5. Types /\ Lines /\ StateSays /\ NoWord /\ [Next]_vars
        => (Types /\ Lines /\ StateSays /\ NoWord)'
    BY NextTypes, NextLines, NextStateSays, NextNoWord
  <1>6. Init => Types /\ Lines /\ StateSays /\ NoWord
    <2>1. Init => ~Running
      BY DEF Init, Protocol, Running
    <2> QED
      BY <2>1, InitTypes, InitKnown DEF NoWord
  <1> QED
    BY <1>4, <1>5, <1>6, FilesAlways, PTL DEF Spec

=============================================================================
