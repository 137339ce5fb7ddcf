--------------------------- MODULE MurataDfuProofs ---------------------------
(***************************************************************************)
(* Proofs about the library that updates the modem (MurataDfu): the modem  *)
(* is told to install nothing but the image whose size and CRC were        *)
(* announced to it, and an update is an image transfer.  Both need to know *)
(* where the chunk loop stands: as long as no failed read made it go on in *)
(* the middle, the number of the next chunk, the position in the file and  *)
(* the state agree.  Also when it did, the chunks that are left get fewer. *)
(***************************************************************************)
EXTENDS MurataDfu, SequenceTheorems, TLAPS

-----------------------------------------------------------------------------
(* The inductive invariant                                                 *)

\* What the library knows of the image that is open in each stage.
Stages ==
    /\ offset = DFU_CHUNK_SIZE * chunk_cnt
    /\ pc \in {"precheck", "measure", "header", "loop", "install"} => opened \in Images
    /\ pc \in {"header", "loop", "install"} => state # "initial"
    /\ pc \in {"precheck", "measure"} => state = "initial"
    /\ failing => pc = "measure"
    /\ pc = "install" => state = "done"
    /\ state = "initial" => fw_image_size = 0 /\ fpos = 0 /\ chunk_cnt = 0
    /\ state # "initial" => opened \in Images /\ fw_image_size = Size[opened]
    /\ fpos <= fw_image_size

\* The session in the modem is about the image that is open, unless its
\* announcement or a piece of it was lost.
OwnSession ==
    LET s == modem.session IN
    /\ state # "initial" /\ ~lost => s.announced = opened
    /\ pc \in {"loop", "install"} /\ ~lost =>
           /\ s.header = opened
           /\ \A i \in 1 .. Len(s.recv) : s.recv[i].img = opened

\* A transfer the chunk loop is right for and that no failed read interrupted.
Straight == state # "initial" /\ Regular(opened) /\ ~resumed

\* The number of the chunk a straight transfer is at: none is sent before the
\* loop, and the state says whether the last one was.
Position ==
    Straight =>
        /\ pc \in {"idle", "header"} => chunk_cnt = 0 /\ state = "upgrade"
        /\ pc \in {"loop", "install"} =>
               /\ chunk_check = Chunks(fw_image_size)
               /\ remainder = fw_image_size % DFU_CHUNK_SIZE
               /\ chunk_cnt <= chunk_check
               /\ state = "done" <=> chunk_cnt = chunk_check
               /\ chunk_cnt < chunk_check => fpos = DFU_CHUNK_SIZE * chunk_cnt

\* Piece number i of a payload of n chunks, the last one with r bytes.
NthPiece(img, i, n, r) ==
    Piece(img, DFU_CHUNK_SIZE * (i - 1), IF i = n THEN r ELSE DFU_CHUNK_SIZE)

\* The modem has the pieces that were sent, each once and in order, and its
\* session is closed with the last one.
Content ==
    Straight /\ pc \in {"loop", "install"} /\ ~lost =>
        /\ modem.session.closed <=> state = "done"
        /\ Len(modem.session.recv) = chunk_cnt
        /\ \A i \in 1 .. chunk_cnt :
               modem.session.recv[i] = NthPiece(opened, i, chunk_check, remainder)

IInv == TypeOK /\ Stages /\ OwnSession /\ Position /\ Content

-----------------------------------------------------------------------------
(* Facts about images and pieces                                           *)

\* The size of an image fits 32 bits and is not (uint32_t)-1.
LEMMA ImageFact == ASSUME NEW img \in Images
                   PROVE  Size[img] \in Nat /\ Size[img] < MaxU32 /\ MaxU32 \in Nat
                          /\ Size[img] \in 0 .. MaxU32
  BY ConstAssumption

\* The number of chunks of a payload, and the bytes of its last chunk.
LEMMA ChunksFact ==
  ASSUME NEW n \in Nat
  PROVE  /\ Chunks(n) \in Nat /\ Chunks(n) <= n
         /\ n % DFU_CHUNK_SIZE \in 0 .. (DFU_CHUNK_SIZE - 1)
         /\ n % DFU_CHUNK_SIZE # 0 =>
                n = DFU_CHUNK_SIZE * (Chunks(n) - 1) + (n % DFU_CHUNK_SIZE)
         /\ n > DFU_CHUNK_SIZE /\ n % DFU_CHUNK_SIZE # 0 => Chunks(n) >= 2
  <1> DEFINE q == n \div DFU_CHUNK_SIZE
             r == n % DFU_CHUNK_SIZE
  <1>1. q \in Nat /\ r \in 0 .. 1023 /\ n = 1024 * q + r
    BY DEF DFU_CHUNK_SIZE
  <1>2. Chunks(n) = IF r = 0 THEN q ELSE q + 1
    BY DEF Chunks
  <1> HIDE DEF q, r
  <1>3. /\ Chunks(n) \in Nat /\ Chunks(n) <= n /\ r \in 0 .. (DFU_CHUNK_SIZE - 1)
        /\ r # 0 => n = DFU_CHUNK_SIZE * (Chunks(n) - 1) + r
        /\ n > DFU_CHUNK_SIZE /\ r # 0 => Chunks(n) >= 2
    BY <1>1, <1>2 DEF DFU_CHUNK_SIZE
  <1>4. QED
    BY <1>3, Zenon DEF r

\* What a straight transfer is about.
LEMMA StraightFact ==
  ASSUME IInv, Straight
  PROVE  /\ opened \in Images /\ fw_image_size = Size[opened]
         /\ fw_image_size \in Nat
         /\ fw_image_size > DFU_CHUNK_SIZE /\ fw_image_size % DFU_CHUNK_SIZE # 0
         /\ Chunks(fw_image_size) \in Nat /\ Chunks(fw_image_size) >= 2
         /\ fw_image_size % DFU_CHUNK_SIZE \in 1 .. (DFU_CHUNK_SIZE - 1)
         /\ fw_image_size = DFU_CHUNK_SIZE * (Chunks(fw_image_size) - 1)
                              + (fw_image_size % DFU_CHUNK_SIZE)
  <1>1. opened \in Images /\ fw_image_size = Size[opened]
    BY DEF IInv, Stages, Straight
  <1>2. fw_image_size \in Nat
    BY <1>1, ImageFact
  <1>3. fw_image_size > DFU_CHUNK_SIZE /\ fw_image_size % DFU_CHUNK_SIZE # 0
    BY <1>1 DEF Straight, Regular
  <1>4. /\ Chunks(fw_image_size) \in Nat /\ Chunks(fw_image_size) >= 2
        /\ fw_image_size % DFU_CHUNK_SIZE \in 0 .. (DFU_CHUNK_SIZE - 1)
        /\ fw_image_size = DFU_CHUNK_SIZE * (Chunks(fw_image_size) - 1)
                              + (fw_image_size % DFU_CHUNK_SIZE)
    BY <1>2, <1>3, ChunksFact
  <1>5. fw_image_size % DFU_CHUNK_SIZE \in 1 .. (DFU_CHUNK_SIZE - 1)
    BY <1>3, <1>4 DEF DFU_CHUNK_SIZE
  <1>6. QED
    BY <1>1, <1>2, <1>3, <1>4, <1>5

\* In the chunk loop of a straight transfer a turn sends the next piece of the
\* payload; the turn of the last chunk is the one the code takes for it.
LEMMA TurnFact ==
  ASSUME IInv, Straight, Turn
  PROVE  /\ chunk_cnt < chunk_check /\ chunk_check >= 2
         /\ chunk_check \in Nat /\ chunk_cnt \in Nat
         /\ IsLast <=> chunk_cnt + 1 = chunk_check
         /\ readsize = IF chunk_cnt + 1 = chunk_check THEN remainder ELSE DFU_CHUNK_SIZE
         /\ Piece(opened, fpos, readsize)
              = NthPiece(opened, chunk_cnt + 1, chunk_check, remainder)
         /\ ReadTo = IF chunk_cnt + 1 = chunk_check
                     THEN fw_image_size ELSE DFU_CHUNK_SIZE * (chunk_cnt + 1)
         /\ state = "upgrade"
  <1>1. /\ chunk_check = Chunks(fw_image_size)
        /\ remainder = fw_image_size % DFU_CHUNK_SIZE
        /\ chunk_cnt <= chunk_check
        /\ state = "done" <=> chunk_cnt = chunk_check
        /\ chunk_cnt < chunk_check => fpos = DFU_CHUNK_SIZE * chunk_cnt
        /\ offset = DFU_CHUNK_SIZE * chunk_cnt /\ offset <= fw_image_size
    BY DEF IInv, Position, Stages, Turn
  <1>2. /\ chunk_check >= 2 /\ remainder \in 1 .. 1023
        /\ fw_image_size = 1024 * (chunk_check - 1) + remainder
        /\ chunk_check \in Nat /\ fw_image_size \in Nat
    BY <1>1, StraightFact DEF DFU_CHUNK_SIZE
  <1>3. chunk_cnt \in Nat
    BY ConstAssumption DEF IInv, TypeOK
  <1>4. chunk_cnt < chunk_check
    BY <1>1, <1>2, <1>3 DEF DFU_CHUNK_SIZE
  <1>5. LastChunk = chunk_check - 1
    BY <1>2 DEF LastChunk
  <1>6. /\ IsLast <=> chunk_cnt + 1 = chunk_check
        /\ readsize = IF chunk_cnt + 1 = chunk_check THEN remainder ELSE DFU_CHUNK_SIZE
    BY <1>2, <1>3, <1>4, <1>5 DEF IsLast, readsize
  <1>7. fpos = DFU_CHUNK_SIZE * chunk_cnt
    BY <1>1, <1>4
  <1>8. Piece(opened, fpos, readsize)
          = NthPiece(opened, chunk_cnt + 1, chunk_check, remainder)
    <2>1. fpos = DFU_CHUNK_SIZE * (chunk_cnt + 1 - 1)
      BY <1>3, <1>7 DEF DFU_CHUNK_SIZE
    <2>2. QED
      BY <1>2, <1>3, <1>6, <2>1 DEF NthPiece, Piece
  <1>9. ReadTo = IF chunk_cnt + 1 = chunk_check
                 THEN fw_image_size ELSE DFU_CHUNK_SIZE * (chunk_cnt + 1)
    <2>1. CASE chunk_cnt + 1 = chunk_check
      <3>1. fpos + readsize = fw_image_size
        BY <1>2, <1>3, <1>6, <1>7, <2>1 DEF DFU_CHUNK_SIZE
      <3>2. QED
        BY <1>2, <2>1, <3>1 DEF ReadTo
    <2>2. CASE chunk_cnt + 1 # chunk_check
      <3>1. fpos + readsize = DFU_CHUNK_SIZE * (chunk_cnt + 1)
        BY <1>3, <1>6, <1>7, <2>2 DEF DFU_CHUNK_SIZE
      <3>2. DFU_CHUNK_SIZE * (chunk_cnt + 1) <= fw_image_size
        BY <1>2, <1>3, <1>4, <2>2 DEF DFU_CHUNK_SIZE
      <3>3. QED
        BY <1>2, <1>3, <2>2, <3>1, <3>2 DEF ReadTo, DFU_CHUNK_SIZE
    <2>3. QED
      BY <2>1, <2>2
  <1>10. state = "upgrade"
    <2>1. state # "done" /\ state # "initial"
      <3>1. chunk_cnt # chunk_check
        BY <1>2, <1>3, <1>4
      <3>2. QED
        BY <1>1, <3>1, Zenon DEF Straight
    <2>2. QED
      BY <2>1 DEF IInv, TypeOK
  <1>11. QED
    BY <1>2, <1>3, <1>4, <1>6, <1>8, <1>9, <1>10

\* When the chunk loop of a straight transfer ends, the last chunk was sent.
LEMMA LeaveFact ==
  ASSUME IInv, Straight, LeaveLoop
  PROVE  state = "done"
  <1>1. /\ chunk_check = Chunks(fw_image_size)
        /\ chunk_cnt <= chunk_check
        /\ state = "done" <=> chunk_cnt = chunk_check
        /\ offset = DFU_CHUNK_SIZE * chunk_cnt /\ offset > fw_image_size
    BY DEF IInv, Position, Stages, LeaveLoop
  <1>2. /\ fw_image_size % 1024 \in 1 .. 1023 /\ fw_image_size \in Nat
        /\ fw_image_size = 1024 * (chunk_check - 1) + (fw_image_size % 1024)
        /\ chunk_check \in Nat
    BY <1>1, StraightFact DEF DFU_CHUNK_SIZE
  <1>3. chunk_cnt \in Nat
    BY ConstAssumption DEF IInv, TypeOK
  <1>4. chunk_cnt >= chunk_check
    <2> DEFINE r == fw_image_size % 1024
    <2>1. r \in 1 .. 1023 /\ 1024 * chunk_cnt > 1024 * (chunk_check - 1) + r
      BY <1>1, <1>2 DEF DFU_CHUNK_SIZE
    <2> HIDE DEF r
    <2>2. QED
      BY <1>2, <1>3, <2>1
  <1>5. QED
    BY <1>1, <1>2, <1>3, <1>4

-----------------------------------------------------------------------------
(* The modem                                                               *)

ModemType == modem \in [version : Versions, session : Sessions]

\* A modem that took the header starts the payload over.
LEMMA HeaderTaken ==
  ASSUME IInv, SendHeader
  PROVE  /\ ModemType'
         /\ modem'.session.announced = modem.session.announced
         /\ modem'.session.header = opened /\ modem'.session.recv = <<>>
         /\ modem'.session.closed = FALSE
  <1>1. ModemType /\ opened \in Images
    BY DEF IInv, TypeOK, ModemType, Stages, SendHeader
  <1>2. modem' = [modem EXCEPT !.session.header = opened, !.session.recv = <<>>,
                               !.session.closed = FALSE]
    BY DEF SendHeader
  <1>3. <<>> \in Seq(Pieces)
    OBVIOUS
  <1>4. QED
    BY <1>1, <1>2, <1>3 DEF ModemType, Sessions

\* What is sent in a turn is a piece of the image.
LEMMA PieceType ==
  ASSUME IInv, Turn
  PROVE  /\ Piece(opened, fpos, readsize) \in Pieces
         /\ readsize \in 0 .. DFU_CHUNK_SIZE
  <1>1. opened \in Images
    BY DEF IInv, Stages, Turn
  <1>2. remainder \in 0 .. (DFU_CHUNK_SIZE - 1) /\ fpos \in 0 .. MaxU32
    BY DEF IInv, TypeOK
  <1>3. readsize \in 0 .. DFU_CHUNK_SIZE
    BY <1>2 DEF readsize, DFU_CHUNK_SIZE
  <1>4. QED
    BY <1>1, <1>2, <1>3 DEF Piece, Pieces

\* A piece is appended to the payload, or lost.
LEMMA PieceTaken ==
  ASSUME NEW last \in BOOLEAN, IInv, Turn, SendPiece(last)
  PROVE  /\ ModemType'
         /\ lost' \in BOOLEAN
         /\ lost => lost'
         /\ modem'.session.announced = modem.session.announced
         /\ modem'.session.header = modem.session.header
         /\ \/ lost'
            \/ /\ modem'.session.recv
                    = Append(modem.session.recv, Piece(opened, fpos, readsize))
               /\ modem'.session.closed = last
  <1>1. ModemType /\ lost \in BOOLEAN
    BY DEF IInv, TypeOK, ModemType
  <1>2. CASE UNCHANGED modem /\ lost' = TRUE
    BY <1>1, <1>2 DEF ModemType
  <1>3. CASE /\ modem' = [modem EXCEPT
                    !.session.recv = Append(@, Piece(opened, fpos, readsize)),
                    !.session.closed = last]
             /\ UNCHANGED lost
    <2>1. modem.session \in Sessions /\ modem.session.recv \in Seq(Pieces)
      BY <1>1 DEF ModemType, Sessions
    <2>2. Append(modem.session.recv, Piece(opened, fpos, readsize)) \in Seq(Pieces)
      BY <2>1, PieceType
    <2>3. QED
      BY <1>1, <1>3, <2>1, <2>2 DEF ModemType, Sessions
  <1>4. QED
    BY <1>2, <1>3 DEF SendPiece

-----------------------------------------------------------------------------
(* Invariance                                                              *)

Counters ==
    /\ fw_image_size \in 0 .. MaxU32 /\ remainder \in 0 .. (DFU_CHUNK_SIZE - 1)
    /\ chunk_check \in 0 .. MaxU32 /\ chunk_cnt \in 0 .. MaxU32
    /\ offset \in Nat /\ fpos \in 0 .. MaxU32

Labels ==
    /\ state \in {"initial", "upgrade", "done"}
    /\ opened \in Images \cup {None}
    /\ pc \in {"idle", "precheck", "measure", "header", "loop", "install"}
    /\ failing \in BOOLEAN /\ lost \in BOOLEAN /\ resumed \in BOOLEAN

\* The types in groups: the modem, the numbers, the rest.
LEMMA TypeParts == /\ TypeOK <=> ModemType /\ Counters /\ Labels
                   /\ TypeOK' <=> ModemType' /\ Counters' /\ Labels'
  BY DEF TypeOK, ModemType, Counters, Labels

\* A session that holds nothing is one.
LEMMA NoSessionType == /\ NoSession \in Sessions
                       /\ NoSession.announced = None
  <1>1. <<>> \in Seq(Pieces)
    OBVIOUS
  <1>2. QED
    BY <1>1 DEF NoSession, Sessions

\* The inductive invariant holds initially.
LEMMA InitInv == Init => IInv
  <1> SUFFICES ASSUME Init PROVE IInv
    OBVIOUS
  <1> USE DEF Init
  <1>1. ModemType
    BY NoSessionType DEF ModemType
  <1>2. Counters
    BY ConstAssumption DEF Counters, DFU_CHUNK_SIZE
  <1>3. Labels
    BY DEF Labels
  <1>4. Stages
    BY DEF Stages, DFU_CHUNK_SIZE
  <1>5. OwnSession /\ Position /\ Content
    BY DEF OwnSession, Position, Content, Straight
  <1>6. QED
    BY <1>1, <1>2, <1>3, <1>4, <1>5, TypeParts DEF IInv

\* A turn of the chunk loop leaves room for the next chunk number.
LEMMA TurnBound ==
  ASSUME IInv, Turn
  PROVE  /\ chunk_cnt \in Nat /\ chunk_cnt + 1 \in 0 .. MaxU32
         /\ offset + DFU_CHUNK_SIZE = DFU_CHUNK_SIZE * (chunk_cnt + 1)
         /\ offset + DFU_CHUNK_SIZE \in Nat
         /\ ReadTo \in 0 .. fw_image_size /\ ReadTo \in 0 .. MaxU32
  <1>1. /\ opened \in Images /\ fw_image_size = Size[opened]
        /\ offset = 1024 * chunk_cnt /\ offset <= fw_image_size
    BY DEF IInv, Stages, Turn, DFU_CHUNK_SIZE
  <1>2. /\ chunk_cnt \in Nat /\ fw_image_size \in Nat /\ fw_image_size < MaxU32
        /\ MaxU32 \in Nat /\ fpos \in Nat
    BY <1>1, ImageFact DEF IInv, TypeOK
  <1>3. ReadTo \in 0 .. fw_image_size
    BY <1>2, PieceType DEF ReadTo, DFU_CHUNK_SIZE
  <1>4. QED
    BY <1>1, <1>2, <1>3 DEF DFU_CHUNK_SIZE

\* The image that is measured.
LEMMA OpenFact == ASSUME IInv, state # "initial"
                  PROVE  opened \in Images /\ fw_image_size = Size[opened]
  BY DEF IInv, Stages

\* Every step keeps the types.
LEMMA TypeStep == ASSUME IInv, [Next]_vars PROVE TypeOK'
  <1>1. ModemType /\ Counters /\ Labels
    BY TypeParts DEF IInv
  <1>2. ASSUME NEW img \in Images, NEW v \in BOOLEAN, Start(img, v) \/ Retry(img, v)
        PROVE  TypeOK'
    BY <1>1, <1>2, TypeParts DEF Start, Retry, counters, ghosts, ModemType, Counters, Labels
  <1>3. ASSUME NEW taken \in BOOLEAN, Measure(taken) PROVE TypeOK'
    <2>1. opened \in Images
      BY <1>3 DEF IInv, Stages, Measure
    <2>2. [NoSession EXCEPT !.announced = opened] \in Sessions
      BY <2>1, NoSessionType DEF Sessions
    <2>3. ModemType'
      BY <1>1, <1>3, <2>2 DEF Measure, ModemType
    <2>4. Counters'
      BY <1>1, <1>3, <2>1, ImageFact DEF Measure, Counters
    <2>5. Labels'
      BY <1>1, <1>3 DEF Measure, Labels
    <2>6. QED
      BY <2>3, <2>4, <2>5, TypeParts
  <1>4. CASE SendHeader
    <2>1. ModemType'
      BY <1>4, HeaderTaken
    <2>2. fw_image_size \in Nat /\ fw_image_size \in 0 .. MaxU32 /\ MaxU32 \in Nat
      BY <1>1, ConstAssumption DEF Counters
    <2>3. /\ Chunks(fw_image_size) \in 0 .. MaxU32
          /\ fw_image_size % DFU_CHUNK_SIZE \in 0 .. (DFU_CHUNK_SIZE - 1)
      BY <2>2, ChunksFact
    <2>4. Counters'
      BY <1>1, <1>4, <2>2, <2>3 DEF SendHeader, SetChunks, Counters
    <2>5. Labels'
      BY <1>1, <1>4 DEF SendHeader, Labels, ghosts
    <2>6. QED
      BY <2>1, <2>4, <2>5, TypeParts
  <1>5. CASE SendChunk \/ SendLastChunk
    <2>1. PICK last \in BOOLEAN : SendPiece(last)
      BY <1>5 DEF SendChunk, SendLastChunk
    <2>2. Turn
      BY <1>5 DEF SendChunk, SendLastChunk
    <2>3. ModemType' /\ lost' \in BOOLEAN
      BY <2>1, <2>2, PieceTaken
    <2>4. Counters'
      BY <1>1, <1>5, <2>1, <2>2, TurnBound
         DEF SendChunk, SendLastChunk, SendPiece, Advance, Counters
    <2>5. Labels'
      BY <1>1, <1>5, <2>3 DEF SendChunk, SendLastChunk, Labels
    <2>6. QED
      BY <2>3, <2>4, <2>5, TypeParts
  <1>6. CASE Install
    <2>1. Counters'
      BY <1>6, ConstAssumption DEF Install, Restart, Counters, DFU_CHUNK_SIZE
    <2>2. Labels'
      BY <1>6 DEF Install, Restart, Labels
    <2>3. modem.version \in Versions
      BY <1>1 DEF ModemType
    <2>4. Installable(modem.session) => Target[modem.session.announced] \in Versions
      BY <1>1, ConstAssumption DEF ModemType, Sessions, Installable
    <2>5. ModemType'
      BY <1>6, <2>3, <2>4, NoSessionType DEF Install, ModemType
    <2>6. QED
      BY <2>1, <2>2, <2>5, TypeParts
  <1>7. CASE PowerLoss
    <2>1. Counters'
      BY <1>7, ConstAssumption DEF PowerLoss, Restart, Counters, DFU_CHUNK_SIZE
    <2>2. Labels' /\ ModemType'
      BY <1>1, <1>7 DEF PowerLoss, Restart, Labels, ModemType
    <2>3. QED
      BY <2>1, <2>2, TypeParts
  <1>8. CASE Precheck \/ PrecheckFails \/ MeasureFails \/ HeaderFails
    <2>1. Counters'
      BY <1>1, <1>8, ConstAssumption DEF Precheck, PrecheckFails, MeasureFails, HeaderFails, Counters, counters
    <2>2. Labels' /\ ModemType'
      BY <1>1, <1>8 DEF Precheck, PrecheckFails, MeasureFails, HeaderFails, Labels, ModemType, ghosts
    <2>3. QED
      BY <2>1, <2>2, TypeParts
  <1>9. CASE ReadFails
    <2>1. resumed' \in BOOLEAN
      BY <1>1, <1>9 DEF ReadFails, Labels
    <2>2. QED
      BY <1>1, <1>9, <2>1, TypeParts DEF ReadFails, Counters, Labels, ModemType, counters
  <1>10. CASE LeaveLoop \/ UNCHANGED vars
    BY <1>1, <1>10, TypeParts
       DEF LeaveLoop, vars, Counters, Labels, ModemType, counters, ghosts
  <1>11. QED
    BY <1>2, <1>3, <1>4, <1>5, <1>6, <1>7, <1>8, <1>9, <1>10
       DEF Next, Command, Update, Failure

\* Every step keeps what is known in each stage.
LEMMA StagesStep == ASSUME IInv, [Next]_vars PROVE Stages'
  <1>1. Stages /\ Counters /\ Labels
    BY TypeParts DEF IInv
  <1>2. ASSUME NEW img \in Images, NEW v \in BOOLEAN, Start(img, v) \/ Retry(img, v)
        PROVE  Stages'
    BY <1>1, <1>2 DEF Start, Retry, counters, Stages, Labels
  <1>3. ASSUME NEW taken \in BOOLEAN, Measure(taken) PROVE Stages'
    <2>1. opened \in Images /\ Size[opened] \in Nat
      BY <1>1, <1>3, ImageFact DEF Stages, Measure
    <2>2. QED
      BY <1>1, <1>3, <2>1 DEF Measure, Stages
  <1>4. CASE SendHeader
    <2>1. fw_image_size \in Nat
      BY <1>1, ConstAssumption DEF Counters
    <2>2. fw_image_size' = fw_image_size /\ chunk_cnt' = chunk_cnt /\ offset' = offset
      BY <1>4 DEF SendHeader, SetChunks
    <2>3. QED
      BY <1>1, <1>4, <2>1, <2>2 DEF SendHeader, Stages
  <1>5. CASE SendChunk \/ SendLastChunk
    <2>1. /\ Turn /\ fpos' = ReadTo
          /\ chunk_cnt' = chunk_cnt + 1 /\ offset' = offset + DFU_CHUNK_SIZE
          /\ fw_image_size' = fw_image_size /\ opened' = opened /\ pc' = pc /\ failing' = failing
          /\ state' = state \/ state' = "done"
      BY <1>5 DEF SendChunk, SendLastChunk, SendPiece, Advance
    <2>2. /\ pc = "loop"
          /\ state # "initial" /\ state' # "initial"
      BY <1>1, <2>1 DEF Stages, Turn
    <2>3. offset' = DFU_CHUNK_SIZE * chunk_cnt' /\ fpos' <= fw_image_size'
      BY <1>1, <2>1, TurnBound DEF Counters
    <2>4. QED
      BY <1>1, <2>1, <2>2, <2>3 DEF Stages
  <1>6. CASE Install \/ PowerLoss
    BY <1>6 DEF Install, PowerLoss, Restart, Stages, DFU_CHUNK_SIZE
  <1>7. CASE Precheck \/ PrecheckFails \/ MeasureFails \/ HeaderFails
    <2>1. fw_image_size \in Nat
      BY <1>1, ConstAssumption DEF Counters
    <2>2. QED
      BY <1>1, <1>7, <2>1 DEF Precheck, PrecheckFails, MeasureFails, HeaderFails, Stages, counters
  <1>8. CASE ReadFails \/ LeaveLoop \/ UNCHANGED vars
    BY <1>1, <1>8 DEF ReadFails, LeaveLoop, Turn, vars, counters, Stages
  <1>9. QED
    BY <1>2, <1>3, <1>4, <1>5, <1>6, <1>7, <1>8 DEF Next, Command, Update, Failure

\* The session never comes to be about another image than the one that is open.
LEMMA OwnSessionStep == ASSUME IInv, [Next]_vars PROVE OwnSession'
  <1>1. OwnSession /\ Stages /\ ModemType /\ Labels
    BY TypeParts DEF IInv
  <1>2. ASSUME NEW img \in Images, NEW v \in BOOLEAN, Start(img, v) \/ Retry(img, v)
        PROVE  OwnSession'
    <2>1. /\ modem' = modem /\ lost' = lost /\ state' = state
          /\ state # "initial" => opened' = opened
          /\ pc' \in {"precheck", "header"}
      BY <1>2 DEF Start, Retry, ghosts
    <2>2. QED
      BY <1>1, <2>1 DEF OwnSession
  <1>3. ASSUME NEW taken \in BOOLEAN, Measure(taken) PROVE OwnSession'
    <2>1. /\ lost' = ~taken /\ opened' = opened /\ pc' = "header"
          /\ taken => modem'.session.announced = opened
      BY <1>1, <1>3, NoSessionType DEF Measure, ModemType, Sessions
    <2>2. QED
      BY <2>1 DEF OwnSession
  <1>4. CASE SendHeader
    <2>1. /\ modem'.session.announced = modem.session.announced
          /\ modem'.session.header = opened /\ modem'.session.recv = <<>>
      BY <1>4, HeaderTaken
    <2>2. lost' = lost /\ state' = state /\ opened' = opened
      BY <1>4 DEF SendHeader, ghosts
    <2>3. Len(modem'.session.recv) = 0
      BY <2>1
    <2>4. state # "initial"
      BY <1>1, <1>4 DEF Stages, SendHeader
    <2>5. QED
      BY <1>1, <2>1, <2>2, <2>3, <2>4 DEF OwnSession
  <1>5. CASE SendChunk \/ SendLastChunk
    <2>1. PICK last \in BOOLEAN : SendPiece(last)
      BY <1>5 DEF SendChunk, SendLastChunk
    <2>2. /\ Turn /\ opened' = opened
          /\ pc = "loop" /\ state # "initial"
      BY <1>1, <1>5 DEF SendChunk, SendLastChunk, Turn, Stages
    <2>3. /\ lost => lost'
          /\ modem'.session.announced = modem.session.announced
          /\ modem'.session.header = modem.session.header
          /\ \/ lost'
             \/ modem'.session.recv
                  = Append(modem.session.recv, Piece(opened, fpos, readsize))
      BY <2>1, <2>2, PieceTaken
    <2>4. CASE lost'
      BY <2>4 DEF OwnSession
    <2>5. CASE ~lost'
      <3> DEFINE r == modem.session.recv
                 p == Piece(opened, fpos, readsize)
      <3>1. /\ ~lost /\ modem.session.announced = opened
            /\ modem.session.header = opened
            /\ \A i \in 1 .. Len(r) : r[i].img = opened
        BY <1>1, <2>2, <2>3, <2>5 DEF OwnSession
      <3>2. modem'.session.recv = Append(r, p) /\ p.img = opened
        BY <2>3, <2>5 DEF Piece
      <3>3. r \in Seq(Pieces) /\ p \in Pieces
        BY <1>1, <2>2, PieceType DEF ModemType, Sessions
      <3> HIDE DEF r, p
      <3>4. \A i \in 1 .. Len(Append(r, p)) : Append(r, p)[i].img = opened
        BY <3>1, <3>2, <3>3
      <3>5. QED
        BY <2>2, <2>3, <3>1, <3>2, <3>4 DEF OwnSession
    <2>6. QED
      BY <2>4, <2>5
  <1>6. CASE Install \/ PowerLoss
    BY <1>6 DEF Install, PowerLoss, Restart, OwnSession
  <1>7. CASE Precheck \/ PrecheckFails \/ MeasureFails \/ HeaderFails \/ ReadFails
    BY <1>1, <1>7 DEF Precheck, PrecheckFails, MeasureFails, HeaderFails, ReadFails, OwnSession, ghosts
  <1>8. CASE LeaveLoop
    BY <1>1, <1>8 DEF LeaveLoop, ghosts, OwnSession
  <1>9. CASE UNCHANGED vars
    BY <1>1, <1>9 DEF vars, ghosts, OwnSession
  <1>10. QED
    BY <1>2, <1>3, <1>4, <1>5, <1>6, <1>7, <1>8, <1>9
       DEF Next, Command, Update, Failure

\* The position of a straight transfer is known after every step.
LEMMA PositionStep == ASSUME IInv, [Next]_vars PROVE Position'
  <1>1. Position /\ Stages /\ Counters /\ Labels
    BY TypeParts DEF IInv
  <1>2. ASSUME NEW img \in Images, NEW v \in BOOLEAN, Start(img, v) PROVE Position'
    BY <1>2 DEF Start, Position, Straight
  <1>3. ASSUME NEW img \in Images, NEW v \in BOOLEAN, Retry(img, v) PROVE Position'
    <2>1. /\ Straight' <=> Straight
          /\ pc = "idle" /\ pc' = "header" /\ chunk_cnt' = chunk_cnt /\ state' = state
      BY <1>3 DEF Retry, counters, ghosts, Straight
    <2>2. QED
      BY <1>1, <2>1 DEF Position
  <1>4. ASSUME NEW taken \in BOOLEAN, Measure(taken) PROVE Position'
    <2>1. pc' = "header" /\ state' = "upgrade" /\ chunk_cnt' = chunk_cnt
      BY <1>4 DEF Measure
    <2>2. chunk_cnt = 0
      BY <1>1, <1>4 DEF Measure, Stages
    <2>3. QED
      BY <2>1, <2>2 DEF Position
  <1>5. CASE SendHeader
    <2>1. /\ Straight' <=> Straight
          /\ pc = "header" /\ pc' = "loop" /\ state' = state /\ fpos' = 0
          /\ fw_image_size' = fw_image_size /\ chunk_cnt' = chunk_cnt
          /\ chunk_check' = Chunks(fw_image_size)
          /\ remainder' = fw_image_size % DFU_CHUNK_SIZE
      BY <1>5 DEF SendHeader, SetChunks, ghosts, Straight
    <2>2. Straight => /\ chunk_cnt = 0 /\ state = "upgrade"
                      /\ Chunks(fw_image_size) \in Nat /\ Chunks(fw_image_size) >= 2
      BY <1>1, <2>1, StraightFact DEF Position
    <2>3. QED
      BY <2>1, <2>2 DEF Position, DFU_CHUNK_SIZE
  <1>6. CASE SendChunk \/ SendLastChunk
    <2>1. /\ Turn /\ fpos' = ReadTo /\ pc = "loop" /\ pc' = "loop"
          /\ chunk_cnt' = chunk_cnt + 1 /\ opened' = opened /\ resumed' = resumed
          /\ fw_image_size' = fw_image_size /\ chunk_check' = chunk_check
          /\ remainder' = remainder
      BY <1>6 DEF SendChunk, SendLastChunk, SendPiece, Advance, Turn
    <2>2. (state' = "done" /\ IsLast) \/ (state' = state /\ ~IsLast)
      BY <1>6 DEF SendChunk, SendLastChunk
    <2>3. Straight' => Straight
      BY <1>1, <2>1 DEF Stages, Straight
    <2>4. SUFFICES ASSUME Straight PROVE Position'
      BY <2>3 DEF Position
    <2>5. /\ chunk_check = Chunks(fw_image_size)
          /\ remainder = fw_image_size % DFU_CHUNK_SIZE
      BY <1>1, <2>1, <2>4 DEF Position
    <2>6. /\ chunk_cnt < chunk_check /\ chunk_check \in Nat /\ chunk_cnt \in Nat
          /\ IsLast <=> chunk_cnt + 1 = chunk_check
          /\ state = "upgrade"
          /\ ReadTo = IF chunk_cnt + 1 = chunk_check
                      THEN fw_image_size ELSE DFU_CHUNK_SIZE * (chunk_cnt + 1)
      BY <2>1, <2>4, TurnFact
    <2>7. /\ chunk_cnt' <= chunk_check
          /\ state' = "done" <=> chunk_cnt' = chunk_check
          /\ chunk_cnt' < chunk_check => fpos' = DFU_CHUNK_SIZE * chunk_cnt'
      BY <2>1, <2>2, <2>6
    <2>8. QED
      BY <2>1, <2>5, <2>7 DEF Position
  <1>7. CASE Install \/ PowerLoss
    BY <1>7 DEF Install, PowerLoss, Restart, Position, Straight
  <1>8. CASE Precheck \/ PrecheckFails \/ MeasureFails
    BY <1>1, <1>8 DEF Precheck, PrecheckFails, MeasureFails, Stages, Position, Straight
  <1>9. CASE HeaderFails
    <2>1. /\ Straight' <=> Straight
          /\ pc = "header" /\ pc' = "idle" /\ chunk_cnt' = chunk_cnt /\ state' = state
      BY <1>9 DEF HeaderFails, counters, ghosts, Straight
    <2>2. QED
      BY <1>1, <2>1 DEF Position
  <1>10. CASE ReadFails
    <2>1. /\ resumed' = (resumed \/ chunk_cnt > 0) /\ opened' = opened
          /\ state' = state /\ pc' = "idle" /\ chunk_cnt' = chunk_cnt /\ Turn
      BY <1>10 DEF ReadFails, counters
    <2>2. Straight' => Straight /\ ~(chunk_cnt > 0)
      BY <1>1, <2>1 DEF Straight, Labels
    <2>3. SUFFICES ASSUME Straight, ~(chunk_cnt > 0) PROVE Position'
      BY <2>2 DEF Position
    <2>4. chunk_cnt = 0
      BY <1>1, <2>3, ConstAssumption DEF Counters
    <2>5. state = "upgrade"
      BY <2>1, <2>3, TurnFact
    <2>6. QED
      BY <2>1, <2>4, <2>5 DEF Position
  <1>11. CASE LeaveLoop
    <2>1. /\ Straight' <=> Straight
          /\ pc = "loop" /\ pc' = IF state = "done" THEN "install" ELSE "header"
          /\ UNCHANGED counters /\ state' = state /\ fpos' = fpos
      BY <1>11 DEF LeaveLoop, ghosts, Straight
    <2>2. Straight => pc' = "install"
      BY <1>11, <2>1, LeaveFact
    <2>3. QED
      BY <1>1, <2>1, <2>2 DEF Position, counters
  <1>12. CASE UNCHANGED vars
    BY <1>1, <1>12 DEF vars, counters, ghosts, Position, Straight
  <1>13. QED
    BY <1>2, <1>3, <1>4, <1>5, <1>6, <1>7, <1>8, <1>9, <1>10, <1>11, <1>12
       DEF Next, Command, Update, Failure

\* What a straight transfer has brought to the modem is known after every step.
LEMMA ContentStep == ASSUME IInv, [Next]_vars PROVE Content'
  <1>1. Content /\ Stages /\ ModemType /\ Counters /\ Labels /\ Position
    BY TypeParts DEF IInv
  <1>2. ASSUME pc' \in {"idle", "precheck", "measure", "header"} PROVE Content'
    BY <1>2 DEF Content
  <1>3. CASE Command \/ Failure \/ Install \/ Precheck
           \/ \E taken \in BOOLEAN : Measure(taken)
    <2>1. pc' \in {"idle", "precheck", "measure", "header"}
      BY <1>3 DEF Command, Start, Retry, Failure, PrecheckFails, HeaderFails, ReadFails,
         PowerLoss, Install, Restart, Precheck, Measure, MeasureFails
    <2>2. QED
      BY <1>2, <2>1
  <1>4. CASE SendHeader
    <2>1. /\ modem'.session.recv = <<>> /\ modem'.session.closed = FALSE
      BY <1>4, HeaderTaken
    <2>2. /\ Straight' <=> Straight
          /\ pc = "header" /\ chunk_cnt' = chunk_cnt /\ state' = state
      BY <1>4 DEF SendHeader, SetChunks, ghosts, Straight
    <2>3. Straight => chunk_cnt = 0 /\ state = "upgrade"
      BY <1>1, <2>2 DEF Position
    <2>4. Len(modem'.session.recv) = 0
      BY <2>1
    <2>5. QED
      BY <2>1, <2>2, <2>3, <2>4 DEF Content
  <1>5. CASE SendChunk \/ SendLastChunk
    <2>1. PICK last \in BOOLEAN : /\ SendPiece(last)
                                  /\ last <=> IsLast
                                  /\ state' = IF last THEN "done" ELSE state
      BY <1>5 DEF SendChunk, SendLastChunk
    <2>2. /\ Turn /\ pc = "loop" /\ pc' = "loop"
          /\ chunk_cnt' = chunk_cnt + 1 /\ opened' = opened /\ resumed' = resumed
          /\ chunk_check' = chunk_check /\ remainder' = remainder
      BY <1>5 DEF SendChunk, SendLastChunk, Advance, Turn
    <2>3. /\ lost => lost'
          /\ \/ lost'
             \/ /\ modem'.session.recv
                     = Append(modem.session.recv, Piece(opened, fpos, readsize))
                /\ modem'.session.closed = last
      BY <2>1, <2>2, PieceTaken
    <2>4. Straight' => Straight
      BY <1>1, <2>2 DEF Stages, Straight
    <2>5. SUFFICES ASSUME Straight, ~lost' PROVE Content'
      BY <2>4 DEF Content
    <2> DEFINE r == modem.session.recv
               p == NthPiece(opened, chunk_cnt + 1, chunk_check, remainder)
    <2>6. /\ chunk_cnt < chunk_check /\ chunk_check \in Nat /\ chunk_cnt \in Nat
          /\ Piece(opened, fpos, readsize) = p /\ state = "upgrade"
      BY <2>2, <2>5, TurnFact
    <2>7. /\ modem'.session.recv = Append(r, p)
          /\ modem'.session.closed = last
          /\ r \in Seq(Pieces) /\ p \in Pieces
      BY <1>1, <2>2, <2>3, <2>5, <2>6, PieceType DEF ModemType, Sessions
    <2>8. /\ Len(r) = chunk_cnt
          /\ \A i \in 1 .. chunk_cnt : r[i] = NthPiece(opened, i, chunk_check, remainder)
      BY <1>1, <2>2, <2>3, <2>5 DEF Content
    <2>9. modem'.session.closed <=> state' = "done"
      BY <2>1, <2>6, <2>7
    <2>10. /\ Len(Append(r, p)) = chunk_cnt + 1
           /\ \A i \in 1 .. chunk_cnt + 1 :
                  Append(r, p)[i] = NthPiece(opened, i, chunk_check, remainder)
      <3> HIDE DEF r
      <3>1. Append(r, p)[chunk_cnt + 1] = p /\ Len(Append(r, p)) = chunk_cnt + 1
        BY <2>6, <2>7, <2>8
      <3>2. \A i \in 1 .. chunk_cnt : Append(r, p)[i] = r[i]
        BY <2>6, <2>7, <2>8
      <3>3. \A i \in 1 .. chunk_cnt + 1 : i \in 1 .. chunk_cnt \/ i = chunk_cnt + 1
        BY <2>6
      <3>4. QED
        BY <2>8, <3>1, <3>2, <3>3
    <2> HIDE DEF r, p
    <2>11. QED
      BY <2>2, <2>7, <2>9, <2>10 DEF Content
  <1>6. CASE LeaveLoop
    <2>1. /\ Straight' <=> Straight
          /\ pc = "loop" /\ UNCHANGED <<counters, lost, state, opened, modem>>
      BY <1>6 DEF LeaveLoop, ghosts, Straight
    <2>2. QED
      BY <1>1, <2>1 DEF Content, counters
  <1>7. CASE UNCHANGED vars
    BY <1>1, <1>7 DEF vars, counters, ghosts, Content, Straight
  <1>8. QED
    BY <1>3, <1>4, <1>5, <1>6, <1>7 DEF Next, Update

\* The invariant holds in every reachable state, for all sizes of the images.
THEOREM ModemUpdateInvariant == Spec => []IInv
  <1>1. IInv /\ [Next]_vars => IInv'
    BY TypeStep, StagesStep, OwnSessionStep, PositionStep, ContentStep DEF IInv
  <1>2. QED
    BY <1>1, InitInv, PTL DEF Spec

-----------------------------------------------------------------------------
(* The properties                                                          *)

\* When a straight transfer has come to its end, and nothing was lost, the
\* modem holds the payload: what it checks before it installs succeeds.
LEMMA WholePayload ==
  ASSUME IInv, pc = "install", Regular(opened), ~lost, ~resumed
  PROVE  Installable(modem.session)
  <1>1. /\ Straight /\ state = "done"
        /\ opened \in Images /\ fw_image_size = Size[opened]
    BY DEF IInv, Stages, Straight
  <1>2. /\ chunk_check = Chunks(fw_image_size) /\ chunk_cnt = chunk_check
        /\ remainder = fw_image_size % DFU_CHUNK_SIZE
    BY <1>1 DEF IInv, Position
  <1> DEFINE s == modem.session
             n == Chunks(Size[opened])
             size == Size[opened]
  <1>3. /\ n \in Nat /\ size \in Nat
        /\ size = DFU_CHUNK_SIZE * (n - 1) + remainder /\ remainder \in Nat
    <2>1. /\ n \in Nat /\ size \in Nat
          /\ size = DFU_CHUNK_SIZE * (n - 1) + remainder
          /\ remainder \in 1 .. (DFU_CHUNK_SIZE - 1)
      BY <1>1, <1>2, StraightFact, Zenon
    <2>2. QED
      BY <2>1 DEF DFU_CHUNK_SIZE
  <1>4. /\ s.closed /\ Len(s.recv) = n
        /\ \A i \in 1 .. n : s.recv[i] = NthPiece(opened, i, n, remainder)
    BY <1>1, <1>2 DEF IInv, Content
  <1>5. s.header = opened /\ s.announced = opened /\ opened # None
    BY <1>1, ConstAssumption DEF IInv, OwnSession
  <1>6. s.recv \in Seq(Pieces)
    BY DEF IInv, TypeOK, Sessions
  <1>7. s.recv = Payload(opened)
    <2>1. \A i \in 1 .. n : NthPiece(opened, i, n, remainder)
                              = Piece(opened, DFU_CHUNK_SIZE * (i - 1),
                                      IF i = n THEN size - DFU_CHUNK_SIZE * (i - 1)
                                               ELSE DFU_CHUNK_SIZE)
      <3> TAKE i \in 1 .. n
      <3>1. i = n => remainder = size - DFU_CHUNK_SIZE * (i - 1)
        BY <1>3 DEF DFU_CHUNK_SIZE
      <3>2. QED
        BY <3>1 DEF NthPiece
    <2>2. s.recv = [i \in 1 .. n |-> s.recv[i]]
      BY <1>3, <1>4, <1>6
    <2> HIDE DEF s
    <2>3. s.recv = [i \in 1 .. n |-> Piece(opened, DFU_CHUNK_SIZE * (i - 1),
                                           IF i = n THEN size - DFU_CHUNK_SIZE * (i - 1)
                                                    ELSE DFU_CHUNK_SIZE)]
      BY <1>4, <2>1, <2>2
    <2>4. QED
      BY <2>3 DEF Payload
  <1>8. QED
    BY <1>4, <1>5, <1>7 DEF Installable

\* The modem is told to install only what it can install, and what it holds
\* is never a mixture of two images (stage 3 of dfu_modem_write_image).
THEOREM ModemGetsWholeImage == Spec => []InstallsWholeImage
  <1>1. IInv => InstallsWholeImage
    <2> SUFFICES ASSUME IInv PROVE InstallsWholeImage
      OBVIOUS
    <2> DEFINE s == modem.session
    <2>1. TypeOK
      BY DEF IInv
    <2>2. pc = "install" /\ Regular(opened) /\ ~lost /\ ~resumed => Installable(s)
      BY WholePayload
    <2>3. ~lost /\ pc \in {"loop", "install"} =>
              /\ s.header = opened /\ s.announced = opened
              /\ \A i \in 1 .. Len(s.recv) : s.recv[i].img = s.header
      <3>1. ~lost /\ pc \in {"loop", "install"} =>
              /\ s.header = opened /\ s.announced = opened
              /\ \A i \in 1 .. Len(s.recv) : s.recv[i].img = opened
        BY DEF IInv, OwnSession, Stages
      <3> HIDE DEF s
      <3>2. QED
        BY <3>1
    <2>4. QED
      BY <2>1, <2>2, <2>3 DEF InstallsWholeImage
  <1>2. QED
    BY <1>1, ModemUpdateInvariant, PTL

-----------------------------------------------------------------------------
(* Progress, also of an update that was taken up again                     *)

\* A resumed update counts its chunks as any other, although it reads the file from the
\* beginning: the state is "done" exactly when as many were sent as the image has, and
\* then the chunk loop is not entered again.
Counted ==
    state # "initial" /\ Regular(opened) =>
        /\ chunk_cnt <= Chunks(fw_image_size)
        /\ state = "done" <=> chunk_cnt = Chunks(fw_image_size)
        /\ pc = "loop" => chunk_check = Chunks(fw_image_size)
        /\ state = "done" => pc \in {"loop", "install"}

\* What is left of an update: chunks and stages.
StagesLeft == CASE pc = "precheck" -> 5 [] pc = "measure" -> 4 [] pc = "header" -> 3
                [] pc = "loop" -> 2     [] OTHER -> 1
StepsLeft == Chunks(Size[opened]) - chunk_cnt + StagesLeft

\* Every step of an update of a regular image, resumed or not, ends it or brings it
\* nearer to its end: no stage is entered a second time (the state machine of
\* dfu_modem_write_image looks at the state after every stage).  The one step that
\* does neither is that reads begin to fail for good while the image is measured;
\* from then on the update has no other step than to be cut off.
UpdateAdvances ==
    [][pc # "idle" /\ Regular(opened) =>
          /\ StepsLeft \in Nat
          /\ pc' # "idle" =>
                /\ opened' = opened /\ ~failing
                /\ StepsLeft' < StepsLeft \/ MeasureFails]_vars

\* The size of a regular image is that of its chunks.
LEMMA SizeFact ==
  ASSUME NEW img \in Images, Regular(img)
  PROVE  /\ Size[img] \in Nat
         /\ Chunks(Size[img]) \in Nat /\ Chunks(Size[img]) >= 2
         /\ 1024 * (Chunks(Size[img]) - 1) < Size[img]
         /\ Size[img] < 1024 * Chunks(Size[img])
  <1> DEFINE n == Size[img]
             r == n % DFU_CHUNK_SIZE
             c == Chunks(n)
  <1>1. n \in Nat
    BY ImageFact
  <1>2. n > 1024 /\ r # 0
    BY DEF Regular, DFU_CHUNK_SIZE
  <1>3. /\ c \in Nat /\ r \in 0 .. (DFU_CHUNK_SIZE - 1)
        /\ r # 0 => n = DFU_CHUNK_SIZE * (c - 1) + r
        /\ n > DFU_CHUNK_SIZE /\ r # 0 => c >= 2
    BY <1>1, ChunksFact, Zenon
  <1> HIDE DEF n, r, c
  <1>4. c \in Nat /\ c >= 2 /\ 1024 * (c - 1) < n /\ n < 1024 * c
    BY <1>1, <1>2, <1>3 DEF DFU_CHUNK_SIZE
  <1>5. QED
    BY <1>1, <1>4 DEF n, c

\* What the counters of a regular update say in a state that is not the first.
LEMMA CountFact ==
  ASSUME IInv, Counted, state # "initial", Regular(opened),
         pc \in {"header", "loop", "install"}
  PROVE  \E n \in Nat :
            /\ n = Chunks(Size[opened]) /\ n = Chunks(fw_image_size) /\ n >= 2
            /\ chunk_cnt \in Nat /\ chunk_cnt <= n /\ offset = 1024 * chunk_cnt
            /\ state = "done" <=> chunk_cnt = n
            /\ pc = "loop" => chunk_check = n /\ LastChunk = n - 1
            /\ pc = "header" => chunk_cnt < n
            /\ offset <= fw_image_size <=> chunk_cnt < n
  <1>1. opened \in Images /\ fw_image_size = Size[opened] /\ offset = 1024 * chunk_cnt
    BY DEF IInv, Stages, DFU_CHUNK_SIZE
  <1>2. PICK n \in Nat : n = Chunks(Size[opened])
    BY <1>1, SizeFact
  <1>3. /\ n >= 2 /\ fw_image_size \in Nat
        /\ 1024 * (n - 1) < fw_image_size /\ fw_image_size < 1024 * n
    BY <1>1, <1>2, SizeFact
  <1>4. chunk_cnt \in Nat
    BY ConstAssumption DEF IInv, TypeOK
  <1>5. /\ chunk_cnt <= n /\ (state = "done" <=> chunk_cnt = n)
        /\ (pc = "loop" => chunk_check = n)
        /\ (state = "done" => pc \in {"loop", "install"})
    BY <1>1, <1>2 DEF Counted
  <1>6. pc = "loop" => LastChunk = n - 1
    BY <1>3, <1>5 DEF LastChunk
  <1>7. offset <= fw_image_size <=> chunk_cnt < n
    BY <1>1, <1>3, <1>4
  <1>8. pc = "header" => chunk_cnt < n
    BY <1>4, <1>5
  <1>9. QED
    BY <1>1, <1>2, <1>3, <1>4, <1>5, <1>6, <1>7, <1>8

\* Every step keeps the count.
LEMMA CountedStep == ASSUME IInv, IInv', Counted, [Next]_vars PROVE Counted'
  <1>1. CASE UNCHANGED vars \/ Precheck \/ PrecheckFails \/ MeasureFails \/ HeaderFails
    BY <1>1 DEF vars, counters, ghosts, Precheck, PrecheckFails, MeasureFails, HeaderFails, Counted, IInv, Stages
  <1>2. ASSUME NEW img \in Images, NEW v \in BOOLEAN, Start(img, v) \/ Retry(img, v)
        PROVE  Counted'
    BY <1>2 DEF Start, Retry, Counted, counters
  <1>3. ASSUME NEW taken \in BOOLEAN, Measure(taken), Regular(opened) PROVE Counted'
    <2>1. /\ opened \in Images /\ chunk_cnt = 0 /\ opened' = opened
          /\ fw_image_size' = Size[opened] /\ chunk_cnt' = chunk_cnt
          /\ state' = "upgrade" /\ pc' = "header"
      BY <1>3 DEF IInv, Stages, Measure
    <2>2. Chunks(fw_image_size') \in Nat /\ Chunks(fw_image_size') >= 2
      BY <1>3, <2>1, SizeFact
    <2>3. QED
      BY <2>1, <2>2 DEF Counted
  <1>4. CASE SendHeader
    BY <1>4 DEF SendHeader, SetChunks, Counted
  <1>5. CASE ReadFails /\ Regular(opened)
    <2>1. state # "initial" /\ pc = "loop" /\ offset <= fw_image_size
      BY <1>5 DEF ReadFails, Turn, IInv, Stages
    <2>2. state # "done"
      BY <1>5, <2>1, CountFact
    <2>3. QED
      BY <1>5, <2>2 DEF ReadFails, Counted, counters
  <1>6. CASE (SendChunk \/ SendLastChunk) /\ Regular(opened)
    <2>1. /\ state # "initial" /\ pc = "loop" /\ offset <= fw_image_size
          /\ pc' = "loop" /\ opened' = opened
          /\ fw_image_size' = fw_image_size /\ chunk_check' = chunk_check
          /\ chunk_cnt' = chunk_cnt + 1
      BY <1>6 DEF SendChunk, SendLastChunk, Turn, Advance, IInv, Stages
    <2>2. PICK n \in Nat :
            /\ n = Chunks(fw_image_size) /\ n >= 2 /\ chunk_cnt \in Nat
            /\ chunk_cnt < n /\ chunk_check = n /\ LastChunk = n - 1
            /\ state # "done"
      BY <1>6, <2>1, CountFact
    <2>3. /\ SendChunk => chunk_cnt + 1 # n /\ state' # "done"
          /\ SendLastChunk => chunk_cnt + 1 = n /\ state' = "done"
      <3>1. /\ SendChunk => ~IsLast /\ state' = state
            /\ SendLastChunk => IsLast /\ state' = "done"
        BY DEF SendChunk, SendLastChunk
      <3>2. IsLast <=> chunk_cnt + 1 = n
        BY <2>2 DEF IsLast
      <3>3. QED
        BY <2>2, <3>1, <3>2
    <2>4. chunk_cnt + 1 <= n
      BY <2>2
    <2>5. QED
      BY <1>6, <2>1, <2>2, <2>3, <2>4 DEF Counted
  <1>7. CASE LeaveLoop
    BY <1>7 DEF LeaveLoop, Counted, counters
  <1>8. CASE Install \/ PowerLoss
    BY <1>8 DEF Install, PowerLoss, Restart, Counted
  <1>9. ~Regular(opened) /\ opened' = opened => Counted'
    BY DEF Counted, Regular
  <1>10. QED
    BY <1>1, <1>2, <1>3, <1>4, <1>5, <1>6, <1>7, <1>8, <1>9
       DEF Next, Command, Update, Failure, Measure, ReadFails, SendChunk, SendLastChunk

\* The count of the chunks and the state agree, for images of any regular size, however
\* often the update failed and was taken up again.
THEOREM ResumedCountsToo == Spec => []Counted
  <1>1. Init => Counted
    BY DEF Init, Counted
  <1>2. IInv /\ IInv' /\ Counted /\ [Next]_vars => Counted'
    BY CountedStep
  <1>3. QED
    BY <1>1, <1>2, ModemUpdateInvariant, PTL DEF Spec

\* No update of a regular image goes round its stages for ever.
THEOREM ModemUpdateAdvances == Spec => UpdateAdvances
  <1> DEFINE Advances == pc # "idle" /\ Regular(opened) =>
          /\ StepsLeft \in Nat
          /\ pc' # "idle" =>
                /\ opened' = opened /\ ~failing
                /\ StepsLeft' < StepsLeft \/ MeasureFails
  <1>1. ASSUME IInv, Counted, Next, vars' # vars PROVE Advances
    <2> SUFFICES ASSUME pc # "idle", Regular(opened)
                 PROVE  /\ StepsLeft \in Nat
                        /\ pc' # "idle" =>
                              /\ opened' = opened /\ ~failing
                              /\ StepsLeft' < StepsLeft \/ MeasureFails
      OBVIOUS
    <2>1. opened \in Images /\ pc \in {"precheck", "measure", "header", "loop", "install"}
      BY <1>1 DEF IInv, Stages, TypeOK
    <2>2. CASE pc \in {"precheck", "measure"}
      <3>1. chunk_cnt = 0 /\ Chunks(Size[opened]) \in Nat
        BY <1>1, <2>1, <2>2, SizeFact DEF IInv, Stages
      <3>2. /\ StepsLeft = Chunks(Size[opened]) + StagesLeft /\ StepsLeft \in Nat
            /\ pc = "precheck" => StagesLeft = 5
            /\ pc = "measure" => StagesLeft = 4
        BY <2>2, <3>1 DEF StepsLeft, StagesLeft
      <3>3. CASE Precheck
        <4>1. pc = "precheck" /\ pc' = "measure" /\ chunk_cnt' = chunk_cnt
              /\ opened' = opened /\ failing' = failing
          BY <3>3 DEF Precheck
        <4>2. ~failing
          BY <1>1, <4>1 DEF IInv, Stages
        <4>3. StepsLeft' = Chunks(Size[opened]) + 4
          BY <3>1, <4>1 DEF StepsLeft, StagesLeft
        <4>4. QED
          BY <3>1, <3>2, <4>1, <4>2, <4>3
      <3>4. ASSUME NEW taken \in BOOLEAN, Measure(taken)
            PROVE  StepsLeft' < StepsLeft /\ opened' = opened /\ ~failing
        <4>1. /\ pc = "measure" /\ pc' = "header" /\ chunk_cnt' = chunk_cnt
              /\ opened' = opened /\ ~failing
          BY <3>4 DEF Measure
        <4>2. StepsLeft' = Chunks(Size[opened]) + 3
          BY <3>1, <4>1 DEF StepsLeft, StagesLeft
        <4>3. QED
          BY <3>1, <3>2, <4>1, <4>2
      <3>5. CASE MeasureFails
        <4>1. opened' = opened /\ ~failing
          BY <1>1, <3>5 DEF MeasureFails, IInv, TypeOK, vars, counters, ghosts
        <4>2. QED
          BY <3>2, <3>5, <4>1
      <3>6. ASSUME ~Precheck, ~\E taken \in BOOLEAN : Measure(taken), ~MeasureFails
            PROVE  pc' = "idle"
        BY <1>1, <2>2, <3>6 DEF Next, Command, Update, Failure, Start, Retry, PrecheckFails,
           HeaderFails, SendHeader, ReadFails, Turn, SendChunk, SendLastChunk,
           LeaveLoop, Install, PowerLoss, Restart
      <3>7. QED
        BY <3>2, <3>3, <3>4, <3>5, <3>6
    <2>3. CASE pc \notin {"precheck", "measure"}
      <3>1. state # "initial"
        BY <1>1, <2>1, <2>3 DEF IInv, Stages
      <3>2. PICK n \in Nat :
            /\ n = Chunks(Size[opened]) /\ n >= 2
            /\ chunk_cnt \in Nat /\ chunk_cnt <= n
            /\ state = "done" <=> chunk_cnt = n
            /\ pc = "header" => chunk_cnt < n
            /\ offset <= fw_image_size <=> chunk_cnt < n
        BY <1>1, <2>1, <2>3, <3>1, CountFact
      <3>3. StepsLeft = (n - chunk_cnt) + StagesLeft /\ StagesLeft \in 1 .. 3
        BY <2>1, <2>3, <3>2 DEF StepsLeft, StagesLeft
      <3>4. StepsLeft \in Nat
        BY <3>2, <3>3
      <3>10. ~failing
        BY <1>1, <2>3 DEF IInv, Stages
      <3>5. CASE SendHeader
        <4>1. /\ pc = "header" /\ pc' = "loop" /\ opened' = opened
              /\ chunk_cnt' = chunk_cnt
          BY <3>5 DEF SendHeader, SetChunks
        <4>2. QED
          BY <3>2, <3>3, <3>4, <3>10, <4>1 DEF StepsLeft, StagesLeft
      <3>6. CASE SendChunk \/ SendLastChunk
        <4>1. /\ pc = "loop" /\ pc' = "loop" /\ opened' = opened
              /\ chunk_cnt' = chunk_cnt + 1
          BY <3>6 DEF SendChunk, SendLastChunk, Turn, Advance
        <4>2. QED
          BY <3>2, <3>3, <3>4, <3>10, <4>1 DEF StepsLeft, StagesLeft
      <3>7. CASE LeaveLoop
        <4>1. pc = "loop" /\ offset > fw_image_size /\ opened' = opened
              /\ chunk_cnt' = chunk_cnt
          BY <3>7 DEF LeaveLoop, counters
        <4>2. fw_image_size \in Nat /\ offset \in Nat
          BY <1>1, <3>1, OpenFact, ImageFact DEF IInv, TypeOK
        <4>3. state = "done"
          BY <3>2, <4>1, <4>2
        <4>4. pc' = "install"
          BY <3>7, <4>3 DEF LeaveLoop
        <4>5. QED
          BY <3>2, <3>3, <3>4, <3>10, <4>1, <4>4 DEF StepsLeft, StagesLeft
      <3>8. ASSUME ~SendHeader, ~(SendChunk \/ SendLastChunk), ~LeaveLoop
            PROVE  pc' = "idle"
        BY <1>1, <2>3, <3>8 DEF Next, Command, Update, Failure, Start, Retry,
           PrecheckFails, Precheck, Measure, MeasureFails, HeaderFails, ReadFails, Install, PowerLoss, Restart
      <3>9. QED
        BY <3>4, <3>5, <3>6, <3>7, <3>8, <3>10
    <2>4. QED
      BY <2>2, <2>3
  <1>2. IInv /\ Counted /\ [Next]_vars => [Advances]_vars
    <2>1. CASE vars' = vars
      BY <2>1
    <2>2. CASE vars' # vars
      BY <1>1, <2>2
    <2>3. QED
      BY <2>1, <2>2
  <1>3. QED
    BY <1>2, ModemUpdateInvariant, ResumedCountsToo, PTL DEF Spec, UpdateAdvances

-----------------------------------------------------------------------------
(* The refinement                                                          *)

\* An update that no failed read interrupted is an image transfer: MurataDfu
\* implements ImageTransfer, for every size of the images.
THEOREM ModemRefinement == Spec => TransferSpec
  <1>1. Init => Transfer!XferInit
    BY DEF Init, Transfer!XferInit, Proper
  <1>2. ASSUME IInv, IInv', [Next]_vars
        PROVE  [Transfer!XferNext]_(Transfer!xferVars)
    <2> USE DEF Transfer!XferNext, Transfer!xferVars
    <2>1. Stages /\ Labels /\ Counters
      BY <1>2, TypeParts DEF IInv
    <2>2. ASSUME ~Proper, ~Proper' PROVE UNCHANGED Transfer!xferVars
      BY <2>2
    <2>3. ASSUME Proper, ~Proper' PROVE Transfer!Leave
      BY <2>3 DEF Transfer!Leave
    <2>4. Proper => Straight
      BY <2>1 DEF Proper, Stages, Straight
    <2>5. CASE Command \/ Precheck \/ PrecheckFails \/ MeasureFails \/ HeaderFails
               \/ \E taken \in BOOLEAN : Measure(taken)
      <3>1. pc \in {"idle", "precheck", "measure", "header"} /\ pc' \in {"idle", "precheck", "measure", "header"}
        BY <2>5 DEF Command, Start, Retry, Precheck, PrecheckFails, Measure, MeasureFails, HeaderFails
      <3>2. QED
        BY <2>2, <3>1 DEF Proper
    <2>6. CASE SendHeader
      <3>1. /\ ~Proper /\ opened' = opened /\ resumed' = resumed /\ pc = "header"
            /\ state' = state /\ state # "initial"
            /\ chunk_check' = Chunks(fw_image_size) /\ chunk_cnt' = chunk_cnt
        BY <2>1, <2>6 DEF SendHeader, SetChunks, Proper, ghosts, Stages
      <3>2. CASE ~Proper'
        BY <2>2, <3>1, <3>2
      <3>3. CASE Proper'
        <4>1. Straight
          BY <3>1, <3>3 DEF Proper, Straight
        <4>2. chunk_cnt = 0 /\ state = "upgrade"
          BY <1>2, <3>1, <4>1 DEF IInv, Position
        <4>3. Chunks(fw_image_size) \in Nat \ {0}
          BY <1>2, <4>1, StraightFact
        <4>4. Transfer!Begin
          BY <3>1, <3>3, <4>2, <4>3 DEF Transfer!Begin
        <4>5. QED
          BY <4>4
      <3>4. QED
        BY <3>2, <3>3
    <2>7. CASE SendChunk \/ SendLastChunk
      <3>1. /\ Turn /\ opened' = opened /\ resumed' = resumed /\ pc = "loop" /\ pc' = "loop"
            /\ chunk_check' = chunk_check /\ chunk_cnt' = chunk_cnt + 1
            /\ \/ IsLast /\ state' = "done"
               \/ ~IsLast /\ state' = state
        BY <2>7 DEF SendChunk, SendLastChunk, Advance, Turn
      <3>2. Proper' <=> Proper
        BY <3>1 DEF Proper
      <3>3. CASE ~Proper
        BY <2>2, <3>2, <3>3
      <3>4. CASE Proper
        <4>1. /\ chunk_cnt < chunk_check /\ chunk_check \in Nat /\ chunk_cnt \in Nat
              /\ IsLast <=> chunk_cnt + 1 = chunk_check
              /\ state = "upgrade"
          BY <1>2, <2>4, <3>1, <3>4, TurnFact
        <4>2. CASE IsLast
          <5>1. Transfer!Finish
            BY <3>1, <3>2, <3>4, <4>1, <4>2 DEF Transfer!Finish
          <5>2. QED
            BY <5>1
        <4>3. CASE ~IsLast
          <5>1. Transfer!Deliver
            BY <3>1, <3>2, <3>4, <4>1, <4>3 DEF Transfer!Deliver
          <5>2. QED
            BY <5>1
        <4>4. QED
          BY <4>2, <4>3
      <3>5. QED
        BY <3>3, <3>4
    <2>8. CASE Install \/ PowerLoss \/ ReadFails
      <3>1. pc' = "idle"
        BY <2>8 DEF Install, PowerLoss, ReadFails, Restart
      <3>2. ~Proper'
        BY <3>1 DEF Proper
      <3>3. QED
        BY <2>2, <2>3, <3>2
    <2>9. CASE LeaveLoop
      <3>1. /\ opened' = opened /\ resumed' = resumed /\ state' = state /\ pc = "loop"
            /\ chunk_check' = chunk_check /\ chunk_cnt' = chunk_cnt
            /\ pc' = IF state = "done" THEN "install" ELSE "header"
        BY <2>9 DEF LeaveLoop, counters, ghosts
      <3>2. Proper => state = "done"
        BY <1>2, <2>4, <2>9, LeaveFact
      <3>3. Proper' <=> Proper
        BY <3>1, <3>2 DEF Proper
      <3>4. QED
        BY <3>1, <3>3
    <2>10. CASE UNCHANGED vars
      BY <2>10 DEF vars, counters, ghosts, Proper
    <2>11. QED
      BY <1>2, <2>5, <2>6, <2>7, <2>8, <2>9, <2>10 DEF Next, Update, Failure
  <1>3. QED
    BY <1>1, <1>2, ModemUpdateInvariant, PTL
       DEF Spec, TransferSpec, Transfer!XferSpec

=============================================================================
