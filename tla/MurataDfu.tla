----------------------------- MODULE MurataDfu -----------------------------
(***************************************************************************)
(* The modem firmware writer (libs/dfu_murata_1sc/dfu_murata_1sc.c, with   *)
(* tmo dfu update 1): a delta image of the file system is measured, its    *)
(* size and CRC are announced to the modem, its header and then its        *)
(* payload are sent in pieces of 1 KiB, and the modem is told to install   *)
(* it and to restart.                                                      *)
(*                                                                         *)
(* The modem is external: announcing an image opens a transfer session,    *)
(* a header starts the payload over, a piece is appended to the payload.   *)
(* Every ioctl may fail; only the result for the header is looked at.      *)
(***************************************************************************)
EXTENDS Integers, Sequences

CONSTANTS
    Images,      \* the delta images in the file system
    Size,        \* Size[img]: length of the payload in bytes
    Target,      \* Target[img]: the version the name of the image asks for
    Versions,    \* versions of the modem firmware
    MaxU32,      \* (uint32_t)-1, or any number above the numbers of chunks
    None         \* no image

ASSUME ConstAssumption ==
    /\ Size \in [Images -> Nat]
    /\ Target \in [Images -> Versions]
    /\ None \notin Images
    /\ MaxU32 \in Nat /\ \A img \in Images : Size[img] < MaxU32

DFU_CHUNK_SIZE == 1024

\* Chunks of a payload of n bytes.
Chunks(n) == IF n % DFU_CHUNK_SIZE = 0 THEN n \div DFU_CHUNK_SIZE
                                       ELSE n \div DFU_CHUNK_SIZE + 1

VARIABLES
    modem,         \* version running on the modem and its transfer session
    state,         \* modem_app_cb.state
    opened,        \* the image modemfile is open on, or None
    fw_image_size, chunk_check, remainder, chunk_cnt, offset,
    fpos,          \* position of modemfile in the payload
    pc,            \* where the shell thread is inside the update
    failing,       \* every read of modemfile fails from now on
    lost,          \* ghost: the modem did not take a piece it was sent
    resumed        \* ghost: the payload was resumed after a failed read

counters == <<fw_image_size, chunk_check, remainder, chunk_cnt, offset>>
ghosts == <<lost, resumed>>
vars == <<modem, state, opened, counters, fpos, pc, failing, ghosts>>

\* A piece the modem is sent: which bytes of which image, and how many.
Piece(img, at, n) == [img |-> img, at |-> at, len |-> n]

\* The payload of an image as the modem has to receive it.
Payload(img) ==
    [i \in 1 .. Chunks(Size[img]) |->
        Piece(img, DFU_CHUNK_SIZE * (i - 1),
              IF i = Chunks(Size[img]) THEN Size[img] - DFU_CHUNK_SIZE * (i - 1)
                                       ELSE DFU_CHUNK_SIZE)]

NoSession == [announced |-> None, header |-> None, recv |-> <<>>, closed |-> FALSE]

Init ==
    /\ modem \in [version : Versions, session : {NoSession}]
    /\ state = "initial"
    /\ opened = None
    /\ fw_image_size = 0 /\ chunk_check = 0 /\ remainder = 0
    /\ chunk_cnt = 0 /\ offset = 0 /\ fpos = 0
    /\ pc = "idle"
    /\ failing = FALSE /\ lost = FALSE /\ resumed = FALSE

-----------------------------------------------------------------------------
(* dfu_modem_firmware_upgrade                                              *)

\* The name of the image must ask for another version than the one that
\* runs; a version that cannot be read differs from all (versionRead).
Accepted(img, versionRead) == versionRead => modem.version # Target[img]

\* tmo dfu update 1 <image> on a fresh state machine.  An update that is not
\* accepted, whose file is missing, or that finds modemfile open already
\* returns -1 and changes nothing.
Start(img, versionRead) ==
    /\ pc = "idle" /\ state = "initial"
    /\ Accepted(img, versionRead)
    /\ opened = None
    /\ opened' = img
    /\ pc' = "precheck"
    /\ UNCHANGED <<modem, state, counters, fpos, failing, ghosts>>

\* An update that failed in stage 2 is taken up again there: the file that
\* is open stays the one that is sent.
Retry(img, versionRead) ==
    /\ pc = "idle" /\ state = "upgrade"
    /\ Accepted(img, versionRead)
    /\ pc' = "header"
    /\ UNCHANGED <<modem, state, opened, counters, fpos, failing, ghosts>>

-----------------------------------------------------------------------------
(* dfu_modem_write_image                                                   *)

\* The file is shorter than a header or cannot be read: it stays open.
PrecheckFails ==
    /\ pc = "precheck"
    /\ fw_image_size' = 0
    /\ pc' = "idle"
    /\ UNCHANGED <<modem, state, opened, chunk_check, remainder, chunk_cnt,
                   offset, fpos, failing, ghosts>>

\* Stage 1: the header is read, and the loop that measures the payload entered.
Precheck ==
    /\ pc = "precheck"
    /\ fw_image_size' = 0
    /\ pc' = "measure"
    /\ UNCHANGED <<modem, state, opened, chunk_check, remainder, chunk_cnt,
                   offset, fpos, failing, ghosts>>

\* The loop ends at a read of 0 bytes only: a read that fails is repeated.  One
\* that fails once changes nothing; reads may also fail from some time on.
MeasureFails ==
    /\ pc = "measure"
    /\ failing' = TRUE
    /\ UNCHANGED <<modem, state, opened, counters, fpos, pc, ghosts>>

\* The payload is measured to its end and announced; the answers of the modem
\* are printed.
Measure(taken) ==
    /\ pc = "measure" /\ ~failing
    /\ fw_image_size' = Size[opened]
    /\ fpos' = Size[opened]
    /\ modem' = IF taken
                THEN [modem EXCEPT !.session = [NoSession EXCEPT !.announced = opened]]
                ELSE modem
    /\ lost' = ~taken
    /\ state' = "upgrade"
    /\ pc' = "header"
    /\ UNCHANGED <<opened, chunk_check, remainder, chunk_cnt, offset, failing,
                   resumed>>

\* Stage 2 begins: the file is rewound, but the header cannot be read, or the
\* modem refuses it; the update returns -1.
HeaderFails ==
    /\ pc = "header"
    /\ fpos' = 0
    /\ pc' = "idle"
    /\ UNCHANGED <<modem, state, opened, counters, failing, ghosts>>

\* Faulty variant: the remainder is not taken from the size.
F_SetChunks ==
    /\ chunk_check' = Chunks(fw_image_size)
    /\ remainder' = DFU_CHUNK_SIZE
    /\ UNCHANGED <<fw_image_size, chunk_cnt, offset>>

\* The total number of chunks and the bytes of the last one.
SetChunks ==
    /\ chunk_check' = Chunks(fw_image_size)
    /\ remainder' = fw_image_size % DFU_CHUNK_SIZE
    /\ UNCHANGED <<fw_image_size, chunk_cnt, offset>>

\* The header is taken and the chunk loop entered.
SendHeader ==
    /\ pc = "header"
    /\ fpos' = 0
    /\ modem' = [modem EXCEPT !.session.header = opened, !.session.recv = <<>>,
                              !.session.closed = FALSE]
    /\ SetChunks
    /\ pc' = "loop"
    /\ UNCHANGED <<state, opened, failing, ghosts>>

\* chunk_check - 1 in unsigned arithmetic.
LastChunk == IF chunk_check = 0 THEN MaxU32 ELSE chunk_check - 1

readsize == IF chunk_cnt < LastChunk THEN DFU_CHUNK_SIZE ELSE remainder

Turn == pc = "loop" /\ offset <= fw_image_size

\* fs_read fails: the update returns -1 with chunk_cnt and offset as they are.
ReadFails ==
    /\ Turn /\ readsize > 0
    /\ resumed' = (resumed \/ chunk_cnt > 0)
    /\ pc' = "idle"
    /\ UNCHANGED <<modem, state, opened, counters, fpos, failing, lost>>

\* The file position after a read of readsize bytes.
ReadTo == IF fpos + readsize > fw_image_size THEN fw_image_size ELSE fpos + readsize

\* SEND_FW_DATA: a piece is read and sent, or lost on the way to the modem.
SendPiece(last) ==
    /\ fpos' = ReadTo
    /\ \/ /\ modem' = [modem EXCEPT
                         !.session.recv = Append(@, Piece(opened, fpos, readsize)),
                         !.session.closed = last]
          /\ UNCHANGED lost
       \/ /\ UNCHANGED modem
          /\ lost' = TRUE

\* The end of a turn.
Advance ==
    /\ offset' = offset + DFU_CHUNK_SIZE
    /\ chunk_cnt' = chunk_cnt + 1
    /\ UNCHANGED <<fw_image_size, chunk_check, remainder>>

\* Faulty variant: the chunk before the last one closes the transfer.
F_IsLast == chunk_cnt # 0 /\ chunk_cnt = LastChunk - 1

IsLast == chunk_cnt # 0 /\ chunk_cnt = LastChunk

\* The first chunk and those in between.
SendChunk ==
    /\ Turn
    /\ ~IsLast
    /\ SendPiece(FALSE)
    /\ Advance
    /\ UNCHANGED <<state, opened, pc, failing, resumed>>

\* "Finalizing remainder chunk"
SendLastChunk ==
    /\ Turn
    /\ IsLast
    /\ SendPiece(TRUE)
    /\ state' = "done"
    /\ Advance
    /\ UNCHANGED <<opened, pc, failing, resumed>>

\* Faulty variant: the state machine is not looked at again.
F_LeaveLoop ==
    /\ pc = "loop" /\ offset > fw_image_size
    /\ pc' = "header"
    /\ UNCHANGED <<modem, state, opened, counters, fpos, failing, ghosts>>

\* The chunk loop ends; the state machine goes on to stage 3 or stays in 2.
LeaveLoop ==
    /\ pc = "loop" /\ offset > fw_image_size
    /\ pc' = IF state = "done" THEN "install" ELSE "header"
    /\ UNCHANGED <<modem, state, opened, counters, fpos, failing, ghosts>>

\* Everything the library keeps in RAM has its initial value again.
Restart ==
    /\ state' = "initial"
    /\ opened' = None
    /\ fw_image_size' = 0 /\ chunk_check' = 0 /\ remainder' = 0
    /\ chunk_cnt' = 0 /\ offset' = 0 /\ fpos' = 0
    /\ pc' = "idle"
    /\ failing' = FALSE /\ lost' = FALSE /\ resumed' = FALSE

\* What the modem checks before it installs: the session is closed and its
\* payload is the announced image.
Installable(s) == /\ s.announced # None /\ s.header = s.announced
                  /\ s.closed /\ s.recv = Payload(s.announced)

\* Stage 3: the modem is told to install and to restart; the answers are
\* printed; the file is closed and the device reboots.
Install ==
    /\ pc = "install"
    /\ modem' = [version |-> IF Installable(modem.session)
                             THEN Target[modem.session.announced] ELSE modem.version,
                 session |-> NoSession]
    /\ Restart

PowerLoss == Restart /\ UNCHANGED modem

-----------------------------------------------------------------------------
Command == \E img \in Images, versionRead \in BOOLEAN :
               Start(img, versionRead) \/ Retry(img, versionRead)

Update ==
    \/ Precheck
    \/ \E taken \in BOOLEAN : Measure(taken)
    \/ SendHeader \/ SendChunk \/ SendLastChunk \/ LeaveLoop \/ Install

Failure == PrecheckFails \/ MeasureFails \/ HeaderFails \/ ReadFails \/ PowerLoss

Next == Command \/ Update \/ Failure

Spec == Init /\ [][Next]_vars

\* The shell thread is scheduled: an update that has begun goes on.
FairSpec == Spec /\ WF_vars(Update)

-----------------------------------------------------------------------------
(* Properties                                                              *)

Pieces == [img : Images, at : 0 .. MaxU32, len : 0 .. DFU_CHUNK_SIZE]
Sessions == [announced : Images \cup {None}, header : Images \cup {None},
             recv : Seq(Pieces), closed : BOOLEAN]

\* The values the variables range over.
TypeOK ==
    /\ modem \in [version : Versions, session : Sessions]
    /\ state \in {"initial", "upgrade", "done"}
    /\ opened \in Images \cup {None}
    /\ fw_image_size \in 0 .. MaxU32 /\ remainder \in 0 .. (DFU_CHUNK_SIZE - 1)
    /\ chunk_check \in 0 .. MaxU32 /\ chunk_cnt \in 0 .. MaxU32
    /\ offset \in Nat /\ fpos \in 0 .. MaxU32
    /\ pc \in {"idle", "precheck", "measure", "header", "loop", "install"}
    /\ failing \in BOOLEAN /\ lost \in BOOLEAN /\ resumed \in BOOLEAN

\* Images the chunk loop is right for: several chunks, the last one not full.
Regular(img) == Size[img] > DFU_CHUNK_SIZE /\ Size[img] % DFU_CHUNK_SIZE # 0

\* The modem is told to install only what it can install: the whole payload
\* of the announced image, each piece once and in order, unless a piece was
\* lost on the way or the update was resumed after a failed read.  Resumed or not,
\* the payload in the modem never belongs to another image than the header, nor the
\* header to another image than the announced size and CRC.
InstallsWholeImage ==
    LET s == modem.session IN
    /\ TypeOK
    /\ pc = "install" /\ Regular(opened) /\ ~lost /\ ~resumed => Installable(s)
    /\ ~lost /\ pc \in {"loop", "install"} =>
           /\ s.header = opened /\ s.announced = opened
           /\ \A i \in 1 .. Len(s.recv) : s.recv[i].img = s.header

\* An update that has begun ends, by an installation or with an error, or else
\* it hangs where it measures the image: when reads fail there for good, they
\* are repeated for ever (and there only: elsewhere a failed read is an error).
UpdateEnds == (pc # "idle" /\ Regular(opened)) ~>
                  \/ pc = "idle"
                  \/ [](failing /\ pc = "measure")

\* A transfer that the chunk loop is right for and that was not resumed.
Proper == pc \in {"loop", "install"} /\ Regular(opened) /\ ~resumed

\* An update is an image transfer.
Transfer == INSTANCE ImageTransfer WITH
    phase <- IF ~Proper THEN "idle" ELSE IF state = "done" THEN "done" ELSE "sending",
    total <- IF Proper THEN chunk_check ELSE 0,
    sent  <- IF Proper THEN chunk_cnt ELSE 0

\* MurataDfu implements ImageTransfer.
TransferSpec == Transfer!XferSpec

=============================================================================
