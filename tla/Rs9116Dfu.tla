----------------------------- MODULE Rs9116Dfu -----------------------------
(***************************************************************************)
(* The WiFi firmware writer (libs/dfu_rs9116w/dfu_rs9116w.c, with tmo dfu  *)
(* update 2): an image of the file system is handed to the bootloader of   *)
(* the RS9116W in chunks of 4 KiB.  The size of the image is taken from    *)
(* the header in its first chunk.  The device reboots after the command,   *)
(* whatever came of it.                                                    *)
(*                                                                         *)
(* The bootloader is external: it takes a chunk or refuses it.             *)
(***************************************************************************)
EXTENDS Integers, Sequences

CONSTANTS
    Images,      \* what can be downloaded to /tmo/rs9116_file.rps
    Size,        \* Size[img]: image_size in the header of the image
    FileLen,     \* FileLen[img]: bytes of the file, fewer if it was cut short
    Words,       \* what chunks other than the first hold where a header
                 \* has its image_size
    MaxU32,      \* (uint32_t)-1, or any number above the sizes
    None         \* no image

ASSUME RpsAssumption ==
    /\ MaxU32 \in Nat \ {0}
    /\ Size \in [Images -> 0 .. (MaxU32 - 1)]
    /\ FileLen \in [Images -> 0 .. (MaxU32 - 1)]
    /\ \A img \in Images : FileLen[img] > 0
    /\ Words \subseteq 0 .. (MaxU32 - 1)
    /\ None \notin Images

RSI_CHUNK_SIZE == 4096

\* Chunks of an image of n bytes.
Chunks(n) == IF n % RSI_CHUNK_SIZE = 0 THEN n \div RSI_CHUNK_SIZE
                                       ELSE n \div RSI_CHUNK_SIZE + 1

\* Content of a cleared buffer; chunks are numbered from 0.
Zeros == -1

VARIABLES
    taken,         \* the chunks the bootloader took, each with its flag
    image,         \* the image rs9116file is open on, or None
    fpos,          \* chunks of the file read so far
    recv_buffer,   \* the chunk the buffer holds
    state,         \* rs9116w_app_cb.state
    fw_image_size, chunk_check, chunk_cnt, offset,
    dfu_pc,            \* where the shell thread is inside the command
    disturbed      \* ghost: a chunk was refused

counters == <<fw_image_size, chunk_check, chunk_cnt, offset>>
wifiVars == <<taken, image, fpos, recv_buffer, state, counters, dfu_pc, disturbed>>

\* Chunks of the file that is open.
FileChunks == (FileLen[image] + RSI_CHUNK_SIZE - 1) \div RSI_CHUNK_SIZE

WifiInit ==
    /\ taken = <<>> /\ image = None /\ fpos = 0 /\ recv_buffer = Zeros
    /\ state = "initial"
    /\ fw_image_size = 0 /\ chunk_check = 0 /\ chunk_cnt = 0 /\ offset = 0
    /\ dfu_pc = "idle" /\ disturbed = FALSE

\* tmo dfu update 2: the bootloader is entered and the file opened.
Start(img) ==
    /\ dfu_pc = "idle"
    /\ image' = img /\ taken' = <<>>
    /\ dfu_pc' = "header"
    /\ UNCHANGED <<fpos, recv_buffer, state, counters, disturbed>>

\* The file is missing: the update returns 1.
FileMissing ==
    /\ dfu_pc = "idle"
    /\ dfu_pc' = "reported"
    /\ UNCHANGED <<taken, image, fpos, recv_buffer, state, counters, disturbed>>

\* file_read_flash: the next chunk, or nothing at the end of the file.
file_read_flash ==
    IF fpos < FileChunks THEN recv_buffer' = fpos /\ fpos' = fpos + 1
                         ELSE UNCHANGED <<recv_buffer, fpos>>

\* get_rs9116_fw_size: the word of the buffer where a header has the size.
SizeIn(chunk) == CASE chunk = 0 -> {Size[image]}
                   [] chunk = Zeros -> {0}
                   [] OTHER -> Words

\* Faulty variant: chunk_check counts the chunks behind the first.
F_SetChunks ==
    /\ fw_image_size' \in SizeIn(recv_buffer')
    /\ chunk_check' = Chunks(fw_image_size') - 1

\* The number of chunks according to the header.
SetChunks ==
    /\ fw_image_size' \in SizeIn(recv_buffer')
    /\ chunk_check' = Chunks(fw_image_size')

\* Case RS9116W_FW_UPGRADE: a chunk is read and its size field taken; this is
\* the header of the image only the first time.
ReadHeader ==
    /\ dfu_pc = "header"
    /\ state' = "upgrade"
    /\ file_read_flash
    /\ SetChunks
    /\ dfu_pc' = "loop"
    /\ UNCHANGED <<taken, image, chunk_cnt, offset, disturbed>>

Turn == dfu_pc = "loop" /\ offset <= fw_image_size

\* fs_read fails: the update returns -1.
ReadFails ==
    /\ dfu_pc = "header" \/ (Turn /\ chunk_cnt # 0)
    /\ dfu_pc' = "reported"
    /\ UNCHANGED <<taken, image, fpos, recv_buffer, state, counters, disturbed>>

\* The flag a chunk is sent with.  chunk_check - 1 wraps around for 0.
Flag == IF chunk_cnt = 0 THEN "start"
        ELSE IF chunk_check # 0 /\ chunk_cnt = chunk_check - 1 THEN "end"
        ELSE "between"

\* Faulty variant: the first turn reads a chunk as well.
F_Reads == fpos < FileChunks

\* Every turn but the first reads the chunk it sends; at the end of the file
\* nothing is read and the buffer is sent as it is.
Reads == chunk_cnt # 0 /\ fpos < FileChunks

\* A chunk is sent and taken; the buffer is cleared.
SendChunk ==
    /\ Turn
    /\ taken' = Append(taken, [chunk |-> IF Reads THEN fpos ELSE recv_buffer,
                               flag |-> Flag])
    /\ fpos' = IF Reads THEN fpos + 1 ELSE fpos
    /\ recv_buffer' = Zeros
    /\ state' = IF Flag = "end" THEN "done" ELSE state
    /\ offset' = offset + RSI_CHUNK_SIZE
    /\ chunk_cnt' = chunk_cnt + 1
    /\ UNCHANGED <<image, fw_image_size, chunk_check, dfu_pc, disturbed>>

\* A chunk is refused: the first ends the update, any other only the chunk
\* loop, and the state machine enters its case again.
ChunkRefused ==
    /\ Turn
    /\ IF Reads THEN file_read_flash ELSE UNCHANGED <<recv_buffer, fpos>>
    /\ disturbed' = TRUE
    /\ dfu_pc' = CASE chunk_cnt = 0 -> "reported"
               [] state = "done" -> "done"
               [] OTHER -> "header"
    /\ UNCHANGED <<taken, image, state, counters>>

\* Faulty variant: the state machine is not looked at again.
F_LeaveLoop ==
    /\ dfu_pc = "loop" /\ offset > fw_image_size
    /\ dfu_pc' = "header"
    /\ UNCHANGED <<taken, image, fpos, recv_buffer, state, counters, disturbed>>

\* The chunk loop ends; so does the update when the last chunk was sent.
LeaveLoop ==
    /\ dfu_pc = "loop" /\ offset > fw_image_size
    /\ dfu_pc' = IF state = "done" THEN "done" ELSE "header"
    /\ UNCHANGED <<taken, image, fpos, recv_buffer, state, counters, disturbed>>

\* Everything the library keeps in RAM has its initial value again.
Restart ==
    /\ taken' = <<>> /\ image' = None /\ fpos' = 0 /\ recv_buffer' = Zeros
    /\ state' = "initial"
    /\ fw_image_size' = 0 /\ chunk_check' = 0 /\ chunk_cnt' = 0 /\ offset' = 0
    /\ dfu_pc' = "idle" /\ disturbed' = FALSE

\* The update was completed, or the shell says it was; the device reboots.
Reboot == dfu_pc \in {"done", "reported"} /\ Restart

PowerLoss == dfu_pc # "idle" /\ Restart

-----------------------------------------------------------------------------
WifiCommand == \E img \in Images : Start(img)
Update == ReadHeader \/ SendChunk \/ LeaveLoop \/ Reboot
Failure == FileMissing \/ ReadFails \/ ChunkRefused \/ PowerLoss
WifiNext == WifiCommand \/ Update \/ Failure

WifiSpec == WifiInit /\ [][WifiNext]_wifiVars

\* The shell thread is scheduled: an update that has begun goes on.
WifiFairSpec == WifiSpec /\ WF_wifiVars(Update)

-----------------------------------------------------------------------------
(* Properties                                                              *)

Chunk == [chunk : {Zeros} \cup 0 .. MaxU32, flag : {"start", "between", "end"}]

\* The values the variables range over.
WifiTypeOK ==
    /\ taken \in Seq(Chunk)
    /\ image \in Images \cup {None}
    /\ fpos \in 0 .. MaxU32
    /\ recv_buffer \in {Zeros} \cup 0 .. MaxU32
    /\ state \in {"initial", "upgrade", "done"}
    /\ fw_image_size \in 0 .. (MaxU32 - 1)
    /\ chunk_check \in 0 .. MaxU32 /\ chunk_cnt \in 0 .. MaxU32
    /\ offset \in 0 .. (MaxU32 + RSI_CHUNK_SIZE)
    /\ dfu_pc \in {"idle", "header", "loop", "done", "reported"}
    /\ disturbed \in BOOLEAN

\* The bootloader has the whole image: every chunk once, in order, the first
\* one flagged as the start and the last one as the end.
Whole ==
    LET n == Chunks(Size[image]) IN
    taken = [i \in 1 .. n |-> [chunk |-> i - 1,
                               flag |-> IF i = 1 THEN "start"
                                        ELSE IF i = n THEN "end" ELSE "between"]]

\* Images the chunk loop is right for: the file is as long as its header says,
\* and it has several chunks, the last one not full.
Regular(img) ==
    /\ FileLen[img] = Size[img]
    /\ Size[img] > RSI_CHUNK_SIZE /\ Size[img] % RSI_CHUNK_SIZE # 0

\* An update without refused chunks of such an image.
Proper == image # None /\ Regular(image) /\ ~disturbed

\* The update is declared complete only when the bootloader has the whole image, and
\* nothing follows the chunk flagged as the end ("finalizing with last chunk").
CompleteMeansWhole ==
    /\ WifiTypeOK
    /\ dfu_pc = "done" /\ Proper => Whole
    /\ Proper => \A i \in 1 .. Len(taken) : taken[i].flag = "end" => i = Len(taken)

\* A command that has begun ends, and the device reboots.
UpdateEnds == (dfu_pc # "idle" /\ Proper) ~> (dfu_pc = "idle" \/ disturbed)

\* An update is an image transfer.
Sending == dfu_pc \in {"loop", "done"} /\ Proper
Transfer == INSTANCE ImageTransfer WITH
    phase <- IF ~Sending THEN "idle" ELSE IF state = "done" THEN "done" ELSE "sending",
    total <- IF Sending THEN chunk_check ELSE 0,
    sent  <- IF Sending THEN chunk_cnt ELSE 0

\* Rs9116Dfu implements ImageTransfer.
TransferSpec == Transfer!XferSpec

-----------------------------------------------------------------------------
(* The inductive invariant                                                 *)

\* What the library knows in each stage: every boot sees one update at most, and the
\* offset is that of the next chunk.
Stages ==
    /\ offset = RSI_CHUNK_SIZE * chunk_cnt
    /\ dfu_pc \in {"header", "loop", "done"} => image \in Images
    /\ dfu_pc = "idle" => image = None /\ fpos = 0 /\ recv_buffer = Zeros /\ state = "initial"
                      /\ chunk_cnt = 0 /\ taken = <<>> /\ ~disturbed

\* Where a proper update is: the header is read once, and what follows is the size, the
\* number of the chunk in the buffer, and the state that says that the last one was sent.
Position ==
    Proper =>
        /\ dfu_pc = "header" => /\ fpos = 0 /\ recv_buffer = Zeros /\ state = "initial"
                            /\ chunk_cnt = 0
        /\ dfu_pc \in {"loop", "done"} =>
               /\ fw_image_size = Size[image]
               /\ chunk_check = Chunks(Size[image])
               /\ state \in {"upgrade", "done"}
               /\ state = "done" <=> chunk_cnt = chunk_check
               /\ fpos = IF chunk_cnt = 0 THEN 1 ELSE chunk_cnt
               /\ chunk_cnt = 0 => recv_buffer = 0
        /\ dfu_pc = "done" => state = "done"

\* What is sent as chunk number i of n.
NthChunk(i, n) == [chunk |-> i - 1,
                   flag |-> IF i = 1 THEN "start" ELSE IF i = n THEN "end" ELSE "between"]

\* The bootloader has taken the chunks that were sent, each once and in order.
Content ==
    Proper =>
        /\ chunk_cnt <= Chunks(Size[image])
        /\ Len(taken) = chunk_cnt
        /\ \A i \in 1 .. chunk_cnt : taken[i] = NthChunk(i, Chunks(Size[image]))

WifiIInv == WifiTypeOK /\ Stages /\ Position /\ Content

=============================================================================
