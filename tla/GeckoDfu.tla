------------------------------ MODULE GeckoDfu ------------------------------
(***************************************************************************)
(* The MCU firmware writer (libs/dfu_gecko/dfu_gecko_lib.c) with the shell *)
(* commands that drive it (tmo dfu update 0, tmo bootloader erase): an     *)
(* image file of the file system is verified against its SHA-1 file and    *)
(* programmed, 2 KiB page by page, into one of the two image slots of the  *)
(* internal flash; the device then reboots.                                *)
(*                                                                         *)
(* Flash and files survive a reboot or a power loss; the file-scope        *)
(* statics of the library do not.  A page holds the i-th 2 KiB piece of an *)
(* image (<<img, i>>) or Bad when it was erased or programmed only in      *)
(* part.                                                                   *)
(***************************************************************************)
EXTENDS Integers

CONSTANTS
    Images,      \* the binaries that can be downloaded
    Genuine,     \* the binaries whose digest was published
    Size,        \* Size[img]: length of a binary in bytes
    SlotPages,   \* pages of one slot; slot 1 follows slot 0 in the flash
    MaxU32,      \* (uint32_t)-1, or any number above the sizes of the images
    CntCap,      \* bound of the model: chunk_cnt is not counted beyond it
    Bad,         \* content of an erased or half-written page
    NoFile       \* the file does not exist

Slots == 0..1
DFU_CHUNK_SIZE == 2048
DFU_SHA1_LEN == 20

\* Faulty variant: the remainder gets no chunk of its own.
F_Chunks(n) == n \div DFU_CHUNK_SIZE

\* Chunks of an image of n bytes, as dfu_gecko_write_image counts them.
Chunks(n) == IF n % DFU_CHUNK_SIZE = 0 THEN n \div DFU_CHUNK_SIZE
                                       ELSE n \div DFU_CHUNK_SIZE + 1

FlashPages == 0 .. (2 * SlotPages - 1)

\* First page of a slot (GECKO_IMAGE_SLOT_0_SECTOR, GECKO_IMAGE_SLOT_1_SECTOR).
Sector(s) == s * SlotPages

SlotAddrs(s) == Sector(s) .. (Sector(s) + SlotPages - 1)

ASSUME ConstAssumption ==
    /\ Genuine \subseteq Images
    /\ NoFile \notin Images
    /\ Size \in [Images -> 1 .. (MaxU32 - 1)]
    /\ SlotPages \in Nat \ {0}
    /\ CntCap \in Nat /\ MaxU32 \in Nat
    /\ \A img \in Images : Chunks(Size[img]) < CntCap
    /\ \A img \in Images, i \in 0 .. CntCap : Bad # <<img, i>>

VARIABLES
    flash,         \* flash[a]: content of page a of the two slots
    running,       \* slot the running firmware was booted from (BOOT_SLOT)
    file,          \* file[s]: zephyr.slot<s>.bin and its .sha1 file
    binOpen,       \* geckofile is open
    shaOpen,       \* gecko_sha1_file is open
    state,         \* gecko_app_cb.state
    requested,     \* requested_slot_to_upgrade
    fw_image_size, chunk_check, chunk_cnt, offset, readbytes,
    page,          \* static page counter of write_image_chunk_to_flash
    fpos,          \* read position of geckofile
    pc,            \* where the shell thread is inside the update
    faulted,       \* ghost: a page operation of this update did not take
    forced,        \* ghost: the running slot was erased with force
    overrun        \* ghost: a page behind the slot being updated was programmed

persistent == <<flash, running, file>>
handles == <<binOpen, shaOpen>>
counters == <<fw_image_size, chunk_check, chunk_cnt, offset, readbytes, page, fpos>>
ghosts == <<faulted, forced, overrun>>
vars == <<persistent, handles, state, requested, counters, pc, ghosts>>

\* The image the current update reads.
Img == file[requested].img

\* The flash page the next chunk goes to.
page_addr == Sector(requested) + page

Header(img) == <<img, 0>>

\* A slot whose first page carries an image header (IMAGE_MAGIC).
Bootable(fl, s) == fl[Sector(s)] \in {Header(img) : img \in Images}

Init ==
    /\ running \in Slots
    /\ \E img \in {g \in Genuine : Chunks(Size[g]) <= SlotPages} :
          flash = [a \in FlashPages |->
                     IF a - Sector(running) \in 0 .. (Chunks(Size[img]) - 1)
                     THEN <<img, a - Sector(running)>> ELSE Bad]
    /\ file = [s \in Slots |-> [img |-> NoFile, sha |-> NoFile]]
    /\ binOpen = FALSE /\ shaOpen = FALSE
    /\ state = "initial" /\ requested = -1
    /\ fw_image_size = 0 /\ chunk_check = 0 /\ chunk_cnt = 0 /\ offset = 0
    /\ readbytes = 0 /\ page = 0 /\ fpos = 0
    /\ pc = "idle"
    /\ faulted = FALSE /\ forced = FALSE /\ overrun = FALSE

-----------------------------------------------------------------------------
(* Shell commands.  The shell runs them one at a time.                     *)

\* tmo dfu download 0: the two files of a slot are replaced.  The binary may
\* have been damaged on the way; the digest is one that was published.
Download(s, img, sha) ==
    /\ pc = "idle"
    /\ file' = [file EXCEPT ![s] = [img |-> img, sha |-> sha]]
    /\ UNCHANGED <<flash, running, handles, state, requested, counters, pc, ghosts>>

\* Faulty variant: only the slot number is validated.
F_slot_is_safe_to_erase(s) == s \in Slots

slot_is_safe_to_erase(s) == s # running

\* tmo bootloader erase <slot> [force]: only the first page is erased.
EraseSlot(s, force) ==
    /\ pc = "idle"
    /\ force \/ slot_is_safe_to_erase(s)
    /\ flash' = [flash EXCEPT ![Sector(s)] = Bad]
    /\ forced' = (forced \/ ~slot_is_safe_to_erase(s))
    /\ UNCHANGED <<running, file, handles, state, requested, counters, pc, faulted,
                   overrun>>

\* Faulty variant: the running slot is not excluded.
F_UpdateAllowed(s) == pc = "idle" /\ s \in Slots

\* tmo dfu update 0 <slot> is refused for the slot it runs from.
UpdateAllowed(s) == pc = "idle" /\ s # running

\* The file system refuses to open an object that is open already.
CanOpen(isOpen, f) == ~isOpen /\ f # NoFile

\* The binary cannot be opened: the update returns 1.
OpenBinFails(s) ==
    /\ UpdateAllowed(s)
    /\ ~CanOpen(binOpen, file[s].img)
    /\ requested' = s
    /\ UNCHANGED <<persistent, handles, state, counters, pc, ghosts>>

\* The digest cannot be opened: the update returns 1 and leaves the binary open.
OpenShaFails(s) ==
    /\ UpdateAllowed(s)
    /\ CanOpen(binOpen, file[s].img)
    /\ ~CanOpen(shaOpen, file[s].sha)
    /\ requested' = s
    /\ binOpen' = TRUE
    /\ fpos' = 0
    /\ UNCHANGED <<persistent, shaOpen, state, fw_image_size, chunk_check, chunk_cnt,
                   offset, readbytes, page, pc, ghosts>>

\* Both are open: the page counter and the byte counts start again.
OpenFiles(s) ==
    /\ UpdateAllowed(s)
    /\ CanOpen(binOpen, file[s].img)
    /\ CanOpen(shaOpen, file[s].sha)
    /\ requested' = s
    /\ binOpen' = TRUE /\ shaOpen' = TRUE
    /\ fpos' = 0 /\ page' = 0 /\ readbytes' = 0
    /\ faulted' = FALSE
    /\ pc' = "verify"
    /\ UNCHANGED <<persistent, state, fw_image_size, chunk_check, chunk_cnt, offset,
                   forced, overrun>>

-----------------------------------------------------------------------------
(* dfu_gecko_write_image                                                   *)

\* Faulty variant: a digest file is required but not compared.
F_DigestMatches == state = "initial"

\* The digest get_gecko_fw_size leaves in gecko_sha1_output after reading
\* the whole file: that of the image when the context was started for this
\* pass (only GECKO_INITIAL_STATE starts it), else of something longer.
DigestMatches == state = "initial" /\ file[requested].sha = Img

\* The file cannot be read to its end: its size becomes (uint32_t)-1, which
\* is not too small, and the digest stays zero, which matches nothing.
SizeUnreadable ==
    /\ pc = "verify"
    /\ state' = "upgrade"
    /\ fw_image_size' = MaxU32
    /\ readbytes' = 2 * DFU_SHA1_LEN
    /\ pc' = "idle"
    /\ UNCHANGED <<persistent, handles, requested, chunk_check, chunk_cnt, offset,
                   page, fpos, ghosts>>

\* Too small, or the digest differs: the update returns -1, both files open.
VerifyFails ==
    /\ pc = "verify"
    /\ Size[Img] < DFU_CHUNK_SIZE \/ ~DigestMatches
    /\ state' = "upgrade"
    /\ fw_image_size' = Size[Img]
    /\ fpos' = Size[Img]
    /\ readbytes' = IF Size[Img] < DFU_CHUNK_SIZE THEN 0 ELSE 2 * DFU_SHA1_LEN
    /\ pc' = "idle"
    /\ UNCHANGED <<persistent, handles, requested, chunk_check, chunk_cnt, offset,
                   page, ghosts>>

\* The image is accepted; the file is rewound and the chunk loop entered.
VerifyOk ==
    /\ pc = "verify"
    /\ Size[Img] >= DFU_CHUNK_SIZE
    /\ DigestMatches
    /\ state' = "upgrade"
    /\ fw_image_size' = Size[Img]
    /\ chunk_check' = Chunks(Size[Img])
    /\ fpos' = 0
    /\ readbytes' = 0
    /\ pc' = "loop"
    /\ UNCHANGED <<persistent, handles, requested, chunk_cnt, offset, page, ghosts>>

\* The flash with page a replaced; what lies behind slot 1 is not looked at.
Put(a, content) == IF a \in FlashPages THEN [flash EXCEPT ![a] = content] ELSE flash

\* The pages are counted without a look at the length of the slot: those of an
\* image that is too long for slot 0 go on into slot 1.
Overruns == page_addr \notin SlotAddrs(requested)

\* What flash_erase and flash_write leave in the page of the next chunk.  Their
\* failures, and that of the read-back, are printed and not acted upon.
ProgramPage ==
    /\ \/ /\ flash' = Put(page_addr, <<Img, page>>)
          /\ UNCHANGED faulted
       \/ /\ flash' \in {flash, Put(page_addr, Bad)}
          /\ faulted' = TRUE
    /\ overrun' = (overrun \/ Overruns)

\* Bytes fs_read returns for a request of one chunk.
ReadLen == IF fw_image_size - fpos < DFU_CHUNK_SIZE THEN fw_image_size - fpos
                                                    ELSE DFU_CHUNK_SIZE

\* file_read_flash: read one chunk and, unless at the end, program it.
file_read_flash ==
    /\ readbytes' = ReadLen
    /\ fpos' = fpos + ReadLen
    /\ IF ReadLen > 0
       THEN ProgramPage /\ page' = page + 1
       ELSE UNCHANGED <<flash, faulted, overrun, page>>

\* Faulty variant: the turns are not counted.
F_NextCount == chunk_cnt

\* chunk_cnt saturates at CntCap: beyond chunk_check its value is not tested.
NextCount == IF chunk_cnt < CntCap THEN chunk_cnt + 1 ELSE chunk_cnt

\* The first turn of the loop reads nothing.
FirstTurn ==
    /\ pc = "loop" /\ chunk_cnt = 0 /\ offset <= fw_image_size
    /\ offset' = offset + readbytes
    /\ chunk_cnt' = NextCount
    /\ UNCHANGED <<persistent, handles, state, requested, fw_image_size, chunk_check,
                   readbytes, page, fpos, pc, ghosts>>

\* A turn that programs one page and goes on with the loop.
InBetweenTurn ==
    /\ pc = "loop" /\ chunk_cnt # 0 /\ offset <= fw_image_size
    /\ chunk_cnt # chunk_check - 1
    /\ file_read_flash
    /\ offset' = offset + readbytes'
    /\ chunk_cnt' = NextCount
    /\ UNCHANGED <<running, file, handles, state, requested, fw_image_size,
                   chunk_check, pc, forced>>

\* Faulty variant: the last turn programs a single page.
F_LastTurn ==
    /\ pc = "loop" /\ chunk_cnt # 0 /\ offset <= fw_image_size
    /\ chunk_cnt = chunk_check - 1
    /\ file_read_flash
    /\ state' = "done" /\ pc' = "done"
    /\ UNCHANGED <<running, file, handles, requested, fw_image_size, chunk_check,
                   chunk_cnt, offset, forced>>

\* The last turn programs a page here and another one in LastChunk.
LastTurn ==
    /\ pc = "loop" /\ chunk_cnt # 0 /\ offset <= fw_image_size
    /\ chunk_cnt = chunk_check - 1
    /\ file_read_flash
    /\ pc' = "last"
    /\ UNCHANGED <<running, file, handles, state, requested, fw_image_size,
                   chunk_check, chunk_cnt, offset, forced>>

\* "Writing last chunk": the update is declared a success.
LastChunk ==
    /\ pc = "last"
    /\ file_read_flash
    /\ state' = "done"
    /\ pc' = "done"
    /\ UNCHANGED <<running, file, handles, requested, fw_image_size, chunk_check,
                   chunk_cnt, offset, forced>>

\* fs_read fails while programming: the update returns -1, both files open.
ReadFails ==
    /\ \/ pc = "loop" /\ chunk_cnt # 0
       \/ pc = "last"
    /\ readbytes' = -1
    /\ pc' = "idle"
    /\ UNCHANGED <<persistent, handles, state, requested, fw_image_size, chunk_check,
                   chunk_cnt, offset, page, fpos, ghosts>>

-----------------------------------------------------------------------------
(* Reboot and power loss                                                   *)

\* The bootloader starts one of the slots that carry an image header, if any;
\* everything the library keeps in RAM has its initial value again.
Boot(fl) ==
    /\ IF \E s \in Slots : Bootable(fl, s)
       THEN running' \in {s \in Slots : Bootable(fl, s)} /\ pc' = "idle"
       ELSE UNCHANGED running /\ pc' = "bricked"
    /\ binOpen' = FALSE /\ shaOpen' = FALSE
    /\ state' = "initial" /\ requested' = -1
    /\ fw_image_size' = 0 /\ chunk_check' = 0 /\ chunk_cnt' = 0 /\ offset' = 0
    /\ readbytes' = 0 /\ page' = 0 /\ fpos' = 0
    /\ faulted' = FALSE

\* GECKO_FW_UPGRADE_DONE: sys_reboot.
Reboot ==
    /\ pc = "done"
    /\ Boot(flash)
    /\ UNCHANGED <<flash, file, forced, overrun>>

\* Some turn of the loop is about to read from the file.
Reading == pc = "last" \/ (pc = "loop" /\ chunk_cnt # 0)

\* Power is lost, possibly while a page is being erased and programmed.
PowerLoss ==
    /\ \/ UNCHANGED <<flash, overrun>>
       \/ /\ Reading /\ ReadLen > 0
          /\ flash' = Put(page_addr, Bad)
          /\ overrun' = (overrun \/ Overruns)
    /\ Boot(flash')
    /\ UNCHANGED <<file, forced>>

-----------------------------------------------------------------------------
Command ==
    \E s \in Slots :
        \/ \E img \in Images, sha \in Genuine : Download(s, img, sha)
        \/ \E img \in Images : Download(s, img, NoFile)
        \/ \E force \in BOOLEAN : EraseSlot(s, force)
        \/ OpenBinFails(s)
        \/ OpenShaFails(s)
        \/ OpenFiles(s)

Update ==
    \/ VerifyFails \/ VerifyOk
    \/ FirstTurn \/ InBetweenTurn \/ LastTurn \/ LastChunk
    \/ Reboot

\* What may go wrong, and need not.
Failure == SizeUnreadable \/ ReadFails \/ PowerLoss

Next == Command \/ Update \/ Failure

Spec == Init /\ [][Next]_vars

\* The shell thread is scheduled: an update that has begun goes on.
FairSpec == Spec /\ WF_vars(Update)

-----------------------------------------------------------------------------
(* Properties                                                              *)

\* The values the variables range over.
TypeOK ==
    /\ flash \in [FlashPages -> (Images \X (0 .. CntCap)) \cup {Bad}]
    /\ running \in Slots
    /\ file \in [Slots -> [img : Images \cup {NoFile}, sha : Genuine \cup {NoFile}]]
    /\ binOpen \in BOOLEAN /\ shaOpen \in BOOLEAN
    /\ state \in {"initial", "upgrade", "done"}
    /\ requested \in Slots \cup {-1}
    /\ fw_image_size \in 0 .. MaxU32
    /\ chunk_check \in 0 .. CntCap
    /\ chunk_cnt \in 0 .. CntCap
    /\ offset \in 0 .. MaxU32
    /\ readbytes \in -1 .. DFU_CHUNK_SIZE
    /\ page \in 0 .. CntCap
    /\ fpos \in 0 .. MaxU32
    /\ pc \in {"idle", "verify", "loop", "last", "done", "bricked"}
    /\ faulted \in BOOLEAN /\ forced \in BOOLEAN /\ overrun \in BOOLEAN

\* The update in progress is one of slot 0 with an image longer than the slot.
Overlong == requested = 0 /\ pc \in {"loop", "last"} /\ chunk_check > SlotPages

\* No page of the slot the device runs from is written or erased, however updates,
\* failures and power losses follow each other, but by an erase with force and, page
\* after page, by the update of slot 0 with an image that is longer than the slot: no
\* line of dfu_gecko_write_image looks at the length (cmd_dfu_update, cmd_erase_slot,
\* the page addresses of write_image_chunk_to_flash).
RunningSlotUntouched ==
    [][\A a \in SlotAddrs(running) :
          \/ flash'[a] = flash[a]
          \/ EraseSlot(running, TRUE)
          \/ Overlong /\ a = page_addr]_vars

\* No page of an image whose digest was not published ever reaches the flash
\* (compare_sha1 gates the chunk loop, which reads the file a second time).
OnlyGenuine == \A a \in FlashPages : flash[a] \in (Genuine \X (0 .. CntCap)) \cup {Bad}

\* Every piece of the image is at its place, counted from the requested slot, as far
\* as the two slots reach.
ImageInSlot ==
    \A i \in 0 .. CntCap :
        i * DFU_CHUNK_SIZE < Size[Img] /\ Sector(requested) + i \in FlashPages
            => flash[Sector(requested) + i] = <<Img, i>>

\* When the update is declared a success every chunk of the image is at its
\* place in the slot, unless a flash operation failed: neither a failed
\* earlier update nor its left-over statics make a chunk go missing.
UpdateComplete ==
    pc = "done" /\ ~faulted => ImageInSlot

\* The device always finds a slot to boot from, whenever power is lost,
\* unless the user forced the erasure of the slot it was running from, or an
\* image longer than its slot was written over the pages behind it.
NeverBricked == pc = "bricked" => forced \/ overrun

\* The chunk loop is left: by success, by a failure or by a power loss, if the
\* image has more than one chunk.
LoopEnds ==
    pc \in {"loop", "last"} /\ chunk_check > 1 ~> pc \notin {"loop", "last"}

\* An update is an image transfer: pages in order, each once, and success is
\* declared with the last one.
InTransfer == pc \in {"loop", "last", "done"}

Transfer == INSTANCE ImageTransfer WITH
    phase <- IF pc \in {"loop", "last"} THEN "sending"
             ELSE IF pc = "done" THEN "done" ELSE "idle",
    total <- IF InTransfer THEN chunk_check ELSE 0,
    sent  <- IF InTransfer THEN page ELSE 0

\* GeckoDfu implements ImageTransfer.
TransferSpec == Transfer!XferSpec

-----------------------------------------------------------------------------
(* The inductive invariant of the proofs (GeckoDfuProofs)                  *)

\* An update in progress is for the other slot and has both files.
InUpdate == pc \in {"verify", "loop", "last", "done"} =>
    /\ requested \in Slots /\ requested # running
    /\ Img \in Images

\* The statics of the chunk loop are fresh until the first verification.
FreshStatics == state = "initial" => chunk_cnt = 0 /\ offset = 0

\* An update starts with page and read position at the beginning.
VerifyStart == pc = "verify" => page = 0 /\ fpos = 0 /\ readbytes = 0 /\ ~faulted

\* Only verified images are transferred.
Verified == InTransfer =>
    /\ state # "initial"
    /\ file[requested].sha = Img
    /\ fw_image_size = Size[Img] /\ Size[Img] >= DFU_CHUNK_SIZE
    /\ chunk_check = Chunks(Size[Img])

\* How the counters of the loop hang together.
Counting ==
    /\ pc = "loop" /\ chunk_cnt = 0 =>
          page = 0 /\ fpos = 0 /\ offset = 0 /\ readbytes = 0
    /\ pc = "loop" /\ chunk_cnt # 0 =>
          /\ offset = fpos
          /\ \/ /\ page = chunk_cnt - 1 /\ page < chunk_check
                /\ fpos = DFU_CHUNK_SIZE * page
                /\ chunk_cnt < chunk_check \/ chunk_check = 1
             \/ /\ chunk_check = 1 /\ page = 1
                /\ fpos = fw_image_size /\ chunk_cnt # 1
    /\ pc = "last" => /\ page = chunk_check - 1 /\ chunk_check > 1
                      /\ fpos = DFU_CHUNK_SIZE * page
    /\ pc = "done" => page = chunk_check

\* The pages written so far.
Written == InTransfer /\ ~faulted =>
    \A i \in 0 .. (page - 1) : Sector(requested) + i \in FlashPages
                              => flash[Sector(requested) + i] = <<Img, i>>

\* The slot the device runs from keeps its header.
RunningBootable == forced \/ overrun \/ Bootable(flash, running)

IInv == /\ TypeOK /\ OnlyGenuine /\ InUpdate /\ FreshStatics /\ VerifyStart
        /\ Verified /\ Counting /\ Written /\ RunningBootable /\ NeverBricked

=============================================================================
