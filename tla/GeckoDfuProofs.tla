--------------------------- MODULE GeckoDfuProofs ---------------------------
(***************************************************************************)
(* What holds of the MCU firmware writer for every set of images, sizes    *)
(* and slot length, whether the images fit into a slot or not, and that    *)
(* its loop is left only at its end, which every turn comes nearer to.     *)
(***************************************************************************)
EXTENDS GeckoDfu, TLAPS

\* The number of chunks is the size divided by 2048, rounded up.
LEMMA ChunksFact ==
    ASSUME NEW n \in Nat, n > 0
    PROVE  /\ Chunks(n) \in Nat /\ Chunks(n) > 0
           /\ DFU_CHUNK_SIZE * (Chunks(n) - 1) < n
           /\ n <= DFU_CHUNK_SIZE * Chunks(n)
  BY DEF Chunks, DFU_CHUNK_SIZE

\* The two slots lie one behind the other.
LEMMA SlotFact ==
    /\ SlotPages \in Nat /\ SlotPages > 0
    /\ Sector(0) = 0 /\ Sector(1) = SlotPages
    /\ \A s \in Slots : SlotAddrs(s) \subseteq FlashPages
    /\ \A s, t \in Slots : s # t => SlotAddrs(s) \cap SlotAddrs(t) = {}
  <1>1. SlotPages \in Nat /\ SlotPages > 0
    BY ConstAssumption
  <1>2. Sector(0) = 0 /\ Sector(1) = SlotPages
    BY <1>1 DEF Sector
  <1>3. QED
    BY <1>1, <1>2 DEF SlotAddrs, FlashPages, Slots

\* What is known of an image that can be read.
LEMMA ImageFact ==
    ASSUME NEW img \in Images
    PROVE  /\ Size[img] \in Nat /\ Size[img] > 0 /\ Size[img] < MaxU32
           /\ Chunks(Size[img]) \in Nat /\ Chunks(Size[img]) > 0
           /\ Chunks(Size[img]) < CntCap
           /\ DFU_CHUNK_SIZE * (Chunks(Size[img]) - 1) < Size[img]
           /\ Size[img] <= DFU_CHUNK_SIZE * Chunks(Size[img])
  BY ConstAssumption, ChunksFact

-----------------------------------------------------------------------------
(* The chunk loop                                                          *)

\* Where the reader stands: before a chunk, or (an image of one chunk) at the end of
\* the file.
LEMMA ReadPosition ==
    ASSUME IInv, Reading
    PROVE  /\ requested \in Slots /\ requested # running /\ Img \in Images
           /\ chunk_check \in Nat /\ chunk_check < CntCap
           /\ \/ /\ page \in Nat /\ page < chunk_check
                 /\ fpos = DFU_CHUNK_SIZE * page
                 /\ ReadLen \in 1 .. DFU_CHUNK_SIZE
                 /\ page + 1 < chunk_check => ReadLen = DFU_CHUNK_SIZE
                 /\ page + 1 = chunk_check => fpos + ReadLen = fw_image_size
              \/ /\ pc = "loop" /\ chunk_check = 1 /\ page = 1
                 /\ fpos = fw_image_size /\ ReadLen = 0
  <1>1. requested \in Slots /\ requested # running /\ Img \in Images
    BY DEF IInv, InUpdate, Reading
  <1>2. fw_image_size = Size[Img] /\ chunk_check = Chunks(Size[Img])
    BY DEF IInv, Verified, InTransfer, Reading
  <1>3. /\ chunk_check \in Nat /\ chunk_check > 0 /\ chunk_check < CntCap
        /\ fw_image_size \in Nat
        /\ DFU_CHUNK_SIZE * (chunk_check - 1) < fw_image_size
        /\ fw_image_size <= DFU_CHUNK_SIZE * chunk_check
    BY <1>1, <1>2, ImageFact
  <1>4. page \in Nat
    BY DEF IInv, TypeOK
  <1>5. CASE page < chunk_check /\ fpos = DFU_CHUNK_SIZE * page
    <2>1. /\ ReadLen \in 1 .. DFU_CHUNK_SIZE
          /\ page + 1 < chunk_check => ReadLen = DFU_CHUNK_SIZE
          /\ page + 1 = chunk_check => fpos + ReadLen = fw_image_size
      BY <1>3, <1>4, <1>5 DEF ReadLen, DFU_CHUNK_SIZE
    <2>2. QED
      BY <1>1, <1>3, <1>4, <1>5, <2>1
  <1>6. CASE pc = "loop" /\ chunk_check = 1 /\ page = 1 /\ fpos = fw_image_size
    <2>1. ReadLen = 0
      BY <1>3, <1>6 DEF ReadLen, DFU_CHUNK_SIZE
    <2>2. QED
      BY <1>1, <1>3, <1>6, <2>1
  <1>7. \/ page < chunk_check /\ fpos = DFU_CHUNK_SIZE * page
        \/ pc = "loop" /\ chunk_check = 1 /\ page = 1 /\ fpos = fw_image_size
    BY <1>3, <1>4 DEF IInv, Counting, Reading
  <1>8. QED
    BY <1>5, <1>6, <1>7

\* Where the page of the next chunk lies: in the slot being updated, behind both slots,
\* or in slot 1 behind an image that is too long for slot 0.
LEMMA PagePlace ==
    ASSUME IInv, Reading, page < chunk_check
    PROVE  /\ page_addr \in Nat /\ page \in 0 .. CntCap
           /\ page_addr = Sector(requested) + page
           /\ \A a \in SlotAddrs(running) : a = page_addr => Overruns /\ Overlong
  <1>1. /\ requested \in Slots /\ requested # running /\ running \in Slots
        /\ chunk_check \in Nat /\ chunk_check < CntCap
        /\ page \in Nat /\ CntCap \in Nat
    BY ReadPosition, ConstAssumption DEF IInv, TypeOK
  <1>2. ASSUME NEW a \in SlotAddrs(running), a = page_addr
        PROVE  Overruns /\ Overlong
    <2>1. page_addr \notin SlotAddrs(requested)
      BY <1>1, <1>2, SlotFact
    <2>2. requested = 0 /\ running = 1
      BY <1>1, <1>2, SlotFact DEF page_addr, SlotAddrs, Slots
    <2>3. page >= SlotPages
      BY <1>1, <1>2, <2>2, SlotFact DEF page_addr, SlotAddrs
    <2>4. QED
      BY <1>1, <2>1, <2>2, <2>3, SlotFact DEF Overruns, Overlong, Reading
  <1>3. page_addr \in Nat
    BY <1>1, SlotFact DEF page_addr, Slots
  <1>4. QED
    BY <1>1, <1>2, <1>3 DEF page_addr

\* Replacing one page keeps the flash well formed, and all other pages.
LEMMA PutFact ==
    ASSUME IInv, NEW a \in Nat, NEW c, c \in (Genuine \X (0 .. CntCap)) \cup {Bad}
    PROVE  /\ Put(a, c) \in [FlashPages -> (Images \X (0 .. CntCap)) \cup {Bad}]
           /\ \A b \in FlashPages : Put(a, c)[b] = IF b = a THEN c ELSE flash[b]
           /\ \A b \in FlashPages :
                 Put(a, c)[b] \in (Genuine \X (0 .. CntCap)) \cup {Bad}
  <1>1. /\ flash \in [FlashPages -> (Images \X (0 .. CntCap)) \cup {Bad}]
        /\ \A b \in FlashPages : flash[b] \in (Genuine \X (0 .. CntCap)) \cup {Bad}
    BY DEF IInv, TypeOK, OnlyGenuine
  <1>2. c \in (Images \X (0 .. CntCap)) \cup {Bad}
    BY ConstAssumption
  <1>3. CASE a \in FlashPages
    BY <1>1, <1>2, <1>3 DEF Put
  <1>4. CASE a \notin FlashPages
    BY <1>1, <1>4 DEF Put
  <1>5. QED
    BY <1>3, <1>4

\* A read programs at most one page, of the running slot only behind a long image.
LEMMA ReadProgramsOnePage ==
    ASSUME IInv, Reading, file_read_flash, requested' = requested, file' = file
    PROVE  /\ flash' \in [FlashPages -> (Images \X (0 .. CntCap)) \cup {Bad}]
           /\ OnlyGenuine'
           /\ \A a \in SlotAddrs(running) : \/ flash'[a] = flash[a]
                                            \/ overrun' /\ Overlong /\ a = page_addr
           /\ overrun => overrun'
           /\ faulted' \in BOOLEAN /\ overrun' \in BOOLEAN
           /\ Written /\ page < chunk_check /\ ~faulted' =>
                \A i \in 0 .. page : Sector(requested) + i \in FlashPages
                                     => flash'[Sector(requested) + i] = <<Img, i>>
           /\ page = chunk_check => flash' = flash /\ faulted' = faulted
  <1>1. /\ flash \in [FlashPages -> (Images \X (0 .. CntCap)) \cup {Bad}]
        /\ running \in Slots /\ page \in Nat /\ requested \in Slots
        /\ faulted \in BOOLEAN /\ overrun \in BOOLEAN
    BY ReadPosition DEF IInv, TypeOK
  <1>2. Img \in Genuine
    BY ConstAssumption DEF IInv, TypeOK, InUpdate, Verified, InTransfer, Reading, Img
  <1>3. CASE page < chunk_check
    <2>1. /\ page \in 0 .. CntCap /\ ReadLen > 0 /\ page_addr \in Nat
          /\ page_addr = Sector(requested) + page
      BY <1>3, ReadPosition, PagePlace
    <2>2. ProgramPage
      BY <2>1 DEF file_read_flash
    <2>3. /\ <<Img, page>> \in (Genuine \X (0 .. CntCap)) \cup {Bad}
          /\ Bad \in (Genuine \X (0 .. CntCap)) \cup {Bad}
      BY <1>2, <2>1
    <2> DEFINE new == <<Img, page>>
    <2> HIDE DEF new
    <2>3a. /\ Put(page_addr, new) \in [FlashPages -> (Images \X (0 .. CntCap)) \cup {Bad}]
           /\ \A b \in FlashPages : Put(page_addr, new)[b] = IF b = page_addr THEN new
                                                                           ELSE flash[b]
           /\ \A b \in FlashPages :
                 Put(page_addr, new)[b] \in (Genuine \X (0 .. CntCap)) \cup {Bad}
      <3>1. new \in (Genuine \X (0 .. CntCap)) \cup {Bad}
        BY <2>3 DEF new
      <3>2. QED
        BY <2>1, <3>1, PutFact
    <2>3b. /\ Put(page_addr, Bad) \in [FlashPages -> (Images \X (0 .. CntCap)) \cup {Bad}]
           /\ \A b \in FlashPages : Put(page_addr, Bad)[b] = IF b = page_addr THEN Bad
                                                                           ELSE flash[b]
           /\ \A b \in FlashPages :
                 Put(page_addr, Bad)[b] \in (Genuine \X (0 .. CntCap)) \cup {Bad}
      BY <2>1, <2>3, PutFact
    <2>4. /\ \/ flash' = Put(page_addr, new) /\ faulted' = faulted
             \/ flash' = flash /\ faulted' = TRUE
             \/ flash' = Put(page_addr, Bad) /\ faulted' = TRUE
          /\ overrun' = (overrun \/ Overruns)
      BY <2>2 DEF ProgramPage, new
    <2>5. flash' \in [FlashPages -> (Images \X (0 .. CntCap)) \cup {Bad}]
      BY <1>1, <2>3a, <2>3b, <2>4
    <2>6. OnlyGenuine'
      BY <2>3a, <2>3b, <2>4 DEF IInv, OnlyGenuine
    <2>7. \A a \in FlashPages : a # page_addr => flash'[a] = flash[a]
      BY <2>3a, <2>3b, <2>4
    <2>8. \A a \in SlotAddrs(running) : \/ flash'[a] = flash[a]
                                        \/ overrun' /\ Overlong /\ a = page_addr
      BY <1>1, <1>3, <2>4, <2>7, SlotFact, PagePlace
    <2>9. ASSUME Written, ~faulted', NEW i \in 0 .. page, Sector(requested) + i \in FlashPages
          PROVE  flash'[Sector(requested) + i] = <<Img, i>>
      <3>1. flash' = Put(page_addr, new) /\ ~faulted
        BY <2>4, <2>9
      <3>2. CASE i = page
        BY <2>1, <2>3a, <2>9, <3>1, <3>2 DEF new
      <3>3. CASE i # page
        <4>1. i \in 0 .. (page - 1) /\ InTransfer
          BY <1>1, <3>3 DEF InTransfer, Reading
        <4>2. flash[Sector(requested) + i] = <<Img, i>>
          BY <2>9, <3>1, <4>1 DEF Written
        <4>3. Sector(requested) + i # page_addr
          BY <1>1, <2>1, <3>3, SlotFact DEF Slots
        <4>4. QED
          BY <2>7, <2>9, <4>2, <4>3
      <3>4. QED
        BY <3>2, <3>3
    <2>10. faulted' \in BOOLEAN /\ overrun' \in BOOLEAN /\ (overrun => overrun')
      BY <1>1, <2>4 DEF Overruns
    <2>11. QED
      BY <1>1, <1>3, <2>5, <2>6, <2>8, <2>9, <2>10, ReadPosition
  <1>4. CASE ~(page < chunk_check)
    <2>1. ReadLen = 0
      BY <1>4, ReadPosition
    <2>2. UNCHANGED <<flash, faulted, overrun, page>>
      BY <2>1 DEF file_read_flash
    <2>3. OnlyGenuine'
      BY <2>2 DEF IInv, OnlyGenuine
    <2>4. QED
      BY <1>1, <1>4, <2>2, <2>3
  <1>5. QED
    BY <1>3, <1>4

-----------------------------------------------------------------------------
(* The inductive invariant                                                 *)

\* Zero is in the ranges of the counters.
LEMMA ZeroFact ==
    0 \in 0 .. CntCap /\ 0 \in 0 .. MaxU32 /\ 0 \in -1 .. DFU_CHUNK_SIZE
  BY ConstAssumption DEF DFU_CHUNK_SIZE

LEMMA InitIInv == Init => IInv
  <1> SUFFICES ASSUME Init PROVE IInv
    OBVIOUS
  <1>1. PICK img \in {g \in Genuine : Chunks(Size[g]) <= SlotPages} :
          flash = [a \in FlashPages |->
                     IF a - Sector(running) \in 0 .. (Chunks(Size[img]) - 1)
                     THEN <<img, a - Sector(running)>> ELSE Bad]
    BY DEF Init
  <1>2. img \in Images /\ img \in Genuine
    BY ConstAssumption
  <1>3. Chunks(Size[img]) \in Nat /\ Chunks(Size[img]) > 0 /\ Chunks(Size[img]) < CntCap
    BY <1>2, ImageFact
  <1>4. running \in Slots
    BY DEF Init
  <1>5. \A a \in FlashPages : flash[a] \in (Genuine \X (0 .. CntCap)) \cup {Bad}
    <2> TAKE a \in FlashPages
    <2>1. CASE a - Sector(running) \in 0 .. (Chunks(Size[img]) - 1)
      <3>1. a - Sector(running) \in 0 .. CntCap
        BY <1>3, <2>1, ConstAssumption
      <3>2. QED
        BY <1>1, <1>2, <2>1, <3>1
    <2>2. CASE a - Sector(running) \notin 0 .. (Chunks(Size[img]) - 1)
      BY <1>1, <2>2
    <2>3. QED
      BY <2>1, <2>2
  <1>6. flash \in [FlashPages -> (Images \X (0 .. CntCap)) \cup {Bad}]
    BY <1>1, <1>5, ConstAssumption
  <1>7. Bootable(flash, running)
    <2>1. Sector(running) \in FlashPages /\ Sector(running) - Sector(running) = 0
      BY <1>4, SlotFact DEF Slots, FlashPages
    <2>2. flash[Sector(running)] = <<img, 0>>
      BY <1>1, <1>3, <2>1
    <2>3. QED
      BY <1>2, <2>2 DEF Bootable, Header
  <1>8. TypeOK
    <2>1. file \in [Slots -> [img : Images \cup {NoFile}, sha : Genuine \cup {NoFile}]]
      BY DEF Init
    <2>2. QED
      BY <1>6, <2>1, ZeroFact DEF Init, TypeOK
  <1>9. QED
    BY <1>5, <1>7, <1>8 DEF Init, IInv, OnlyGenuine, InUpdate, FreshStatics, VerifyStart,
          Verified, Counting, Written, InTransfer, RunningBootable, NeverBricked

\* A boot from a flash that is well formed restores the invariant.
LEMMA BootIInv ==
    ASSUME IInv, Boot(flash'), file' = file, forced' = forced, overrun' \in BOOLEAN,
           flash' \in [FlashPages -> (Images \X (0 .. CntCap)) \cup {Bad}],
           OnlyGenuine', forced \/ overrun' \/ Bootable(flash', running)
    PROVE  IInv'
  <1>1. running \in Slots
    BY DEF IInv, TypeOK
  <1>2. /\ running' \in Slots
        /\ \/ pc' = "idle" /\ Bootable(flash', running')
           \/ pc' = "bricked" /\ (forced \/ overrun') /\ running' = running
    BY <1>1 DEF Boot
  <1>3. TypeOK'
    BY <1>2, ZeroFact DEF IInv, TypeOK, Boot
  <1>4. RunningBootable' /\ NeverBricked'
    BY <1>2 DEF RunningBootable, NeverBricked, Bootable
  <1>5. (InUpdate /\ FreshStatics /\ VerifyStart /\ Verified /\ Counting /\ Written)'
    BY <1>2 DEF Boot, InUpdate, FreshStatics, VerifyStart, Verified, Counting, Written,
          InTransfer
  <1>6. QED
    BY <1>3, <1>4, <1>5 DEF IInv

\* The header of the running slot survives what leaves its pages alone.
LEMMA HeaderKept ==
    ASSUME IInv, overrun => overrun',
           \A a \in SlotAddrs(running) : flash'[a] = flash[a] \/ overrun'
    PROVE  forced \/ overrun' \/ Bootable(flash', running)
  <1>1. Sector(running) \in SlotAddrs(running)
    BY SlotFact DEF IInv, TypeOK, SlotAddrs, Slots
  <1>2. QED
    BY <1>1 DEF IInv, RunningBootable, Bootable

\* The conjuncts that speak of an update in progress say nothing outside one.
LEMMA NoUpdate ==
    ASSUME IInv, pc' \in {"idle", "bricked"}, state' # "initial" \/ UNCHANGED <<state, chunk_cnt, offset>>
    PROVE  (InUpdate /\ FreshStatics /\ VerifyStart /\ Verified /\ Counting /\ Written)'
  BY DEF IInv, InUpdate, FreshStatics, VerifyStart, Verified, Counting, Written, InTransfer

LEMMA CommandIInv ==
    ASSUME IInv, Command
    PROVE  IInv'
  <1>1. ASSUME NEW s \in Slots, NEW img \in Images, NEW sha \in Genuine \cup {NoFile},
               Download(s, img, sha)
        PROVE  IInv'
    <2>1. TypeOK'
      BY <1>1 DEF IInv, TypeOK, Download, persistent, handles, counters, ghosts
    <2>2. (InUpdate /\ FreshStatics /\ VerifyStart /\ Verified /\ Counting /\ Written)'
      BY <1>1, NoUpdate DEF Download, counters
    <2>3. QED
      BY <1>1, <2>1, <2>2 DEF IInv, Download, OnlyGenuine, RunningBootable, Bootable,
            NeverBricked, ghosts
  <1>2. ASSUME NEW s \in Slots, NEW force \in BOOLEAN, EraseSlot(s, force)
        PROVE  IInv'
    <2>1. /\ flash' = [flash EXCEPT ![Sector(s)] = Bad]
          /\ forced' = (forced \/ s = running)
      BY <1>2 DEF EraseSlot, slot_is_safe_to_erase
    <2>2. /\ flash \in [FlashPages -> (Images \X (0 .. CntCap)) \cup {Bad}]
          /\ running \in Slots
      BY DEF IInv, TypeOK
    <2>3. /\ flash' \in [FlashPages -> (Images \X (0 .. CntCap)) \cup {Bad}]
          /\ OnlyGenuine'
      BY <2>1, <2>2 DEF IInv, OnlyGenuine
    <2>4. forced' \in BOOLEAN
      BY <2>1 DEF IInv, TypeOK
    <2>5. TypeOK'
      BY <1>2, <2>3, <2>4 DEF IInv, TypeOK, EraseSlot, handles, counters
    <2>6. (InUpdate /\ FreshStatics /\ VerifyStart /\ Verified /\ Counting /\ Written)'
      BY <1>2, NoUpdate DEF EraseSlot, counters
    <2>7. RunningBootable'
      <3>1. CASE s = running
        BY <2>1, <3>1 DEF RunningBootable
      <3>2. CASE s # running
        <4>1. Sector(s) # Sector(running)
          BY <2>2, <3>2, SlotFact DEF Slots
        <4>2. flash'[Sector(running)] = flash[Sector(running)]
          BY <2>1, <2>2, <4>1
        <4>3. QED
          BY <1>2, <2>1, <3>2, <4>2 DEF IInv, RunningBootable, Bootable, EraseSlot
      <3>3. QED
        BY <3>1, <3>2
    <2>8. NeverBricked'
      BY <1>2 DEF EraseSlot, NeverBricked
    <2>9. QED
      BY <2>3, <2>5, <2>6, <2>7, <2>8 DEF IInv
  <1>3. ASSUME NEW s \in Slots, OpenBinFails(s) \/ OpenShaFails(s)
        PROVE  IInv'
    <2>1. TypeOK'
      <3>1. CASE OpenBinFails(s)
        BY <3>1 DEF IInv, TypeOK, OpenBinFails, persistent, handles, counters, ghosts
      <3>2. CASE OpenShaFails(s)
        BY <3>2, ZeroFact DEF IInv, TypeOK, OpenShaFails, persistent, ghosts
      <3>3. QED
        BY <1>3, <3>1, <3>2
    <2>2. (InUpdate /\ FreshStatics /\ VerifyStart /\ Verified /\ Counting /\ Written)'
      BY <1>3, NoUpdate DEF OpenBinFails, OpenShaFails, UpdateAllowed, counters
    <2>3. QED
      BY <1>3, <2>1, <2>2 DEF IInv, OpenBinFails, OpenShaFails, OnlyGenuine,
            RunningBootable, Bootable, NeverBricked, UpdateAllowed, persistent, ghosts
  <1>4. ASSUME NEW s \in Slots, OpenFiles(s)
        PROVE  IInv'
    <2>1. TypeOK'
      BY <1>4, ZeroFact DEF IInv, TypeOK, OpenFiles, persistent
    <2>2. file[s].img \in Images
      BY <1>4 DEF IInv, TypeOK, OpenFiles, CanOpen
    <2>3. (InUpdate /\ FreshStatics /\ VerifyStart /\ Verified /\ Counting /\ Written)'
      BY <1>4, <2>2 DEF IInv, OpenFiles, UpdateAllowed, InUpdate, FreshStatics,
            VerifyStart, Verified, Counting, Written, InTransfer, Img, persistent
    <2>4. QED
      BY <1>4, <2>1, <2>3 DEF IInv, OpenFiles, OnlyGenuine, RunningBootable, Bootable,
            NeverBricked, persistent
  <1>5. QED
    BY <1>1, <1>2, <1>3, <1>4 DEF Command

LEMMA UpdateIInv ==
    ASSUME IInv, Update
    PROVE  IInv'
  <1>1. CASE VerifyFails
    <2>1. Img \in Images /\ file[requested].img \in Images
      BY <1>1 DEF IInv, InUpdate, VerifyFails, Img
    <2>2. Size[Img] \in 0 .. MaxU32
      BY <2>1, ImageFact, ConstAssumption
    <2>3. readbytes' \in -1 .. DFU_CHUNK_SIZE
      BY <1>1 DEF VerifyFails, DFU_CHUNK_SIZE, DFU_SHA1_LEN
    <2>4. TypeOK'
      BY <1>1, <2>2, <2>3 DEF IInv, TypeOK, VerifyFails, persistent, handles, ghosts
    <2>5. (InUpdate /\ FreshStatics /\ VerifyStart /\ Verified /\ Counting /\ Written)'
      BY <1>1, NoUpdate DEF VerifyFails
    <2>6. QED
      BY <1>1, <2>4, <2>5 DEF IInv, VerifyFails, OnlyGenuine, RunningBootable, Bootable,
            NeverBricked, persistent, ghosts
  <1>2. CASE VerifyOk
    <2>1. Img \in Images /\ requested \in Slots /\ requested # running
      BY <1>2 DEF IInv, InUpdate, VerifyOk
    <2>2. /\ Size[Img] \in 0 .. MaxU32 /\ Chunks(Size[Img]) \in 0 .. CntCap
      BY <2>1, ImageFact, ConstAssumption
    <2>3. TypeOK'
      BY <1>2, <2>2, ZeroFact DEF IInv, TypeOK, VerifyOk, persistent, handles, ghosts
    <2>4. /\ chunk_cnt' = 0 /\ offset' = 0 /\ page' = 0 /\ fpos' = 0 /\ readbytes' = 0
          /\ pc' = "loop" /\ state' = "upgrade"
          /\ UNCHANGED <<flash, running, file, requested, faulted, forced, overrun>>
      BY <1>2 DEF IInv, FreshStatics, VerifyStart, VerifyOk, DigestMatches, persistent, ghosts
    <2>5. /\ file[requested].sha = Img /\ Size[Img] >= DFU_CHUNK_SIZE
          /\ fw_image_size' = Size[Img] /\ chunk_check' = Chunks(Size[Img])
      BY <1>2 DEF VerifyOk, DigestMatches
    <2>6. (InUpdate /\ FreshStatics /\ VerifyStart /\ Verified /\ Counting)'
      BY <2>1, <2>4, <2>5 DEF InUpdate, FreshStatics, VerifyStart, Verified, Counting,
            InTransfer, Img
    <2>7. Written'
      BY <2>4 DEF Written
    <2>8. QED
      BY <2>3, <2>4, <2>6, <2>7 DEF IInv, OnlyGenuine, RunningBootable, Bootable,
            NeverBricked
  <1>3. CASE FirstTurn
    <2>1. /\ chunk_cnt = 0 /\ page = 0 /\ fpos = 0 /\ offset = 0 /\ readbytes = 0
          /\ chunk_check = Chunks(Size[Img]) /\ Img \in Images /\ requested \in Slots
      BY <1>3 DEF IInv, Counting, Verified, InUpdate, InTransfer, FirstTurn
    <2>2. /\ chunk_check \in Nat /\ chunk_check > 0 /\ chunk_check < CntCap
      BY <2>1, ImageFact
    <2>3. chunk_cnt' = 1 /\ offset' = 0 /\ chunk_cnt' \in 0 .. CntCap
      BY <1>3, <2>1, <2>2, ConstAssumption DEF FirstTurn, NextCount
    <2>4. TypeOK'
      BY <1>3, <2>3, ZeroFact DEF IInv, TypeOK, FirstTurn, persistent, handles, ghosts
    <2>5. Counting'
      BY <1>3, <2>1, <2>2, <2>3 DEF Counting, FirstTurn, DFU_CHUNK_SIZE
    <2>6. (InUpdate /\ FreshStatics /\ VerifyStart /\ Verified /\ Written)'
      BY <1>3, <2>1 DEF IInv, InUpdate, FreshStatics, VerifyStart, Verified, Written,
            InTransfer, Img, FirstTurn, persistent, ghosts
    <2>7. QED
      BY <1>3, <2>4, <2>5, <2>6 DEF IInv, FirstTurn, OnlyGenuine, RunningBootable,
            Bootable, NeverBricked, persistent, ghosts
  <1>4. CASE InBetweenTurn
    <2>1. Reading /\ file_read_flash /\ requested' = requested /\ file' = file
      BY <1>4 DEF InBetweenTurn, Reading
    <2>2. /\ flash' \in [FlashPages -> (Images \X (0 .. CntCap)) \cup {Bad}]
          /\ OnlyGenuine'
          /\ faulted' \in BOOLEAN /\ overrun' \in BOOLEAN
          /\ forced \/ overrun' \/ Bootable(flash', running)
      BY <2>1, ReadProgramsOnePage, HeaderKept
    <2>3. /\ requested \in Slots /\ requested # running /\ Img \in Images
          /\ chunk_check = Chunks(Size[Img]) /\ fw_image_size = Size[Img]
          /\ offset = fpos /\ chunk_cnt # chunk_check - 1 /\ chunk_cnt \in 1 .. CntCap
          /\ CntCap \in Nat /\ chunk_check \in Nat /\ chunk_check > 0
          /\ chunk_check < CntCap
      BY <1>4, <2>1, ReadPosition, ImageFact, ConstAssumption
         DEF IInv, TypeOK, Verified, InTransfer, Counting, InBetweenTurn
    <2>4. /\ chunk_cnt' \in 2 .. CntCap
          /\ chunk_cnt' = chunk_cnt + 1 \/ (chunk_cnt' = CntCap /\ chunk_cnt = CntCap)
      BY <1>4, <2>3, ReadPosition DEF InBetweenTurn, NextCount
    <2>5. /\ offset' = fpos' /\ readbytes' = ReadLen /\ fpos' = fpos + ReadLen
          /\ pc' = "loop" /\ ReadLen \in 0 .. DFU_CHUNK_SIZE
          /\ page' = IF page < chunk_check THEN page + 1 ELSE page
          /\ UNCHANGED <<running, file, requested, state, fw_image_size, chunk_check,
                         binOpen, shaOpen, forced>>
      <3>1. /\ readbytes' = ReadLen /\ fpos' = fpos + ReadLen /\ offset' = offset + ReadLen
            /\ pc' = "loop"
            /\ UNCHANGED <<running, file, requested, state, fw_image_size, chunk_check,
                           binOpen, shaOpen, forced>>
        BY <1>4 DEF InBetweenTurn, file_read_flash, handles
      <3>2. ReadLen \in 0 .. DFU_CHUNK_SIZE /\ page \in Nat
            /\ (ReadLen > 0 <=> page < chunk_check)
        BY <2>1, <2>3, ReadPosition DEF DFU_CHUNK_SIZE
      <3>3. page' = IF page < chunk_check THEN page + 1 ELSE page
        BY <1>4, <3>2 DEF InBetweenTurn, file_read_flash
      <3> QED
        BY <2>3, <3>1, <3>2, <3>3
    <2>6. Counting' /\ fpos' \in 0 .. MaxU32 /\ page' \in 0 .. CntCap
      <3>1. CASE page < chunk_check /\ chunk_check > 1
        <4>1. /\ page = chunk_cnt - 1 /\ chunk_cnt < chunk_check /\ page \in Nat
              /\ ReadLen = DFU_CHUNK_SIZE /\ fpos = DFU_CHUNK_SIZE * page
          BY <1>4, <2>1, <2>3, <3>1, ReadPosition DEF IInv, TypeOK, Counting, InBetweenTurn
        <4>2. /\ chunk_cnt' = chunk_cnt + 1 /\ chunk_cnt' < chunk_check
              /\ page' = page + 1 /\ fpos' = DFU_CHUNK_SIZE * page'
          BY <2>3, <2>4, <2>5, <3>1, <4>1 DEF DFU_CHUNK_SIZE
        <4>3. fpos' <= MaxU32
          <5>1. /\ DFU_CHUNK_SIZE * (chunk_check - 1) < Size[Img]
                /\ Size[Img] < MaxU32 /\ Size[Img] \in Nat /\ MaxU32 \in Nat
            BY <2>3, ImageFact, ConstAssumption
          <5>2. page' \in Nat /\ page' <= chunk_check - 1
            BY <2>3, <4>1, <4>2
          <5>3. QED
            BY <2>3, <4>2, <5>1, <5>2 DEF DFU_CHUNK_SIZE
        <4>4. QED
          BY <2>3, <2>5, <3>1, <4>1, <4>2, <4>3, ConstAssumption DEF Counting, DFU_CHUNK_SIZE
      <3>2. CASE page < chunk_check /\ chunk_check = 1
        <4>1. /\ page = 0 /\ page' = 1 /\ fpos' = fw_image_size
          BY <2>1, <2>3, <2>5, <3>2, ReadPosition
        <4>2. QED
          BY <2>3, <2>4, <2>5, <3>2, <4>1, ImageFact, ConstAssumption DEF Counting
      <3>3. CASE ~(page < chunk_check)
        <4>1. /\ page = 1 /\ page' = 1 /\ chunk_check = 1
              /\ fpos = fw_image_size /\ fpos' = fw_image_size
          BY <2>1, <2>3, <2>5, <3>3, ReadPosition, ImageFact
        <4>2. QED
          BY <2>3, <2>4, <2>5, <4>1, ImageFact, ConstAssumption DEF Counting
      <3>4. QED
        BY <2>3, <3>1, <3>2, <3>3
    <2>7. TypeOK'
      <3>1. readbytes' \in -1 .. DFU_CHUNK_SIZE /\ chunk_cnt' \in 0 .. CntCap
        BY <2>3, <2>4, <2>5 DEF DFU_CHUNK_SIZE
      <3>2. QED
        BY <2>2, <2>5, <2>6, <3>1 DEF IInv, TypeOK
    <2>8. Written'
      BY <1>4, <2>1, <2>3, <2>5, ReadPosition, ReadProgramsOnePage
         DEF IInv, TypeOK, Written, InTransfer, Img, InBetweenTurn
    <2>9. (InUpdate /\ FreshStatics /\ VerifyStart /\ Verified)'
      BY <1>4, <2>3, <2>5 DEF IInv, InUpdate, FreshStatics, VerifyStart, Verified,
         InTransfer, Img, InBetweenTurn
    <2>10. (RunningBootable /\ NeverBricked)'
      BY <2>2, <2>5 DEF RunningBootable, NeverBricked, Bootable
    <2>11. QED
      BY <2>2, <2>6, <2>7, <2>8, <2>9, <2>10 DEF IInv
  <1>5. CASE LastTurn \/ LastChunk
    <2>1. /\ Reading /\ file_read_flash
          /\ UNCHANGED <<running, file, binOpen, shaOpen, requested, fw_image_size,
                         chunk_check, chunk_cnt, offset, forced>>
          /\ \/ pc' = "last" /\ state' = state
             \/ pc' = "done" /\ state' = "done"
      BY <1>5 DEF LastTurn, LastChunk, Reading, handles
    <2>2. /\ flash' \in [FlashPages -> (Images \X (0 .. CntCap)) \cup {Bad}]
          /\ OnlyGenuine'
          /\ faulted' \in BOOLEAN /\ overrun' \in BOOLEAN
          /\ forced \/ overrun' \/ Bootable(flash', running)
      BY <2>1, ReadProgramsOnePage, HeaderKept
    <2>3. /\ requested \in Slots /\ requested # running /\ Img \in Images
          /\ chunk_check = Chunks(Size[Img]) /\ fw_image_size = Size[Img]
          /\ chunk_check \in Nat /\ chunk_check < CntCap /\ CntCap \in Nat
      BY <2>1, ReadPosition, ConstAssumption DEF IInv, Verified, InTransfer, Reading
    <2>4. /\ page < chunk_check /\ page \in Nat
          /\ fpos = DFU_CHUNK_SIZE * page
          /\ ReadLen \in 1 .. DFU_CHUNK_SIZE
          /\ page + 1 < chunk_check => ReadLen = DFU_CHUNK_SIZE
          /\ page + 1 = chunk_check => fpos + ReadLen = fw_image_size
          /\ LastTurn => page + 1 = chunk_check - 1
          /\ LastChunk => page + 1 = chunk_check
      BY <1>5, <2>1, <2>3, ReadPosition
         DEF IInv, TypeOK, Counting, LastTurn, LastChunk
    <2>5. readbytes' = ReadLen /\ fpos' = fpos + ReadLen /\ page' = page + 1
      BY <2>1, <2>4 DEF file_read_flash
    <2>6. /\ fpos' \in 0 .. MaxU32 /\ page' \in 0 .. CntCap
          /\ page' <= chunk_check
          /\ page' < chunk_check => fpos' = DFU_CHUNK_SIZE * page'
      <3>1. /\ DFU_CHUNK_SIZE * (chunk_check - 1) < Size[Img]
            /\ Size[Img] < MaxU32 /\ Size[Img] \in Nat /\ MaxU32 \in Nat
        BY <2>3, ImageFact, ConstAssumption
      <3>2. QED
        BY <2>3, <2>4, <2>5, <3>1 DEF DFU_CHUNK_SIZE
    <2>7. Counting'
      BY <1>5, <2>1, <2>3, <2>4, <2>5, <2>6 DEF Counting, LastTurn, LastChunk
    <2>8. TypeOK'
      <3>1. readbytes' \in -1 .. DFU_CHUNK_SIZE
        BY <2>4, <2>5 DEF DFU_CHUNK_SIZE
      <3>2. QED
        BY <2>1, <2>2, <2>6, <3>1 DEF IInv, TypeOK
    <2>9. Written'
      BY <1>5, <2>1, <2>4, <2>5, ReadProgramsOnePage
         DEF IInv, Written, InTransfer, Img
    <2>10. (InUpdate /\ FreshStatics /\ VerifyStart /\ Verified)'
      BY <1>5, <2>1, <2>3 DEF IInv, InUpdate, FreshStatics, VerifyStart, Verified,
         InTransfer, Img, Reading
    <2>11. (RunningBootable /\ NeverBricked)'
      BY <2>1, <2>2 DEF RunningBootable, NeverBricked, Bootable
    <2>12. QED
      BY <2>2, <2>7, <2>8, <2>9, <2>10, <2>11 DEF IInv
  <1>6. CASE Reboot
    <2>1. /\ Boot(flash') /\ UNCHANGED <<flash, file, forced, overrun>>
      BY <1>6 DEF Reboot, Boot
    <2>2. /\ flash' \in [FlashPages -> (Images \X (0 .. CntCap)) \cup {Bad}]
          /\ OnlyGenuine' /\ overrun' \in BOOLEAN
          /\ forced \/ overrun' \/ Bootable(flash', running)
      BY <2>1 DEF IInv, TypeOK, OnlyGenuine, RunningBootable, Bootable
    <2>3. QED
      BY <2>1, <2>2, BootIInv
  <1>7. QED
    BY <1>1, <1>2, <1>3, <1>4, <1>5, <1>6 DEF Update

\* A power loss spoils at most the page that was being programmed.
LEMMA LossHitsOnePage ==
    ASSUME IInv, PowerLoss
    PROVE  /\ flash' \in [FlashPages -> (Images \X (0 .. CntCap)) \cup {Bad}]
           /\ OnlyGenuine' /\ overrun' \in BOOLEAN /\ (overrun => overrun')
           /\ \A a \in SlotAddrs(running) : \/ flash'[a] = flash[a]
                                            \/ overrun' /\ Overlong /\ a = page_addr
  <1>1. /\ flash \in [FlashPages -> (Images \X (0 .. CntCap)) \cup {Bad}]
        /\ overrun \in BOOLEAN /\ running \in Slots
    BY DEF IInv, TypeOK
  <1>2. CASE UNCHANGED <<flash, overrun>>
    BY <1>1, <1>2 DEF IInv, OnlyGenuine
  <1>3. CASE /\ Reading /\ ReadLen > 0 /\ flash' = Put(page_addr, Bad)
             /\ overrun' = (overrun \/ Overruns)
    <2>1. page < chunk_check
      BY <1>3, ReadPosition
    <2>2. page_addr \in Nat
      BY <1>3, <2>1, PagePlace
    <2> DEFINE spoilt == Put(page_addr, Bad)
    <2>2a. /\ spoilt \in [FlashPages -> (Images \X (0 .. CntCap)) \cup {Bad}]
           /\ \A b \in FlashPages : spoilt[b] = IF b = page_addr THEN Bad ELSE flash[b]
           /\ \A b \in FlashPages : spoilt[b] \in (Genuine \X (0 .. CntCap)) \cup {Bad}
      <3>1. Bad \in (Genuine \X (0 .. CntCap)) \cup {Bad}
        OBVIOUS
      <3>2. QED
        BY <2>2, <3>1, PutFact
    <2> HIDE DEF spoilt
    <2>2b. flash' = spoilt
      BY <1>3 DEF spoilt
    <2>3. \A a \in FlashPages : a # page_addr => flash'[a] = flash[a]
      BY <2>2a, <2>2b
    <2>4. \A a \in SlotAddrs(running) : \/ flash'[a] = flash[a]
                                        \/ overrun' /\ Overlong /\ a = page_addr
      BY <1>1, <1>3, <2>1, <2>3, SlotFact, PagePlace
    <2>5. /\ flash' \in [FlashPages -> (Images \X (0 .. CntCap)) \cup {Bad}]
          /\ OnlyGenuine'
      BY <2>2a, <2>2b DEF OnlyGenuine
    <2>6. QED
      BY <1>1, <1>3, <2>4, <2>5 DEF Overruns
  <1>4. QED
    BY <1>2, <1>3 DEF PowerLoss

LEMMA FailureIInv ==
    ASSUME IInv, Failure
    PROVE  IInv'
  <1>1. CASE SizeUnreadable
    <2>1. MaxU32 \in 0 .. MaxU32 /\ readbytes' \in -1 .. DFU_CHUNK_SIZE
      BY <1>1, ConstAssumption DEF SizeUnreadable, DFU_CHUNK_SIZE, DFU_SHA1_LEN
    <2>2. TypeOK'
      BY <1>1, <2>1 DEF IInv, TypeOK, SizeUnreadable, persistent, handles, ghosts
    <2>3. (InUpdate /\ FreshStatics /\ VerifyStart /\ Verified /\ Counting /\ Written)'
      BY <1>1, NoUpdate DEF SizeUnreadable
    <2>4. QED
      BY <1>1, <2>2, <2>3 DEF IInv, SizeUnreadable, OnlyGenuine, RunningBootable,
            Bootable, NeverBricked, persistent, ghosts
  <1>2. CASE ReadFails
    <2>1. readbytes' \in -1 .. DFU_CHUNK_SIZE
      BY <1>2 DEF ReadFails, DFU_CHUNK_SIZE
    <2>2. TypeOK'
      BY <1>2, <2>1 DEF IInv, TypeOK, ReadFails, persistent, handles, ghosts
    <2>3. (InUpdate /\ FreshStatics /\ VerifyStart /\ Verified /\ Counting /\ Written)'
      BY <1>2, NoUpdate DEF ReadFails
    <2>4. QED
      BY <1>2, <2>2, <2>3 DEF IInv, ReadFails, OnlyGenuine, RunningBootable,
            Bootable, NeverBricked, persistent, ghosts
  <1>3. CASE PowerLoss
    <2>1. /\ flash' \in [FlashPages -> (Images \X (0 .. CntCap)) \cup {Bad}]
          /\ OnlyGenuine' /\ overrun' \in BOOLEAN /\ (overrun => overrun')
          /\ \A a \in SlotAddrs(running) : flash'[a] = flash[a] \/ overrun'
      BY <1>3, LossHitsOnePage
    <2>2. forced \/ overrun' \/ Bootable(flash', running)
      BY <2>1, HeaderKept
    <2>3. QED
      BY <1>3, <2>1, <2>2, BootIInv DEF PowerLoss
  <1>4. QED
    BY <1>1, <1>2, <1>3 DEF Failure

LEMMA StutterIInv ==
    ASSUME IInv, UNCHANGED vars
    PROVE  IInv'
  <1>1. UNCHANGED <<flash, running, file, binOpen, shaOpen, state, requested,
                    fw_image_size, chunk_check, chunk_cnt, offset, readbytes, page,
                    fpos, pc, faulted, forced, overrun>>
    BY DEF vars, persistent, handles, counters, ghosts
  <1>2. TypeOK'
    BY <1>1 DEF IInv, TypeOK
  <1>3. (InUpdate /\ FreshStatics /\ VerifyStart /\ Verified /\ Counting /\ Written)'
    BY <1>1 DEF IInv, InUpdate, FreshStatics, VerifyStart, Verified, Counting, Written,
       InTransfer, Img
  <1>4. QED
    BY <1>1, <1>2, <1>3 DEF IInv, OnlyGenuine, RunningBootable, Bootable, NeverBricked

\* IInv is an inductive invariant: it holds initially and every command, update
\* step and failure preserves it.
THEOREM Invariance == Spec => []IInv
  <1>1. Init => IInv
    BY InitIInv
  <1>2. IInv /\ [Next]_vars => IInv'
    BY CommandIInv, UpdateIInv, FailureIInv, StutterIInv DEF Next
  <1>3. QED
    BY <1>1, <1>2, PTL DEF Spec

-----------------------------------------------------------------------------
(* The properties                                                          *)

\* The variables keep their types: no counter of the writer leaves its range.
THEOREM TypeCorrect == Spec => []TypeOK
  <1>1. IInv => TypeOK
    BY DEF IInv
  <1>2. QED
    BY <1>1, Invariance, PTL

\* Only pages of images with a published digest ever are in the flash.
THEOREM Authenticity == Spec => []OnlyGenuine
  <1>1. IInv => OnlyGenuine
    BY DEF IInv
  <1>2. QED
    BY <1>1, Invariance, PTL

\* There is a slot to boot from unless the user forced the erasure of the
\* running one or an image too long for its slot was written.
THEOREM AlwaysBoots == Spec => []NeverBricked
  <1>1. IInv => NeverBricked
    BY DEF IInv
  <1>2. QED
    BY <1>1, Invariance, PTL

\* A successful update has put every chunk at its place.
THEOREM Completeness == Spec => []UpdateComplete
  <1>1. ASSUME IInv PROVE UpdateComplete
    <2> SUFFICES ASSUME pc = "done", ~faulted, NEW i \in 0 .. CntCap,
                        i * DFU_CHUNK_SIZE < Size[Img], Sector(requested) + i \in FlashPages
                 PROVE  flash[Sector(requested) + i] = <<Img, i>>
      BY DEF UpdateComplete, ImageInSlot
    <2>1. InTransfer /\ Img \in Images
      BY <1>1 DEF IInv, InUpdate, InTransfer
    <2>2. page = Chunks(Size[Img])
      BY <1>1, <2>1 DEF IInv, Verified, Counting
    <2>3. i \in 0 .. (page - 1)
      BY <2>1, <2>2, ImageFact, ConstAssumption DEF DFU_CHUNK_SIZE
    <2>4. QED
      BY <1>1, <2>1, <2>3 DEF IInv, Written
  <1>2. QED
    BY <1>1, Invariance, PTL

\* Whatever the users, failures and power losses do, the slot the device runs
\* from is left alone, except by an erase with force and by the pages of an image for
\* slot 0 that reach behind it, in that page only.
THEOREM RunningSlotSafe == Spec => RunningSlotUntouched
  <1> DEFINE Untouched == \A a \in SlotAddrs(running) :
                             \/ flash'[a] = flash[a]
                             \/ EraseSlot(running, TRUE)
                             \/ Overlong /\ a = page_addr
  <1>1. ASSUME IInv, [Next]_vars PROVE Untouched
    <2>1. /\ flash \in [FlashPages -> (Images \X (0 .. CntCap)) \cup {Bad}]
          /\ running \in Slots
      BY <1>1 DEF IInv, TypeOK
    <2>2. ASSUME NEW s \in Slots, NEW force \in BOOLEAN, EraseSlot(s, force)
          PROVE  Untouched
      <3>1. CASE s = running
        BY <2>2, <3>1 DEF EraseSlot, slot_is_safe_to_erase
      <3>2. CASE s # running
        <4>1. Sector(s) \in SlotAddrs(s)
          BY SlotFact DEF SlotAddrs, Slots
        <4>2. Sector(s) \notin SlotAddrs(running)
          BY <2>1, <3>2, <4>1, SlotFact
        <4>3. QED
          BY <2>1, <2>2, <4>2, SlotFact DEF EraseSlot
      <3>3. QED
        BY <3>1, <3>2
    <2>3. ASSUME Reading, file_read_flash, UNCHANGED <<requested, file>>
          PROVE  Untouched
      BY <1>1, <2>3, ReadProgramsOnePage
    <2>4. CASE InBetweenTurn \/ LastTurn \/ LastChunk
      BY <2>3, <2>4 DEF InBetweenTurn, LastTurn, LastChunk, Reading
    <2>5. CASE PowerLoss
      BY <1>1, <2>5, LossHitsOnePage
    <2>6. CASE UNCHANGED flash
      BY <2>6
    <2>7. \/ UNCHANGED flash
          \/ \E s \in Slots, force \in BOOLEAN : EraseSlot(s, force)
          \/ InBetweenTurn \/ LastTurn \/ LastChunk \/ PowerLoss
      BY <1>1 DEF Next, Command, Update, Failure, Download, OpenBinFails, OpenShaFails,
         OpenFiles, VerifyFails, VerifyOk, FirstTurn, Reboot, SizeUnreadable, ReadFails,
         vars, persistent
    <2>8. QED
      BY <2>2, <2>4, <2>5, <2>6, <2>7
  <1>2. QED
    BY <1>1, Invariance, PTL DEF Spec, RunningSlotUntouched

-----------------------------------------------------------------------------
(* Progress of the chunk loop                                              *)

InChunkLoop == pc \in {"loop", "last"} /\ chunk_check > 1

\* The turns of the loop that are left, with the write that follows the last one.
TurnsLeft == IF pc = "loop" THEN chunk_check - chunk_cnt + 1 ELSE 1

\* Before the last chunk was written the loop is never left by its own condition,
\* "while (offset <= fw_image_size)".
LoopReachesLastChunk == pc = "loop" /\ chunk_check > 1 => offset <= fw_image_size

\* Whatever happens in the loop for an image of more than one chunk, it ends the loop or
\* leaves one turn less of the same image: a bound that LoopEnds does not have.
LoopAdvances ==
    [][InChunkLoop => /\ TurnsLeft \in Nat \ {0}
                      /\ pc' \in {"loop", "last"} =>
                            chunk_check' = chunk_check /\ TurnsLeft' < TurnsLeft]_vars

\* What the counters are in the loop.
LEMMA LoopFact ==
    ASSUME IInv, InChunkLoop
    PROVE  /\ chunk_check \in Nat /\ chunk_cnt \in Nat /\ CntCap \in Nat
           /\ chunk_check < CntCap
           /\ pc = "loop" => chunk_cnt < chunk_check /\ offset <= fw_image_size
  <1>1. Img \in Images /\ chunk_check = Chunks(Size[Img]) /\ fw_image_size = Size[Img]
    BY DEF IInv, InUpdate, Verified, InTransfer, InChunkLoop
  <1>2. /\ chunk_check \in Nat /\ chunk_check < CntCap /\ CntCap \in Nat
        /\ fw_image_size \in Nat /\ DFU_CHUNK_SIZE * (chunk_check - 1) < fw_image_size
    BY <1>1, ImageFact, ConstAssumption
  <1>3. chunk_cnt \in Nat /\ page \in Nat
    BY <1>2 DEF IInv, TypeOK
  <1>4. ASSUME pc = "loop" PROVE chunk_cnt < chunk_check /\ offset <= fw_image_size
    <2>1. CASE chunk_cnt = 0
      BY <1>2, <1>4, <2>1 DEF IInv, Counting, InChunkLoop
    <2>2. CASE chunk_cnt # 0
      <3>1. /\ page = chunk_cnt - 1 /\ chunk_cnt < chunk_check
            /\ offset = DFU_CHUNK_SIZE * page
        BY <1>4, <2>2 DEF IInv, Counting, InChunkLoop
      <3>2. QED
        BY <1>2, <1>3, <3>1 DEF DFU_CHUNK_SIZE
    <2>3. QED
      BY <2>1, <2>2
  <1>5. QED
    BY <1>2, <1>3, <1>4

\* The condition of the loop holds until the last chunk.
THEOREM NotLeftEarly == Spec => []LoopReachesLastChunk
  <1>1. IInv => LoopReachesLastChunk
    BY LoopFact DEF LoopReachesLastChunk, InChunkLoop
  <1>2. QED
    BY <1>1, Invariance, PTL

\* The chunk loop of an image of any size has a turn less to go after every step.
THEOREM TurnsRunOut == Spec => LoopAdvances
  <1> DEFINE Advances == InChunkLoop =>
                /\ TurnsLeft \in Nat \ {0}
                /\ pc' \in {"loop", "last"} =>
                      chunk_check' = chunk_check /\ TurnsLeft' < TurnsLeft
  <1>1. ASSUME IInv, Next PROVE Advances
    <2> SUFFICES ASSUME InChunkLoop
                 PROVE  /\ TurnsLeft \in Nat \ {0}
                        /\ pc' \in {"loop", "last"} =>
                              chunk_check' = chunk_check /\ TurnsLeft' < TurnsLeft
      OBVIOUS
    <2>1. /\ chunk_check \in Nat /\ chunk_cnt \in Nat /\ CntCap \in Nat
          /\ chunk_check < CntCap
          /\ pc = "loop" => chunk_cnt < chunk_check
      BY <1>1, LoopFact
    <2>2. TurnsLeft \in Nat \ {0}
      BY <2>1 DEF TurnsLeft
    <2>3. CASE Command \/ VerifyFails \/ VerifyOk \/ Reboot \/ SizeUnreadable
      BY <2>3 DEF InChunkLoop, Command, Download, EraseSlot, OpenBinFails, OpenShaFails,
         OpenFiles, UpdateAllowed, VerifyFails, VerifyOk, Reboot, SizeUnreadable
    <2>4. CASE FirstTurn \/ InBetweenTurn
      <3>1. /\ pc = "loop" /\ pc' = "loop" /\ chunk_check' = chunk_check
            /\ chunk_cnt' = chunk_cnt + 1
        BY <2>1, <2>4 DEF FirstTurn, InBetweenTurn, NextCount
      <3>2. QED
        BY <2>1, <2>2, <3>1 DEF TurnsLeft
    <2>5. CASE LastTurn
      <3>1. pc = "loop" /\ pc' = "last" /\ chunk_check' = chunk_check
        BY <2>5 DEF LastTurn
      <3>2. QED
        BY <2>1, <2>2, <3>1 DEF TurnsLeft
    <2>6. CASE LastChunk \/ ReadFails
      BY <2>2, <2>6 DEF LastChunk, ReadFails
    <2>7. CASE PowerLoss
      BY <2>2, <2>7 DEF PowerLoss, Boot
    <2>8. QED
      BY <1>1, <2>3, <2>4, <2>5, <2>6, <2>7 DEF Next, Update, Failure
  <1>2. IInv /\ [Next]_vars => [Advances]_vars
    BY <1>1
  <1>3. QED
    BY <1>2, Invariance, PTL DEF Spec, LoopAdvances

-----------------------------------------------------------------------------
(* The refinement                                                          *)

\* An update is an image transfer: GeckoDfu implements ImageTransfer, for
\* every size of the images.
THEOREM Refinement == Spec => TransferSpec
  <1> USE DEF InTransfer
  <1>1. Init => Transfer!XferInit
    BY DEF Init, Transfer!XferInit
  <1>2. ASSUME IInv, IInv', [Next]_vars
        PROVE  [Transfer!XferNext]_(Transfer!xferVars)
    <2> USE DEF Transfer!XferNext, Transfer!xferVars
    <2>1. ASSUME pc \in {"idle", "verify", "bricked"}, pc' \in {"idle", "verify", "bricked"}
          PROVE  UNCHANGED Transfer!xferVars
      BY <2>1
    <2>2. ASSUME pc \in {"loop", "last", "done"}, pc' \in {"idle", "bricked"}
          PROVE  Transfer!Leave
      BY <2>2 DEF Transfer!Leave
    <2>3. CASE Command
      <3>1. pc \in {"idle", "verify", "bricked"} /\ pc' \in {"idle", "verify", "bricked"}
        BY <2>3 DEF Command, Download, EraseSlot, OpenBinFails, OpenShaFails, OpenFiles,
           UpdateAllowed
      <3>2. QED
        BY <2>1, <3>1
    <2>4. CASE VerifyFails \/ SizeUnreadable
      BY <2>1, <2>4 DEF VerifyFails, SizeUnreadable
    <2>5. CASE VerifyOk
      <3>1. pc = "verify" /\ pc' = "loop"
        BY <2>5 DEF VerifyOk
      <3>2. page' = 0
        BY <1>2, <2>5, <3>1 DEF IInv, VerifyStart, VerifyOk
      <3>3. chunk_check' \in Nat \ {0}
        <4>1. Img \in Images
          BY <1>2, <3>1 DEF IInv, InUpdate
        <4>2. chunk_check' = Chunks(Size[Img])
          BY <2>5 DEF VerifyOk
        <4>3. QED
          BY <4>1, <4>2, ImageFact
      <3>4. Transfer!Begin
        BY <3>1, <3>2, <3>3 DEF Transfer!Begin
      <3>5. QED
        BY <3>4
    <2>6. CASE FirstTurn
      BY <2>6 DEF FirstTurn
    <2>7. CASE InBetweenTurn
      <3>1. /\ pc = "loop" /\ pc' = "loop" /\ chunk_check' = chunk_check
            /\ Reading /\ file_read_flash
        BY <2>7 DEF InBetweenTurn, Reading
      <3>2. CASE page < chunk_check
        <4>1. page' = page + 1 /\ page + 1 <= chunk_check
          BY <1>2, <3>1, <3>2, ReadPosition DEF file_read_flash
        <4>2. Transfer!Deliver
          BY <3>1, <4>1 DEF Transfer!Deliver
        <4>3. QED
          BY <4>2
      <3>3. CASE ~(page < chunk_check)
        <4>1. page' = page
          BY <1>2, <3>1, <3>3, ReadPosition DEF file_read_flash
        <4>2. QED
          BY <3>1, <4>1
      <3>4. QED
        BY <3>2, <3>3
    <2>8. CASE LastTurn \/ LastChunk
      <3>1. /\ chunk_check' = chunk_check /\ Reading /\ file_read_flash
            /\ \/ LastTurn /\ pc = "loop" /\ pc' = "last"
               \/ LastChunk /\ pc = "last" /\ pc' = "done"
        BY <2>8 DEF LastTurn, LastChunk, Reading
      <3>2. page < chunk_check
        BY <1>2, <3>1, ReadPosition DEF IInv, TypeOK, Counting, LastTurn
      <3>3. page' = page + 1
        BY <1>2, <3>1, <3>2, ReadPosition DEF file_read_flash
      <3>4. CASE LastTurn
        <4>1. Transfer!Deliver
          BY <1>2, <3>1, <3>2, <3>3, <3>4, ReadPosition
             DEF LastChunk, LastTurn, Transfer!Deliver
        <4>2. QED
          BY <4>1
      <3>5. CASE LastChunk
        <4>1. page' = chunk_check
          BY <1>2, <3>1, <3>5 DEF IInv, Counting, LastChunk, LastTurn
        <4>2. Transfer!Finish
          BY <3>1, <3>3, <3>5, <4>1 DEF LastChunk, LastTurn, Transfer!Finish
        <4>3. QED
          BY <4>2
      <3>6. QED
        BY <3>1, <3>4, <3>5
    <2>9. CASE Reboot
      BY <2>2, <2>9 DEF Reboot, Boot
    <2>10. CASE ReadFails
      BY <2>2, <2>10 DEF ReadFails
    <2>11. CASE PowerLoss
      <3>1. pc' \in {"idle", "bricked"}
        BY <2>11 DEF PowerLoss, Boot
      <3>2. pc \in {"idle", "verify", "bricked"} \/ pc \in {"loop", "last", "done"}
        BY <1>2 DEF IInv, TypeOK
      <3>3. QED
        BY <2>1, <2>2, <3>1, <3>2
    <2>12. CASE UNCHANGED vars
      BY <2>12 DEF vars, counters
    <2>13. QED
      BY <1>2, <2>3, <2>4, <2>5, <2>6, <2>7, <2>8, <2>9, <2>10, <2>11, <2>12
         DEF Next, Update, Failure
  <1>3. QED
    BY <1>1, <1>2, Invariance, PTL DEF Spec, TransferSpec, Transfer!XferSpec

=============================================================================
