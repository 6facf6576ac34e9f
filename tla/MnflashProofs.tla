---------------------------- MODULE MnflashProofs ----------------------------
(***************************************************************************)
(* What mnflash and mnflash-switch do to a device, for all firmwares, all  *)
(* numbers of tries and all values of the other constants: a page that was *)
(* reported complete is in flash whatever failed on the way, an upload     *)
(* without a page given up has put all of the firmware there, and what     *)
(* runs is always whole.                                                   *)
(***************************************************************************)
EXTENDS Mnflash, BootloaderProofs

(***************************************************************************)
(* The invariants.                                                         *)
(***************************************************************************)
\* How often the device is looked for and asked.
TriesInv ==
    /\ Searching => left \in 1 .. Attempts
    /\ stage = "info" => left \in 1 .. Retries

\* Where the upload is while the device does what.
UploadInv ==
    /\ connected => pc \notin {"start", "app"}
    /\ ~TransferDone => sending /\ connected
    /\ sending => Writing /\ arrived # {}
    /\ step \in {"check", "erase"} =>
            arrived = {} /\ acked = {} /\ missing = {}
    /\ stage \notin {"upload", "exit 0", "exit 1"} => step = "check"
    /\ step \notin {"check", "returned 0"} =>
            OffsetOf(firmware.start) = 0 /\ firmware.end < ProgmemSize
    /\ step = "erase" => page = PageOf(firmware.start)
    /\ step = "extra" => page = TablePage /\ firmware.end =< TablePage * PageWords

\* As long as nothing has reached it the device is as it was.
UntouchedInv ==
    arrived = {} =>
        /\ flash = before /\ events = {} /\ pc \notin {"erase", "vectors", "write"}
        /\ pc \in Looping => pageBuffer = EmptyBuffer

\* The page whose words may be in the page buffer.
OnBus == {p \in {page} : Writing /\ ~(sending /\ connected /\ TransferDone)}

SendingInv(im) ==
    sending /\ connected =>
        IF TransferDone
        THEN Delivered(im, page) /\ vectorTemp = VectorsIn(im)
        ELSE host.page = page

\* Every page of the firmware has been sent.
AllSent == step \in {"extra", "execute", "returned 1"}

\* Which pages were acknowledged when.
AckedInv ==
    /\ step \notin {"check", "erase", "returned 0"}
    /\ step = "pages" =>
            /\ acked = 0 .. page - 1
            /\ page > 0 => (page - 1) * PageWords < firmware.end
    /\ AllSent => \A p \in 0 .. AppPages - 1 :
                        p * PageWords < firmware.end => p \in acked
    /\ step \in {"execute", "returned 1"} =>
            EndsBeforeTable \/ TablePage \in acked

\* An acknowledged page is the firmware's.
FilledInv(im) ==
    /\ HostInv(im, OnBus)
    /\ Erasing => acked = {} /\ ~sending /\ step = "pages"
    /\ \A p \in acked : Delivered(im, p)
    /\ acked # {} /\ connected => vectorTemp = VectorsIn(im)
    /\ SendingInv(im)

\* The device has all of page p and will not change it but by writing it.
Held(im, p) ==
    /\ \A w \in AppWords : PageOf(w) = p => flash[w] \in {Bare(w), Due(im, w)}
    /\ IF PageInBuffer /\ PageOf(currentAddress - 1) = p
       THEN \A o \in Offsets : pageBuffer[o] = Due(im, p * PageWords + o)
       ELSE There(im, p)

\* The device holds the pages in S, and the bus brings it others.
HeldInv(im, S) ==
    /\ ~Erasing
    /\ ~TransferDone =>
          /\ pc \notin {"start", "app"} /\ host.page \notin S
          /\ events \cap {"erase", "write"} = {}
          /\ currentAddress = host.page * PageWords + host.sent * PacketWords
    /\ PageInBuffer => OffsetOf(currentAddress) = 0
    /\ \A p \in S : Held(im, p)

\* An upload that erased the device and has not given up the first page.
FirstSent ==
    "erase" \in arrived /\ PageOf(firmware.start) = 0 /\ 0 \notin missing

\* Once a page was given up those below it are left alone.
GivenUp == FirstSent /\ missing # {} /\ ~cut

GivenUpInv ==
    GivenUp => /\ HeldInv(firmware.image, BelowMissing)
               /\ Writing => \E q \in missing : q =< page

\* After a power failure the device hears no more of the command, and what was
\* asked of it is forgotten.
CutInv ==
    cut => /\ arrived # {} /\ ~connected
           /\ pc \notin {"erase", "vectors", "write"}
           /\ pc \in Looping => events = {}

\* Reset leads to the bootloader.
Boots == flash[0] = ToEntry \/ \A w \in AppWords : flash[w] = Blank

BelowThere == \A p \in BelowMissing : There(firmware.image, p)

\* The table leads to the old application, to nothing, or to the new one.
WholeInv ==
    FirstSent => /\ Boots
                 /\ flash = before \/ TableBlank \/ BelowThere
                 /\ pc = "app" => flash = before \/ BelowThere

MnflashInv ==
    /\ DeviceInv /\ MnflashTypeOK /\ TriesInv /\ UploadInv /\ UntouchedInv
    /\ CutInv /\ before[0] = ToEntry
    /\ NothingMissing => AckedInv /\ FilledInv(firmware.image)
    /\ GivenUpInv
    /\ ~TornPages => WholeInv

(***************************************************************************)
(* Lemmas about pages.                                                     *)
(***************************************************************************)
\* The page of the tiny table is the last one.
LEMMA TablePageIs ==
  /\ TablePage = AppPages - 1 /\ TablePage \in Nat \ {0}
  /\ 0 \in 0 .. AppPages /\ TablePage \in 0 .. AppPages
PROOF
  <1> DEFINE base == (AppPages - 1) * PageWords
  <1>1. base + PageWords = Entry /\ base \in Nat
    BY GeometryAssumption DEF Entry
  <1> HIDE DEF base
  <1>2. ProgmemSize \in Int /\ PageWords - 3 \in Offsets
        /\ ProgmemSize = base + (PageWords - 3)
    BY <1>1, GeometryAssumption DEF ProgmemSize, AppReset, Offsets
  <1>3. PageOf(ProgmemSize) = AppPages - 1
    BY <1>2, SplitUnique, GeometryAssumption DEF base
  <1>4. TablePage = AppPages - 1
    BY <1>3 DEF TablePage, PageOf
  <1> QED BY <1>4, GeometryAssumption

\* What is known of the firmware.
LEMMA FirmwareIs ==
  ASSUME MnflashTypeOK
  PROVE  /\ firmware.image \in Images /\ firmware.start \in AppWords
         /\ firmware.end \in 1 .. Entry /\ firmware.end \in Int
         /\ \A w \in AppWords : w >= firmware.end => firmware.image[w] = Blank
         /\ page \in Nat /\ page \in 0 .. AppPages
PROOF
  <1>1. firmware \in Firmwares /\ page \in 0 .. AppPages
    BY DEF MnflashTypeOK, UploadTypeOK
  <1>2. ASSUME NEW w \in AppWords, w >= firmware.end
        PROVE  firmware.image[w] = Blank
    <2>1. w \notin firmware.start .. firmware.end - 1
      BY <1>1, <1>2, UploadAssumption, EntryFacts DEF AppWords
    <2> QED BY <1>1, <2>1, UploadAssumption
  <1> QED BY <1>1, <1>2, UploadAssumption, EntryFacts, GeometryAssumption

\* The page that is written lies below the bootloader.
LEMMA WritesBelow ==
  ASSUME MnflashTypeOK, UploadInv, Writing
  PROVE  page \in 0 .. TablePage /\ page \in 0 .. AppPages - 1
PROOF
  <1>1. CASE step = "extra"
    <2>1. page = TablePage
      BY <1>1 DEF UploadInv
    <2>2. TablePage = AppPages - 1 /\ TablePage \in Nat
      BY TablePageIs
    <2> QED BY <2>1, <2>2, GeometryAssumption
  <1>2. CASE page * PageWords < firmware.end
    <2>1. page \in Nat /\ page * PageWords < Entry /\ page * PageWords \in Int
      BY <1>2, FirmwareIs, EntryFacts, GeometryAssumption
    <2>2. ~(AppPages =< page)
      <3> SUFFICES ASSUME AppPages =< page PROVE FALSE
        OBVIOUS
      <3>1. PageWords * AppPages =< PageWords * page
        BY <2>1, TimesMonotonic, GeometryAssumption
      <3>2. Entry =< page * PageWords
        BY <2>1, <3>1, GeometryAssumption DEF Entry
      <3> QED BY <2>1, <3>2, EntryFacts
    <2> QED BY <2>1, <2>2, TablePageIs, GeometryAssumption
  <1> QED BY <1>1, <1>2 DEF Writing

(***************************************************************************)
(* Types.                                                                  *)
(***************************************************************************)
LEMMA UploadTyped ==
  ASSUME MnflashTypeOK, UploadInv, Uploader
  PROVE  UploadTypeOK'
PROOF
  <1>1. UploadTypeOK
    BY DEF MnflashTypeOK
  <1>2. PageOf(firmware.start) \in 0 .. AppPages
    BY FirmwareIs, AppWordPages, GeometryAssumption
  <1>3. Retries \in 1 .. Retries
    BY UploadAssumption
  <1>4. ASSUME Writing
        PROVE  page \in 0 .. TablePage /\ page + 1 \in 0 .. AppPages
    BY <1>4, WritesBelow, GeometryAssumption
  <1>5. CASE Check \/ Erase \/ EraseLost \/ Execute \/ ExecuteLost
    BY <1>1, <1>2, <1>5
       DEF Check, Erase, EraseLost, Execute, ExecuteLost, UploadTypeOK, Steps
  <1>6. CASE SendPage
    BY <1>1, <1>6 DEF SendPage, UploadTypeOK
  <1>7. CASE PageDone
    <2>1. Writing
      BY <1>7 DEF PageDone, UploadInv
    <2> QED BY <1>1, <1>3, <1>4, <1>7, <2>1
            DEF PageDone, NextPage, UploadTypeOK, Steps
  <1>8. CASE PageError
    <2>1. Writing /\ tries \in 1 .. Retries
      BY <1>1, <1>8 DEF PageError, UploadTypeOK
    <2>2. PICK n \in TriesLeft :
             IF n > 0
             THEN tries' = n /\ UNCHANGED <<step, page, missing>>
             ELSE /\ missing' = missing \cup {page}
                  /\ IF step = "extra"
                     THEN step' = "returned 0" /\ UNCHANGED <<page, tries>>
                     ELSE NextPage
      BY <1>8 DEF PageError
    <2>3. n > 0 => n \in 1 .. Retries
      BY <2>1, UploadAssumption DEF TriesLeft
    <2> QED BY <1>1, <1>3, <1>4, <1>8, <2>1, <2>2, <2>3
            DEF PageError, NextPage, UploadTypeOK, Steps
  <1>9. CASE PagesDone
    BY <1>1, <1>9, TablePageIs DEF PagesDone, UploadTypeOK, Steps
  <1> QED BY <1>5, <1>6, <1>7, <1>8, <1>9 DEF Uploader

LEMMA MnflashTyped ==
  ASSUME MnflashTypeOK, UploadInv, TriesInv, [MnflashNext]_mnflash
  PROVE  MnflashTypeOK' /\ TriesInv'
PROOF
  <1>0. /\ Attempts \in Nat \ {0} /\ Retries \in Nat \ {0}
        /\ Attempts \in 1 .. Attempts /\ Retries \in 1 .. Retries
        /\ \A n : n \in 1 .. Attempts => n \in 0 .. Attempts
        /\ 0 \in 0 .. Attempts
    BY MnflashAssumption, UploadAssumption
  <1>1. CASE Uploads
    BY <1>1, UploadTyped DEF Uploads, command, MnflashTypeOK, TriesInv, Searching
  <1>2. CASE FindNothing
    <2>1. left \in 1 .. Attempts
      BY <1>2 DEF FindNothing, TriesInv
    <2>2. left - 1 \in 0 .. Attempts /\ (left > 1 => left - 1 \in 1 .. Attempts)
      BY <1>0, <2>1
    <2>3. UploadTypeOK'
      BY <1>2 DEF FindNothing, allVars, upload, MnflashTypeOK, UploadTypeOK
    <2> QED BY <1>2, <2>1, <2>2, <2>3
            DEF FindNothing, MnflashTypeOK, TriesInv, Searching
  <1>3. CASE InfoError
    <2>1. left \in 1 .. Retries
      BY <1>3 DEF InfoError, TriesInv
    <2>2. /\ left' \in 0 .. Attempts \cup 1 .. Retries
          /\ left' > 0 => left' \in 1 .. Retries
      <3>1. CASE left' = 0
        BY <1>0, <3>1
      <3>2. CASE left' = left - 1 /\ left' # 0
        <4>1. left' \in 1 .. Retries
          BY <1>0, <2>1, <3>2
        <4> QED BY <4>1
      <3> QED BY <1>3, <3>1, <3>2 DEF InfoError
    <2>3. UploadTypeOK'
      BY <1>3 DEF InfoError, allVars, upload, MnflashTypeOK, UploadTypeOK
    <2> QED BY <1>3, <2>1, <2>2, <2>3
            DEF InfoError, MnflashTypeOK, TriesInv, Searching
  <1>4. CASE FindApplication \/ FindBootloader \/ Switch \/ GetInfo \/ Locate
             \/ Exit
    <2>1. UploadTypeOK'
      BY <1>4 DEF FindApplication, FindBootloader, Switch, GetInfo, Locate, Exit,
                  allVars, upload, MnflashTypeOK, UploadTypeOK
    <2> QED BY <1>0, <1>4, <2>1
            DEF FindApplication, FindBootloader, Switch, GetInfo, Locate, Exit,
                MnflashTypeOK, TriesInv, Searching
  <1>5. CASE Transfers \/ DeviceRuns \/ PowerCut \/ UNCHANGED mnflash
    <2>1. UploadTypeOK'
      BY <1>5 DEF Transfers, Packets, DeviceRuns, Runs, StillThere,
                  AppKeepsRunning, PowerCut, PowerFails, mnflash, allVars,
                  upload, MnflashTypeOK, UploadTypeOK
    <2> QED BY <1>5, <2>1
            DEF Transfers, DeviceRuns, PowerCut, mnflash, command,
                MnflashTypeOK, TriesInv, Searching
  <1> QED BY <1>1, <1>2, <1>3, <1>4, <1>5 DEF MnflashNext, Main

(***************************************************************************)
(* The device and the upload.                                              *)
(***************************************************************************)
\* To the device each step is one of the bootloader's, or a transfer that its
\* host gives up.
LEMMA DeviceStep ==
  ASSUME DeviceInv, [MnflashNext]_mnflash
  PROVE  DeviceInv'
PROOF
  <1>0. ~LossyBus
    BY UploadAssumption
  <1>1. CASE PageError
    BY <1>1, DeviceInvCut DEF PageError
  <1>2. CASE ~PageError
    <2>1. [Next]_vars
      <3>1. CASE Uploads
        BY <1>2, <3>1
           DEF Uploads, Uploader, Check, Erase, EraseLost, SendPage, PageDone,
               PagesDone, Execute, ExecuteLost, Next, Bus
      <3>2. CASE Main /\ ~Uploads
        BY <3>2 DEF Main, FindApplication, FindBootloader, FindNothing, Switch,
                    GetInfo, InfoError, Locate, Exit, allVars, Next, Bus, World
      <3>3. CASE Transfers \/ DeviceRuns \/ PowerCut
        BY <3>3 DEF Transfers, Packets, DeviceRuns, Runs, AppKeepsRunning,
                    PowerCut, PowerFails, Next, Bus, World
      <3>4. CASE UNCHANGED mnflash
        BY <3>4 DEF mnflash, allVars
      <3> QED BY <3>1, <3>2, <3>3, <3>4 DEF MnflashNext
    <2> QED BY <1>0, <2>1, DeviceInvStep
  <1> QED BY <1>1, <1>2

\* The upload's own steps.
LEMMA UploaderControl ==
  ASSUME TypeOK, MnflashTypeOK, UploadInv, Uploads
  PROVE  UploadInv'
PROOF
  <1>0. NoTransfer.sent = PacketsPerPage
    BY NoTransferTyped DEF TypeOK
  <1>1. stage = "upload" /\ stage' = stage /\ Uploader
    BY DEF Uploads, command
  <1>2. CASE Check
    <2>1. /\ step = "check" /\ page' = PageOf(firmware.start)
          /\ step' = IF OffsetOf(firmware.start) # 0 \/ firmware.end >= ProgmemSize
                     THEN "returned 0" ELSE "erase"
          /\ UNCHANGED <<pc, host, firmware, sending, connected, arrived, missing,
                         acked>>
      BY <1>2 DEF Check, vars
    <2>2. ~sending /\ TransferDone
      BY <2>1 DEF UploadInv, Writing
    <2>3. firmware.end \in Int /\ ProgmemSize \in Int
      BY FirmwareIs, EntryFacts DEF ProgmemSize, AppReset
    <2>4. /\ step' \in {"erase", "returned 0"}
          /\ step' = "erase" => /\ OffsetOf(firmware.start) = 0
                                /\ firmware.end < ProgmemSize
      <3>1. ~(firmware.end >= ProgmemSize) => firmware.end < ProgmemSize
        BY <2>3
      <3> QED BY <2>1, <3>1
    <2> QED BY <1>1, <2>1, <2>2, <2>4 DEF UploadInv, TransferDone
  <1>3. CASE Erase
    <2>1. /\ step = "erase" /\ step' = "pages" /\ pc' = "handle"
          /\ host' = NoTransfer
          /\ UNCHANGED <<firmware, sending>>
      BY <1>3 DEF Erase, SetupErase, Setup
    <2>2. ~sending
      BY <2>1 DEF UploadInv, Writing
    <2> QED BY <1>0, <1>1, <2>1, <2>2 DEF UploadInv, TransferDone
  <1>4. CASE EraseLost \/ ExecuteLost
    <2>1. /\ step \in {"erase", "execute"} /\ step' \in {"pages", "returned 1"}
          /\ UNCHANGED <<pc, host, firmware, page, sending, connected, arrived>>
      BY <1>4 DEF EraseLost, ExecuteLost, vars
    <2>2. ~sending /\ TransferDone
      BY <2>1 DEF UploadInv, Writing
    <2> QED BY <1>1, <2>1, <2>2 DEF UploadInv, TransferDone
  <1>5. CASE SendPage
    <2>1. /\ Writing /\ sending' /\ connected' /\ arrived' = arrived \cup {"page"}
          /\ pc' = "handle"
          /\ UNCHANGED <<firmware, step, page, acked, missing>>
      BY <1>5 DEF SendPage, SetupWrite, Setup
    <2>2. Writing' /\ step \notin {"check", "erase"}
      BY <2>1 DEF Writing
    <2> QED BY <1>1, <2>1, <2>2 DEF UploadInv
  <1>6. CASE PageDone
    <2>1. /\ sending /\ TransferDone /\ ~sending' /\ NextPage /\ Writing
          /\ UNCHANGED <<pc, host, firmware, connected, arrived>>
      BY <1>6 DEF PageDone, vars, UploadInv
    <2>2. step' \in {"pages", "execute"} /\ step \in {"pages", "extra"}
      BY <2>1 DEF NextPage, Writing
    <2> QED BY <1>1, <2>1, <2>2 DEF UploadInv, TransferDone
  <1>7. CASE PageError
    <2>1. /\ Writing /\ ~sending' /\ host' = NoTransfer
          /\ UNCHANGED <<pc, firmware, connected>>
          /\ \/ UNCHANGED <<step, page>>
             \/ step' = "returned 0" \/ NextPage
      BY <1>7 DEF PageError
    <2>2. /\ step \in {"pages", "extra"}
          /\ step' \in {"pages", "execute", "returned 0"}
                \/ UNCHANGED <<step, page>>
      BY <2>1 DEF NextPage, Writing
    <2> QED BY <1>0, <1>1, <2>1, <2>2 DEF UploadInv, TransferDone
  <1>8. CASE PagesDone
    <2>1. /\ step = "pages" /\ ~Writing
          /\ IF NeedsExtraPage THEN step' = "extra" /\ page' = TablePage
             ELSE step' = "execute" /\ page' = page
          /\ UNCHANGED <<pc, host, firmware, sending, connected, arrived, missing,
                         acked>>
      BY <1>8 DEF PagesDone, vars
    <2>2. ~sending /\ TransferDone
      BY <2>1 DEF UploadInv
    <2>3. NeedsExtraPage => firmware.end =< TablePage * PageWords
      <3> SUFFICES ASSUME page < TablePage
                   PROVE  firmware.end =< TablePage * PageWords
        BY DEF NeedsExtraPage
      <3>1. firmware.end \in Int /\ page \in Nat /\ PageWords \in Nat
            /\ TablePage \in Nat
        BY FirmwareIs, TablePageIs, GeometryAssumption
      <3>2. firmware.end =< page * PageWords
        BY <2>1, <3>1 DEF Writing
      <3>3. PageWords * page =< PageWords * TablePage
        BY <3>1, TimesMonotonic
      <3>4. /\ page * PageWords = PageWords * page
            /\ TablePage * PageWords = PageWords * TablePage
            /\ PageWords * page \in Int /\ PageWords * TablePage \in Int
        BY <3>1
      <3> QED BY <3>1, <3>2, <3>3, <3>4
    <2>4. step' \in {"extra", "execute"} /\ (step' = "extra" => NeedsExtraPage)
          /\ (step' = "extra" => page' = TablePage)
      BY <2>1
    <2> QED BY <1>1, <2>1, <2>2, <2>3, <2>4 DEF UploadInv, TransferDone
  <1>9. CASE Execute
    <2>1. /\ step = "execute" /\ step' = "returned 1" /\ pc' = "handle"
          /\ host' = NoTransfer
          /\ UNCHANGED <<firmware, sending>>
      BY <1>9 DEF Execute, SetupExecute, Setup
    <2>2. ~sending
      BY <2>1 DEF UploadInv, Writing
    <2> QED BY <1>0, <1>1, <2>1, <2>2 DEF UploadInv, TransferDone
  <1> QED BY <1>1, <1>2, <1>3, <1>4, <1>5, <1>6, <1>7, <1>8, <1>9 DEF Uploader

LEMMA ControlStep ==
  ASSUME TypeOK, MnflashTypeOK, UploadInv, [MnflashNext]_mnflash
  PROVE  UploadInv'
PROOF
  <1>0. NoTransfer.sent = PacketsPerPage
    BY NoTransferTyped DEF TypeOK
  <1>1. CASE Uploads
    BY <1>1, UploaderControl
  <1>2. CASE FindApplication \/ FindNothing \/ InfoError \/ Locate \/ Exit
    <2>1. /\ UNCHANGED <<pc, host, upload>>
          /\ stage \in {"exit 0", "exit 1"} => stage' \in {"exit 0", "exit 1"}
          /\ stage # "upload" => stage \notin {"exit 0", "exit 1"}
          /\ stage = "upload" => stage' = "exit 0"
      BY <1>2 DEF FindApplication, FindNothing, InfoError, Locate, Exit, allVars,
                  vars, Searching
    <2>2. TransferDone' <=> TransferDone
      BY <2>1 DEF TransferDone
    <2>3. Writing' <=> Writing
      BY <2>1 DEF upload, Writing
    <2> QED BY <2>1, <2>2, <2>3 DEF UploadInv, upload
  <1>3. CASE FindBootloader \/ GetInfo
    <2>1. /\ pc' = "handle" /\ host' = NoTransfer
          /\ stage \notin {"upload", "exit 0", "exit 1"}
          /\ UNCHANGED <<firmware, step, page, tries, sending, arrived, missing,
                         acked>>
      BY <1>3 DEF FindBootloader, GetInfo, SetupStandard, SetupInfo, Setup,
                  Searching, upload
    <2>2. step = "check" /\ ~sending
      BY <2>1 DEF UploadInv, Writing
    <2> QED BY <1>0, <2>1, <2>2 DEF UploadInv, TransferDone
  <1>4. CASE Switch
    <2>1. /\ host' = host /\ (pc = "app" \/ pc' = pc)
          /\ stage = "switch" /\ UNCHANGED upload
      BY <1>4 DEF Switch, AppRestarts, vars
    <2>2. (TransferDone' <=> TransferDone) /\ (Writing' <=> Writing)
      BY <2>1 DEF TransferDone, upload, Writing
    <2> QED BY <2>1, <2>2 DEF UploadInv, upload
  <1>5. CASE Transfers
    <2>1. /\ pc' = "handle" /\ ~TransferDone
          /\ UNCHANGED <<firmware, step, page, sending, connected, arrived,
                         missing, acked, stage>>
      BY <1>5 DEF Transfers, Packets, RecvData, upload, command
    <2>2. Writing' <=> Writing
      BY <2>1 DEF Writing
    <2> QED BY <2>1, <2>2 DEF UploadInv
  <1>6. CASE Runs /\ UNCHANGED command
    <2>1. /\ Device
          /\ connected' = (connected /\ pc' \notin {"start", "app"})
          /\ UNCHANGED <<firmware, step, page, sending, arrived, missing, acked,
                         stage>>
      BY <1>6 DEF Runs, StillThere, command
    <2>2. Writing' <=> Writing
      BY <2>1 DEF Writing
    <2>3. ASSUME ~TransferDone' PROVE ~TransferDone /\ pc' \notin {"start", "app"}
      <3>1. host' = host
        BY <1>0, <2>1, <2>3
           DEF Device, EnterMainLoop, SkipMainLoop, PollNothing, HandleErase,
               ErasePage, FillVectors, WriteVectors, HandleWrite, WritePage,
               HandleExecute, LeaveBootloader, TransferDone
      <3>2. ~TransferDone
        BY <2>3, <3>1 DEF TransferDone
      <3>3. pc # "start"
        BY <3>2 DEF UploadInv
      <3>4. ~LeaveBootloader
        BY <1>0, <2>3 DEF LeaveBootloader, TransferDone
      <3>5. pc' \notin {"start", "app"}
        BY <2>1, <3>3, <3>4
           DEF Device, EnterMainLoop, SkipMainLoop, PollNothing, HandleErase,
               ErasePage, FillVectors, WriteVectors, HandleWrite, WritePage,
               HandleExecute
      <3> QED BY <3>2, <3>5
    <2> QED BY <2>1, <2>2, <2>3 DEF UploadInv
  <1>7. CASE (AppKeepsRunning /\ UNCHANGED command) \/ UNCHANGED mnflash
    <2>1. UNCHANGED <<pc, host, upload, stage>>
      BY <1>7 DEF AppKeepsRunning, AppRuns, mnflash, allVars, vars, command
    <2>2. (TransferDone' <=> TransferDone) /\ (Writing' <=> Writing)
      BY <2>1 DEF TransferDone, upload, Writing
    <2> QED BY <2>1, <2>2 DEF UploadInv, upload
  <1>8. CASE PowerCut
    <2>1. /\ host' = NoTransfer /\ ~connected'
          /\ UNCHANGED <<firmware, step, page, sending, arrived, missing, acked,
                         stage>>
      BY <1>8 DEF PowerCut, PowerFails, PowerCycle, command
    <2>2. Writing' <=> Writing
      BY <2>1 DEF Writing
    <2> QED BY <1>0, <2>1, <2>2 DEF UploadInv, TransferDone
  <1> QED BY <1>1, <1>2, <1>3, <1>4, <1>5, <1>6, <1>7, <1>8
          DEF MnflashNext, Main, DeviceRuns

\* A power failure leaves flash as it is, outside page operations and when no
\* operation is ever torn.
LEMMA NothingTorn ==
  ASSUME TypeOK, PowerCycle, ~TornPages \/ pc \notin {"erase", "vectors", "write"}
  PROVE  flash' = flash
PROOF
  <1>1. PICK done \in IF TornPages THEN SUBSET Offsets ELSE {{}} :
           flash' = [w \in Addresses |-> IF OffsetOf(w) \in done
                                         THEN PendingFlash[w] ELSE flash[w]]
    BY DEF PowerCycle
  <1>2. done = {} \/ PendingFlash = flash
    BY DEF PendingFlash
  <1>3. flash' = [w \in Addresses |-> flash[w]]
    BY <1>1, <1>2
  <1> QED BY <1>3 DEF TypeOK

\* A command that has sent nothing leaves the device to itself.
LEMMA UntouchedStep ==
  ASSUME DeviceInv, UploadInv, UntouchedInv, [MnflashNext]_mnflash
  PROVE  UntouchedInv'
PROOF
  <1> SUFFICES ASSUME arrived' = {} PROVE UntouchedInv'
    BY DEF UntouchedInv
  <1>1. ~Erase /\ ~SendPage /\ ~Execute
    BY DEF Erase, SendPage, Execute
  <1>2. arrived = {} /\ before' = before
    BY <1>1 DEF MnflashNext, Main, FindApplication, FindBootloader, FindNothing,
                Switch, GetInfo, InfoError, Locate, Uploads, Exit, Uploader,
                Check, EraseLost, PageDone, PageError, PagesDone, ExecuteLost,
                Transfers, Packets, DeviceRuns, Runs, AppKeepsRunning, PowerCut,
                PowerFails, allVars, upload, mnflash, command
  <1>3. /\ flash = before /\ events = {} /\ pc \notin {"erase", "vectors", "write"}
        /\ pc \in Looping => pageBuffer = EmptyBuffer
        /\ TransferDone
    BY <1>2 DEF UntouchedInv, UploadInv
  <1>4. CASE UNCHANGED <<flash, pageBuffer, events, pc>>
    BY <1>2, <1>3, <1>4 DEF UntouchedInv
  <1>5. CASE SetupStandard \/ SetupInfo
    <2>1. /\ pc = "poll" /\ pc' = "handle"
          /\ UNCHANGED <<flash, pageBuffer, events>>
      BY <1>5 DEF SetupStandard, SetupInfo, Setup
    <2> QED BY <1>2, <1>3, <2>1 DEF UntouchedInv, Looping
  <1>6. CASE AppRestarts
    <2>1. /\ pc' \in {"start", "app"} /\ UNCHANGED <<flash, events>>
      BY <1>6, StageTyped DEF AppRestarts, ram
    <2> QED BY <1>2, <1>3, <2>1 DEF UntouchedInv, Looping
  <1>7. CASE Device
    <2>1. CASE EnterMainLoop \/ SkipMainLoop
      BY <1>2, <1>3, <2>1
         DEF EnterMainLoop, SkipMainLoop, RamCleared, UntouchedInv, Looping
    <2>2. CASE PollNothing
      BY <1>2, <1>3, <2>2 DEF PollNothing, ram, UntouchedInv, Looping
    <2>3. CASE HandleErase
      BY <1>2, <1>3, <2>3 DEF HandleErase, UntouchedInv, Looping
    <2>4. CASE HandleWrite
      BY <1>2, <1>3, <2>4 DEF HandleWrite, UntouchedInv, Looping
    <2>5. CASE HandleExecute
      BY <1>2, <1>3, <2>5 DEF HandleExecute, clearEvents, UntouchedInv, Looping
    <2>6. CASE LeaveBootloader
      BY <1>2, <1>3, <2>6, StageTyped
         DEF LeaveBootloader, ram, UntouchedInv, Looping
    <2>7. ~ErasePage /\ ~FillVectors /\ ~WriteVectors /\ ~WritePage
      BY <1>3 DEF ErasePage, FillVectors, WriteVectors, WritePage
    <2> QED BY <1>7, <2>1, <2>2, <2>3, <2>4, <2>5, <2>6, <2>7 DEF Device
  <1>8. CASE Transfers
    BY <1>3, <1>8 DEF Transfers, Packets, RecvData
  <1>9. CASE Main
    BY <1>1, <1>4, <1>5, <1>6, <1>9
       DEF Main, FindApplication, FindBootloader, FindNothing, Switch, GetInfo,
           InfoError, Locate, Uploads, Exit, Uploader, Check, EraseLost,
           PageDone, PageError, PagesDone, ExecuteLost, allVars, vars, ram
  <1>10. CASE DeviceRuns \/ UNCHANGED mnflash
    BY <1>4, <1>7, <1>10
       DEF DeviceRuns, Runs, AppKeepsRunning, AppRuns, mnflash, allVars, vars, ram
  <1>11. CASE PowerCut
    <2>1. PowerCycle /\ pc' \in {"start", "app"} /\ events' = events
      BY <1>11, StageTyped DEF PowerCut, PowerFails, PowerCycle, ram
    <2>2. flash' = flash
      BY <1>3, <2>1, NothingTorn DEF DeviceInv
    <2> QED BY <1>2, <1>3, <2>1, <2>2 DEF UntouchedInv, Looping
  <1> QED BY <1>8, <1>9, <1>10, <1>11 DEF MnflashNext

(***************************************************************************)
(* The steps of an upload whose erase has reached the device.              *)
(***************************************************************************)
\* Behind its end the firmware is blank.
LEMMA BlankBehind ==
  ASSUME MnflashTypeOK, NEW q \in 0 .. AppPages - 1,
         firmware.end =< q * PageWords,
         NEW w \in AppWords, PageOf(w) = q
  PROVE  firmware.image[w] = Blank
PROOF
  <1>1. w = q * PageWords + OffsetOf(w) /\ OffsetOf(w) \in Nat
    BY WordInPage, GeometryAssumption DEF Offsets
  <1>2. q * PageWords \in Nat /\ firmware.end \in Int
    BY FirmwareIs, GeometryAssumption
  <1>3. w >= firmware.end
    BY <1>1, <1>2
  <1> QED BY <1>3, FirmwareIs

\* When all pages were sent, the device has those below the tiny table, the
\* ones nobody sent included.
LEMMA PagesBelow ==
  ASSUME MnflashTypeOK, AckedInv, FilledInv(firmware.image),
         AllSent, ~Erasing,
         NEW p \in 0 .. TablePage - 1
  PROVE  Delivered(firmware.image, p)
PROOF
  <1>0. TablePage = AppPages - 1 /\ AppPages \in Int
    BY TablePageIs, GeometryAssumption
  <1>1. p \in 0 .. AppPages - 1 /\ p \in Nat /\ p =< AppPages - 2
    BY <1>0
  <1>2. CASE p * PageWords < firmware.end
    BY <1>1, <1>2 DEF AckedInv, FilledInv
  <1>3. CASE ~(p * PageWords < firmware.end)
    <2>1. firmware.end \in Int /\ firmware.end > 0
      BY FirmwareIs, EntryFacts
    <2>2. p * PageWords \in Int /\ firmware.end =< p * PageWords
      BY <1>1, <1>3, <2>1, GeometryAssumption
    <2>3. p # 0
      BY <2>1, <2>2, GeometryAssumption
    <2>4. p \in 1 .. AppPages - 2
      BY <1>0, <1>1, <2>3
    <2>5. \A w \in AppWords : PageOf(w) = p => firmware.image[w] = Blank
      BY <1>1, <2>2, BlankBehind
    <2>6. PICK im, P : im = firmware.image /\ P = OnBus
      OBVIOUS
    <2>7. HostInv(im, P)
      BY <2>6 DEF FilledInv
    <2>8. There(im, p)
      BY <2>4, <2>5, <2>6, <2>7, BlankIsThere
    <2> QED BY <2>6, <2>8 DEF Delivered
  <1> QED BY <1>2, <1>3

\* The erase reaches the device, and nothing has before.
LEMMA FilledErases ==
  ASSUME MnflashInv, Erase, NothingMissing', NEW im
  PROVE  AckedInv' /\ FilledInv(im)'
PROOF
  <1>1. /\ step = "erase" /\ step' = "pages" /\ SetupErase /\ pc = "poll"
        /\ UNCHANGED <<page, sending, acked, firmware>>
    BY DEF Erase, SetupErase, Setup
  <1>2. /\ ~sending /\ arrived = {} /\ acked = {} /\ page = PageOf(firmware.start)
    BY <1>1 DEF MnflashInv, UploadInv, Writing
  <1>3. page = 0
    BY <1>1, <1>2 DEF NothingMissing
  <1>4. TypeOK /\ EraseInv /\ events = {} /\ pageBuffer = EmptyBuffer
    BY <1>1, <1>2 DEF MnflashInv, DeviceInv, UntouchedInv, Looping
  <1>5. PICK P : P = OnBus'
    OBVIOUS
  <1>6. HostInv(im, P)'
    BY <1>1, <1>4, HostErases
  <1>7. HostInv(im, OnBus)'
    BY <1>5, <1>6
  <1>8. AckedInv'
    BY <1>1, <1>2, <1>3 DEF AckedInv, AllSent
  <1> QED BY <1>1, <1>2, <1>7, <1>8 DEF FilledInv, SendingInv

\* A page is sent when the ones below it are there.
LEMMA FilledSends ==
  ASSUME MnflashInv, AckedInv, FilledInv(firmware.image), SendPage
  PROVE  AckedInv' /\ FilledInv(firmware.image)'
PROOF
  <1>0. PICK im, P : im = firmware.image /\ P = {page}
    OBVIOUS
  <1>1. /\ SetupWrite /\ Writing /\ ~sending /\ connected /\ sending' /\ connected'
        /\ host'.page = page /\ host'.image = PageImage
        /\ UNCHANGED <<firmware, page, step, acked>>
        /\ pc = "poll" /\ vectorTemp' = vectorTemp
    BY DEF SendPage, SetupWrite, Setup
  <1>2. /\ TypeOK /\ MnflashTypeOK /\ UploadInv /\ FilledInv(im)
        /\ page \in 0 .. AppPages - 1 /\ page \in Nat
    BY <1>0, <1>1, WritesBelow, FirmwareIs DEF MnflashInv, DeviceInv
  <1>3. ~Erasing /\ ~PageInBuffer
    BY <1>1 DEF Erasing, PageInBuffer
  <1>4. HostInv(im, P)
    <2>1. PICK Q : Q = OnBus
      OBVIOUS
    <2>2. HostInv(im, Q) /\ Q \subseteq P
      BY <1>0, <1>2, <2>1 DEF FilledInv, OnBus
    <2> QED BY <2>2, MoreLeftover
  <1>5. \A w \in AppWords :
           PageOf(w) = page => Patched(w, host'.image[w], VectorsIn(im)) = Due(im, w)
    <2>1. CASE step # "extra"
      BY <1>0, <1>1, <2>1 DEF PageImage, Due
    <2>2. CASE step = "extra"
      <3>1. page = TablePage /\ firmware.end =< page * PageWords
        BY <1>2, <2>2 DEF UploadInv
      <3> SUFFICES ASSUME NEW w \in AppWords, PageOf(w) = page
                   PROVE  host'.image[w] = im[w]
        BY DEF Due
      <3>2. im[w] = Blank
        BY <1>0, <1>2, <3>1, BlankBehind
      <3> QED BY <1>1, <2>2, <3>2 DEF PageImage, BlankImage
    <2> QED BY <2>1, <2>2
  <1>6. page = 0 => host'.image = im
    <2>1. step = "extra" => page # 0
      BY <1>2, TablePageIs DEF UploadInv
    <2> QED BY <1>0, <1>1, <2>1 DEF PageImage
  <1>7. \A p \in 0 .. page - 1 : There(im, p)
    <2>1. CASE step = "pages"
      BY <1>2, <1>3, <2>1 DEF AckedInv, FilledInv, Delivered
    <2>2. CASE step = "extra"
      <3>1. page = TablePage
        BY <1>2, <2>2 DEF UploadInv
      <3> QED BY <1>0, <1>2, <1>3, <2>2, <3>1, PagesBelow DEF AllSent, Delivered
    <2> QED BY <1>1, <2>1, <2>2 DEF Writing
  <1>8. page # 0 => vectorTemp = VectorsIn(im)
    <2> SUFFICES ASSUME page # 0 PROVE acked # {}
      BY <1>1, <1>2 DEF FilledInv
    <2>1. CASE step = "pages"
      <3>1. 0 \in 0 .. page - 1
        BY <1>2
      <3> QED BY <2>1, <3>1 DEF AckedInv
    <2>2. CASE step = "extra"
      <3>1. 0 \in 0 .. AppPages - 1 /\ 0 * PageWords < firmware.end
        BY <1>2, FirmwareIs, GeometryAssumption
      <3> QED BY <2>2, <3>1 DEF AckedInv, AllSent
    <2> QED BY <1>1, <2>1, <2>2 DEF Writing
  <1>9. /\ HostInv(im, P)' /\ ~TransferDone' /\ ~Erasing'
        /\ \A p : Delivered(im, p) => Delivered(im, p)'
    BY <1>0, <1>1, <1>2, <1>4, <1>5, <1>6, <1>7, <1>8, HostSends,
       UploadAssumption
  <1>10. OnBus' = P
    <2>1. Writing'
      BY <1>1 DEF Writing
    <2> QED BY <1>0, <1>1, <1>9, <2>1 DEF OnBus
  <1>11. HostInv(im, OnBus)'
    BY <1>9, <1>10
  <1>12. FilledInv(im)'
    BY <1>1, <1>2, <1>9, <1>11 DEF FilledInv, SendingInv
  <1>13. AckedInv'
    BY <1>1 DEF AckedInv, AllSent, EndsBeforeTable
  <1> QED BY <1>0, <1>1, <1>12, <1>13

\* Steps that leave the device alone, and what was acknowledged.
LEMMA FilledSame ==
  ASSUME NEW im, FilledInv(im), TypeOK,
         host' = host \/ host' = NoTransfer,
         UNCHANGED <<flash, pageBuffer, currentAddress, vectorTemp, events, pc,
                     erasePage, acked>>,
         connected' => connected, sending' => sending,
         sending' => host' = host /\ page' = page,
         OnBus \subseteq OnBus',
         step' = step \/ ~Erasing
  PROVE  FilledInv(im)'
PROOF
  <1>1. PICK P : P = OnBus
    OBVIOUS
  <1>2. HostInv(im, P)
    BY <1>1 DEF FilledInv
  <1>3. /\ HostInv(im, P)' /\ (Erasing' <=> Erasing)
        /\ \A p : Delivered(im, p)' <=> Delivered(im, p)
    <2>1. CASE host' = NoTransfer
      BY <1>2, <2>1, HostCuts
    <2>2. CASE host' = host
      <3>1. (Erasing' <=> Erasing) /\ (PageInBuffer' <=> PageInBuffer)
        BY DEF Erasing, PageInBuffer
      <3>2. EraseInv' /\ EventInv' /\ ErasingInv'
        BY <1>2 DEF HostInv, EraseInv, EventInv, ErasingInv
      <3> QED BY <1>2, <2>2, <3>1, <3>2, KeepsHost DEF HostInv, EventInv
    <2> QED BY <2>1, <2>2
  <1>4. PICK Q : Q = OnBus'
    OBVIOUS
  <1>5. ASSUME NEW R, HostInv(im, P)', P \subseteq R PROVE HostInv(im, R)'
    BY <1>5 DEF HostInv, Leftover
  <1>6. HostInv(im, OnBus)'
    BY <1>1, <1>3, <1>4, <1>5
  <1>7. SendingInv(im)'
    <2> SUFFICES ASSUME sending', connected' PROVE SendingInv(im)'
      BY DEF SendingInv
    <2>1. TransferDone' <=> TransferDone
      BY DEF TransferDone
    <2>2. PICK q : q = page
      OBVIOUS
    <2>3. Delivered(im, page)' <=> Delivered(im, page)
      BY <1>3, <2>2
    <2> QED BY <2>1, <2>3 DEF FilledInv, SendingInv
  <1> QED BY <1>3, <1>6, <1>7 DEF FilledInv

\* A page is complete.
LEMMA FilledDone ==
  ASSUME MnflashInv, AckedInv, NEW im, FilledInv(im), PageDone
  PROVE  AckedInv' /\ FilledInv(im)'
PROOF
  <1>1. /\ sending /\ connected /\ TransferDone /\ Writing /\ NextPage
        /\ sending' = FALSE /\ acked' = acked \cup {page}
        /\ UNCHANGED <<flash, pageBuffer, currentAddress, vectorTemp, host,
                       events, pc, erasePage, connected, firmware>>
    BY DEF PageDone, vars, ram, MnflashInv, UploadInv
  <1>2. Delivered(im, page) /\ vectorTemp = VectorsIn(im) /\ ~Erasing
    BY <1>1 DEF FilledInv, SendingInv
  <1>3. OnBus = {}
    BY <1>1 DEF OnBus
  <1>4. PICK Q : Q = OnBus'
    OBVIOUS
  <1>5. HostInv(im, Q)
    <2>1. HostInv(im, {})
      BY <1>3 DEF FilledInv
    <2> QED BY <2>1, MoreLeftover
  <1>6. /\ EraseInv' /\ EventInv' /\ ErasingInv' /\ ~Erasing'
        /\ (PageInBuffer' <=> PageInBuffer)
    BY <1>1, <1>2, <1>5 DEF HostInv, EraseInv, EventInv, ErasingInv, Erasing,
                            PageInBuffer
  <1>7. HostInv(im, Q)' /\ \A p : Delivered(im, p)' <=> Delivered(im, p)
    BY <1>1, <1>2, <1>5, <1>6, KeepsHost DEF HostInv, EventInv
  <1>8. HostInv(im, OnBus)'
    BY <1>4, <1>7
  <1>9. FilledInv(im)'
    BY <1>1, <1>2, <1>6, <1>7, <1>8 DEF FilledInv, SendingInv
  <1>10. AckedInv'
    <2>1. CASE step = "pages"
      <3>1. /\ step' = "pages" /\ page' = page + 1 /\ page \in Nat
            /\ acked = 0 .. page - 1 /\ page * PageWords < firmware.end
        BY <1>1, <2>1, FirmwareIs DEF NextPage, AckedInv, MnflashInv, Writing
      <3>2. acked' = 0 .. page' - 1 /\ page' - 1 = page
        BY <1>1, <3>1
      <3> QED BY <1>1, <3>1, <3>2 DEF AckedInv, AllSent
    <2>2. CASE step = "extra"
      <3>1. step' = "execute" /\ page = TablePage /\ TablePage \in acked'
        BY <1>1, <2>2 DEF NextPage, MnflashInv, UploadInv
      <3> QED BY <1>1, <2>2, <3>1 DEF AckedInv, AllSent
    <2> QED BY <1>1, <2>1, <2>2 DEF Writing
  <1> QED BY <1>9, <1>10

\* A page failed, but will be tried again.
LEMMA FilledRetries ==
  ASSUME MnflashInv, AckedInv, NEW im, FilledInv(im), PageError, missing' = {}
  PROVE  AckedInv' /\ FilledInv(im)'
PROOF
  <1>1. /\ Writing /\ host' = NoTransfer /\ sending' = FALSE
        /\ UNCHANGED <<flash, pageBuffer, currentAddress, vectorTemp, events, pc,
                       erasePage, acked, connected, firmware, step, page>>
    BY DEF PageError, ram
  <1>2. OnBus \subseteq OnBus'
    BY <1>1 DEF OnBus, Writing
  <1>3. FilledInv(im)'
    BY <1>1, <1>2, FilledSame DEF MnflashInv, DeviceInv
  <1>4. AckedInv'
    BY <1>1 DEF AckedInv, AllSent, EndsBeforeTable
  <1> QED BY <1>3, <1>4

\* All pages of the firmware are sent, and the last is followed by nothing or
\* by the page of the tiny table.
LEMMA FilledPages ==
  ASSUME MnflashInv, AckedInv, NEW im, FilledInv(im), PagesDone, NothingMissing
  PROVE  AckedInv' /\ FilledInv(im)'
PROOF
  <1>1. /\ step = "pages" /\ ~Writing /\ ~sending
        /\ step' = IF NeedsExtraPage THEN "extra" ELSE "execute"
        /\ page' = IF NeedsExtraPage THEN TablePage ELSE page
        /\ UNCHANGED <<flash, pageBuffer, currentAddress, vectorTemp, host,
                       events, pc, erasePage, connected, firmware, sending,
                       acked>>
    BY DEF PagesDone, MnflashInv, UploadInv, vars, ram
  <1>2. /\ page \in 0 .. AppPages /\ page \in Nat /\ firmware.end \in Int
        /\ firmware.end > 0 /\ PageWords \in Nat
    BY FirmwareIs, EntryFacts, GeometryAssumption DEF MnflashInv
  <1>3. firmware.end =< page * PageWords /\ page * PageWords \in Nat
    BY <1>1, <1>2 DEF Writing
  <1>4. page > 0
    <2> SUFFICES ASSUME page = 0 PROVE FALSE
      BY <1>2
    <2> QED BY <1>2, <1>3
  <1>5. ~Erasing
    <2>1. 0 \in acked
      BY <1>1, <1>2, <1>4 DEF AckedInv
    <2> QED BY <2>1 DEF FilledInv
  <1>6. OnBus = {}
    BY <1>1 DEF OnBus
  <1>7. FilledInv(im)'
    BY <1>1, <1>5, <1>6, FilledSame DEF MnflashInv, DeviceInv
  <1>8. ASSUME NEW p \in 0 .. AppPages - 1, p * PageWords < firmware.end
        PROVE  p \in acked
    <2>1. p \in Nat /\ p * PageWords \in Int
      BY <1>2, GeometryAssumption
    <2>2. ~(page =< p)
      <3> SUFFICES ASSUME page =< p PROVE FALSE
        OBVIOUS
      <3>1. PageWords * page =< PageWords * p
        BY <1>2, <2>1, TimesMonotonic
      <3>2. PageWords * page = page * PageWords /\ PageWords * p = p * PageWords
        BY <1>2, <2>1
      <3> QED BY <1>2, <1>3, <1>8, <2>1, <3>1, <3>2
    <2>3. p \in 0 .. page - 1
      BY <1>2, <2>1, <2>2
    <2> QED BY <1>1, <2>3 DEF AckedInv
  <1>9. ~NeedsExtraPage => EndsBeforeTable \/ TablePage \in acked
    <2> SUFFICES ASSUME page >= TablePage, TablePage \notin acked
                 PROVE  EndsBeforeTable
      BY <1>2, TablePageIs DEF NeedsExtraPage
    <2>1. TablePage \in Nat \ {0}
      BY TablePageIs
    <2>2. page = TablePage
      <3>1. TablePage \notin 0 .. page - 1
        BY <1>1 DEF AckedInv
      <3> QED BY <1>2, <2>1, <3>1
    <2> DEFINE q    == page - 1
               base == q * PageWords
    <2>3. base < firmware.end /\ base \in Int /\ q \in Int
          /\ page * PageWords = base + PageWords
      BY <1>1, <1>2, <1>4 DEF AckedInv
    <2> HIDE DEF base
    <2>4. firmware.end - 1 - base \in Offsets /\ firmware.end - 1 \in Int
          /\ firmware.end - 1 = base + (firmware.end - 1 - base)
      BY <1>2, <1>3, <2>3 DEF Offsets
    <2>5. PageOf(firmware.end - 1) = q
      <3> HIDE DEF q
      <3> QED BY <2>3, <2>4, SplitUnique DEF base
    <2> QED BY <2>2, <2>5, <1>2 DEF EndsBeforeTable
  <1>10. AckedInv'
    BY <1>1, <1>8, <1>9 DEF AckedInv, AllSent, EndsBeforeTable
  <1> QED BY <1>7, <1>10

\* The execute request: the device has heard all of it and will leave.
LEMMA FilledExecutes ==
  ASSUME MnflashInv, AckedInv, NEW im, FilledInv(im), Execute
  PROVE  AckedInv' /\ FilledInv(im)'
PROOF
  <1>1. /\ SetupExecute /\ connected /\ step = "execute"
        /\ ~Writing /\ ~Writing' /\ ~sending /\ ~sending'
        /\ AllSent /\ AllSent' /\ step' \notin {"check", "erase", "returned 0", "pages"}
        /\ UNCHANGED <<page, acked, connected, firmware>>
    BY DEF Execute, MnflashInv, UploadInv, Writing, AllSent
  <1>2. TypeOK /\ vectorTemp' = vectorTemp /\ OnBus = {} /\ OnBus' = {}
    BY <1>1 DEF MnflashInv, DeviceInv, SetupExecute, Setup, OnBus
  <1>3. HostInv(im, {})
    BY <1>2 DEF FilledInv
  <1>4. /\ HostInv(im, {})' /\ ~Erasing'
        /\ \A p : Delivered(im, p) => Delivered(im, p)'
    BY <1>1, <1>2, <1>3, HostAsks
  <1>5. HostInv(im, OnBus)'
    BY <1>2, <1>4
  <1>6. FilledInv(im)'
    BY <1>1, <1>2, <1>4, <1>5 DEF FilledInv, SendingInv
  <1>7. AckedInv'
    BY <1>1 DEF AckedInv, AllSent, EndsBeforeTable, Execute
  <1> QED BY <1>6, <1>7

\* The execute request was lost, or the command has returned.
LEMMA FilledEnds ==
  ASSUME MnflashInv, AckedInv, NEW im, FilledInv(im), ExecuteLost \/ Exit
  PROVE  AckedInv' /\ FilledInv(im)'
PROOF
  <1>1. /\ AllSent /\ AllSent' /\ step \in {"execute", "returned 1"}
        /\ step' \notin {"check", "erase", "returned 0", "pages"}
        /\ UNCHANGED <<flash, pageBuffer, currentAddress, vectorTemp, host,
                       events, pc, erasePage, connected, sending, page, acked,
                       firmware>>
    BY DEF ExecuteLost, Exit, allVars, upload, vars, ram, AllSent, AckedInv
  <1>2. ~Writing
    BY <1>1 DEF Writing
  <1>3. OnBus = {} /\ step # "pages"
    BY <1>1, <1>2 DEF OnBus
  <1>4. ~Erasing
    BY <1>3 DEF FilledInv
  <1>5. FilledInv(im)'
    BY <1>1, <1>3, <1>4, FilledSame DEF MnflashInv, DeviceInv
  <1>6. AckedInv'
    BY <1>1 DEF AckedInv, AllSent, EndsBeforeTable
  <1> QED BY <1>5, <1>6

\* Nothing but the upload's own steps changes what AckedInv speaks of.
LEMMA AckedSame ==
  ASSUME AckedInv, UNCHANGED <<step, page, acked, firmware>>
  PROVE  AckedInv'
  BY DEF AckedInv, AllSent, EndsBeforeTable

\* Pages other than the first come after it, and do not touch the vectors.
LEMMA FirstAcked ==
  ASSUME MnflashTypeOK, UploadInv, AckedInv, Writing, acked # {}
  PROVE  page # 0
PROOF
  <1>1. CASE step = "pages"
    BY <1>1 DEF AckedInv
  <1>2. CASE step = "extra"
    BY <1>2, TablePageIs DEF UploadInv
  <1> QED BY <1>1, <1>2 DEF Writing

\* A packet of the page comes.
LEMMA FilledPacket ==
  ASSUME MnflashInv, AckedInv, NEW im, FilledInv(im), Transfers
  PROVE  AckedInv' /\ FilledInv(im)'
PROOF
  <1>1. /\ RecvData /\ ~TransferDone
        /\ UNCHANGED <<firmware, step, page, sending, connected, acked>>
    BY DEF Transfers, Packets, RecvData, upload
  <1>2. TypeOK /\ sending /\ connected /\ Writing /\ Writing'
    BY <1>1 DEF MnflashInv, UploadInv, DeviceInv, Writing
  <1>3. host.page = page
    BY <1>1, <1>2 DEF FilledInv, SendingInv
  <1>4. PICK P : P = {page}
    OBVIOUS
  <1>5. OnBus = P /\ HostInv(im, P) /\ P \subseteq {host.page}
    BY <1>1, <1>2, <1>3, <1>4 DEF FilledInv, OnBus
  <1>6. /\ HostInv(im, P)' /\ ~Erasing' /\ host'.page = page
        /\ \A p : Delivered(im, p) => Delivered(im, p)'
        /\ page # 0 => vectorTemp' = vectorTemp
        /\ TransferDone' =>
             /\ HostInv(im, {})' /\ vectorTemp' = VectorsIn(im)
             /\ \A p : p = page => Delivered(im, p)'
    BY <1>1, <1>2, <1>3, <1>5, HostPacket
  <1>7. HostInv(im, OnBus)'
    <2>1. CASE TransferDone'
      <3>1. OnBus' = {}
        BY <1>1, <1>2, <2>1 DEF OnBus
      <3> QED BY <1>6, <2>1, <3>1
    <2>2. CASE ~TransferDone'
      <3>1. OnBus' = P
        BY <1>1, <1>2, <1>4, <2>2 DEF OnBus
      <3> QED BY <1>6, <3>1
    <2> QED BY <2>1, <2>2
  <1>8. SendingInv(im)'
    <2>1. Delivered(im, page)' <=> \E p : p = page /\ Delivered(im, p)'
      BY <1>1 DEF Delivered, There
    <2> QED BY <1>1, <1>6, <2>1 DEF SendingInv
  <1>9. acked # {} => vectorTemp' = VectorsIn(im)
    BY <1>2, <1>6, FirstAcked DEF FilledInv, MnflashInv
  <1>10. \A p \in acked : Delivered(im, p)'
    BY <1>6 DEF FilledInv
  <1>11. FilledInv(im)'
    BY <1>1, <1>6, <1>7, <1>8, <1>9, <1>10 DEF FilledInv
  <1> QED BY <1>1, <1>11, AckedSame

\* A step of the device.
LEMMA FilledRuns ==
  ASSUME MnflashInv, AckedInv, NEW im, FilledInv(im), Runs
  PROVE  AckedInv' /\ FilledInv(im)'
PROOF
  <1>1. /\ Device /\ UNCHANGED <<firmware, step, page, sending, acked>>
        /\ connected' = (connected /\ pc' \notin {"start", "app"})
    BY DEF Runs, StillThere
  <1>2. TypeOK /\ BootloaderIntact /\ UploadInv
    BY DEF MnflashInv, DeviceInv
  <1>3. PICK P : P = OnBus
    OBVIOUS
  <1>4. HostInv(im, P)
    BY <1>3 DEF FilledInv
  <1>5. /\ HostInv(im, P)' /\ (Erasing' => Erasing)
        /\ ~Erasing => \A p : Delivered(im, p) => Delivered(im, p)'
    BY <1>1, <1>2, <1>4, HostDevice
  <1>6. /\ connected => vectorTemp' = vectorTemp
        /\ connected' => connected /\ host' = host
    BY <1>1, <1>2, DeviceKeeps DEF UploadInv
  <1>7. P \subseteq OnBus'
    <2>1. Writing' <=> Writing
      BY <1>1 DEF Writing
    <2>2. sending /\ connected' /\ TransferDone' => connected /\ TransferDone
      BY <1>6 DEF TransferDone
    <2> QED BY <1>1, <1>3, <2>1, <2>2 DEF OnBus
  <1>8. ASSUME NEW R, HostInv(im, P)', P \subseteq R PROVE HostInv(im, R)'
    BY <1>8 DEF HostInv, Leftover
  <1>9. PICK Q : Q = OnBus'
    OBVIOUS
  <1>10. HostInv(im, OnBus)'
    BY <1>5, <1>7, <1>8, <1>9
  <1>11. \A p \in acked : Delivered(im, p)'
    BY <1>5 DEF FilledInv
  <1>12. SendingInv(im)'
    <2> SUFFICES ASSUME sending, connected' PROVE SendingInv(im)'
      BY <1>1 DEF SendingInv
    <2>1. ~Erasing /\ host' = host /\ connected /\ vectorTemp' = vectorTemp
      BY <1>6 DEF FilledInv
    <2>2. TransferDone' <=> TransferDone
      BY <2>1 DEF TransferDone
    <2>3. PICK q : q = page
      OBVIOUS
    <2>4. Delivered(im, q) => Delivered(im, q)'
      BY <1>5, <2>1
    <2>5. Delivered(im, page) => Delivered(im, page)'
      BY <1>1, <2>3, <2>4
    <2> QED BY <1>1, <2>1, <2>2, <2>5 DEF FilledInv, SendingInv
  <1>13. FilledInv(im)'
    BY <1>1, <1>5, <1>6, <1>10, <1>11, <1>12 DEF FilledInv
  <1> QED BY <1>1, <1>13, AckedSame

\* The erase is heard of once, and a page given up stays given up.
LEMMA MissingStays ==
  ASSUME [MnflashNext]_mnflash, NothingMissing', ~Erase
  PROVE  NothingMissing /\ firmware' = firmware /\ missing' = {} /\ ~PowerCut
PROOF
  <1>0. ~PowerCut
    BY DEF PowerCut, PowerFails, NothingMissing
  <1>1. /\ firmware' = firmware /\ missing \subseteq missing' /\ cut' = cut
        /\ "erase" \in arrived' => "erase" \in arrived
    <2>1. CASE Uploads
      BY <2>1 DEF Uploads, Uploader, Check, EraseLost, SendPage, PageDone,
                  PageError, NextPage, PagesDone, Execute, ExecuteLost
    <2>2. CASE ~Uploads
      BY <1>0, <2>2
         DEF MnflashNext, Main, FindApplication, FindBootloader, FindNothing,
             Switch, GetInfo, InfoError, Locate, Exit, Transfers, Packets,
             DeviceRuns, Runs, AppKeepsRunning, allVars, upload, mnflash
    <2> QED BY <2>1, <2>2
  <1> QED BY <1>0, <1>1 DEF NothingMissing

LEMMA FilledStep ==
  ASSUME MnflashInv, [MnflashNext]_mnflash, NothingMissing'
  PROVE  AckedInv' /\ FilledInv(firmware.image)'
PROOF
  <1>1. PICK im : im = firmware.image
    OBVIOUS
  <1>2. CASE Erase
    <2>1. firmware' = firmware
      BY <1>2 DEF Erase
    <2>2. AckedInv' /\ FilledInv(im)'
      BY <1>2, FilledErases
    <2> QED BY <1>1, <2>1, <2>2
  <1>3. CASE ~Erase
    <2>1. NothingMissing /\ firmware' = firmware /\ missing' = {}
          /\ ~PowerCut
      BY <1>3, MissingStays
    <2>2. AckedInv /\ FilledInv(im) /\ UploadInv
      BY <1>1, <2>1 DEF MnflashInv
    <2>3. step \notin {"check", "erase"} /\ stage \in {"upload", "exit 0", "exit 1"}
      BY <2>2 DEF AckedInv, UploadInv
    <2>4. ~Check /\ ~EraseLost
      BY <2>3 DEF Check, EraseLost
    <2>5. ~(FindApplication \/ FindBootloader \/ FindNothing \/ Switch \/ GetInfo
            \/ InfoError \/ Locate)
      BY <2>3 DEF FindApplication, FindBootloader, FindNothing, Switch, GetInfo,
                  InfoError, Locate, Searching
    <2>6. CASE SendPage
      <3>1. FilledInv(firmware.image)
        BY <1>1, <2>2
      <3> QED BY <2>2, <2>6, <3>1, FilledSends
    <2>7. CASE PageDone \/ PageError \/ PagesDone
      <3>1. AckedInv' /\ FilledInv(im)'
        BY <2>1, <2>2, <2>7, FilledDone, FilledRetries, FilledPages
      <3> QED BY <1>1, <2>1, <3>1
    <2>8. CASE Execute \/ ExecuteLost \/ Exit
      <3>1. AckedInv' /\ FilledInv(im)'
        BY <2>2, <2>8, FilledExecutes, FilledEnds
      <3> QED BY <1>1, <2>1, <3>1
    <2>9. CASE Transfers \/ Runs
      <3>1. AckedInv' /\ FilledInv(im)'
        BY <2>2, <2>9, FilledPacket, FilledRuns
      <3> QED BY <1>1, <2>1, <3>1
    <2>10. CASE AppKeepsRunning \/ UNCHANGED mnflash
      <3>1. /\ UNCHANGED <<flash, pageBuffer, currentAddress, vectorTemp, host,
                           events, pc, erasePage>>
            /\ UNCHANGED <<connected, sending, page, acked, step, firmware>>
        BY <2>10 DEF AppKeepsRunning, AppRuns, mnflash, allVars, upload, vars, ram
      <3>2. OnBus' = OnBus
        BY <3>1 DEF OnBus, Writing, TransferDone
      <3>3. FilledInv(im)'
        BY <2>2, <3>1, <3>2, FilledSame DEF MnflashInv, DeviceInv
      <3> QED BY <1>1, <2>1, <2>2, <3>1, <3>3, AckedSame
    <2> QED BY <1>3, <2>1, <2>4, <2>5, <2>6, <2>7, <2>8, <2>9, <2>10
            DEF MnflashNext, Main, Uploads, Uploader, DeviceRuns
  <1> QED BY <1>2, <1>3

(***************************************************************************)
(* Pages that are held while the bus brings others.                        *)
(***************************************************************************)
\* Steps that leave flash and page buffer alone.
LEMMA HeldStays ==
  ASSUME NEW im, NEW S, HeldInv(im, S),
         UNCHANGED <<flash, pageBuffer, currentAddress>>,
         host' = host \/ TransferDone',
         events' \cap {"erase", "write"} \subseteq events,
         TransferDone' \/ pc' \notin {"start", "app"},
         ~Erasing', PageInBuffer' <=> PageInBuffer
  PROVE  HeldInv(im, S)'
PROOF
  <1>1. \A p \in S : Held(im, p)'
    BY DEF HeldInv, Held, There
  <1>2. ~TransferDone' => host' = host /\ ~TransferDone
    BY DEF TransferDone
  <1> QED BY <1>1, <1>2 DEF HeldInv

\* The page in the buffer is written; if it is one that is held, as it is due.
LEMMA HeldWritten ==
  ASSUME TypeOK, EventInv, NEW im, NEW S, HeldInv(im, S), WritePage
  PROVE  HeldInv(im, S)'
PROOF
  <1> DEFINE q == PageOf(currentAddress - 1)
  <1>1. /\ pc = "write" /\ pc' = "handleExecute" /\ host' = host
        /\ flash' = Programmed(flash, q, pageBuffer)
        /\ UNCHANGED <<currentAddress, events>>
    BY DEF WritePage, writeFlashPage, ram
  <1>2. "write" \in events
    BY <1>1 DEF EventInv
  <1>3. /\ PageInBuffer /\ ~PageInBuffer' /\ ~Erasing'
        /\ TransferDone /\ TransferDone'
    BY <1>1, <1>2 DEF PageInBuffer, Erasing, HeldInv, TransferDone
  <1> HIDE DEF q
  <1>4. ASSUME NEW p \in S PROVE Held(im, p)'
    <2>1. ASSUME NEW w \in AppWords, PageOf(w) = p
          PROVE  flash'[w] = Due(im, w)
      <3>1. w \in Addresses /\ OffsetOf(w) \in Offsets
            /\ w = PageOf(w) * PageWords + OffsetOf(w)
        BY WordInPage
      <3>2. CASE p = q
        <4>1. flash'[w] = And(flash[w], pageBuffer[OffsetOf(w)])
          BY <1>1, <2>1, <3>1, <3>2 DEF Programmed
        <4>2. /\ flash[w] \in {Bare(w), Due(im, w)}
              /\ pageBuffer[OffsetOf(w)] = Due(im, w)
          BY <1>3, <2>1, <3>1, <3>2 DEF HeldInv, Held, q
        <4> QED BY <4>1, <4>2, DueWords
      <3>3. CASE p # q
        <4>1. flash'[w] = flash[w]
          BY <1>1, <2>1, <3>1, <3>3 DEF Programmed
        <4> QED BY <2>1, <3>3, <4>1 DEF HeldInv, Held, There, q
      <3> QED BY <3>2, <3>3
    <2> QED BY <1>3, <2>1 DEF Held, There
  <1> QED BY <1>3, <1>4 DEF HeldInv

\* The steps of the device.
LEMMA HeldDevice ==
  ASSUME TypeOK, EventInv, NEW im, NEW S, HeldInv(im, S), Device
  PROVE  HeldInv(im, S)'
PROOF
  <1>1. CASE EnterMainLoop \/ SkipMainLoop
    <2>1. /\ pc = "start" /\ pc' \in {"poll", "leave"} /\ events' = {}
          /\ UNCHANGED <<flash, host>>
      BY <1>1 DEF EnterMainLoop, SkipMainLoop, RamCleared
    <2>2. ~PageInBuffer /\ ~PageInBuffer' /\ ~Erasing'
          /\ TransferDone /\ TransferDone'
      BY <2>1 DEF PageInBuffer, Erasing, HeldInv, TransferDone
    <2>3. \A p \in S : Held(im, p)'
      BY <2>1, <2>2 DEF HeldInv, Held, There
    <2> QED BY <2>2, <2>3 DEF HeldInv
  <1>2. CASE PollNothing
    <2>1. /\ pc' = "handle" /\ events = {}
          /\ UNCHANGED <<flash, pageBuffer, currentAddress, host, events>>
      BY <1>2 DEF PollNothing, ram, EventInv
    <2>2. ~PageInBuffer /\ ~PageInBuffer' /\ ~Erasing'
      BY <2>1 DEF PageInBuffer, Erasing
    <2> QED BY <2>1, <2>2, HeldStays
  <1>3. CASE HandleErase
    <2>1. /\ pc = "handle" /\ "erase" \notin events /\ pc' = "handleWrite"
          /\ UNCHANGED <<flash, pageBuffer, currentAddress, host, events>>
      BY <1>3 DEF HandleErase, HeldInv, Erasing
    <2>2. (PageInBuffer' <=> PageInBuffer) /\ ~Erasing'
      BY <2>1 DEF PageInBuffer, Erasing
    <2> QED BY <2>1, <2>2, HeldStays
  <1>4. ~ErasePage /\ ~FillVectors /\ ~WriteVectors
    BY DEF ErasePage, FillVectors, WriteVectors, EventInv, HeldInv, Erasing
  <1>5. CASE HandleWrite
    <2>1. /\ pc = "handleWrite"
          /\ pc' = IF "write" \in events THEN "write" ELSE "handleExecute"
          /\ UNCHANGED <<flash, host, events>>
      BY <1>5 DEF HandleWrite
    <2>2. UNCHANGED <<pageBuffer, currentAddress>>
      BY <1>5, <2>1 DEF HandleWrite, HeldInv, PageInBuffer
    <2>3. (PageInBuffer' <=> PageInBuffer) /\ ~Erasing'
      BY <2>1 DEF PageInBuffer, Erasing
    <2> QED BY <2>1, <2>2, <2>3, HeldStays
  <1>6. CASE HandleExecute
    <2>1. /\ pc = "handleExecute" /\ pc' \in {"poll", "leave"}
          /\ events' \in {events, {}}
          /\ UNCHANGED <<flash, pageBuffer, currentAddress, host>>
      BY <1>6 DEF HandleExecute, clearEvents
    <2>2. ~PageInBuffer /\ ~PageInBuffer' /\ ~Erasing'
      BY <2>1 DEF PageInBuffer, Erasing
    <2> QED BY <2>1, <2>2, HeldStays
  <1>7. CASE LeaveBootloader
    <2>1. /\ pc = "leave" /\ pc' \in {"start", "app"} /\ host' = NoTransfer
          /\ UNCHANGED <<flash, pageBuffer, currentAddress, events>>
      BY <1>7, StageTyped DEF LeaveBootloader, ram
    <2>2. ~PageInBuffer /\ ~PageInBuffer' /\ ~Erasing' /\ TransferDone'
      BY <2>1, NoTransferTyped DEF PageInBuffer, Erasing, TransferDone, TypeOK
    <2> QED BY <2>1, <2>2, HeldStays
  <1> QED BY <1>1, <1>2, <1>3, <1>4, <1>5, <1>6, <1>7, HeldWritten DEF Device

\* A packet of another page.
LEMMA HeldPacket ==
  ASSUME TypeOK, EventInv, NEW im, NEW S, HeldInv(im, S), RecvData
  PROVE  HeldInv(im, S)'
PROOF
  <1>1. ~TransferDone /\ pc = "poll" /\ events = {} /\ flash' = flash
    BY DEF RecvData, EventInv
  <1>2. InStep /\ host.page \notin S
    BY <1>1 DEF HeldInv, InStep
  <1>3. /\ host'.page = host.page /\ host'.sent = host.sent + 1
        /\ pc' = "handle"
        /\ currentAddress' = host.page * PageWords + host.sent * PacketWords
                                + PacketWords
        /\ (host.sent + 1) * PacketWords = host.sent * PacketWords + PacketWords
        /\ events' = IF OffsetOf(currentAddress') = 0 THEN {"write"} ELSE {}
        /\ host.page * PageWords \in Nat /\ host.sent * PacketWords \in Nat
    BY <1>1, <1>2, PacketArrives
  <1>4. /\ TransferDone' => OffsetOf(currentAddress') = 0
                            /\ PageOf(currentAddress' - 1) = host.page
        /\ ~TransferDone' => OffsetOf(currentAddress') # 0
    BY <1>2, <1>3, PageEnds DEF TransferDone
  <1>5. /\ ~PageInBuffer /\ ~Erasing'
        /\ PageInBuffer' => /\ OffsetOf(currentAddress') = 0
                            /\ PageOf(currentAddress' - 1) = host.page
    BY <1>1, <1>3, <1>4 DEF PageInBuffer, Erasing
  <1>6. ASSUME NEW p \in S PROVE Held(im, p)'
    <2>1. Held(im, p) /\ p # host.page
      BY <1>2 DEF HeldInv
    <2> QED BY <1>1, <1>5, <2>1 DEF Held, There
  <1>7. currentAddress' = host'.page * PageWords + host'.sent * PacketWords
    BY <1>3, PacketFacts
  <1>8. ~TransferDone' => events' = {}
    BY <1>3, <1>4
  <1> QED BY <1>2, <1>3, <1>5, <1>6, <1>7, <1>8 DEF HeldInv

\* A request for another page, or to leave.
LEMMA HeldAsks ==
  ASSUME TypeOK, EventInv, ~LossyBus, NEW im, NEW S, HeldInv(im, S),
         (SetupWrite /\ host'.page \notin S) \/ SetupExecute
  PROVE  HeldInv(im, S)'
PROOF
  <1>1. /\ pc = "poll" /\ pc' = "handle" /\ events = {} /\ "erase" \notin events'
        /\ "write" \notin events' /\ UNCHANGED <<flash, pageBuffer>>
    BY DEF SetupWrite, SetupExecute, Setup, EventInv
  <1>2. ~PageInBuffer /\ ~PageInBuffer' /\ ~Erasing'
    BY <1>1 DEF PageInBuffer, Erasing
  <1>3. \A p \in S : Held(im, p)'
    BY <1>1, <1>2 DEF HeldInv, Held, There
  <1>4. CASE SetupWrite /\ host'.page \notin S
    <2>1. /\ host'.sent = 0 /\ currentAddress' = host'.page * PageWords
          /\ host'.page \in 0 .. AppPages - 1
      BY <1>4, WriteAsked
    <2>2. currentAddress' = host'.page * PageWords + host'.sent * PacketWords
      BY <2>1, PacketFacts, GeometryAssumption
    <2> QED BY <1>1, <1>2, <1>3, <1>4, <2>2 DEF HeldInv
  <1>5. CASE SetupExecute
    <2>1. TransferDone'
      BY <1>5, NoTransferTyped DEF SetupExecute, TransferDone, TypeOK
    <2> QED BY <1>2, <1>3, <2>1 DEF HeldInv
  <1> QED BY <1>4, <1>5

(***************************************************************************)
(* Pages that are given up.                                                *)
(***************************************************************************)
\* What is never undone.
LEMMA HistoryStep ==
  ASSUME [MnflashNext]_mnflash
  PROVE  /\ firmware' = firmware /\ before' = before /\ missing \subseteq missing'
         /\ arrived \subseteq arrived' /\ BelowMissing' \subseteq BelowMissing
         /\ "erase" \in arrived' /\ ~Erase => "erase" \in arrived
         /\ ~PowerCut => cut' = cut
         /\ PowerCut => cut' = (arrived # {})
PROOF
  <1>1. /\ firmware' = firmware /\ before' = before /\ missing \subseteq missing'
        /\ arrived \subseteq arrived'
        /\ "erase" \in arrived' /\ ~Erase => "erase" \in arrived
        /\ ~PowerCut => cut' = cut
        /\ PowerCut => cut' = (arrived # {})
    <2>1. CASE Uploads
      BY <2>1 DEF Uploads, Uploader, Check, Erase, EraseLost, SendPage, PageDone,
                  PageError, NextPage, PagesDone, Execute, ExecuteLost, PowerCut,
                  command, PowerFails, PowerCycle, vars
    <2>2. CASE ~Uploads
      BY <2>2 DEF MnflashNext, Main, FindApplication, FindBootloader, FindNothing,
                  Switch, GetInfo, InfoError, Locate, Exit, Transfers, Packets,
                  DeviceRuns, Runs, AppKeepsRunning, PowerCut, PowerFails,
                  allVars, upload, mnflash, command
    <2> QED BY <2>1, <2>2
  <1> QED BY <1>1 DEF BelowMissing

\* The first page is given up: the device has those below it.
LEMMA GivenUpBegins ==
  ASSUME MnflashInv, NothingMissing, PageError, FirstSent', missing' # {}
  PROVE  GivenUpInv'
PROOF
  <1>1. PICK im : im = firmware.image
    OBVIOUS
  <1>2. /\ TypeOK /\ MnflashTypeOK /\ UploadInv /\ AckedInv /\ FilledInv(im)
    BY <1>1 DEF MnflashInv, DeviceInv
  <1>3. /\ Writing /\ host' = NoTransfer /\ missing' = {page}
        /\ UNCHANGED <<flash, pageBuffer, currentAddress, vectorTemp, events, pc,
                       erasePage, acked, firmware>>
        /\ UNCHANGED <<step, page>> \/ step' = "returned 0" \/ NextPage
    BY DEF PageError, ram, NothingMissing
  <1>4. page \in 0 .. AppPages - 1 /\ page \in Nat /\ page # 0
    <2>1. page \in 0 .. AppPages - 1 /\ page \in Nat
      BY <1>2, <1>3, WritesBelow, FirmwareIs
    <2>2. 0 \notin {page}
      BY <1>3 DEF FirstSent
    <2> QED BY <2>1, <2>2
  <1>5. acked # {}
    <2>1. CASE step = "pages"
      <3>1. 0 \in 0 .. page - 1
        BY <1>4
      <3> QED BY <1>2, <2>1, <3>1 DEF AckedInv
    <2>2. CASE step = "extra"
      <3>1. 0 \in 0 .. AppPages - 1 /\ 0 * PageWords < firmware.end
        BY <1>2, FirmwareIs, GeometryAssumption
      <3> QED BY <1>2, <2>2, <3>1 DEF AckedInv, AllSent
    <2> QED BY <1>3, <2>1, <2>2 DEF Writing
  <1>6. ~Erasing /\ ~Erasing' /\ (PageInBuffer' <=> PageInBuffer) /\ TransferDone'
    BY <1>2, <1>3, <1>5, NoTransferTyped
       DEF FilledInv, Erasing, PageInBuffer, TransferDone, TypeOK
  <1>7. PICK P : P = OnBus
    OBVIOUS
  <1>8. WrittenInv(im) /\ PendingInv(im)
    BY <1>2, <1>7 DEF FilledInv, HostInv
  <1>9. BelowMissing' \subseteq 0 .. page - 1
    <2>1. \A p \in BelowMissing' : p \in 0 .. AppPages - 1 /\ p < page
      BY <1>3 DEF BelowMissing
    <2> QED BY <1>4, <2>1, GeometryAssumption
  <1>10. ASSUME NEW p \in 0 .. page - 1 PROVE Held(im, p)'
    <2>1. Delivered(im, p)
      <3>1. CASE step = "pages"
        BY <1>2, <3>1 DEF AckedInv, FilledInv
      <3>2. CASE step = "extra"
        <4>1. page = TablePage
          BY <1>2, <3>2 DEF UploadInv
        <4> QED BY <1>1, <1>2, <1>6, <3>2, <4>1, PagesBelow DEF AllSent
      <3> QED BY <1>3, <3>1, <3>2 DEF Writing
    <2>2. \A w \in AppWords : flash[w] \in {Bare(w), Due(im, w)}
      BY <1>6, <1>8 DEF WrittenInv
    <2>3. IF PageInBuffer /\ PageOf(currentAddress - 1) = p
          THEN \A o \in Offsets : pageBuffer[o] = Due(im, p * PageWords + o)
          ELSE There(im, p)
      BY <1>8, <2>1 DEF PendingInv, Delivered
    <2> QED BY <1>3, <1>6, <2>2, <2>3 DEF Held, There
  <1>11. PageInBuffer' => OffsetOf(currentAddress)' = 0
    BY <1>3, <1>6, <1>8 DEF PendingInv
  <1>12. HeldInv(im, BelowMissing)'
    BY <1>6, <1>9, <1>10, <1>11 DEF HeldInv
  <1>13. Writing' => page =< page'
    <2>1. Writing' => step' \in {"pages", "extra"}
      BY DEF Writing
    <2>2. page' = page \/ page' = page + 1 \/ step' \notin {"pages", "extra"}
      BY <1>3 DEF NextPage
    <2> QED BY <1>4, <2>1, <2>2
  <1> QED BY <1>1, <1>3, <1>12, <1>13 DEF GivenUpInv

\* From then on nothing happens to those.
LEMMA GivenUpGoesOn ==
  ASSUME MnflashInv, GivenUp, GivenUp', [MnflashNext]_mnflash, ~Erase, ~PowerCut
  PROVE  GivenUpInv'
PROOF
  <1>1. PICK im, S : im = firmware.image /\ S = BelowMissing'
    OBVIOUS
  <1>2. /\ TypeOK /\ EventInv /\ MnflashTypeOK /\ UploadInv /\ ~LossyBus
        /\ HeldInv(im, BelowMissing)
        /\ Writing => \E q \in missing : q =< page
    BY <1>1, UploadAssumption DEF MnflashInv, DeviceInv, GivenUpInv
  <1>3. /\ firmware' = firmware /\ missing \subseteq missing'
        /\ S \subseteq BelowMissing
    BY <1>1, HistoryStep
  <1>4. HeldInv(im, S)
    BY <1>2, <1>3 DEF HeldInv
  <1>5. arrived # {} /\ step \notin {"check", "erase"}
        /\ stage \in {"upload", "exit 0", "exit 1"}
    BY <1>2 DEF GivenUp, FirstSent, UploadInv
  <1>6. ASSUME HeldInv(im, S)',
               Writing' => \E q \in missing : q =< page'
        PROVE  GivenUpInv'
    BY <1>1, <1>3, <1>6 DEF GivenUpInv
  <1>7. missing \subseteq Nat /\ page \in Nat
        /\ \A q \in missing : q =< TablePage
    <2>1. missing \subseteq 0 .. TablePage
      BY <1>2 DEF MnflashTypeOK, UploadTypeOK
    <2>2. page \in Nat /\ TablePage \in Nat
      BY <1>2, TablePageIs, FirmwareIs
    <2> QED BY <2>1, <2>2
  <1>8. CASE SendPage
    <2>1. /\ SetupWrite /\ Writing /\ host'.page = page
          /\ UNCHANGED <<page, step, firmware>>
      BY <1>8 DEF SendPage
    <2>2. PICK q \in missing : q =< page
      BY <1>2, <2>1
    <2>3. page \notin BelowMissing
      BY <1>7, <2>2 DEF BelowMissing
    <2>4. HeldInv(im, S)'
      BY <1>2, <1>3, <1>4, <2>1, <2>3, HeldAsks
    <2> QED BY <1>6, <2>1, <2>2, <2>4
  <1>9. CASE Execute
    <2>1. SetupExecute /\ ~Writing'
      BY <1>9 DEF Execute, Writing
    <2>2. HeldInv(im, S)'
      BY <1>2, <1>4, <2>1, HeldAsks
    <2> QED BY <1>6, <2>1, <2>2
  <1>10. CASE PageDone \/ PageError
    <2>1. /\ UNCHANGED <<flash, pageBuffer, currentAddress, events, pc>>
          /\ host' = host \/ host' = NoTransfer
          /\ UNCHANGED <<step, page>> \/ step' = "returned 0" \/ NextPage
          /\ Writing
      BY <1>2, <1>10 DEF PageDone, PageError, vars, ram, UploadInv
    <2>2. Writing' => page' \in {page, page + 1}
      BY <2>1 DEF NextPage, Writing
    <2>3. PICK q \in missing : q =< page
      BY <1>2, <2>1
    <2>4. Writing' => q =< page'
      BY <1>7, <2>2, <2>3
    <2>5. HeldInv(im, S)'
      <3>1. host' = host \/ TransferDone'
        BY <1>2, <2>1, NoTransferTyped DEF TransferDone, TypeOK
      <3>2. ~Erasing' /\ (PageInBuffer' <=> PageInBuffer)
        BY <1>4, <2>1 DEF HeldInv, Erasing, PageInBuffer
      <3>3. TransferDone' \/ pc' \notin {"start", "app"}
        BY <1>4, <2>1, <3>1 DEF HeldInv, TransferDone
      <3> QED BY <1>4, <2>1, <3>1, <3>2, <3>3, HeldStays
    <2> QED BY <1>6, <2>3, <2>4, <2>5
  <1>11. CASE PagesDone \/ ExecuteLost \/ Exit \/ AppKeepsRunning
              \/ UNCHANGED mnflash
    <2>1. /\ UNCHANGED <<flash, pageBuffer, currentAddress, events, pc, host>>
          /\ \/ UNCHANGED <<step, page, firmware>> \/ page' = TablePage
             \/ step' = "execute" \/ step' = "returned 1"
      BY <1>11 DEF PagesDone, ExecuteLost, Exit, AppKeepsRunning, AppRuns,
                   mnflash, allVars, upload, vars, ram
    <2>2. Writing' => \E q \in missing : q =< page'
      <3>1. CASE UNCHANGED <<step, page, firmware>>
        BY <1>2, <3>1 DEF Writing
      <3>2. CASE page' = TablePage
        <4>1. missing # {}
          BY DEF GivenUp
        <4> QED BY <1>7, <3>2, <4>1
      <3>3. CASE step' = "execute" \/ step' = "returned 1"
        BY <3>3 DEF Writing
      <3> QED BY <2>1, <3>1, <3>2, <3>3
    <2>3. HeldInv(im, S)'
      <3>1. ~Erasing' /\ (PageInBuffer' <=> PageInBuffer)
        BY <1>4, <2>1 DEF HeldInv, Erasing, PageInBuffer
      <3>2. TransferDone' \/ pc' \notin {"start", "app"}
        BY <1>4, <2>1 DEF HeldInv, TransferDone
      <3> QED BY <1>4, <2>1, <3>1, <3>2, HeldStays
    <2> QED BY <1>6, <2>2, <2>3
  <1>12. CASE Transfers \/ Runs
    <2>1. UNCHANGED <<step, page, firmware>>
      BY <1>12 DEF Transfers, Packets, Runs, upload
    <2>2. Writing' => \E q \in missing : q =< page'
      BY <1>2, <2>1 DEF Writing
    <2>3. RecvData \/ Device
      BY <1>12 DEF Transfers, Packets, Runs
    <2>4. HeldInv(im, S)'
      BY <1>2, <1>4, <2>3, HeldPacket, HeldDevice
    <2> QED BY <1>6, <2>2, <2>4
  <1>13. ~Check /\ ~EraseLost
         /\ ~(FindApplication \/ FindBootloader \/ FindNothing \/ Switch
              \/ GetInfo \/ InfoError \/ Locate)
    BY <1>5 DEF Check, EraseLost, FindApplication, FindBootloader, FindNothing,
                Switch, GetInfo, InfoError, Locate, Searching
  <1> QED BY <1>8, <1>9, <1>10, <1>11, <1>12, <1>13
          DEF MnflashNext, Main, Uploads, Uploader, DeviceRuns

LEMMA GivenUpStep ==
  ASSUME MnflashInv, [MnflashNext]_mnflash
  PROVE  GivenUpInv'
PROOF
  <1> SUFFICES ASSUME GivenUp' PROVE GivenUpInv'
    BY DEF GivenUpInv
  <1>1. /\ firmware' = firmware /\ missing \subseteq missing'
        /\ arrived \subseteq arrived'
    BY HistoryStep
  <1>2. ~Erase
    BY DEF Erase, GivenUp, MnflashInv, UploadInv
  <1>3. "erase" \in arrived
    BY <1>2, HistoryStep DEF GivenUp, FirstSent
  <1>4. ~PowerCut
    BY <1>3, HistoryStep DEF GivenUp
  <1>5. cut' = cut
    BY <1>4, HistoryStep
  <1>6. FirstSent /\ ~cut /\ FirstSent' /\ missing' # {}
    BY <1>1, <1>3, <1>5 DEF GivenUp, FirstSent
  <1>7. CASE missing = {}
    <2>1. NothingMissing
      BY <1>6, <1>7 DEF FirstSent, NothingMissing
    <2>2. PageError
      <3>1. CASE Uploads
        BY <1>2, <1>6, <1>7, <3>1
           DEF Uploads, Uploader, Check, EraseLost, SendPage, PageDone,
               PagesDone, Execute, ExecuteLost
      <3>2. CASE ~Uploads
        BY <1>4, <1>6, <1>7, <3>2
           DEF MnflashNext, Main, FindApplication, FindBootloader, FindNothing,
               Switch, GetInfo, InfoError, Locate, Exit, Transfers, Packets,
               DeviceRuns, Runs, AppKeepsRunning, allVars, upload, mnflash
      <3> QED BY <3>1, <3>2
    <2> QED BY <1>6, <2>1, <2>2, GivenUpBegins
  <1>8. CASE missing # {}
    <2>1. GivenUp
      BY <1>6, <1>8 DEF GivenUp
    <2> QED BY <1>2, <1>4, <2>1, GivenUpGoesOn
  <1> QED BY <1>7, <1>8

\* A device that has lost power is left to itself.
LEMMA CutStep ==
  ASSUME MnflashInv, [MnflashNext]_mnflash
  PROVE  CutInv'
PROOF
  <1> SUFFICES ASSUME cut' PROVE CutInv'
    BY DEF CutInv
  <1>1. CASE PowerCut
    <2>1. /\ ~connected' /\ arrived' = arrived /\ arrived # {}
          /\ pc' \in {"start", "app"}
      BY <1>1, StageTyped DEF PowerCut, PowerFails, PowerCycle
    <2> QED BY <2>1 DEF CutInv, Looping
  <1>2. CASE ~PowerCut
    <2>1. cut /\ cut' = cut /\ arrived \subseteq arrived'
      BY <1>2, HistoryStep
    <2>2. /\ arrived # {} /\ arrived' # {} /\ ~connected
          /\ pc \notin {"erase", "vectors", "write"}
          /\ pc \in Looping => events = {}
          /\ UploadInv
      BY <2>1 DEF MnflashInv, CutInv
    <2>3. step \notin {"check", "erase"} /\ stage \in {"upload", "exit 0", "exit 1"}
          /\ TransferDone
      BY <2>2 DEF UploadInv
    <2>4. ~(FindApplication \/ FindBootloader \/ FindNothing \/ Switch
            \/ GetInfo \/ InfoError \/ Locate) /\ ~Transfers
      BY <2>3 DEF FindApplication, FindBootloader, FindNothing, Switch, GetInfo,
                  InfoError, Locate, Searching, Transfers, Packets, RecvData
    <2>5. CASE Uploads \/ Exit
      <3>1. UNCHANGED <<pc, events, connected>>
        BY <2>2, <2>3, <2>5
           DEF Uploads, Exit, Uploader, Check, Erase, EraseLost, SendPage,
               PageDone, PageError, PagesDone, Execute, ExecuteLost, allVars,
               upload, vars, ram
      <3> QED BY <2>2, <3>1 DEF CutInv
    <2>6. CASE Runs
      <3>1. Device /\ ~connected'
        BY <2>2, <2>6 DEF Runs, StillThere
      <3>2. ~ErasePage /\ ~FillVectors /\ ~WriteVectors /\ ~WritePage
        BY <2>2 DEF ErasePage, FillVectors, WriteVectors, WritePage
      <3>3. CASE EnterMainLoop \/ SkipMainLoop
        BY <2>2, <3>1, <3>3
           DEF EnterMainLoop, SkipMainLoop, RamCleared, CutInv, Looping
      <3>4. CASE PollNothing \/ HandleErase \/ HandleWrite \/ HandleExecute
        BY <2>2, <3>1, <3>4
           DEF PollNothing, HandleErase, HandleWrite, HandleExecute,
               clearEvents, ram, CutInv, Looping
      <3>5. CASE LeaveBootloader
        BY <2>2, <3>1, <3>5, StageTyped DEF LeaveBootloader, CutInv, Looping
      <3> QED BY <3>1, <3>2, <3>3, <3>4, <3>5 DEF Device
    <2>7. CASE AppKeepsRunning \/ UNCHANGED mnflash
      <3>1. UNCHANGED <<pc, events, connected>>
        BY <2>7 DEF AppKeepsRunning, AppRuns, mnflash, allVars, upload, vars, ram
      <3> QED BY <2>2, <3>1 DEF CutInv
    <2> QED BY <1>2, <2>4, <2>5, <2>6, <2>7
            DEF MnflashNext, Main, DeviceRuns
  <1> QED BY <1>1, <1>2

(***************************************************************************)
(* What runs is whole.                                                     *)
(***************************************************************************)
\* As long as no page was given up: what the device has of the upload is
\* nothing that runs, or all of it.
LEMMA WholeFilled ==
  ASSUME NEW im, im = firmware'.image, FilledInv(im)', ~Erasing'
  PROVE  /\ Boots'
         /\ TableBlank' \/ BelowThere'
         /\ pc' = "app" => BelowThere'
PROOF
  <1>1. PICK P : P = OnBus'
    OBVIOUS
  <1>2. WrittenInv(im)' /\ RunsInv(im)'
    BY <1>1 DEF FilledInv, HostInv
  <1>3. flash'[0] = ToEntry
    <2>1. flash'[0] \in {Bare(0), Due(im, 0)}
      BY <1>2, WordZero DEF WrittenInv
    <2>2. Bare(0) = ToEntry
      BY Places, GeometryAssumption DEF Bare
    <2>3. Due(im, 0) = ToEntry
      BY PatchedReset DEF Due
    <2> QED BY <2>1, <2>2, <2>3
  <1>4. AllThere(im)' => BelowThere'
    BY DEF AllThere, BelowThere, There
  <1> QED BY <1>2, <1>3, <1>4 DEF WrittenInv, TableBlank, RunsInv, Boots

\* Once one was given up: all below it.
LEMMA WholeHeld ==
  ASSUME FirstSent', HeldInv(firmware.image, BelowMissing)', ~PageInBuffer',
         MnflashTypeOK'
  PROVE  Boots' /\ BelowThere'
PROOF
  <1>1. BelowThere'
    BY DEF HeldInv, Held, BelowThere
  <1>2. 0 \in BelowMissing'
    <2>1. missing' \subseteq 0 .. TablePage /\ TablePage \in Nat
      BY TablePageIs DEF MnflashTypeOK, UploadTypeOK
    <2>2. ASSUME NEW q \in missing' PROVE 0 < q
      <3>1. q \in 0 .. TablePage /\ q # 0
        BY <2>1 DEF FirstSent
      <3> QED BY <2>1, <3>1
    <2> QED BY <2>2, GeometryAssumption DEF BelowMissing
  <1>3. flash'[0] = Due(firmware'.image, 0)
    BY <1>1, <1>2, WordZero DEF BelowThere, There
  <1> QED BY <1>1, <1>3, PatchedReset DEF Due, Boots

\* The device after a power failure.
LEMMA BootsStarts ==
  ASSUME BootloaderIntact, Boots
  PROVE  StageAt(flash, 0) = "start"
PROOF
  <1>1. CASE flash[0] = ToEntry
    BY <1>1, ToEntryLands DEF StageAt
  <1>2. CASE \A w \in AppWords : flash[w] = Blank
    <2>1. 0 \in AppWords /\ flash[Entry] = BootCode
      BY EntryFacts, GeometryAssumption DEF AppWords, Addresses, BootloaderIntact
    <2> QED BY <1>2, <2>1, BlankLands DEF StageAt
  <1> QED BY <1>1, <1>2 DEF Boots

\* Flash changes only in the steps of an erase and in that of a page write, and
\* the application is entered only from the bootloader or by a reset.
LEMMA FlashSteps ==
  ASSUME TypeOK, [MnflashNext]_mnflash
  PROVE  \/ flash' = flash /\ (pc' = "app" => pc = "app")
         \/ Runs /\ (ErasePage \/ WriteVectors \/ WritePage \/ LeaveBootloader)
         \/ Switch \/ PowerCut
PROOF
  <1>1. CASE Uploads \/ Exit
    BY <1>1 DEF Uploads, Exit, Uploader, Check, Erase, EraseLost, SendPage,
                PageDone, PageError, PagesDone, Execute, ExecuteLost,
                SetupErase, SetupWrite, SetupExecute, Setup, allVars, vars
  <1>2. CASE FindApplication \/ FindBootloader \/ FindNothing \/ GetInfo
             \/ InfoError \/ Locate \/ Transfers
    BY <1>2 DEF FindApplication, FindBootloader, FindNothing, GetInfo, InfoError,
                Locate, Transfers, Packets, RecvData, SetupStandard, SetupInfo,
                Setup, allVars, vars
  <1>3. CASE Runs
    BY <1>3 DEF Runs, Device, EnterMainLoop, SkipMainLoop, PollNothing,
                HandleErase, FillVectors, HandleWrite, HandleExecute
  <1>4. CASE AppKeepsRunning \/ UNCHANGED mnflash
    BY <1>4 DEF AppKeepsRunning, AppRuns, mnflash, allVars, vars
  <1> QED BY <1>1, <1>2, <1>3, <1>4 DEF MnflashNext, Main, DeviceRuns

LEMMA WholeStep ==
  ASSUME MnflashInv, ~TornPages, [MnflashNext]_mnflash, DeviceInv',
         MnflashTypeOK', GivenUpInv', CutInv',
         NothingMissing' => AckedInv' /\ FilledInv(firmware.image)'
  PROVE  WholeInv'
PROOF
  <1> SUFFICES ASSUME FirstSent' PROVE WholeInv'
    BY DEF WholeInv
  <1>1. /\ firmware' = firmware /\ before' = before /\ missing \subseteq missing'
        /\ BelowMissing' \subseteq BelowMissing
        /\ ~Erase => "erase" \in arrived
    BY HistoryStep DEF FirstSent
  <1>2. TypeOK /\ BootloaderIntact /\ UploadInv /\ CutInv /\ GivenUpInv /\ EventInv
    BY DEF MnflashInv, DeviceInv
  <1>3. CASE Erase
    <2>1. step = "erase" /\ pc' = "handle" /\ flash' = flash
      BY <1>3 DEF Erase, SetupErase, Setup
    <2>2. flash = before /\ before[0] = ToEntry
      BY <1>2, <2>1 DEF MnflashInv, UploadInv, UntouchedInv
    <2> QED BY <1>1, <2>1, <2>2 DEF WholeInv, Boots
  <1>4. CASE ~Erase
    <2>1. FirstSent /\ arrived # {}
      BY <1>1, <1>4 DEF FirstSent
    <2>2. /\ Boots
          /\ flash = before \/ TableBlank \/ BelowThere
          /\ pc = "app" => flash = before \/ BelowThere
      BY <2>1 DEF MnflashInv, WholeInv
    <2>3. ASSUME flash' = flash
          PROVE  /\ Boots'
                 /\ flash' = before' \/ TableBlank' \/ BelowThere'
                 /\ (flash = before \/ BelowThere)
                        => (flash' = before' \/ BelowThere')
      <3>1. \A p : There(firmware.image, p)' <=> There(firmware.image, p)
        BY <1>1, <2>3 DEF There
      <3>2. BelowThere => BelowThere'
        BY <1>1, <3>1 DEF BelowThere
      <3>3. (TableBlank' <=> TableBlank) /\ (Boots' <=> Boots)
        BY <2>3 DEF TableBlank, Boots
      <3> QED BY <1>1, <2>2, <2>3, <3>2, <3>3
    <2>4. CASE flash' = flash /\ (pc' = "app" => pc = "app")
      BY <2>2, <2>3, <2>4 DEF WholeInv
    <2>5. CASE Switch
      BY <1>2, <2>1, <2>5 DEF Switch, UploadInv
    <2>6. CASE PowerCut
      <3>1. flash' = flash
        BY <1>2, <2>6, NothingTorn DEF PowerCut, PowerFails
      <3>2. pc' = "start"
        <4>1. StageAt(flash, 0) = "start"
          BY <1>2, <2>2, BootsStarts
        <4> QED BY <2>6, <3>1, <4>1 DEF PowerCut, PowerFails, PowerCycle
      <3> QED BY <2>3, <3>1, <3>2 DEF WholeInv
    <2>7. CASE LeaveBootloader
      <3>1. flash' = flash /\ pc' = StageAt(flash, AppReset)
        BY <2>7 DEF LeaveBootloader
      <3>2. TableBlank => pc' # "app"
        BY <1>2, <3>1, BlankTableLeads
      <3> QED BY <2>2, <2>3, <3>1, <3>2 DEF WholeInv
    <2>8. CASE ErasePage
      <3>1. /\ pc' = "erase" /\ flash' = Erased(flash, erasePage - 1)
            /\ erasePage' = erasePage - 1 /\ erasePage \in 1 .. AppPages
        BY <1>2, <2>8, GeometryAssumption DEF ErasePage, NextErased, TypeOK
      <3>2. \A w \in AppWords : PageOf(w) >= erasePage' => flash'[w] = Blank
        BY <3>1 DEF DeviceInv, EraseInv
      <3>3. TableBlank'
        <4>1. AppPages - 1 >= erasePage'
          BY <3>1, GeometryAssumption
        <4> QED BY <3>2, <4>1 DEF TableBlank
      <3>4. Boots'
        <4>1. CASE erasePage = 1
          <5>1. \A w \in AppWords : PageOf(w) >= erasePage'
            BY <3>1, <4>1, AppWordPages
          <5> QED BY <3>2, <5>1 DEF Boots
        <4>2. CASE erasePage # 1
          <5>1. \A w \in AppWords : w \in Addresses /\ flash'[w] \in {flash[w], Blank}
            BY <3>1, WordInPage DEF Erased
          <5>2. flash'[0] = flash[0]
            BY <3>1, <4>2, WordZero DEF Erased
          <5> QED BY <2>2, <5>1, <5>2 DEF Boots
        <4> QED BY <4>1, <4>2
      <3> QED BY <3>1, <3>3, <3>4 DEF WholeInv
    <2>9. CASE Runs /\ (WriteVectors \/ WritePage)
      <3>1. /\ pc \in {"vectors", "write"}
            /\ pc' \in {"handleWrite", "handleExecute"}
            /\ events' = events /\ arrived' = arrived /\ missing' = missing
            /\ cut' = cut
        BY <2>9 DEF Runs, WriteVectors, WritePage, ram
      <3>2. ~cut /\ ~Erasing'
        BY <1>2, <3>1 DEF CutInv, Erasing
      <3>3. CASE missing = {}
        <4>1. NothingMissing'
          BY <1>1, <2>1, <3>1, <3>2, <3>3 DEF NothingMissing, FirstSent
        <4>2. PICK im : im = firmware.image
          OBVIOUS
        <4>3. FilledInv(im)'
          BY <1>1, <4>1, <4>2
        <4>4. Boots' /\ (TableBlank' \/ BelowThere')
          BY <1>1, <3>2, <4>2, <4>3, WholeFilled
        <4> QED BY <3>1, <4>4 DEF WholeInv
      <3>4. CASE missing # {}
        <4>1. GivenUp /\ GivenUp'
          BY <2>1, <3>1, <3>2, <3>4 DEF GivenUp
        <4>2. ~Erasing
          BY <1>2, <4>1 DEF GivenUpInv, HeldInv
        <4>3. pc = "write"
          BY <1>2, <3>1, <4>2 DEF EventInv, Erasing
        <4>4. ~PageInBuffer'
          BY <4>3, <2>9 DEF WriteVectors, WritePage, PageInBuffer
        <4>5. Boots' /\ BelowThere'
          BY <4>1, <4>4, WholeHeld DEF GivenUpInv
        <4> QED BY <3>1, <4>5 DEF WholeInv
      <3> QED BY <3>3, <3>4
    <2> QED BY <1>2, <2>4, <2>5, <2>6, <2>7, <2>8, <2>9, FlashSteps
  <1> QED BY <1>3, <1>4

LEMMA MnflashInvStep ==
  ASSUME MnflashInv, [MnflashNext]_mnflash
  PROVE  MnflashInv'
PROOF
  <1>1. DeviceInv /\ TypeOK /\ MnflashTypeOK /\ TriesInv /\ UploadInv /\ UntouchedInv
    BY DEF MnflashInv, DeviceInv
  <1>2. DeviceInv' /\ MnflashTypeOK' /\ TriesInv' /\ UploadInv' /\ UntouchedInv'
    BY <1>1, DeviceStep, MnflashTyped, ControlStep, UntouchedStep
  <1>3. NothingMissing' => AckedInv' /\ FilledInv(firmware.image)'
    BY FilledStep
  <1>4. CutInv' /\ GivenUpInv' /\ (before[0] = ToEntry)'
    BY CutStep, GivenUpStep, HistoryStep DEF MnflashInv
  <1>5. ~TornPages => WholeInv'
    BY <1>2, <1>3, <1>4, WholeStep
  <1> QED BY <1>2, <1>3, <1>4, <1>5 DEF MnflashInv

(***************************************************************************)
(* The initial states: a device as shipped, or one that runs a firmware.   *)
(***************************************************************************)
LEMMA InstalledTyped ==
  ASSUME NEW f \in Firmwares
  PROVE  /\ Installed(f) \in [Addresses -> Word]
         /\ \A w \in Addresses : w >= Entry => Installed(f)[w] = BootCode
PROOF
  <1>1. f.image \in [AppWords -> Word]
    BY UploadAssumption, ImagesAssumption
  <1>2. VectorsOf(f.image) \in [{0, 1} -> LowBits]
    <2>1. /\ 0 \in AppWords /\ UsbVector \in AppWords /\ UsbVector \in Int
      BY EntryFacts, GeometryAssumption DEF AppWords
    <2>2. /\ rjmp2addr(f.image[0], 0) \in LowBits
          /\ rjmp2addr(f.image[UsbVector], UsbVector) \in LowBits
      BY <1>1, <2>1, RelocationTyped
    <2> QED BY <2>2 DEF VectorsOf
  <1>3. ASSUME NEW w \in Addresses, ~(w >= Entry)
        PROVE  Patched(w, f.image[w], VectorsOf(f.image)) \in Word
    <2>1. w \in Int /\ w \in AppWords
      BY <1>3, EntryFacts, GeometryAssumption DEF Addresses, AppWords
    <2> QED BY <1>1, <1>2, <2>1, PatchedTyped
  <1> QED BY <1>3, WordsTyped DEF Installed

LEMMA MnflashInvInit == MnflashInit => MnflashInv
PROOF
  <1> SUFFICES ASSUME MnflashInit PROVE MnflashInv
    OBVIOUS
  <1>1. DeviceInv /\ TransferDone /\ pc \in {"start", "app"} /\ events = {}
    <2>1. CASE Init
      <3>1. TypeOK /\ BootloaderIntact
        BY <2>1, InitTyped, InitIntact
      <3> QED BY <2>1, <3>1
              DEF Init, DeviceInv, EraseInv, EventInv, MagicInv, TransferDone
    <2>2. CASE InstalledInit
      <3>1. PICK f \in OldFirmwares : flash = Installed(f)
        BY <2>2 DEF InstalledInit
      <3>2. f \in Firmwares
        BY MnflashAssumption
      <3>3. flash \in [Addresses -> Word] /\ BootloaderIntact
        BY <3>1, <3>2, InstalledTyped DEF BootloaderIntact
      <3>4. /\ currentAddress \in AddressRange /\ idlePolls \in 0 .. IdleModulus - 1
            /\ erasePage \in 0 .. AppPages
        BY <2>2, EntryFacts, InRange, ModeAssumption, GeometryAssumption
           DEF InstalledInit
      <3>5. vectorTemp \in [{0, 1} -> LowBits]
        BY <2>2, EntryFacts, GeometryAssumption DEF InstalledInit, LowBits
      <3>6. host \in Transfer
        BY <2>2, PacketFacts, EntryFacts, InRange, GeometryAssumption
           DEF InstalledInit, Transfer
      <3>7. pageBuffer \in [Offsets -> Word]
        BY <2>2, WordsTyped DEF InstalledInit
      <3>8. TypeOK
        BY <2>2, <3>3, <3>4, <3>5, <3>6, <3>7 DEF InstalledInit, TypeOK, Stages
      <3> QED BY <2>2, <3>3, <3>8
              DEF InstalledInit, DeviceInv, EraseInv, EventInv, MagicInv,
                  TransferDone
    <2> QED BY <2>1, <2>2 DEF MnflashInit
  <1>2. /\ firmware \in Firmwares /\ step = "check" /\ page = 0
        /\ tries = Retries /\ sending = FALSE /\ connected = FALSE
        /\ arrived = {} /\ missing = {} /\ acked = {} /\ cut = FALSE
        /\ loads \in BOOLEAN /\ stage = "search" /\ left = Attempts
        /\ mode = "none" /\ before = flash
    BY DEF MnflashInit, UploadStart
  <1>3. MnflashTypeOK /\ TriesInv
    <2>1. 0 \in 0 .. AppPages /\ Retries \in 1 .. Retries
          /\ Attempts \in 0 .. Attempts /\ Attempts \in 1 .. Attempts
      BY TablePageIs, UploadAssumption, MnflashAssumption
    <2> QED BY <1>2, <2>1 DEF MnflashTypeOK, UploadTypeOK, Steps, TriesInv
  <1>4. UploadInv
    BY <1>1, <1>2 DEF UploadInv
  <1>5. UntouchedInv
    BY <1>1, <1>2 DEF UntouchedInv, Looping
  <1>6. ~NothingMissing
    BY <1>2 DEF NothingMissing
  <1>7. before[0] = ToEntry
    <2>1. CASE Init
      BY <1>2, <2>1, FactoryWords DEF Init
    <2>2. CASE InstalledInit
      <3>1. PICK f \in OldFirmwares : flash = Installed(f)
        BY <2>2 DEF InstalledInit
      <3>2. 0 \in Addresses /\ ~(0 >= Entry)
        BY WordZero, EntryFacts
      <3>3. flash[0] = Patched(0, f.image[0], VectorsOf(f.image))
        BY <3>1, <3>2 DEF Installed
      <3> QED BY <1>2, <3>3, PatchedReset
    <2> QED BY <2>1, <2>2 DEF MnflashInit
  <1>8. CutInv /\ GivenUpInv /\ WholeInv
    BY <1>2 DEF CutInv, GivenUpInv, GivenUp, WholeInv, FirstSent
  <1> QED BY <1>1, <1>3, <1>4, <1>5, <1>6, <1>7, <1>8 DEF MnflashInv

(***************************************************************************)
(* The theorems.                                                           *)
(***************************************************************************)
\* The inductive invariant holds in every state of every run.
THEOREM MnflashSafe == MnflashSpec => []MnflashInv
  BY MnflashInvInit, MnflashInvStep, PTL DEF MnflashSpec

\* Every variable of the command keeps its type, and every stage of main() is
\* reached with the device in the mode it needs.
THEOREM MnflashTyping == MnflashSpec => []MnflashTypeOK
PROOF
  <1>1. MnflashInv => MnflashTypeOK
    BY DEF MnflashInv
  <1> QED BY <1>1, MnflashSafe, PTL

\* What the invariant calls there is what the properties call there.
LEMMA ThereIs ==
  ASSUME NEW p, There(firmware.image, p)
  PROVE  PageIsThere(p)
PROOF
  <1>1. Vectors = VectorsIn(firmware.image)
    BY DEF Vectors, VectorsOf, VectorsIn
  <1> QED BY <1>1 DEF PageIsThere, There, Due

\* However often a page write was repeated, and wherever its tries broke off,
\* a page that mnflash saw complete is in flash.
THEOREM Acknowledged == MnflashSpec => []AcknowledgedIsThere
PROOF
  <1>1. MnflashInv => AcknowledgedIsThere
    <2> SUFFICES ASSUME MnflashInv, NothingMissing, Settled, NEW p \in acked
                 PROVE  PageIsThere(p)
      BY DEF AcknowledgedIsThere
    <2>1. ~PageInBuffer
      BY DEF Settled, PageInBuffer
    <2>2. There(firmware.image, p)
      BY <2>1 DEF MnflashInv, FilledInv, Delivered
    <2> QED BY <2>2, ThereIs
  <1> QED BY <1>1, MnflashSafe, PTL

\* mnflash_upload that returns 1 with no page given up, on steady power and on
\* a device that the erase request has reached (its result is not looked at),
\* has put all of the firmware into flash, with the tiny table and the pages it
\* never sent, unless the firmware ends just before the table's page.
THEOREM Uploaded == MnflashSpec => []UploadIsThere
PROOF
  <1>0. \A p \in 0 .. AppPages - 1 : p \in 0 .. TablePage - 1 \/ p = TablePage
    BY TablePageIs, GeometryAssumption
  <1>1. MnflashInv => UploadIsThere
    <2> SUFFICES ASSUME MnflashInv, NothingMissing, Settled, step = "returned 1",
                        ~EndsBeforeTable, NEW p \in 0 .. AppPages - 1
                 PROVE  PageIsThere(p)
      BY DEF UploadIsThere
    <2>1. ~PageInBuffer /\ ~Erasing
      BY DEF Settled, PageInBuffer, Erasing
    <2>2. /\ MnflashTypeOK /\ AckedInv /\ FilledInv(firmware.image)
          /\ AllSent /\ TablePage \in acked
      BY DEF MnflashInv, AckedInv, AllSent
    <2>3. p \in 0 .. TablePage - 1 \/ p = TablePage
      BY <1>0
    <2>4. CASE p \in 0 .. TablePage - 1
      BY <2>1, <2>2, <2>4, PagesBelow, ThereIs DEF Delivered
    <2>5. CASE p = TablePage
      <3>1. There(firmware.image, p)
        BY <2>1, <2>2, <2>5 DEF FilledInv, Delivered
      <3> QED BY <3>1, ThereIs
    <2> QED BY <2>3, <2>4, <2>5
  <1> QED BY <1>1, MnflashSafe, PTL

\* Whenever the command stops, wherever its messages were lost and whenever
\* power failed, as long as it did not tear a page operation: what runs is the
\* application the device had, untouched, or the new one with all pages before
\* the first that was given up, unless the erase request was lost.
THEOREM WholeRuns == ~TornPages => (MnflashSpec => []RunsWhole)
PROOF
  <1>1. MnflashInv /\ ~TornPages => RunsWhole
    <2> SUFFICES ASSUME MnflashInv, ~TornPages, pc = "app",
                        "erase" \in arrived \/ arrived = {},
                        PageOf(firmware.start) = 0,
                        flash # before, NEW p \in BelowMissing
                 PROVE  PageIsThere(p)
      BY DEF RunsWhole
    <2>1. "erase" \in arrived
      BY DEF MnflashInv, UntouchedInv
    <2>2. FirstSent
      <3>1. p \in 0 .. AppPages - 1 /\ (0 \in missing => p < 0)
        BY DEF BelowMissing
      <3> QED BY <2>1, <3>1, GeometryAssumption DEF FirstSent
    <2>3. There(firmware.image, p)
      BY <2>2 DEF MnflashInv, WholeInv, BelowThere
    <2> QED BY <2>3, ThereIs
  <1> SUFFICES ASSUME ~TornPages PROVE MnflashSpec => []RunsWhole
    OBVIOUS
  <1>2. MnflashInv => RunsWhole
    BY <1>1
  <1> QED BY <1>2, MnflashSafe, PTL
=============================================================================
