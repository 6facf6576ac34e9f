----------------------------- MODULE Bootloader -----------------------------
(***************************************************************************)
(* The micronucleus bootloader of an 8 KB AVR (ATtiny85: two-byte vectors, *)
(* timer or jumper start mode) as one main loop that polls USB and rewrites*)
(* the flash it shares with the application: firmware/bootloader.c and the *)
(* option headers it includes.                                             *)
(*                                                                         *)
(* The USB bus is the environment: at each poll it hands over at most one  *)
(* packet.  With LossyBus = FALSE every page transfer starts at a page of  *)
(* the application and arrives once, whole and in order; with TRUE it may  *)
(* also start at any of StrayStarts, be cut off, or have a data packet     *)
(* delivered twice.  Power may fail at any step; with TornPages = TRUE a   *)
(* page operation it interrupts may have reached only some words.          *)
(*                                                                         *)
(* What a bootloader that was written over does is not modelled: the model *)
(* ends in a state in which it is not intact (WrittenOver).                *)
(***************************************************************************)
EXTENDS AvrFlash

CONSTANTS
    PacketWords,   \* words in a low-speed data packet
    Images,        \* application images a host may send
    IdleLimit,     \* AUTO_EXIT_MS * 10
    ExecuteIdle,   \* (AUTO_EXIT_MS - 21) * 10
    IdleModulus,   \* 2^16, the range of idlePolls
    TimerMode,     \* FALSE: BUILD_JUMPER_MODE
    GatedStart,    \* a start pin decides (BUILD_JUMPER_MODE, LOW_POWER_MODE)
    StoreOsccal,   \* FALSE: SKIP_OSCCAL_FROM_FLASH
    LossyBus,      \* transfers may be abandoned, packets duplicated
    StrayStarts,   \* words other than page starts a write is asked for at
    TornPages      \* an interrupted page operation may be partial

PacketsPerPage == PageWords \div PacketWords

ASSUME PacketAssumption ==
    /\ PacketWords \in Nat \ {0}
    /\ PacketsPerPage * PacketWords = PageWords

ASSUME ImagesAssumption == Images \subseteq [AppWords -> Word] /\ Images # {}

ASSUME ModeAssumption ==
    /\ IdleLimit \in Nat /\ ExecuteIdle \in Nat /\ IdleModulus \in Nat
    /\ 0 < ExecuteIdle /\ ExecuteIdle < IdleLimit /\ IdleLimit < IdleModulus
    /\ TimerMode \in BOOLEAN /\ GatedStart \in BOOLEAN
    /\ StoreOsccal \in BOOLEAN /\ LossyBus \in BOOLEAN /\ TornPages \in BOOLEAN

ASSUME StartsAssumption ==
    /\ StrayStarts \subseteq 0 .. FlashWords
    /\ ~LossyBus => StrayStarts = {}

VARIABLES
    flash,          \* contents of every word
    pageBuffer,     \* the AVR's temporary page buffer
    currentAddress, \* next word usbFunctionWrite fills
    vectorTemp,     \* application reset and USB vectors seen in page 0
    events,         \* subset of {"erase", "write", "execute"}
    rw,             \* usbMsgFlags: data packets go to usbFunctionWrite
    idlePolls,
    erasePage,      \* currentPage of eraseApplication, in pages
    magic,          \* "B007" is at the bottom of the stack
    pc,             \* where main() is
    host,           \* the page transfer on the bus
    quiet,          \* the bus has fallen silent for good, power is steady
    tornVectors     \* power failed half way through rewriting page 0

ram  == <<currentAddress, vectorTemp, events, rw, idlePolls, erasePage>>
vars == <<flash, pageBuffer, ram, magic, pc, host, quiet, tornVectors>>

Stages == {"start", "poll", "handle", "erase", "vectors", "handleWrite",
           "write", "handleExecute", "leave", "app"}
\* Where a transfer may start and currentAddress may be.
AddressRange == IF LossyBus THEN Nat ELSE 0 .. Entry
Transfer == [page : 0 .. AppPages - 1, start : AddressRange,
             sent : 0 .. PacketsPerPage, image : Images]

TypeOK ==
    /\ flash \in [Addresses -> Word]
    /\ pageBuffer \in [Offsets -> Word]
    /\ currentAddress \in AddressRange
    /\ vectorTemp \in [{0, 1} -> LowBits]
    /\ events \subseteq {"erase", "write", "execute"}
    /\ rw \in BOOLEAN
    /\ idlePolls \in 0 .. IdleModulus - 1
    /\ erasePage \in 0 .. AppPages
    /\ magic \in BOOLEAN
    /\ pc \in Stages
    /\ host \in Transfer
    /\ quiet \in BOOLEAN
    /\ tornVectors \in BOOLEAN

StageAt(f, a) == IF Destination(f, a) = Entry THEN "start" ELSE "app"

\* A USB interrupt reaches the bootloader's own handler.
UsbAlive == magic /\ Landing(flash, UsbVector) = Isr

(***************************************************************************)
(* Init: the device as shipped, bootloader-vectors.S in page 0 and the     *)
(* initial tiny table below the bootloader.                                *)
(***************************************************************************)
FactoryFlash ==
    [w \in Addresses |->
        CASE w >= Entry                -> BootCode
          [] w = UsbVector             -> ToIsr
          [] w \in Offsets \ {UsbVector} -> addr2rjmp(Entry, w)
          [] w \in {AppReset, AppUsb}  -> addr2rjmp(Entry, w)
          [] w = StoredOsccal          -> Osccal
          [] OTHER                     -> Blank]

NoTransfer == [host EXCEPT !.sent = PacketsPerPage]

Init ==
    /\ flash = FactoryFlash
    /\ pageBuffer = EmptyBuffer
    /\ currentAddress = 0
    /\ vectorTemp = [i \in {0, 1} |-> 0]
    /\ events = {}
    /\ rw = FALSE
    /\ idlePolls = 0
    /\ erasePage = 0
    /\ magic = FALSE
    /\ pc = "start"
    /\ host \in [page : {0}, start : {0}, sent : {PacketsPerPage},
                image : Images]
    /\ quiet = FALSE
    /\ tornVectors = FALSE

(***************************************************************************)
(* Start-up.  __initialize_cpu pushes the magic and .bss is cleared.       *)
(***************************************************************************)
RamCleared ==
    /\ currentAddress' = 0
    /\ vectorTemp' = [i \in {0, 1} |-> 0]
    /\ events' = {}
    /\ rw' = FALSE
    /\ idlePolls' = 0
    /\ erasePage' = 0
    /\ magic' = TRUE

\* Mutant: what is in the page buffer stays there.
EnterMainLoop_KeepBuffer ==
    /\ pc = "start"
    /\ RamCleared
    /\ pc' = "poll"
    /\ UNCHANGED <<flash, pageBuffer, host, quiet, tornVectors>>

\* bootLoaderStartCondition() holds: __boot_page_fill_clear, then connect.
EnterMainLoop ==
    /\ pc = "start"
    /\ RamCleared
    /\ pageBuffer' = EmptyBuffer
    /\ pc' = "poll"
    /\ UNCHANGED <<flash, host, quiet, tornVectors>>

\* The start pin says to run the application straight away.
SkipMainLoop ==
    /\ pc = "start" /\ GatedStart
    /\ RamCleared
    /\ pc' = "leave"
    /\ UNCHANGED <<flash, pageBuffer, host, quiet, tornVectors>>

(***************************************************************************)
(* usbPoll: nothing, a SETUP packet or a data packet.                      *)
(***************************************************************************)
PollNothing ==
    /\ pc = "poll"
    /\ pc' = "handle"
    /\ UNCHANGED <<flash, pageBuffer, ram, magic, host, quiet, tornVectors>>

TransferDone == host.sent = PacketsPerPage

\* What every SETUP does; a complete bus never starts one inside a transfer.
Setup ==
    /\ pc = "poll" /\ UsbAlive /\ ~quiet
    /\ TransferDone \/ LossyBus
    /\ pc' = "handle"
    /\ UNCHANGED <<flash, pageBuffer, vectorTemp, erasePage, magic, quiet,
                   tornVectors>>

\* A standard request, answered by usbDriverSetup.
SetupStandard ==
    /\ Setup
    /\ rw' = FALSE /\ host' = NoTransfer
    /\ UNCHANGED <<currentAddress, events, idlePolls>>

\* bRequest 0: the answer is a constant.
SetupInfo ==
    /\ Setup
    /\ idlePolls' = 0
    /\ rw' = FALSE /\ host' = NoTransfer
    /\ UNCHANGED <<currentAddress, events>>

\* Mutant: a transfer that starts anew goes on where the one before stopped.
SetupWrite_GoOn ==
    /\ Setup
    /\ idlePolls' = 0
    /\ \E p \in 0 .. AppPages - 1, i \in Images :
        \E a \in {p * PageWords} \cup StrayStarts :
            /\ currentAddress' = IF PageOf(currentAddress) = p
                                 THEN currentAddress ELSE a
            /\ host' = [page |-> p, start |-> a, sent |-> 0, image |-> i]
    /\ rw' = TRUE
    /\ UNCHANGED events

\* bRequest 1: usbFunctionWrite gets what follows, for the place the request
\* names, whatever it is.
SetupWrite ==
    /\ Setup
    /\ idlePolls' = 0
    /\ \E p \in 0 .. AppPages - 1, i \in Images :
        \E a \in {p * PageWords} \cup StrayStarts :
            /\ currentAddress' = a
            /\ host' = [page |-> p, start |-> a, sent |-> 0, image |-> i]
    /\ rw' = TRUE
    /\ UNCHANGED events

SetupErase ==
    /\ Setup
    /\ idlePolls' = 0
    /\ events' = events \cup {"erase"}
    /\ rw' = FALSE /\ host' = NoTransfer
    /\ UNCHANGED currentAddress

SetupExecute ==
    /\ Setup
    /\ idlePolls' = 0
    /\ events' = events \cup {"execute"}
    /\ rw' = FALSE /\ host' = NoTransfer
    /\ UNCHANGED currentAddress

(***************************************************************************)
(* Filling the page buffer.                                                *)
(***************************************************************************)
\* Mutant: the application's USB vector is stored as it came.
Patched_KeepUsb(a, data, vt) ==
    CASE a = 0         -> ToEntry
      [] a = AppReset  -> addr2rjmp(vt[0], AppReset)
      [] a = AppUsb    -> addr2rjmp(vt[1], AppUsb)
      [] a = StoredOsccal /\ StoreOsccal -> Osccal
      [] OTHER         -> data

\* Mutant: the USB entry of the tiny table is computed for the wrong word.
Patched_WrongPlace(a, data, vt) ==
    CASE a = 0         -> ToEntry
      [] a = UsbVector -> ToIsr
      [] a = AppReset  -> addr2rjmp(vt[0], AppReset)
      [] a = AppUsb    -> addr2rjmp(vt[1], AppReset)
      [] a = StoredOsccal /\ StoreOsccal -> Osccal
      [] OTHER         -> data

\* What writeWordToPageBuffer stores at address a for data.
Patched(a, data, vt) ==
    CASE a = 0         -> ToEntry
      [] a = UsbVector -> ToIsr
      [] a = AppReset  -> addr2rjmp(vt[0], AppReset)
      [] a = AppUsb    -> addr2rjmp(vt[1], AppUsb)
      [] a = StoredOsccal /\ StoreOsccal -> Osccal
      [] OTHER         -> data

\* The page buffer after n words of data at currentAddress, which go on at
\* its start when they reach its end; a word that is filled twice keeps the
\* bits both have.
Filled(n, data, vt) ==
    [o \in Offsets |->
        LET j == (o - OffsetOf(currentAddress)) % PageWords
        IN  IF j \in 0 .. n - 1
            THEN And(pageBuffer[o], Patched(currentAddress + j, data[j], vt))
            ELSE pageBuffer[o]]

PacketData(k) ==
    [j \in 0 .. PacketWords - 1 |->
        host.image[host.page * PageWords + k * PacketWords + j]]

\* Mutant: nothing stops a packet at the bootloader.
Accepted_All(a) == PacketWords

\* How many words of a packet fit below the bootloader; behind its entry the
\* first word already ends the loop.
Accepted(a) ==
    CASE a + PacketWords <= Entry -> PacketWords
      [] a < Entry /\ a + PacketWords > Entry -> Entry - a
      [] OTHER -> 0

\* usbFunctionWrite: remember the vectors, stop at the bootloader, and ask
\* for the page to be written once its end is reached.
usbFunctionWrite(data) ==
    LET a == currentAddress
        n == Accepted(a)
        Seen(v) == v \in a .. a + n - 1
    IN  /\ vectorTemp' =
             [i \in {0, 1} |->
                LET v == IF i = 0 THEN 0 ELSE UsbVector
                IN  IF Seen(v) THEN rjmp2addr(data[v - a], v)
                    ELSE vectorTemp[i]]
        /\ pageBuffer' = Filled(n, data, vectorTemp')
        /\ currentAddress' = a + n
        /\ events' = IF OffsetOf(a + n) = 0 THEN events \cup {"write"}
                     ELSE events

RecvData ==
    /\ pc = "poll" /\ UsbAlive /\ ~quiet
    /\ rw /\ ~TransferDone
    /\ usbFunctionWrite(PacketData(host.sent))
    /\ host' = [host EXCEPT !.sent = @ + 1]
    /\ pc' = "handle"
    /\ UNCHANGED <<flash, rw, idlePolls, erasePage, magic, quiet, tornVectors>>

\* The host missed the ACK of the last packet and sends it again; the driver
\* does not look at the data toggle.
RecvDuplicate ==
    /\ LossyBus
    /\ pc = "poll" /\ UsbAlive /\ ~quiet
    /\ rw /\ host.sent > 0
    /\ usbFunctionWrite(PacketData(host.sent - 1))
    /\ pc' = "handle"
    /\ UNCHANGED <<flash, rw, idlePolls, erasePage, magic, host, quiet,
                   tornVectors>>

\* The vector leads elsewhere: the first packet takes the CPU with it.
MisroutedInterrupt ==
    /\ pc = "poll" /\ ~UsbAlive /\ ~quiet
    /\ pc' = StageAt(flash, UsbVector)
    /\ host' = NoTransfer
    /\ UNCHANGED <<flash, pageBuffer, ram, magic, quiet, tornVectors>>

(***************************************************************************)
(* The rest of main's loop: erase, write, execute, in this order.          *)
(***************************************************************************)
HandleErase ==
    /\ pc = "handle"
    /\ pc' = IF "erase" \in events THEN "erase" ELSE "handleWrite"
    /\ erasePage' = IF "erase" \in events THEN AppPages ELSE erasePage
    /\ UNCHANGED <<flash, pageBuffer, currentAddress, vectorTemp, events, rw,
                   idlePolls, magic, host, quiet, tornVectors>>

\* Mutant: the pages are erased from the bottom up.
NextErased_Ascending == AppPages - erasePage

\* The page the next turn of eraseApplication's loop erases.
NextErased == erasePage - 1

\* Mutant: the loop runs one turn too many.
ErasePage_OneMore ==
    /\ pc = "erase"
    /\ flash' = Erased(flash, NextErased)
    /\ erasePage' = erasePage - 1
    /\ UNCHANGED <<pageBuffer, currentAddress, vectorTemp, events, rw,
                   idlePolls, magic, pc, host, quiet, tornVectors>>

\* One turn of eraseApplication's loop, interrupts off.
ErasePage ==
    /\ pc = "erase" /\ erasePage > 0
    /\ flash' = Erased(flash, NextErased)
    /\ erasePage' = erasePage - 1
    /\ UNCHANGED <<pageBuffer, currentAddress, vectorTemp, events, rw,
                   idlePolls, magic, pc, host, quiet, tornVectors>>

\* Mutant: the page is left blank.
FillPage_NoVectors(a) ==
    /\ pageBuffer' = pageBuffer
    /\ currentAddress' = a - OffsetOf(a) + PageWords

\* fillFlashWithVectors from currentAddress a: 0xFFFF up to the page's end,
\* with the bootloader's vectors in their places.
FillPage(a) ==
    /\ pageBuffer' =
         [o \in Offsets |->
            IF o >= OffsetOf(a)
            THEN And(pageBuffer[o],
                     Patched(a - OffsetOf(a) + o, Blank, vectorTemp))
            ELSE pageBuffer[o]]
    /\ currentAddress' = a - OffsetOf(a) + PageWords

\* After the last page: currentAddress = 0, fillFlashWithVectors.
FillVectors ==
    /\ pc = "erase" /\ erasePage = 0
    /\ FillPage(0)
    /\ pc' = "vectors"
    /\ UNCHANGED <<flash, vectorTemp, events, rw, idlePolls, erasePage, magic,
                   host, quiet, tornVectors>>

\* writeFlashPage: the page below currentAddress; the AVR then clears the
\* page buffer.
writeFlashPage ==
    /\ flash' = Programmed(flash, PageOf(currentAddress - 1), pageBuffer)
    /\ pageBuffer' = EmptyBuffer

\* The end of eraseApplication: page 0 written, interrupts on again.
WriteVectors ==
    /\ pc = "vectors"
    /\ writeFlashPage
    /\ tornVectors' = FALSE
    /\ pc' = "handleWrite"
    /\ UNCHANGED <<ram, magic, host, quiet>>

\* tiny85FlashWrites; a partly filled page is filled up with blanks.
HandleWrite ==
    /\ pc = "handleWrite"
    /\ IF "write" \in events
       THEN /\ pc' = "write"
            /\ IF OffsetOf(currentAddress) # 0 THEN FillPage(currentAddress)
               ELSE UNCHANGED <<pageBuffer, currentAddress>>
       ELSE /\ pc' = "handleExecute"
            /\ UNCHANGED <<pageBuffer, currentAddress>>
    /\ UNCHANGED <<flash, vectorTemp, events, rw, idlePolls, erasePage, magic,
                   host, quiet, tornVectors>>

WritePage ==
    /\ pc = "write"
    /\ writeFlashPage
    /\ pc' = "handleExecute"
    /\ UNCHANGED <<ram, magic, host, quiet, tornVectors>>

\* Mutant: a poll without traffic is not counted.
NextIdle_NotCounted ==
    IF "execute" \in events THEN ExecuteIdle ELSE idlePolls

\* two_more_idle_polls and the ++idlePolls of bootLoaderCondition.
NextIdle ==
    ((IF "execute" \in events THEN ExecuteIdle ELSE idlePolls) + 1) % IdleModulus

\* Mutant: the events of this poll are still set in the next.
clearEvents_Not == UNCHANGED events

clearEvents == events' = {}

\* Mutant: a jumper build stays in the loop.
BreaksOut_Never == FALSE

\* Without a timer, EVENT_EXECUTE breaks out of the loop.
BreaksOut == ~TimerMode /\ "execute" \in events

HandleExecute ==
    /\ pc = "handleExecute"
    /\ IF BreaksOut
       THEN pc' = "leave" /\ UNCHANGED <<events, idlePolls>>
       ELSE /\ clearEvents
            /\ IF TimerMode
               THEN /\ idlePolls' = NextIdle
                    /\ pc' = IF NextIdle < IdleLimit THEN "poll" ELSE "leave"
               ELSE pc' = "poll" /\ UNCHANGED idlePolls
    /\ UNCHANGED <<flash, pageBuffer, currentAddress, vectorTemp, rw,
                   erasePage, magic, host, quiet, tornVectors>>

\* Mutant: the magic stays on the stack.
LeaveBootloader_KeepMagic ==
    /\ pc = "leave"
    /\ pc' = StageAt(flash, AppReset)
    /\ host' = NoTransfer
    /\ UNCHANGED <<flash, pageBuffer, ram, magic, quiet, tornVectors>>

\* leaveBootloader: the magic goes, then __app_reset.
LeaveBootloader ==
    /\ pc = "leave"
    /\ magic' = FALSE
    /\ pc' = StageAt(flash, AppReset)
    /\ host' = NoTransfer
    /\ UNCHANGED <<flash, pageBuffer, ram, quiet, tornVectors>>

(***************************************************************************)
(* The rest of the world.                                                  *)
(***************************************************************************)
\* The application jumps back to 0 with words left in the page buffer.
AppRestarts ==
    /\ pc = "app" /\ ~quiet
    /\ pageBuffer' = [o \in Offsets |-> Mixed]
    /\ pc' = StageAt(flash, 0)
    /\ UNCHANGED <<flash, ram, magic, host, quiet, tornVectors>>

\* What flash holds once the page operation in progress has ended.
PendingFlash ==
    CASE pc = "erase" /\ erasePage > 0 -> Erased(flash, NextErased)
      [] pc \in {"vectors", "write"}   ->
             Programmed(flash, PageOf(currentAddress - 1), pageBuffer)
      [] OTHER                         -> flash

\* The operation in progress erases or writes page 0 of an erased device.
RewritingVectors == pc = "vectors" \/ (pc = "erase" /\ erasePage = 1)

\* A reset or a power failure at any point: the words at the offsets in done
\* already have their new contents.
PowerCycle ==
    /\ ~quiet
    /\ \E done \in IF TornPages THEN SUBSET Offsets ELSE {{}} :
        /\ flash' = [w \in Addresses |-> IF OffsetOf(w) \in done
                                         THEN PendingFlash[w] ELSE flash[w]]
        /\ tornVectors' = (tornVectors \/ (RewritingVectors /\ done # {}))
    /\ pageBuffer' = EmptyBuffer
    /\ magic' = FALSE
    /\ host' = NoTransfer
    /\ pc' = StageAt(flash', 0)
    /\ UNCHANGED <<ram, quiet>>

\* From here on no packet arrives and power is steady.
FallSilent ==
    /\ ~quiet /\ quiet' = TRUE
    /\ UNCHANGED <<flash, pageBuffer, ram, magic, pc, host, tornVectors>>

Device ==
    \/ EnterMainLoop \/ SkipMainLoop
    \/ PollNothing
    \/ HandleErase \/ ErasePage \/ FillVectors \/ WriteVectors
    \/ HandleWrite \/ WritePage
    \/ HandleExecute \/ LeaveBootloader

Bus ==
    \/ SetupStandard \/ SetupInfo \/ SetupWrite \/ SetupErase \/ SetupExecute
    \/ RecvData \/ RecvDuplicate \/ MisroutedInterrupt

\* The application does nothing that matters here.
AppRuns == pc = "app" /\ UNCHANGED vars

World == AppRestarts \/ AppRuns \/ PowerCycle \/ FallSilent

Next == Device \/ Bus \/ World

\* No page operation has changed the bootloader's own words.
BootloaderIntact ==
    \A w \in Addresses : w >= Entry => flash[w] = BootCode

\* What the words of a bootloader that was written over make the CPU do is not
\* modelled: there the model ends.
WrittenOver == ~BootloaderIntact /\ UNCHANGED vars

NextIntact == (BootloaderIntact /\ Next) \/ WrittenOver

Spec == Init /\ [][NextIntact]_vars

\* The CPU never stops; nothing is assumed of the bus or of the power.
FairSpec == Spec /\ WF_vars(BootloaderIntact /\ Device)

(***************************************************************************)
(* Safety.                                                                 *)
(***************************************************************************)
\* A page write that is asked for below the bootloader never gets to the
\* bootloader's own pages, wherever in a page it starts and however often its
\* packets are repeated or run over a page's end: the break in
\* usbFunctionWrite holds currentAddress back.  It does no more than that.  A
\* write asked for behind BOOTLOADER_ENTRY fills no word, but at a page's end
\* it does fire the event, and the page below currentAddress is programmed
\* with what the page buffer holds.
BootloaderKept ==
    [][\A w \in Addresses :
        w >= Entry /\ flash'[w] # flash[w] => pc = "write" /\ host.start > Entry
      ]_vars

\* Whenever power goes, the next reset ends in the bootloader, not in a piece
\* of a half-erased or half-written application: eraseApplication's reverse
\* order and __my_reset2.  The one exception is a page operation on page 0
\* that eraseApplication did not finish.
ResetReachesBootloader ==
    ~LossyBus /\ ~tornVectors => Destination(flash, 0) = Entry

\* When the bootloader polls but USB interrupts do not reach its handler, the
\* power failed between the erase of page 0 and the write of the vectors:
\* nothing at all is left in the application's flash.
UsbDeadOnlyWhenErased ==
    ~LossyBus /\ ~tornVectors /\ pc = "poll" /\ ~UsbAlive
        => \A w \in AppWords : flash[w] = Blank

\* When eraseApplication has returned, reset and USB vectors lead to the
\* bootloader: what it promises in its heading comment.
VectorsAfterErase ==
    pc = "handleWrite" /\ "erase" \in events
        => flash[0] = ToEntry /\ flash[UsbVector] = ToIsr

\* A page about to be written holds the page the host sent, with the vectors
\* and the tiny table patched, and nothing left over from an earlier fill.
PageAsSent ==
    ~LossyBus /\ pc = "write" =>
        \A o \in Offsets :
            LET w == host.page * PageWords + o
            IN  /\ PageOf(currentAddress - 1) = host.page
                /\ pageBuffer[o] = Patched(w, host.image[w], vectorTemp)

\* A jump in the tiny table leads where the vector of some image led before
\* it was moved, or back into the bootloader (table written as shipped, or
\* in a session that never saw page 0).
TableTargets ==
    LET Led(v) == {(i[v].arg + v + 1) % FlashWords : i \in Images}
    IN  ~LossyBus =>
            /\ flash[AppReset].op = "rjmp" =>
                    Landing(flash, AppReset) \in {0, Entry} \cup Led(0)
            /\ flash[AppUsb].op = "rjmp" =>
                    Landing(flash, AppUsb) \in {0, Entry} \cup Led(UsbVector)

\* One poll never asks for both an erase and a page write, since usbPoll hands
\* over one packet, and a page is only written at its boundary, so the partial
\* branch of tiny85FlashWrites never fills a page.  The comment in main that
\* both usually activate in the same loop is not what the code does.
OneJobPerPoll ==
    /\ ~("erase" \in events /\ "write" \in events)
    /\ pc = "handleWrite" /\ "write" \in events
           => OffsetOf(currentAddress) = 0

\* While the application runs, USB interrupts are not taken by the
\* bootloader's handler: leaveBootloader has cleared the magic.
AppKeepsUsb == BootloaderIntact /\ pc = "app" => ~UsbAlive

(***************************************************************************)
(* The inductive invariant behind ResetReachesBootloader.                  *)
(***************************************************************************)
\* Pages from erasePage up are blank while the erase runs, all of them while
\* the vectors are written.
EraseInv ==
    /\ pc = "erase" => \A w \in AppWords :
                            PageOf(w) >= erasePage => flash[w] = Blank
    /\ pc = "vectors" => \A w \in AppWords : flash[w] = Blank

\* The reset vector is the bootloader's or blank; blank only when everything
\* is, and never when the bus has just delivered the end of a page.
VectorInv ==
    /\ flash[0] \in {ToEntry, Blank}
    /\ ~tornVectors /\ flash[0] = Blank
            => \A w \in AppWords : flash[w] = Blank
    /\ ~tornVectors /\ "write" \in events
                    /\ pc \in {"handle", "handleWrite", "write"}
            => flash[0] = ToEntry

\* Which events can be pending where.
EventInv ==
    /\ "write" \in events => "erase" \notin events
    /\ events # {} => pc \notin {"poll"}
    /\ pc \in {"erase", "vectors"} => "erase" \in events
    /\ pc = "write" => "write" \in events

\* Between transfers the page buffer is empty; inside one it belongs to the
\* host's page and currentAddress keeps up with the packets sent.
Looping == {"poll", "handle", "handleWrite", "handleExecute"}

BufferInv ==
    /\ pc \in {"start", "app"} => TransferDone
    /\ events \cap {"erase", "write"} # {}
           /\ pc \in Looping \cup {"erase", "vectors", "write"} => TransferDone
    /\ pc \in {"poll", "handleExecute", "erase"} /\ TransferDone
           => pageBuffer = EmptyBuffer
    /\ pc \in {"handle", "handleWrite"} /\ TransferDone /\ "write" \notin events
           => pageBuffer = EmptyBuffer
    /\ pc \in Looping /\ ~TransferDone =>
           /\ currentAddress = host.page * PageWords + host.sent * PacketWords
           /\ host.sent = 0 => pageBuffer = EmptyBuffer
           /\ host.page = 0 /\ host.sent > 0 => pageBuffer[0] = ToEntry
    /\ pc \in {"handle", "handleWrite", "write"} /\ "write" \in events =>
           /\ OffsetOf(currentAddress) = 0
           /\ PageOf(currentAddress - 1) = 0 => pageBuffer[0] = ToEntry
    /\ pc = "vectors" => currentAddress = PageWords /\ pageBuffer[0] = ToEntry

\* Everything the proof of ResetReachesBootloader carries from step to step.
SafetyInv ==
    /\ EraseInv
    /\ ~LossyBus => BootloaderIntact /\ VectorInv /\ EventInv /\ BufferInv

(***************************************************************************)
(* Liveness.                                                               *)
(***************************************************************************)
\* A timer build left alone leaves for the application, whatever it was
\* doing when the bus fell silent, as long as it has not been written over.
AutoExit == quiet ~> (pc \in {"leave", "app"} \/ ~BootloaderIntact)

=============================================================================
