------------------------------- MODULE Upload -------------------------------
(***************************************************************************)
(* mnflash_upload (mnflash/lib/uploader.c, usb-device.c) driving the       *)
(* bootloader of module Bootloader: the requests it sends are the packets  *)
(* Bootloader receives, and every one of its control messages may fail.    *)
(*                                                                         *)
(* A control message that fails may have reached the device not at all, in *)
(* part, or as a whole; the handshake of a single data packet is not lost  *)
(* here (the driver would take the packet twice, see RecvDuplicate).  Power *)
(* may fail at any step; the device that comes back is another one to the  *)
(* host.  Module Mnflash finds the device and starts this.                 *)
(***************************************************************************)
EXTENDS Bootloader, FiniteSets

CONSTANTS
    Firmwares,   \* mnflash_firmware_t: [image, start, end], in words
    Retries      \* tries of mnflash_usb_custom_write

BlankImage == [w \in AppWords |-> Blank]

ASSUME UploadAssumption ==
    /\ Firmwares \subseteq [image : Images, start : AppWords, end : 1 .. Entry]
    /\ \A f \in Firmwares :
        \A w \in AppWords : w \notin f.start .. f.end - 1 => f.image[w] = Blank
    /\ BlankImage \in Images
    /\ Retries \in Nat \ {0}
    /\ ~LossyBus   \* the errors are this module's

VARIABLES
    firmware,  \* what is uploaded
    step,      \* where mnflash_upload is
    page,      \* page_now / page_size
    tries,     \* retry of mnflash_usb_custom_write
    sending,   \* a page write is in usb_control_msg
    connected, \* dev->handle still leads to the device
    arrived,   \* history: which of erase, page and execute reached the device
    missing,   \* history: pages mnflash_upload has given up
    acked,     \* history: pages whose write was reported complete
    cut        \* history: power has failed since a request reached the device

upload == <<firmware, step, page, tries, sending, connected, arrived, missing,
            acked, cut>>
allVars == <<vars, upload>>

Steps == {"check", "erase", "pages", "extra", "execute", "returned 1",
          "returned 0"}
ProgmemSize == AppReset             \* info->progmem_size, in words
TablePage   == ProgmemSize \div PageWords

UploadTypeOK ==
    /\ firmware \in Firmwares
    /\ step \in Steps
    /\ page \in 0 .. AppPages
    /\ tries \in 1 .. Retries
    /\ sending \in BOOLEAN /\ connected \in BOOLEAN
    /\ arrived \subseteq {"erase", "page", "execute"}
    /\ missing \subseteq 0 .. TablePage /\ acked \subseteq 0 .. TablePage
    /\ cut \in BOOLEAN

UploadStart ==
    /\ host.image = BlankImage
    /\ firmware \in Firmwares
    /\ step = "check" /\ page = 0 /\ tries = Retries
    /\ sending = FALSE /\ connected = FALSE /\ arrived = {}
    /\ missing = {} /\ acked = {} /\ cut = FALSE

(***************************************************************************)
(* mnflash_upload.                                                         *)
(***************************************************************************)
\* The image has to start at a page and to end before the tiny table.
Check ==
    /\ step = "check"
    /\ step' = IF OffsetOf(firmware.start) # 0 \/ firmware.end >= ProgmemSize
               THEN "returned 0" ELSE "erase"
    /\ page' = PageOf(firmware.start)
    /\ UNCHANGED <<vars, firmware, tries, sending, connected, arrived, missing,
                   acked, cut>>

\* mnflash_erase: one try, whose result is ignored, and a sleep.
Erase ==
    /\ step = "erase" /\ connected /\ SetupErase
    /\ step' = "pages" /\ arrived' = arrived \cup {"erase"}
    /\ UNCHANGED <<firmware, page, tries, sending, connected, missing, acked,
                   cut>>

EraseLost ==
    /\ step = "erase"
    /\ step' = "pages"
    /\ UNCHANGED <<vars, firmware, page, tries, sending, connected, arrived,
                   missing, acked, cut>>

Writing == step = "extra" \/ (step = "pages" /\ page * PageWords < firmware.end)

\* What page_buffer is filled with.
PageImage == IF step = "extra" THEN BlankImage ELSE firmware.image

\* mnflash_usb_custom_write: the SETUP packet of a page write.
SendPage ==
    /\ Writing /\ ~sending /\ connected
    /\ SetupWrite /\ host'.page = page /\ host'.image = PageImage
    /\ sending' = TRUE /\ arrived' = arrived \cup {"page"}
    /\ UNCHANGED <<firmware, step, page, tries, connected, missing, acked,
                   cut>>

\* Mutant: two pages on.
NextPage_Skip ==
    /\ tries' = Retries
    /\ IF step = "extra" THEN step' = "execute" /\ page' = page
       ELSE step' = step /\ page' = page + 2

\* On to the next page, or behind the extra one.
NextPage ==
    /\ tries' = Retries
    /\ IF step = "extra" THEN step' = "execute" /\ page' = page
       ELSE step' = step /\ page' = page + 1

\* usb_control_msg returns the length of the page.
PageDone ==
    /\ sending /\ connected /\ TransferDone
    /\ NextPage
    /\ sending' = FALSE
    /\ acked' = acked \cup {page}
    /\ UNCHANGED <<vars, firmware, connected, arrived, missing, cut>>

\* Mutant: the tries are not counted.
TriesLeft_NotCounted == {tries}

\* Errors a bad cable explains are tried again, others are not.
TriesLeft == {tries - 1, 0}

\* It returns an error, before the device heard anything, after part of the
\* packets or after all of them.  A page that has no try left is given up: an
\* ordinary one is logged, the extra one ends the upload.
PageError ==
    /\ Writing
    /\ host' = NoTransfer
    /\ sending' = FALSE
    /\ \E left \in TriesLeft :
        IF left > 0
        THEN tries' = left /\ UNCHANGED <<step, page, missing>>
        ELSE /\ missing' = missing \cup {page}
             /\ IF step = "extra"
                THEN step' = "returned 0" /\ UNCHANGED <<page, tries>>
                ELSE NextPage
    /\ UNCHANGED <<flash, pageBuffer, ram, magic, pc, quiet, tornVectors,
                   firmware, connected, arrived, acked, cut>>

\* Mutant: no extra page.
NeedsExtraPage_Never == FALSE

\* page_now / page_size < progmem_size / page_size, page_now behind the last.
NeedsExtraPage == page < TablePage

\* The end of the loop over the pages.
PagesDone ==
    /\ step = "pages" /\ ~Writing
    /\ IF NeedsExtraPage THEN step' = "extra" /\ page' = TablePage
       ELSE step' = "execute" /\ page' = page
    /\ UNCHANGED <<vars, firmware, tries, sending, connected, arrived, missing,
                   acked, cut>>

\* mnflash_execute: one try, and its result is ignored.
Execute ==
    /\ step = "execute" /\ connected /\ SetupExecute
    /\ step' = "returned 1" /\ arrived' = arrived \cup {"execute"}
    /\ UNCHANGED <<firmware, page, tries, sending, connected, missing, acked,
                   cut>>

ExecuteLost ==
    /\ step = "execute"
    /\ step' = "returned 1"
    /\ UNCHANGED <<vars, firmware, page, tries, sending, connected, arrived,
                   missing, acked, cut>>

Uploader ==
    \/ Check \/ Erase \/ EraseLost
    \/ SendPage \/ PageDone \/ PageError \/ PagesDone
    \/ Execute \/ ExecuteLost

Packets == RecvData /\ UNCHANGED upload

\* A device that leaves its loop takes its address off the bus; when it comes
\* back it is another one to the host.
StillThere == connected' = (connected /\ pc' \notin {"start", "app"})

Runs ==
    /\ Device /\ StillThere
    /\ UNCHANGED <<firmware, step, page, tries, sending, arrived, missing, acked,
                   cut>>
AppKeepsRunning == AppRuns /\ UNCHANGED upload

\* The host goes on with a handle that leads nowhere.
PowerFails ==
    /\ PowerCycle
    /\ connected' = FALSE /\ cut' = (arrived # {})
    /\ UNCHANGED <<firmware, step, page, tries, sending, arrived, missing, acked>>

(***************************************************************************)
(* Properties.                                                             *)
(***************************************************************************)
\* The vectors the tiny table is built from.
VectorsOf(image) ==
    [i \in {0, 1} |-> LET v == IF i = 0 THEN 0 ELSE UsbVector
                      IN  rjmp2addr(image[v], v)]
Vectors == VectorsOf(firmware.image)

PageIsThere(p) ==
    \A w \in AppWords :
        PageOf(w) = p => flash[w] = Patched(w, firmware.image[w], Vectors)

\* The device has dealt with all it has received.
Settled == pc \in {"poll", "leave", "app"}

\* The device was erased, no page was given up, page 0 was among them, and
\* power was steady.
NothingMissing ==
    /\ "erase" \in arrived /\ missing = {} /\ PageOf(firmware.start) = 0
    /\ ~cut

\* Firmware that fills the page before the tiny table's, but not that one.
EndsBeforeTable == PageOf(firmware.end - 1) + 1 = TablePage

\* Retries are harmless: while no page was given up and power was steady, every
\* page reported complete is in flash as it was sent, even if earlier tries of
\* it broke off anywhere, left words in the page buffer or had written it
\* already.
AcknowledgedIsThere ==
    NothingMissing /\ Settled => \A p \in acked : PageIsThere(p)

\* When the erase request reached the device, whose result mnflash does not
\* look at, no page was given up and power was steady, mnflash_upload returns
\* 1 with the whole flash, the tiny table and the pages it never sent
\* included, as it should be.
UploadIsThere ==
    NothingMissing /\ Settled /\ step = "returned 1" /\ ~EndsBeforeTable
        => \A p \in 0 .. AppPages - 1 : PageIsThere(p)

\* However often messages were repeated, an upload that returns 1 with the
\* erase arrived and no page given up makes the application run, entered where
\* its own reset vector led, unless power fails before.
RunsInTheEnd ==
    (/\ NothingMissing /\ ~EndsBeforeTable
     /\ step = "returned 1" /\ "execute" \in arrived)
        ~> (cut \/ (pc = "app" /\ Landing(flash, AppReset) = Vectors[0]))

\* mnflash(1): "Uploads the firmware from file to the device, then runs it."
\* Firmware that was uploaded without an error is what the device leaves for.
UploadedRuns ==
    NothingMissing /\ Settled /\ step = "returned 1"
        => Landing(flash, AppReset) = Vectors[0]

=============================================================================
