------------------------------ MODULE Upgrade ------------------------------
(***************************************************************************)
(* firmware/upgrade.c: an application that replaces the bootloader it was  *)
(* uploaded with.  It first takes the reset vector for itself, then erases *)
(* and writes the pages of the bootloader one by one, and at last gives    *)
(* the vectors to the new bootloader.                                      *)
(*                                                                         *)
(* Power may fail at any step; with TornPages = TRUE a page operation it   *)
(* interrupts may have reached only some words.  The bootloader may have   *)
(* left words in the AVR's page buffer (a transfer that broke off before   *)
(* it timed out), which upgrade.c does not clear.                          *)
(***************************************************************************)
EXTENDS AvrFlash

CONSTANTS
    OldWords,     \* words of the old bootloader from Entry on
    UpgradeStart, \* __ctors_end
    PayloadStart, \* __payload_start
    Builds,       \* [boot, vectors]: contents of .payload and .payloadvectors
    TornPages     \* an interrupted page operation may be partial

TablePage  == PageOf(AppReset)
TableStart == TablePage * PageWords

PayloadVectorsStart(b) == PayloadStart + b.bootWords
PayloadVectorsEnd(b)   == PayloadVectorsStart(b) + b.vectorWords

\* upgrade-avr25.x: vectors padded to 128 bytes, code, .payload and
\* .payloadvectors; all of it ends below the page of BOOTLOADER_ADDRESS.
ASSUME LayoutAssumption ==
    /\ OldWords \in Nat \ {0} /\ Entry + OldWords <= FlashWords
    /\ UpgradeStart \in Nat /\ UpgradeStart >= PageWords
    /\ OffsetOf(UpgradeStart) = 0
    /\ PayloadStart \in Nat /\ PayloadStart > UpgradeStart
    /\ Builds # {} /\ TornPages \in BOOLEAN

\* A new bootloader starts with its tiny table and its code follows at Entry;
\* the vectors, if there are any, lead reset to Entry and fit in the padding.
ASSUME BuildAssumption ==
    \A b \in Builds :
        /\ b.bootWords \in Nat /\ b.vectorWords \in Nat
        /\ b.boot \in [0 .. b.bootWords - 1 -> Word]
        /\ b.vectors \in [0 .. b.vectorWords - 1 -> Word]
        /\ b.bootWords > 3 /\ AppReset + b.bootWords <= FlashWords
        /\ b.boot[0] = addr2rjmp(Entry, AppReset)
        /\ b.vectorWords <= UpgradeStart
        /\ b.vectorWords > 0 => b.vectors[0] = ToEntry
        /\ PayloadVectorsEnd(b) <= TableStart

VARIABLES
    flash,        \* contents of every word
    pageBuffer,   \* the AVR's temporary page buffer
    words,        \* vector_table and page_buffer: the page to write, in RAM
    build,        \* what the upgrade program carries
    pc,           \* where the CPU is
    page,         \* the page being replaced
    erased,       \* it has been erased and not yet written
    steady,       \* history: from here on power does not fail
    unsafe        \* history: words left in the page buffer, or page 0 torn

vars == <<flash, pageBuffer, words, build, pc, page, erased, steady, unsafe>>

Stages == {"bootloader", "secure", "replace", "forward", "reboot", "lost"}

UpgradeTypeOK ==
    /\ flash \in [Addresses -> Word]
    /\ pageBuffer \in [Offsets -> Word]
    /\ words \in [Offsets -> Word]
    /\ build \in Builds
    /\ pc \in Stages
    /\ page \in Nat
    /\ erased \in BOOLEAN /\ steady \in BOOLEAN /\ unsafe \in BOOLEAN

(***************************************************************************)
(* Init: upgrade.hex has been uploaded, so its reset and USB vectors are   *)
(* the bootloader's and the tiny table has its own.                        *)
(***************************************************************************)
Code == [op |-> "app", arg |-> 0]

UploadedFlash(b) ==
    [w \in Addresses |->
        CASE w = 0         -> ToEntry
          [] w = UsbVector -> ToIsr
          [] w \in UpgradeStart .. PayloadStart - 1 -> Code
          [] w \in PayloadStart .. PayloadVectorsStart(b) - 1 ->
                b.boot[w - PayloadStart]
          [] w \in PayloadVectorsStart(b) .. PayloadVectorsEnd(b) - 1 ->
                b.vectors[w - PayloadVectorsStart(b)]
          [] w = AppReset  -> addr2rjmp(UpgradeStart, AppReset)
          [] w \in Entry .. Entry + OldWords - 1 -> BootCode
          [] OTHER         -> Blank]

Init ==
    /\ build \in Builds
    /\ flash = UploadedFlash(build)
    /\ pageBuffer = EmptyBuffer
    /\ words = EmptyBuffer
    /\ pc = "bootloader" /\ page = 0 /\ erased = FALSE
    /\ steady = FALSE /\ unsafe = FALSE

(***************************************************************************)
(* Who a reset runs.                                                       *)
(***************************************************************************)
UpgradeIntact(f) ==
    \A w \in UpgradeStart .. PayloadVectorsEnd(build) - 1 :
        f[w] = UploadedFlash(build)[w]

OldBootloader(f) == \A w \in Entry .. Entry + OldWords - 1 : f[w] = BootCode

NewBootloader(f) ==
    \A k \in 0 .. build.bootWords - 1 : f[AppReset + k] = build.boot[k]

ResetRuns(f) ==
    IF Landing(f, 0) = UpgradeStart /\ UpgradeIntact(f) THEN "upgrade"
    ELSE IF Landing(f, 0) = Entry /\ NewBootloader(f) THEN "new"
    ELSE IF Landing(f, 0) = Entry /\ OldBootloader(f) THEN "old"
    ELSE "nothing"

StageAt(f) ==
    CASE ResetRuns(f) = "upgrade"        -> "secure"
      [] ResetRuns(f) \in {"old", "new"} -> "bootloader"
      [] OTHER                           -> "lost"

\* The bootloader leaves for its application.  The old one may have words of
\* an unfinished page in the page buffer.
StartUpgrade ==
    /\ pc = "bootloader" /\ Landing(flash, AppReset) = UpgradeStart
    /\ \E left \in {Blank, Code} :
        /\ pageBuffer' = [EmptyBuffer EXCEPT ![0] = left]
        /\ unsafe' = (unsafe \/ left # Blank)
    /\ pc' = "secure" /\ page' = 0
    /\ UNCHANGED <<flash, words, build, erased, steady>>

(***************************************************************************)
(* Page operations.                                                        *)
(***************************************************************************)
\* ws has been put together in RAM; erase_page.
erase_page(ws) ==
    /\ ~erased /\ erased' = TRUE
    /\ words' = ws
    /\ flash' = Erased(flash, page)
    /\ UNCHANGED <<pageBuffer, build, pc, page, steady, unsafe>>

FilledBuffer == [o \in Offsets |-> And(pageBuffer[o], words[o])]

\* write_page fills the page buffer and programs the page.
write_page ==
    /\ erased /\ erased' = FALSE
    /\ flash' = Programmed(flash, page, FilledBuffer)
    /\ pageBuffer' = EmptyBuffer
    /\ UNCHANGED <<words, build, steady, unsafe>>

(***************************************************************************)
(* secure_interrupt_vector_table.                                          *)
(***************************************************************************)
ToUpgrade == addr2rjmp(UpgradeStart, 0)

\* Mutant: the vectors are kept as the bootloader left them.
SecuredTable_Kept == [o \in Offsets |-> flash[o]]

\* load_table(0), the reset vector, and the number of vectors in word 1.
SecuredTable ==
    [o \in Offsets |->
        CASE o = 0 -> ToUpgrade
          [] o = 1 -> [op |-> "app", arg |-> build.vectorWords]
          [] OTHER -> flash[o]]

SecureErase == pc = "secure" /\ erase_page(SecuredTable)

SecureWrite ==
    /\ pc = "secure" /\ write_page
    /\ pc' = "replace" /\ page' = TablePage

(***************************************************************************)
(* write_new_bootloader.                                                   *)
(***************************************************************************)
\* Mutant: the words of a last, partial page are not written.
LastPage_Whole == PageOf(AppReset + build.bootWords) - 1

\* The page that holds the last word of the payload.
LastPage == PageOf(AppReset + build.bootWords - 1)

\* Word w of the new bootloader, read from the payload; 0xFFFF below
\* BOOTLOADER_ADDRESS and behind the payload.
NewWord(w) ==
    IF w \in AppReset .. AppReset + build.bootWords - 1
    THEN flash[PayloadStart + w - AppReset] ELSE Blank

ReplaceErase ==
    /\ pc = "replace"
    /\ erase_page([o \in Offsets |-> NewWord(page * PageWords + o)])

ReplaceWrite ==
    /\ pc = "replace" /\ write_page
    /\ IF page < LastPage THEN page' = page + 1 /\ pc' = pc
                          ELSE page' = 0 /\ pc' = "forward"

(***************************************************************************)
(* forward_interrupt_vector_table.                                         *)
(***************************************************************************)
\* Mutant: without payload vectors only reset is forwarded.
ForwardedWord_NoUsb(w) ==
    CASE build.vectorWords = 0 /\ w = 0         -> ToEntry
      [] w < build.vectorWords                  ->
            flash[PayloadVectorsStart(build) + w]
      [] OTHER                                  -> Blank

\* Two vectors of its own, or those it was built with; 0xFFFF behind them.
ForwardedWord(w) ==
    CASE build.vectorWords = 0 /\ w = 0         -> ToEntry
      [] build.vectorWords = 0 /\ w = UsbVector -> ToIsr
      [] w < build.vectorWords                  ->
            flash[PayloadVectorsStart(build) + w]
      [] OTHER                                  -> Blank

ForwardErase ==
    /\ pc = "forward"
    /\ erase_page([o \in Offsets |-> ForwardedWord(page * PageWords + o)])

ForwardWrite ==
    /\ pc = "forward" /\ write_page
    /\ IF (page + 1) * PageWords < build.vectorWords
       THEN page' = page + 1 /\ pc' = pc
       ELSE page' = 0 /\ pc' = "reboot"

\* rjmp __vectors.
Reboot ==
    /\ pc = "reboot"
    /\ pc' = StageAt(flash)
    /\ UNCHANGED <<flash, pageBuffer, words, build, page, erased, steady, unsafe>>

(***************************************************************************)
(* The rest of the world.                                                  *)
(***************************************************************************)
PendingFlash ==
    IF pc \in {"secure", "replace", "forward"}
    THEN IF erased THEN Programmed(flash, page, FilledBuffer)
                   ELSE Erased(flash, page)
    ELSE flash

\* A reset or a power failure; the words at the offsets in done have been
\* reached by the operation in progress.
PowerCycle ==
    /\ ~steady
    /\ \E done \in IF TornPages THEN SUBSET Offsets ELSE {{}} :
        /\ flash' = [w \in Addresses |-> IF OffsetOf(w) \in done
                                         THEN PendingFlash[w] ELSE flash[w]]
        /\ unsafe' = (unsafe \/ (/\ page = 0 /\ pc \in {"secure", "forward"}
                                 /\ done \notin {{}, Offsets}))
    /\ pageBuffer' = EmptyBuffer
    /\ words' = EmptyBuffer
    /\ erased' = FALSE /\ page' = 0
    /\ pc' = StageAt(flash')
    /\ UNCHANGED <<build, steady>>

PowerIsSteady ==
    /\ ~steady /\ steady' = TRUE
    /\ UNCHANGED <<flash, pageBuffer, words, build, pc, page, erased, unsafe>>

\* The new bootloader waits for a host, or nothing sensible runs.
Idle ==
    /\ pc = "lost" \/ (pc = "bootloader" /\ Landing(flash, AppReset) # UpgradeStart)
    /\ UNCHANGED vars

Program ==
    \/ SecureErase \/ SecureWrite
    \/ ReplaceErase \/ ReplaceWrite
    \/ ForwardErase \/ ForwardWrite
    \/ Reboot

Next == StartUpgrade \/ Program \/ PowerCycle \/ PowerIsSteady \/ Idle

Spec == Init /\ [][Next]_vars

\* The CPU never stops, and the bootloader leaves when it is left alone.
FairSpec == Spec /\ WF_vars(StartUpgrade \/ Program)

(***************************************************************************)
(* Properties.                                                             *)
(***************************************************************************)
\* Whenever power goes, a reset runs the old bootloader, the upgrade program
\* or the new bootloader, each of them whole, and ownership passes on in this
\* order.  Even with page 0 erased: control slides through the padding of
\* the vectors to __ctors_end.  Accidents are an operation on page 0 that is
\* torn and a page buffer that was not empty.
Handover == INSTANCE Replacement WITH inCharge <- ResetRuns(flash),
                                      accident <- unsafe
HandsOver == Handover!Spec

\* With power steady the program ends in the new bootloader with reset and
\* USB vectors leading there, whatever the page buffer held at its start.
EndsInNewBootloader ==
    (steady /\ pc = "secure")
        ~> /\ pc = "bootloader" /\ ResetRuns(flash) = "new"
           /\ Landing(flash, UsbVector) = Isr

(***************************************************************************)
(* The inductive invariant behind HandsOver.                               *)
(***************************************************************************)
PageBlank(f, p) == \A w \in Addresses : PageOf(w) = p => f[w] = Blank

\* The rest of the vectors' 128 bytes.
PaddingBlank(f) == \A w \in PageWords .. UpgradeStart - 1 : f[w] = Blank

OldInCharge(f) ==
    /\ f[0] = ToEntry /\ OldBootloader(f) /\ PaddingBlank(f)
    /\ f[AppReset] = addr2rjmp(UpgradeStart, AppReset)

UpgradeInCharge(f) ==
    PaddingBlank(f) /\ (f[0] = ToUpgrade \/ PageBlank(f, 0))

NewInCharge(f) == f[0] = ToEntry /\ NewBootloader(f)

\* What the new bootloader's pages are to hold.
NewContents(w) ==
    IF w \in AppReset .. AppReset + build.bootWords - 1
    THEN build.boot[w - AppReset] ELSE Blank

\* The pages of the new bootloader below page p are written.
WrittenBelow(p) ==
    \A w \in Addresses :
        PageOf(w) \in TablePage .. p - 1 => flash[w] = NewContents(w)

\* Page 0 is blank and word 0 of the page to be written is the vector.
ZeroPending(vector) ==
    PageBlank(flash, 0) /\ PaddingBlank(flash) /\ words[0] = vector

\* Which pages a place of the program erases and writes.
PageInPlace ==
    /\ pc \in {"bootloader", "reboot"} => page = 0 /\ ~erased
    /\ pc = "secure" => page = 0
    /\ pc = "replace" => page \in TablePage .. LastPage
    /\ pc = "forward" => page * PageWords < UpgradeStart

\* Who is in charge at each place of the program, and how far it has come.
AtBootloader == pc = "bootloader" => OldInCharge(flash) \/ NewInCharge(flash)

AtSecure ==
    pc = "secure" =>
        IF erased THEN ZeroPending(ToUpgrade)
                  ELSE OldInCharge(flash) \/ UpgradeInCharge(flash)

AtReplace ==
    pc = "replace" =>
        /\ flash[0] = ToUpgrade /\ PaddingBlank(flash)
        /\ WrittenBelow(page)
        /\ erased => /\ PageBlank(flash, page)
                     /\ \A o \in Offsets :
                            words[o] = NewContents(page * PageWords + o)

AtForward ==
    pc = "forward" =>
        /\ NewBootloader(flash)
        /\ IF page > 0 THEN flash[0] = ToEntry
           ELSE IF erased THEN ZeroPending(ToEntry)
           ELSE flash[0] = ToUpgrade /\ PaddingBlank(flash)

AtReboot == pc = "reboot" => NewInCharge(flash)

\* The upgrade program and its payload never change; without an accident
\* somebody is in charge everywhere.
UpgradeInv ==
    /\ UpgradeIntact(flash) /\ PageInPlace
    /\ ~unsafe =>
        /\ pageBuffer = EmptyBuffer /\ pc # "lost"
        /\ AtBootloader /\ AtSecure /\ AtReplace /\ AtForward /\ AtReboot

=============================================================================
