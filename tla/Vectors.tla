------------------------------- MODULE Vectors -------------------------------
(***************************************************************************)
(* The tiny table of the larger parts (ATtiny167: VECTOR_SIZE is 4), which *)
(* bootloader.c builds with code of its own.  A vector of the application  *)
(* is a jmp with the target in its second word, or, when the linker could  *)
(* shorten it, an rjmp and a nop; the tiny table always holds jmps.  One   *)
(* upload without faults: erase, the pages in order, execute.              *)
(*                                                                         *)
(* A word is its opcode bits and its low bits, as in module AvrFlash, but  *)
(* an rjmp reaches only part of the flash (4K of 8K words).  APP_USES_VUSB *)
(* is not defined, which makes APP_VUSB_OFFSET 0.                          *)
(***************************************************************************)
EXTENDS Integers

CONSTANTS
    PageWords,      \* SPM_PAGESIZE / 2; page 0 holds both vectors
    AppPages,       \* pages below BOOTLOADER_ENTRY, two or more
    UsbVectorNum,   \* USB_INTR_VECTOR_NUM
    Reach,          \* values of the 12 bits of an rjmp: half the flash
    FlashWords,     \* FLASHEND / 2 + 1
    Images          \* applications, [AppWords -> Word]

VectorWords    == 2
UsbVector      == UsbVectorNum * VectorWords
UsbTableOffset == 4                     \* APP_USB_VECTOR_OFFSET, in bytes
Entry        == AppPages * PageWords    \* BOOTLOADER_ENTRY
Isr          == Entry + 1               \* BOOTLOADER_INTERRUPT
AppReset     == Entry - 5               \* BOOTLOADER_ADDRESS
AppUsb       == AppReset + VectorWords
StoredOsccal == AppUsb + VectorWords
AppWords     == 0 .. Entry - 1
Offsets      == 0 .. PageWords - 1

Rjmp(bits)      == [op |-> "rjmp", arg |-> bits]
JmpOpcode       == [op |-> "jmp", arg |-> 0]         \* 0x940C
Target(address) == [op |-> "target", arg |-> address]
Blank           == [op |-> "blank", arg |-> Reach - 1]   \* 0xFFFF
Nop             == [op |-> "target", arg |-> 0]      \* 0x0000
Osccal          == [op |-> "osccal", arg |-> 0]

VARIABLES
    flash,          \* the words below the bootloader
    pageBuffer,
    currentAddress,
    vectorTemp,     \* targets of the application's reset and USB vectors
    image,          \* what the host sends
    page,           \* the page it is about to send
    pc

vars == <<flash, pageBuffer, currentAddress, vectorTemp, image, page, pc>>

addr2rjmp(addr, location) == Rjmp((addr - location - 1) % Reach)

\* The sign bit of the distance decides whether the result is cut to the
\* flash.  The caller gives the number of the vector for the offset.
rjmp2addr(word, offset) ==
    LET bits == word.arg % Reach
    IN  IF bits >= Reach \div 2 THEN (bits - Reach + offset + 1) % FlashWords
                                ELSE bits + offset + 1

\* writeWordToPageBuffer.
Patched(a, data, vt) ==
    CASE a = 0            -> addr2rjmp(Entry, 0)
      [] a = UsbVector    -> addr2rjmp(Isr, UsbVector)
      [] a = AppReset     -> JmpOpcode
      [] a = AppReset + 1 -> Target(vt[0])
      [] a = AppUsb       -> JmpOpcode
      [] a = AppUsb + 1   -> Target(vt[1] + UsbTableOffset)
      [] a = StoredOsccal -> Osccal
      [] OTHER            -> data

\* What usbFunctionWrite remembers when word a of the application passes; the
\* nop behind an rjmp and a blank word leave what the first word said.
Remembered(a, data) ==
    CASE a = 0         -> [vectorTemp EXCEPT ![0] = rjmp2addr(data, 0)]
      [] a = UsbVector -> [vectorTemp EXCEPT ![1] = rjmp2addr(data, UsbVectorNum)]
      [] a \in {1, UsbVector + 1} /\ data \notin {Nop, Blank} ->
            [vectorTemp EXCEPT ![IF a = 1 THEN 0 ELSE 1] = data.arg]
      [] OTHER         -> vectorTemp

Init ==
    /\ flash = [a \in AppWords |-> Blank]
    /\ pageBuffer = [o \in Offsets |-> Blank]
    /\ currentAddress = 0 /\ vectorTemp = [i \in {0, 1} |-> 0]
    /\ image \in Images
    /\ page = 0 /\ pc = "poll"

\* eraseApplication: everything, and then the vectors of page 0 alone.
Erase ==
    /\ pc = "poll"
    /\ flash' = [a \in AppWords |-> IF a < PageWords
                                    THEN Patched(a, Blank, vectorTemp) ELSE Blank]
    /\ currentAddress' = PageWords /\ pc' = "erased"
    /\ UNCHANGED <<pageBuffer, vectorTemp, image, page>>

SetupWrite ==
    /\ pc = "erased" /\ page < AppPages
    /\ currentAddress' = page * PageWords /\ pc' = "receive"
    /\ UNCHANGED <<flash, pageBuffer, vectorTemp, image, page>>

\* One turn of usbFunctionWrite's loop.
ReceiveWord ==
    /\ pc = "receive"
    /\ vectorTemp' = Remembered(currentAddress, image[currentAddress])
    /\ pageBuffer' = [pageBuffer EXCEPT ![currentAddress % PageWords] =
            Patched(currentAddress, image[currentAddress], vectorTemp')]
    /\ currentAddress' = currentAddress + 1
    /\ pc' = IF currentAddress' % PageWords = 0 THEN "write" ELSE pc
    /\ UNCHANGED <<flash, image, page>>

\* writeFlashPage: the page is blank but for the vectors in page 0, and those
\* are the words the buffer has too.
WritePage ==
    /\ pc = "write"
    /\ flash' = [a \in AppWords |-> IF a \div PageWords = page
                                    THEN pageBuffer[a % PageWords] ELSE flash[a]]
    /\ pageBuffer' = [o \in Offsets |-> Blank]
    /\ page' = page + 1 /\ pc' = "erased"
    /\ UNCHANGED <<currentAddress, vectorTemp, image>>

Leave ==
    /\ pc = "erased" /\ page = AppPages
    /\ pc' = "app"
    /\ UNCHANGED <<flash, pageBuffer, currentAddress, vectorTemp, image, page>>

AppRuns == pc = "app" /\ UNCHANGED vars

Next == Erase \/ SetupWrite \/ ReceiveWord \/ WritePage \/ Leave \/ AppRuns

Spec == Init /\ [][Next]_vars

\* Where the CPU goes from a vector at word a of f.
LeadsTo(f, a) ==
    IF f[a].op = "jmp" THEN f[a + 1].arg % FlashWords
    ELSE LET back == IF f[a].arg < Reach \div 2 THEN 0 ELSE Reach
         IN  (f[a].arg - back + a + 1) % FlashWords

\* bootloader.c:148: "second element is the applications interrupt vector for
\* vUSB".  The tiny table leads where the vectors of the application led.
TableLeadsToApp ==
    pc = "app" =>
        /\ LeadsTo(flash, AppReset) = LeadsTo(image, 0)
        /\ LeadsTo(flash, AppUsb) = LeadsTo(image, UsbVector)

=============================================================================
