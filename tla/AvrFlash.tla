------------------------------ MODULE AvrFlash ------------------------------
(***************************************************************************)
(* The flash of an 8 KB AVR with two-byte vectors, in words, and what the  *)
(* CPU makes of it.  A word is split into its opcode nibble and its low    *)
(* bits, which is all the rjmp arithmetic of bootloader.c looks at.  Words *)
(* Entry and above are the bootloader; the three below Entry are the tiny  *)
(* table.  How flash is erased, programmed and executed is the AVR's, seen *)
(* from how firmware/bootloader.c uses it.                                 *)
(***************************************************************************)
EXTENDS Integers

CONSTANTS
    PageWords,     \* SPM_PAGESIZE / 2
    AppPages,      \* pages below BOOTLOADER_ENTRY
    UsbVector,     \* USB_INTR_VECTOR_NUM: word of the USB interrupt vector
    FlashWords     \* words of flash; the reach of an rjmp

(***************************************************************************)
(* Flash words.                                                            *)
(***************************************************************************)
Opcodes  == {"blank", "rjmp", "app", "osccal", "boot", "mixed"}
LowBits  == 0 .. FlashWords - 1
Word     == [op : Opcodes, arg : LowBits]
Blank    == [op |-> "blank",  arg |-> FlashWords - 1]   \* 0xFFFF
BootCode == [op |-> "boot",   arg |-> 0]
Osccal   == [op |-> "osccal", arg |-> 0]
Mixed    == [op |-> "mixed",  arg |-> 0]   \* two different words ANDed

Addresses    == 0 .. FlashWords - 1
Offsets      == 0 .. PageWords - 1
Entry        == AppPages * PageWords   \* BOOTLOADER_ENTRY
Isr          == Entry + 1              \* BOOTLOADER_INTERRUPT
AppReset     == Entry - 3              \* BOOTLOADER_ADDRESS
AppUsb       == Entry - 2
StoredOsccal == Entry - 1
AppWords     == 0 .. Entry - 1

PageOf(a)   == a \div PageWords
OffsetOf(a) == a % PageWords

ASSUME GeometryAssumption ==
    /\ PageWords \in Nat /\ PageWords >= 3
    /\ AppPages \in Nat /\ AppPages >= 2
    /\ UsbVector \in 1 .. PageWords - 1
    /\ FlashWords \in Nat /\ FlashWords > Isr

(***************************************************************************)
(* Instructions, relocation and the AVR's flash (external hardware).       *)
(***************************************************************************)
\* Programming only clears bits.
And(x, y) == IF x = y \/ y = Blank THEN x
             ELSE IF x = Blank THEN y ELSE Mixed

EmptyBuffer == [o \in Offsets |-> Blank]   \* the temporary page buffer

addr2rjmp(addr, location) ==
    [op |-> "rjmp", arg |-> (addr - location - 1) % FlashWords]

rjmp2addr(word, location) == (word.arg + location + 1) % FlashWords

ToEntry == addr2rjmp(Entry, 0)
ToIsr   == addr2rjmp(Isr, UsbVector)

\* An erased word executes as a no-op: control slides to the next programmed
\* word, at the latest to __my_reset2 at Entry.
NextProgrammed(f, a) ==
    CHOOSE i \in a .. Entry :
        /\ f[i] # Blank
        /\ \A j \in a .. i - 1 : f[j] = Blank

\* Where control has gone once an rjmp met on the way was taken.
Landing(f, a) ==
    LET i == NextProgrammed(f, a)
    IN  IF f[i].op = "rjmp" THEN rjmp2addr(f[i], i) ELSE i

\* Where control ends up when no magic is on the stack: __wrap_vusb_intr
\* passes it to __app_usb_vector, and a jump to 0 takes the reset vector.
Destination(f, a) ==
    LET l == Landing(f, a)
        m == IF l = Isr THEN Landing(f, AppUsb) ELSE l
    IN  IF m = 0 THEN Landing(f, 0) ELSE m

\* The page operations, on flash f.
Erased(f, p) == [w \in Addresses |-> IF PageOf(w) = p THEN Blank ELSE f[w]]

Programmed(f, p, buffer) ==
    [w \in Addresses |-> IF PageOf(w) = p THEN And(f[w], buffer[OffsetOf(w)])
                         ELSE f[w]]

=============================================================================
