--------------------------- MODULE AvrFlashProofs ---------------------------
(***************************************************************************)
(* Lemmas about addresses, words and the path of the CPU through flash.    *)
(***************************************************************************)
EXTENDS AvrFlash, TLAPS

(***************************************************************************)
(* Addresses.                                                              *)
(***************************************************************************)
\* The bootloader starts after at least two pages and ends inside the flash.
LEMMA EntryFacts ==
    /\ Entry \in Nat
    /\ Entry >= 2 * PageWords
    /\ Entry >= 6
    /\ Entry + 1 < FlashWords
  BY GeometryAssumption, SMTT(20) DEF Entry, Isr

\* An address is its page times the page size plus its offset.
LEMMA AddressSplit ==
  ASSUME NEW a \in Int
  PROVE  /\ PageOf(a) \in Int
         /\ OffsetOf(a) \in Offsets
         /\ a = PageWords * PageOf(a) + OffsetOf(a)
  BY GeometryAssumption, SMTT(20) DEF PageOf, OffsetOf, Offsets

\* Multiplication by a natural number is monotonic.
LEMMA TimesMonotonic ==
  ASSUME NEW d \in Nat, NEW q \in Int, NEW r \in Int, q =< r
  PROVE  d * q =< d * r
  BY SMTT(20)

\* There is only one way to split an address.
LEMMA SplitUnique ==
  ASSUME NEW a \in Int, NEW q \in Int, NEW r \in Offsets,
         a = q * PageWords + r
  PROVE  PageOf(a) = q /\ OffsetOf(a) = r
PROOF
  <1> DEFINE x == PageOf(a)
             y == OffsetOf(a)
  <1>1. x \in Int /\ y \in Offsets /\ a = PageWords * x + y
    BY AddressSplit
  <1> HIDE DEF x, y
  <1>2. PageWords * (x - q) = r - y
    BY <1>1, GeometryAssumption, SMTT(20) DEF Offsets
  <1>3. x = q
    <2>1. ASSUME x >= q + 1 PROVE FALSE
      <3>1. PageWords * 1 =< PageWords * (x - q)
        BY <1>1, <2>1, TimesMonotonic, GeometryAssumption
      <3> QED BY <3>1, <1>1, <1>2, GeometryAssumption DEF Offsets
    <2>2. ASSUME x =< q - 1 PROVE FALSE
      <3>1. PageWords * (x - q) =< PageWords * (-1)
        BY <1>1, <2>2, TimesMonotonic, GeometryAssumption
      <3> QED BY <3>1, <1>1, <1>2, GeometryAssumption DEF Offsets
    <2> QED BY <2>1, <2>2, <1>1
  <1> QED BY <1>1, <1>2, <1>3, GeometryAssumption DEF x, y, Offsets

\* Page 0 is the words below PageWords.
LEMMA PageZero ==
  ASSUME NEW a \in Offsets
  PROVE  PageOf(a) = 0 /\ OffsetOf(a) = a
PROOF
  <1>1. a \in Int /\ 0 \in Int /\ a = 0 * PageWords + a
    BY GeometryAssumption DEF Offsets
  <1> QED BY <1>1, SplitUnique

\* A word is in one of the application's pages exactly when it lies below
\* the bootloader.
LEMMA PageBelowEntry ==
  ASSUME NEW a \in Int
  PROVE  PageOf(a) < AppPages <=> a < Entry
PROOF
  <1> DEFINE x == PageOf(a)
  <1>1. x \in Int /\ OffsetOf(a) \in Offsets
        /\ a = PageWords * x + OffsetOf(a)
    BY AddressSplit
  <1> HIDE DEF x
  <1>2. Entry = PageWords * AppPages
    BY GeometryAssumption DEF Entry
  <1>3. ASSUME x =< AppPages - 1 PROVE a < Entry
    <2>1. PageWords * x =< PageWords * (AppPages - 1)
      BY <1>1, <1>3, TimesMonotonic, GeometryAssumption
    <2>2. PageWords * (AppPages - 1) = Entry - PageWords
      BY <1>2, GeometryAssumption
    <2> QED BY <1>1, <2>1, <2>2, EntryFacts, GeometryAssumption DEF Offsets
  <1>4. ASSUME x >= AppPages PROVE a >= Entry
    <2>1. PageWords * AppPages =< PageWords * x
      BY <1>1, <1>4, TimesMonotonic, GeometryAssumption
    <2> QED BY <1>1, <1>2, <2>1, EntryFacts, GeometryAssumption DEF Offsets
  <1> QED BY <1>1, <1>3, <1>4, EntryFacts, GeometryAssumption DEF x

\* The remainder of a number below the modulus is the number.
LEMMA SmallRemainder ==
  ASSUME NEW m \in Nat, NEW x \in 0 .. m - 1
  PROVE  x % m = x
  BY SMTT(20)

(***************************************************************************)
(* Words.                                                                  *)
(***************************************************************************)
\* The constant words are words.
LEMMA WordsTyped ==
    /\ Blank \in Word /\ BootCode \in Word /\ Osccal \in Word /\ Mixed \in Word
    /\ EmptyBuffer \in [Offsets -> Word]
PROOF
  <1>1. 0 \in LowBits /\ FlashWords - 1 \in LowBits
    BY EntryFacts, GeometryAssumption DEF LowBits
  <1>2. Blank \in Word
    BY <1>1 DEF Word, Opcodes, Blank
  <1>3. BootCode \in Word /\ Osccal \in Word /\ Mixed \in Word
    BY <1>1 DEF Word, Opcodes, BootCode, Osccal, Mixed
  <1> QED BY <1>2, <1>3 DEF EmptyBuffer

\* The relocation operators return an rjmp and an address.
LEMMA RelocationTyped ==
  ASSUME NEW x \in Int, NEW location \in Int, NEW word \in Word
  PROVE  /\ addr2rjmp(x, location) \in Word
         /\ rjmp2addr(word, location) \in LowBits
PROOF
  <1>1. \A n \in Int : n % FlashWords \in LowBits
    BY EntryFacts, GeometryAssumption, SMTT(20) DEF LowBits
  <1>2. word.arg \in Int
    BY GeometryAssumption DEF Word, LowBits
  <1> QED BY <1>1, <1>2 DEF addr2rjmp, rjmp2addr, Word, Opcodes

\* The two vectors every image is given are words.
LEMMA VectorsTyped == ToEntry \in Word /\ ToIsr \in Word
PROOF
  <1>1. Entry \in Int /\ Isr \in Int /\ UsbVector \in Int
    BY EntryFacts, GeometryAssumption DEF Isr
  <1> QED BY <1>1, RelocationTyped, WordsTyped DEF ToEntry, ToIsr

\* Programming a word gives a word.
LEMMA AndTyped ==
  ASSUME NEW x \in Word, NEW y \in Word
  PROVE  And(x, y) \in Word
  BY WordsTyped DEF And

\* The page operations keep a flash image well-typed.
LEMMA PageOperationsTyped ==
  ASSUME NEW f \in [Addresses -> Word], NEW p \in Int,
         NEW buffer \in [Offsets -> Word]
  PROVE  /\ Erased(f, p) \in [Addresses -> Word]
         /\ Programmed(f, p, buffer) \in [Addresses -> Word]
PROOF
  <1>1. \A w \in Addresses : OffsetOf(w) \in Offsets
    BY AddressSplit, GeometryAssumption DEF Addresses
  <1>2. \A w \in Addresses : And(f[w], buffer[OffsetOf(w)]) \in Word
    BY <1>1, AndTyped
  <1> QED BY <1>2, WordsTyped DEF Erased, Programmed

(***************************************************************************)
(* Where the CPU goes.                                                     *)
(***************************************************************************)
\* Only the first programmed word matters.
LEMMA NextProgrammedIs ==
  ASSUME NEW f, NEW a \in Nat, NEW i \in a .. Entry, f[i] # Blank,
         \A j \in a .. i - 1 : f[j] = Blank
  PROVE  NextProgrammed(f, a) = i
PROOF
  <1> DEFINE P(k) == f[k] # Blank /\ \A j \in a .. k - 1 : f[j] = Blank
  <1>1. i \in a .. Entry /\ P(i)
    OBVIOUS
  <1>2. ASSUME NEW k \in a .. Entry, P(k) PROVE k = i
    <2>1. ~(k < i)
      BY <1>2, EntryFacts
    <2>2. ~(i < k)
      BY <1>2, EntryFacts
    <2> QED BY <2>1, <2>2, EntryFacts
  <1>3. NextProgrammed(f, a) = CHOOSE k \in a .. Entry : P(k)
    BY DEF NextProgrammed
  <1> HIDE DEF P
  <1> QED BY <1>1, <1>2, <1>3

\* The patched reset vector leads to the bootloader.
LEMMA ToEntryLands ==
  ASSUME NEW f, f[0] = ToEntry
  PROVE  Landing(f, 0) = Entry /\ Destination(f, 0) = Entry
PROOF
  <1>1. ToEntry.op = "rjmp" /\ ToEntry.arg = Entry - 1
    BY EntryFacts, SmallRemainder, GeometryAssumption DEF ToEntry, addr2rjmp
  <1>2. ToEntry # Blank
    BY <1>1 DEF Blank
  <1>3. NextProgrammed(f, 0) = 0
    BY <1>2, NextProgrammedIs, EntryFacts
  <1>4. rjmp2addr(ToEntry, 0) = Entry
    BY <1>1, EntryFacts, SmallRemainder, GeometryAssumption DEF rjmp2addr
  <1>5. Landing(f, 0) = Entry
    BY <1>1, <1>3, <1>4 DEF Landing
  <1> QED BY <1>5, EntryFacts DEF Destination, Isr

\* In a blank application area the CPU slides into __my_reset2, wherever it
\* starts: reset ends in the bootloader, a USB interrupt not in its handler.
LEMMA BlankLands ==
  ASSUME NEW f, NEW a \in AppWords, f[Entry] = BootCode,
         \A w \in AppWords : f[w] = Blank
  PROVE  Landing(f, a) = Entry /\ Destination(f, a) = Entry
PROOF
  <1>1. NextProgrammed(f, a) = Entry
    <2>1. BootCode # Blank
      BY DEF BootCode, Blank
    <2>2. a \in Nat /\ Entry \in a .. Entry
      BY EntryFacts DEF AppWords
    <2>3. \A j \in a .. Entry - 1 : f[j] = Blank
      BY <2>2, EntryFacts DEF AppWords
    <2> QED BY <2>1, <2>2, <2>3, NextProgrammedIs
  <1>2. Landing(f, a) = Entry
    BY <1>1 DEF Landing, BootCode
  <1> QED BY <1>2, EntryFacts DEF Destination, Isr

=============================================================================
