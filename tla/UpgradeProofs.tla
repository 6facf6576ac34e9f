---------------------------- MODULE UpgradeProofs ----------------------------
(***************************************************************************)
(* upgrade.c hands the device over: proofs for every layout and payload.   *)
(***************************************************************************)
EXTENDS Upgrade, AvrFlashProofs

(***************************************************************************)
(* Where things lie.                                                       *)
(***************************************************************************)
\* A page is below another when all its words are.
LEMMA PageBelow ==
  ASSUME NEW a \in Int, NEW p \in Int
  PROVE  PageOf(a) < p <=> a < p * PageWords
PROOF
  <1> DEFINE x == PageOf(a)
             y == OffsetOf(a)
  <1>1. x \in Int /\ y \in Offsets /\ a = PageWords * x + y
    BY AddressSplit
  <1> HIDE DEF x, y
  <1>2. ASSUME x =< p - 1 PROVE a < p * PageWords
    <2>1. PageWords * x =< PageWords * (p - 1)
      BY <1>1, <1>2, TimesMonotonic, GeometryAssumption
    <2>2. PageWords * (p - 1) = p * PageWords - PageWords
      BY GeometryAssumption, SMTT(20)
    <2> QED BY <1>1, <2>1, <2>2, GeometryAssumption DEF Offsets
  <1>3. ASSUME x >= p PROVE a >= p * PageWords
    <2>1. PageWords * p =< PageWords * x
      BY <1>1, <1>3, TimesMonotonic, GeometryAssumption
    <2>2. PageWords * p = p * PageWords
      BY GeometryAssumption, SMTT(20)
    <2> QED BY <1>1, <2>1, <2>2, GeometryAssumption DEF Offsets
  <1> QED BY <1>1, <1>2, <1>3, GeometryAssumption DEF x

\* The bounds of the parts of the flash.
LEMMA Layout ==
    /\ PageWords \in Nat /\ 0 < PageWords /\ PageWords =< UpgradeStart
    /\ UpgradeStart \in Nat /\ PayloadStart \in Nat
    /\ UpgradeStart < PayloadStart
    /\ TablePage \in Int /\ TableStart \in Int /\ TableStart =< AppReset
    /\ AppReset = Entry - 3 /\ Entry \in Nat /\ FlashWords \in Nat
    /\ OldWords \in Nat /\ 0 < OldWords /\ Entry + OldWords =< FlashWords
    /\ \A a \in Int : PageOf(a) \in Int /\ (PageOf(a) < TablePage <=> a < TableStart)
PROOF
  <1>1. AppReset \in Int /\ AppReset = Entry - 3
    BY EntryFacts DEF AppReset
  <1>2. TablePage \in Int
    BY <1>1, AddressSplit DEF TablePage
  <1>3. TableStart \in Int
    BY <1>2, GeometryAssumption DEF TableStart
  <1>4. \A a \in Int : PageOf(a) \in Int /\ (PageOf(a) < TablePage <=> a < TableStart)
    BY <1>2, PageBelow, AddressSplit DEF TableStart
  <1>5. TableStart =< AppReset
    <2>1. ~(PageOf(AppReset) < TablePage)
      BY <1>2 DEF TablePage
    <2> QED BY <2>1, <1>1, <1>3, <1>4
  <1> QED
    BY <1>1, <1>2, <1>3, <1>4, <1>5, EntryFacts, LayoutAssumption,
       GeometryAssumption

\* The bounds of what an upgrade program carries.
LEMMA Payload ==
  ASSUME NEW b \in Builds
  PROVE  /\ b.bootWords \in Nat /\ b.bootWords > 3
         /\ AppReset + b.bootWords =< FlashWords
         /\ b.vectorWords \in Nat /\ b.vectorWords =< UpgradeStart
         /\ PayloadVectorsEnd(b) \in Int
         /\ PayloadVectorsStart(b) = PayloadStart + b.bootWords
         /\ PayloadVectorsEnd(b) = PayloadStart + b.bootWords + b.vectorWords
         /\ PayloadVectorsEnd(b) =< TableStart
PROOF
  <1>1. /\ b.bootWords \in Nat /\ b.vectorWords \in Nat
        /\ b.bootWords > 3 /\ AppReset + b.bootWords <= FlashWords
        /\ b.vectorWords <= UpgradeStart
        /\ PayloadVectorsEnd(b) <= TableStart
    BY BuildAssumption
  <1>2. PayloadStart \in Nat
    BY LayoutAssumption
  <1> QED BY <1>1, <1>2 DEF PayloadVectorsEnd, PayloadVectorsStart

\* A page that starts below the program holds none of it.
LEMMA LowPages ==
  ASSUME NEW w \in Int, UpgradeStart =< w,
         NEW p \in Nat, p * PageWords < UpgradeStart
  PROVE  PageOf(w) # p
PROOF
  <1> DEFINE q == PageOf(UpgradeStart)
             n == p * PageWords
  <1>1. q \in Int /\ UpgradeStart = PageWords * q
    BY AddressSplit, LayoutAssumption, GeometryAssumption
  <1>2. n \in Int /\ PageOf(n) = p
    <2>1. n \in Int /\ 0 \in Offsets /\ n = p * PageWords + 0
      BY GeometryAssumption DEF Offsets
    <2> HIDE DEF n
    <2> QED BY <2>1, SplitUnique
  <1> HIDE DEF q
  <1>3. UpgradeStart = q * PageWords
    BY <1>1, GeometryAssumption, SMTT(20)
  <1>4. ~(PageOf(w) < q)
    BY <1>1, <1>3, PageBelow
  <1>5. p < q
    BY <1>2, <1>1, <1>3, PageBelow DEF n
  <1> QED BY <1>1, <1>4, <1>5, AddressSplit

\* The program lies behind page 0 and below the page of the tiny table.
LEMMA ProgramPages ==
  ASSUME NEW b \in Builds,
         NEW w \in UpgradeStart .. PayloadVectorsEnd(b) - 1
  PROVE  /\ w \in Addresses /\ w > UsbVector /\ w > 0 /\ w < AppReset
         /\ PageOf(w) < TablePage
PROOF
  <1>0. PayloadVectorsEnd(b) \in Int /\ PayloadVectorsEnd(b) =< TableStart
    BY Payload
  <1>1. w \in Int /\ UpgradeStart =< w /\ w < TableStart
    BY <1>0, Layout
  <1>2. w \in Addresses /\ w > UsbVector /\ w > 0 /\ w < AppReset
    BY <1>1, Layout, EntryFacts, GeometryAssumption DEF Addresses
  <1> QED BY <1>1, <1>2, Layout

(***************************************************************************)
(* The device when upgrade.hex has just been uploaded.                     *)
(***************************************************************************)
\* Code is a word that is neither blank nor a jump.
LEMMA CodeFacts == Code \in Word /\ Code # Blank /\ Code.op = "app"
PROOF
  <1>1. 0 \in LowBits
    BY EntryFacts, GeometryAssumption DEF LowBits
  <1> QED BY <1>1 DEF Code, Word, Opcodes, Blank

\* The payload is words, and its first one is the new table's reset entry.
LEMMA PayloadTyped ==
  ASSUME NEW b \in Builds
  PROVE  /\ \A k \in 0 .. b.bootWords - 1 : b.boot[k] \in Word
         /\ \A v \in 0 .. b.vectorWords - 1 : b.vectors[v] \in Word
         /\ b.boot[0] = addr2rjmp(Entry, AppReset)
         /\ b.vectorWords > 0 => b.vectors[0] = ToEntry
  BY BuildAssumption

\* What lies where.
LEMMA UploadedParts ==
  ASSUME NEW b \in Builds
  PROVE  LET f == UploadedFlash(b)
         IN  /\ f \in [Addresses -> Word]
             /\ f[UpgradeStart] = Code
             /\ \A k \in 0 .. b.bootWords - 1 : f[PayloadStart + k] = b.boot[k]
             /\ \A v \in 0 .. b.vectorWords - 1 :
                    f[PayloadVectorsStart(b) + v] = b.vectors[v]
             /\ f[0] = ToEntry /\ OldBootloader(f) /\ PaddingBlank(f)
             /\ f[AppReset] = addr2rjmp(UpgradeStart, AppReset)
PROOF
  <1> DEFINE f == UploadedFlash(b)
             s == PayloadVectorsStart(b)
             e == PayloadVectorsEnd(b)
  <1>1. /\ UpgradeStart \in Nat /\ PayloadStart \in Nat /\ UpgradeStart < PayloadStart
        /\ s \in Nat /\ e \in Nat /\ s = PayloadStart + b.bootWords
        /\ e = s + b.vectorWords /\ e =< AppReset
        /\ b.bootWords \in Nat /\ b.vectorWords \in Nat /\ b.bootWords > 3
    BY Layout, Payload
  <1>2. /\ PageWords \in Nat /\ UsbVector \in Nat /\ 0 < UsbVector
        /\ UsbVector < PageWords /\ PageWords =< UpgradeStart
        /\ AppReset = Entry - 3 /\ Entry \in Nat /\ FlashWords \in Nat
        /\ OldWords \in Nat /\ 0 < OldWords /\ Entry + OldWords =< FlashWords
    BY Layout, GeometryAssumption
  <1> HIDE DEF s, e
  <1>3. \A w \in Addresses :
          f[w] = CASE w = 0         -> ToEntry
                   [] w = UsbVector -> ToIsr
                   [] w \in UpgradeStart .. PayloadStart - 1 -> Code
                   [] w \in PayloadStart .. s - 1 -> b.boot[w - PayloadStart]
                   [] w \in s .. e - 1 -> b.vectors[w - s]
                   [] w = AppReset  -> addr2rjmp(UpgradeStart, AppReset)
                   [] w \in Entry .. Entry + OldWords - 1 -> BootCode
                   [] OTHER         -> Blank
    BY DEF UploadedFlash, s, e
  <1>4. \A w \in Addresses : w \in Int /\ 0 =< w /\ w < FlashWords
    BY <1>2 DEF Addresses
  <1>5. \A w \in 0 .. FlashWords - 1 : w \in Addresses
    BY DEF Addresses
  <1> HIDE DEF f
  <1>6. f[0] = ToEntry
    BY <1>1, <1>2, <1>3, <1>5
  <1>7. f[UpgradeStart] = Code
    <2>1. UpgradeStart \in Addresses
      BY <1>1, <1>2, <1>5
    <2> QED BY <1>1, <1>2, <1>3, <2>1
  <1>8. ASSUME NEW k \in 0 .. b.bootWords - 1
        PROVE  f[PayloadStart + k] = b.boot[k]
    <2> DEFINE w == PayloadStart + k
    <2>1. w \in Addresses /\ w \in PayloadStart .. s - 1 /\ w - PayloadStart = k
      BY <1>1, <1>2, <1>5
    <2>2. /\ w # 0 /\ w # UsbVector /\ w \notin UpgradeStart .. PayloadStart - 1
          /\ w \notin s .. e - 1 /\ w # AppReset
          /\ w \notin Entry .. Entry + OldWords - 1
      BY <1>1, <1>2
    <2> HIDE DEF w
    <2> QED BY <1>3, <2>1, <2>2 DEF w
  <1>9. ASSUME NEW v \in 0 .. b.vectorWords - 1
        PROVE  f[s + v] = b.vectors[v]
    <2> DEFINE w == s + v
    <2>1. w \in Addresses /\ w \in s .. e - 1 /\ w - s = v
      BY <1>1, <1>2, <1>5
    <2>2. /\ w # 0 /\ w # UsbVector /\ w \notin UpgradeStart .. PayloadStart - 1
          /\ w \notin PayloadStart .. s - 1 /\ w # AppReset
          /\ w \notin Entry .. Entry + OldWords - 1
      BY <1>1, <1>2
    <2> HIDE DEF w
    <2> QED BY <1>3, <2>1, <2>2 DEF w
  <1>10. f[AppReset] = addr2rjmp(UpgradeStart, AppReset)
    <2>1. /\ AppReset \in Addresses /\ AppReset # 0 /\ AppReset # UsbVector
          /\ AppReset \notin UpgradeStart .. PayloadStart - 1
          /\ AppReset \notin PayloadStart .. s - 1 /\ AppReset \notin s .. e - 1
          /\ AppReset \notin Entry .. Entry + OldWords - 1
      BY <1>1, <1>2, <1>5
    <2> QED BY <1>3, <2>1
  <1>11. OldBootloader(f)
    <2> SUFFICES ASSUME NEW w \in Entry .. Entry + OldWords - 1
                 PROVE  f[w] = BootCode
      BY DEF OldBootloader
    <2>1. /\ w \in Addresses /\ w # 0 /\ w # UsbVector
          /\ w \notin UpgradeStart .. PayloadStart - 1
          /\ w \notin PayloadStart .. s - 1 /\ w \notin s .. e - 1
          /\ w # AppReset
      BY <1>1, <1>2, <1>5
    <2> QED BY <1>3, <2>1
  <1>12. PaddingBlank(f)
    <2> SUFFICES ASSUME NEW w \in PageWords .. UpgradeStart - 1
                 PROVE  f[w] = Blank
      BY DEF PaddingBlank
    <2>1. /\ w \in Addresses /\ w # 0 /\ w # UsbVector
          /\ w \notin UpgradeStart .. PayloadStart - 1
          /\ w \notin PayloadStart .. s - 1 /\ w \notin s .. e - 1
          /\ w # AppReset /\ w \notin Entry .. Entry + OldWords - 1
      BY <1>1, <1>2, <1>5
    <2> QED BY <1>3, <2>1
  <1>13. f \in [Addresses -> Word]
    <2>0. UpgradeStart \in Int /\ AppReset \in Int
      BY <1>1, <1>2
    <2>1. addr2rjmp(UpgradeStart, AppReset) \in Word
      BY <2>0, RelocationTyped, WordsTyped
    <2>2. ASSUME NEW w \in Addresses PROVE f[w] \in Word
      <3>1. w \in PayloadStart .. s - 1 => b.boot[w - PayloadStart] \in Word
        BY <1>1, <1>4, PayloadTyped
      <3>2. w \in s .. e - 1 => b.vectors[w - s] \in Word
        BY <1>1, <1>4, PayloadTyped
      <3> QED BY <1>3, <2>1, <3>1, <3>2, CodeFacts, WordsTyped, VectorsTyped
    <2>3. f = [w \in Addresses |-> f[w]]
      BY DEF f, UploadedFlash
    <2> QED BY <2>2, <2>3
  <1> QED
    BY <1>6, <1>7, <1>8, <1>9, <1>10, <1>11, <1>12, <1>13 DEF f, s

(***************************************************************************)
(* Who is in charge.                                                       *)
(***************************************************************************)
\* Remainders of the small negative numbers a backward jump has.
LEMMA NegativeRemainder ==
  ASSUME NEW m \in Nat, m > 0, NEW x \in (-m) .. (-1)
  PROVE  x % m = x + m
  BY SMTT(20)

\* The two reset entries a tiny table may have here are different words.
LEMMA EntriesDiffer ==
  addr2rjmp(UpgradeStart, AppReset) # addr2rjmp(Entry, AppReset)
PROOF
  <1>1. /\ UpgradeStart \in Nat /\ AppReset = Entry - 3 /\ Entry \in Nat
        /\ FlashWords \in Nat /\ Entry + 1 < FlashWords /\ UpgradeStart < AppReset
        /\ Entry >= 6
    <2>1. UpgradeStart < AppReset
      <3>1. PICK b \in Builds : TRUE
        BY LayoutAssumption
      <3> QED BY <3>1, Layout, Payload
    <2> QED BY <2>1, Layout, EntryFacts
  <1>2. Entry - AppReset - 1 = 2 /\ 2 % FlashWords = 2
    BY <1>1, SmallRemainder
  <1> DEFINE d == UpgradeStart - AppReset - 1
  <1>3. d \in (-FlashWords) .. (-1) /\ d + FlashWords # 2
    BY <1>1
  <1>4. d % FlashWords = d + FlashWords
    <2> HIDE DEF d
    <2> QED BY <1>1, <1>3, NegativeRemainder
  <1> QED BY <1>2, <1>3, <1>4 DEF addr2rjmp

\* A jump at the reset vector is taken.
LEMMA JumpLands ==
  ASSUME NEW f, NEW x \in 1 .. Entry, f[0] = addr2rjmp(x, 0)
  PROVE  Landing(f, 0) = x
PROOF
  <1>1. x - 0 - 1 = x - 1 /\ x - 1 \in 0 .. FlashWords - 1 /\ FlashWords \in Nat
        /\ x \in 0 .. FlashWords - 1
    BY EntryFacts, GeometryAssumption
  <1>2. f[0].op = "rjmp" /\ f[0].arg = x - 1
    BY <1>1, SmallRemainder DEF addr2rjmp
  <1>3. f[0] # Blank
    BY <1>2 DEF Blank
  <1>4. NextProgrammed(f, 0) = 0
    BY <1>3, NextProgrammedIs, EntryFacts
  <1>5. x - 1 + 0 + 1 = x
    BY <1>1
  <1>6. rjmp2addr(f[0], 0) = x
    BY <1>1, <1>2, <1>5, SmallRemainder DEF rjmp2addr
  <1> QED BY <1>2, <1>4, <1>6 DEF Landing

\* The program's first word tells where control slides to.
LEMMA IntactStarts ==
  ASSUME NEW f, build \in Builds, UpgradeIntact(f)
  PROVE  f[UpgradeStart] = Code
PROOF
  <1>1. UpgradeStart \in UpgradeStart .. PayloadVectorsEnd(build) - 1
    BY Layout, Payload
  <1> QED BY <1>1, UploadedParts DEF UpgradeIntact

\* Each kind of flash contents runs what it should.
LEMMA UpgradeRuns ==
  ASSUME NEW f, build \in Builds, UpgradeIntact(f), UpgradeInCharge(f)
  PROVE  Landing(f, 0) = UpgradeStart /\ ResetRuns(f) = "upgrade"
PROOF
  <1>1. UpgradeStart \in 1 .. Entry
    BY Layout, Payload
  <1>2. CASE f[0] = ToUpgrade
    BY <1>1, <1>2, JumpLands DEF ToUpgrade, ResetRuns
  <1>3. CASE PageBlank(f, 0)
    <2>1. \A j \in 0 .. UpgradeStart - 1 : f[j] = Blank
      <3> TAKE j \in 0 .. UpgradeStart - 1
      <3>1. CASE j < PageWords
        <4>1. j \in Offsets /\ j \in Addresses
          BY <3>1, <1>1, EntryFacts, GeometryAssumption DEF Offsets, Addresses
        <4> QED BY <4>1, <1>3, PageZero DEF PageBlank
      <3>2. CASE j >= PageWords
        BY <3>2, <1>1 DEF UpgradeInCharge, PaddingBlank
      <3> QED BY <3>1, <3>2, <1>1, GeometryAssumption
    <2>2. f[UpgradeStart] # Blank /\ f[UpgradeStart].op # "rjmp"
      BY IntactStarts, CodeFacts
    <2>3. NextProgrammed(f, 0) = UpgradeStart
      BY <1>1, <2>1, <2>2, NextProgrammedIs
    <2> QED BY <2>2, <2>3 DEF Landing, ResetRuns
  <1> QED BY <1>2, <1>3 DEF UpgradeInCharge

LEMMA NewRuns ==
  ASSUME NEW f, build \in Builds, NewInCharge(f)
  PROVE  ResetRuns(f) = "new" /\ Landing(f, AppReset) # UpgradeStart
PROOF
  <1>1. Landing(f, 0) = Entry /\ Entry # UpgradeStart
    BY ToEntryLands, Layout, Payload DEF NewInCharge
  <1>2. ResetRuns(f) = "new"
    BY <1>1 DEF ResetRuns, NewInCharge
  <1>3. f[AppReset] = addr2rjmp(Entry, AppReset)
    <2>1. 0 \in 0 .. build.bootWords - 1 /\ AppReset + 0 = AppReset
      BY Payload, Layout
    <2> QED BY <2>1, PayloadTyped DEF NewInCharge, NewBootloader
  <1>4. /\ Entry - AppReset - 1 = 2 /\ 2 % FlashWords = 2
        /\ 2 + AppReset + 1 = Entry /\ Entry % FlashWords = Entry
        /\ AppReset \in Nat /\ AppReset < Entry
    <2>1. AppReset = Entry - 3 /\ Entry \in Nat /\ Entry + 1 < FlashWords
          /\ Entry >= 6 /\ FlashWords \in Nat
      BY Layout, EntryFacts
    <2> QED BY <2>1, SmallRemainder
  <1>5. f[AppReset].op = "rjmp" /\ rjmp2addr(f[AppReset], AppReset) = Entry
    BY <1>3, <1>4 DEF addr2rjmp, rjmp2addr
  <1>6. NextProgrammed(f, AppReset) = AppReset
    <2>1. f[AppReset] # Blank
      BY <1>5 DEF Blank
    <2>2. AppReset \in AppReset .. Entry /\ \A j \in AppReset .. AppReset - 1 : f[j] = Blank
      BY <1>4, Layout
    <2> QED BY <2>1, <2>2, <1>4, NextProgrammedIs
  <1> QED BY <1>1, <1>2, <1>5, <1>6 DEF Landing

LEMMA OldRuns ==
  ASSUME NEW f, build \in Builds, OldInCharge(f)
  PROVE  ResetRuns(f) = "old"
PROOF
  <1>1. Landing(f, 0) = Entry /\ Entry # UpgradeStart
    BY ToEntryLands, Layout, Payload DEF OldInCharge
  <1>2. ~NewBootloader(f)
    <2>1. 0 \in 0 .. build.bootWords - 1 /\ AppReset + 0 = AppReset
      BY Payload, Layout
    <2> QED BY <2>1, PayloadTyped, EntriesDiffer DEF OldInCharge, NewBootloader
  <1> QED BY <1>1, <1>2 DEF ResetRuns, OldInCharge

(***************************************************************************)
(* Types and the initial state.                                            *)
(***************************************************************************)
LEMMA InitUpgradeTyped == Init => UpgradeTypeOK
PROOF
  <1> SUFFICES ASSUME Init PROVE UpgradeTypeOK
    OBVIOUS
  <1>1. flash \in [Addresses -> Word]
    BY UploadedParts DEF Init
  <1>2. words \in [Offsets -> Word] /\ pageBuffer \in [Offsets -> Word]
    BY WordsTyped DEF Init
  <1> QED BY <1>1, <1>2 DEF Init, UpgradeTypeOK, Stages

\* The page that is put together and the page buffer hold words.
LEMMA BuffersTyped ==
  ASSUME UpgradeTypeOK
  PROVE  /\ FilledBuffer \in [Offsets -> Word]
         /\ \A p \in Int : Erased(flash, p) \in [Addresses -> Word]
         /\ \A p \in Int : Programmed(flash, p, FilledBuffer) \in [Addresses -> Word]
         /\ PendingFlash \in [Addresses -> Word]
PROOF
  <1>1. FilledBuffer \in [Offsets -> Word]
    BY AndTyped DEF FilledBuffer, UpgradeTypeOK
  <1>2. /\ \A p \in Int : Erased(flash, p) \in [Addresses -> Word]
        /\ \A p \in Int : Programmed(flash, p, FilledBuffer) \in [Addresses -> Word]
    BY <1>1, PageOperationsTyped DEF UpgradeTypeOK
  <1>3. page \in Int /\ flash \in [Addresses -> Word]
    BY DEF UpgradeTypeOK
  <1> QED BY <1>1, <1>2, <1>3 DEF PendingFlash

\* Read from an intact payload, the new words are words.
LEMMA NewWordsTyped ==
  ASSUME UpgradeTypeOK, UpgradeIntact(flash)
  PROVE  /\ \A w \in Int : NewWord(w) = NewContents(w) /\ NewWord(w) \in Word
         /\ \A w \in Nat : ForwardedWord(w) \in Word
         /\ ForwardedWord(0) = ToEntry
PROOF
  <1> DEFINE s == PayloadVectorsStart(build)
             e == PayloadVectorsEnd(build)
  <1>1. /\ build \in Builds /\ build.bootWords \in Nat /\ build.vectorWords \in Nat
        /\ AppReset \in Int /\ PayloadStart \in Nat /\ UpgradeStart \in Nat
        /\ UpgradeStart < PayloadStart
        /\ s = PayloadStart + build.bootWords /\ e = s + build.vectorWords
    BY Layout, Payload DEF UpgradeTypeOK
  <1> HIDE DEF s, e
  <1>2. ASSUME NEW k \in 0 .. build.bootWords - 1
        PROVE  flash[PayloadStart + k] = build.boot[k]
    <2>1. PayloadStart + k \in UpgradeStart .. e - 1
      BY <1>1
    <2> QED BY <1>1, <2>1, UploadedParts DEF UpgradeIntact, e
  <1>3. ASSUME NEW v \in 0 .. build.vectorWords - 1
        PROVE  flash[s + v] = build.vectors[v]
    <2>1. s + v \in UpgradeStart .. e - 1
      BY <1>1
    <2> QED BY <1>1, <2>1, UploadedParts DEF UpgradeIntact, e, s
  <1>4. ASSUME NEW w \in Int
        PROVE  NewWord(w) = NewContents(w) /\ NewWord(w) \in Word
    <2>1. CASE w \in AppReset .. AppReset + build.bootWords - 1
      <3>1. w - AppReset \in 0 .. build.bootWords - 1
            /\ PayloadStart + w - AppReset = PayloadStart + (w - AppReset)
        BY <1>1, <2>1
      <3> QED BY <1>1, <1>2, <2>1, <3>1, PayloadTyped DEF NewWord, NewContents
    <2>2. CASE w \notin AppReset .. AppReset + build.bootWords - 1
      BY <2>2, WordsTyped DEF NewWord, NewContents
    <2> QED BY <2>1, <2>2
  <1>5. ASSUME NEW w \in Nat, w < build.vectorWords
        PROVE  flash[s + w] = build.vectors[w] /\ build.vectors[w] \in Word
    <2>1. w \in 0 .. build.vectorWords - 1
      BY <1>1, <1>5
    <2> QED BY <1>1, <1>3, <2>1, PayloadTyped
  <1>6. ASSUME NEW w \in Nat PROVE ForwardedWord(w) \in Word
    <2>1. CASE w < build.vectorWords
      <3>1. build.vectorWords # 0
        BY <1>1, <2>1
      <3> QED BY <1>5, <2>1, <3>1 DEF ForwardedWord, s
    <2>2. CASE ~(w < build.vectorWords)
      BY <2>2, VectorsTyped, WordsTyped DEF ForwardedWord
    <2> QED BY <2>1, <2>2
  <1>7. ForwardedWord(0) = ToEntry
    <2>1. CASE build.vectorWords = 0
      <3>1. UsbVector # 0
        BY GeometryAssumption
      <3> QED BY <2>1, <3>1 DEF ForwardedWord
    <2>2. CASE build.vectorWords # 0
      <3>1. 0 < build.vectorWords
        BY <1>1, <2>2
      <3>2. build.vectors[0] = ToEntry
        BY <1>1, <3>1, PayloadTyped
      <3> QED BY <1>5, <2>2, <3>1, <3>2 DEF ForwardedWord, s
    <2> QED BY <2>1, <2>2
  <1> QED BY <1>4, <1>6, <1>7

LEMMA InitUpgradeInv == Init => UpgradeInv
PROOF
  <1> SUFFICES ASSUME Init PROVE UpgradeInv
    OBVIOUS
  <1>1. UpgradeIntact(flash)
    BY DEF Init, UpgradeIntact
  <1>2. OldInCharge(flash)
    BY UploadedParts DEF Init, OldInCharge
  <1> QED BY <1>1, <1>2 DEF Init, UpgradeInv, PageInPlace, AtBootloader,
             AtSecure, AtReplace, AtForward, AtReboot

LEMMA UpgradeNextTyped ==
  UpgradeTypeOK /\ UpgradeInv /\ [Next]_vars => UpgradeTypeOK'
PROOF
  <1> SUFFICES ASSUME UpgradeTypeOK, UpgradeInv, [Next]_vars
               PROVE  UpgradeTypeOK'
    OBVIOUS
  <1>0. UpgradeIntact(flash)
    BY DEF UpgradeInv
  <1>1. StageAt(flash') \in Stages /\ StageAt(flash) \in Stages
    BY DEF StageAt, Stages
  <1>2. TablePage \in Nat
    <2>1. 0 =< AppReset /\ AppReset \in Int
      BY EntryFacts, Layout
    <2>2. ~(PageOf(AppReset) < 0)
      BY <2>1, PageBelow, GeometryAssumption
    <2> QED BY <2>1, <2>2, Layout DEF TablePage
  <1>3. CASE StartUpgrade
    <2>1. \A left \in {Blank, Code} :
            [EmptyBuffer EXCEPT ![0] = left] \in [Offsets -> Word]
      BY WordsTyped, CodeFacts
    <2> QED BY <1>3, <2>1 DEF StartUpgrade, UpgradeTypeOK, Stages
  <1>4. ASSUME NEW ws \in [Offsets -> Word], erase_page(ws)
        PROVE  UpgradeTypeOK'
    BY <1>4, BuffersTyped DEF erase_page, UpgradeTypeOK
  <1>5. CASE SecureErase
    <2>1. /\ ToUpgrade \in Word
          /\ [op |-> "app", arg |-> build.vectorWords] \in Word
          /\ \A o \in Offsets : o \in Addresses
      <3>1. UpgradeStart \in Int /\ 0 \in Int
        BY Layout
      <3>2. build.vectorWords \in LowBits
        BY Layout, Payload, EntryFacts DEF UpgradeTypeOK, LowBits
      <3>3. \A o \in Offsets : o \in Addresses
        BY EntryFacts, GeometryAssumption DEF Offsets, Addresses
      <3> QED
        BY <3>1, <3>2, <3>3, RelocationTyped, WordsTyped
        DEF ToUpgrade, Word, Opcodes
    <2>2. SecuredTable \in [Offsets -> Word]
      BY <2>1 DEF SecuredTable, UpgradeTypeOK
    <2> QED BY <1>4, <1>5, <2>2 DEF SecureErase
  <1>6. ASSUME NEW p \in Nat, NEW o \in Offsets
        PROVE  p * PageWords + o \in Nat
    BY GeometryAssumption, SMTT(20) DEF Offsets
  <1>7. CASE ReplaceErase
    <2>1. [o \in Offsets |-> NewWord(page * PageWords + o)] \in [Offsets -> Word]
      BY <1>0, <1>6, NewWordsTyped DEF UpgradeTypeOK
    <2> QED BY <1>4, <1>7, <2>1 DEF ReplaceErase
  <1>8. CASE ForwardErase
    <2>1. [o \in Offsets |-> ForwardedWord(page * PageWords + o)] \in [Offsets -> Word]
      BY <1>0, <1>6, NewWordsTyped DEF UpgradeTypeOK
    <2> QED BY <1>4, <1>8, <2>1 DEF ForwardErase
  <1>9. CASE SecureWrite \/ ReplaceWrite \/ ForwardWrite
    <2>1. page' \in Nat /\ pc' \in Stages
      BY <1>2, <1>9 DEF SecureWrite, ReplaceWrite, ForwardWrite, UpgradeTypeOK, Stages
    <2>2. write_page
      BY <1>9 DEF SecureWrite, ReplaceWrite, ForwardWrite
    <2>3. page \in Int
      BY DEF UpgradeTypeOK
    <2>4. flash' \in [Addresses -> Word]
      BY <2>2, <2>3, BuffersTyped DEF write_page
    <2> QED BY <2>1, <2>2, <2>4, WordsTyped DEF write_page, UpgradeTypeOK
  <1>10. CASE Reboot
    BY <1>1, <1>10 DEF Reboot, UpgradeTypeOK
  <1>11. CASE PowerCycle
    <2>1. flash' \in [Addresses -> Word]
      BY <1>11, BuffersTyped DEF PowerCycle, UpgradeTypeOK
    <2>2. unsafe' \in BOOLEAN
      BY <1>11 DEF PowerCycle, UpgradeTypeOK
    <2> QED BY <1>1, <1>11, <2>1, <2>2, WordsTyped DEF PowerCycle, UpgradeTypeOK
  <1>12. CASE PowerIsSteady
    BY <1>12 DEF PowerIsSteady, UpgradeTypeOK
  <1>13. CASE UNCHANGED vars
    BY <1>13 DEF vars, UpgradeTypeOK
  <1> QED
    BY <1>3, <1>5, <1>7, <1>8, <1>9, <1>10, <1>11, <1>12, <1>13
    DEF Next, Program, Idle

(***************************************************************************)
(* The invariant.                                                          *)
(***************************************************************************)
\* Only page p differs.
Agree(f, g, p) == \A w \in Addresses : PageOf(w) # p => g[w] = f[w]

\* Page operations on the bootloader's pages leave page 0, the padding and
\* the upgrade program alone.
LEMMA HighAgree ==
  ASSUME build \in Builds, NEW f, NEW g, NEW p \in Int, p >= TablePage,
         Agree(f, g, p)
  PROVE  /\ UpgradeIntact(f) => UpgradeIntact(g)
         /\ PaddingBlank(f) => PaddingBlank(g)
         /\ g[0] = f[0]
PROOF
  <1>1. ASSUME NEW w \in Int, 0 =< w, w < TableStart PROVE g[w] = f[w]
    <2>1. w \in Addresses /\ PageOf(w) # p
      BY <1>1, Layout, EntryFacts DEF Addresses
    <2> QED BY <2>1 DEF Agree
  <1>2. 0 =< UpgradeStart /\ UpgradeStart \in Nat /\ UpgradeStart < TableStart
    BY Layout, Payload
  <1>3. \A w \in UpgradeStart .. PayloadVectorsEnd(build) - 1 : g[w] = f[w]
    <2>1. PayloadVectorsEnd(build) \in Int /\ PayloadVectorsEnd(build) =< TableStart
      BY Payload
    <2> QED BY <1>1, <1>2, <2>1, Layout
  <1>4. \A w \in PageWords .. UpgradeStart - 1 : g[w] = f[w]
    BY <1>1, <1>2, Layout
  <1>5. g[0] = f[0]
    BY <1>1, <1>2, Layout
  <1> QED BY <1>3, <1>4, <1>5 DEF UpgradeIntact, PaddingBlank

\* Page operations on the pages of the vectors leave program and bootloader
\* alone, and page 0 or the padding.
LEMMA LowAgree ==
  ASSUME build \in Builds, NEW f, NEW g, NEW p \in Nat,
         p * PageWords < UpgradeStart, Agree(f, g, p)
  PROVE  /\ UpgradeIntact(f) => UpgradeIntact(g)
         /\ NewBootloader(f) => NewBootloader(g)
         /\ p = 0 /\ PaddingBlank(f) => PaddingBlank(g)
         /\ p > 0 => g[0] = f[0]
PROOF
  <1>1. ASSUME NEW w \in Addresses, UpgradeStart =< w PROVE g[w] = f[w]
    <2>1. w \in Int
      BY DEF Addresses
    <2> QED BY <1>1, <2>1, LowPages DEF Agree
  <1>2. \A w \in UpgradeStart .. PayloadVectorsEnd(build) - 1 : g[w] = f[w]
    <2> TAKE w \in UpgradeStart .. PayloadVectorsEnd(build) - 1
    <2>1. w \in Addresses /\ UpgradeStart =< w
      BY ProgramPages, Payload, Layout
    <2> QED BY <2>1, <1>1
  <1>3. \A k \in 0 .. build.bootWords - 1 : g[AppReset + k] = f[AppReset + k]
    <2> TAKE k \in 0 .. build.bootWords - 1
    <2>1. AppReset + k \in Addresses /\ UpgradeStart =< AppReset + k
      BY Payload, Layout, EntryFacts DEF Addresses
    <2> QED BY <2>1, <1>1
  <1>4. ASSUME p = 0, NEW w \in PageWords .. UpgradeStart - 1 PROVE g[w] = f[w]
    <2>1. w \in Addresses /\ w \in Int /\ ~(w < 1 * PageWords)
      BY Layout, Payload, EntryFacts DEF Addresses
    <2>2. ~(PageOf(w) < 1)
      BY <2>1, PageBelow
    <2> QED BY <1>4, <2>1, <2>2 DEF Agree
  <1>5. ASSUME p > 0 PROVE g[0] = f[0]
    <2>1. 0 \in Addresses /\ 0 \in Offsets
      BY EntryFacts, GeometryAssumption DEF Addresses, Offsets
    <2> QED BY <1>5, <2>1, PageZero DEF Agree
  <1> QED
    BY <1>2, <1>3, <1>4, <1>5 DEF UpgradeIntact, NewBootloader, PaddingBlank

\* What a page operation does, on page p alone.
LEMMA PageResults ==
  ASSUME UpgradeTypeOK, NEW p \in Int
  PROVE  /\ Agree(flash, Erased(flash, p), p) /\ PageBlank(Erased(flash, p), p)
         /\ Agree(flash, Programmed(flash, p, FilledBuffer), p)
         /\ PageBlank(flash, p) /\ pageBuffer = EmptyBuffer =>
              \A w \in Addresses : PageOf(w) = p =>
                Programmed(flash, p, FilledBuffer)[w] = words[OffsetOf(w)]
PROOF
  <1>1. \A w \in Addresses : OffsetOf(w) \in Offsets
    BY AddressSplit, GeometryAssumption DEF Addresses
  <1>2. \A y : And(Blank, y) = y
    BY DEF And
  <1>3. Agree(flash, Erased(flash, p), p) /\ PageBlank(Erased(flash, p), p)
    BY DEF Agree, PageBlank, Erased
  <1>4. Agree(flash, Programmed(flash, p, FilledBuffer), p)
    BY DEF Agree, Programmed
  <1>5. ASSUME PageBlank(flash, p), pageBuffer = EmptyBuffer,
               NEW w \in Addresses, PageOf(w) = p
        PROVE  Programmed(flash, p, FilledBuffer)[w] = words[OffsetOf(w)]
    <2>1. FilledBuffer[OffsetOf(w)] = words[OffsetOf(w)]
      BY <1>1, <1>2, <1>5 DEF FilledBuffer, EmptyBuffer
    <2>2. flash[w] = Blank
      BY <1>5 DEF PageBlank
    <2> QED BY <1>2, <1>5, <2>1, <2>2 DEF Programmed
  <1> QED BY <1>3, <1>4, <1>5

\* Page 0 begins with word 0.
LEMMA WordZeroInPageZero ==
  0 \in Addresses /\ PageOf(0) = 0 /\ OffsetOf(0) = 0 /\ 0 \in Offsets
PROOF
  <1>1. 0 \in Addresses /\ 0 \in Offsets
    BY EntryFacts, GeometryAssumption DEF Addresses, Offsets
  <1> QED BY <1>1, PageZero

\* The new bootloader is complete when its last page has been written.
LEMMA AllWritten ==
  ASSUME UpgradeTypeOK, WrittenBelow(LastPage + 1)
  PROVE  NewBootloader(flash)
PROOF
  <1> SUFFICES ASSUME NEW k \in 0 .. build.bootWords - 1
               PROVE  flash[AppReset + k] = build.boot[k]
    BY DEF NewBootloader
  <1> DEFINE w == AppReset + k
             n == AppReset + build.bootWords - 1
  <1>1. /\ AppReset \in Int /\ w \in Int /\ n \in Int /\ w =< n
        /\ w \in Addresses /\ AppReset =< w /\ w - AppReset = k
        /\ w \in AppReset .. n
    <2>1. /\ build.bootWords \in Nat /\ build.bootWords > 3
          /\ AppReset + build.bootWords =< FlashWords
      BY Payload DEF UpgradeTypeOK
    <2> QED BY <2>1, Layout, EntryFacts DEF Addresses
  <1> HIDE DEF w
  <1>2. PageOf(w) >= TablePage
    <2>1. ~(w < TableStart)
      BY <1>1, Layout
    <2> QED BY <1>1, <2>1, Layout
  <1>3. PageOf(w) =< LastPage
    <2>1. LastPage \in Int /\ LastPage = PageOf(n)
      BY <1>1, AddressSplit DEF LastPage
    <2>2. LastPage < LastPage + 1 /\ LastPage + 1 \in Int
      BY <2>1
    <2>3. n < (LastPage + 1) * PageWords
      BY <1>1, <2>1, <2>2, PageBelow
    <2>4. (LastPage + 1) * PageWords \in Int
      BY <2>2, GeometryAssumption
    <2>5. w < (LastPage + 1) * PageWords
      <3> DEFINE e == (LastPage + 1) * PageWords
      <3> HIDE DEF e, n
      <3> QED BY <1>1, <2>3, <2>4 DEF e
    <2>6. PageOf(w) < LastPage + 1
      BY <1>1, <2>2, <2>5, PageBelow
    <2> QED BY <1>1, <2>1, <2>6, Layout
  <1>4. LastPage \in Int
    BY <1>1, AddressSplit DEF LastPage
  <1>5. flash[w] = NewContents(w)
    <2>1. PageOf(w) \in TablePage .. (LastPage + 1) - 1
      BY <1>1, <1>2, <1>3, <1>4, Layout
    <2> QED BY <1>1, <2>1 DEF WrittenBelow
  <1> QED BY <1>1, <1>5 DEF NewContents, w

\* The table's page comes after those of the vectors.
LEMMA TablePageFacts ==
  ASSUME build \in Builds
  PROVE  TablePage \in Nat /\ TablePage > 0 /\ TablePage =< LastPage
         /\ LastPage \in Int
PROOF
  <1>1. AppReset \in Int /\ UpgradeStart \in Int /\ PageWords \in Nat
        /\ PageWords < TableStart /\ TableStart =< AppReset
    BY Layout, Payload
  <1>2. ~(PageOf(AppReset) < 1)
    <2>1. 1 * PageWords = PageWords /\ TableStart \in Int
      BY <1>1, Layout
    <2> QED BY <1>1, <2>1, PageBelow
  <1>3. TablePage \in Int /\ TablePage > 0
    BY <1>1, <1>2, Layout DEF TablePage
  <1> DEFINE n == AppReset + build.bootWords - 1
  <1>4. n \in Int /\ ~(n < TableStart)
    BY <1>1, Payload, Layout
  <1> HIDE DEF n
  <1>5. LastPage = PageOf(n)
    BY DEF LastPage, n
  <1> QED BY <1>3, <1>4, <1>5, Layout

\* The stage a reset begins with, for flash contents in good order.
LEMMA StageAfterReset ==
  ASSUME NEW f, build \in Builds, UpgradeIntact(f)
  PROVE  /\ OldInCharge(f) \/ NewInCharge(f) => StageAt(f) = "bootloader"
         /\ UpgradeInCharge(f) => StageAt(f) = "secure"
  BY OldRuns, NewRuns, UpgradeRuns DEF StageAt

\* Erasing a page for the program.
LEMMA EraseSteps ==
  ASSUME UpgradeTypeOK, UpgradeInv, SecureErase \/ ReplaceErase \/ ForwardErase
  PROVE  UpgradeInv'
PROOF
  <1> DEFINE g == Erased(flash, page)
  <1>1. /\ flash' = g /\ page' = page /\ pc' = pc /\ build' = build
        /\ unsafe' = unsafe /\ pageBuffer' = pageBuffer /\ ~erased /\ erased'
        /\ pc \in {"secure", "replace", "forward"}
    BY DEF SecureErase, ReplaceErase, ForwardErase, erase_page
  <1>2. build \in Builds /\ page \in Nat /\ UpgradeIntact(flash) /\ PageInPlace
    BY DEF UpgradeTypeOK, UpgradeInv
  <1>3. Agree(flash, g, page) /\ PageBlank(g, page)
    BY <1>2, PageResults
  <1> HIDE DEF g
  <1>4. LastPage' = LastPage /\ PageInPlace'
    BY <1>1, <1>2 DEF PageInPlace, LastPage
  <1>5. CASE pc = "secure"
    <2>1. page = 0 /\ 0 * PageWords < UpgradeStart /\ words'[0] = ToUpgrade
      BY <1>2, <1>5, Layout, WordZeroInPageZero
      DEF PageInPlace, SecureErase, ReplaceErase, ForwardErase, erase_page,
          SecuredTable
    <2>2. UpgradeIntact(g)
      BY <1>2, <1>3, <2>1, LowAgree
    <2>3. ASSUME ~unsafe PROVE ZeroPending(ToUpgrade)' /\ pageBuffer = EmptyBuffer
      <3>1. PaddingBlank(flash) /\ pageBuffer = EmptyBuffer
        BY <1>1, <1>5, <2>3
        DEF UpgradeInv, AtSecure, OldInCharge, UpgradeInCharge
      <3>2. PaddingBlank(g)
        BY <1>2, <1>3, <2>1, <3>1, LowAgree
      <3> QED BY <1>1, <1>3, <2>1, <3>1, <3>2
              DEF ZeroPending, PageBlank, PaddingBlank
    <2> QED
      BY <1>1, <1>4, <1>5, <2>2, <2>3
      DEF UpgradeInv, UpgradeIntact, AtBootloader, AtSecure, AtReplace,
          AtForward, AtReboot
  <1>6. CASE pc = "replace"
    <2>1. page \in TablePage .. LastPage /\ page >= TablePage /\ page \in Int
      BY <1>2, <1>6, TablePageFacts DEF PageInPlace
    <2>2. /\ UpgradeIntact(g) /\ g[0] = flash[0]
          /\ PaddingBlank(flash) => PaddingBlank(g)
      BY <1>2, <1>3, <2>1, HighAgree
    <2>3. words' = [o \in Offsets |-> NewWord(page * PageWords + o)]
      BY <1>6 DEF SecureErase, ReplaceErase, ForwardErase, erase_page
    <2>4. \A o \in Offsets : words'[o] = NewContents(page * PageWords + o)
      <3> TAKE o \in Offsets
      <3>1. page * PageWords + o \in Int
        BY <2>1, GeometryAssumption DEF Offsets
      <3> HIDE DEF NewContents
      <3> QED BY <1>2, <2>3, <3>1, NewWordsTyped
    <2>5. ASSUME WrittenBelow(page) PROVE WrittenBelow(page)'
      <3> SUFFICES ASSUME NEW w \in Addresses, PageOf(w) \in TablePage .. page - 1
                   PROVE  g[w] = NewContents(w)
        BY <1>1 DEF WrittenBelow, NewContents
      <3>1. PageOf(w) # page
        BY <2>1, Layout
      <3> QED BY <1>3, <2>5, <3>1 DEF WrittenBelow, Agree
    <2>6. NewContents(0) = NewContents(0)' /\
          \A w : NewContents(w)' = NewContents(w)
      BY <1>1 DEF NewContents
    <2>7. ASSUME ~unsafe PROVE AtReplace' /\ pageBuffer = EmptyBuffer
      <3>1. /\ flash[0] = ToUpgrade /\ PaddingBlank(flash) /\ WrittenBelow(page)
            /\ pageBuffer = EmptyBuffer
        BY <1>6, <2>7 DEF UpgradeInv, AtReplace
      <3> QED
        BY <1>1, <1>3, <2>2, <2>4, <2>5, <2>6, <3>1
        DEF AtReplace, PageBlank, PaddingBlank
    <2> QED
      BY <1>1, <1>4, <1>6, <2>2, <2>7
      DEF UpgradeInv, UpgradeIntact, AtBootloader, AtSecure, AtForward, AtReboot
  <1>7. CASE pc = "forward"
    <2>1. page * PageWords < UpgradeStart
      BY <1>2, <1>7 DEF PageInPlace
    <2>2. /\ UpgradeIntact(g) /\ (NewBootloader(flash) => NewBootloader(g))
          /\ (page = 0 /\ PaddingBlank(flash) => PaddingBlank(g))
          /\ (page > 0 => g[0] = flash[0])
      BY <1>2, <1>3, <2>1, LowAgree
    <2>3. words' = [o \in Offsets |-> ForwardedWord(page * PageWords + o)]
      BY <1>7 DEF SecureErase, ReplaceErase, ForwardErase, erase_page
    <2>4. page = 0 => words'[0] = ToEntry
      <3>1. 0 * PageWords + 0 = 0
        BY GeometryAssumption
      <3> QED BY <1>2, <2>3, <3>1, NewWordsTyped, WordZeroInPageZero
    <2>5. ASSUME ~unsafe PROVE AtForward' /\ pageBuffer = EmptyBuffer
      <3>1. /\ NewBootloader(flash) /\ pageBuffer = EmptyBuffer
            /\ IF page > 0 THEN flash[0] = ToEntry ELSE PaddingBlank(flash)
        BY <1>1, <1>7, <2>5 DEF UpgradeInv, AtForward
      <3>2. page = 0 \/ page > 0
        BY <1>2
      <3> QED
        BY <1>1, <1>3, <2>2, <2>4, <3>1, <3>2
        DEF AtForward, NewBootloader, ZeroPending, PageBlank, PaddingBlank
    <2> QED
      BY <1>1, <1>4, <1>7, <2>2, <2>5
      DEF UpgradeInv, UpgradeIntact, AtBootloader, AtSecure, AtReplace, AtReboot
  <1> QED BY <1>1, <1>5, <1>6, <1>7

\* Writing a page that was erased.
LEMMA WriteSteps ==
  ASSUME UpgradeTypeOK, UpgradeInv, SecureWrite \/ ReplaceWrite \/ ForwardWrite
  PROVE  UpgradeInv'
PROOF
  <1> DEFINE g == Programmed(flash, page, FilledBuffer)
  <1>1. /\ flash' = g /\ build' = build /\ words' = words /\ unsafe' = unsafe
        /\ pageBuffer' = EmptyBuffer /\ erased /\ ~erased'
        /\ pc \in {"secure", "replace", "forward"}
    BY DEF SecureWrite, ReplaceWrite, ForwardWrite, write_page
  <1>2. build \in Builds /\ page \in Nat /\ UpgradeIntact(flash) /\ PageInPlace
    BY DEF UpgradeTypeOK, UpgradeInv
  <1>3. /\ Agree(flash, g, page)
        /\ PageBlank(flash, page) /\ pageBuffer = EmptyBuffer =>
              \A w \in Addresses : PageOf(w) = page => g[w] = words[OffsetOf(w)]
    BY <1>2, PageResults
  <1> HIDE DEF g
  <1>4. LastPage' = LastPage
    BY <1>1 DEF LastPage
  <1>5. CASE pc = "secure"
    <2>1. page = 0 /\ 0 * PageWords < UpgradeStart /\ pc' = "replace" /\ page' = TablePage
      BY <1>2, <1>5, Layout
      DEF PageInPlace, SecureWrite, ReplaceWrite, ForwardWrite
    <2>2. UpgradeIntact(g) /\ (PaddingBlank(flash) => PaddingBlank(g))
      BY <1>2, <1>3, <2>1, LowAgree
    <2>3. PageInPlace'
      BY <1>2, <1>4, <2>1, TablePageFacts DEF PageInPlace
    <2>4. ASSUME ~unsafe PROVE AtReplace'
      <3>1. ZeroPending(ToUpgrade) /\ pageBuffer = EmptyBuffer
        BY <1>1, <1>5, <2>4 DEF UpgradeInv, AtSecure
      <3>2. g[0] = ToUpgrade
        BY <1>3, <2>1, <3>1, WordZeroInPageZero DEF ZeroPending
      <3>3. WrittenBelow(page)'
        <4>1. page' \in Nat /\ TablePage .. page' - 1 = {}
          BY <1>2, <2>1, TablePageFacts
        <4> QED BY <4>1, <2>1 DEF WrittenBelow
      <3> QED
        BY <1>1, <2>2, <3>1, <3>2, <3>3
        DEF AtReplace, ZeroPending, PaddingBlank
    <2> QED
      BY <1>1, <2>1, <2>2, <2>3, <2>4
      DEF UpgradeInv, UpgradeIntact, AtBootloader, AtSecure, AtForward, AtReboot
  <1>6. CASE pc = "replace"
    <2>1. page \in TablePage .. LastPage /\ page >= TablePage /\ page \in Int
          /\ LastPage \in Int
      BY <1>2, <1>6, TablePageFacts DEF PageInPlace
    <2>2. \/ page < LastPage /\ page' = page + 1 /\ pc' = "replace"
          \/ ~(page < LastPage) /\ page' = 0 /\ pc' = "forward"
      BY <1>6 DEF SecureWrite, ReplaceWrite, ForwardWrite
    <2>3. /\ UpgradeIntact(g) /\ g[0] = flash[0]
          /\ PaddingBlank(flash) => PaddingBlank(g)
      BY <1>2, <1>3, <2>1, HighAgree
    <2>4. PageInPlace'
      <3>1. 0 * PageWords < UpgradeStart
        BY Layout
      <3>2. CASE page < LastPage /\ page' = page + 1 /\ pc' = "replace"
        <4>1. TablePage \in Nat
          BY <1>2, TablePageFacts
        <4>2. page + 1 \in TablePage .. LastPage
          BY <2>1, <3>2, <4>1
        <4> QED BY <1>4, <3>2, <4>2 DEF PageInPlace
      <3>3. CASE page' = 0 /\ pc' = "forward"
        <4>1. page' * PageWords < UpgradeStart
          BY <3>1, <3>3
        <4> QED BY <3>3, <4>1 DEF PageInPlace
      <3> QED BY <2>2, <3>2, <3>3
    <2>5. ASSUME ~unsafe
          PROVE  /\ flash[0] = ToUpgrade /\ PaddingBlank(flash)
                 /\ \A w \in Addresses :
                        PageOf(w) \in TablePage .. page => g[w] = NewContents(w)
      <3>1. /\ flash[0] = ToUpgrade /\ PaddingBlank(flash) /\ WrittenBelow(page)
            /\ pageBuffer = EmptyBuffer /\ PageBlank(flash, page)
            /\ \A o \in Offsets : words[o] = NewContents(page * PageWords + o)
        BY <1>1, <1>6, <2>5 DEF UpgradeInv, AtReplace
      <3>2. ASSUME NEW w \in Addresses, PageOf(w) \in TablePage .. page
            PROVE  g[w] = NewContents(w)
        <4>1. CASE PageOf(w) = page
          <5>1. OffsetOf(w) \in Offsets /\ w = PageWords * page + OffsetOf(w)
            BY <4>1, AddressSplit, GeometryAssumption DEF Addresses
          <5>2. PageWords * page = page * PageWords
            BY <2>1, GeometryAssumption, SMTT(20)
          <5>3. w = page * PageWords + OffsetOf(w)
            BY <5>1, <5>2
          <5>4. words[OffsetOf(w)] = NewContents(page * PageWords + OffsetOf(w))
            BY <3>1, <5>1
          <5> QED BY <1>3, <3>1, <4>1, <5>3, <5>4
        <4>2. CASE PageOf(w) # page
          <5>1. PageOf(w) \in TablePage .. page - 1
            BY <2>1, <3>2, <4>2, TablePageFacts, <1>2
          <5> QED BY <1>3, <3>1, <4>2, <5>1 DEF WrittenBelow, Agree
        <4> QED BY <4>1, <4>2
      <3> QED BY <3>1, <3>2
    <2>6. CASE page < LastPage
      <3>1. page' = page + 1 /\ pc' = "replace" /\ (page + 1) - 1 = page
        BY <2>1, <2>2, <2>6
      <3>2. ASSUME ~unsafe PROVE AtReplace'
        <4>1. WrittenBelow(page)'
          BY <1>1, <2>5, <3>1, <3>2 DEF WrittenBelow, NewContents
        <4> QED BY <1>1, <2>3, <2>5, <3>2, <4>1 DEF AtReplace, PaddingBlank
      <3> QED
        BY <1>1, <2>3, <2>4, <3>1, <3>2
        DEF UpgradeInv, UpgradeIntact, AtBootloader, AtSecure, AtForward, AtReboot
    <2>7. CASE ~(page < LastPage)
      <3>1. page = LastPage /\ page' = 0 /\ pc' = "forward"
            /\ (LastPage + 1) - 1 = page
        BY <2>1, <2>2, <2>7
      <3>2. ASSUME ~unsafe PROVE AtForward'
        <4>1. WrittenBelow(LastPage + 1)'
          BY <1>1, <1>4, <2>5, <3>1, <3>2 DEF WrittenBelow, NewContents
        <4>2. UpgradeTypeOK'
          <5>1. [Next]_vars
            BY DEF Next, Program
          <5> QED BY <5>1, UpgradeNextTyped
        <4>3. NewBootloader(flash)'
          BY <4>1, <4>2, AllWritten, PTL
        <4> QED
          BY <1>1, <2>3, <2>5, <3>1, <3>2, <4>3
          DEF AtForward, PaddingBlank
      <3> QED
        BY <1>1, <2>3, <2>4, <3>1, <3>2
        DEF UpgradeInv, UpgradeIntact, AtBootloader, AtSecure, AtReplace, AtReboot
    <2> QED BY <2>6, <2>7
  <1>7. CASE pc = "forward"
    <2>1. page * PageWords < UpgradeStart
      BY <1>2, <1>7 DEF PageInPlace
    <2>2. \/ (page + 1) * PageWords < build.vectorWords /\ page' = page + 1 /\ pc' = "forward"
          \/ page' = 0 /\ pc' = "reboot"
      BY <1>7 DEF SecureWrite, ReplaceWrite, ForwardWrite
    <2>3. /\ UpgradeIntact(g) /\ (NewBootloader(flash) => NewBootloader(g))
          /\ (page = 0 /\ PaddingBlank(flash) => PaddingBlank(g))
          /\ (page > 0 => g[0] = flash[0])
      BY <1>2, <1>3, <2>1, LowAgree
    <2>4. PageInPlace'
      <3>1. ASSUME page' = page + 1, (page + 1) * PageWords < build.vectorWords
            PROVE  page' * PageWords < UpgradeStart
        <4> DEFINE n == (page + 1) * PageWords
        <4>1. n \in Int
          BY <1>2, GeometryAssumption
        <4> HIDE DEF n
        <4>2. n < UpgradeStart
          BY <1>2, <3>1, <4>1, Payload, Layout DEF n
        <4> QED BY <3>1, <4>2 DEF n
      <3> QED BY <1>1, <2>2, <3>1 DEF PageInPlace
    <2>5. ASSUME ~unsafe PROVE NewInCharge(g)
      <3>1. /\ NewBootloader(flash) /\ pageBuffer = EmptyBuffer
            /\ IF page > 0 THEN flash[0] = ToEntry ELSE ZeroPending(ToEntry)
        BY <1>1, <1>7, <2>5 DEF UpgradeInv, AtForward
      <3>2. CASE page > 0
        BY <2>3, <3>1, <3>2 DEF NewInCharge
      <3>3. CASE page = 0
        <4>1. g[0] = ToEntry
          BY <1>3, <3>1, <3>3, WordZeroInPageZero DEF ZeroPending
        <4> QED BY <2>3, <3>1, <4>1 DEF NewInCharge
      <3> QED BY <1>2, <3>2, <3>3
    <2>6. page' = page + 1 => page' > 0
      BY <1>2
    <2> QED
      BY <1>1, <2>2, <2>3, <2>4, <2>5, <2>6
      DEF UpgradeInv, UpgradeIntact, AtBootloader, AtSecure, AtReplace,
          AtForward, AtReboot, NewInCharge, NewBootloader
  <1> QED BY <1>1, <1>5, <1>6, <1>7

\* What a power failure or a reset leaves of the flash.
LEMMA PowerCycleFlash ==
  ASSUME UpgradeTypeOK, UpgradeInv, PowerCycle
  PROVE  /\ UpgradeIntact(flash')
         /\ ~unsafe' =>
              \/ flash' = flash
              \/ pc \in {"secure", "replace"} /\ UpgradeInCharge(flash')
              \/ pc = "forward" /\ page > 0 /\ NewInCharge(flash')
              \/ /\ pc = "forward" /\ page = 0
                 /\ UpgradeInCharge(flash') \/ NewInCharge(flash')
PROOF
  <1>1. PICK done \in SUBSET Offsets :
            /\ flash' = [w \in Addresses |-> IF OffsetOf(w) \in done
                                             THEN PendingFlash[w] ELSE flash[w]]
            /\ unsafe' = (unsafe \/ (/\ page = 0 /\ pc \in {"secure", "forward"}
                                     /\ done \notin {{}, Offsets}))
    BY DEF PowerCycle
  <1> DEFINE g == flash'
  <1>2. /\ build \in Builds /\ page \in Nat /\ UpgradeIntact(flash) /\ PageInPlace
        /\ flash \in [Addresses -> Word] /\ PendingFlash \in [Addresses -> Word]
    BY BuffersTyped DEF UpgradeTypeOK, UpgradeInv
  <1>3. \A w \in Addresses : OffsetOf(w) \in Offsets
    BY AddressSplit, GeometryAssumption DEF Addresses
  <1>4. /\ done = {} => g = flash
        /\ PendingFlash = flash => g = flash
        /\ done = Offsets => g = PendingFlash
    BY <1>1, <1>2, <1>3
  <1>5. ASSUME pc \in {"secure", "replace", "forward"}
        PROVE  /\ PendingFlash = IF erased THEN Programmed(flash, page, FilledBuffer)
                                           ELSE Erased(flash, page)
               /\ Agree(flash, PendingFlash, page) /\ Agree(flash, g, page)
               /\ ~erased => PageBlank(PendingFlash, page)
               /\ erased /\ PageBlank(flash, page) /\ pageBuffer = EmptyBuffer =>
                    \A w \in Addresses : PageOf(w) = page =>
                        PendingFlash[w] = words[OffsetOf(w)]
    <2>1. PendingFlash = IF erased THEN Programmed(flash, page, FilledBuffer)
                                   ELSE Erased(flash, page)
      BY <1>5 DEF PendingFlash
    <2>2. Agree(flash, PendingFlash, page)
      BY <1>2, <2>1, PageResults
    <2>3. Agree(flash, g, page)
      BY <1>1, <2>2 DEF Agree
    <2> QED BY <1>2, <2>1, <2>2, <2>3, PageResults
  <1>6. ASSUME ~unsafe', pc \in {"secure", "forward"}, page = 0
        PROVE  g = flash \/ g = PendingFlash
    BY <1>1, <1>4, <1>6
  <1>7. ~unsafe' => ~unsafe
    BY <1>1
  <1> HIDE DEF g
  <1>8. CASE pc \notin {"secure", "replace", "forward"}
    <2>1. g = flash
      BY <1>4, <1>8 DEF PendingFlash
    <2> QED BY <1>2, <2>1 DEF g
  <1>9. CASE pc = "replace"
    <2>1. page \in Int /\ page >= TablePage
      BY <1>2, <1>9, TablePageFacts DEF PageInPlace
    <2>2. /\ UpgradeIntact(g) /\ g[0] = flash[0]
          /\ PaddingBlank(flash) => PaddingBlank(g)
      BY <1>2, <1>5, <1>9, <2>1, HighAgree
    <2> QED
      BY <1>7, <1>9, <2>2 DEF UpgradeInv, AtReplace, UpgradeInCharge, g
  <1>10. CASE pc \in {"secure", "forward"}
    <2>1. page * PageWords < UpgradeStart
      <3>1. 0 * PageWords < UpgradeStart
        BY Layout
      <3> QED BY <1>2, <1>10, <3>1 DEF PageInPlace
    <2>2. /\ UpgradeIntact(g) /\ (NewBootloader(flash) => NewBootloader(g))
          /\ (page = 0 /\ PaddingBlank(flash) => PaddingBlank(g))
          /\ (page > 0 => g[0] = flash[0])
      BY <1>2, <1>5, <1>10, <2>1, LowAgree
    <2>3. ASSUME ~unsafe', page > 0 PROVE pc = "forward" /\ NewInCharge(g)
      BY <1>2, <1>7, <1>10, <2>2, <2>3
      DEF UpgradeInv, AtForward, NewInCharge, PageInPlace
    <2>4. ASSUME ~unsafe', page = 0, g = PendingFlash, ~erased
          PROVE  UpgradeInCharge(g)
      <3>1. PageBlank(g, 0)
        BY <1>5, <1>10, <2>4
      <3>2. PaddingBlank(flash)
        BY <1>7, <1>10, <2>4
        DEF UpgradeInv, AtSecure, AtForward, OldInCharge, UpgradeInCharge
      <3> QED BY <2>2, <2>4, <3>1, <3>2 DEF UpgradeInCharge
    <2>5. ASSUME ~unsafe', page = 0, g = PendingFlash, erased
          PROVE  IF pc = "secure" THEN UpgradeInCharge(g) ELSE NewInCharge(g)
      <3>1. /\ pageBuffer = EmptyBuffer /\ PageBlank(flash, 0) /\ PaddingBlank(flash)
            /\ words[0] = IF pc = "secure" THEN ToUpgrade ELSE ToEntry
            /\ pc = "forward" => NewBootloader(flash)
        BY <1>7, <1>10, <2>5 DEF UpgradeInv, AtSecure, AtForward, ZeroPending
      <3>2. g[0] = words[0]
        BY <1>5, <1>10, <2>5, <3>1, WordZeroInPageZero
      <3> QED
        BY <1>10, <2>2, <2>5, <3>1, <3>2 DEF UpgradeInCharge, NewInCharge
    <2>6. page = 0 \/ page > 0
      BY <1>2
    <2> QED BY <1>6, <1>10, <2>2, <2>3, <2>4, <2>5, <2>6 DEF g
  <1> QED BY <1>8, <1>9, <1>10

\* Who a reset runs at each place of the program.
InChargeNow ==
    /\ pc = "bootloader" => ResetRuns(flash) \in {"old", "new"}
    /\ pc = "secure" =>
         IF erased THEN UpgradeInCharge(flash) /\ ResetRuns(flash) = "upgrade"
                   ELSE \/ OldInCharge(flash) /\ ResetRuns(flash) = "old"
                        \/ UpgradeInCharge(flash) /\ ResetRuns(flash) = "upgrade"
    /\ pc = "replace" => UpgradeInCharge(flash) /\ ResetRuns(flash) = "upgrade"
    /\ pc = "forward" =>
         IF page > 0 THEN NewInCharge(flash) /\ ResetRuns(flash) = "new"
         ELSE UpgradeInCharge(flash) /\ ResetRuns(flash) = "upgrade"
    /\ pc = "reboot" => NewInCharge(flash) /\ ResetRuns(flash) = "new"

LEMMA ChargeNow == UpgradeTypeOK /\ UpgradeInv /\ ~unsafe => InChargeNow
PROOF
  <1> SUFFICES ASSUME UpgradeTypeOK, UpgradeInv, ~unsafe PROVE InChargeNow
    OBVIOUS
  <1>1. build \in Builds /\ UpgradeIntact(flash)
    BY DEF UpgradeTypeOK, UpgradeInv
  <1>2. /\ OldInCharge(flash) => ResetRuns(flash) = "old"
        /\ NewInCharge(flash) => ResetRuns(flash) = "new"
        /\ UpgradeInCharge(flash) => ResetRuns(flash) = "upgrade"
    BY <1>1, OldRuns, NewRuns, UpgradeRuns
  <1>3. pc = "bootloader" => OldInCharge(flash) \/ NewInCharge(flash)
    BY DEF UpgradeInv, AtBootloader
  <1>4. pc = "secure" => IF erased THEN UpgradeInCharge(flash)
                         ELSE OldInCharge(flash) \/ UpgradeInCharge(flash)
    BY DEF UpgradeInv, AtSecure, ZeroPending, UpgradeInCharge
  <1>5. pc = "replace" => UpgradeInCharge(flash)
    BY DEF UpgradeInv, AtReplace, UpgradeInCharge
  <1>6. pc = "forward" => IF page > 0 THEN NewInCharge(flash)
                          ELSE UpgradeInCharge(flash)
    BY DEF UpgradeInv, AtForward, NewInCharge, UpgradeInCharge, ZeroPending
  <1>7. pc = "reboot" => NewInCharge(flash)
    BY DEF UpgradeInv, AtReboot
  <1> QED BY <1>2, <1>3, <1>4, <1>5, <1>6, <1>7 DEF InChargeNow

\* Whoever is in charge of the old or new contents, a reset finds its stage.
LEMMA ResetSteps ==
  ASSUME UpgradeTypeOK, UpgradeInv, PowerCycle
  PROVE  UpgradeInv'
PROOF
  <1>1. /\ pc' = StageAt(flash)' /\ ~erased' /\ page' = 0 /\ build' = build
        /\ pageBuffer' = EmptyBuffer /\ (unsafe => unsafe')
    BY DEF PowerCycle, StageAt, ResetRuns, UpgradeIntact, NewBootloader,
           PayloadVectorsEnd, PayloadVectorsStart
  <1>2. build \in Builds /\ UpgradeIntact(flash')
    BY PowerCycleFlash DEF UpgradeTypeOK
  <1>3. ASSUME ~unsafe'
        PROVE OldInCharge(flash') \/ NewInCharge(flash') \/ UpgradeInCharge(flash')
    <2>1. OldInCharge(flash) \/ NewInCharge(flash) \/ UpgradeInCharge(flash)
      <3>1. ~unsafe /\ pc # "lost" /\ pc \in Stages
        BY <1>1, <1>3 DEF UpgradeInv, UpgradeTypeOK
      <3>2. pc = "bootloader" => OldInCharge(flash) \/ NewInCharge(flash)
        BY <3>1 DEF UpgradeInv, AtBootloader
      <3> QED BY <3>1, <3>2, ChargeNow DEF Stages, InChargeNow
    <2> QED BY <1>3, <2>1, PowerCycleFlash
  <1>4. StageAt(flash)' = StageAt(flash')
    BY <1>1 DEF StageAt, ResetRuns, UpgradeIntact, NewBootloader,
           PayloadVectorsEnd, PayloadVectorsStart
  <1>5. StageAt(flash') \in {"bootloader", "secure", "lost"}
    BY DEF StageAt
  <1>6. PageInPlace'
    <2>1. 0 * PageWords < UpgradeStart
      BY Layout
    <2> QED BY <1>1, <1>4, <1>5, <2>1 DEF PageInPlace
  <1>7. ASSUME ~unsafe', OldInCharge(flash') \/ NewInCharge(flash')
        PROVE  pc' = "bootloader" /\ AtBootloader'
    BY <1>1, <1>2, <1>4, <1>7, StageAfterReset
    DEF AtBootloader, OldInCharge, NewInCharge, OldBootloader, NewBootloader,
        PaddingBlank
  <1>8. ASSUME ~unsafe', UpgradeInCharge(flash')
        PROVE  pc' = "secure" /\ AtSecure'
    BY <1>1, <1>2, <1>4, <1>8, StageAfterReset
    DEF AtSecure, UpgradeInCharge, PaddingBlank, PageBlank
  <1> QED
    BY <1>1, <1>2, <1>3, <1>6, <1>7, <1>8
    DEF UpgradeInv, UpgradeIntact, AtBootloader, AtSecure, AtReplace,
        AtForward, AtReboot

LEMMA UpgradeInvKept ==
  UpgradeTypeOK /\ UpgradeInv /\ [Next]_vars => UpgradeInv'
PROOF
  <1> SUFFICES ASSUME UpgradeTypeOK, UpgradeInv, [Next]_vars
               PROVE  UpgradeInv'
    OBVIOUS
  <1>1. CASE StartUpgrade
    <2>1. /\ pc = "bootloader" /\ pc' = "secure" /\ page' = 0 /\ flash' = flash
          /\ build' = build /\ erased' = erased /\ (unsafe => unsafe')
          /\ Landing(flash, AppReset) = UpgradeStart
          /\ ~unsafe' => pageBuffer' = EmptyBuffer
      <3>1. [EmptyBuffer EXCEPT ![0] = Blank] = EmptyBuffer
        BY WordZeroInPageZero DEF EmptyBuffer
      <3> QED BY <1>1, <3>1 DEF StartUpgrade
    <2>2. build \in Builds /\ PageInPlace' /\ UpgradeIntact(flash)
      BY <2>1 DEF UpgradeTypeOK, UpgradeInv, PageInPlace
    <2>3. ASSUME ~unsafe' PROVE OldInCharge(flash)
      BY <2>1, <2>2, <2>3, NewRuns DEF UpgradeInv, AtBootloader
    <2>4. ~erased
      BY <2>1 DEF UpgradeInv, PageInPlace
    <2> QED
      BY <2>1, <2>2, <2>3, <2>4
      DEF UpgradeInv, UpgradeIntact, AtBootloader, AtSecure, AtReplace,
          AtForward, AtReboot, OldInCharge, OldBootloader, PaddingBlank
  <1>2. CASE Reboot
    <2>1. /\ pc = "reboot" /\ pc' = StageAt(flash) /\ UNCHANGED <<flash,
             pageBuffer, words, build, page, erased, steady, unsafe>>
      BY <1>2 DEF Reboot
    <2>2. build \in Builds /\ UpgradeIntact(flash)
      BY DEF UpgradeTypeOK, UpgradeInv
    <2>3. ~unsafe => NewInCharge(flash) /\ pc' = "bootloader"
      BY <2>1, <2>2, StageAfterReset DEF UpgradeInv, AtReboot
    <2>4. pc' \in {"bootloader", "secure", "lost"}
      BY <2>1 DEF StageAt
    <2>5. PageInPlace'
      <3>1. page' = 0 /\ ~erased'
        BY <2>1 DEF UpgradeInv, PageInPlace
      <3> QED BY <2>4, <3>1 DEF PageInPlace
    <2> QED
      BY <2>1, <2>2, <2>3, <2>4, <2>5
      DEF UpgradeInv, UpgradeIntact, AtBootloader, AtSecure, AtReplace,
          AtForward, AtReboot, NewInCharge, NewBootloader
  <1>3. CASE UNCHANGED <<flash, pageBuffer, words, build, pc, page, erased, unsafe>>
    BY <1>3
    DEF UpgradeInv, UpgradeIntact, PageInPlace, LastPage, AtBootloader, AtSecure,
        AtReplace, AtForward, AtReboot, OldInCharge, NewInCharge,
        UpgradeInCharge, OldBootloader, NewBootloader, PaddingBlank, PageBlank,
        ZeroPending, WrittenBelow, NewContents
  <1> QED
    BY <1>1, <1>2, <1>3, EraseSteps, WriteSteps, ResetSteps
    DEF Next, Program, PowerIsSteady, Idle, vars

(***************************************************************************)
(* The theorems.                                                           *)
(***************************************************************************)
\* Every step of upgrade.c, and every power failure around it, preserves the
\* type invariant and the account of who is in charge (UpgradeInv).
THEOREM UpgradeSafe == Spec => [](UpgradeTypeOK /\ UpgradeInv)
PROOF
  <1>1. Init => UpgradeTypeOK /\ UpgradeInv
    BY InitUpgradeTyped, InitUpgradeInv
  <1>2. UpgradeTypeOK /\ UpgradeInv /\ [Next]_vars => (UpgradeTypeOK /\ UpgradeInv)'
    BY UpgradeNextTyped, UpgradeInvKept
  <1> QED BY <1>1, <1>2, PTL DEF Spec

\* A step is a stutter, a take-over or a hand-over, unless there was an accident.
LEMMA StepsHandOver ==
  ASSUME UpgradeTypeOK, UpgradeInv, UpgradeTypeOK', UpgradeInv', [Next]_vars
  PROVE  [Handover!Next]_<<ResetRuns(flash), unsafe>>
PROOF
  <1> DEFINE before == ResetRuns(flash)
             after  == ResetRuns(flash)'
  <1>1. CASE unsafe'
    BY <1>1 DEF Handover!Next
  <1>2. CASE ~unsafe' /\ unsafe
    BY <1>2
    DEF Next, Program, StartUpgrade, SecureErase, SecureWrite, ReplaceErase,
        ReplaceWrite, ForwardErase, ForwardWrite, erase_page, write_page,
        Reboot, PowerCycle, PowerIsSteady, Idle, vars
  <1>3. CASE ~unsafe' /\ ~unsafe
    <2>1. build' = build
      BY DEF Next, Program, StartUpgrade, SecureErase, SecureWrite, ReplaceErase,
        ReplaceWrite, ForwardErase, ForwardWrite, erase_page, write_page,
        Reboot, PowerCycle, PowerIsSteady, Idle, vars
    <2>2. after = ResetRuns(flash')
      BY <2>1 DEF ResetRuns, UpgradeIntact, NewBootloader,
                  PayloadVectorsEnd, PayloadVectorsStart
    <2>3. /\ pc' = "secure" => after \in {"old", "upgrade"}
          /\ pc' = "secure" /\ erased' => after = "upgrade"
          /\ pc' = "replace" => after = "upgrade"
          /\ pc' = "forward" => after = IF page' > 0 THEN "new" ELSE "upgrade"
          /\ pc' = "reboot" => after = "new"
      <3>1. InChargeNow'
        BY <1>3, ChargeNow, PTL
      <3> QED BY <3>1 DEF InChargeNow
    <2>4. /\ pc = "secure" => before \in {"old", "upgrade"}
          /\ pc = "secure" /\ erased => before = "upgrade"
          /\ pc = "replace" => before = "upgrade"
          /\ pc = "forward" => before = IF page > 0 THEN "new" ELSE "upgrade"
      BY <1>3, ChargeNow DEF InChargeNow
    <2>5. ASSUME \/ after = before
                 \/ before = "old" /\ after = "upgrade"
                 \/ before = "upgrade" /\ after = "new"
          PROVE  [Handover!Next]_<<ResetRuns(flash), unsafe>>
      <3>1. unsafe' = unsafe
        BY <1>3 DEF UpgradeTypeOK
      <3>2. CASE after = before
        BY <3>1, <3>2
      <3>3. CASE Handover!TakeOver \/ Handover!HandOver
        BY <3>1, <3>3 DEF Handover!Next
      <3> QED BY <2>5, <3>2, <3>3 DEF Handover!TakeOver, Handover!HandOver
    <2> HIDE DEF before, after
    <2>6. CASE flash' = flash
      BY <2>1, <2>2, <2>5, <2>6 DEF before
    <2>7. CASE SecureErase
      BY <2>3, <2>4, <2>5, <2>7 DEF SecureErase, erase_page
    <2>8. CASE SecureWrite
      BY <2>3, <2>4, <2>5, <2>8 DEF SecureWrite, write_page
    <2>9. CASE ReplaceErase \/ ReplaceWrite
      <3>1. pc = "replace" /\ (pc' = "replace" \/ (pc' = "forward" /\ page' = 0))
        BY <2>9 DEF ReplaceErase, ReplaceWrite, erase_page, write_page
      <3> QED BY <2>3, <2>4, <2>5, <3>1
    <2>10. CASE ForwardErase
      BY <2>3, <2>4, <2>5, <2>10 DEF ForwardErase, erase_page
    <2>11. CASE ForwardWrite
      <3>1. pc = "forward" /\ (pc' = "reboot" \/ (pc' = "forward" /\ page' = page + 1))
        BY <2>11 DEF ForwardWrite
      <3>2. page' = page + 1 => page' > 0
        BY DEF UpgradeTypeOK
      <3> QED BY <2>3, <2>4, <2>5, <3>1, <3>2
    <2>12. CASE PowerCycle
      <3>1. build \in Builds /\ UpgradeIntact(flash')
        BY <2>12, PowerCycleFlash DEF UpgradeTypeOK
      <3>2. /\ UpgradeInCharge(flash') => after = "upgrade"
            /\ NewInCharge(flash') => after = "new"
        BY <2>2, <3>1, NewRuns, UpgradeRuns
      <3>3. page \in Nat
        BY DEF UpgradeTypeOK
      <3> QED BY <1>3, <2>4, <2>5, <2>6, <2>12, <3>2, <3>3, PowerCycleFlash
    <2> QED
      BY <2>6, <2>7, <2>8, <2>9, <2>10, <2>11, <2>12
      DEF Next, Program, StartUpgrade, Reboot, PowerIsSteady, Idle, vars
  <1> QED BY <1>1, <1>2, <1>3

\* upgrade.c implements Replacement: whatever power does, a reset runs the
\* old bootloader, then the upgrade program, then the new bootloader.
THEOREM UpgradeHandsOver == Spec => HandsOver
PROOF
  <1>1. Init => Handover!Init
    <2> SUFFICES ASSUME Init PROVE Handover!Init
      OBVIOUS
    <2>1. build \in Builds /\ OldInCharge(flash)
      BY UploadedParts DEF Init, OldInCharge
    <2>2. ResetRuns(flash) = "old"
      BY <2>1, OldRuns
    <2> QED BY <2>2 DEF Init, Handover!Init
  <1>2. /\ UpgradeTypeOK /\ UpgradeInv /\ (UpgradeTypeOK /\ UpgradeInv)'
        /\ [Next]_vars
        => [Handover!Next]_<<ResetRuns(flash), unsafe>>
    BY StepsHandOver
  <1> QED
    BY <1>1, <1>2, UpgradeSafe, PTL DEF Spec, HandsOver, Handover!Spec

=============================================================================
