-------------------------- MODULE BootloaderProofs --------------------------
(***************************************************************************)
(* The bootloader, for all values of the constants: its type invariant, the*)
(* integrity of its own code and the way back from every power failure;    *)
(* then what it writes: the pages the host sent, the vectors after an erase*)
(* and the tiny table.  The last part is about a device a host erases and  *)
(* fills, page by page: the lemmas the two upload programs' proofs share.  *)
(***************************************************************************)
EXTENDS Bootloader, AvrFlashProofs

(***************************************************************************)
(* Lemmas about the operators of Bootloader.                               *)
(***************************************************************************)
\* A page is at least one packet.
LEMMA PacketFacts ==
    /\ PacketsPerPage \in Nat \ {0}
    /\ PacketWords \in Nat \ {0}
    /\ PacketWords =< PageWords
  BY PacketAssumption, GeometryAssumption, SMTT(20) DEF PacketsPerPage

\* What is stored for a word of data is a word.
LEMMA PatchedTyped ==
  ASSUME NEW a \in Int, NEW data \in Word, NEW vt \in [{0, 1} -> LowBits]
  PROVE  Patched(a, data, vt) \in Word
PROOF
  <1>1. vt[0] \in Int /\ vt[1] \in Int
    BY GeometryAssumption DEF LowBits
  <1>2. AppReset \in Int /\ AppUsb \in Int
    BY EntryFacts DEF AppReset, AppUsb
  <1>3. /\ addr2rjmp(vt[0], AppReset) \in Word
        /\ addr2rjmp(vt[1], AppUsb) \in Word
    BY <1>1, <1>2, RelocationTyped, WordsTyped
  <1> QED BY <1>3, VectorsTyped, WordsTyped DEF Patched

\* A packet lies inside its page.
LEMMA PacketPlace ==
  ASSUME NEW p \in 0 .. AppPages - 1, NEW k \in 0 .. PacketsPerPage - 1,
         NEW j \in 0 .. PacketWords - 1
  PROVE  /\ k * PacketWords + j \in Offsets
         /\ p * PageWords + k * PacketWords + j \in AppWords
         /\ p * PageWords \in 0 .. Entry
         /\ k * PacketWords + PacketWords =< PageWords
         /\ p * PageWords + PageWords =< Entry
PROOF
  <1>1. PacketWords * k =< PacketWords * (PacketsPerPage - 1)
    BY PacketFacts, TimesMonotonic
  <1>2. PacketWords * (PacketsPerPage - 1) = PageWords - PacketWords
    BY PacketFacts, PacketAssumption, GeometryAssumption
  <1>3. PageWords * p =< PageWords * (AppPages - 1)
    BY GeometryAssumption, TimesMonotonic
  <1>4. PageWords * (AppPages - 1) = Entry - PageWords
    BY GeometryAssumption DEF Entry
  <1>5. PacketWords * 0 =< PacketWords * k /\ PageWords * 0 =< PageWords * p
    BY PacketFacts, GeometryAssumption, TimesMonotonic
  <1>6. k * PacketWords \in Nat /\ p * PageWords \in Nat
    BY PacketFacts, GeometryAssumption
  <1>7. k * PacketWords + PacketWords =< PageWords
    BY <1>1, <1>2, <1>6, PacketFacts, GeometryAssumption
  <1>8. p * PageWords + PageWords =< Entry
    BY <1>3, <1>4, <1>6, EntryFacts, GeometryAssumption
  <1> QED
    BY <1>6, <1>7, <1>8, PacketFacts, EntryFacts, GeometryAssumption
       DEF Offsets, AppWords

\* The words of a packet are words.
LEMMA PacketTyped ==
  ASSUME host \in Transfer, NEW k \in 0 .. PacketsPerPage - 1
  PROVE  PacketData(k) \in [0 .. PacketWords - 1 -> Word]
PROOF
  <1>1. host.page \in 0 .. AppPages - 1 /\ host.image \in [AppWords -> Word]
    BY ImagesAssumption DEF Transfer
  <1>2. \A j \in 0 .. PacketWords - 1 :
            host.page * PageWords + k * PacketWords + j \in AppWords
    BY <1>1, PacketPlace
  <1> QED BY <1>1, <1>2 DEF PacketData

\* An address is a number, and on a clean bus one of the application's.
LEMMA InRange ==
    /\ AddressRange \subseteq Nat /\ 0 .. Entry \subseteq AddressRange
    /\ ~LossyBus => AddressRange = 0 .. Entry
  BY EntryFacts DEF AddressRange

\* The words of a packet that are taken end at the bootloader's entry; behind
\* it none is.
LEMMA AcceptedStops ==
  ASSUME NEW a \in Nat
  PROVE  /\ Accepted(a) \in 0 .. PacketWords
         /\ a =< Entry => a + Accepted(a) \in 0 .. Entry
         /\ a > Entry => a + Accepted(a) = a
         /\ a \in AddressRange => a + Accepted(a) \in AddressRange
PROOF
  <1>1. /\ Accepted(a) \in 0 .. PacketWords
        /\ a =< Entry => a + Accepted(a) \in 0 .. Entry
        /\ a > Entry => a + Accepted(a) = a
    BY PacketFacts, EntryFacts DEF Accepted
  <1> QED BY <1>1, PacketFacts, EntryFacts DEF AddressRange

\* usbFunctionWrite keeps its variables well-typed.
LEMMA WriteTyped ==
  ASSUME TypeOK, NEW data \in [0 .. PacketWords - 1 -> Word],
         usbFunctionWrite(data)
  PROVE  /\ vectorTemp' \in [{0, 1} -> LowBits]
         /\ pageBuffer' \in [Offsets -> Word]
         /\ currentAddress' \in AddressRange
         /\ events' \subseteq {"erase", "write", "execute"}
PROOF
  <1> DEFINE a == currentAddress
             n == Accepted(a)
  <1>1. a \in Nat /\ vectorTemp \in [{0, 1} -> LowBits]
        /\ pageBuffer \in [Offsets -> Word]
    BY InRange DEF TypeOK
  <1>2. n \in 0 .. PacketWords /\ a + n \in AddressRange
    BY <1>1, AcceptedStops DEF TypeOK
  <1>3. \A v \in {0, UsbVector} : v \in a .. a + n - 1 =>
            rjmp2addr(data[v - a], v) \in LowBits
    <2> SUFFICES ASSUME NEW v \in {0, UsbVector}, v \in a .. a + n - 1
                 PROVE  rjmp2addr(data[v - a], v) \in LowBits
      OBVIOUS
    <2>1. v \in Int /\ v - a \in 0 .. PacketWords - 1
      BY <1>1, <1>2, PacketFacts, EntryFacts, GeometryAssumption
    <2> QED BY <2>1, RelocationTyped
  <1>4. vectorTemp' \in [{0, 1} -> LowBits]
    <2>1. vectorTemp' =
             [i \in {0, 1} |->
                LET v == IF i = 0 THEN 0 ELSE UsbVector
                IN  IF v \in a .. a + n - 1 THEN rjmp2addr(data[v - a], v)
                    ELSE vectorTemp[i]]
      BY DEF usbFunctionWrite
    <2> HIDE DEF a, n
    <2> QED BY <2>1, <1>1, <1>3
  <1>5. pageBuffer' \in [Offsets -> Word]
    <2>1. pageBuffer' = Filled(n, data, vectorTemp')
      BY DEF usbFunctionWrite
    <2>2. \A o \in Offsets, j \in 0 .. n - 1 :
             And(pageBuffer[o], Patched(a + j, data[j], vectorTemp')) \in Word
      <3> SUFFICES ASSUME NEW o \in Offsets, NEW j \in 0 .. n - 1
                   PROVE  And(pageBuffer[o], Patched(a + j, data[j], vectorTemp'))
                              \in Word
        OBVIOUS
      <3>1. j \in 0 .. PacketWords - 1 /\ a + j \in Int
        BY <1>1, <1>2, PacketFacts, EntryFacts
      <3>2. data[j] \in Word
        BY <3>1
      <3>3. Patched(a + j, data[j], vectorTemp') \in Word
        BY <1>4, <3>1, <3>2, PatchedTyped
      <3> QED BY <1>1, <3>3, AndTyped
    <2> HIDE DEF n
    <2> QED BY <1>1, <2>1, <2>2 DEF Filled
  <1>6. currentAddress' \in AddressRange
    BY <1>2 DEF usbFunctionWrite
  <1>7. events' \subseteq {"erase", "write", "execute"}
    BY DEF usbFunctionWrite, TypeOK
  <1> QED BY <1>4, <1>5, <1>6, <1>7

\* fillFlashWithVectors keeps its variables well-typed: the page it fills up
\* ends at or below the bootloader.
LEMMA FillTyped ==
  ASSUME TypeOK, NEW a \in Nat, FillPage(a)
  PROVE  /\ pageBuffer' \in [Offsets -> Word] /\ currentAddress' \in Nat
         /\ a < Entry => currentAddress' \in 0 .. Entry
PROOF
  <1>1. /\ a \in Int /\ PageOf(a) \in Int /\ OffsetOf(a) \in Offsets
        /\ a = PageWords * PageOf(a) + OffsetOf(a)
    BY AddressSplit, EntryFacts
  <1>2. a < Entry => PageOf(a) < AppPages
    BY PageBelowEntry, <1>1, EntryFacts
  <1>3. a < Entry => PageWords * (PageOf(a) + 1) =< PageWords * AppPages
    BY <1>1, <1>2, TimesMonotonic, GeometryAssumption
  <1>4. currentAddress' \in Nat /\ (a < Entry => currentAddress' \in 0 .. Entry)
    <2>1. currentAddress' = a - OffsetOf(a) + PageWords
      BY DEF FillPage
    <2>2. PageWords * AppPages = Entry
      BY GeometryAssumption DEF Entry
    <2>3. PageWords * (PageOf(a) + 1) = a - OffsetOf(a) + PageWords
      BY <1>1, GeometryAssumption DEF Offsets
    <2>4. a - OffsetOf(a) >= 0
      <3>1. PageOf(a) >= 0
        BY <1>1, EntryFacts, GeometryAssumption DEF PageOf
      <3>2. PageWords * 0 =< PageWords * PageOf(a)
        BY <1>1, <3>1, TimesMonotonic, GeometryAssumption
      <3> QED BY <1>1, <3>2, GeometryAssumption DEF Offsets
    <2> QED BY <1>1, <1>3, <2>1, <2>2, <2>3, <2>4, EntryFacts,
               GeometryAssumption DEF Offsets
  <1>5. \A o \in Offsets :
            And(pageBuffer[o], Patched(a - OffsetOf(a) + o, Blank, vectorTemp))
              \in Word
    <2> TAKE o \in Offsets
    <2>1. a - OffsetOf(a) + o \in Int
      BY <1>1 DEF Offsets
    <2>2. Patched(a - OffsetOf(a) + o, Blank, vectorTemp) \in Word
      BY <2>1, PatchedTyped, WordsTyped DEF TypeOK
    <2> QED BY <2>2, AndTyped DEF TypeOK
  <1> QED BY <1>4, <1>5 DEF FillPage, TypeOK

\* The bootloader starts at a page boundary.
LEMMA EntryAligned == PageOf(Entry) = AppPages /\ OffsetOf(Entry) = 0
PROOF
  <1>1. Entry \in Int /\ AppPages \in Int /\ 0 \in Offsets
        /\ Entry = AppPages * PageWords + 0
    BY EntryFacts, GeometryAssumption DEF Entry, Offsets
  <1> QED BY <1>1, SplitUnique

\* A jump ends in the bootloader or in the application.
LEMMA StageTyped ==
  ASSUME NEW f, NEW a
  PROVE  StageAt(f, a) \in {"start", "app"}
  BY DEF StageAt

\* Giving up a transfer leaves one that is complete.
LEMMA NoTransferTyped ==
  ASSUME host \in Transfer
  PROVE  NoTransfer \in Transfer /\ NoTransfer.sent = PacketsPerPage
  BY PacketFacts DEF NoTransfer, Transfer

\* The flash a device is shipped with.
LEMMA FactoryTyped == FactoryFlash \in [Addresses -> Word]
PROOF
  <1>1. \A w \in Addresses : addr2rjmp(Entry, w) \in Word
    BY EntryFacts, GeometryAssumption, RelocationTyped, WordsTyped DEF Addresses
  <1> QED BY <1>1, VectorsTyped, WordsTyped DEF FactoryFlash

\* The outcome of the page operation in progress is a flash image.
LEMMA PendingTyped ==
  ASSUME TypeOK
  PROVE  PendingFlash \in [Addresses -> Word]
PROOF
  <1>1. PageOf(currentAddress - 1) \in Int
    BY AddressSplit, InRange DEF TypeOK
  <1>2. NextErased \in Int
    BY GeometryAssumption DEF TypeOK, NextErased
  <1> QED BY <1>1, <1>2, PageOperationsTyped DEF PendingFlash, TypeOK

(***************************************************************************)
(* Type correctness.                                                       *)
(***************************************************************************)
LEMMA InitTyped == Init => TypeOK
PROOF
  <1> SUFFICES ASSUME Init PROVE TypeOK
    OBVIOUS
  <1>1. flash \in [Addresses -> Word] /\ pageBuffer \in [Offsets -> Word]
    BY FactoryTyped, WordsTyped DEF Init
  <1>2. currentAddress \in AddressRange /\ idlePolls \in 0 .. IdleModulus - 1
        /\ erasePage \in 0 .. AppPages
    BY EntryFacts, InRange, ModeAssumption, GeometryAssumption DEF Init
  <1>3. vectorTemp \in [{0, 1} -> LowBits]
    BY EntryFacts, GeometryAssumption DEF Init, LowBits
  <1>4. host \in Transfer
    BY PacketFacts, EntryFacts, InRange, GeometryAssumption DEF Init, Transfer
  <1> QED BY <1>1, <1>2, <1>3, <1>4 DEF Init, TypeOK, Stages

\* The steps of the device keep every variable well-typed.
LEMMA DeviceTyped == TypeOK /\ Device => TypeOK'
PROOF
  <1> SUFFICES ASSUME TypeOK, Device PROVE TypeOK'
    OBVIOUS
  <1>1. RamCleared => /\ currentAddress' \in AddressRange
                      /\ vectorTemp' \in [{0, 1} -> LowBits]
                      /\ events' \subseteq {"erase", "write", "execute"}
                      /\ rw' \in BOOLEAN
                      /\ idlePolls' \in 0 .. IdleModulus - 1
                      /\ erasePage' \in 0 .. AppPages
                      /\ magic' \in BOOLEAN
    <2>1. /\ 0 \in LowBits /\ 0 \in 0 .. Entry
          /\ 0 \in 0 .. IdleModulus - 1 /\ 0 \in 0 .. AppPages
      BY EntryFacts, ModeAssumption, GeometryAssumption DEF LowBits
    <2> QED BY <2>1, InRange DEF RamCleared
  <1>2. CASE EnterMainLoop
    BY <1>1, <1>2, WordsTyped DEF EnterMainLoop, TypeOK, Stages
  <1>3. CASE SkipMainLoop
    BY <1>1, <1>3 DEF SkipMainLoop, TypeOK, Stages
  <1>4. CASE PollNothing
    BY <1>4 DEF PollNothing, TypeOK, Stages, ram
  <1>5. CASE HandleErase
    <2>1. erasePage' \in 0 .. AppPages /\ pc' \in Stages
      BY <1>5, GeometryAssumption DEF HandleErase, TypeOK, Stages
    <2> QED BY <1>5, <2>1 DEF HandleErase, TypeOK
  <1>6. CASE ErasePage
    <2>1. erasePage' \in 0 .. AppPages /\ NextErased \in Int
      BY <1>6, GeometryAssumption DEF ErasePage, NextErased, TypeOK
    <2>2. flash' \in [Addresses -> Word]
      BY <1>6, <2>1, PageOperationsTyped DEF ErasePage, TypeOK
    <2> QED BY <1>6, <2>1, <2>2 DEF ErasePage, TypeOK
  <1>7. CASE FillVectors
    <2>1. 0 \in Nat /\ 0 < Entry
      BY EntryFacts
    <2>2. pageBuffer' \in [Offsets -> Word] /\ currentAddress' \in AddressRange
      BY <1>7, <2>1, FillTyped, InRange DEF FillVectors
    <2> QED BY <1>7, <2>2 DEF FillVectors, TypeOK, Stages
  <1>8. writeFlashPage => flash' \in [Addresses -> Word]
                          /\ pageBuffer' \in [Offsets -> Word]
    <2>1. PageOf(currentAddress - 1) \in Int
      BY AddressSplit, InRange DEF TypeOK
    <2> QED BY <2>1, PageOperationsTyped, WordsTyped DEF writeFlashPage, TypeOK
  <1>9. CASE WriteVectors
    BY <1>8, <1>9 DEF WriteVectors, TypeOK, Stages, ram
  <1>10. CASE HandleWrite
    <2>1. pageBuffer' \in [Offsets -> Word] /\ currentAddress' \in AddressRange
      <3>1. CASE FillPage(currentAddress) /\ OffsetOf(currentAddress) # 0
        <4>1. currentAddress \in Nat /\ (~LossyBus => currentAddress < Entry)
          BY <3>1, EntryAligned, EntryFacts, InRange DEF TypeOK
        <4> QED BY <3>1, <4>1, FillTyped DEF AddressRange
      <3>2. CASE UNCHANGED <<pageBuffer, currentAddress>>
        BY <3>2 DEF TypeOK
      <3> QED BY <1>10, <3>1, <3>2 DEF HandleWrite
    <2> QED BY <1>10, <2>1 DEF HandleWrite, TypeOK, Stages
  <1>11. CASE WritePage
    BY <1>8, <1>11 DEF WritePage, TypeOK, Stages, ram
  <1>12. CASE HandleExecute
    <2>1. NextIdle \in 0 .. IdleModulus - 1
      <3>1. \A n \in Nat : n % IdleModulus \in 0 .. IdleModulus - 1
        BY ModeAssumption, SMTT(20)
      <3>2. ExecuteIdle + 1 \in Nat /\ idlePolls + 1 \in Nat
        BY ModeAssumption DEF TypeOK
      <3> QED BY <3>1, <3>2 DEF NextIdle
    <2>2. events' \subseteq {"erase", "write", "execute"}
      BY <1>12 DEF HandleExecute, clearEvents, TypeOK
    <2>3. idlePolls' \in 0 .. IdleModulus - 1 /\ pc' \in Stages
      BY <1>12, <2>1 DEF HandleExecute, TypeOK, Stages
    <2> QED BY <1>12, <2>2, <2>3 DEF HandleExecute, TypeOK
  <1>13. CASE LeaveBootloader
    BY <1>13, StageTyped, NoTransferTyped
       DEF LeaveBootloader, TypeOK, Stages, ram
  <1> QED
    BY <1>2, <1>3, <1>4, <1>5, <1>6, <1>7, <1>9, <1>10, <1>11, <1>12, <1>13
       DEF Device

\* What a write request sets; on a clean bus it is for the start of a page.
LEMMA WriteAsked ==
  ASSUME SetupWrite
  PROVE  /\ currentAddress' \in AddressRange /\ host' \in Transfer
         /\ host'.sent = 0 /\ host'.start = currentAddress'
         /\ host'.page \in 0 .. AppPages - 1 /\ host'.image \in Images
         /\ ~LossyBus => currentAddress' = host'.page * PageWords
PROOF
  <1> PICK p \in 0 .. AppPages - 1, i \in Images :
              \E a \in {p * PageWords} \cup StrayStarts :
                  /\ currentAddress' = a
                  /\ host' = [page |-> p, start |-> a, sent |-> 0, image |-> i]
    BY DEF SetupWrite
  <1>1. PICK a \in {p * PageWords} \cup StrayStarts :
              /\ currentAddress' = a
              /\ host' = [page |-> p, start |-> a, sent |-> 0, image |-> i]
    OBVIOUS
  <1>2. 0 \in 0 .. PacketsPerPage - 1 /\ 0 \in 0 .. PacketWords - 1
        /\ 0 \in 0 .. PacketsPerPage
    BY PacketFacts
  <1>3. p * PageWords \in 0 .. Entry
    BY <1>2, PacketPlace
  <1>4. StrayStarts \subseteq Nat /\ (~LossyBus => a = p * PageWords)
    BY StartsAssumption, GeometryAssumption
  <1>5. a \in AddressRange
    BY <1>3, <1>4, EntryFacts DEF AddressRange
  <1>6. host' \in Transfer
    BY <1>1, <1>2, <1>5 DEF Transfer
  <1> QED BY <1>1, <1>4, <1>5, <1>6

\* So do the packets of the bus.
LEMMA BusTyped == TypeOK /\ Bus => TypeOK'
PROOF
  <1> SUFFICES ASSUME TypeOK, Bus PROVE TypeOK'
    OBVIOUS
  <1>1. 0 \in 0 .. IdleModulus - 1 /\ NoTransfer \in Transfer
    BY ModeAssumption, NoTransferTyped DEF TypeOK
  <1>2. CASE SetupStandard
    BY <1>1, <1>2 DEF SetupStandard, Setup, TypeOK, Stages
  <1>3. CASE SetupInfo
    BY <1>1, <1>3 DEF SetupInfo, Setup, TypeOK, Stages
  <1>4. CASE SetupWrite
    <2>1. /\ currentAddress' \in AddressRange /\ host' \in Transfer
      BY <1>4, WriteAsked
    <2> QED BY <1>1, <1>4, <2>1 DEF SetupWrite, Setup, TypeOK, Stages
  <1>5. CASE SetupErase
    BY <1>1, <1>5 DEF SetupErase, Setup, TypeOK, Stages
  <1>6. CASE SetupExecute
    BY <1>1, <1>6 DEF SetupExecute, Setup, TypeOK, Stages
  <1>7. host.sent \in 0 .. PacketsPerPage
    BY DEF TypeOK, Transfer
  <1>8. CASE RecvData
    <2>1. host.sent \in 0 .. PacketsPerPage - 1
      BY <1>7, <1>8, PacketFacts DEF RecvData, TransferDone
    <2>2. PacketData(host.sent) \in [0 .. PacketWords - 1 -> Word]
      BY <2>1, PacketTyped DEF TypeOK
    <2>3. /\ vectorTemp' \in [{0, 1} -> LowBits]
          /\ pageBuffer' \in [Offsets -> Word]
          /\ currentAddress' \in AddressRange
          /\ events' \subseteq {"erase", "write", "execute"}
      BY <1>8, <2>2, WriteTyped DEF RecvData
    <2>4. host' \in Transfer
      BY <1>8, <2>1, PacketFacts DEF RecvData, TypeOK, Transfer
    <2> QED BY <1>8, <2>3, <2>4 DEF RecvData, TypeOK, Stages
  <1>9. CASE RecvDuplicate
    <2>1. host.sent - 1 \in 0 .. PacketsPerPage - 1
      BY <1>7, <1>9, PacketFacts DEF RecvDuplicate
    <2>2. PacketData(host.sent - 1) \in [0 .. PacketWords - 1 -> Word]
      BY <2>1, PacketTyped DEF TypeOK
    <2>3. /\ vectorTemp' \in [{0, 1} -> LowBits]
          /\ pageBuffer' \in [Offsets -> Word]
          /\ currentAddress' \in AddressRange
          /\ events' \subseteq {"erase", "write", "execute"}
      BY <1>9, <2>2, WriteTyped DEF RecvDuplicate
    <2> QED BY <1>9, <2>3 DEF RecvDuplicate, TypeOK, Stages
  <1>10. CASE MisroutedInterrupt
    BY <1>1, <1>10, StageTyped DEF MisroutedInterrupt, TypeOK, Stages, ram
  <1> QED BY <1>2, <1>3, <1>4, <1>5, <1>6, <1>8, <1>9, <1>10 DEF Bus

\* And so does the world outside.
LEMMA WorldTyped == TypeOK /\ World => TypeOK'
PROOF
  <1> SUFFICES ASSUME TypeOK, World PROVE TypeOK'
    OBVIOUS
  <1>1. CASE AppRestarts
    <2>1. pageBuffer' \in [Offsets -> Word]
      BY <1>1, WordsTyped DEF AppRestarts
    <2> QED BY <1>1, <2>1, StageTyped DEF AppRestarts, TypeOK, Stages, ram
  <1>2. CASE AppRuns
    BY <1>2 DEF AppRuns, vars, ram, TypeOK
  <1>3. CASE PowerCycle
    <2>1. flash' \in [Addresses -> Word]
      BY <1>3, PendingTyped DEF PowerCycle, TypeOK
    <2>2. tornVectors' \in BOOLEAN /\ pc' \in Stages
      BY <1>3, StageTyped DEF PowerCycle, Stages
    <2> QED BY <1>3, <2>1, <2>2, WordsTyped, NoTransferTyped
            DEF PowerCycle, TypeOK, ram
  <1>4. CASE FallSilent
    BY <1>4 DEF FallSilent, TypeOK, ram
  <1> QED BY <1>1, <1>2, <1>3, <1>4 DEF World

\* Type correctness is inductive.
LEMMA NextTyped == TypeOK /\ [Next]_vars => TypeOK'
PROOF
  <1> SUFFICES ASSUME TypeOK, [Next]_vars PROVE TypeOK'
    OBVIOUS
  <1>1. CASE UNCHANGED vars
    BY <1>1 DEF TypeOK, vars, ram
  <1> QED BY <1>1, DeviceTyped, BusTyped, WorldTyped DEF Next

\* The model ends where the bootloader was written over; its steps are steps of
\* the device, the bus or the world.
LEMMA StepIsNext == [NextIntact]_vars => [Next]_vars
  BY DEF NextIntact, WrittenOver

\* Every variable keeps its type in every behaviour of the device, on a lossy
\* bus too; on a clean one, currentAddress stays within the application's flash.
THEOREM TypeCorrect == Spec => []TypeOK
PROOF
  <1>1. Init => TypeOK
    BY InitTyped
  <1>2. TypeOK /\ [Next]_vars => TypeOK'
    BY NextTyped
  <1> QED BY <1>1, <1>2, StepIsNext, PTL DEF Spec

(***************************************************************************)
(* The bootloader's own code.                                              *)
(***************************************************************************)
\* A step leaves each word of flash alone or gives it the contents the page
\* operation in progress is about to give it.
LEMMA FlashStep ==
  ASSUME TypeOK, [Next]_vars
  PROVE  \A w \in Addresses : flash'[w] \in {flash[w], PendingFlash[w]}
PROOF
  <1>1. CASE ErasePage
    BY <1>1 DEF ErasePage, PendingFlash
  <1>2. CASE WriteVectors
    BY <1>2 DEF WriteVectors, writeFlashPage, PendingFlash
  <1>3. CASE WritePage
    BY <1>3 DEF WritePage, writeFlashPage, PendingFlash
  <1>4. CASE PowerCycle
    BY <1>4 DEF PowerCycle
  <1>5. CASE UNCHANGED flash
    BY <1>5
  <1>6. Device => UNCHANGED flash \/ ErasePage \/ WriteVectors \/ WritePage
    BY DEF Device, EnterMainLoop, SkipMainLoop, PollNothing, HandleErase,
           FillVectors, HandleWrite, HandleExecute, LeaveBootloader
  <1>7. Bus => UNCHANGED flash
    BY DEF Bus, SetupStandard, SetupInfo, SetupWrite, SetupErase,
           SetupExecute, Setup, RecvData, RecvDuplicate, MisroutedInterrupt
  <1>8. World => UNCHANGED flash \/ PowerCycle
    BY DEF World, AppRestarts, AppRuns, FallSilent, vars
  <1>9. UNCHANGED vars => UNCHANGED flash
    BY DEF vars
  <1> QED BY <1>1, <1>2, <1>3, <1>4, <1>5, <1>6, <1>7, <1>8, <1>9 DEF Next

\* A page operation reaches a word at or above the bootloader's entry only
\* when it is the write of a page that ends behind it.
LEMMA BootloaderOutOfReach ==
  ASSUME TypeOK, NEW w \in Addresses, w >= Entry,
         currentAddress =< Entry \/ pc \notin {"vectors", "write"}
  PROVE  PendingFlash[w] = flash[w]
PROOF
  <1>1. w \in Int /\ PageOf(w) \in Int /\ PageOf(w) >= AppPages
    BY AddressSplit, PageBelowEntry, EntryFacts, GeometryAssumption
       DEF Addresses
  <1>2. currentAddress \in Nat /\ PageOf(currentAddress - 1) \in Int
    BY AddressSplit, InRange DEF TypeOK
  <1>3. currentAddress =< Entry => PageOf(currentAddress - 1) < AppPages
    BY <1>2, PageBelowEntry, EntryFacts
  <1>4. currentAddress =< Entry => PageOf(w) # PageOf(currentAddress - 1)
    BY <1>1, <1>2, <1>3, GeometryAssumption
  <1>5. erasePage > 0 => PageOf(w) # NextErased
    BY <1>1, GeometryAssumption DEF NextErased, TypeOK
  <1> QED BY <1>4, <1>5 DEF PendingFlash, Erased, Programmed

\* currentAddress gets behind the bootloader's entry only with a transfer that
\* was asked for there, and is at the end of page 0 for its vectors.
AddressInv ==
    /\ currentAddress > Entry => host.start > Entry
    /\ pc = "vectors" => currentAddress = PageWords

LEMMA InitAddress == Init => AddressInv
  BY EntryFacts DEF Init, AddressInv

LEMMA AddressStep ==
  ASSUME TypeOK, AddressInv, [Next]_vars
  PROVE  AddressInv'
PROOF
  <1>1. /\ currentAddress \in Nat /\ host.start \in Nat
        /\ NoTransfer.start = host.start
    BY InRange DEF TypeOK, Transfer, NoTransfer
  <1>2. CASE RamCleared /\ pc' # "vectors"
    BY <1>2, EntryFacts DEF RamCleared, AddressInv
  <1>3. CASE /\ UNCHANGED currentAddress /\ host'.start = host.start
             /\ pc' = pc \/ pc' # "vectors"
    BY <1>3 DEF AddressInv
  <1>4. CASE FillVectors
    <2>1. 0 \in Offsets /\ OffsetOf(0) = 0
      BY PageZero, GeometryAssumption DEF Offsets
    <2>2. currentAddress' = PageWords
      BY <1>4, <2>1, GeometryAssumption DEF FillVectors, FillPage
    <2> QED BY <2>2, EntryFacts, GeometryAssumption DEF AddressInv
  <1>5. CASE HandleWrite
    <2>1. pc' # "vectors" /\ host' = host
      BY <1>5 DEF HandleWrite
    <2>2. CASE FillPage(currentAddress) /\ OffsetOf(currentAddress) # 0
      <3>1. currentAddress # Entry
        BY <2>2, EntryAligned
      <3>2. currentAddress < Entry => currentAddress' \in 0 .. Entry
        BY <1>1, <2>2, FillTyped
      <3> QED BY <1>1, <2>1, <3>1, <3>2, EntryFacts DEF AddressInv
    <2>3. CASE UNCHANGED currentAddress
      BY <2>1, <2>3 DEF AddressInv
    <2> QED BY <1>5, <2>2, <2>3 DEF HandleWrite
  <1>6. CASE SetupWrite
    <2>1. currentAddress' = host'.start /\ pc' = "handle"
      BY <1>6 DEF SetupWrite, Setup
    <2> QED BY <2>1 DEF AddressInv
  <1>7. CASE RecvData \/ RecvDuplicate
    <2>1. /\ currentAddress' = currentAddress + Accepted(currentAddress)
          /\ pc' = "handle"
      BY <1>7 DEF RecvData, RecvDuplicate, usbFunctionWrite
    <2>2. host'.start = host.start
      BY <1>7 DEF RecvData, RecvDuplicate, TypeOK, Transfer
    <2> QED BY <1>1, <2>1, <2>2, AcceptedStops, EntryFacts DEF AddressInv
  <1>8. Device => \/ RamCleared /\ pc' # "vectors"
                  \/ FillVectors \/ HandleWrite
                  \/ /\ UNCHANGED currentAddress /\ host'.start = host.start
                     /\ pc' = pc \/ pc' # "vectors"
    BY <1>1, StageTyped
       DEF Device, EnterMainLoop, SkipMainLoop, PollNothing, HandleErase,
           ErasePage, WriteVectors, WritePage, HandleExecute, LeaveBootloader,
           ram
  <1>9. Bus => \/ SetupWrite \/ RecvData \/ RecvDuplicate
               \/ /\ UNCHANGED currentAddress /\ host'.start = host.start
                  /\ pc' # "vectors"
    BY <1>1, StageTyped
       DEF Bus, SetupStandard, SetupInfo, SetupErase, SetupExecute, Setup,
           MisroutedInterrupt, ram
  <1>10. World \/ UNCHANGED vars =>
            /\ UNCHANGED currentAddress /\ host'.start = host.start
            /\ pc' = pc \/ pc' # "vectors"
    BY <1>1, StageTyped
       DEF World, AppRestarts, AppRuns, PowerCycle, FallSilent, vars, ram
  <1> QED
    BY <1>2, <1>3, <1>4, <1>5, <1>6, <1>7, <1>8, <1>9, <1>10 DEF Next

\* A step that changes the bootloader is the write of a page, or a power
\* failure in it, and that page was asked for.
LEMMA KeptStep ==
  ASSUME TypeOK, AddressInv, [Next]_vars,
         NEW w \in Addresses, w >= Entry, flash'[w] # flash[w]
  PROVE  pc = "write" /\ host.start > Entry
PROOF
  <1>1. flash'[w] = PendingFlash[w]
    BY FlashStep
  <1>2. ~(currentAddress =< Entry \/ pc \notin {"vectors", "write"})
    BY <1>1, BootloaderOutOfReach
  <1>3. currentAddress \in Nat
    BY InRange DEF TypeOK
  <1> QED
    BY <1>2, <1>3, EntryFacts, GeometryAssumption DEF AddressInv, Entry

\* No step changes a word of the bootloader while no write behind its entry is
\* asked for.
LEMMA IntactStep ==
  ASSUME TypeOK, BootloaderIntact, currentAddress =< Entry, [Next]_vars
  PROVE  BootloaderIntact'
  BY FlashStep, BootloaderOutOfReach DEF BootloaderIntact

LEMMA IntactStepClean ==
  ASSUME TypeOK, BootloaderIntact, ~LossyBus, [Next]_vars
  PROVE  BootloaderIntact'
  BY IntactStep, InRange, EntryFacts DEF TypeOK

\* The reset vector and the bootloader of a device as shipped.
LEMMA FactoryWords ==
    /\ FactoryFlash[0] = ToEntry
    /\ \A w \in Addresses : w >= Entry => FactoryFlash[w] = BootCode
PROOF
  <1>1. 0 \in Addresses /\ 0 \in Offsets \ {UsbVector} /\ ~(0 >= Entry)
        /\ 0 \notin {AppReset, AppUsb, StoredOsccal}
    BY EntryFacts, GeometryAssumption
       DEF Addresses, Offsets, AppReset, AppUsb, StoredOsccal
  <1>2. FactoryFlash[0] = ToEntry
    BY <1>1 DEF FactoryFlash, ToEntry
  <1>3. \A w \in Addresses : w >= Entry =>
            w \notin Offsets /\ w # UsbVector
            /\ w \notin {AppReset, AppUsb, StoredOsccal}
    BY EntryFacts, GeometryAssumption
       DEF Addresses, Offsets, AppReset, AppUsb, StoredOsccal
  <1>4. \A w \in Addresses : w >= Entry => FactoryFlash[w] = BootCode
    BY <1>3 DEF FactoryFlash
  <1> QED BY <1>2, <1>4

\* The bootloader is there from the start.
LEMMA InitIntact == Init => BootloaderIntact
  BY FactoryWords DEF Init, BootloaderIntact

\* Whatever a write is asked for, the bootloader's own words change in the
\* write of a page that was asked for behind its entry and in no other step:
\* however packets are dropped, repeated or run over the end of a page, and
\* whenever the power fails.
THEOREM Kept == Spec => BootloaderKept
PROOF
  <1>1. Init => AddressInv
    BY InitAddress
  <1>2. TypeOK /\ AddressInv /\ [Next]_vars => AddressInv'
    BY AddressStep
  <1>3. TypeOK /\ AddressInv /\ [Next]_vars =>
          [\A w \in Addresses :
              w >= Entry /\ flash'[w] # flash[w]
                  => pc = "write" /\ host.start > Entry]_vars
    BY KeptStep
  <1> QED BY <1>1, <1>2, <1>3, TypeCorrect, StepIsNext, PTL DEF Spec, BootloaderKept

\* So it stays as it is when no write is asked for behind its entry, wherever
\* below it one starts.
THEOREM Intact ==
  (\A a \in StrayStarts : a =< Entry) => (Spec => []BootloaderIntact)
PROOF
  <1> SUFFICES ASSUME \A a \in StrayStarts : a =< Entry
               PROVE  Spec => []BootloaderIntact
    OBVIOUS
  <1>1. Init => BootloaderIntact
    BY InitIntact
  <1> DEFINE Below == host.start =< Entry
  <1>2. Init => Below
    BY EntryFacts DEF Init
  <1>3. TypeOK /\ Below /\ [Next]_vars => Below'
    <2> SUFFICES ASSUME TypeOK, Below, [Next]_vars PROVE Below'
      OBVIOUS
    <2>1. host'.start = host.start \/ SetupWrite
      <3>1. NoTransfer.start = host.start
        BY DEF TypeOK, Transfer, NoTransfer
      <3>2. host' \in {host, NoTransfer} \/ RecvData \/ SetupWrite
        BY DEF Next, Device, EnterMainLoop, SkipMainLoop, PollNothing,
               HandleErase, ErasePage, FillVectors, WriteVectors, HandleWrite,
               WritePage, HandleExecute, LeaveBootloader, Bus, SetupStandard,
               SetupInfo, SetupErase, SetupExecute, RecvDuplicate,
               MisroutedInterrupt, World, AppRestarts, AppRuns, PowerCycle,
               FallSilent, vars
      <3> QED BY <3>1, <3>2 DEF RecvData, TypeOK, Transfer
    <2>2. CASE SetupWrite
      <3>1. PICK p \in 0 .. AppPages - 1 :
                    host'.start \in {p * PageWords} \cup StrayStarts
        BY <2>2 DEF SetupWrite
      <3>2. 0 \in 0 .. PacketsPerPage - 1 /\ 0 \in 0 .. PacketWords - 1
        BY PacketFacts
      <3> QED BY <3>1, <3>2, PacketPlace, EntryFacts
    <2> QED BY <2>1, <2>2
  <1>4. TypeOK /\ AddressInv /\ Below /\ BootloaderIntact /\ [Next]_vars
            => BootloaderIntact'
    <2> SUFFICES ASSUME TypeOK, AddressInv, Below, BootloaderIntact, [Next]_vars
                 PROVE  BootloaderIntact'
      OBVIOUS
    <2>1. currentAddress \in Nat /\ host.start \in Nat
      BY InRange DEF TypeOK, Transfer
    <2>2. currentAddress =< Entry
      BY <2>1, EntryFacts DEF AddressInv
    <2> QED BY <2>2, IntactStep
  <1>5. Spec => []AddressInv
    BY InitAddress, AddressStep, TypeCorrect, StepIsNext, PTL DEF Spec
  <1> HIDE DEF Below
  <1> QED BY <1>1, <1>2, <1>3, <1>4, <1>5, TypeCorrect, StepIsNext, PTL DEF Spec

(***************************************************************************)
(* The way back after a power failure.                                     *)
(***************************************************************************)
LEMMA ToEntryNotBlank == ToEntry # Blank
  BY DEF ToEntry, addr2rjmp, Blank

\* A host that is heard when the reset vector may be trusted finds it set.
LEMMA AliveMeansVectors ==
  ASSUME BootloaderIntact, VectorInv, UsbAlive, ~tornVectors
  PROVE  flash[0] = ToEntry
PROOF
  <1> SUFFICES ASSUME flash[0] = Blank PROVE FALSE
    BY DEF VectorInv
  <1>1. \A w \in AppWords : flash[w] = Blank
    BY DEF VectorInv
  <1>2. UsbVector \in AppWords /\ Entry \in Addresses
    BY EntryFacts, GeometryAssumption DEF AppWords, Addresses
  <1>3. flash[Entry] = BootCode
    BY <1>2, EntryFacts DEF BootloaderIntact
  <1>4. Landing(flash, UsbVector) = Entry
    BY <1>1, <1>2, <1>3, BlankLands
  <1> QED BY <1>4, EntryFacts DEF UsbAlive, Isr

\* The invariant is enough.
LEMMA InvBoots ==
  ASSUME SafetyInv
  PROVE  ResetReachesBootloader
PROOF
  <1> SUFFICES ASSUME ~LossyBus, ~tornVectors
               PROVE  Destination(flash, 0) = Entry
    BY DEF ResetReachesBootloader
  <1>1. CASE flash[0] = ToEntry
    BY <1>1, ToEntryLands
  <1>2. CASE flash[0] = Blank
    <2>1. \A w \in AppWords : flash[w] = Blank
      BY <1>2 DEF SafetyInv, VectorInv
    <2>2. 0 \in AppWords /\ flash[Entry] = BootCode
      BY EntryFacts, GeometryAssumption
         DEF AppWords, Addresses, SafetyInv, BootloaderIntact
    <2> QED BY <2>1, <2>2, BlankLands
  <1> QED BY <1>1, <1>2 DEF SafetyInv, VectorInv

\* A device as shipped satisfies the inductive invariant.
LEMMA InitSafe == Init => SafetyInv
PROOF
  <1> SUFFICES ASSUME Init PROVE SafetyInv
    OBVIOUS
  <1>2. flash[0] = ToEntry
    BY FactoryWords DEF Init
  <1>3. VectorInv
    BY <1>2, ToEntryNotBlank DEF VectorInv, Init
  <1>4. EventInv /\ EraseInv
    BY DEF EventInv, EraseInv, Init
  <1>5. BufferInv
    BY DEF BufferInv, Init, TransferDone, Looping
  <1> QED BY <1>3, <1>4, <1>5, InitIntact DEF SafetyInv

\* Every word below the bootloader has a page between 0 and AppPages - 1.
LEMMA AppWordPages ==
  ASSUME NEW w \in AppWords
  PROVE  w \in Addresses /\ PageOf(w) \in 0 .. AppPages - 1
PROOF
  <1>1. w \in Nat /\ w < Entry /\ w \in Addresses
    BY EntryFacts, GeometryAssumption DEF AppWords, Addresses
  <1>2. PageOf(w) \in Int /\ PageOf(w) < AppPages
    BY <1>1, AddressSplit, PageBelowEntry
  <1>3. PageOf(w) >= 0
    BY <1>1, GeometryAssumption, SMTT(20) DEF PageOf
  <1> QED BY <1>1, <1>2, <1>3, GeometryAssumption

\* The pages behind the erase loop stay blank.
LEMMA EraseInvStep ==
  ASSUME TypeOK, EraseInv, [Next]_vars
  PROVE  EraseInv'
PROOF
  <1>1. CASE ErasePage
    <2>1. pc' = "erase" /\ flash' = Erased(flash, erasePage - 1)
          /\ erasePage' = erasePage - 1 /\ erasePage \in 0 .. AppPages
          /\ pc = "erase"
      BY <1>1 DEF ErasePage, NextErased, TypeOK
    <2>2. ASSUME NEW w \in AppWords, PageOf(w) >= erasePage'
          PROVE  flash'[w] = Blank
      <3>1. w \in Addresses /\ PageOf(w) \in 0 .. AppPages - 1
        BY AppWordPages
      <3>2. CASE PageOf(w) = erasePage - 1
        BY <2>1, <3>1, <3>2 DEF Erased
      <3>3. CASE PageOf(w) >= erasePage
        <4>1. flash[w] = Blank
          BY <2>1, <3>3 DEF EraseInv
        <4> QED BY <2>1, <3>1, <4>1 DEF Erased
      <3> QED BY <2>1, <2>2, <3>1, <3>2, <3>3, GeometryAssumption
    <2> QED BY <2>1, <2>2 DEF EraseInv
  <1>2. CASE HandleErase
    <2>1. pc' # "vectors" /\ (pc' = "erase" => erasePage' = AppPages)
      BY <1>2 DEF HandleErase
    <2>2. \A w \in AppWords : ~(PageOf(w) >= AppPages)
      BY AppWordPages, GeometryAssumption
    <2> QED BY <2>1, <2>2 DEF EraseInv
  <1>3. CASE FillVectors
    <2>1. pc = "erase" /\ erasePage = 0 /\ pc' = "vectors" /\ flash' = flash
      BY <1>3 DEF FillVectors
    <2>2. \A w \in AppWords : PageOf(w) >= 0
      BY AppWordPages
    <2> QED BY <2>1, <2>2 DEF EraseInv
  <1>4. CASE UNCHANGED <<flash, pc, erasePage>>
    BY <1>4 DEF EraseInv
  <1>5. CASE pc' \notin {"erase", "vectors"}
    BY <1>5 DEF EraseInv
  <1>6. Device => \/ ErasePage \/ HandleErase \/ FillVectors
                  \/ pc' \notin {"erase", "vectors"}
    BY StageTyped
       DEF Device, EnterMainLoop, SkipMainLoop, PollNothing, WriteVectors,
           HandleWrite, WritePage, HandleExecute, LeaveBootloader
  <1>7. Bus => pc' \notin {"erase", "vectors"}
    BY StageTyped
       DEF Bus, SetupStandard, SetupInfo, SetupWrite, SetupErase,
           SetupExecute, Setup, RecvData, RecvDuplicate, MisroutedInterrupt
  <1>8. World => UNCHANGED <<flash, pc, erasePage>>
                 \/ pc' \notin {"erase", "vectors"}
    BY StageTyped
       DEF World, AppRestarts, AppRuns, FallSilent, PowerCycle, vars, ram
  <1>9. UNCHANGED vars => UNCHANGED <<flash, pc, erasePage>>
    BY DEF vars, ram
  <1> QED BY <1>1, <1>2, <1>3, <1>4, <1>5, <1>6, <1>7, <1>8, <1>9 DEF Next

\* Events are raised only in a poll, which starts with none.
LEMMA EventInvStep ==
  ASSUME TypeOK, EventInv, [Next]_vars
  PROVE  EventInv'
PROOF
  <1>1. CASE UNCHANGED <<events, pc>>
    BY <1>1 DEF EventInv
  <1>2. ASSUME pc = "poll", pc' = "handle",
               events' \subseteq events \cup {"execute"}
               \/ events' \subseteq events \cup {"write"}
               \/ events' \subseteq events \cup {"erase"}
        PROVE  EventInv'
    BY <1>2 DEF EventInv
  <1>3. ASSUME pc' \in {"start", "leave", "app"}, events' \subseteq events
        PROVE  EventInv'
    BY <1>3 DEF EventInv
  <1>4. ASSUME events' = {}, pc' \notin {"erase", "vectors", "write"}
        PROVE  EventInv'
    BY <1>4 DEF EventInv
  <1>5. CASE EnterMainLoop \/ SkipMainLoop
    BY <1>4, <1>5 DEF EnterMainLoop, SkipMainLoop, RamCleared
  <1>6. CASE PollNothing
    BY <1>2, <1>6 DEF PollNothing, ram
  <1>7. CASE HandleErase
    BY <1>7 DEF HandleErase, EventInv
  <1>8. CASE ErasePage
    BY <1>1, <1>8 DEF ErasePage
  <1>9. CASE FillVectors
    BY <1>9 DEF FillVectors, EventInv
  <1>10. CASE WriteVectors
    BY <1>10 DEF WriteVectors, EventInv, ram
  <1>11. CASE HandleWrite
    BY <1>11 DEF HandleWrite, EventInv
  <1>12. CASE WritePage
    BY <1>12 DEF WritePage, EventInv, ram
  <1>13. CASE HandleExecute
    BY <1>3, <1>4, <1>13 DEF HandleExecute, clearEvents
  <1>14. CASE LeaveBootloader
    BY <1>3, <1>14, StageTyped DEF LeaveBootloader, ram
  <1>15. CASE Bus
    <2>1. CASE SetupStandard \/ SetupInfo \/ SetupWrite \/ SetupErase
               \/ SetupExecute
      BY <1>2, <2>1 DEF SetupStandard, SetupInfo, SetupWrite, SetupErase,
                        SetupExecute, Setup
    <2>2. CASE RecvData \/ RecvDuplicate
      BY <1>2, <2>2 DEF RecvData, RecvDuplicate, usbFunctionWrite
    <2>3. CASE MisroutedInterrupt
      BY <1>3, <2>3, StageTyped DEF MisroutedInterrupt, ram
    <2> QED BY <1>15, <2>1, <2>2, <2>3 DEF Bus
  <1>16. CASE World
    <2>1. CASE AppRestarts \/ PowerCycle
      BY <1>3, <2>1, StageTyped DEF AppRestarts, PowerCycle, ram
    <2>2. CASE AppRuns \/ FallSilent
      BY <1>1, <2>2 DEF AppRuns, FallSilent, vars, ram
    <2> QED BY <1>16, <2>1, <2>2 DEF World
  <1>17. CASE UNCHANGED vars
    BY <1>1, <1>17 DEF vars, ram
  <1> QED
    BY <1>5, <1>6, <1>7, <1>8, <1>9, <1>10, <1>11, <1>12, <1>13, <1>14,
       <1>15, <1>16, <1>17 DEF Next, Device

\* The word at 0 after a page operation.
LEMMA AndReset ==
  /\ And(Blank, ToEntry) = ToEntry
  /\ And(ToEntry, ToEntry) = ToEntry
  BY ToEntryNotBlank DEF And

\* The reset vector is the first word of the first page.
LEMMA WordZero ==
    /\ 0 \in Addresses /\ 0 \in AppWords /\ 0 \in Offsets
    /\ PageOf(0) = 0 /\ OffsetOf(0) = 0
    /\ PageOf(PageWords - 1) = 0
  BY PageZero, EntryFacts, GeometryAssumption DEF Addresses, AppWords, Offsets

\* The page operation in progress leaves a reset vector that is the
\* bootloader's or blank; a page write leaves the bootloader's.
LEMMA PendingReset ==
  ASSUME TypeOK, EraseInv, VectorInv, EventInv, BufferInv
  PROVE  /\ PendingFlash[0] \in {ToEntry, Blank}
         /\ pc = "vectors" => PendingFlash[0] = ToEntry
         /\ pc = "write" /\ ~tornVectors => PendingFlash[0] = ToEntry
PROOF
  <1>1. CASE pc = "erase" /\ erasePage > 0
    BY <1>1, WordZero DEF PendingFlash, Erased, VectorInv
  <1>2. CASE pc = "vectors"
    <2>1. flash[0] = Blank
      BY <1>2, WordZero DEF EraseInv
    <2>2. currentAddress = PageWords /\ pageBuffer[0] = ToEntry
      BY <1>2 DEF BufferInv
    <2> QED BY <1>2, <2>1, <2>2, AndReset, WordZero
            DEF PendingFlash, Programmed
  <1>3. CASE pc = "write"
    <2>1. "write" \in events
      BY <1>3 DEF EventInv
    <2>2. PageOf(currentAddress - 1) = 0 => pageBuffer[0] = ToEntry
      BY <1>3, <2>1 DEF BufferInv
    <2>3. PendingFlash = Programmed(flash, PageOf(currentAddress - 1),
                                    pageBuffer)
      BY <1>3 DEF PendingFlash
    <2>4. PendingFlash[0] \in {flash[0], ToEntry}
      BY <2>2, <2>3, AndReset, WordZero DEF Programmed, VectorInv
    <2> QED BY <1>3, <2>1, <2>4 DEF VectorInv
  <1>4. CASE /\ ~(pc = "erase" /\ erasePage > 0)
             /\ pc \notin {"vectors", "write"}
    BY <1>4 DEF PendingFlash, VectorInv
  <1> QED BY <1>1, <1>2, <1>3, <1>4

\* A blank reset vector still means blank flash when an erase that has not
\* come to page 0 is in progress.
LEMMA PendingBlank ==
  ASSUME TypeOK, VectorInv, ~tornVectors, pc = "erase", flash[0] = Blank
  PROVE  \A w \in AppWords : PendingFlash[w] = Blank
  BY AppWordPages DEF VectorInv, PendingFlash, Erased

\* The reset vector survives every step.
LEMMA VectorInvStep ==
  ASSUME TypeOK, SafetyInv, ~LossyBus, [Next]_vars
  PROVE  VectorInv'
PROOF
  <1>1. BootloaderIntact /\ EraseInv /\ VectorInv /\ EventInv /\ BufferInv
    BY DEF SafetyInv
  <1>2. ASSUME UNCHANGED <<flash, tornVectors>>,
               /\ "write" \in events'
               /\ pc' \in {"handle", "handleWrite", "write"}
               => \/ UsbAlive
                  \/ "write" \in events
                     /\ pc \in {"handle", "handleWrite", "write"}
        PROVE  VectorInv'
    BY <1>1, <1>2, AliveMeansVectors DEF VectorInv
  <1>3. CASE EnterMainLoop \/ SkipMainLoop
    BY <1>2, <1>3 DEF EnterMainLoop, SkipMainLoop, RamCleared
  <1>4. CASE PollNothing
    BY <1>1, <1>2, <1>4 DEF PollNothing, ram, EventInv
  <1>5. CASE HandleErase
    BY <1>2, <1>5 DEF HandleErase
  <1>6. CASE ErasePage
    <2>1. flash' = Erased(flash, NextErased) /\ pc' = "erase"
          /\ pc = "erase" /\ erasePage \in 1 .. AppPages
          /\ tornVectors' = tornVectors /\ erasePage' = NextErased
      BY <1>6, GeometryAssumption DEF ErasePage, NextErased, TypeOK
    <2>2. flash'[0] \in {flash[0], Blank}
      BY <2>1, WordZero DEF Erased
    <2>3. ASSUME ~tornVectors', flash'[0] = Blank, NEW w \in AppWords
          PROVE  flash'[w] = Blank
      <3>1. w \in Addresses /\ PageOf(w) \in 0 .. AppPages - 1
        BY AppWordPages
      <3>2. CASE NextErased = 0
        <4>1. EraseInv'
          BY <1>1, EraseInvStep
        <4> QED BY <2>1, <3>1, <3>2, <4>1 DEF EraseInv
      <3>3. CASE NextErased # 0
        <4>1. flash[0] = Blank
          BY <2>1, <2>3, <3>3, WordZero DEF Erased
        <4>2. flash[w] = Blank
          BY <1>1, <2>1, <2>3, <4>1 DEF VectorInv
        <4> QED BY <2>1, <3>1, <4>2 DEF Erased
      <3> QED BY <3>2, <3>3
    <2> QED BY <1>1, <2>1, <2>2, <2>3 DEF VectorInv
  <1>7. CASE FillVectors
    BY <1>2, <1>7 DEF FillVectors
  <1>8. CASE WriteVectors
    <2>1. flash' = PendingFlash /\ pc = "vectors"
      BY <1>8 DEF WriteVectors, writeFlashPage, PendingFlash
    <2>2. flash'[0] = ToEntry
      BY <1>1, <2>1, PendingReset
    <2> QED BY <2>2, ToEntryNotBlank DEF VectorInv
  <1>9. CASE HandleWrite
    BY <1>2, <1>9 DEF HandleWrite
  <1>10. CASE WritePage
    <2>1. flash' = PendingFlash /\ pc = "write" /\ pc' = "handleExecute"
          /\ tornVectors' = tornVectors
      BY <1>10 DEF WritePage, writeFlashPage, PendingFlash
    <2>2. /\ flash'[0] \in {ToEntry, Blank}
          /\ ~tornVectors => flash'[0] = ToEntry
      BY <1>1, <2>1, PendingReset
    <2> QED BY <2>1, <2>2, ToEntryNotBlank DEF VectorInv
  <1>11. CASE HandleExecute
    BY <1>2, <1>11 DEF HandleExecute
  <1>12. CASE LeaveBootloader
    BY <1>2, <1>12, StageTyped DEF LeaveBootloader
  <1>13. CASE Bus
    <2>1. CASE SetupStandard \/ SetupInfo \/ SetupWrite \/ SetupErase
               \/ SetupExecute
      BY <1>2, <2>1 DEF SetupStandard, SetupInfo, SetupWrite, SetupErase,
                        SetupExecute, Setup
    <2>2. CASE RecvData \/ RecvDuplicate
      BY <1>2, <2>2 DEF RecvData, RecvDuplicate
    <2>3. CASE MisroutedInterrupt
      BY <1>2, <2>3, StageTyped DEF MisroutedInterrupt
    <2> QED BY <1>13, <2>1, <2>2, <2>3 DEF Bus
  <1>14. CASE AppRestarts
    BY <1>2, <1>14, StageTyped DEF AppRestarts
  <1>15. CASE PowerCycle
    <2>1. PICK done \in SUBSET Offsets :
             /\ flash' = [w \in Addresses |-> IF OffsetOf(w) \in done
                                              THEN PendingFlash[w]
                                              ELSE flash[w]]
             /\ tornVectors' = (tornVectors
                                \/ (RewritingVectors /\ done # {}))
      BY <1>15 DEF PowerCycle
    <2>2. pc' \in {"start", "app"}
      BY <1>15, StageTyped DEF PowerCycle
    <2>3. flash'[0] \in {flash[0], PendingFlash[0]}
      BY <2>1, WordZero
    <2>4. flash'[0] \in {ToEntry, Blank}
      BY <1>1, <2>3, PendingReset DEF VectorInv
    <2>5. ASSUME ~tornVectors', flash'[0] = Blank, NEW w \in AppWords
          PROVE  flash'[w] = Blank
      <3>1. w \in Addresses /\ PageOf(w) \in 0 .. AppPages - 1
        BY AppWordPages
      <3>2. ~tornVectors /\ (done # {} => ~RewritingVectors)
        BY <2>1, <2>5
      <3>3. ASSUME flash[0] = Blank PROVE flash[w] = Blank
        BY <1>1, <3>2, <3>3 DEF VectorInv
      <3>4. CASE done = {}
        BY <2>1, <2>5, <3>1, <3>3, <3>4, WordZero
      <3>5. CASE done # {} /\ pc = "erase" /\ erasePage > 0
        <4>1. NextErased # 0
          BY <3>2, <3>5 DEF RewritingVectors, NextErased, TypeOK
        <4>2. PendingFlash[0] = flash[0]
          BY <3>5, <4>1, WordZero DEF PendingFlash, Erased
        <4>3. flash[0] = Blank
          BY <2>3, <2>5, <4>2
        <4>4. PendingFlash[w] = Blank
          BY <1>1, <3>2, <3>5, <4>3, PendingBlank
        <4> QED BY <2>1, <3>1, <3>3, <4>3, <4>4
      <3>6. CASE done # {} /\ pc = "write"
        <4>1. flash[0] = ToEntry
          BY <1>1, <3>2, <3>6 DEF VectorInv, EventInv
        <4>2. PendingFlash[0] = ToEntry
          BY <1>1, <3>2, <3>6, PendingReset
        <4> QED BY <2>3, <2>5, <4>1, <4>2, ToEntryNotBlank
      <3>7. CASE /\ done # {} /\ pc # "write"
                 /\ ~(pc = "erase" /\ erasePage > 0)
        <4>1. PendingFlash = flash
          BY <3>2, <3>7 DEF PendingFlash, RewritingVectors
        <4> QED BY <2>1, <2>5, <3>1, <3>3, <4>1, WordZero
      <3> QED BY <3>4, <3>5, <3>6, <3>7
    <2> QED BY <2>2, <2>4, <2>5 DEF VectorInv
  <1>16. CASE AppRuns \/ FallSilent \/ UNCHANGED vars
    BY <1>2, <1>16 DEF AppRuns, FallSilent, vars, ram
  <1> QED
    BY <1>3, <1>4, <1>5, <1>6, <1>7, <1>8, <1>9, <1>10, <1>11, <1>12, <1>13,
       <1>14, <1>15, <1>16 DEF Next, Device, World

\* One more page or packet.
LEMMA OneMore ==
  ASSUME NEW x \in Nat, NEW y \in Nat
  PROVE  (x + 1) * y = x * y + y
PROOF
  <1>1. x \in Int /\ y \in Int
    OBVIOUS
  <1> QED BY <1>1, Z3

\* Whatever the data, the reset vector is patched to enter the bootloader.
LEMMA PatchedReset ==
  ASSUME NEW data, NEW vt
  PROVE  Patched(0, data, vt) = ToEntry
  BY EntryFacts, GeometryAssumption
     DEF Patched, AppReset, AppUsb, StoredOsccal

\* A remainder is known from any way of writing the number.
LEMMA RemainderIs ==
  ASSUME NEW m \in Nat \ {0}, NEW r \in 0 .. m - 1, NEW q \in {-1, 0, 1},
         NEW x \in Int, x = q * m + r
  PROVE  x % m = r
  BY SMTT(30)

\* A packet that lies inside its page fills the places behind the ones filled
\* before it.
LEMMA FilledInPage ==
  ASSUME NEW s \in Offsets, OffsetOf(currentAddress) = s,
         s + PacketWords =< PageWords, NEW data, NEW vt, NEW o \in Offsets
  PROVE  Filled(PacketWords, data, vt)[o] =
           IF o - s \in 0 .. PacketWords - 1
           THEN And(pageBuffer[o],
                    Patched(currentAddress + (o - s), data[o - s], vt))
           ELSE pageBuffer[o]
PROOF
  <1> DEFINE j == (o - s) % PageWords
  <1>1. /\ s \in Nat /\ o \in Nat /\ o < PageWords /\ s < PageWords
        /\ PageWords \in Nat \ {0} /\ PacketWords \in Nat \ {0}
    BY PacketFacts, GeometryAssumption DEF Offsets
  <1>2. CASE o >= s
    <2>1. j = o - s
      <3> DEFINE x == o - s
      <3>1. x \in 0 .. PageWords - 1 /\ x \in Int /\ x = 0 * PageWords + x
        BY <1>1, <1>2
      <3> HIDE DEF x
      <3>2. x % PageWords = x
        BY <1>1, <3>1, RemainderIs
      <3> QED BY <3>2 DEF x
    <2> QED BY <2>1 DEF Filled
  <1>3. CASE o < s
    <2>1. j = o - s + PageWords
      <3> DEFINE x == o - s
                 r == x + PageWords
      <3>1. x \in Int /\ r \in 0 .. PageWords - 1 /\ x = (-1) * PageWords + r
        BY <1>1, <1>3
      <3>2. r = o - s + PageWords
        BY <1>1
      <3> HIDE DEF x, r
      <3>3. x % PageWords = r
        BY <1>1, <3>1, RemainderIs
      <3> QED BY <3>2, <3>3 DEF x
    <2>2. j \notin 0 .. PacketWords - 1 /\ o - s \notin 0 .. PacketWords - 1
      BY <1>1, <1>3, <2>1
    <2> HIDE DEF j
    <2> QED BY <2>2 DEF Filled, j
  <1> QED BY <1>1, <1>2, <1>3

\* currentAddress keeps up with the packets of the page on the bus.
InStep ==
    /\ events = {}
    /\ currentAddress = host.page * PageWords + host.sent * PacketWords

LEMMA InStepIs ==
  ASSUME EventInv, BufferInv, RecvData
  PROVE  InStep
  BY DEF EventInv, BufferInv, InStep, RecvData, Looping

\* A packet of the page on the bus lands at its place in the page buffer.
LEMMA PacketArrives ==
  ASSUME TypeOK, InStep, RecvData
  PROVE  LET p == host.page
             k == host.sent
             a == currentAddress
             s == k * PacketWords
         IN  /\ p \in 0 .. AppPages - 1 /\ p \in Nat /\ p * PageWords \in Nat
             /\ k \in 0 .. PacketsPerPage - 1 /\ k \in Nat
             /\ 0 \in 0 .. PacketWords - 1
             /\ s \in Nat /\ s \in Offsets
             /\ s + PacketWords =< PageWords
             /\ p * PageWords + PageWords =< Entry
             /\ (k + 1) * PacketWords = s + PacketWords
             /\ (p + 1) * PageWords = p * PageWords + PageWords
             /\ a = p * PageWords + s
             /\ OffsetOf(a) = s /\ PageOf(a) = p
             /\ Accepted(a) = PacketWords
             /\ pc = "poll" /\ events = {} /\ ~TransferDone
             /\ a' = a + PacketWords /\ pc' = "handle"
             /\ host'.page = p /\ host'.sent = k + 1
             /\ host'.image = host.image
             /\ pageBuffer' = Filled(PacketWords, PacketData(k), vectorTemp')
             /\ events' = IF OffsetOf(a + PacketWords) = 0
                          THEN events \cup {"write"} ELSE events
PROOF
  <1> DEFINE p == host.page
             k == host.sent
             a == currentAddress
             s == k * PacketWords
  <1>1. /\ p \in 0 .. AppPages - 1 /\ k \in 0 .. PacketsPerPage
        /\ host \in Transfer /\ pc = "poll" /\ k # PacketsPerPage
        /\ ~TransferDone
    BY DEF RecvData, TransferDone, TypeOK, Transfer
  <1>2. a = p * PageWords + s
    BY DEF InStep
  <1>3. events = {}
    BY DEF InStep
  <1>4. /\ k \in 0 .. PacketsPerPage - 1 /\ 0 \in 0 .. PacketWords - 1
        /\ k \in Nat /\ s \in Nat /\ p \in Nat /\ p * PageWords \in Nat
    BY <1>1, PacketFacts, GeometryAssumption
  <1>5. /\ s + PacketWords =< PageWords
        /\ p * PageWords + PageWords =< Entry
        /\ s \in Offsets
        /\ (k + 1) * PacketWords = s + PacketWords
        /\ (p + 1) * PageWords = p * PageWords + PageWords
    <2>1. s + PacketWords =< PageWords /\ p * PageWords + PageWords =< Entry
      BY <1>1, <1>4, PacketPlace
    <2>2. s \in Offsets
      BY <1>4, <2>1, PacketFacts, GeometryAssumption DEF Offsets
    <2> QED BY <1>4, <2>1, <2>2, OneMore, PacketFacts, GeometryAssumption
  <1>6. Accepted(a) = PacketWords
    BY <1>2, <1>4, <1>5, PacketFacts, EntryFacts, GeometryAssumption
       DEF Accepted
  <1>7. /\ a' = a + PacketWords /\ pc' = "handle"
        /\ host'.page = p /\ host'.sent = k + 1 /\ host'.image = host.image
        /\ pageBuffer' = Filled(PacketWords, PacketData(k), vectorTemp')
        /\ events' = IF OffsetOf(a + PacketWords) = 0
                     THEN events \cup {"write"} ELSE events
    BY <1>1, <1>6 DEF RecvData, usbFunctionWrite, Transfer
  <1>8. OffsetOf(a) = s /\ PageOf(a) = p
    BY <1>2, <1>4, <1>5, SplitUnique
  <1> QED BY <1>1, <1>2, <1>3, <1>4, <1>5, <1>6, <1>7, <1>8

\* The last packet of a page, and no other, ends at the page's end.
LEMMA PageEnds ==
  ASSUME TypeOK, InStep, RecvData
  PROVE  LET s == host.sent * PacketWords
         IN  /\ host.sent + 1 = PacketsPerPage =>
                    /\ s + PacketWords = PageWords
                    /\ OffsetOf(currentAddress') = 0
                    /\ PageOf(currentAddress' - 1) = host.page
             /\ host.sent + 1 # PacketsPerPage =>
                    OffsetOf(currentAddress') # 0
PROOF
  <1> DEFINE p == host.page
             k == host.sent
             a == currentAddress
             s == k * PacketWords
  <1>1. /\ p \in 0 .. AppPages - 1 /\ p \in Nat /\ p * PageWords \in Nat
        /\ k \in 0 .. PacketsPerPage - 1 /\ k \in Nat /\ s \in Nat
        /\ s + PacketWords =< PageWords
        /\ (k + 1) * PacketWords = s + PacketWords
        /\ (p + 1) * PageWords = p * PageWords + PageWords
        /\ a = p * PageWords + s
        /\ a' = a + PacketWords
    BY PacketArrives
  <1>2. ASSUME k + 1 = PacketsPerPage
        PROVE  /\ s + PacketWords = PageWords
               /\ OffsetOf(a') = 0 /\ PageOf(a' - 1) = p
    <2>1. s + PacketWords = PageWords
      BY <1>1, <1>2, PacketAssumption
    <2>2. OffsetOf(a + PacketWords) = 0
      <3>1. a + PacketWords = (p + 1) * PageWords + 0 /\ 0 \in Offsets
        BY <1>1, <2>1, PacketFacts, GeometryAssumption, WordZero
      <3> QED BY <1>1, <3>1, SplitUnique, PacketFacts, GeometryAssumption
    <2>3. PageOf(a + PacketWords - 1) = p
      <3>1. a + PacketWords - 1 = p * PageWords + (PageWords - 1)
            /\ PageWords - 1 \in Offsets
        BY <1>1, <2>1, PacketFacts, GeometryAssumption DEF Offsets
      <3> QED BY <1>1, <3>1, SplitUnique, PacketFacts, GeometryAssumption
    <2> DEFINE last == a + PacketWords - 1
    <2>4. a' - 1 = last
      BY <1>1, PacketFacts
    <2>5. PageOf(last) = p
      BY <2>3
    <2> HIDE DEF last
    <2>6. PageOf(a' - 1) = p
      BY <2>4, <2>5
    <2> QED BY <1>1, <2>1, <2>2, <2>6
  <1>3. ASSUME k + 1 # PacketsPerPage PROVE OffsetOf(a') # 0
    <2>1. PacketWords * (k + 1) =< PacketWords * (PacketsPerPage - 1)
      <3> DEFINE q == k + 1
                 r == PacketsPerPage - 1
      <3>0. /\ k \in Int /\ k =< PacketsPerPage - 1
            /\ PacketsPerPage \in Int /\ PacketWords \in Nat
        BY <1>1, PacketFacts
      <3>1. q \in Int /\ r \in Int /\ q =< r
        BY <3>0, <1>3
      <3> HIDE DEF q, r
      <3>2. PacketWords * q =< PacketWords * r
        BY <3>0, <3>1, TimesMonotonic
      <3> QED BY <3>2 DEF q, r
    <2>2. PacketWords * (k + 1) = s + PacketWords
          /\ PacketWords * (PacketsPerPage - 1) = PageWords - PacketWords
      BY <1>1, PacketFacts, PacketAssumption, GeometryAssumption
    <2>3. s + PacketWords \in Offsets /\ s + PacketWords # 0
      BY <1>1, <2>1, <2>2, PacketFacts, GeometryAssumption DEF Offsets
    <2>4. a + PacketWords = p * PageWords + (s + PacketWords)
          /\ a + PacketWords \in Int /\ p \in Int
      BY <1>1, PacketFacts, GeometryAssumption
    <2>5. OffsetOf(a + PacketWords) = s + PacketWords
      BY <2>3, <2>4, SplitUnique
    <2> QED BY <1>1, <2>3, <2>5
  <1> QED BY <1>2, <1>3

\* A packet of the page on the bus fills its words of the page buffer; the
\* last one asks for the page to be written.
LEMMA RecvDataBuffer ==
  ASSUME TypeOK, EventInv, BufferInv, RecvData
  PROVE  BufferInv'
PROOF
  <1> DEFINE p == host.page
             k == host.sent
             a == currentAddress
             s == k * PacketWords
  <1>0. InStep
    BY InStepIs
  <1> USE <1>0
  <1>1. pc = "poll" /\ pageBuffer \in [Offsets -> Word]
    BY DEF RecvData, TypeOK
  <1>2. /\ a = p * PageWords + s
        /\ k = 0 => pageBuffer = EmptyBuffer
        /\ p = 0 /\ k > 0 => pageBuffer[0] = ToEntry
    BY <1>1, PacketArrives DEF BufferInv, Looping
  <1>3. events = {}
    BY PacketArrives
  <1>4. /\ p \in 0 .. AppPages - 1
        /\ k \in 0 .. PacketsPerPage - 1 /\ 0 \in 0 .. PacketWords - 1
        /\ k \in Nat /\ s \in Nat /\ p \in Nat /\ p * PageWords \in Nat
    BY PacketArrives
  <1>5. /\ s + PacketWords =< PageWords
        /\ p * PageWords + PageWords =< Entry
        /\ s \in Offsets
        /\ (k + 1) * PacketWords = s + PacketWords
        /\ (p + 1) * PageWords = p * PageWords + PageWords
    BY PacketArrives
  <1>7. /\ a' = a + PacketWords /\ pc' = "handle"
        /\ host'.page = p /\ host'.sent = k + 1
        /\ pageBuffer' = Filled(PacketWords, PacketData(k), vectorTemp')
        /\ events' = IF OffsetOf(a + PacketWords) = 0
                     THEN events \cup {"write"} ELSE events
    BY PacketArrives
  <1>8. OffsetOf(a) = s /\ PageOf(a) = p
    BY PacketArrives
  <1>9. ASSUME p = 0 PROVE pageBuffer'[0] = ToEntry
    <2>1. 0 \in Offsets /\ a = s /\ EmptyBuffer[0] = Blank
      BY <1>2, <1>4, <1>9, WordZero, GeometryAssumption DEF EmptyBuffer
    <2>2. pageBuffer'[0] = IF 0 - s \in 0 .. PacketWords - 1
                           THEN And(pageBuffer[0],
                                    Patched(a + (0 - s), PacketData(k)[0 - s],
                                            vectorTemp'))
                           ELSE pageBuffer[0]
      <3>1. s \in Offsets /\ s + PacketWords =< PageWords
        BY PacketArrives
      <3> HIDE DEF s
      <3> QED BY <1>7, <1>8, <2>1, <3>1, FilledInPage
    <2>3. CASE k = 0
      <3>1. s = 0 /\ 0 - s = 0 /\ a + (0 - s) = 0
        BY <1>4, <2>1, <2>3, PacketFacts
      <3>2. Patched(a + (0 - s), PacketData(k)[0 - s], vectorTemp') = ToEntry
        BY <3>1, PatchedReset
      <3> QED BY <1>2, <1>4, <2>1, <2>2, <2>3, <3>1, <3>2, AndReset
    <2>4. CASE k > 0
      <3>1. PacketWords * 1 =< PacketWords * k
        BY <1>4, <2>4, PacketFacts, TimesMonotonic
      <3>2. 0 - s \notin 0 .. PacketWords - 1
        BY <1>4, <3>1, PacketFacts
      <3> QED BY <1>2, <1>9, <2>2, <2>4, <3>2
    <2> QED BY <1>4, <2>3, <2>4
  <1>10. CASE k + 1 = PacketsPerPage
    <2>5. OffsetOf(currentAddress') = 0 /\ PageOf(currentAddress' - 1) = p
      BY <1>10, PageEnds
    <2>4. events' = {"write"} /\ TransferDone'
      BY <1>3, <1>7, <1>10, <2>5 DEF TransferDone
    <2>6. PageOf(currentAddress' - 1) = 0 => pageBuffer'[0] = ToEntry
      BY <1>9, <2>5
    <2> QED BY <1>7, <2>4, <2>5, <2>6 DEF BufferInv, Looping
  <1>11. CASE k + 1 # PacketsPerPage
    <2>3. OffsetOf(a + PacketWords) # 0
      BY <1>7, <1>11, PageEnds
    <2>4. events' = {} /\ ~TransferDone'
      BY <1>3, <1>7, <1>11, <2>3 DEF TransferDone
    <2>5. currentAddress' = host'.page * PageWords + host'.sent * PacketWords
      BY <1>2, <1>4, <1>5, <1>7, PacketFacts, GeometryAssumption
    <2>7. host'.sent # 0 /\ (host'.page = 0 => pageBuffer'[0] = ToEntry)
      BY <1>4, <1>7, <1>9
    <2> QED BY <1>7, <2>4, <2>5, <2>7 DEF BufferInv, Looping
  <1> QED BY <1>10, <1>11

Requests ==
    SetupStandard \/ SetupInfo \/ SetupWrite \/ SetupErase \/ SetupExecute

\* A step in which no request interrupts a transfer and no packet is repeated.
Orderly ==
    \/ Device \/ RecvData \/ MisroutedInterrupt \/ World \/ UNCHANGED vars
    \/ Requests /\ TransferDone

\* The page buffer and the transfer on the bus stay in step, as long as
\* nothing interrupts a transfer and no packet is repeated.
LEMMA BufferInvStep ==
  ASSUME TypeOK, ~LossyBus, EventInv, BufferInv, Orderly
  PROVE  BufferInv'
PROOF
  <1>1. ASSUME pc' \in {"start", "app", "leave"},
               pc' # "leave" => TransferDone'
        PROVE  BufferInv'
    BY <1>1 DEF BufferInv, Looping
  <1>2. TransferDone \in BOOLEAN
    BY DEF TransferDone
  <1>3. NoTransfer.sent = PacketsPerPage
    BY NoTransferTyped DEF TypeOK
  <1>4. CASE EnterMainLoop
    <2>1. /\ pc = "start" /\ pc' = "poll" /\ pageBuffer' = EmptyBuffer
          /\ events' = {} /\ host' = host
      BY <1>4 DEF EnterMainLoop, RamCleared
    <2>2. TransferDone'
      BY <2>1 DEF BufferInv, TransferDone
    <2> QED BY <2>1, <2>2 DEF BufferInv, Looping
  <1>5. CASE SkipMainLoop
    BY <1>1, <1>5 DEF SkipMainLoop
  <1>6. CASE PollNothing
    <2>1. events = {}
      BY <1>6 DEF PollNothing, EventInv
    <2> QED BY <1>6, <2>1 DEF PollNothing, ram, BufferInv, Looping,
                              TransferDone
  <1>7. CASE HandleErase
    BY <1>7 DEF HandleErase, EventInv, BufferInv, Looping, TransferDone
  <1>8. CASE ErasePage
    BY <1>8 DEF ErasePage, BufferInv, Looping, TransferDone
  <1>9. CASE FillVectors
    <2>1. /\ pc = "erase" /\ pc' = "vectors" /\ "erase" \in events
          /\ events' = events /\ host' = host
      BY <1>9 DEF FillVectors, EventInv
    <2>2. TransferDone /\ pageBuffer = EmptyBuffer
      BY <2>1 DEF BufferInv, Looping
    <2>3. currentAddress' = PageWords
      BY <1>9, WordZero, GeometryAssumption DEF FillVectors, FillPage
    <2>4. pageBuffer'[0] = And(pageBuffer[0],
                               Patched(0 - OffsetOf(0) + 0, Blank, vectorTemp))
      BY <1>9, WordZero DEF FillVectors, FillPage
    <2>5. 0 - OffsetOf(0) + 0 = 0 /\ pageBuffer[0] = Blank
      BY <2>2, WordZero DEF EmptyBuffer
    <2>6. pageBuffer'[0] = ToEntry
      BY <2>4, <2>5, PatchedReset, AndReset
    <2> QED BY <2>1, <2>2, <2>3, <2>6
            DEF BufferInv, Looping, TransferDone, EventInv
  <1>10. CASE WriteVectors
    <2>1. /\ pc = "vectors" /\ pc' = "handleWrite" /\ events' = events
          /\ host' = host /\ pageBuffer' = EmptyBuffer
      BY <1>10 DEF WriteVectors, writeFlashPage, ram
    <2>2. "erase" \in events /\ "write" \notin events
      BY <2>1 DEF EventInv
    <2>3. TransferDone
      BY <2>1, <2>2 DEF BufferInv
    <2> QED BY <2>1, <2>2, <2>3 DEF BufferInv, Looping, TransferDone
  <1>11. CASE HandleWrite
    <2>1. UNCHANGED <<pageBuffer, currentAddress>>
      BY <1>11 DEF HandleWrite, BufferInv
    <2>2. /\ pc = "handleWrite" /\ UNCHANGED <<events, host>>
          /\ pc' = IF "write" \in events THEN "write" ELSE "handleExecute"
      BY <1>11 DEF HandleWrite
    <2> QED BY <2>1, <2>2 DEF BufferInv, Looping, TransferDone
  <1>12. CASE WritePage
    <2>1. /\ pc = "write" /\ pc' = "handleExecute" /\ events' = events
          /\ host' = host /\ pageBuffer' = EmptyBuffer
      BY <1>12 DEF WritePage, writeFlashPage, ram
    <2>2. "write" \in events
      BY <2>1 DEF EventInv
    <2>3. TransferDone
      BY <2>1, <2>2 DEF BufferInv
    <2> QED BY <2>1, <2>3 DEF BufferInv, Looping, TransferDone
  <1>13. CASE HandleExecute
    <2>1. CASE pc' = "leave"
      BY <1>1, <2>1
    <2>2. CASE pc' # "leave"
      <3>1. /\ pc = "handleExecute" /\ pc' = "poll" /\ events' = {}
            /\ UNCHANGED <<pageBuffer, currentAddress, host>>
        BY <1>13, <2>2 DEF HandleExecute, clearEvents
      <3> QED BY <3>1 DEF BufferInv, Looping, TransferDone
    <2> QED BY <2>1, <2>2
  <1>14. CASE LeaveBootloader
    BY <1>1, <1>3, <1>14, StageTyped DEF LeaveBootloader, TransferDone
  <1>15. CASE /\ SetupStandard \/ SetupInfo \/ SetupErase \/ SetupExecute
              /\ TransferDone
    <2>1. /\ pc = "poll" /\ pc' = "handle" /\ host' = NoTransfer
          /\ UNCHANGED <<pageBuffer, currentAddress>>
          /\ "write" \in events' => "write" \in events
      BY <1>15 DEF SetupStandard, SetupInfo, SetupErase, SetupExecute, Setup
    <2>2. events = {} /\ TransferDone
      BY <1>15, <2>1 DEF EventInv, SetupStandard, SetupInfo, SetupErase,
                         SetupExecute, Setup
    <2>3. TransferDone'
      BY <1>3, <2>1 DEF TransferDone
    <2>4. pageBuffer = EmptyBuffer
      BY <2>1, <2>2 DEF BufferInv
    <2> QED BY <2>1, <2>2, <2>3, <2>4 DEF BufferInv, Looping
  <1>16. CASE SetupWrite /\ TransferDone
    <2>1. /\ pc = "poll" /\ pc' = "handle" /\ TransferDone
          /\ UNCHANGED <<pageBuffer, events>>
      BY <1>16 DEF SetupWrite, Setup
    <2> DEFINE p == host'.page
    <2>2. /\ p \in 0 .. AppPages - 1 /\ currentAddress' = p * PageWords
          /\ host'.sent = 0
      BY <1>16, WriteAsked
    <2>3. events = {} /\ pageBuffer = EmptyBuffer
      BY <2>1 DEF EventInv, BufferInv
    <2>4. ~TransferDone' /\ host'.page = p /\ host'.sent = 0
      BY <2>2, PacketFacts DEF TransferDone
    <2>5. currentAddress' = host'.page * PageWords + host'.sent * PacketWords
      BY <2>2, <2>4, PacketFacts, GeometryAssumption
    <2> QED BY <2>1, <2>3, <2>4, <2>5 DEF BufferInv, Looping
  <1>17. CASE RecvData
    BY <1>17, RecvDataBuffer
  <1>18. CASE MisroutedInterrupt
    BY <1>1, <1>3, <1>18, StageTyped DEF MisroutedInterrupt, TransferDone
  <1>19. CASE AppRestarts
    <2>1. pc = "app" /\ host' = host
      BY <1>19 DEF AppRestarts
    <2>2. TransferDone'
      BY <2>1 DEF BufferInv, TransferDone
    <2> QED BY <1>1, <1>19, <2>2, StageTyped DEF AppRestarts
  <1>20. CASE PowerCycle
    BY <1>1, <1>3, <1>20, StageTyped DEF PowerCycle, TransferDone
  <1>21. CASE AppRuns \/ FallSilent \/ UNCHANGED vars
    BY <1>21 DEF AppRuns, FallSilent, vars, ram, BufferInv, Looping,
                 TransferDone
  <1> QED
    BY <1>4, <1>5, <1>6, <1>7, <1>8, <1>9, <1>10, <1>11, <1>12, <1>13, <1>14,
       <1>15, <1>16, <1>17, <1>18, <1>19, <1>20, <1>21
       DEF Orderly, Requests, Device, World

(***************************************************************************)
(* The way back.                                                           *)
(***************************************************************************)
\* The inductive invariant: what each step of the loop leaves for the next,
\* and for a reset in between, while pages are erased, filled and written.
THEOREM Safe == Spec => []SafetyInv
PROOF
  <1>1. TypeOK /\ SafetyInv /\ [Next]_vars => SafetyInv'
    <2> SUFFICES ASSUME TypeOK, SafetyInv, [Next]_vars PROVE SafetyInv'
      OBVIOUS
    <2>1. ASSUME ~LossyBus PROVE BootloaderIntact'
      BY <2>1, IntactStepClean DEF SafetyInv
    <2>2. EraseInv'
      BY EraseInvStep DEF SafetyInv
    <2>3. ASSUME ~LossyBus PROVE VectorInv' /\ EventInv' /\ BufferInv'
      <3>1. Orderly
        BY <2>3 DEF Next, Bus, SetupStandard, SetupInfo, SetupWrite, SetupErase,
                    SetupExecute, Setup, RecvDuplicate, Orderly, Requests
      <3> QED BY <2>3, <3>1, VectorInvStep, EventInvStep, BufferInvStep
              DEF SafetyInv
    <2> QED BY <2>1, <2>2, <2>3 DEF SafetyInv
  <1> QED BY <1>1, InitSafe, TypeCorrect, StepIsNext, PTL DEF Spec

\* On a bus that delivers whole pages, every reset ends in the bootloader
\* unless power failed half way through a rewrite of page 0.
THEOREM WayBack == Spec => []ResetReachesBootloader
  BY Safe, TypeCorrect, InvBoots, PTL

\* Every poll asks for at most one of an erase and a page write, and pages are
\* written whole.
THEOREM OneJob == ~LossyBus => (Spec => []OneJobPerPoll)
PROOF
  <1> SUFFICES ASSUME ~LossyBus PROVE Spec => []OneJobPerPoll
    OBVIOUS
  <1>1. SafetyInv => OneJobPerPoll
    BY DEF SafetyInv, EventInv, BufferInv, OneJobPerPoll
  <1> QED BY <1>1, Safe, PTL

(***************************************************************************)
(* What is written.  Each invariant speaks of a bus that delivers whole    *)
(* pages.                                                                  *)
(***************************************************************************)
\* What the page buffer holds at offset o while the host's page is on its
\* way: the words of the packets that have come, patched, and nothing else.
SentWord(o) ==
    IF o < host.sent * PacketWords
    THEN Patched(host.page * PageWords + o,
                 host.image[host.page * PageWords + o], vectorTemp)
    ELSE Blank

PageInBuffer == "write" \in events /\ pc \in {"handle", "handleWrite", "write"}

PageInv ==
    /\ (pc \in Looping /\ ~TransferDone) \/ PageInBuffer =>
            \A o \in Offsets : pageBuffer[o] = SentWord(o)
    /\ PageInBuffer => PageOf(currentAddress - 1) = host.page

\* The USB vector is the bootloader's or blank; blank only when everything
\* is, and never when the end of a page has come.
UsbInv ==
    /\ flash[UsbVector] \in {ToIsr, Blank}
    /\ ~tornVectors /\ flash[UsbVector] = Blank
            => \A w \in AppWords : flash[w] = Blank
    /\ ~tornVectors /\ PageInBuffer => flash[UsbVector] = ToIsr
    /\ pc = "vectors" => pageBuffer[UsbVector] = ToIsr

\* Where vector v of an image leads.
Led(v) == {rjmp2addr(i[v], v) : i \in Images}

\* The tiny table: a jump in it was computed for its place from a target the
\* bootloader can have remembered.
TableInv ==
    /\ vectorTemp[0] \in {0} \cup Led(0)
    /\ vectorTemp[1] \in {0} \cup Led(UsbVector)
    /\ flash[AppReset].op = "rjmp" =>
            \E t \in {0, Entry} \cup Led(0) :
                flash[AppReset] = addr2rjmp(t, AppReset)
    /\ flash[AppUsb].op = "rjmp" =>
            \E t \in {0, Entry} \cup Led(UsbVector) :
                flash[AppUsb] = addr2rjmp(t, AppUsb)

\* The magic is on the stack for as long as the bootloader runs.
MagicInv == pc \notin {"start", "app"} => magic

ContentsInv == PageInv /\ UsbInv /\ TableInv /\ VectorsAfterErase

(***************************************************************************)
(* Lemmas about relocation and patching.                                   *)
(***************************************************************************)
\* An address that became a jump and is read back at the same place is the
\* address it was.
LEMMA RoundTrip ==
  ASSUME NEW t \in LowBits, NEW l \in LowBits
  PROVE  rjmp2addr(addr2rjmp(t, l), l) = t
PROOF
  <1> DEFINE d == t - l - 1
             m == FlashWords
  <1>1. m \in Nat \ {0} /\ t \in 0 .. m - 1 /\ l \in 0 .. m - 1
    BY EntryFacts, GeometryAssumption DEF LowBits
  <1>2. addr2rjmp(t, l).arg = d % m
    BY DEF addr2rjmp
  <1>3. CASE d >= 0
    <2>1. d \in 0 .. m - 1 /\ d \in Int /\ d = 0 * m + d
      BY <1>1, <1>3
    <2>2. d % m = d
      BY <1>1, <2>1, RemainderIs
    <2>3. d + l + 1 = t
      BY <1>1
    <2>4. t % m = t
      BY <1>1, SmallRemainder
    <2> HIDE DEF d, m
    <2> QED BY <1>2, <2>2, <2>3, <2>4 DEF rjmp2addr, m
  <1>4. CASE d < 0
    <2>1. d + m \in 0 .. m - 1 /\ d \in Int /\ d = (-1) * m + (d + m)
      BY <1>1, <1>4
    <2>2. d % m = d + m
      BY <1>1, <2>1, RemainderIs, ZenonT(30)
    <2>3. d + m + l + 1 = 1 * m + t /\ d + m + l + 1 \in Int
      BY <1>1
    <2>4. (d + m + l + 1) % m = t
      BY <1>1, <2>3, RemainderIs
    <2> HIDE DEF d, m
    <2> QED BY <1>2, <2>2, <2>4 DEF rjmp2addr, m
  <1> QED BY <1>1, <1>3, <1>4

\* A jump computed for the place it stands at leads to its target.
LEMMA JumpLands ==
  ASSUME NEW f, NEW a \in AppWords, NEW t \in LowBits,
         f[a] = addr2rjmp(t, a)
  PROVE  Landing(f, a) = t
PROOF
  <1>1. f[a] # Blank /\ f[a].op = "rjmp"
    BY DEF addr2rjmp, Blank
  <1>2. a \in Nat /\ a \in a .. Entry /\ a \in LowBits
    BY EntryFacts, GeometryAssumption DEF AppWords, LowBits
  <1>3. NextProgrammed(f, a) = a
    BY <1>1, <1>2, NextProgrammedIs
  <1>4. rjmp2addr(f[a], a) = t
    BY <1>2, RoundTrip
  <1> QED BY <1>1, <1>3, <1>4 DEF Landing

\* The USB vector lies in page 0, the tiny table does not.
LEMMA Places ==
  /\ UsbVector \in AppWords /\ UsbVector \in Offsets /\ UsbVector \in Addresses
  /\ PageOf(UsbVector) = 0 /\ OffsetOf(UsbVector) = UsbVector
  /\ UsbVector # 0
  /\ AppReset \in AppWords /\ AppReset \in Addresses /\ AppReset \notin Offsets
  /\ AppUsb \in AppWords /\ AppUsb \in Addresses /\ AppUsb \notin Offsets
  /\ AppReset # AppUsb
  /\ PageOf(AppReset) # 0 /\ PageOf(AppUsb) # 0
PROOF
  <1>1. /\ UsbVector \in AppWords /\ UsbVector \in Offsets
        /\ UsbVector \in Addresses /\ UsbVector # 0
    BY EntryFacts, GeometryAssumption DEF AppWords, Offsets, Addresses
  <1>2. PageOf(UsbVector) = 0 /\ OffsetOf(UsbVector) = UsbVector
    BY <1>1, PageZero
  <1>3. /\ AppReset \in AppWords /\ AppReset \in Addresses
        /\ AppReset \notin Offsets
        /\ AppUsb \in AppWords /\ AppUsb \in Addresses
        /\ AppUsb \notin Offsets /\ AppReset # AppUsb
    BY EntryFacts, GeometryAssumption
       DEF AppWords, Offsets, Addresses, AppReset, AppUsb
  <1>4. ASSUME NEW w \in AppWords, w \notin Offsets PROVE PageOf(w) # 0
    <2>1. w \in Int /\ w = PageWords * PageOf(w) + OffsetOf(w)
          /\ OffsetOf(w) \in Offsets
      BY AddressSplit, EntryFacts DEF AppWords
    <2> SUFFICES ASSUME PageOf(w) = 0 PROVE FALSE
      OBVIOUS
    <2>2. w = PageWords * 0 + OffsetOf(w)
      BY <2>1
    <2> QED BY <2>1, <2>2, <1>4, GeometryAssumption DEF Offsets
  <1> QED BY <1>1, <1>2, <1>3, <1>4

\* The words the bootloader puts in place of the host's.
LEMMA PatchedPlaces ==
  ASSUME NEW data, NEW vt
  PROVE  /\ Patched(UsbVector, data, vt) = ToIsr
         /\ Patched(AppReset, data, vt) = addr2rjmp(vt[0], AppReset)
         /\ Patched(AppUsb, data, vt) = addr2rjmp(vt[1], AppUsb)
PROOF
  <1>1. /\ UsbVector # 0 /\ AppReset # 0 /\ AppUsb # 0
        /\ AppReset # UsbVector /\ AppUsb # UsbVector /\ AppReset # AppUsb
        /\ StoredOsccal \notin {0, UsbVector, AppReset, AppUsb}
    BY EntryFacts, GeometryAssumption DEF AppReset, AppUsb, StoredOsccal
  <1>2. Patched(UsbVector, data, vt) = ToIsr
    BY <1>1 DEF Patched
  <1>3. Patched(AppReset, data, vt) = addr2rjmp(vt[0], AppReset)
    BY <1>1 DEF Patched
  <1>4. Patched(AppUsb, data, vt) = addr2rjmp(vt[1], AppUsb)
    BY <1>1 DEF Patched
  <1> QED BY <1>2, <1>3, <1>4

\* Page 0 is patched without a look at the remembered vectors.
LEMMA FirstPagePatched ==
  ASSUME NEW a \in Offsets, NEW data, NEW vt, NEW vu
  PROVE  Patched(a, data, vt) = Patched(a, data, vu)
  BY Places DEF Patched

\* Programming a blank word stores the data; programming any word leaves it,
\* stores the data or mixes the two.
LEMMA Programming ==
  ASSUME NEW x, NEW y
  PROVE  And(Blank, y) = y /\ And(x, y) \in {x, y, Mixed}
  BY DEF And

(***************************************************************************)
(* The page on its way.                                                    *)
(***************************************************************************)
\* The words of the packet on the bus are those of the image at their place.
LEMMA PacketWordAt ==
  ASSUME TypeOK, InStep, RecvData,
         NEW j \in 0 .. PacketWords - 1
  PROVE  /\ currentAddress + j
                = host.page * PageWords + (host.sent * PacketWords + j)
         /\ PacketData(host.sent)[j] = host.image[currentAddress + j]
PROOF
  <1> DEFINE p == host.page * PageWords
             s == host.sent * PacketWords
  <1>1. p \in Nat /\ s \in Nat /\ currentAddress = p + s /\ j \in Int
    BY PacketArrives, PacketFacts
  <1>2. PacketData(host.sent)[j] = host.image[p + s + j]
    BY DEF PacketData
  <1> HIDE DEF p, s
  <1>3. p + s + j = p + (s + j) /\ currentAddress + j = p + s + j
    BY <1>1
  <1> QED BY <1>2, <1>3 DEF p, s

\* What a packet does to the remembered vectors: one in page 0 may carry a
\* vector of the image, one elsewhere does not touch them.
LEMMA PacketVectors ==
  ASSUME TypeOK, InStep, RecvData
  PROVE  /\ vectorTemp'[0] \in {vectorTemp[0], rjmp2addr(host.image[0], 0)}
         /\ vectorTemp'[1] \in {vectorTemp[1],
                                rjmp2addr(host.image[UsbVector], UsbVector)}
         /\ 0 \in currentAddress .. currentAddress + PacketWords - 1
                => vectorTemp'[0] = rjmp2addr(host.image[0], 0)
         /\ UsbVector \in currentAddress .. currentAddress + PacketWords - 1
                => vectorTemp'[1] = rjmp2addr(host.image[UsbVector], UsbVector)
         /\ host.page # 0 => vectorTemp' = vectorTemp
PROOF
  <1> DEFINE a == currentAddress
             data == PacketData(host.sent)
  <1>1. Accepted(a) = PacketWords /\ PacketWords \in Nat \ {0} /\ a \in Int
        /\ a >= host.page * PageWords
    BY PacketArrives, PacketFacts, EntryFacts DEF TypeOK
  <1>2. vectorTemp' =
             [i \in {0, 1} |->
                LET v == IF i = 0 THEN 0 ELSE UsbVector
                IN  IF v \in a .. a + PacketWords - 1
                    THEN rjmp2addr(data[v - a], v)
                    ELSE vectorTemp[i]]
    BY <1>1 DEF RecvData, usbFunctionWrite
  <1>3. ASSUME NEW v \in {0, UsbVector}, v \in a .. a + PacketWords - 1
        PROVE  data[v - a] = host.image[v]
    <2>1. v - a \in 0 .. PacketWords - 1 /\ a + (v - a) = v
      BY <1>1, <1>3, GeometryAssumption
    <2> QED BY <2>1, PacketWordAt
  <1>4. vectorTemp'[0] = IF 0 \in a .. a + PacketWords - 1
                         THEN rjmp2addr(data[0 - a], 0) ELSE vectorTemp[0]
    BY <1>2
  <1>5. vectorTemp'[1] = IF UsbVector \in a .. a + PacketWords - 1
                         THEN rjmp2addr(data[UsbVector - a], UsbVector)
                         ELSE vectorTemp[1]
    BY <1>2
  <1>6. ASSUME host.page # 0 PROVE vectorTemp' = vectorTemp
    <2>1. a >= PageWords
      <3>1. host.page \in Nat /\ host.page >= 1
        BY <1>6, PacketArrives
      <3>2. PageWords * 1 =< PageWords * host.page
        BY <3>1, TimesMonotonic, GeometryAssumption
      <3> QED BY <1>1, <3>1, <3>2, GeometryAssumption
    <2>2. 0 \notin a .. a + PacketWords - 1
          /\ UsbVector \notin a .. a + PacketWords - 1
      BY <1>1, <2>1, GeometryAssumption
    <2>3. vectorTemp \in [{0, 1} -> LowBits]
      BY DEF TypeOK
    <2> HIDE DEF a, data
    <2> QED BY <1>2, <2>2, <2>3
  <1> HIDE DEF a, data
  <1>7. /\ vectorTemp'[0] \in {vectorTemp[0], rjmp2addr(host.image[0], 0)}
        /\ 0 \in a .. a + PacketWords - 1
              => vectorTemp'[0] = rjmp2addr(host.image[0], 0)
    BY <1>3, <1>4
  <1>8. /\ vectorTemp'[1] \in {vectorTemp[1],
                               rjmp2addr(host.image[UsbVector], UsbVector)}
        /\ UsbVector \in a .. a + PacketWords - 1
              => vectorTemp'[1] = rjmp2addr(host.image[UsbVector], UsbVector)
    BY <1>3, <1>5
  <1> QED BY <1>6, <1>7, <1>8 DEF a

\* A packet adds its words to those already in the page buffer.
LEMMA PacketPageInv ==
  ASSUME TypeOK, EventInv, BufferInv, PageInv, RecvData
  PROVE  PageInv'
PROOF
  <1> DEFINE p == host.page
             k == host.sent
             a == currentAddress
             s == k * PacketWords
  <1>0. InStep
    BY InStepIs
  <1> USE <1>0
  <1>1. /\ p \in Nat /\ p * PageWords \in Nat /\ s \in Offsets /\ s \in Nat
        /\ a = p * PageWords + s /\ OffsetOf(a) = s
        /\ (k + 1) * PacketWords = s + PacketWords
        /\ pc = "poll" /\ events = {} /\ ~TransferDone
        /\ host'.page = p /\ host'.sent = k + 1 /\ host'.image = host.image
        /\ pageBuffer' = Filled(PacketWords, PacketData(k), vectorTemp')
        /\ a' = a + PacketWords /\ PacketWords \in Nat \ {0}
    BY PacketArrives, PacketFacts
  <1>2. \A o \in Offsets : pageBuffer[o] = SentWord(o)
    BY <1>1 DEF PageInv, Looping
  <1>3. ASSUME NEW o \in Offsets PROVE pageBuffer'[o] = SentWord(o)'
    <2>1. SentWord(o)' = IF o < s + PacketWords
                         THEN Patched(p * PageWords + o,
                                      host.image[p * PageWords + o],
                                      vectorTemp')
                         ELSE Blank
      BY <1>1 DEF SentWord
    <2>2. pageBuffer'[o] = IF o - s \in 0 .. PacketWords - 1
                           THEN And(pageBuffer[o],
                                    Patched(a + (o - s), PacketData(k)[o - s],
                                            vectorTemp'))
                           ELSE pageBuffer[o]
      BY <1>1, <1>2, <1>3, PacketArrives, FilledInPage
    <2>3. o \in Nat
      BY GeometryAssumption DEF Offsets
    <2>4. CASE o < s
      <3>1. pageBuffer'[o] = Patched(p * PageWords + o,
                                     host.image[p * PageWords + o],
                                     vectorTemp)
        BY <1>1, <1>2, <2>2, <2>3, <2>4 DEF SentWord
      <3>2. CASE p = 0
        <4>1. p * PageWords + o = o
          BY <2>3, <3>2, GeometryAssumption
        <4> QED BY <1>1, <2>1, <2>3, <2>4, <3>1, <4>1, FirstPagePatched
      <3>3. CASE p # 0
        BY <1>1, <2>1, <2>3, <2>4, <3>1, <3>3, PacketVectors
      <3> QED BY <3>2, <3>3
    <2>5. CASE o >= s /\ o < s + PacketWords
      <3>1. o - s \in 0 .. PacketWords - 1
        BY <1>1, <2>3, <2>5
      <3>2. pageBuffer[o] = Blank
        BY <1>1, <1>2, <2>3, <2>5 DEF SentWord
      <3>3. a + (o - s) = p * PageWords + o
        BY <1>1, <2>3
      <3>4. PacketData(k)[o - s] = host.image[p * PageWords + o]
        BY <3>1, <3>3, PacketWordAt
      <3> QED BY <2>1, <2>2, <2>5, <3>1, <3>2, <3>3, <3>4, Programming
    <2>6. CASE o >= s + PacketWords
      <3>1. o - s \notin 0 .. PacketWords - 1 /\ ~(o < s)
            /\ ~(o < s + PacketWords)
        BY <1>1, <2>3, <2>6
      <3> QED BY <1>2, <2>1, <2>2, <3>1 DEF SentWord
    <2> QED BY <1>1, <2>3, <2>4, <2>5, <2>6
  <1>4. PageInBuffer' => PageOf(currentAddress - 1)' = host'.page
    <2> SUFFICES ASSUME PageInBuffer'
                 PROVE  PageOf(currentAddress' - 1) = p
      BY <1>1
    <2> QED BY <1>1, PacketArrives, PageEnds DEF PageInBuffer
  <1> QED BY <1>3, <1>4 DEF PageInv

\* The page buffer follows the host's transfer.
LEMMA PageInvStep ==
  ASSUME TypeOK, EventInv, BufferInv, PageInv, ~LossyBus, [Next]_vars
  PROVE  PageInv'
PROOF
  <1>1. ASSUME pc' \notin Looping \cup {"write"} PROVE PageInv'
    BY <1>1 DEF PageInv, Looping, PageInBuffer
  <1>2. ASSUME TransferDone', "write" \notin events' PROVE PageInv'
    BY <1>2 DEF PageInv, PageInBuffer
  <1>3. ASSUME UNCHANGED <<pageBuffer, currentAddress, vectorTemp, events,
                           host, pc>>
        PROVE  PageInv'
    BY <1>3 DEF PageInv, PageInBuffer, SentWord, TransferDone
  <1>4. NoTransfer.sent = PacketsPerPage
    BY NoTransferTyped DEF TypeOK
  <1>5. CASE EnterMainLoop
    <2>1. host' = host /\ events' = {} /\ TransferDone
      BY <1>5 DEF EnterMainLoop, RamCleared, BufferInv
    <2> QED BY <1>2, <2>1 DEF TransferDone
  <1>6. CASE SkipMainLoop
    BY <1>1, <1>6 DEF SkipMainLoop, Looping
  <1>7. ASSUME UNCHANGED <<pageBuffer, currentAddress, vectorTemp, host>>,
               pc \in Looping, pc' \in Looping \cup {"write"},
               events' \subseteq events,
               "write" \in events' => PageInBuffer
        PROVE  PageInv'
    <2>1. \A o \in Offsets : SentWord(o)' = SentWord(o)
      BY <1>7 DEF SentWord
    <2>2. TransferDone' = TransferDone
      BY <1>7 DEF TransferDone
    <2>3. pc' = "write" /\ ~PageInBuffer => ~PageInBuffer'
      BY <1>7 DEF PageInBuffer
    <2>4. PageInBuffer' => PageInBuffer
      BY <1>7 DEF PageInBuffer
    <2>5. "write" \notin Looping
      BY DEF Looping
    <2> QED BY <1>7, <2>1, <2>2, <2>3, <2>4 DEF PageInv
  <1>8. CASE PollNothing
    <2>1. events = {}
      BY <1>8 DEF PollNothing, EventInv
    <2> QED BY <1>7, <1>8, <2>1 DEF PollNothing, ram, Looping
  <1>9. CASE HandleErase
    <2>1. CASE "erase" \in events
      BY <1>1, <1>9, <2>1 DEF HandleErase, Looping
    <2>2. CASE "erase" \notin events
      BY <1>7, <1>9, <2>2 DEF HandleErase, Looping, PageInBuffer
    <2> QED BY <2>1, <2>2
  <1>10. CASE ErasePage \/ FillVectors
    BY <1>1, <1>10 DEF ErasePage, FillVectors, Looping
  <1>11. CASE WriteVectors
    <2>1. /\ pc = "vectors" /\ events' = events /\ host' = host
      BY <1>11 DEF WriteVectors, ram
    <2>2. "erase" \in events /\ "write" \notin events
      BY <2>1 DEF EventInv
    <2>3. TransferDone
      BY <2>1, <2>2 DEF BufferInv
    <2> QED BY <1>2, <2>1, <2>2, <2>3 DEF TransferDone
  <1>12. CASE HandleWrite
    <2>1. UNCHANGED <<pageBuffer, currentAddress>>
      BY <1>12 DEF HandleWrite, BufferInv
    <2> QED BY <1>7, <1>12, <2>1 DEF HandleWrite, Looping, PageInBuffer
  <1>13. CASE WritePage
    <2>1. /\ pc = "write" /\ pc' = "handleExecute" /\ events' = events
          /\ host' = host
      BY <1>13 DEF WritePage, ram
    <2>2. "write" \in events
      BY <2>1 DEF EventInv
    <2>3. TransferDone
      BY <2>1, <2>2 DEF BufferInv
    <2> QED BY <2>1, <2>3 DEF PageInv, PageInBuffer, TransferDone
  <1>14. CASE HandleExecute
    <2>1. CASE pc' = "leave"
      BY <1>1, <2>1 DEF Looping
    <2>2. CASE pc' # "leave"
      BY <1>7, <1>14, <2>2 DEF HandleExecute, clearEvents, Looping
    <2> QED BY <2>1, <2>2
  <1>15. CASE LeaveBootloader \/ MisroutedInterrupt \/ AppRestarts
              \/ PowerCycle
    BY <1>1, <1>15, StageTyped
       DEF LeaveBootloader, MisroutedInterrupt, AppRestarts, PowerCycle,
           Looping
  <1>16. CASE SetupStandard \/ SetupInfo \/ SetupErase \/ SetupExecute
    <2>1. /\ pc = "poll" /\ host' = NoTransfer
          /\ "write" \in events' => "write" \in events
      BY <1>16 DEF SetupStandard, SetupInfo, SetupErase, SetupExecute, Setup
    <2>2. events = {}
      BY <2>1 DEF EventInv
    <2> QED BY <1>2, <1>4, <2>1, <2>2 DEF TransferDone
  <1>17. CASE SetupWrite
    <2>1. /\ pc = "poll" /\ pc' = "handle" /\ TransferDone
          /\ UNCHANGED <<pageBuffer, events>>
      BY <1>17 DEF SetupWrite, Setup
    <2>2. host'.sent = 0
      BY <1>17 DEF SetupWrite
    <2>3. events = {} /\ pageBuffer = EmptyBuffer
      BY <2>1 DEF EventInv, BufferInv
    <2>4. \A o \in Offsets : SentWord(o)' = Blank
      <3>1. 0 * PacketWords = 0
        BY PacketFacts
      <3>2. \A o \in Offsets : ~(o < 0)
        BY GeometryAssumption DEF Offsets
      <3> QED BY <2>2, <3>1, <3>2 DEF SentWord
    <2> QED BY <2>1, <2>3, <2>4 DEF PageInv, PageInBuffer, EmptyBuffer
  <1>18. CASE RecvData
    BY <1>18, PacketPageInv
  <1>19. CASE RecvDuplicate
    BY <1>19 DEF RecvDuplicate
  <1>20. CASE AppRuns \/ FallSilent \/ UNCHANGED vars
    BY <1>3, <1>20 DEF AppRuns, FallSilent, vars, ram
  <1> QED
    BY <1>5, <1>6, <1>8, <1>9, <1>10, <1>11, <1>12, <1>13, <1>14, <1>15,
       <1>16, <1>17, <1>18, <1>19, <1>20 DEF Next, Device, Bus, World

(***************************************************************************)
(* What a page operation leaves in a word.                                 *)
(***************************************************************************)
\* Writing a page stores the host's word, patched, in each of its words.
LEMMA WrittenWord ==
  ASSUME TypeOK, EventInv, BufferInv, PageInv, pc = "write", NEW w \in AppWords
  PROVE  PendingFlash[w] \in
            {flash[w], And(flash[w], Patched(w, host.image[w], vectorTemp))}
PROOF
  <1>1. PageInBuffer /\ TransferDone
    BY DEF EventInv, BufferInv, PageInBuffer
  <1>2. w \in Addresses /\ w \in Int
    BY AppWordPages, EntryFacts DEF AppWords
  <1>3. PendingFlash[w] = IF PageOf(w) = host.page
                          THEN And(flash[w], pageBuffer[OffsetOf(w)])
                          ELSE flash[w]
    BY <1>1, <1>2 DEF PageInv, PendingFlash, Programmed
  <1>4. CASE PageOf(w) = host.page
    <2>1. OffsetOf(w) \in Offsets /\ PageOf(w) \in Int
          /\ w = PageWords * PageOf(w) + OffsetOf(w)
      BY <1>2, AddressSplit
    <2>2. host.page * PageWords + OffsetOf(w) = w
      BY <1>4, <2>1, GeometryAssumption DEF Offsets
    <2>3. OffsetOf(w) < host.sent * PacketWords
      BY <1>1, <2>1, PacketAssumption, GeometryAssumption
         DEF TransferDone, Offsets
    <2>4. pageBuffer[OffsetOf(w)] = Patched(w, host.image[w], vectorTemp)
      BY <1>1, <2>1, <2>2, <2>3 DEF PageInv, SentWord
    <2> QED BY <1>3, <1>4, <2>4
  <1> QED BY <1>3, <1>4

\* The end of an erase writes page 0 only.
LEMMA VectorsWord ==
  ASSUME TypeOK, BufferInv, pc = "vectors", NEW w \in Addresses
  PROVE  PendingFlash[w] = IF PageOf(w) = 0
                           THEN And(flash[w], pageBuffer[OffsetOf(w)])
                           ELSE flash[w]
  BY WordZero DEF BufferInv, PendingFlash, Programmed

\* A page erase blanks a word or leaves it.
LEMMA ErasedWord ==
  ASSUME pc = "erase", NEW w \in Addresses
  PROVE  PendingFlash[w] \in {flash[w], Blank}
  BY DEF PendingFlash, Erased

(***************************************************************************)
(* The USB vector.                                                         *)
(***************************************************************************)
\* The bootloader's USB vector leads to its handler; it is not a blank word,
\* and a blank word programmed with it becomes it.
LEMMA IsrFacts ==
  /\ ToIsr # Blank /\ And(Blank, ToIsr) = ToIsr /\ And(ToIsr, ToIsr) = ToIsr
  /\ \A f : f[UsbVector] = ToIsr => Landing(f, UsbVector) = Isr
PROOF
  <1>1. ToIsr # Blank
    BY DEF ToIsr, addr2rjmp, Blank
  <1>2. UsbVector \in AppWords /\ Isr \in LowBits
    BY Places, EntryFacts, GeometryAssumption DEF LowBits, Isr
  <1>3. \A f : f[UsbVector] = ToIsr => Landing(f, UsbVector) = Isr
    BY <1>2, JumpLands DEF ToIsr
  <1> QED BY <1>1, <1>3 DEF And

\* A host that is heard finds the USB vector set, if it may be trusted.
LEMMA AliveMeansUsb ==
  ASSUME BootloaderIntact, UsbInv, UsbAlive, ~tornVectors
  PROVE  flash[UsbVector] = ToIsr
PROOF
  <1> SUFFICES ASSUME flash[UsbVector] = Blank PROVE FALSE
    BY DEF UsbInv
  <1>1. \A w \in AppWords : flash[w] = Blank
    BY DEF UsbInv
  <1>2. UsbVector \in AppWords /\ Entry \in Addresses
    BY Places, EntryFacts, GeometryAssumption DEF Addresses
  <1>3. flash[Entry] = BootCode
    BY <1>2, EntryFacts DEF BootloaderIntact
  <1>4. Landing(flash, UsbVector) = Entry
    BY <1>1, <1>2, <1>3, BlankLands
  <1> QED BY <1>4, EntryFacts DEF UsbAlive, Isr

\* The page operation in progress and the USB vector.
LEMMA PendingUsb ==
  ASSUME TypeOK, SafetyInv, PageInv, UsbInv, ~LossyBus
  PROVE  /\ PendingFlash[UsbVector] \in {ToIsr, Blank}
         /\ pc = "vectors" => PendingFlash[UsbVector] = ToIsr
         /\ pc = "write" /\ ~tornVectors => PendingFlash[UsbVector] = ToIsr
PROOF
  <1>1. EraseInv /\ EventInv /\ BufferInv
    BY DEF SafetyInv
  <1>2. flash[UsbVector] \in {ToIsr, Blank}
    BY DEF UsbInv
  <1>3. CASE pc = "erase"
    BY <1>2, <1>3, Places, ErasedWord
  <1>4. CASE pc = "vectors"
    <2>1. flash[UsbVector] = Blank /\ pageBuffer[UsbVector] = ToIsr
      BY <1>1, <1>4, Places DEF EraseInv, UsbInv
    <2> QED BY <1>1, <1>4, <2>1, Places, VectorsWord, IsrFacts
  <1>5. CASE pc = "write"
    <2>1. ~tornVectors => flash[UsbVector] = ToIsr
      BY <1>1, <1>5 DEF UsbInv, PageInBuffer, EventInv
    <2>2. PendingFlash[UsbVector] \in {flash[UsbVector],
                                       And(flash[UsbVector], ToIsr)}
      BY <1>1, <1>5, Places, WrittenWord, PatchedPlaces
    <2> QED BY <1>2, <1>5, <2>1, <2>2, IsrFacts
  <1>6. CASE pc \notin {"erase", "vectors", "write"}
    BY <1>2, <1>6 DEF PendingFlash
  <1> QED BY <1>3, <1>4, <1>5, <1>6

\* The USB vector survives every step.
LEMMA UsbInvStep ==
  ASSUME TypeOK, SafetyInv, PageInv, UsbInv, ~LossyBus, [Next]_vars
  PROVE  UsbInv'
PROOF
  <1>1. BootloaderIntact /\ EraseInv /\ EventInv /\ BufferInv
    BY DEF SafetyInv
  <1>2. ASSUME UNCHANGED <<flash, tornVectors>>, pc' # "vectors",
               PageInBuffer' => UsbAlive \/ PageInBuffer
        PROVE  UsbInv'
    BY <1>1, <1>2, AliveMeansUsb DEF UsbInv
  <1>3. CASE EnterMainLoop \/ SkipMainLoop
    BY <1>2, <1>3 DEF EnterMainLoop, SkipMainLoop, RamCleared, PageInBuffer
  <1>4. CASE PollNothing
    BY <1>1, <1>2, <1>4 DEF PollNothing, ram, EventInv, PageInBuffer
  <1>5. CASE HandleErase \/ HandleWrite \/ HandleExecute \/ LeaveBootloader
    BY <1>2, <1>5, StageTyped
       DEF HandleErase, HandleWrite, HandleExecute, LeaveBootloader,
           PageInBuffer
  <1>6. CASE ErasePage
    <2>1. flash' = Erased(flash, NextErased) /\ pc' = "erase"
          /\ pc = "erase" /\ erasePage \in 1 .. AppPages
          /\ tornVectors' = tornVectors /\ erasePage' = NextErased
      BY <1>6, GeometryAssumption DEF ErasePage, NextErased, TypeOK
    <2>2. flash'[UsbVector] \in {flash[UsbVector], Blank}
      BY <2>1, Places DEF Erased
    <2>3. ASSUME ~tornVectors', flash'[UsbVector] = Blank, NEW w \in AppWords
          PROVE  flash'[w] = Blank
      <3>1. w \in Addresses /\ PageOf(w) \in 0 .. AppPages - 1
        BY AppWordPages
      <3>2. CASE NextErased = 0
        <4>1. EraseInv'
          BY <1>1, EraseInvStep
        <4> QED BY <2>1, <3>1, <3>2, <4>1 DEF EraseInv
      <3>3. CASE NextErased # 0
        <4>1. flash[UsbVector] = Blank
          BY <2>1, <2>3, <3>3, Places DEF Erased
        <4>2. flash[w] = Blank
          BY <2>1, <2>3, <4>1 DEF UsbInv
        <4> QED BY <2>1, <3>1, <4>2 DEF Erased
      <3> QED BY <3>2, <3>3
    <2>4. ~PageInBuffer'
      BY <2>1 DEF PageInBuffer
    <2> QED BY <2>1, <2>2, <2>3, <2>4 DEF UsbInv
  <1>7. CASE FillVectors
    <2>1. /\ pc = "erase" /\ pc' = "vectors" /\ "erase" \in events
          /\ UNCHANGED <<flash, tornVectors>>
      BY <1>1, <1>7 DEF FillVectors, EventInv
    <2>2. pageBuffer = EmptyBuffer
      BY <1>1, <2>1 DEF BufferInv, Looping
    <2>3. pageBuffer'[UsbVector] =
             And(pageBuffer[UsbVector],
                 Patched(0 - OffsetOf(0) + UsbVector, Blank, vectorTemp))
      <3>1. OffsetOf(0) = 0 /\ UsbVector >= 0
        BY WordZero, GeometryAssumption
      <3> QED BY <1>7, <3>1, Places DEF FillVectors, FillPage
    <2>4. 0 - OffsetOf(0) + UsbVector = UsbVector
          /\ pageBuffer[UsbVector] = Blank
      BY <2>2, WordZero, Places, GeometryAssumption DEF EmptyBuffer
    <2>5. pageBuffer'[UsbVector] = ToIsr
      BY <2>3, <2>4, PatchedPlaces, IsrFacts
    <2>6. ~PageInBuffer'
      BY <2>1 DEF PageInBuffer
    <2> QED BY <2>1, <2>5, <2>6 DEF UsbInv
  <1>8. CASE WriteVectors
    <2>1. flash' = PendingFlash /\ pc = "vectors" /\ pc' = "handleWrite"
      BY <1>8 DEF WriteVectors, writeFlashPage, PendingFlash
    <2>2. flash'[UsbVector] = ToIsr
      BY <2>1, PendingUsb
    <2> QED BY <2>1, <2>2, IsrFacts DEF UsbInv
  <1>10. CASE WritePage
    <2>1. flash' = PendingFlash /\ pc = "write" /\ pc' = "handleExecute"
          /\ tornVectors' = tornVectors
      BY <1>10 DEF WritePage, writeFlashPage, PendingFlash
    <2>2. /\ flash'[UsbVector] \in {ToIsr, Blank}
          /\ ~tornVectors => flash'[UsbVector] = ToIsr
      BY <2>1, PendingUsb
    <2> QED BY <2>1, <2>2, IsrFacts DEF UsbInv, PageInBuffer
  <1>13. CASE Bus
    <2>1. CASE SetupStandard \/ SetupInfo \/ SetupWrite \/ SetupErase
               \/ SetupExecute
      BY <1>2, <2>1 DEF SetupStandard, SetupInfo, SetupWrite, SetupErase,
                        SetupExecute, Setup
    <2>2. CASE RecvData \/ RecvDuplicate
      BY <1>2, <2>2 DEF RecvData, RecvDuplicate
    <2>3. CASE MisroutedInterrupt
      BY <1>2, <2>3, StageTyped DEF MisroutedInterrupt, PageInBuffer
    <2> QED BY <1>13, <2>1, <2>2, <2>3 DEF Bus
  <1>14. CASE AppRestarts
    BY <1>2, <1>14, StageTyped DEF AppRestarts, PageInBuffer
  <1>15. CASE PowerCycle
    <2>1. PICK done \in SUBSET Offsets :
             /\ flash' = [w \in Addresses |-> IF OffsetOf(w) \in done
                                              THEN PendingFlash[w]
                                              ELSE flash[w]]
             /\ tornVectors' = (tornVectors
                                \/ (RewritingVectors /\ done # {}))
      BY <1>15 DEF PowerCycle
    <2>2. pc' \in {"start", "app"}
      BY <1>15, StageTyped DEF PowerCycle
    <2>3. flash'[UsbVector] \in {flash[UsbVector], PendingFlash[UsbVector]}
      BY <2>1, Places
    <2>4. flash'[UsbVector] \in {ToIsr, Blank}
      BY <2>3, PendingUsb DEF UsbInv
    <2>5. ASSUME ~tornVectors', flash'[UsbVector] = Blank, NEW w \in AppWords
          PROVE  flash'[w] = Blank
      <3>1. w \in Addresses /\ PageOf(w) \in 0 .. AppPages - 1
        BY AppWordPages
      <3>2. ~tornVectors /\ (done # {} => ~RewritingVectors)
        BY <2>1, <2>5
      <3>3. ASSUME flash[UsbVector] = Blank PROVE flash[w] = Blank
        BY <3>2, <3>3 DEF UsbInv
      <3>4. CASE done = {}
        BY <2>1, <2>5, <3>1, <3>3, <3>4, Places
      <3>5. CASE done # {} /\ pc = "erase" /\ erasePage > 0
        <4>1. NextErased # 0
          BY <3>2, <3>5 DEF RewritingVectors, NextErased, TypeOK
        <4>2. PendingFlash[UsbVector] = flash[UsbVector]
          BY <3>5, <4>1, Places DEF PendingFlash, Erased
        <4>3. flash[UsbVector] = Blank
          BY <2>3, <2>5, <4>2
        <4>4. PendingFlash[w] \in {flash[w], Blank}
          BY <3>1, <3>5, ErasedWord
        <4> QED BY <2>1, <3>1, <3>3, <4>3, <4>4
      <3>6. CASE done # {} /\ pc = "write"
        <4>1. flash[UsbVector] = ToIsr
          BY <1>1, <3>2, <3>6 DEF UsbInv, EventInv, PageInBuffer
        <4>2. PendingFlash[UsbVector] = ToIsr
          BY <3>2, <3>6, PendingUsb
        <4> QED BY <2>3, <2>5, <4>1, <4>2, IsrFacts
      <3>7. CASE /\ done # {} /\ pc # "write"
                 /\ ~(pc = "erase" /\ erasePage > 0)
        <4>1. PendingFlash = flash
          BY <3>2, <3>7 DEF PendingFlash, RewritingVectors
        <4> QED BY <2>1, <2>5, <3>1, <3>3, <4>1, Places
      <3> QED BY <3>4, <3>5, <3>6, <3>7
    <2> QED BY <2>2, <2>4, <2>5 DEF UsbInv, PageInBuffer
  <1>16. CASE AppRuns \/ FallSilent \/ UNCHANGED vars
    BY <1>16 DEF AppRuns, FallSilent, vars, ram, UsbInv, PageInBuffer
  <1> QED
    BY <1>3, <1>4, <1>5, <1>6, <1>7, <1>8, <1>10, <1>13, <1>14, <1>15, <1>16
       DEF Next, Device, World

\* When the erase is over, both vectors are there.
LEMMA AfterEraseStep ==
  ASSUME TypeOK, SafetyInv, PageInv, UsbInv, VectorsAfterErase, ~LossyBus,
         [Next]_vars
  PROVE  VectorsAfterErase'
PROOF
  <1>1. EraseInv /\ VectorInv /\ EventInv /\ BufferInv
    BY DEF SafetyInv
  <1>2. CASE pc' # "handleWrite" \/ "erase" \notin events'
    BY <1>2 DEF VectorsAfterErase
  <1>3. CASE HandleErase
    BY <1>2, <1>3 DEF HandleErase
  <1>4. CASE WriteVectors
    <2>1. flash' = PendingFlash /\ pc = "vectors"
      BY <1>4 DEF WriteVectors, writeFlashPage, PendingFlash
    <2> QED BY <1>1, <2>1, PendingReset, PendingUsb DEF VectorsAfterErase
  <1>5. CASE AppRuns \/ FallSilent \/ UNCHANGED vars
    BY <1>5 DEF AppRuns, FallSilent, vars, ram, VectorsAfterErase
  <1>6. Device => HandleErase \/ WriteVectors \/ pc' # "handleWrite"
    BY StageTyped
       DEF Device, EnterMainLoop, SkipMainLoop, PollNothing, ErasePage,
           FillVectors, HandleWrite, WritePage, HandleExecute,
           LeaveBootloader
  <1>7. Bus => pc' # "handleWrite"
    BY StageTyped
       DEF Bus, SetupStandard, SetupInfo, SetupWrite, SetupErase,
           SetupExecute, Setup, RecvData, RecvDuplicate, MisroutedInterrupt
  <1>8. AppRestarts \/ PowerCycle => pc' # "handleWrite"
    BY StageTyped DEF AppRestarts, PowerCycle
  <1> QED BY <1>2, <1>3, <1>4, <1>5, <1>6, <1>7, <1>8 DEF Next, World

(***************************************************************************)
(* The tiny table.                                                         *)
(***************************************************************************)
\* A word of the tiny table after the page operation in progress: what it
\* was, nothing that can be executed, or a jump to a remembered vector.
LEMMA PendingTable ==
  ASSUME TypeOK, SafetyInv, PageInv, ~LossyBus
  PROVE  /\ PendingFlash[AppReset] \in
                {flash[AppReset], Blank, Mixed,
                 addr2rjmp(vectorTemp[0], AppReset)}
         /\ PendingFlash[AppUsb] \in
                {flash[AppUsb], Blank, Mixed, addr2rjmp(vectorTemp[1], AppUsb)}
PROOF
  <1>1. EraseInv /\ EventInv /\ BufferInv
    BY DEF SafetyInv
  <1>2. CASE pc = "erase"
    BY <1>2, Places, ErasedWord
  <1>3. CASE pc = "vectors"
    BY <1>1, <1>3, Places, VectorsWord
  <1>4. CASE pc = "write"
    <2>1. PendingFlash[AppReset] \in
            {flash[AppReset],
             And(flash[AppReset], addr2rjmp(vectorTemp[0], AppReset))}
      BY <1>1, <1>4, Places, WrittenWord, PatchedPlaces
    <2>2. PendingFlash[AppUsb] \in
            {flash[AppUsb],
             And(flash[AppUsb], addr2rjmp(vectorTemp[1], AppUsb))}
      BY <1>1, <1>4, Places, WrittenWord, PatchedPlaces
    <2> QED BY <2>1, <2>2, Programming
  <1>5. CASE pc \notin {"erase", "vectors", "write"}
    BY <1>5 DEF PendingFlash
  <1> QED BY <1>2, <1>3, <1>4, <1>5

\* Only the start of the bootloader and a packet change what is remembered.
LEMMA VectorTempStep ==
  ASSUME TypeOK, SafetyInv, TableInv, ~LossyBus, [Next]_vars
  PROVE  /\ vectorTemp'[0] \in {0} \cup Led(0)
         /\ vectorTemp'[1] \in {0} \cup Led(UsbVector)
PROOF
  <1>1. CASE vectorTemp' = vectorTemp
    BY <1>1 DEF TableInv
  <1>2. CASE RamCleared
    BY <1>2 DEF RamCleared
  <1>3. CASE RecvData
    <2>1. EventInv /\ BufferInv /\ host.image \in Images
      BY DEF SafetyInv, TypeOK, Transfer
    <2>2. /\ rjmp2addr(host.image[0], 0) \in Led(0)
          /\ rjmp2addr(host.image[UsbVector], UsbVector) \in Led(UsbVector)
      BY <2>1 DEF Led
    <2> QED BY <1>3, <2>1, <2>2, InStepIs, PacketVectors DEF TableInv
  <1>4. Device => RamCleared \/ vectorTemp' = vectorTemp
    BY DEF Device, EnterMainLoop, SkipMainLoop, PollNothing, HandleErase,
           ErasePage, FillVectors, WriteVectors, HandleWrite, WritePage,
           HandleExecute, LeaveBootloader, ram
  <1>5. Bus => RecvData \/ vectorTemp' = vectorTemp
    BY DEF Bus, SetupStandard, SetupInfo, SetupWrite, SetupErase,
           SetupExecute, Setup, RecvDuplicate, MisroutedInterrupt, ram
  <1>6. World \/ UNCHANGED vars => vectorTemp' = vectorTemp
    BY DEF World, AppRestarts, AppRuns, PowerCycle, FallSilent, vars, ram
  <1> QED BY <1>1, <1>2, <1>3, <1>4, <1>5, <1>6 DEF Next

\* The tiny table holds no jump but those it may hold.
LEMMA TableInvStep ==
  ASSUME TypeOK, SafetyInv, PageInv, TableInv, ~LossyBus, [Next]_vars
  PROVE  TableInv'
PROOF
  <1>1. /\ vectorTemp'[0] \in {0} \cup Led(0)
        /\ vectorTemp'[1] \in {0} \cup Led(UsbVector)
    BY VectorTempStep
  <1>2. /\ flash'[AppReset] \in {flash[AppReset], PendingFlash[AppReset]}
        /\ flash'[AppUsb] \in {flash[AppUsb], PendingFlash[AppUsb]}
    BY FlashStep, Places
  <1>3. Blank.op # "rjmp" /\ Mixed.op # "rjmp"
    BY DEF Blank, Mixed
  <1>4. flash'[AppReset].op = "rjmp" =>
            \E t \in {0, Entry} \cup Led(0) :
                flash'[AppReset] = addr2rjmp(t, AppReset)
    <2>1. flash'[AppReset] \in {flash[AppReset], Blank, Mixed,
                                addr2rjmp(vectorTemp[0], AppReset)}
      BY <1>2, PendingTable
    <2>2. vectorTemp[0] \in {0, Entry} \cup Led(0)
      BY DEF TableInv
    <2> QED BY <1>3, <2>1, <2>2 DEF TableInv
  <1>5. flash'[AppUsb].op = "rjmp" =>
            \E t \in {0, Entry} \cup Led(UsbVector) :
                flash'[AppUsb] = addr2rjmp(t, AppUsb)
    <2>1. flash'[AppUsb] \in {flash[AppUsb], Blank, Mixed,
                              addr2rjmp(vectorTemp[1], AppUsb)}
      BY <1>2, PendingTable
    <2>2. vectorTemp[1] \in {0, Entry} \cup Led(UsbVector)
      BY DEF TableInv
    <2> QED BY <1>3, <2>1, <2>2 DEF TableInv
  <1>6. Led(0)' = Led(0) /\ Led(UsbVector)' = Led(UsbVector)
    BY DEF Led
  <1> QED BY <1>1, <1>4, <1>5, <1>6 DEF TableInv

\* Where the jumps of the tiny table lead.
LEMMA TableInvLeads == TableInv => TableTargets
PROOF
  <1> SUFFICES ASSUME TableInv PROVE TableTargets
    OBVIOUS
  <1>1. ASSUME NEW v \in {0, UsbVector}, NEW t \in {0, Entry} \cup Led(v)
        PROVE  t \in LowBits
    <2>1. v \in Int /\ 0 \in LowBits /\ Entry \in LowBits
      BY EntryFacts, GeometryAssumption DEF LowBits
    <2>2. 0 \in AppWords /\ UsbVector \in AppWords
      BY WordZero, Places
    <2>3. \A i \in Images : rjmp2addr(i[v], v) \in LowBits
      BY <2>1, <2>2, RelocationTyped, ImagesAssumption
    <2> QED BY <2>1, <2>3 DEF Led
  <1>2. flash[AppReset].op = "rjmp" =>
            Landing(flash, AppReset) \in {0, Entry} \cup Led(0)
    BY <1>1, Places, JumpLands DEF TableInv
  <1>3. flash[AppUsb].op = "rjmp" =>
            Landing(flash, AppUsb) \in {0, Entry} \cup Led(UsbVector)
    BY <1>1, Places, JumpLands DEF TableInv
  <1>4. \A v : {(i[v].arg + v + 1) % FlashWords : i \in Images} = Led(v)
    BY DEF Led, rjmp2addr
  <1> QED BY <1>2, <1>3, <1>4 DEF TableTargets

(***************************************************************************)
(* The theorems.                                                           *)
(***************************************************************************)
\* A device as shipped satisfies the invariants.
LEMMA InitContents == Init => ContentsInv
PROOF
  <1> SUFFICES ASSUME Init PROVE ContentsInv
    OBVIOUS
  <1>1. PageInv
    BY DEF Init, PageInv, PageInBuffer, Looping
  <1>2. VectorsAfterErase
    BY DEF Init, VectorsAfterErase
  <1>3. UsbInv
    <2>1. /\ ~(UsbVector >= Entry)
          /\ UsbVector \notin {AppReset, AppUsb, StoredOsccal}
      BY EntryFacts, GeometryAssumption DEF AppReset, AppUsb, StoredOsccal
    <2>2. flash[UsbVector] = ToIsr
      BY <2>1, Places DEF Init, FactoryFlash
    <2> QED BY <2>2, IsrFacts DEF Init, UsbInv, PageInBuffer
  <1>4. TableInv
    <2>1. /\ ~(AppReset >= Entry) /\ ~(AppUsb >= Entry)
          /\ AppReset # UsbVector /\ AppUsb # UsbVector
          /\ StoredOsccal \notin {AppReset, AppUsb}
      BY EntryFacts, GeometryAssumption DEF AppReset, AppUsb, StoredOsccal
    <2>2. flash[AppReset] = addr2rjmp(Entry, AppReset)
      BY <2>1, Places DEF Init, FactoryFlash
    <2>3. flash[AppUsb] = addr2rjmp(Entry, AppUsb)
      BY <2>1, Places DEF Init, FactoryFlash
    <2>4. vectorTemp[0] = 0 /\ vectorTemp[1] = 0
      BY DEF Init
    <2> QED BY <2>2, <2>3, <2>4 DEF TableInv
  <1> QED BY <1>1, <1>2, <1>3, <1>4 DEF ContentsInv

\* On a bus that delivers whole pages the page buffer, the USB vector and the
\* tiny table stay as the invariants say.
THEOREM Contents == ~LossyBus => (Spec => []ContentsInv)
PROOF
  <1> SUFFICES ASSUME ~LossyBus PROVE Spec => []ContentsInv
    OBVIOUS
  <1>1. TypeOK /\ SafetyInv /\ ContentsInv /\ [Next]_vars => ContentsInv'
    <2> SUFFICES ASSUME TypeOK, SafetyInv, ContentsInv, [Next]_vars
                 PROVE  ContentsInv'
      OBVIOUS
    <2>1. PageInv /\ UsbInv /\ TableInv /\ VectorsAfterErase
      BY DEF ContentsInv
    <2>2. EventInv /\ BufferInv
      BY DEF SafetyInv
    <2>3. PageInv'
      BY <2>1, <2>2, PageInvStep
    <2>4. UsbInv'
      BY <2>1, UsbInvStep
    <2>5. TableInv'
      BY <2>1, TableInvStep
    <2>6. VectorsAfterErase'
      BY <2>1, AfterEraseStep
    <2> QED BY <2>3, <2>4, <2>5, <2>6 DEF ContentsInv
  <1> QED BY <1>1, InitContents, Safe, TypeCorrect, StepIsNext, PTL DEF Spec

\* A page about to be written is the page the host sent, with the vectors and
\* the tiny table patched: no word of an earlier fill is left in the buffer.
THEOREM PagesAsSent == Spec => []PageAsSent
PROOF
  <1>1. CASE LossyBus
    <2>1. PageAsSent
      BY <1>1 DEF PageAsSent
    <2> QED BY <2>1, PTL
  <1>2. CASE ~LossyBus
    <2>1. TypeOK /\ SafetyInv /\ ContentsInv => PageAsSent
      <3> SUFFICES ASSUME TypeOK, SafetyInv, ContentsInv, pc = "write",
                          NEW o \in Offsets
                   PROVE  /\ PageOf(currentAddress - 1) = host.page
                          /\ pageBuffer[o] =
                                Patched(host.page * PageWords + o,
                                        host.image[host.page * PageWords + o],
                                        vectorTemp)
        BY DEF PageAsSent
      <3>1. PageInBuffer /\ TransferDone /\ PageInv
        BY <1>2 DEF SafetyInv, EventInv, BufferInv, ContentsInv, PageInBuffer
      <3>2. o < host.sent * PacketWords
        BY <3>1, PacketAssumption, GeometryAssumption
           DEF TransferDone, Offsets
      <3> QED BY <3>1, <3>2 DEF PageInv, SentWord
    <2> QED BY <1>2, <2>1, Contents, Safe, TypeCorrect, PTL
  <1> QED BY <1>1, <1>2

\* eraseApplication returns with both vectors in place.
THEOREM EraseLeavesVectors == ~LossyBus => (Spec => []VectorsAfterErase)
PROOF
  <1>1. ContentsInv => VectorsAfterErase
    BY DEF ContentsInv
  <1> QED BY <1>1, Contents, PTL

\* A jump in the tiny table leads where a vector of an image led before it
\* was moved, or back into the bootloader.
THEOREM TableLeadsBack == Spec => []TableTargets
PROOF
  <1>1. CASE LossyBus
    <2>1. TableTargets
      BY <1>1 DEF TableTargets
    <2> QED BY <2>1, PTL
  <1>2. CASE ~LossyBus
    <2>1. ContentsInv => TableTargets
      BY TableInvLeads DEF ContentsInv
    <2> QED BY <1>2, <2>1, Contents, PTL
  <1> QED BY <1>1, <1>2

\* From its start to the jump into the application the bootloader has its
\* magic on the stack.
LEMMA MagicStep ==
  ASSUME MagicInv, [Next]_vars
  PROVE  MagicInv'
PROOF
  <1>1. CASE pc' \in {"start", "app"}
    BY <1>1 DEF MagicInv
  <1>2. CASE pc \notin {"start", "app"} /\ UNCHANGED magic
    BY <1>2 DEF MagicInv
  <1>3. CASE UNCHANGED <<pc, magic>>
    BY <1>3 DEF MagicInv
  <1>4. CASE Device
    BY <1>1, <1>2, <1>4, StageTyped
       DEF Device, EnterMainLoop, SkipMainLoop, RamCleared, PollNothing,
           HandleErase, ErasePage, FillVectors, WriteVectors, HandleWrite,
           WritePage, HandleExecute, LeaveBootloader, MagicInv
  <1>5. CASE Bus
    BY <1>1, <1>2, <1>5, StageTyped
       DEF Bus, SetupStandard, SetupInfo, SetupWrite, SetupErase,
           SetupExecute, Setup, RecvData, RecvDuplicate, MisroutedInterrupt
  <1>6. CASE World \/ UNCHANGED vars
    BY <1>1, <1>3, <1>6, StageTyped
       DEF World, AppRestarts, AppRuns, PowerCycle, FallSilent, vars
  <1> QED BY <1>4, <1>5, <1>6 DEF Next

LEMMA MagicStays == Spec => []MagicInv
PROOF
  <1>1. Init => MagicInv
    BY DEF Init, MagicInv
  <1> QED BY <1>1, MagicStep, StepIsNext, PTL DEF Spec

\* While the bootloader polls and USB does not reach it, power has failed
\* between the erase of page 0 and the write of the vectors and nothing is
\* left of the application.
THEOREM DeadOnlyWhenErased == Spec => []UsbDeadOnlyWhenErased
PROOF
  <1>1. CASE LossyBus
    <2>1. UsbDeadOnlyWhenErased
      BY <1>1 DEF UsbDeadOnlyWhenErased
    <2> QED BY <2>1, PTL
  <1>2. CASE ~LossyBus
    <2>1. ContentsInv /\ MagicInv => UsbDeadOnlyWhenErased
      <3> SUFFICES ASSUME ContentsInv, MagicInv, ~tornVectors, pc = "poll",
                          ~UsbAlive
                   PROVE  \A w \in AppWords : flash[w] = Blank
        BY DEF UsbDeadOnlyWhenErased
      <3>1. magic /\ UsbInv
        BY DEF MagicInv, ContentsInv
      <3>2. flash[UsbVector] # ToIsr
        BY <3>1, IsrFacts DEF UsbAlive
      <3> QED BY <3>1, <3>2 DEF UsbInv
    <2> QED BY <1>2, <2>1, Contents, MagicStays, PTL
  <1> QED BY <1>1, <1>2

\* The magic is gone, or the vector leads elsewhere.
QuietApp == pc = "app" => ~UsbAlive

\* The bootloader's handler takes no USB interrupt while the application runs.
THEOREM AppHasUsb == Spec => []AppKeepsUsb
PROOF
  <1>1. Init => QuietApp
    BY DEF Init, QuietApp
  <1>2. QuietApp /\ [Next]_vars => QuietApp'
    <2> SUFFICES ASSUME QuietApp, [Next]_vars PROVE QuietApp'
      OBVIOUS
    <2>1. CASE pc' # "app"
      BY <2>1 DEF QuietApp
    <2>2. CASE ~magic'
      BY <2>2 DEF QuietApp, UsbAlive
    <2>3. CASE UNCHANGED <<flash, magic>> /\ ~UsbAlive
      BY <2>3 DEF QuietApp, UsbAlive
    <2>4. CASE Device
      BY <2>1, <2>2, <2>4
         DEF Device, EnterMainLoop, SkipMainLoop, PollNothing, HandleErase,
             ErasePage, FillVectors, WriteVectors, HandleWrite, WritePage,
             HandleExecute, LeaveBootloader
    <2>5. CASE Bus
      BY <2>1, <2>3, <2>5
         DEF Bus, SetupStandard, SetupInfo, SetupWrite, SetupErase,
             SetupExecute, Setup, RecvData, RecvDuplicate, MisroutedInterrupt
    <2>6. CASE AppRestarts \/ PowerCycle
      BY <2>2, <2>3, <2>6 DEF AppRestarts, PowerCycle, QuietApp
    <2>7. CASE AppRuns \/ FallSilent \/ UNCHANGED vars
      BY <2>1, <2>3, <2>7 DEF AppRuns, FallSilent, vars, QuietApp
    <2> QED BY <2>4, <2>5, <2>6, <2>7 DEF Next, World
  <1>3. QuietApp => AppKeepsUsb
    BY DEF QuietApp, AppKeepsUsb
  <1> QED BY <1>1, <1>2, <1>3, StepIsNext, PTL DEF Spec

(***************************************************************************)
(* A host that erases the device and sends it one image, page by page,     *)
(* from the bottom up, each page as often as it likes.  What is said of it *)
(* here holds for mnflash and for micronucleus.                            *)
(***************************************************************************)
\* The vectors the tiny table is built from.
VectorsIn(im) ==
    [i \in {0, 1} |-> LET v == IF i = 0 THEN 0 ELSE UsbVector
                      IN  rjmp2addr(im[v], v)]

\* What is at w after an erase, and once image im is there.
Bare(w)    == CASE w = 0 -> ToEntry [] w = UsbVector -> ToIsr [] OTHER -> Blank
Due(im, w) == Patched(w, im[w], VectorsIn(im))

There(im, p) == \A w \in AppWords : PageOf(w) = p => flash[w] = Due(im, w)
AllThere(im) == \A w \in AppWords : flash[w] = Due(im, w)

\* The erase has been asked for and is not over.
Erasing == "erase" \in events /\ pc \in {"handle", "erase", "vectors"}

ErasingInv ==
    /\ "erase" \in events /\ pc \in {"handle", "erase"} => pageBuffer = EmptyBuffer
    /\ pc = "vectors" => /\ currentAddress = PageWords
                         /\ \A o \in Offsets : pageBuffer[o] = Bare(o)

\* Afterwards each word is as the erase left it or as it is due, and the page
\* of the tiny table is the last to be written.
WrittenInv(im) ==
    ~Erasing =>
        /\ \A w \in AppWords : flash[w] \in {Bare(w), Due(im, w)}
        /\ \/ \A w \in AppWords : PageOf(w) = AppPages - 1 => flash[w] = Blank
           \/ AllThere(im)

\* A page about to be written is whole, and all below it are there.
PendingInv(im) ==
    PageInBuffer =>
        LET q == PageOf(currentAddress - 1)
        IN  /\ OffsetOf(currentAddress) = 0
            /\ q \in 0 .. AppPages - 1
            /\ \A o \in Offsets : pageBuffer[o] = Due(im, q * PageWords + o)
            /\ \A p \in 0 .. q - 1 : There(im, p)

RunsInv(im) == pc = "app" => AllThere(im)

\* The page on the bus is one of im, and what has come of it is in the page
\* buffer.
MovingInv(im) ==
    ~TransferDone =>
        /\ pc \notin {"start", "app"}
        /\ events \cap {"erase", "write"} = {}
        /\ currentAddress = host.page * PageWords + host.sent * PacketWords
        /\ \A o \in Offsets :
              o < host.sent * PacketWords
                => pageBuffer[o] = Due(im, host.page * PageWords + o)
        /\ \A w \in AppWords :
              PageOf(w) = host.page
                => Patched(w, host.image[w], VectorsIn(im)) = Due(im, w)
        /\ host.page # 0 => vectorTemp = VectorsIn(im)
        /\ host.page = 0 =>
              /\ host.image = im
              /\ 0 < host.sent * PacketWords
                    => vectorTemp[0] = VectorsIn(im)[0]
              /\ UsbVector < host.sent * PacketWords
                    => vectorTemp[1] = VectorsIn(im)[1]
        /\ \A p \in 0 .. host.page - 1 : There(im, p)

\* What transfers that broke off have left in the page buffer are words of the
\* pages in P, as they are due.
Leftover(im, P) ==
    pc \in Looping /\ ~Erasing /\ ~PageInBuffer =>
        \A o \in Offsets :
            \/ pageBuffer[o] = Blank
            \/ \E p \in P : pageBuffer[o] = Due(im, p * PageWords + o)

\* The device has all of page p, even if it has yet to write it.
Delivered(im, p) ==
    There(im, p) \/ (PageInBuffer /\ PageOf(currentAddress - 1) = p)

HostInv(im, P) ==
    /\ EraseInv /\ EventInv /\ ErasingInv
    /\ WrittenInv(im) /\ PendingInv(im) /\ RunsInv(im) /\ MovingInv(im)
    /\ Leftover(im, P)
    /\ ~TransferDone => host.page \in P

\* What holds of the device whatever the bus brings, while it has power.
DeviceInv == TypeOK /\ BootloaderIntact /\ EraseInv /\ EventInv /\ MagicInv

LEMMA DeviceInvStep ==
  ASSUME DeviceInv, ~LossyBus, [Next]_vars
  PROVE  DeviceInv'
  BY NextTyped, IntactStepClean, EraseInvStep, EventInvStep, MagicStep DEF DeviceInv

\* It holds, too, when the host gives up a transfer.
LEMMA DeviceInvCut ==
  ASSUME DeviceInv, host' = NoTransfer,
         UNCHANGED <<flash, pageBuffer, ram, magic, pc, quiet, tornVectors>>
  PROVE  DeviceInv' /\ TransferDone'
PROOF
  <1>1. host' \in Transfer /\ TransferDone'
    BY NoTransferTyped DEF DeviceInv, TypeOK, TransferDone
  <1>2. TypeOK'
    BY <1>1 DEF DeviceInv, TypeOK, ram
  <1>3. BootloaderIntact' /\ EraseInv' /\ EventInv' /\ MagicInv'
    BY DEF DeviceInv, BootloaderIntact, EraseInv, EventInv, MagicInv, ram
  <1> QED BY <1>1, <1>2, <1>3 DEF DeviceInv

\* A transfer that is over cannot be given up.
LEMMA NothingToCut ==
  ASSUME TypeOK, TransferDone
  PROVE  NoTransfer = host
  BY DEF TypeOK, Transfer, TransferDone, NoTransfer

\* What the device remembers and what the bus carries, while it stays in its
\* loop.
LEMMA DeviceKeeps ==
  ASSUME Device, pc # "start"
  PROVE  /\ vectorTemp' = vectorTemp
         /\ pc' \in {"start", "app"} \/ host' = host
         /\ host' = host \/ (host' = NoTransfer /\ pc' \notin Looping)
  BY StageTyped
     DEF Device, EnterMainLoop, SkipMainLoop, PollNothing, HandleErase,
         ErasePage, FillVectors, WriteVectors, HandleWrite, WritePage,
         HandleExecute, LeaveBootloader, ram, Looping

(***************************************************************************)
(* Lemmas about words.                                                     *)
(***************************************************************************)
\* A word that is due can be programmed over what the erase left, and over
\* itself, as often as one likes.
LEMMA DueWords ==
  ASSUME NEW im, NEW w \in AppWords
  PROVE  /\ Bare(w) \in {Blank, Due(im, w)}
         /\ \A x \in {Blank, Bare(w), Due(im, w)} : And(x, Due(im, w)) = Due(im, w)
         /\ PageOf(w) = AppPages - 1 => Bare(w) = Blank
PROOF
  <1>1. Bare(w) \in {Blank, Due(im, w)}
    BY PatchedReset, PatchedPlaces DEF Bare, Due
  <1>2. PageOf(w) = AppPages - 1 => Bare(w) = Blank
    BY WordZero, Places, GeometryAssumption DEF Bare
  <1>3. \A y : And(Blank, y) = y /\ And(y, y) = y
    BY DEF And
  <1> QED BY <1>1, <1>2, <1>3

\* Page 0 is bare after the erase of what was blank.
LEMMA BareFilled ==
  ASSUME NEW o \in Offsets, NEW vt
  PROVE  And(Blank, Patched(o, Blank, vt)) = Bare(o)
PROOF
  <1>1. o \notin {AppReset, AppUsb, StoredOsccal}
    BY EntryFacts, GeometryAssumption DEF Offsets, AppReset, AppUsb, StoredOsccal
  <1>2. And(Blank, Patched(o, Blank, vt)) = Patched(o, Blank, vt)
    BY Programming
  <1> QED BY <1>1, <1>2 DEF Patched, Bare

\* Every word has its place in its page.
LEMMA WordInPage ==
  ASSUME NEW w \in AppWords
  PROVE  /\ OffsetOf(w) \in Offsets
         /\ w = PageOf(w) * PageWords + OffsetOf(w)
         /\ PageOf(w) \in 0 .. AppPages - 1 /\ w \in Addresses
PROOF
  <1>1. w \in Int
    BY EntryFacts DEF AppWords
  <1>2. OffsetOf(w) \in Offsets /\ w = PageWords * PageOf(w) + OffsetOf(w)
    BY <1>1, AddressSplit
  <1>3. PageOf(w) \in 0 .. AppPages - 1 /\ w \in Addresses
    BY AppWordPages
  <1> QED BY <1>2, <1>3, GeometryAssumption

\* The tiny table lies in the last page.
LEMMA TableIsLast ==
  ASSUME NEW w \in AppReset .. Entry - 1
  PROVE  w \in AppWords /\ PageOf(w) = AppPages - 1
PROOF
  <1> DEFINE base == (AppPages - 1) * PageWords
  <1>1. base + PageWords = Entry /\ base \in Nat
    BY GeometryAssumption DEF Entry
  <1> HIDE DEF base
  <1>2. w \in Int /\ w - base \in Offsets /\ w = base + (w - base)
        /\ w \in AppWords
    BY <1>1, EntryFacts, GeometryAssumption DEF AppReset, Offsets, AppWords
  <1>3. PageOf(w) = AppPages - 1
    BY <1>2, SplitUnique, GeometryAssumption DEF base
  <1> QED BY <1>2, <1>3

(***************************************************************************)
(* Steps that leave flash and page buffer alone.                           *)
(***************************************************************************)
\* More may be left over than is.
LEMMA MoreLeftover ==
  ASSUME NEW im, NEW P, NEW Q, HostInv(im, P), P \subseteq Q
  PROVE  HostInv(im, Q)
  BY DEF HostInv, Leftover

LEMMA KeepsHost ==
  ASSUME NEW im, NEW P, HostInv(im, P), EraseInv', EventInv', ErasingInv',
         UNCHANGED <<flash, pageBuffer, currentAddress, vectorTemp>>,
         host' = host \/ TransferDone',
         events' \cap {"erase", "write"} \subseteq events,
         pc' = pc \/ pc' \notin {"start", "app"},
         pc' \in Looping => pc \in Looping,
         Erasing' <=> Erasing, PageInBuffer' <=> PageInBuffer
  PROVE  HostInv(im, P)' /\ \A p : Delivered(im, p)' <=> Delivered(im, p)
PROOF
  <1>1. \A p : There(im, p)' <=> There(im, p)
    BY DEF There
  <1>2. WrittenInv(im)' /\ RunsInv(im)'
    BY DEF HostInv, WrittenInv, RunsInv, AllThere
  <1>3. PendingInv(im)'
    BY <1>1 DEF HostInv, PendingInv
  <1>4. MovingInv(im)'
    <2> SUFFICES ASSUME ~TransferDone' PROVE MovingInv(im)'
      BY DEF MovingInv
    <2>1. host' = host /\ ~TransferDone
      BY DEF TransferDone
    <2> QED BY <1>1, <2>1 DEF HostInv, MovingInv
  <1>5. Leftover(im, P)'
    BY DEF HostInv, Leftover
  <1>6. ~TransferDone' => host'.page \in P
    BY DEF HostInv, TransferDone
  <1>7. \A p : Delivered(im, p)' <=> Delivered(im, p)
    BY <1>1 DEF Delivered
  <1> QED BY <1>2, <1>3, <1>4, <1>5, <1>6, <1>7 DEF HostInv

(***************************************************************************)
(* The steps of the device.                                                *)
(***************************************************************************)
\* The end of the erase: page 0 is bare, the rest blank.
LEMMA EraseEnds ==
  ASSUME TypeOK, NEW im, NEW P, HostInv(im, P), WriteVectors
  PROVE  HostInv(im, P)'
PROOF
  <1>1. /\ pc = "vectors" /\ pc' = "handleWrite" /\ events' = events
        /\ host' = host /\ pageBuffer' = EmptyBuffer
        /\ flash' = Programmed(flash, PageOf(currentAddress - 1), pageBuffer)
    BY DEF WriteVectors, writeFlashPage, ram
  <1>2. /\ "erase" \in events /\ "write" \notin events
        /\ currentAddress = PageWords
        /\ \A o \in Offsets : pageBuffer[o] = Bare(o)
        /\ \A w \in AppWords : flash[w] = Blank
    BY <1>1 DEF HostInv, EventInv, ErasingInv, EraseInv
  <1>3. ASSUME NEW w \in AppWords PROVE flash'[w] = Bare(w)
    <2>1. PageOf(currentAddress - 1) = 0 /\ w \in Addresses /\ flash[w] = Blank
      BY <1>2, WordZero, WordInPage
    <2>2. CASE PageOf(w) = 0
      <3>1. w = OffsetOf(w) /\ OffsetOf(w) \in Offsets
        BY <2>2, WordInPage, GeometryAssumption DEF Offsets
      <3> QED BY <1>1, <1>2, <2>1, <2>2, <3>1, Programming DEF Programmed
    <2>3. CASE PageOf(w) # 0
      <3>1. flash'[w] = Blank
        BY <1>1, <2>1, <2>3 DEF Programmed
      <3> QED BY <2>3, <3>1, WordZero, Places DEF Bare
    <2> QED BY <2>2, <2>3
  <1>4. WrittenInv(im)'
    BY <1>3, DueWords DEF WrittenInv
  <1>5. EraseInv' /\ EventInv' /\ ErasingInv' /\ PendingInv(im)' /\ RunsInv(im)'
    BY <1>1, <1>2 DEF EraseInv, EventInv, ErasingInv, PendingInv, PageInBuffer,
                      RunsInv
  <1>6. TransferDone /\ TransferDone'
    BY <1>1, <1>2 DEF HostInv, MovingInv, TransferDone
  <1>7. Leftover(im, P)'
    BY <1>1 DEF Leftover, EmptyBuffer
  <1> QED BY <1>4, <1>5, <1>6, <1>7 DEF HostInv, MovingInv

\* A page that is written is there, and nothing else has changed.
LEMMA PageIsWritten ==
  ASSUME TypeOK, NEW im, NEW P, HostInv(im, P), WritePage
  PROVE  /\ HostInv(im, P)'
         /\ \A p : Delivered(im, p) => There(im, p)'
PROOF
  <1> DEFINE q == PageOf(currentAddress - 1)
  <1>1. /\ pc = "write" /\ pc' = "handleExecute" /\ host' = host
        /\ pageBuffer' = EmptyBuffer
        /\ flash' = Programmed(flash, q, pageBuffer)
        /\ UNCHANGED <<currentAddress, events, vectorTemp>>
    BY DEF WritePage, writeFlashPage, ram
  <1>2. "write" \in events /\ "erase" \notin events
    BY <1>1 DEF HostInv, EventInv
  <1>3. PageInBuffer /\ ~Erasing /\ ~PageInBuffer' /\ ~Erasing'
    BY <1>1, <1>2 DEF PageInBuffer, Erasing
  <1>4. /\ q \in 0 .. AppPages - 1
        /\ \A o \in Offsets : pageBuffer[o] = Due(im, q * PageWords + o)
        /\ \A p \in 0 .. q - 1 : There(im, p)
        /\ \A w \in AppWords : flash[w] \in {Bare(w), Due(im, w)}
    BY <1>3 DEF HostInv, PendingInv, WrittenInv
  <1> HIDE DEF q
  <1>5. ASSUME NEW w \in AppWords
        PROVE  flash'[w] = IF PageOf(w) = q THEN Due(im, w) ELSE flash[w]
    <2>1. w \in Addresses /\ OffsetOf(w) \in Offsets
          /\ w = PageOf(w) * PageWords + OffsetOf(w)
      BY WordInPage
    <2>2. CASE PageOf(w) = q
      <3>1. flash'[w] = And(flash[w], pageBuffer[OffsetOf(w)])
        BY <1>1, <2>1, <2>2 DEF Programmed
      <3>2. pageBuffer[OffsetOf(w)] = Due(im, w)
        BY <1>4, <2>1, <2>2
      <3> QED BY <1>4, <2>2, <3>1, <3>2, DueWords
    <2>3. CASE PageOf(w) # q
      BY <1>1, <2>1, <2>3 DEF Programmed
    <2> QED BY <2>2, <2>3
  <1>6. \A p : There(im, p) \/ p = q => There(im, p)'
    BY <1>5 DEF There
  <1>7. WrittenInv(im)'
    <2>1. \A w \in AppWords : flash'[w] \in {Bare(w), Due(im, w)}
      BY <1>4, <1>5
    <2>2. CASE AllThere(im)
      BY <1>5, <2>1, <2>2 DEF WrittenInv, AllThere
    <2>3. CASE q = AppPages - 1
      <3>1. ASSUME NEW w \in AppWords PROVE flash'[w] = Due(im, w)
        <4>1. PageOf(w) \in 0 .. AppPages - 1
          BY WordInPage
        <4>2. PageOf(w) = q \/ PageOf(w) \in 0 .. q - 1
          BY <2>3, <4>1, GeometryAssumption
        <4> QED BY <1>4, <1>5, <4>2 DEF There
      <3> QED BY <2>1, <3>1 DEF WrittenInv, AllThere
    <2>4. CASE ~AllThere(im) /\ q # AppPages - 1
      <3>1. \A w \in AppWords : PageOf(w) = AppPages - 1 => flash[w] = Blank
        BY <1>3, <2>4 DEF HostInv, WrittenInv
      <3> QED BY <1>5, <2>1, <2>4, <3>1 DEF WrittenInv
    <2> QED BY <2>2, <2>3, <2>4
  <1>8. EraseInv' /\ EventInv' /\ ErasingInv' /\ PendingInv(im)' /\ RunsInv(im)'
    BY <1>1, <1>2, <1>3 DEF EraseInv, EventInv, ErasingInv, PendingInv, RunsInv
  <1>9. TransferDone /\ TransferDone'
    BY <1>1, <1>2 DEF HostInv, MovingInv, TransferDone
  <1>10. Leftover(im, P)'
    BY <1>1 DEF Leftover, EmptyBuffer
  <1> QED BY <1>6, <1>7, <1>8, <1>9, <1>10 
          DEF HostInv, MovingInv, Delivered, q

\* The tiny table and the rest of its page are as the erase left them.
TableBlank == \A w \in AppWords : PageOf(w) = AppPages - 1 => flash[w] = Blank

LEMMA BlankTableLeads ==
  ASSUME BootloaderIntact, TableBlank
  PROVE  StageAt(flash, AppReset) = "start"
PROOF
  <1>1. \A w \in AppReset .. Entry - 1 : flash[w] = Blank
    BY TableIsLast DEF TableBlank
  <1>2. flash[Entry] = BootCode
    BY EntryFacts, GeometryAssumption DEF BootloaderIntact, Addresses
  <1>3. BootCode # Blank /\ BootCode.op # "rjmp"
    BY DEF BootCode, Blank
  <1>4. NextProgrammed(flash, AppReset) = Entry
    <2>1. AppReset \in Nat /\ Entry \in AppReset .. Entry
      BY EntryFacts DEF AppReset
    <2> QED BY <1>1, <1>2, <1>3, <2>1, NextProgrammedIs
  <1>5. Landing(flash, AppReset) = Entry
    BY <1>2, <1>3, <1>4 DEF Landing
  <1>6. Destination(flash, AppReset) = Entry
    BY <1>5, EntryFacts DEF Destination, Isr
  <1> QED BY <1>6 DEF StageAt

\* The device leaves for the application only if all of it is there: as long
\* as the tiny table is blank its jump ends in the bootloader.
LEMMA LeavesWhole ==
  ASSUME BootloaderIntact, NEW im, NEW P, HostInv(im, P), LeaveBootloader
  PROVE  HostInv(im, P)' /\ \A p : Delivered(im, p) => Delivered(im, p)'
PROOF
  <1>1. /\ pc = "leave" /\ flash' = flash /\ host' = NoTransfer
        /\ events' = events /\ pc' = StageAt(flash, AppReset)
        /\ pc' \in {"start", "app"}
    BY StageTyped DEF LeaveBootloader, ram
  <1>2. ~Erasing /\ ~Erasing' /\ ~PageInBuffer /\ ~PageInBuffer'
    BY <1>1 DEF Erasing, PageInBuffer
  <1>3. WrittenInv(im) /\ WrittenInv(im)'
    BY <1>1, <1>2 DEF HostInv, WrittenInv, AllThere
  <1>4. RunsInv(im)'
    <2> SUFFICES ASSUME pc' = "app", ~AllThere(im) PROVE FALSE
      BY <1>1 DEF RunsInv, AllThere
    <2>1. TableBlank
      BY <1>2, <1>3 DEF WrittenInv, TableBlank
    <2> QED BY <1>1, <2>1, BlankTableLeads
  <1>5. EraseInv' /\ EventInv' /\ ErasingInv' /\ PendingInv(im)' /\ Leftover(im, P)'
    BY <1>1, <1>2 DEF HostInv, EraseInv, EventInv, ErasingInv, PendingInv,
                      Leftover, Looping
  <1>6. TransferDone'
    BY <1>1 DEF NoTransfer, TransferDone
  <1>7. \A p : Delivered(im, p) => Delivered(im, p)'
    BY <1>1, <1>2 DEF Delivered, There
  <1> QED BY <1>3, <1>4, <1>5, <1>6, <1>7 DEF HostInv, MovingInv

\* The steps of the device keep what is said of the host's pages, and what
\* it has of them.
LEMMA HostDevice ==
  ASSUME TypeOK, BootloaderIntact, NEW im, NEW P, HostInv(im, P), Device
  PROVE  /\ HostInv(im, P)'
         /\ Erasing' => Erasing
         /\ ~Erasing => \A p : Delivered(im, p) => Delivered(im, p)'
PROOF
  <1>1. EraseInv /\ EventInv /\ ErasingInv /\ PendingInv(im) /\ MovingInv(im)
    BY DEF HostInv
  <1>2. [Next]_vars
    BY DEF Next
  <1>3. EraseInv' /\ EventInv'
    BY <1>1, <1>2, EraseInvStep, EventInvStep
  <1>4. CASE EnterMainLoop
    <2>1. /\ pc = "start" /\ pc' = "poll" /\ events' = {}
          /\ pageBuffer' = EmptyBuffer /\ UNCHANGED <<flash, host>>
      BY <1>4 DEF EnterMainLoop, RamCleared
    <2>2. ~Erasing /\ ~Erasing' /\ ~PageInBuffer /\ ~PageInBuffer'
      BY <2>1 DEF Erasing, PageInBuffer
    <2>3. WrittenInv(im)' /\ \A p : There(im, p)' <=> There(im, p)
      BY <2>1, <2>2 DEF HostInv, WrittenInv, AllThere, There
    <2>4. ErasingInv' /\ PendingInv(im)' /\ RunsInv(im)'
      BY <2>1, <2>2 DEF ErasingInv, PendingInv, RunsInv
    <2>5. TransferDone /\ TransferDone'
      BY <1>1, <2>1 DEF MovingInv, TransferDone
    <2>6. Leftover(im, P)'
      BY <2>1 DEF Leftover, EmptyBuffer
    <2> QED BY <1>3, <2>2, <2>3, <2>4, <2>5, <2>6
            DEF HostInv, MovingInv, Delivered
  <1>5. CASE SkipMainLoop
    <2>1. /\ pc = "start" /\ pc' = "leave" /\ events' = {}
          /\ UNCHANGED <<flash, host>>
      BY <1>5 DEF SkipMainLoop, RamCleared
    <2>2. ~Erasing /\ ~Erasing' /\ ~PageInBuffer /\ ~PageInBuffer'
      BY <2>1 DEF Erasing, PageInBuffer
    <2>3. WrittenInv(im)' /\ \A p : There(im, p)' <=> There(im, p)
      BY <2>1, <2>2 DEF HostInv, WrittenInv, AllThere, There
    <2>4. ErasingInv' /\ PendingInv(im)' /\ RunsInv(im)' /\ Leftover(im, P)'
      BY <2>1, <2>2 DEF ErasingInv, PendingInv, RunsInv, Leftover, Looping
    <2>5. TransferDone /\ TransferDone'
      BY <1>1, <2>1 DEF MovingInv, TransferDone
    <2> QED BY <1>3, <2>2, <2>3, <2>4, <2>5 DEF HostInv, MovingInv, Delivered
  <1>6. CASE PollNothing
    <2>1. /\ pc = "poll" /\ pc' = "handle" /\ events = {} /\ events' = {}
          /\ UNCHANGED <<flash, pageBuffer, currentAddress, vectorTemp, host>>
      BY <1>1, <1>6 DEF PollNothing, ram, EventInv
    <2>2. ~Erasing /\ ~Erasing' /\ ~PageInBuffer /\ ~PageInBuffer' /\ ErasingInv'
      BY <2>1 DEF Erasing, PageInBuffer, ErasingInv
    <2> QED BY <1>3, <2>1, <2>2, KeepsHost DEF Looping
  <1>7. CASE HandleErase
    <2>1. /\ pc = "handle"
          /\ pc' = IF "erase" \in events THEN "erase" ELSE "handleWrite"
          /\ UNCHANGED <<flash, pageBuffer, currentAddress, vectorTemp, host,
                         events>>
      BY <1>7 DEF HandleErase
    <2>2. ErasingInv' /\ (Erasing' <=> Erasing) /\ (PageInBuffer' <=> PageInBuffer)
      BY <1>1, <2>1 DEF Erasing, PageInBuffer, ErasingInv, EventInv
    <2> QED BY <1>3, <2>1, <2>2, KeepsHost DEF Looping
  <1>8. CASE ErasePage
    <2>1. /\ pc = "erase" /\ pc' = pc
          /\ UNCHANGED <<pageBuffer, currentAddress, vectorTemp, host, events>>
      BY <1>8 DEF ErasePage
    <2>2. /\ "erase" \in events /\ Erasing /\ Erasing'
          /\ ~PageInBuffer /\ ~PageInBuffer'
      BY <1>1, <2>1 DEF Erasing, EventInv, PageInBuffer
    <2>3. ErasingInv' /\ WrittenInv(im)' /\ PendingInv(im)' /\ RunsInv(im)'
          /\ Leftover(im, P)'
      BY <1>1, <2>1, <2>2 DEF ErasingInv, WrittenInv, PendingInv, RunsInv, Leftover
    <2>4. TransferDone /\ TransferDone'
      BY <1>1, <2>1, <2>2 DEF MovingInv, TransferDone
    <2> QED BY <1>3, <2>2, <2>3, <2>4 DEF HostInv, MovingInv
  <1>9. CASE FillVectors
    <2>1. /\ pc = "erase" /\ pc' = "vectors" /\ FillPage(0)
          /\ UNCHANGED <<flash, host, events>>
      BY <1>9 DEF FillVectors
    <2>2. /\ "erase" \in events /\ Erasing /\ Erasing'
          /\ ~PageInBuffer /\ ~PageInBuffer' /\ pageBuffer = EmptyBuffer
      BY <1>1, <2>1 DEF Erasing, EventInv, PageInBuffer, ErasingInv
    <2>3. /\ currentAddress' = PageWords
          /\ \A o \in Offsets : pageBuffer'[o] = Bare(o)
      <3>1. /\ OffsetOf(0) = 0 /\ PageWords \in Nat
            /\ \A o \in Offsets : o >= 0 /\ 0 - 0 + o = o
        BY WordZero, GeometryAssumption DEF Offsets
      <3>2. currentAddress' = PageWords
        BY <2>1, <3>1 DEF FillPage
      <3>3. ASSUME NEW o \in Offsets PROVE pageBuffer'[o] = Bare(o)
        <4>1. pageBuffer'[o] = And(Blank, Patched(o, Blank, vectorTemp))
          BY <2>1, <2>2, <3>1 DEF FillPage, EmptyBuffer
        <4> QED BY <4>1, BareFilled
      <3> QED BY <3>2, <3>3
    <2>4. ErasingInv' /\ WrittenInv(im)' /\ PendingInv(im)' /\ RunsInv(im)'
          /\ Leftover(im, P)'
      BY <2>1, <2>2, <2>3
         DEF ErasingInv, WrittenInv, PendingInv, RunsInv, Leftover
    <2>5. TransferDone /\ TransferDone'
      BY <1>1, <2>1, <2>2 DEF MovingInv, TransferDone
    <2> QED BY <1>3, <2>2, <2>4, <2>5 DEF HostInv, MovingInv
  <1>10. CASE WriteVectors
    <2>1. pc = "vectors" /\ pc' = "handleWrite"
      BY <1>10 DEF WriteVectors
    <2>2. Erasing /\ ~Erasing'
      BY <1>1, <2>1 DEF Erasing, EventInv
    <2> QED BY <1>10, <2>2, EraseEnds
  <1>11. CASE HandleWrite
    <2>1. /\ pc = "handleWrite"
          /\ pc' = IF "write" \in events THEN "write" ELSE "handleExecute"
          /\ UNCHANGED <<flash, vectorTemp, host, events>>
      BY <1>11 DEF HandleWrite
    <2>2. UNCHANGED <<pageBuffer, currentAddress>>
      BY <1>1, <1>11, <2>1 DEF HandleWrite, PendingInv, PageInBuffer
    <2>3. ErasingInv' /\ (Erasing' <=> Erasing) /\ (PageInBuffer' <=> PageInBuffer)
      BY <2>1 DEF Erasing, PageInBuffer, ErasingInv
    <2> QED BY <1>3, <2>1, <2>2, <2>3, KeepsHost DEF Looping
  <1>12. CASE WritePage
    <2>1. pc = "write" /\ pc' = "handleExecute"
      BY <1>12 DEF WritePage
    <2>2. ~Erasing'
      BY <2>1 DEF Erasing
    <2> QED BY <1>12, <2>2, PageIsWritten DEF Delivered
  <1>13. CASE HandleExecute
    <2>1. /\ pc = "handleExecute" /\ pc' \in {"poll", "leave"}
          /\ events' \in {events, {}}
          /\ UNCHANGED <<flash, pageBuffer, currentAddress, vectorTemp, host>>
      BY <1>13 DEF HandleExecute, clearEvents
    <2>2. ~Erasing /\ ~Erasing' /\ ~PageInBuffer /\ ~PageInBuffer' /\ ErasingInv'
      BY <2>1 DEF Erasing, PageInBuffer, ErasingInv
    <2> QED BY <1>3, <2>1, <2>2, KeepsHost DEF Looping
  <1>14. CASE LeaveBootloader
    <2>1. ~Erasing'
      BY <1>14, StageTyped DEF LeaveBootloader, Erasing
    <2> QED BY <1>14, <2>1, LeavesWhole
  <1> QED BY <1>4, <1>5, <1>6, <1>7, <1>8, <1>9, <1>10, <1>11, <1>12, <1>13,
             <1>14 DEF Device

\* Nor does it change what the device has when the host gives up a transfer.
LEMMA HostCuts ==
  ASSUME TypeOK, NEW im, NEW P, HostInv(im, P), host' = NoTransfer,
         UNCHANGED <<flash, pageBuffer, currentAddress, vectorTemp, events, pc,
                     erasePage>>
  PROVE  /\ HostInv(im, P)' /\ TransferDone' /\ (Erasing' <=> Erasing)
         /\ \A p : Delivered(im, p)' <=> Delivered(im, p)
PROOF
  <1>1. TransferDone' /\ (Erasing' <=> Erasing) /\ (PageInBuffer' <=> PageInBuffer)
    BY NoTransferTyped DEF TypeOK, TransferDone, Erasing, PageInBuffer
  <1>2. EraseInv' /\ EventInv' /\ ErasingInv'
    BY DEF HostInv, EraseInv, EventInv, ErasingInv
  <1> QED BY <1>1, <1>2, KeepsHost DEF HostInv, EventInv

\* A page behind the end of the image, other than the first and the last, is
\* there as soon as the erase is over.
LEMMA BlankIsThere ==
  ASSUME NEW im, NEW P, HostInv(im, P), ~Erasing,
         NEW p \in 1 .. AppPages - 2,
         \A w \in AppWords : PageOf(w) = p => im[w] = Blank
  PROVE  There(im, p)
PROOF
  <1> SUFFICES ASSUME NEW w \in AppWords, PageOf(w) = p
               PROVE  flash[w] = Due(im, w)
    BY DEF There
  <1>1. p # 0 /\ p # AppPages - 1
    BY GeometryAssumption
  <1>2. w \notin {0, UsbVector}
    BY <1>1, WordZero, Places
  <1>3. w \notin AppReset .. Entry - 1
    BY <1>1, TableIsLast
  <1>4. w \notin {AppReset, AppUsb, StoredOsccal}
    BY <1>3, EntryFacts DEF AppReset, AppUsb, StoredOsccal
  <1>5. Due(im, w) = Blank /\ Bare(w) = Blank
    BY <1>2, <1>4 DEF Due, Patched, Bare
  <1> QED BY <1>5 DEF HostInv, WrittenInv

(***************************************************************************)
(* The packets of the host.                                                *)
(***************************************************************************)
\* While the erased device polls, its USB vector is in place.
LEMMA HostIsHeard ==
  ASSUME NEW im, NEW P, HostInv(im, P), MagicInv, pc = "poll"
  PROVE  UsbAlive
PROOF
  <1>1. flash[UsbVector] = ToIsr
    <2>1. ~Erasing
      BY DEF Erasing
    <2>2. Bare(UsbVector) = ToIsr /\ Due(im, UsbVector) = ToIsr
      BY Places, PatchedPlaces DEF Bare, Due
    <2> QED BY <2>1, <2>2, Places DEF HostInv, WrittenInv
  <1> QED BY <1>1, IsrFacts DEF UsbAlive, MagicInv

\* A request without data changes nothing of this.
LEMMA HostAsks ==
  ASSUME TypeOK, NEW im, NEW P, HostInv(im, P),
         SetupStandard \/ SetupInfo \/ SetupExecute
  PROVE  /\ HostInv(im, P)' /\ TransferDone' /\ ~Erasing'
         /\ \A p : Delivered(im, p) => Delivered(im, p)'
PROOF
  <1>1. /\ pc = "poll" /\ pc' = "handle" /\ host' = NoTransfer
        /\ UNCHANGED <<flash, pageBuffer, currentAddress, vectorTemp>>
        /\ events' \in {events, events \cup {"execute"}}
    BY DEF SetupStandard, SetupInfo, SetupExecute, Setup
  <1>2. events = {}
    BY <1>1 DEF HostInv, EventInv
  <1>3. ~Erasing /\ ~Erasing' /\ ~PageInBuffer /\ ~PageInBuffer' /\ TransferDone'
    BY <1>1, <1>2, NoTransferTyped
       DEF Erasing, PageInBuffer, TransferDone, TypeOK
  <1>4. EraseInv' /\ EventInv' /\ ErasingInv'
    BY <1>1, <1>2 DEF EraseInv, EventInv, ErasingInv
  <1> QED BY <1>1, <1>2, <1>3, <1>4, KeepsHost DEF Looping

\* The erase begins with an empty page buffer, whatever was in flash.
LEMMA HostErases ==
  ASSUME TypeOK, EraseInv, SetupErase, events = {}, pageBuffer = EmptyBuffer,
         NEW im, NEW P
  PROVE  HostInv(im, P)' /\ TransferDone'
PROOF
  <1>1. /\ pc' = "handle" /\ host' = NoTransfer /\ events' = {"erase"}
        /\ pageBuffer' = EmptyBuffer
    BY DEF SetupErase, Setup
  <1>2. Erasing' /\ ~PageInBuffer' /\ TransferDone'
    BY <1>1, NoTransferTyped DEF Erasing, PageInBuffer, TransferDone, TypeOK
  <1>3. EraseInv' /\ EventInv' /\ ErasingInv'
    BY <1>1 DEF EraseInv, EventInv, ErasingInv
  <1> QED BY <1>1, <1>2, <1>3
          DEF HostInv, WrittenInv, PendingInv, RunsInv, MovingInv, Leftover

\* The host starts to send a page when all pages below are there.
LEMMA HostSends ==
  ASSUME TypeOK, ~LossyBus, NEW im, NEW P, HostInv(im, P), SetupWrite,
         \A w \in AppWords : PageOf(w) = host'.page
            => Patched(w, host'.image[w], VectorsIn(im)) = Due(im, w),
         host'.page # 0 => vectorTemp = VectorsIn(im),
         host'.page = 0 => host'.image = im,
         host'.page \in P,
         \A p \in 0 .. host'.page - 1 : There(im, p)
  PROVE  /\ HostInv(im, P)' /\ ~TransferDone' /\ ~Erasing'
         /\ \A p : Delivered(im, p) => Delivered(im, p)'
PROOF
  <1> DEFINE pg == host'.page
  <1>1. /\ pg \in 0 .. AppPages - 1 /\ currentAddress' = pg * PageWords
        /\ host'.sent = 0
    BY WriteAsked
  <1>2. /\ pc = "poll" /\ pc' = "handle"
        /\ UNCHANGED <<flash, pageBuffer, vectorTemp, events>>
        /\ host'.page = pg /\ host'.sent = 0
    BY <1>1 DEF SetupWrite, Setup
  <1>3. events = {} /\ events' = {}
    BY <1>2 DEF HostInv, EventInv
  <1>4. ~Erasing /\ ~Erasing' /\ ~PageInBuffer /\ ~PageInBuffer' /\ ~TransferDone'
    BY <1>2, <1>3, PacketFacts DEF Erasing, PageInBuffer, TransferDone
  <1>5. \A p : There(im, p)' <=> There(im, p)
    BY <1>2 DEF There
  <1>6. MovingInv(im)'
    <2>1. /\ host'.sent * PacketWords = 0
          /\ currentAddress' = host'.page * PageWords + host'.sent * PacketWords
      BY <1>1, <1>2, PacketFacts, GeometryAssumption
    <2>2. \A o \in Offsets : ~(o < 0)
      BY GeometryAssumption DEF Offsets
    <2>3. ~(UsbVector < 0) /\ ~(0 < 0)
      BY GeometryAssumption
    <2> QED BY <1>2, <1>3, <1>5, <2>1, <2>2, <2>3 DEF MovingInv
  <1>7. /\ EraseInv' /\ EventInv' /\ ErasingInv' /\ WrittenInv(im)'
        /\ PendingInv(im)' /\ RunsInv(im)' /\ Leftover(im, P)'
    BY <1>2, <1>3, <1>4
       DEF HostInv, EraseInv, EventInv, ErasingInv, WrittenInv, AllThere,
           PendingInv, RunsInv, Leftover, Looping
  <1>8. \A p : Delivered(im, p) => Delivered(im, p)'
    BY <1>4, <1>5 DEF Delivered
  <1> QED BY <1>4, <1>6, <1>7, <1>8 DEF HostInv

\* What is remembered once a packet of im has come.
LEMMA HostVectors ==
  ASSUME TypeOK, NEW im, NEW P, HostInv(im, P), RecvData
  PROVE  /\ host.page # 0 => vectorTemp' = vectorTemp
         /\ host.page # 0 => vectorTemp = VectorsIn(im)
         /\ host.page = 0 =>
              LET n == host.sent * PacketWords + PacketWords
              IN  /\ 0 < n => vectorTemp'[0] = VectorsIn(im)[0]
                  /\ UsbVector < n => vectorTemp'[1] = VectorsIn(im)[1]
PROOF
  <1>1. MovingInv(im) /\ ~TransferDone /\ InStep
    BY DEF HostInv, RecvData, MovingInv, EventInv, InStep
  <1>2. /\ host.page # 0 => vectorTemp' = vectorTemp
        /\ host.page # 0 => vectorTemp = VectorsIn(im)
    BY <1>1, PacketVectors DEF MovingInv
  <1> SUFFICES ASSUME host.page = 0
               PROVE  LET n == host.sent * PacketWords + PacketWords
                      IN  /\ 0 < n => vectorTemp'[0] = VectorsIn(im)[0]
                          /\ UsbVector < n => vectorTemp'[1] = VectorsIn(im)[1]
    BY <1>2
  <1> DEFINE a == currentAddress
             s == host.sent * PacketWords
  <1>3. a = s /\ s \in Nat /\ PacketWords \in Nat \ {0}
    BY <1>1, PacketArrives, PacketFacts, GeometryAssumption
  <1>4. host.image = im
    BY <1>1 DEF MovingInv
  <1>5. /\ VectorsIn(im)[0] = rjmp2addr(host.image[0], 0)
        /\ VectorsIn(im)[1] = rjmp2addr(host.image[UsbVector], UsbVector)
    BY <1>4 DEF VectorsIn
  <1>6. /\ 0 < s => vectorTemp[0] = VectorsIn(im)[0]
        /\ UsbVector < s => vectorTemp[1] = VectorsIn(im)[1]
    BY <1>1 DEF MovingInv
  <1>7. /\ 0 < s + PacketWords /\ ~(0 < s) => 0 \in a .. a + PacketWords - 1
        /\ UsbVector < s + PacketWords /\ ~(UsbVector < s)
              => UsbVector \in a .. a + PacketWords - 1
    BY <1>3, GeometryAssumption
  <1> HIDE DEF s
  <1>8. 0 < s + PacketWords => vectorTemp'[0] = VectorsIn(im)[0]
    BY <1>1, <1>5, <1>6, <1>7, PacketVectors
  <1>9. UsbVector < s + PacketWords => vectorTemp'[1] = VectorsIn(im)[1]
    BY <1>1, <1>5, <1>6, <1>7, PacketVectors
  <1> QED BY <1>8, <1>9 DEF s

\* The page buffer when a packet of im has come: its words and those before
\* them are there, and there is nothing that is not due.
LEMMA HostFills ==
  ASSUME TypeOK, NEW im, NEW P, HostInv(im, P), P \subseteq {host.page}, RecvData,
         NEW o \in Offsets
  PROVE  LET due == Due(im, host.page * PageWords + o)
         IN  /\ pageBuffer'[o] \in {Blank, due}
             /\ o < host.sent * PacketWords + PacketWords => pageBuffer'[o] = due
PROOF
  <1> DEFINE p == host.page
             k == host.sent
             a == currentAddress
             s == k * PacketWords
             w == p * PageWords + o
  <1>1. MovingInv(im) /\ ~TransferDone /\ InStep
    BY DEF HostInv, RecvData, MovingInv, EventInv, InStep
  <1>2. /\ p \in Nat /\ p * PageWords \in Nat /\ s \in Nat /\ o \in Nat
        /\ p * PageWords + PageWords =< Entry
        /\ a = p * PageWords + s /\ OffsetOf(a) = s
        /\ pageBuffer' = Filled(PacketWords, PacketData(k), vectorTemp')
        /\ pc = "poll" /\ events = {} /\ PacketWords \in Nat \ {0}
    BY <1>1, PacketArrives, PacketFacts, GeometryAssumption DEF Offsets
  <1>3. w \in AppWords /\ PageOf(w) = p /\ w \in Int
    <2>1. w \in AppWords /\ w \in Int
      BY <1>2, EntryFacts, GeometryAssumption DEF AppWords, Offsets
    <2> QED BY <1>2, <2>1, SplitUnique
  <1>4. pageBuffer[o] \in {Blank, Due(im, w)}
        /\ (o < s => pageBuffer[o] = Due(im, w))
    <2>1. ~Erasing /\ ~PageInBuffer /\ pc \in Looping
      BY <1>2 DEF Erasing, PageInBuffer, Looping
    <2> QED BY <1>1, <2>1 DEF HostInv, Leftover, MovingInv
  <1>5. pageBuffer'[o] = IF o - s \in 0 .. PacketWords - 1
                         THEN And(pageBuffer[o],
                                  Patched(a + (o - s), PacketData(k)[o - s],
                                          vectorTemp'))
                         ELSE pageBuffer[o]
    BY <1>1, <1>2, PacketArrives, FilledInPage
  <1>6. ASSUME o - s \in 0 .. PacketWords - 1
        PROVE  pageBuffer'[o] = Due(im, w)
    <2>1. a + (o - s) = w
      BY <1>2
    <2>2. PacketData(k)[o - s] = host.image[w]
      BY <1>1, <1>6, <2>1, PacketWordAt
    <2>3. Patched(w, host.image[w], vectorTemp') = Due(im, w)
      <3>1. CASE p = 0
        <4>1. host.image = im
          BY <1>1, <3>1 DEF MovingInv
        <4>2. w = o
          <5>1. p * PageWords = 0
            BY <3>1, GeometryAssumption
          <5> QED BY <1>2, <5>1
        <4> HIDE DEF w
        <4> QED BY <4>1, <4>2, FirstPagePatched DEF Due
      <3>2. CASE p # 0
        <4>1. vectorTemp' = VectorsIn(im)
          BY <3>2, HostVectors
        <4> HIDE DEF w
        <4> QED BY <1>1, <1>3, <4>1 DEF MovingInv
      <3> QED BY <3>1, <3>2
    <2> HIDE DEF w
    <2> QED BY <1>3, <1>4, <1>5, <1>6, <2>1, <2>2, <2>3, DueWords
  <1>7. ASSUME o - s \notin 0 .. PacketWords - 1
        PROVE  /\ pageBuffer'[o] = pageBuffer[o]
               /\ o < s + PacketWords => o < s
    <2>1. pageBuffer'[o] = pageBuffer[o]
      BY <1>5, <1>7
    <2>2. o < s + PacketWords => o < s
      BY <1>2, <1>7
    <2> QED BY <2>1, <2>2
  <1> HIDE DEF s, w
  <1> QED BY <1>4, <1>6, <1>7 DEF s, w

\* With the last packet of a page all of it is delivered.
LEMMA HostPacket ==
  ASSUME TypeOK, NEW im, NEW P, HostInv(im, P), P \subseteq {host.page}, RecvData
  PROVE  /\ HostInv(im, P)' /\ ~Erasing' /\ host'.page = host.page
         /\ \A p : Delivered(im, p) => Delivered(im, p)'
         /\ host.page # 0 => vectorTemp' = vectorTemp
         /\ TransferDone' =>
              /\ HostInv(im, {})' /\ vectorTemp' = VectorsIn(im)
              /\ \A p : p = host.page => Delivered(im, p)'
PROOF
  <1> DEFINE p == host.page
             s == host.sent * PacketWords
             due(o) == Due(im, p * PageWords + o)
  <1>1. MovingInv(im) /\ ~TransferDone /\ InStep
    BY DEF HostInv, RecvData, MovingInv, EventInv, InStep
  <1>2. /\ p \in 0 .. AppPages - 1 /\ s \in Nat /\ PacketWords \in Nat \ {0}
        /\ (host.sent + 1) * PacketWords = s + PacketWords
        /\ currentAddress = p * PageWords + s /\ p * PageWords \in Nat
        /\ currentAddress' = currentAddress + PacketWords
        /\ pc = "poll" /\ events = {} /\ pc' = "handle" /\ flash' = flash
        /\ host'.page = p /\ host'.sent = host.sent + 1
        /\ host'.image = host.image
        /\ events' = IF OffsetOf(currentAddress') = 0 THEN {"write"} ELSE {}
    BY <1>1, PacketArrives, PacketFacts DEF RecvData
  <1>3. p \in P
    BY <1>1 DEF HostInv
  <1>4. \A o \in Offsets : /\ pageBuffer'[o] \in {Blank, due(o)}
                           /\ o < s + PacketWords => pageBuffer'[o] = due(o)
    BY HostFills
  <1>5. /\ p # 0 => vectorTemp' = vectorTemp
        /\ p # 0 => vectorTemp = VectorsIn(im)
        /\ p = 0 /\ 0 < s + PacketWords => vectorTemp'[0] = VectorsIn(im)[0]
        /\ p = 0 /\ UsbVector < s + PacketWords
              => vectorTemp'[1] = VectorsIn(im)[1]
    BY HostVectors
  <1>6. /\ TransferDone' <=> host.sent + 1 = PacketsPerPage
        /\ TransferDone' => /\ s + PacketWords = PageWords
                            /\ OffsetOf(currentAddress') = 0
                            /\ PageOf(currentAddress' - 1) = p
        /\ ~TransferDone' => OffsetOf(currentAddress') # 0
    BY <1>1, <1>2, PageEnds DEF TransferDone
  <1>7. ~Erasing /\ ~Erasing' /\ ~PageInBuffer
        /\ (PageInBuffer' <=> TransferDone')
    BY <1>2, <1>6 DEF Erasing, PageInBuffer
  <1>8. \A q : There(im, q)' <=> There(im, q)
    BY <1>2 DEF There
  <1>9. \A q \in 0 .. p - 1 : There(im, q)
    BY <1>1 DEF MovingInv
  <1>10. /\ EraseInv' /\ EventInv' /\ ErasingInv' /\ WrittenInv(im)' /\ RunsInv(im)'
    BY <1>2, <1>7
       DEF HostInv, EraseInv, EventInv, ErasingInv, WrittenInv, AllThere,
           RunsInv
  <1> HIDE DEF s
  <1>11. PendingInv(im)'
    <2> SUFFICES ASSUME TransferDone' PROVE PendingInv(im)'
      BY <1>7 DEF PendingInv
    <2>1. \A o \in Offsets : pageBuffer'[o] = due(o)
      <3> SUFFICES ASSUME NEW o \in Offsets PROVE o < s + PacketWords
        BY <1>4
      <3> QED BY <1>6, GeometryAssumption DEF Offsets
    <2> HIDE DEF p
    <2>2. \A q \in 0 .. p - 1 : There(im, q)'
      BY <1>8, <1>9
    <2>3. PageOf(currentAddress - 1)' = p /\ OffsetOf(currentAddress)' = 0
      BY <1>6
    <2> QED BY <1>2, <2>1, <2>2, <2>3 DEF PendingInv, p
  <1>12. MovingInv(im)'
    <2> SUFFICES ASSUME ~TransferDone' PROVE MovingInv(im)'
      BY DEF MovingInv
    <2>1. events' = {} /\ pc' = "handle"
      BY <1>2, <1>6
    <2>2. host'.sent * PacketWords = s + PacketWords
      BY <1>2
    <2>3. currentAddress' = host'.page * PageWords + host'.sent * PacketWords
      BY <1>2, <2>2
    <2>4. \A o \in Offsets : o < host'.sent * PacketWords
                => pageBuffer'[o] = Due(im, host'.page * PageWords + o)
      BY <1>2, <1>4, <2>2
    <2>5. \A w \in AppWords :
              PageOf(w) = host'.page
                => Patched(w, host'.image[w], VectorsIn(im)) = Due(im, w)
      BY <1>1, <1>2 DEF MovingInv
    <2>6. \A q \in 0 .. host'.page - 1 : There(im, q)'
      BY <1>2, <1>8, <1>9
    <2>7. host'.page = 0 => host'.image = im
      BY <1>1, <1>2 DEF MovingInv
    <2> QED BY <1>2, <1>5, <2>1, <2>2, <2>3, <2>4, <2>5, <2>6, <2>7
            DEF MovingInv
  <1>13. Leftover(im, P)'
    BY <1>3, <1>4 DEF Leftover
  <1>14. HostInv(im, P)'
    BY <1>2, <1>3, <1>10, <1>11, <1>12, <1>13 DEF HostInv
  <1>15. ASSUME TransferDone' PROVE HostInv(im, {})'
    BY <1>7, <1>14, <1>15 DEF HostInv, Leftover
  <1>16. ASSUME TransferDone' PROVE vectorTemp' = VectorsIn(im)
    <2>1. CASE p # 0
      BY <1>5, <2>1
    <2>2. CASE p = 0
      <3>1. 0 < s + PacketWords /\ UsbVector < s + PacketWords
        BY <1>6, <1>16, GeometryAssumption
      <3>2. /\ vectorTemp'[0] = VectorsIn(im)[0]
            /\ vectorTemp'[1] = VectorsIn(im)[1]
        BY <1>5, <2>2, <3>1
      <3>3. vectorTemp' \in [{0, 1} -> LowBits]
        BY NextTyped DEF Next, Bus, TypeOK
      <3> QED BY <3>2, <3>3 DEF VectorsIn
    <2> QED BY <2>1, <2>2
  <1>17. \A q : Delivered(im, q) => Delivered(im, q)'
    BY <1>7, <1>8 DEF Delivered
  <1>18. ASSUME TransferDone', NEW q, q = p PROVE Delivered(im, q)'
    BY <1>6, <1>7, <1>18 DEF Delivered
  <1> QED BY <1>2, <1>5, <1>7, <1>14, <1>15, <1>16, <1>17, <1>18 DEF p
=============================================================================
