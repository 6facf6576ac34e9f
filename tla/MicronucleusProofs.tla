-------------------------- MODULE MicronucleusProofs --------------------------
(***************************************************************************)
(* What the micronucleus command reports, for all programs, any number of  *)
(* runs and all values of the other constants: a run that ends well has    *)
(* left the program, the vectors and the tiny table in flash, unless a     *)
(* page transfer broke off before.  LossyBus is not needed for it: the     *)
(* command itself is what loses a request.                                 *)
(***************************************************************************)
EXTENDS Micronucleus, BootloaderProofs

(***************************************************************************)
(* The invariants.                                                         *)
(***************************************************************************)
CommandTypeOK ==
    /\ program \in Programs
    /\ step \in {"connect", "check", "erase", "reconnect", "write", "start",
                 "succeeded", "failed"}
    /\ page \in 0 .. AppPages
    /\ sending \in BOOLEAN /\ connected \in BOOLEAN
    /\ erased \in BOOLEAN /\ broken \in BOOLEAN

\* Where the command is while the device does what.
ControlInv ==
    /\ connected => pc \notin {"start", "app"}
    /\ ~TransferDone => sending /\ connected
    /\ sending => step = "write"
    /\ step = "write" => page < AppPages
    /\ step \in {"connect", "check", "erase", "reconnect"} => page = 0
    /\ step \in {"connect", "check", "erase"} => ~erased
    /\ step \in {"start", "succeeded"} => page = AppPages

\* The page on the bus.
OnBus == {p \in {page} : ~TransferDone}

SendingInv(im) ==
    sending /\ connected =>
        IF TransferDone
        THEN Delivered(im, page) /\ vectorTemp = VectorsIn(im)
        ELSE host.page = page

\* The pages below the current one are the program's.
FilledInv(im) ==
    /\ HostInv(im, OnBus)
    /\ Erasing => page = 0 /\ ~sending
    /\ \A p \in 0 .. page - 1 : Delivered(im, p)
    /\ page > 0 /\ connected => vectorTemp = VectorsIn(im)
    /\ SendingInv(im)

CommandInv ==
    /\ DeviceInv /\ CommandTypeOK /\ ControlInv
    /\ ~broken => BufferInv
    /\ erased /\ ~broken => FilledInv(program.image)

(***************************************************************************)
(* Lemmas.                                                                 *)
(***************************************************************************)
\* The pages of flash_size are those below the bootloader: the tiny table
\* lies in the last of them, but does not fill it.
LEMMA PagesOfFlash ==
  \A q \in 0 .. AppPages : q * PageWords < FlashSize <=> q < AppPages
PROOF
  <1> SUFFICES ASSUME NEW q \in 0 .. AppPages
               PROVE  q * PageWords < FlashSize <=> q < AppPages
    OBVIOUS
  <1>1. /\ FlashSize = Entry - 3 /\ Entry = AppPages * PageWords
        /\ Entry \in Nat /\ PageWords \in Nat /\ PageWords > 3
        /\ AppPages \in Nat
    BY CommandAssumption, GeometryAssumption, EntryFacts
       DEF FlashSize, AppReset, Entry
  <1>2. CASE q < AppPages
    <2>1. PageWords * (q + 1) =< PageWords * AppPages
      BY <1>1, <1>2, TimesMonotonic
    <2>2. PageWords * (q + 1) = q * PageWords + PageWords
          /\ q * PageWords \in Nat /\ PageWords * AppPages = Entry
      BY <1>1
    <2> QED BY <1>1, <1>2, <2>1, <2>2
  <1>3. CASE q = AppPages
    BY <1>1, <1>3
  <1> QED BY <1>1, <1>2, <1>3

\* To the device each step of the command is one of the bootloader's, except
\* that a page write may fail in the middle of the page.
LEMMA CommandSteps ==
  ASSUME TypeOK, [CommandNext]_allVars, ~(PageError /\ ~TransferDone)
  PROVE  [Next]_vars
PROOF
  <1>1. CASE PageError
    <2>1. host' = host
      BY <1>1, NothingToCut DEF PageError
    <2> QED BY <1>1, <2>1 DEF PageError, vars
  <1>2. CASE Command /\ ~PageError
    BY <1>2 DEF Command, Connect, TimesOut, InfoFails, Check, Erase, EraseLost,
                SendPage, PageDone, Start, StartFails, Next, Bus
  <1>3. CASE Rerun \/ Packets \/ Misrouted \/ Steps \/ AppKeepsRunning
    BY <1>3 DEF Rerun, Packets, Misrouted, Steps, AppKeepsRunning, Next, Bus,
                World
  <1>4. CASE UNCHANGED allVars
    BY <1>4 DEF allVars
  <1> QED BY <1>1, <1>2, <1>3, <1>4 DEF CommandNext

LEMMA CommandTyped ==
  ASSUME CommandTypeOK, ControlInv, [CommandNext]_allVars
  PROVE  CommandTypeOK'
PROOF
  <1>1. ASSUME sending, NextPage
        PROVE  /\ step' \in {"write", "start", "succeeded", "failed"}
               /\ page' \in 0 .. AppPages
    <2>1. page < AppPages /\ page \in Nat /\ page + 1 \in 0 .. AppPages
          /\ 0 \in 0 .. AppPages
      BY <1>1, GeometryAssumption DEF ControlInv, CommandTypeOK
    <2> QED BY <1>1, <2>1 DEF NextPage, AfterPages, CommandTypeOK
  <1>2. 0 \in 0 .. AppPages
    BY GeometryAssumption
  <1>3. CASE Connect \/ TimesOut \/ InfoFails \/ Check \/ Erase \/ EraseLost
    BY <1>3 DEF Connect, TimesOut, InfoFails, Check, Erase, EraseLost,
                AfterErase, CommandTypeOK
  <1>4. CASE SendPage \/ PageError \/ Start \/ StartFails
    BY <1>4 DEF SendPage, PageError, AfterPageError, Start, StartFails,
                CommandTypeOK
  <1>5. CASE PageDone
    BY <1>1, <1>5 DEF PageDone, CommandTypeOK
  <1>6. CASE Rerun
    BY <1>2, <1>6 DEF Rerun, CommandTypeOK
  <1>7. CASE Packets \/ AppKeepsRunning \/ UNCHANGED allVars
    BY <1>7 DEF Packets, AppKeepsRunning, allVars, command, CommandTypeOK
  <1>8. CASE Misrouted \/ Steps
    BY <1>8 DEF Misrouted, Steps, StillThere, CommandTypeOK
  <1> QED BY <1>3, <1>4, <1>5, <1>6, <1>7, <1>8 DEF CommandNext, Command

LEMMA ControlStep ==
  ASSUME TypeOK, CommandTypeOK, ControlInv, [CommandNext]_allVars
  PROVE  ControlInv'
PROOF
  <1>0. 0 < AppPages /\ NoTransfer.sent = PacketsPerPage
    BY NoTransferTyped, GeometryAssumption DEF TypeOK
  <1>1. CASE Connect
    <2>1. /\ step \in {"connect", "reconnect"} /\ page' = page
          /\ step' = IF step = "connect" THEN "check" ELSE "write"
          /\ pc' = "handle" /\ host' = NoTransfer
          /\ sending' = sending /\ erased' = erased
      BY <1>1 DEF Connect, SetupInfo, Setup
    <2> QED BY <1>0, <2>1 DEF ControlInv, TransferDone
  <1>2. CASE \/ TimesOut \/ InfoFails \/ EraseLost
             \/ StartFails \/ Start \/ Erase \/ Check
    <2>1. \/ UNCHANGED <<pc, host>>
          \/ pc' = "handle" /\ host' = NoTransfer
      BY <1>2 DEF TimesOut, InfoFails, EraseLost, StartFails, Start, Erase,
                  Check, SetupInfo, SetupExecute, SetupErase, Setup, vars
    <2>2. /\ sending' = sending /\ connected' = connected /\ page' = page
          /\ step \in {"check", "erase", "start", "connect", "reconnect"}
      BY <1>2 DEF TimesOut, InfoFails, EraseLost, StartFails, Start, Erase,
                  Check
    <2>3. /\ step' \in {"erase", "write", "reconnect", "succeeded", "failed"}
          /\ step' = "succeeded" => step = "start"
          /\ step' \in {"write", "reconnect"} => step = "erase"
          /\ step' = "erase" => step = "check" /\ erased' = erased
      BY <1>2 DEF TimesOut, InfoFails, EraseLost, StartFails, Start, Erase,
                  Check, AfterErase
    <2> QED BY <1>0, <2>1, <2>2, <2>3 DEF ControlInv, TransferDone
  <1>3. CASE SendPage
    <2>1. /\ step = "write" /\ pc' = "handle" /\ sending' /\ connected'
          /\ UNCHANGED <<step, page, erased>>
      BY <1>3 DEF SendPage, SetupWrite, Setup
    <2> QED BY <2>1 DEF ControlInv
  <1>4. CASE PageDone
    <2>1. /\ sending /\ TransferDone /\ NextPage /\ ~sending'
          /\ UNCHANGED <<pc, host, connected, erased>>
      BY <1>4 DEF PageDone, vars
    <2>2. page < AppPages /\ page \in Nat /\ page + 1 \in 0 .. AppPages
      BY <2>1, GeometryAssumption DEF ControlInv, CommandTypeOK
    <2>3. /\ step' \in {"write", "start", "succeeded", "failed"}
          /\ step' = "write" => page' < AppPages
          /\ step' \in {"start", "succeeded"} => page' = AppPages
      <3>1. (page + 1) * PageWords < FlashSize <=> page + 1 < AppPages
        BY <2>2, PagesOfFlash
      <3>2. page + 1 < AppPages \/ page + 1 = AppPages
        BY <2>2, GeometryAssumption
      <3> QED BY <2>1, <3>1, <3>2 DEF NextPage, AfterPages
    <2> QED BY <2>1, <2>3 DEF ControlInv, TransferDone
  <1>5. CASE PageError
    <2>1. /\ step' = "failed" /\ host' = NoTransfer /\ ~sending'
          /\ UNCHANGED <<pc, connected>>
      BY <1>5 DEF PageError, AfterPageError
    <2> QED BY <1>0, <2>1 DEF ControlInv, TransferDone
  <1>6. CASE Rerun
    <2>1. /\ step \in {"failed", "succeeded"} /\ step' = "connect" /\ page' = 0
          /\ ~erased' /\ ~sending' /\ ~connected' /\ host' = host
      BY <1>6 DEF Rerun, vars
    <2>2. TransferDone
      BY <2>1 DEF ControlInv
    <2> QED BY <2>1, <2>2 DEF ControlInv, TransferDone
  <1>7. CASE Packets
    <2>1. /\ pc' = "handle" /\ ~TransferDone
          /\ UNCHANGED <<step, page, sending, connected, erased>>
      BY <1>7 DEF Packets, RecvData, command
    <2> QED BY <2>1 DEF ControlInv
  <1>8. CASE Misrouted
    <2>1. /\ host' = NoTransfer
          /\ connected' = (connected /\ pc' \notin {"start", "app"})
          /\ UNCHANGED <<step, page, sending, erased>>
      BY <1>8 DEF Misrouted, MisroutedInterrupt, StillThere
    <2> QED BY <1>0, <2>1 DEF ControlInv, TransferDone
  <1>9. CASE Steps
    <2>1. /\ Device
          /\ connected' = (connected /\ pc' \notin {"start", "app"})
          /\ UNCHANGED <<step, page, sending, erased>>
      BY <1>9 DEF Steps, StillThere
    <2>2. ASSUME ~TransferDone' PROVE ~TransferDone /\ pc' \notin {"start", "app"}
      <3>1. CASE pc = "start"
        <4>1. host' = host /\ pc' \in {"poll", "leave"}
          BY <2>1, <3>1
             DEF Device, EnterMainLoop, SkipMainLoop, PollNothing,
                 HandleErase, ErasePage, FillVectors, WriteVectors,
                 HandleWrite, WritePage, HandleExecute, LeaveBootloader
        <4> QED BY <2>2, <4>1 DEF TransferDone
      <3>2. CASE pc # "start"
        <4>1. ~LeaveBootloader
          BY <1>0, <2>2 DEF LeaveBootloader, TransferDone
        <4>2. host' = host /\ pc' \notin {"start", "app"}
          BY <2>1, <3>2, <4>1
             DEF Device, EnterMainLoop, SkipMainLoop, PollNothing,
                 HandleErase, ErasePage, FillVectors, WriteVectors,
                 HandleWrite, WritePage, HandleExecute
        <4> QED BY <2>2, <4>2 DEF TransferDone
      <3> QED BY <3>1, <3>2
    <2> QED BY <2>1, <2>2 DEF ControlInv
  <1>10. CASE AppKeepsRunning \/ UNCHANGED allVars
    BY <1>10 DEF AppKeepsRunning, AppRuns, allVars, vars, command, ControlInv,
                 TransferDone
  <1> QED BY <1>1, <1>2, <1>3, <1>4, <1>5, <1>6, <1>7, <1>8, <1>9, <1>10
          DEF CommandNext, Command

\* Without a transfer broken off the page buffer is what the host made of it.
LEMMA BufferStep ==
  ASSUME CommandInv, [CommandNext]_allVars, ~broken'
  PROVE  BufferInv'
PROOF
  <1>1. TypeOK /\ EventInv /\ ControlInv
    BY DEF CommandInv, DeviceInv
  <1>2. ~(PageError /\ ~TransferDone)
    BY DEF PageError
  <1>3. ~broken
    BY DEF CommandNext, Command, Connect, TimesOut, InfoFails, Check, Erase,
           EraseLost, SendPage, PageDone, PageError, Start, StartFails, Rerun, Packets,
           Misrouted, Steps, StillThere, AppKeepsRunning, allVars, command
  <1>4. BufferInv
    BY <1>3 DEF CommandInv
  <1>5. CASE UNCHANGED vars
    BY <1>4, <1>5 DEF BufferInv, TransferDone, vars, ram
  <1>6. CASE ~UNCHANGED vars
    <2>1. \/ Device \/ RecvData \/ MisroutedInterrupt
          \/ /\ SetupInfo \/ SetupWrite \/ SetupErase \/ SetupExecute
             /\ ~sending
      <3>1. PageError => UNCHANGED vars
        BY <1>1, <1>2, NothingToCut DEF PageError, vars
      <3> QED BY <1>1, <1>6, <3>1
          DEF CommandNext, Command, Connect, TimesOut, InfoFails, Check, Erase,
              EraseLost, SendPage, PageDone, Start, StartFails, Rerun, Packets,
              Misrouted, Steps, AppKeepsRunning, AppRuns, allVars, ControlInv
    <2>2. ~sending => TransferDone
      BY <1>1 DEF ControlInv
    <2>3. Orderly
      BY <2>1, <2>2 DEF Orderly, Requests
    <2> QED BY <1>1, <1>4, <2>3, CommandAssumption, BufferInvStep
  <1> QED BY <1>5, <1>6

(***************************************************************************)
(* The steps of a run whose erase has reached the device.                  *)
(***************************************************************************)
\* Steps of the command that leave the device and the page alone.
LEMMA FilledSame ==
  ASSUME NEW im, FilledInv(im),
         UNCHANGED <<flash, pageBuffer, currentAddress, vectorTemp, host, events,
                     pc, page, erasePage>>,
         connected' => connected, sending' => sending
  PROVE  FilledInv(im)'
PROOF
  <1>1. /\ TransferDone' <=> TransferDone
        /\ Erasing' <=> Erasing
        /\ PageInBuffer' <=> PageInBuffer
    BY DEF TransferDone, Erasing, PageInBuffer
  <1>2. \A p : There(im, p)' <=> There(im, p)
    BY DEF There
  <1>3. \A p : Delivered(im, p)' <=> Delivered(im, p)
    BY <1>1, <1>2 DEF Delivered
  <1>4. PICK P : P = OnBus
    OBVIOUS
  <1>5. OnBus' = P /\ HostInv(im, P)
    BY <1>1, <1>4 DEF OnBus, FilledInv
  <1>6. EraseInv' /\ EventInv' /\ ErasingInv'
    BY <1>5 DEF HostInv, EraseInv, EventInv, ErasingInv
  <1>7. HostInv(im, P)'
    BY <1>1, <1>5, <1>6, KeepsHost DEF EventInv
  <1>8. HostInv(im, OnBus)'
    BY <1>5, <1>7
  <1>9. SendingInv(im)'
    BY <1>1, <1>3 DEF FilledInv, SendingInv
  <1> QED BY <1>1, <1>3, <1>8, <1>9 DEF FilledInv

\* A request without data: info, or the start of the program.
LEMMA FilledAsks ==
  ASSUME CommandInv, NEW im, FilledInv(im), SetupInfo \/ SetupExecute,
         ~sending, ~sending', page' = page, page = 0 \/ connected
  PROVE  FilledInv(im)'
PROOF
  <1>1. TransferDone /\ TypeOK
    BY DEF CommandInv, ControlInv, DeviceInv
  <1>2. OnBus = {} /\ vectorTemp' = vectorTemp
    BY <1>1 DEF OnBus, SetupInfo, SetupExecute, Setup
  <1>3. HostInv(im, {})
    BY <1>2 DEF FilledInv
  <1>4. /\ HostInv(im, {})' /\ TransferDone' /\ ~Erasing'
        /\ \A p : Delivered(im, p) => Delivered(im, p)'
    BY <1>1, <1>3, HostAsks
  <1>5. OnBus' = {}
    BY <1>4 DEF OnBus
  <1>6. HostInv(im, OnBus)'
    BY <1>4, <1>5
  <1>7. page > 0 => vectorTemp = VectorsIn(im)
    BY DEF FilledInv, CommandInv, CommandTypeOK
  <1> QED BY <1>2, <1>4, <1>6, <1>7 DEF FilledInv, SendingInv

\* The erase: the first thing a run does to the device.
LEMMA FilledErases ==
  ASSUME CommandInv, ~broken, NEW im, Erase
  PROVE  FilledInv(im)'
PROOF
  <1>1. /\ SetupErase /\ step = "erase" /\ page' = page /\ sending' = sending
        /\ pc = "poll"
    BY DEF Erase, SetupErase, Setup
  <1>2. page = 0 /\ ~sending /\ TransferDone
    BY <1>1 DEF CommandInv, ControlInv
  <1>3. TypeOK /\ EraseInv /\ EventInv /\ BufferInv
    BY DEF CommandInv, DeviceInv
  <1>4. events = {} /\ pageBuffer = EmptyBuffer
    BY <1>1, <1>2, <1>3 DEF EventInv, BufferInv
  <1>5. HostInv(im, {})' /\ TransferDone'
    BY <1>1, <1>3, <1>4, HostErases
  <1>6. OnBus' = {}
    BY <1>5 DEF OnBus
  <1>7. HostInv(im, OnBus)'
    BY <1>5, <1>6
  <1> QED BY <1>1, <1>2, <1>7 DEF FilledInv, SendingInv

\* A page starts when the ones below are there, and the vectors known.
LEMMA FilledSends ==
  ASSUME CommandInv, FilledInv(program.image), SendPage
  PROVE  FilledInv(program.image)'
PROOF
  <1>0. PICK im : im = program.image
    OBVIOUS
  <1>1. /\ SetupWrite /\ ~sending /\ connected /\ sending' /\ connected'
        /\ page' = page /\ host'.page = page /\ host'.image = im
        /\ program' = program /\ pc = "poll" /\ vectorTemp' = vectorTemp
    BY <1>0 DEF SendPage, SetupWrite, Setup
  <1>2. TransferDone /\ TypeOK /\ FilledInv(im) /\ page \in Nat
    BY <1>0, <1>1 DEF CommandInv, ControlInv, DeviceInv, CommandTypeOK
  <1>3. PICK P : P = {page}
    OBVIOUS
  <1>4. HostInv(im, P)
    <2>1. OnBus = {}
      BY <1>2 DEF OnBus
    <2>2. HostInv(im, {})
      BY <1>2, <2>1 DEF FilledInv
    <2> QED BY <2>2, MoreLeftover
  <1>5. \A w \in AppWords : Patched(w, host'.image[w], VectorsIn(im)) = Due(im, w)
    BY <1>1 DEF Due
  <1>6. \A p \in 0 .. page - 1 : There(im, p)
    BY <1>1, <1>2 DEF FilledInv, Delivered, PageInBuffer
  <1>7. page # 0 => vectorTemp = VectorsIn(im)
    BY <1>1, <1>2 DEF FilledInv
  <1>8. /\ HostInv(im, P)' /\ ~TransferDone' /\ ~Erasing'
        /\ \A p : Delivered(im, p) => Delivered(im, p)'
    BY <1>1, <1>2, <1>3, <1>4, <1>5, <1>6, <1>7, CommandAssumption, HostSends
  <1>9. OnBus' = P
    BY <1>1, <1>3, <1>8 DEF OnBus
  <1>10. HostInv(im, OnBus)'
    BY <1>8, <1>9
  <1>11. FilledInv(im)'
    BY <1>1, <1>2, <1>8, <1>10 DEF FilledInv, SendingInv
  <1> QED BY <1>0, <1>1, <1>11

\* The page is complete.
LEMMA FilledDone ==
  ASSUME CommandInv, NEW im, FilledInv(im), PageDone
  PROVE  FilledInv(im)'
PROOF
  <1>1. /\ sending /\ connected /\ TransferDone /\ ~sending' /\ NextPage
        /\ UNCHANGED <<flash, pageBuffer, currentAddress, vectorTemp, host,
                       events, pc, erasePage, connected>>
    BY DEF PageDone, vars, ram
  <1>2. Delivered(im, page) /\ vectorTemp = VectorsIn(im) /\ ~Erasing
    BY <1>1 DEF FilledInv, SendingInv
  <1>3. page' \in {page, page + 1} /\ page \in Nat
    BY <1>1 DEF NextPage, CommandInv, CommandTypeOK
  <1>4. OnBus = {} /\ OnBus' = {}
    BY <1>1 DEF OnBus, TransferDone
  <1>5. HostInv(im, {})
    BY <1>4 DEF FilledInv
  <1>6. EraseInv' /\ EventInv' /\ ErasingInv' /\ ~Erasing'
        /\ (PageInBuffer' <=> PageInBuffer)
    BY <1>1, <1>2, <1>5 DEF HostInv, EraseInv, EventInv, ErasingInv, Erasing,
                            PageInBuffer
  <1>7. HostInv(im, {})' /\ \A p : Delivered(im, p)' <=> Delivered(im, p)
    BY <1>1, <1>2, <1>5, <1>6, KeepsHost DEF HostInv, EventInv
  <1>8. HostInv(im, OnBus)'
    BY <1>4, <1>7
  <1>9. \A p \in 0 .. page' - 1 : Delivered(im, p)
    <2>1. \A p \in 0 .. page - 1 : Delivered(im, p)
      BY DEF FilledInv
    <2>2. ASSUME NEW p \in 0 .. page' - 1 PROVE p = page \/ p \in 0 .. page - 1
      <3>1. CASE page' = page
        BY <3>1
      <3>2. CASE page' = page + 1
        <4>1. p \in Int /\ 0 =< p /\ p =< page
          BY <1>3, <3>2
        <4> QED BY <1>3, <4>1
      <3> QED BY <1>3, <3>1, <3>2
    <2> QED BY <1>2, <2>1, <2>2
  <1> QED BY <1>1, <1>2, <1>6, <1>7, <1>8, <1>9 DEF FilledInv, SendingInv

\* A packet of the page comes.
LEMMA FilledPacket ==
  ASSUME CommandInv, NEW im, FilledInv(im), Packets
  PROVE  FilledInv(im)'
PROOF
  <1>1. /\ RecvData /\ ~TransferDone
        /\ UNCHANGED <<page, sending, connected>>
    BY DEF Packets, RecvData, command
  <1>2. TypeOK /\ sending /\ connected
    BY <1>1 DEF CommandInv, ControlInv, DeviceInv
  <1>3. host.page = page
    BY <1>1, <1>2 DEF FilledInv, SendingInv
  <1>4. PICK P : P = {page}
    OBVIOUS
  <1>5. OnBus = P /\ HostInv(im, P) /\ P \subseteq {host.page}
    BY <1>1, <1>3, <1>4 DEF FilledInv, OnBus
  <1>6. /\ HostInv(im, P)' /\ ~Erasing' /\ host'.page = page
        /\ \A p : Delivered(im, p) => Delivered(im, p)'
        /\ page # 0 => vectorTemp' = vectorTemp
        /\ TransferDone' =>
             /\ HostInv(im, {})' /\ vectorTemp' = VectorsIn(im)
             /\ \A p : p = page => Delivered(im, p)'
    BY <1>1, <1>2, <1>3, <1>5, HostPacket
  <1>7. HostInv(im, OnBus)'
    <2>1. CASE TransferDone'
      <3>1. OnBus' = {}
        BY <2>1 DEF OnBus
      <3> QED BY <1>6, <2>1, <3>1
    <2>2. CASE ~TransferDone'
      <3>1. OnBus' = P
        BY <1>1, <1>4, <2>2 DEF OnBus
      <3> QED BY <1>6, <3>1
    <2> QED BY <2>1, <2>2
  <1>8. SendingInv(im)'
    <2>1. Delivered(im, page)' <=> \E p : p = page /\ Delivered(im, p)'
      BY <1>1 DEF Delivered, There
    <2> QED BY <1>1, <1>6, <2>1 DEF SendingInv
  <1>9. page > 0 => vectorTemp' = VectorsIn(im)
    BY <1>2, <1>6 DEF FilledInv, CommandInv, CommandTypeOK
  <1>10. \A p \in 0 .. page - 1 : Delivered(im, p)'
    BY <1>6 DEF FilledInv
  <1> QED BY <1>1, <1>6, <1>7, <1>8, <1>9, <1>10 DEF FilledInv

\* A step of the device.
LEMMA FilledRuns ==
  ASSUME CommandInv, NEW im, FilledInv(im), Steps
  PROVE  FilledInv(im)'
PROOF
  <1>1. /\ Device /\ UNCHANGED <<page, sending>>
        /\ connected' = (connected /\ pc' \notin {"start", "app"})
    BY DEF Steps, StillThere
  <1>2. TypeOK /\ BootloaderIntact /\ ControlInv
    BY DEF CommandInv, DeviceInv
  <1>3. PICK P : P = OnBus
    OBVIOUS
  <1>4. HostInv(im, P)
    BY <1>3 DEF FilledInv
  <1>5. /\ HostInv(im, P)' /\ (Erasing' => Erasing)
        /\ ~Erasing => \A p : Delivered(im, p) => Delivered(im, p)'
    BY <1>1, <1>2, <1>4, HostDevice
  <1>6. NoTransfer.sent = PacketsPerPage
    BY <1>2, NoTransferTyped DEF TypeOK
  <1>7. /\ connected => vectorTemp' = vectorTemp
        /\ connected' => connected /\ host' = host
        /\ pc # "start" => host' = host \/ (host' = NoTransfer /\ pc' \notin Looping)
        /\ pc = "start" => TransferDone
    BY <1>1, <1>2, DeviceKeeps DEF ControlInv
  <1>8. HostInv(im, OnBus)'
    <2>1. CASE host' = host
      <3>1. OnBus' = P
        BY <1>1, <1>3, <2>1 DEF OnBus, TransferDone
      <3> QED BY <1>5, <3>1
    <2>2. CASE host' # host /\ pc' \notin Looping
      <3>1. Leftover(im, OnBus)'
        BY <2>2 DEF Leftover
      <3>2. TransferDone'
        <4>1. CASE pc = "start"
          BY <1>1, <1>6, <2>2, <4>1
             DEF Device, EnterMainLoop, SkipMainLoop, PollNothing,
                 HandleErase, ErasePage, FillVectors, WriteVectors,
                 HandleWrite, WritePage, HandleExecute, LeaveBootloader
        <4>2. CASE pc # "start"
          BY <1>6, <1>7, <2>2, <4>2 DEF TransferDone
        <4> QED BY <4>1, <4>2
      <3> QED BY <1>5, <3>1, <3>2 DEF HostInv
    <2>3. host' = host \/ pc' \notin Looping
      <3>1. pc = "start" => host' = host
        BY <1>1
           DEF Device, EnterMainLoop, SkipMainLoop, PollNothing,
               HandleErase, ErasePage, FillVectors, WriteVectors,
               HandleWrite, WritePage, HandleExecute, LeaveBootloader
      <3> QED BY <1>7, <3>1
    <2> QED BY <2>1, <2>2, <2>3
  <1>9. \A p \in 0 .. page - 1 : Delivered(im, p)'
    <2>1. CASE Erasing
      <3>1. page = 0
        BY <2>1 DEF FilledInv
      <3> QED BY <3>1
    <2>2. CASE ~Erasing
      BY <1>5, <2>2 DEF FilledInv
    <2> QED BY <2>1, <2>2
  <1>10. SendingInv(im)'
    <2> SUFFICES ASSUME sending, connected' PROVE SendingInv(im)'
      BY <1>1 DEF SendingInv
    <2>1. ~Erasing /\ host' = host /\ connected /\ vectorTemp' = vectorTemp
      BY <1>7 DEF FilledInv
    <2>2. TransferDone' <=> TransferDone
      BY <2>1 DEF TransferDone
    <2>3. PICK q : q = page
      OBVIOUS
    <2>4. Delivered(im, q) => Delivered(im, q)'
      BY <1>5, <2>1
    <2>5. Delivered(im, page) => Delivered(im, page)'
      BY <1>1, <2>3, <2>4
    <2> QED BY <1>1, <2>1, <2>2, <2>5 DEF FilledInv, SendingInv
  <1> QED BY <1>1, <1>5, <1>7, <1>8, <1>9, <1>10 DEF FilledInv

\* Once it is erased, the device hears every packet.
LEMMA FilledHears ==
  ASSUME CommandInv, NEW im, FilledInv(im)
  PROVE  ~Misrouted
  BY HostIsHeard DEF FilledInv, CommandInv, DeviceInv, Misrouted,
                     MisroutedInterrupt

LEMMA FilledStep ==
  ASSUME CommandInv, [CommandNext]_allVars, erased', ~broken'
  PROVE  FilledInv(program.image)'
PROOF
  <1>1. CASE Rerun
    BY <1>1 DEF Rerun
  <1>2. CASE Erase
    <2>1. PICK im : im = program.image
      OBVIOUS
    <2>2. ~broken /\ program' = program
      BY <1>2 DEF Erase
    <2>3. FilledInv(im)'
      BY <1>2, <2>2, FilledErases
    <2> QED BY <2>1, <2>2, <2>3
  <1>3. CASE ~Rerun /\ ~Erase
    <2>1. program' = program /\ erased /\ ~broken
      <3>1. PageError => /\ program' = program /\ erased' = erased
                         /\ broken => broken'
        BY DEF PageError
      <3>2. ~PageError => /\ program' = program /\ erased' = erased
                          /\ broken' = broken
        BY <1>3 DEF CommandNext, Command, Connect, TimesOut, InfoFails, Check,
                    EraseLost, SendPage, PageDone, Start, StartFails,
                    Packets, Misrouted, Steps, StillThere, AppKeepsRunning,
                    allVars, command
      <3>3. erased \in BOOLEAN /\ broken \in BOOLEAN
        BY DEF CommandInv, CommandTypeOK
      <3>4. program' = program /\ erased' = erased
        BY <3>1, <3>2
      <3>5. ~broken
        <4>1. CASE PageError
          BY <3>1, <4>1
        <4>2. CASE ~PageError
          BY <3>2, <3>3, <4>2
        <4> QED BY <4>1, <4>2
      <3>6. erased
        BY <3>3, <3>4
      <3> QED BY <3>4, <3>5, <3>6
    <2>2. PICK im : im = program.image
      OBVIOUS
    <2>3. FilledInv(im) /\ ControlInv
      BY <2>1, <2>2 DEF CommandInv
    <2>4. CASE \/ Connect \/ Start
               \/ (InfoFails /\ SetupInfo)
               \/ (StartFails /\ SetupExecute /\ connected)
      <3>1. /\ SetupInfo \/ SetupExecute
            /\ step # "write" /\ sending' = sending /\ page' = page
            /\ page = 0 \/ connected
        BY <2>3, <2>4 DEF Connect, InfoFails, Start, StartFails, ControlInv
      <3>2. ~sending /\ ~sending'
        BY <2>3, <3>1 DEF ControlInv
      <3> QED BY <2>1, <2>2, <2>3, <3>1, <3>2, FilledAsks
    <2>5. CASE SendPage
      BY <2>2, <2>3, <2>5, FilledSends
    <2>6. CASE PageDone
      BY <2>1, <2>2, <2>3, <2>6, FilledDone
    <2>7. CASE Packets
      BY <2>1, <2>2, <2>3, <2>7, FilledPacket
    <2>8. CASE Steps
      BY <2>1, <2>2, <2>3, <2>8, FilledRuns
    <2>9. CASE Misrouted
      BY <2>3, <2>9, FilledHears
    <2>10. CASE PageError
      <3>1. TransferDone /\ TypeOK
        BY <2>10 DEF PageError, CommandInv, DeviceInv
      <3>2. /\ UNCHANGED <<flash, pageBuffer, currentAddress, vectorTemp, host,
                           events, pc, page, erasePage, connected>>
            /\ ~sending'
        BY <2>10, <3>1, NothingToCut DEF PageError, AfterPageError, ram
      <3> QED BY <2>1, <2>2, <2>3, <3>2, FilledSame
    <2>11. CASE \/ TimesOut \/ Check \/ EraseLost \/ AppKeepsRunning
                \/ (InfoFails /\ UNCHANGED vars)
                \/ (StartFails /\ UNCHANGED vars) \/ UNCHANGED allVars
      <3>1. /\ UNCHANGED <<flash, pageBuffer, currentAddress, vectorTemp, host,
                           events, pc, erasePage>>
            /\ UNCHANGED <<page, connected, sending>>
        BY <2>11 DEF TimesOut, InfoFails, Check, EraseLost, AppKeepsRunning,
                     AppRuns, StartFails, allVars, command, vars, ram
      <3> QED BY <2>1, <2>2, <2>3, <3>1, FilledSame
    <2>12. /\ InfoFails => SetupInfo \/ UNCHANGED vars
           /\ StartFails => (connected /\ SetupExecute) \/ UNCHANGED vars
      BY DEF InfoFails, StartFails
    <2>13. CASE InfoFails \/ StartFails
      BY <2>4, <2>11, <2>12, <2>13
    <2>14. CASE ~InfoFails /\ ~StartFails
      BY <1>3, <2>4, <2>5, <2>6, <2>7, <2>8, <2>9, <2>10, <2>11, <2>14
         DEF CommandNext, Command
    <2> QED BY <2>13, <2>14
  <1> QED BY <1>1, <1>2, <1>3

LEMMA CommandInvStep ==
  ASSUME CommandInv, [CommandNext]_allVars
  PROVE  CommandInv'
PROOF
  <1>1. DeviceInv /\ TypeOK /\ CommandTypeOK /\ ControlInv
    BY DEF CommandInv, DeviceInv
  <1>2. DeviceInv'
    <2>1. CASE PageError /\ ~TransferDone
      BY <1>1, <2>1, DeviceInvCut DEF PageError
    <2>2. CASE ~(PageError /\ ~TransferDone)
      BY <1>1, <2>2, CommandSteps, CommandAssumption, DeviceInvStep
    <2> QED BY <2>1, <2>2
  <1>3. CommandTypeOK' /\ ControlInv'
    BY <1>1, CommandTyped, ControlStep
  <1>4. ~broken' => BufferInv'
    BY BufferStep
  <1>5. erased' /\ ~broken' => FilledInv(program.image)'
    BY FilledStep
  <1> QED BY <1>2, <1>3, <1>4, <1>5 DEF CommandInv

LEMMA CommandInvInit == CommandInit => CommandInv
PROOF
  <1> SUFFICES ASSUME CommandInit PROVE CommandInv
    OBVIOUS
  <1>1. Init
    BY DEF CommandInit
  <1>2. DeviceInv
    BY <1>1, InitTyped, InitIntact
       DEF Init, DeviceInv, EraseInv, EventInv, MagicInv
  <1>3. CommandTypeOK /\ ControlInv
    <2>1. TransferDone
      BY <1>1 DEF Init, TransferDone
    <2>2. 0 \in 0 .. AppPages
      BY GeometryAssumption
    <2>3. /\ program \in Programs /\ step = "connect" /\ page = 0
          /\ sending = FALSE /\ connected = FALSE
          /\ erased = FALSE /\ broken = FALSE
      BY DEF CommandInit
    <2> QED BY <2>1, <2>2, <2>3 DEF CommandTypeOK, ControlInv
  <1>4. BufferInv
    BY <1>1 DEF Init, BufferInv, TransferDone, Looping
  <1>5. ~erased
    BY DEF CommandInit
  <1> QED BY <1>2, <1>3, <1>4, <1>5 DEF CommandInv

(***************************************************************************)
(* The theorems.                                                           *)
(***************************************************************************)
\* The inductive invariant holds in every state of every run.  It says what
\* the pages hold only once the erase request of the run has reached the
\* device, and until a page transfer breaks off.
THEOREM CommandSafe == CommandSpec => []CommandInv
  BY CommandInvInit, CommandInvStep, PTL DEF CommandSpec

\* A run of micronucleus that ends well has left its program in flash,
\* provided that its erase request reached the device (main() goes on after
\* an erase that was lost) and no page transfer has ever broken off.
THEOREM CommandSuccess == CommandSpec => []SuccessIsThere
PROOF
  <1>1. CommandInv => SuccessIsThere
    <2> SUFFICES ASSUME CommandInv, step = "succeeded", erased, ~broken, Settled
                 PROVE  FlashIsProgram
      BY DEF SuccessIsThere
    <2>1. PICK im : im = program.image
      OBVIOUS
    <2>2. page = AppPages /\ ~PageInBuffer
      BY DEF CommandInv, ControlInv, Settled, PageInBuffer
    <2>3. \A p \in 0 .. AppPages - 1 : There(im, p)
      BY <2>1, <2>2 DEF CommandInv, FilledInv, Delivered
    <2>4. ASSUME NEW w \in AppWords PROVE flash[w] = Due(im, w)
      BY <2>3, WordInPage DEF There
    <2>5. Vectors = VectorsIn(im)
      BY <2>1 DEF Vectors, VectorsIn
    <2> QED BY <2>1, <2>4, <2>5 DEF FlashIsProgram, Due
  <1> QED BY <1>1, CommandSafe, PTL
=============================================================================
