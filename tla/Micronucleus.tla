---------------------------- MODULE Micronucleus ----------------------------
(***************************************************************************)
(* The micronucleus command (commandline/examples/micronucleus.c with      *)
(* library/micronucleus_lib.c) driving the bootloader of module Bootloader,*)
(* run once or again, for the same or another program.                     *)
(*                                                                         *)
(* A request that fails may have reached the device not at all, in part,   *)
(* or as a whole.  The device stays powered.                               *)
(***************************************************************************)
EXTENDS Bootloader

CONSTANTS
    Programs,       \* [image, end, run, timeout]: dataBuffer, endAddress and
                    \* whether --run and --timeout are given
    CheckedLength,  \* 64 bytes: what writeFlash expects a page to be
    Runs            \* how often the command is tried

ASSUME CommandAssumption ==
    /\ Programs \subseteq [image : Images, end : AppWords,
                      run : BOOLEAN, timeout : BOOLEAN]
    /\ \A p \in Programs :
        \A w \in AppWords : w >= p.end => p.image[w] = Blank
    /\ CheckedLength \in Nat /\ Runs \in Nat \ {0}
    /\ ~LossyBus       \* the errors are this module's
    /\ PageWords > 3   \* the tiny table does not fill its page

VARIABLES
    program,   \* what is uploaded
    step,      \* where main() is
    page,      \* address / page_size in writeFlash
    sending,   \* a page write is in usb_control_msg
    connected, \* the handle still leads to the device
    erased,    \* history: this run's erase request has reached the device
    broken,    \* history: some page transfer broke off
    run        \* history: which run of the command this is

command == <<program, step, page, sending, connected, erased, broken, run>>
allVars == <<vars, command>>

FlashSize == AppReset                            \* flash_size, in words
Pages     == (FlashSize + PageWords - 1) \div PageWords

CommandInit ==
    /\ Init
    /\ program \in Programs /\ host.image = program.image
    /\ step = "connect" /\ page = 0
    /\ sending = FALSE /\ connected = FALSE
    /\ erased = FALSE /\ broken = FALSE /\ run = 1

(***************************************************************************)
(* main() and the library.                                                 *)
(***************************************************************************)
\* micronucleus_connect is called until it finds the device, and reads its
\* info.
Connect ==
    /\ step \in {"connect", "reconnect"} /\ SetupInfo
    /\ step' = IF step = "connect" THEN "check" ELSE "write"
    /\ connected' = TRUE
    /\ UNCHANGED <<program, page, sending, erased, broken, run>>

\* Nothing is found until the timeout.  There is none unless it is asked for,
\* and never one for the second search.
TimesOut ==
    /\ step = "connect" /\ program.timeout
    /\ step' = "failed"
    /\ UNCHANGED <<vars, program, page, sending, connected, erased, broken, run>>

\* A device is found, and its info is not read: assert(res >= 4).
InfoFails ==
    /\ step \in {"connect", "reconnect"} /\ pc \notin {"start", "app"}
    /\ SetupInfo \/ UNCHANGED vars
    /\ step' = "failed"
    /\ UNCHANGED <<program, page, sending, connected, erased, broken, run>>

\* Nothing to send, or too much.
Check ==
    /\ step = "check"
    /\ step' = IF program.end = 0 \/ program.end > FlashSize THEN "failed"
               ELSE "erase"
    /\ UNCHANGED <<vars, program, page, sending, connected, erased, broken, run>>

\* What main() does about the result of micronucleus_eraseFlash: three errors
\* mean that the device may have gone and come back, others end the command.
AfterErase == {"write", "reconnect", "failed"}

Erase ==
    /\ step = "erase" /\ connected /\ SetupErase
    /\ step' \in AfterErase
    /\ erased' = TRUE
    /\ UNCHANGED <<program, page, sending, connected, broken, run>>

EraseLost ==
    /\ step = "erase"
    /\ step' \in AfterErase \ {"write"}
    /\ UNCHANGED <<vars, program, page, sending, connected, erased, broken, run>>

\* micronucleus_writeFlash: the SETUP packet of a page write.
SendPage ==
    /\ step = "write" /\ ~sending /\ connected /\ page * PageWords < FlashSize
    /\ SetupWrite /\ host'.page = page /\ host'.image = program.image
    /\ sending' = TRUE
    /\ UNCHANGED <<program, step, page, connected, erased, broken, run>>

\* What follows the last page: only --run starts the program.
AfterPages == IF program.run THEN "start" ELSE "succeeded"

\* Mutant: the loop ends with the page before the tiny table.
NextPage_Short ==
    IF PageWords # CheckedLength THEN step' = "failed" /\ page' = page
    ELSE /\ page' = page + 1
         /\ step' = IF (page + 2) * PageWords < FlashSize THEN "write" ELSE AfterPages

\* res != 64 ends the loop; so does the end of the flash.
NextPage ==
    IF PageWords # CheckedLength THEN step' = "failed" /\ page' = page
    ELSE /\ page' = page + 1
         /\ step' = IF (page + 1) * PageWords < FlashSize THEN "write" ELSE AfterPages

PageDone ==
    /\ sending /\ connected /\ TransferDone
    /\ NextPage
    /\ sending' = FALSE
    /\ UNCHANGED <<vars, program, connected, erased, broken, run>>

\* Mutant: the result of usb_control_msg is ignored.
AfterPageError_GoOn == NextPage

\* Mutant: a page is tried again and again.
AfterPageError_Retry == UNCHANGED <<step, page>>

\* A page that fails is not tried again.
AfterPageError == step' = "failed" /\ page' = page

PageError ==
    /\ step = "write"
    /\ host' = NoTransfer
    /\ sending' = FALSE
    /\ AfterPageError
    /\ broken' = (broken \/ ~TransferDone)
    /\ UNCHANGED <<flash, pageBuffer, ram, magic, pc, quiet, tornVectors,
                   program, connected, erased, run>>

\* --run: micronucleus_startApp.
Start ==
    /\ step = "start" /\ connected /\ SetupExecute
    /\ step' = "succeeded"
    /\ UNCHANGED <<program, page, sending, connected, erased, broken, run>>

\* Its answer, or the request, is lost.
StartFails ==
    /\ step = "start"
    /\ (connected /\ SetupExecute) \/ UNCHANGED vars
    /\ step' = "failed"
    /\ UNCHANGED <<program, page, sending, connected, erased, broken, run>>

\* The user runs the command again, after a failure or for another program;
\* the device is still in the bootloader.
Rerun ==
    /\ step = "failed" \/ (step = "succeeded" /\ ~program.run)
    /\ run < Runs /\ pc \notin {"leave", "app"}
    /\ program' \in Programs
    /\ step' = "connect" /\ page' = 0 /\ erased' = FALSE
    /\ run' = run + 1 /\ sending' = FALSE /\ connected' = FALSE
    /\ UNCHANGED <<vars, broken>>

Command ==
    \/ Connect \/ TimesOut \/ InfoFails \/ Check \/ Erase \/ EraseLost
    \/ SendPage \/ PageDone \/ PageError \/ Start \/ StartFails

Packets == RecvData /\ UNCHANGED command

\* A device that leaves its loop takes its address off the bus.
StillThere ==
    /\ connected' = (connected /\ pc' \notin {"start", "app"})
    /\ UNCHANGED <<program, step, page, sending, erased, broken, run>>

\* A packet takes the CPU elsewhere.
Misrouted ==
    step \notin {"succeeded", "failed"} /\ MisroutedInterrupt /\ StillThere
Steps   == Device /\ StillThere
AppKeepsRunning == AppRuns /\ UNCHANGED command

CommandNext ==
    Command \/ Rerun \/ Packets \/ Misrouted \/ Steps \/ AppKeepsRunning

CommandSpec == CommandInit /\ [][CommandNext]_allVars

\* The CPU runs; a packet the host sends again and again finds usbPoll at one
\* of its calls, and the command goes on.
CommandFairSpec ==
    CommandSpec /\ WF_allVars(Steps) /\ SF_allVars(Packets) /\ SF_allVars(Command)

(***************************************************************************)
(* Properties.                                                             *)
(***************************************************************************)
Vectors ==
    [i \in {0, 1} |-> LET v == IF i = 0 THEN 0 ELSE UsbVector
                      IN  rjmp2addr(program.image[v], v)]

Settled == pc \in {"poll", "leave", "app"}

FlashIsProgram ==
    \A w \in AppWords : flash[w] = Patched(w, program.image[w], Vectors)

\* When a run ends well whose erase has reached the device, the flash, vectors
\* and tiny table included, holds the program, whatever was reported on the way
\* and whatever program the run before sent: a page that was lost never goes
\* unnoticed.  There is no such promise in two cases.  An erase that was lost
\* may end in an error after which main() reconnects and goes on: the pages are
\* then programmed over what was there, and the command reports success.  And
\* the words of a page transfer that broke off are still in the page buffer
\* when the next run erases (see VectorsAfterErase).
SuccessIsThere ==
    step = "succeeded" /\ erased /\ ~broken /\ Settled => FlashIsProgram

\* The program of a command that was to run it and ended well runs, entered
\* where its own reset vector led, with the same two exceptions: the erase
\* request was lost, or a page transfer broke off.
ProgramRuns ==
    (step = "succeeded" /\ erased /\ ~broken /\ program.run)
        ~> (pc = "app" /\ Landing(flash, AppReset) = Vectors[0])

\* main() is in a search without a timeout, and the device has left the
\* bootloader.
WaitsForDevice ==
    /\ step = "reconnect" \/ (step = "connect" /\ ~program.timeout)
    /\ pc = "app"

\* Whatever fails, the command comes to an end, unless it waits for a device
\* that is not in its bootloader.
CommandEnds == []<>(step \in {"succeeded", "failed"} \/ WaitsForDevice)

=============================================================================
