------------------------------ MODULE Mnflash -------------------------------
(***************************************************************************)
(* The commands mnflash and mnflash-switch: find a device, for the latter  *)
(* one that runs its application and has to be sent into the bootloader    *)
(* first, read its info, load the firmware and upload it (module Upload).  *)
(*                                                                         *)
(* Only devices the command is meant for are on the bus; what enumeration  *)
(* and the strings of a device look like is left out.                      *)
(***************************************************************************)
EXTENDS Upload

CONSTANTS
    OldFirmwares,   \* what the device may be running
    Attempts,       \* retry = 50
    Switches        \* the command is mnflash-switch, not mnflash

ASSUME MnflashAssumption ==
    OldFirmwares \subseteq Firmwares /\ Attempts \in Nat \ {0} /\ Switches \in BOOLEAN

VARIABLES
    loads,     \* mnflash_firmware_locate finds a firmware
    stage,     \* where main() is
    left,      \* retry, of the loops and of mnflash_usb_custom_read
    mode,      \* dev->mode
    before     \* history: the flash the command found

command == <<loads, stage, left, mode, before>>
mnflash == <<allVars, command>>

MnflashTypeOK ==
    /\ UploadTypeOK
    /\ loads \in BOOLEAN
    /\ stage \in {"search", "switch", "reconnect", "info", "locate", "upload",
                  "exit 0", "exit 1"}
    /\ left \in 0 .. Attempts \cup 1 .. Retries
    /\ stage \in {"info", "locate", "upload"} => mode = "programming"
    /\ stage = "switch" => mode = "normal"

\* A device that was flashed with f.
Installed(f) ==
    [w \in Addresses |->
        IF w >= Entry THEN BootCode
        ELSE Patched(w, f.image[w], VectorsOf(f.image))]

\* It runs that application.
InstalledInit ==
    /\ flash \in {Installed(f) : f \in OldFirmwares}
    /\ pageBuffer = EmptyBuffer
    /\ currentAddress = 0 /\ vectorTemp = [i \in {0, 1} |-> 0]
    /\ events = {} /\ rw = FALSE /\ idlePolls = 0 /\ erasePage = 0
    /\ magic = FALSE /\ pc = "app"
    /\ host \in [page : {0}, start : {0}, sent : {PacketsPerPage},
                image : Images]
    /\ quiet = FALSE /\ tornVectors = FALSE

MnflashInit ==
    /\ Init \/ InstalledInit
    /\ UploadStart
    /\ loads \in BOOLEAN
    /\ stage = "search" /\ left = Attempts
    /\ mode = "none" /\ before = flash

(***************************************************************************)
(* mnflash_usb_connect, tried again and again.                             *)
(***************************************************************************)
Searching == stage \in {"search", "reconnect"}

\* my_filter takes the device that runs its application.
FindApplication ==
    /\ stage = "search" /\ Switches /\ pc = "app"
    /\ mode' = "normal" /\ stage' = "switch"
    /\ UNCHANGED <<allVars, loads, left, before>>

\* A device with the bootloader's vendor and product, and it can be opened.
FindBootloader ==
    /\ Searching /\ SetupStandard
    /\ mode' = "programming" /\ stage' = "info" /\ left' = Retries
    /\ connected' = TRUE
    /\ UNCHANGED <<firmware, step, page, tries, sending, arrived, missing, acked,
                   cut, loads, before>>

FindNothing ==
    /\ Searching
    /\ left' = left - 1
    /\ stage' = IF left > 1 THEN stage ELSE "exit 1"
    /\ UNCHANGED <<allVars, loads, mode, before>>

(***************************************************************************)
(* main().                                                                 *)
(***************************************************************************)
\* device_enter_bootloader: a request the application may or may not follow,
\* and whose result nobody looks at.
Switch ==
    /\ stage = "switch"
    /\ AppRestarts \/ UNCHANGED vars
    /\ mode' = "none" /\ stage' = "reconnect" /\ left' = Attempts
    /\ UNCHANGED <<upload, loads, before>>

GetInfo ==
    /\ stage = "info" /\ connected /\ SetupInfo
    /\ stage' = "locate" /\ left' = 0
    /\ UNCHANGED <<upload, loads, mode, before>>

\* mnflash_usb_custom_read: some errors are tried again, like those of a
\* write; the last one ends the command.
InfoError ==
    /\ stage = "info"
    /\ left' \in {left - 1, 0}
    /\ stage' = IF left' > 0 THEN stage ELSE "exit 1"
    /\ UNCHANGED <<allVars, loads, mode, before>>

Locate ==
    /\ stage = "locate"
    /\ stage' = IF loads THEN "upload" ELSE "exit 0"
    /\ UNCHANGED <<allVars, loads, left, mode, before>>

\* mnflash_upload; what it returns changes nothing.
Uploads == stage = "upload" /\ Uploader /\ UNCHANGED command

Exit ==
    /\ stage = "upload" /\ step \in {"returned 0", "returned 1"}
    /\ stage' = "exit 0"
    /\ UNCHANGED <<allVars, loads, left, mode, before>>

Main ==
    \/ FindApplication \/ FindBootloader \/ FindNothing
    \/ Switch \/ GetInfo \/ InfoError \/ Locate \/ Uploads \/ Exit

Transfers == Packets /\ UNCHANGED command
DeviceRuns == (Runs \/ AppKeepsRunning) /\ UNCHANGED command
PowerCut == PowerFails /\ UNCHANGED command

MnflashNext == Main \/ Transfers \/ DeviceRuns \/ PowerCut

\* The CPU runs; a packet the host sends again and again finds usbPoll at one
\* of its calls, and the command goes on.
MnflashSpec ==
    /\ MnflashInit /\ [][MnflashNext]_mnflash
    /\ WF_mnflash(DeviceRuns) /\ SF_mnflash(Transfers) /\ SF_mnflash(Main)

(***************************************************************************)
(* Properties.                                                             *)
(***************************************************************************)
\* Pages behind one that was given up may hold words of that one, which the
\* page buffer kept; the ones before it are not touched any more.
BelowMissing == {p \in 0 .. AppPages - 1 : \A q \in missing : p < q}

\* Wherever the command stops and whenever power fails, what was erased or
\* written in part is not entered: an application that runs is the one the
\* device had, untouched, or the one that was uploaded, in all pages before
\* the first that mnflash gave up.  From that page on it may be damaged, since
\* mnflash goes on and starts it; and nothing is said once pages have reached a
\* device that the erase request has not.
RunsWhole ==
    pc = "app" /\ ("erase" \in arrived \/ arrived = {})
               /\ PageOf(firmware.start) = 0
        => flash = before \/ \A p \in BelowMissing : PageIsThere(p)

\* Whatever fails, the command ends.
Exits == <>(stage \in {"exit 0", "exit 1"})

=============================================================================
