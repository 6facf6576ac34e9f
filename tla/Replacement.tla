----------------------------- MODULE Replacement -----------------------------
(***************************************************************************)
(* What firmware/upgrade.c promises: the device belongs to the bootloader  *)
(* it came with, then to the upgrade program, then to the new bootloader,  *)
(* and to nothing else in between.  Only an accident the program cannot    *)
(* survive may break this.                                                 *)
(***************************************************************************)
VARIABLES
    inCharge,   \* what a reset runs
    accident    \* something happened that excuses everything

Owners == {"old", "upgrade", "new"}

Init == inCharge = "old" /\ accident \in BOOLEAN

TakeOver == inCharge = "old"     /\ inCharge' = "upgrade"
HandOver == inCharge = "upgrade" /\ inCharge' = "new"

Next == accident' \/ (accident' = accident /\ (TakeOver \/ HandOver))

Spec == Init /\ [][Next]_<<inCharge, accident>>

=============================================================================
