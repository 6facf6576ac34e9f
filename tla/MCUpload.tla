------------------------------ MODULE MCUpload ------------------------------
(***************************************************************************)
(* Firmware of one page up to all of them, and one that starts at page 1,  *)
(* for three pages of six words; the tiny table has three of the last.     *)
(***************************************************************************)
EXTENDS Upload

Image(start, end) ==
    [w \in AppWords |->
        CASE w \notin start .. end - 1 -> Blank
          [] w = 0         -> [op |-> "rjmp", arg |-> 2]
          [] w = UsbVector -> [op |-> "rjmp", arg |-> 0]
          [] OTHER         -> [op |-> "app", arg |-> w]]

Firmware(start, end) == [image |-> Image(start, end), start |-> start, end |-> end]

MCFirmwares ==
    {Firmware(0, 4), Firmware(0, 11), Firmware(0, 12), Firmware(0, 14),
     Firmware(0, 15),
     Firmware(6, 12), Firmware(1, 5)}
MCImages == {f.image : f \in MCFirmwares} \cup {BlankImage}
=============================================================================
