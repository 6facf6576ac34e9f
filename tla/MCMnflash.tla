----------------------------- MODULE MCMnflash ------------------------------
(***************************************************************************)
(* The firmware of MCUpload, for a device as shipped or one that runs the  *)
(* longest of it.                                                          *)
(***************************************************************************)
EXTENDS Mnflash, MCUpload

MCOldFirmwares == {Firmware(0, 14)}
=============================================================================
