---------------------------- MODULE MCUsbDriver ----------------------------
(* Two transfers in turn, packets of two bytes.  A reply is empty, short,  *)
(* one full packet, or two full packets; a control-write has one or two.   *)
EXTENDS UsbDriver

MCReplyLengths == {1, 2, 4}
OneFullPacket == {2}

=============================================================================
