------------------------------ MODULE MCUsbHost ------------------------------
(* Instances of the USB host driver for TLC.                               *)
EXTENDS UsbHost

(* A device whose descriptor takes three packets, one whose takes one.     *)
MCPacketSizes == {8, 64}
=============================================================================
