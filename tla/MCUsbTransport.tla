--------------------------- MODULE MCUsbTransport ---------------------------
(* Instances of UsbTransport for TLC: the cfg files give the sizes.          *)
EXTENDS UsbTransport
=============================================================================
