--------------------------- MODULE MCUsbReadNotify ---------------------------
(* Model-checking instance of UsbReadNotify. *)
EXTENDS UsbReadNotify
=============================================================================
