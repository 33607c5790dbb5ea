---------------------------- MODULE MCUsbBulkRead ----------------------------
(* Model-checking instance of UsbBulkRead. *)
EXTENDS UsbBulkRead

MCReadSizes == {1, 2, 5}
=============================================================================
