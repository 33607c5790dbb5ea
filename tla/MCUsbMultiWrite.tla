-------------------------- MODULE MCUsbMultiWrite --------------------------
(* UsbMultiWrite for TLC.  Two buffers and two writes, the second of which *)
(* calls for a zero-length packet: two data transfers are in flight at the *)
(* same time, and the packet waits for a buffer.  Two requests are enough  *)
(* for one drain to meet another, and for a flow-off to meet a purge.      *)
EXTENDS UsbMultiWrite
====
