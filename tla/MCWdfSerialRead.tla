-------------------------- MODULE MCWdfSerialRead --------------------------
(* WdfSerialRead for TLC.  Two URBs, each as large as the ring buffer, so  *)
(* that the second one finds no room.                                      *)
EXTENDS WdfSerialRead

MCReadLength == <<1, 2>>
====
