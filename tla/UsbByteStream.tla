---------------------------- MODULE UsbByteStream ----------------------------
(***************************************************************************)
(* What the read path of a diagnostics device promises to an application:  *)
(* the bytes that come while the device is being opened or is open,        *)
(* numbered 1, 2, ... from each close on, are given to the readers in      *)
(* order, each one once.  Those that came during an open that failed are   *)
(* given to the readers of the next one.                                   *)
(***************************************************************************)
EXTENDS Naturals, Sequences

CONSTANT MaxBytes

VARIABLES
    opened,  \* an application opens the device or has it open
    sent,    \* bytes the device has sent since the last close
    out      \* bytes the readers were given since the open

vars == <<opened, sent, out>>

Init == opened = FALSE /\ sent = 0 /\ out = << >>

Open == ~opened /\ opened' = TRUE /\ UNCHANGED <<sent, out>>

OpenFails == opened /\ out = << >> /\ opened' = FALSE /\ UNCHANGED <<sent, out>>

Receive ==
    /\ opened
    /\ sent' \in (sent + 1)..MaxBytes
    /\ UNCHANGED <<opened, out>>

Read ==
    /\ opened
    /\ \E n \in (Len(out) + 1)..sent : out' = [i \in 1..n |-> i]
    /\ UNCHANGED <<opened, sent>>

Close == opened /\ opened' = FALSE /\ sent' = 0 /\ out' = << >>

Next == Open \/ OpenFails \/ Receive \/ Read \/ Close

Spec == Init /\ [][Next]_vars
=============================================================================
