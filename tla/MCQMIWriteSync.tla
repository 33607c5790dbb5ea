--------------------------- MODULE MCQMIWriteSync ---------------------------
(* QMIWriteSync for TLC: a client with one writer beside one that two      *)
(* writers share, as QMICTL is shared.                                     *)
EXTENDS QMIWriteSync, TLC

CONSTANTS w1, w2, w3, ctl, file

Sharing == w1 :> ctl @@ w2 :> ctl @@ w3 :> file
=============================================================================
