-------------------------- MODULE MCUsbnetTransmit --------------------------
(***************************************************************************)
(* The two ways out of the network driver for TLC: writes to the control   *)
(* channel (QMIWriteSync) and packets of the uplink (TxAggregation).       *)
(*                                                                         *)
(* Neither reads what the other writes, so that steps of one in between    *)
(* those of the other show nothing: a behaviour moves one part and leaves  *)
(* the other as it started.                                                *)
(***************************************************************************)
EXTENDS MCQMIWriteSync, TxAggregation

VARIABLE part  \* what moves: "writes" or "packets"

(* The modem lowers or raises the limits of the probe.                     *)
MCLens == {2, 3}
MCProbed == <<3, 3>>
MCNegotiated == {<<2, 2>>, <<6, 2>>}

(* The answer of the modem is one, where it does not matter.               *)
MCInit ==
    /\ Init /\ TxInit
    /\ \/ part = "packets"
       \/ part = "writes" /\ limit.answer = <<2, 2>>

WritesMove == part = "writes" /\ Next /\ UNCHANGED <<txVars, part>>
PacketsMove == part = "packets" /\ TxNext /\ UNCHANGED <<vars, part>>

MCNext == WritesMove \/ PacketsMove

(* The fairness of the two specifications, FairSpec and TxFairSpec: the    *)
(* part that is left as it started has none of these steps enabled.        *)
MCSpec ==
    /\ MCInit /\ [][MCNext]_<<vars, txVars, part>>
    /\ \A w \in Writers : WF_vars(Continue(w))
    /\ WF_txVars(TimerCb) /\ WF_txVars(TxpathBh) /\ WF_txVars(Flush)
    /\ \A d \in Devs : WF_txVars(Enqueue(d))
=============================================================================
