--------------------------- MODULE MCQMIClientIDs ---------------------------
(***************************************************************************)
(* Small instances of QMIClientIDs.  The behaviours looked at are those    *)
(* with four transaction IDs (of which 3, the one that is 0 on the wire,   *)
(* is skipped) on a pipe without faults, and those with fewer requests,    *)
(* indications, and faults of the pipe.                                    *)
(***************************************************************************)
EXTENDS QMIClientIDs

MCQMICTL    == 0
MCQMIWDS    == 1
MCClientIds == {1, 2, 3}
MCLimits    == {[requests |-> 4, inds |-> 0, faults |-> FALSE],
                [requests |-> 1, inds |-> 1, faults |-> TRUE],
                [requests |-> 0, inds |-> 2, faults |-> TRUE]}
Symmetry    == Permutations(Files)
=============================================================================
