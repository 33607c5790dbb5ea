--------------------------- MODULE MCQMIClientMem ---------------------------
(* Model-checking instance of QMIClientMem. *)
EXTENDS QMIClientMem

MCAnyOrOne == {0, 1}
MCOneOrTwo == {1, 2}
MCAll == {0, 1, 2}
=============================================================================
