------------------------- MODULE MCNdisOidRequests -------------------------
(* Model-checking instance of NdisOidRequests. *)
EXTENDS NdisOidRequests
=============================================================================
