------------------------------ MODULE MCMulDiv ------------------------------
(* Instances of MulDiv for TLC.                                            *)
EXTENDS MulDiv

AllRequests == Request
=============================================================================
