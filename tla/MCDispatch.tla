----------------------------- MODULE MCDispatch -----------------------------
(* An instance of Dispatch for TLC.                                        *)
EXTENDS Dispatch
=============================================================================
