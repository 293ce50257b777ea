------------------------------ MODULE MCConfreg ------------------------------
(* An instance of Confreg for TLC: two different bytes may be typed, up to *)
(* three of them; a line may end by itself or by the limit of the buffer.  *)
EXTENDS Confreg
=============================================================================
