------------------------------ MODULE MCStream ------------------------------
(* An instance of Stream for TLC. *)
EXTENDS Stream

CONSTANTS main, exit

MCCaller == {main, exit}
=============================================================================
