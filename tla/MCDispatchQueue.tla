--------------------------- MODULE MCDispatchQueue ---------------------------
(* An instance of DispatchQueue for TLC. *)
EXTENDS DispatchQueue

CONSTANTS w1, w2, c1, c2

MCWorker == {w1, w2}
MCCaller == {c1, c2}
=============================================================================
