-------------------------- MODULE MCSampleGenerator -------------------------
(* An instance of SampleGenerator for TLC. *)
EXTENDS SampleGenerator

\* 1 and 65 begin a slice (type 1), 0 something else.
MCByte == {0, 1, 65}
=============================================================================
