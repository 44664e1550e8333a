------------------------------- MODULE Source -------------------------------
(***************************************************************************)
(* What a StreamSource over a directory (stream.hpp, fileparser.cpp)       *)
(* promises to the Stream that uses it: started, it has its first sample,  *)
(* at time 0; each load replaces the sample by the next one, a sample      *)
(* duration later, and after the last sample comes the first one again;    *)
(* stopped, it has none.  FileParser implements this module, and Stream    *)
(* uses its source as it is meant to be used.                              *)
(***************************************************************************)
EXTENDS Integers

CONSTANTS NumSamples,   \* samples 0 .. NumSamples - 1 exist
          Duration,     \* of a sample
          TimeModulus   \* times are taken modulo this

VARIABLES started,      \* between start and stop
          current,      \* the sample that is loaded, or -1
          time          \* its time

vars == <<started, current, time>>

Init == started = FALSE /\ current = -1 /\ time = 0

Start ==
    /\ ~started
    /\ started' = TRUE
    /\ current' = 0
    /\ time' = 0

Load ==
    /\ started
    /\ current' = (current + 1) % NumSamples
    /\ time' = (time + Duration) % TimeModulus
    /\ UNCHANGED started

Stop ==
    /\ started
    /\ started' = FALSE
    /\ current' = -1
    /\ time' = 0

Next == Start \/ Load \/ Stop

Spec == Init /\ [][Next]_vars
=============================================================================
