------------------------------- MODULE Player -------------------------------
(***************************************************************************)
(* What a Stream (src/stream.hpp) promises to the code that starts and     *)
(* stops it: while it plays it hands the samples of its source to the      *)
(* sample handler one after the other, beginning with the first one, and   *)
(* beginning anew each time it is started; once stopped it hands out       *)
(* nothing.  Stream implements this module.                                *)
(***************************************************************************)
EXTENDS Integers

CONSTANT NumSamples   \* the source loops over samples 0 .. NumSamples - 1

VARIABLES playing,    \* between start and stop
          last        \* the sample handed out last since start, or -1

vars == <<playing, last>>

TypeOK ==
    /\ playing \in BOOLEAN
    /\ last \in -1 .. NumSamples - 1

Init == playing = FALSE /\ last = -1

Start ==
    /\ ~playing
    /\ playing' = TRUE
    /\ UNCHANGED last

Emit ==
    /\ playing
    /\ last' = (last + 1) % NumSamples
    /\ UNCHANGED playing

Stop ==
    /\ playing
    /\ playing' = FALSE
    /\ last' = -1

Next == Start \/ Emit \/ Stop

Spec == Init /\ [][Next]_vars

\* As long as it plays it does not stall.
FairSpec == Spec /\ WF_vars(Emit)
=============================================================================
