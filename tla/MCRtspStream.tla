---------------------------- MODULE MCRtspStream ----------------------------
(* Instances of RtspStream for TLC. *)
EXTENDS RtspStream

MCNoFaults == {}
MCFaults == {"launch", "sink"}
=============================================================================
