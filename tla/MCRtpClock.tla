----------------------------- MODULE MCRtpClock -----------------------------
(* An instance of RtpClock for TLC. *)
EXTENDS RtpClock
=============================================================================
