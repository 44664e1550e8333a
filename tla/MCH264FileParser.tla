-------------------------- MODULE MCH264FileParser --------------------------
(* An instance of H264FileParser for TLC. *)
EXTENDS H264FileParser

MCUnits == << <<7, 8, 5>>, <<1>>, <<7, 8, 5>>, <<1>> >>
=============================================================================
