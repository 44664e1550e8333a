----------------------------- MODULE MCArgParser ----------------------------
(* An instance of ArgParser for TLC: two options and a flag. *)
EXTENDS ArgParser

MCWord == {"a", "audio", "p", "v"}
MCOption == {"audio", "port"}
MCFlag == {"verbose"}
MCShort == [o \in MCOption \cup MCFlag |->
              CASE o = "audio" -> "a" [] o = "port" -> "p" [] o = "verbose" -> "v"]
=============================================================================
