----------------------------- MODULE MCStreamer -----------------------------
(* Instances of Streamer for TLC. *)
EXTENDS Streamer

CONSTANTS alice, bob

MCId == {alice, bob}
MCOneId == {alice}

MCFile == {"FileSource"}
MCBoth == {"FileSource", "RtspSource"}

\* No page is different from another one, so the first client is Alice's.
MCAliceFirst == clientId'[1] # bob
=============================================================================
