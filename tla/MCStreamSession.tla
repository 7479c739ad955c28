-------------------------- MODULE MCStreamSession --------------------------
(* StreamSession with a queue of two frames and an arbitrary client.       *)
EXTENDS StreamSession
=============================================================================
