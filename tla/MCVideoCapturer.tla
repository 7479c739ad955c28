-------------------------- MODULE MCVideoCapturer --------------------------
(* The thread with a short video and a coarse clock; see the .cfg files.   *)
EXTENDS VideoCapturer
=============================================================================
