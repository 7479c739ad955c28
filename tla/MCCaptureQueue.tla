--------------------------- MODULE MCCaptureQueue ---------------------------
(* CaptureQueue on small instances; the bounds are in the .cfg files.      *)
EXTENDS CaptureQueue
=============================================================================
