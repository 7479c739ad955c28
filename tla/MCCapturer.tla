----------------------------- MODULE MCCapturer -----------------------------
(* Capturer with the limits of the code.                                   *)
EXTENDS Capturer
=============================================================================
