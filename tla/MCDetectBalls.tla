--------------------------- MODULE MCDetectBalls ---------------------------
(* DetectBalls with the quotas of the code and a coarse clock.             *)
EXTENDS DetectBalls
=============================================================================
