---------------------------- MODULE MCInference ----------------------------
(* Inference with small images, an input of another aspect ratio and a few *)
(* shapes of the output.                                                   *)
EXTENDS Inference
=============================================================================
