--------------------------- MODULE MCNetworkOwner ---------------------------
(* A shape is a pair of input_rows and input_cols, two values each.        *)
EXTENDS NetworkOwner

Pairs == [1 .. 2 -> {"a", "b"}]
=============================================================================
