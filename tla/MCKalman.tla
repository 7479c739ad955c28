------------------------------ MODULE MCKalman ------------------------------
(* EKF of a position and a velocity, of which one or a sum is measured.    *)
EXTENDS Kalman

Moves == { [value |-> << << 1, 1 >>, << 0, 1 >> >>, inverse |-> << << 1, -1 >>, << 0, 1 >> >>] }
Noise == { << << 0, 0 >>, << 0, 0 >> >>, << << 1, 0 >>, << 0, 1 >> >> }
Rows  == { << 1, 0 >>, << 1, 1 >> }
First == [mean |-> << 1, 0 >>, value |-> << << 2, 0 >>, << 0, 1 >> >>, inverse |-> << << 1, 0 >>, << 0, 2 >> >>]
=============================================================================
