------------------------------ MODULE MCRuntime ------------------------------
(* The program with small queues.  The images change their size, and one  *)
(* is empty, which the interface of a source allows although both sources  *)
(* of the repository refuse it; the interfaces are a loopback and a LAN.   *)
EXTENDS Runtime

Sizes    == << 1, 2, 0 >>
Loopback == [address |-> << 1, 0 >>, netmask |-> {1}]
Lan      == [address |-> << 0, 1 >>, netmask |-> {1}]
Targets  == { << 0, 0 >>, NoAddress }
Lists    == { << >>, << Loopback >>, << Loopback, Lan >> }
=============================================================================
