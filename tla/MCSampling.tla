------------------------------ MODULE MCSampling ------------------------------
(* Instances of Sampling for TLC. *)
EXTENDS Sampling

CONSTANTS c1, e1, e2
=============================================================================
