------------------------------ MODULE MCBilling ------------------------------
(* Instances of Billing for TLC. *)
EXTENDS Billing, TLC

CONSTANTS u1, u2, c1, c2

MCOwner == (c1 :> u1) @@ (c2 :> u2)
=============================================================================
