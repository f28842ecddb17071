------------------------------ MODULE MCQuota ------------------------------
(* An instance of Quota for TLC: a user who pays for two bytes, and may move *)
(* to a plan that has no limit but ends at time 1.                           *)
EXTENDS Quota, TLC

CONSTANTS u1

Limited == [limit |-> 2, expires |-> LastTime + 1]
Dated == [limit |-> 0, expires |-> 1]

MCPlans == {Limited, Dated}
MCFirstPlan == u1 :> Limited
MCSupply == u1 :> 2
=============================================================================
