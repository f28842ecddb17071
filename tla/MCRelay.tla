------------------------------- MODULE MCRelay -------------------------------
(* Instances of Relay for TLC. *)
EXTENDS Relay

CONSTANTS b1, b2, p1, p2

MCBins == {b1, b2}
MCPorts == {p1, p2}
=============================================================================
