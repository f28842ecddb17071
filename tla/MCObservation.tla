---------------------------- MODULE MCObservation ----------------------------
(* Instances of Observation for TLC. *)
EXTENDS Observation

CONSTANTS c1, c2

MCConns == {c1, c2}
MCOne == {c1}
MCSymmetry == Permutations(MCConns)
MCFacts == {Open(c) : c \in Conns} \union {Close(c) : c \in Conns}
           \union {Quality(m) : m \in 0 .. MaxMinutes}
=============================================================================
