----------------------------- MODULE MCNodeSync -----------------------------
(* Instances of NodeSync for TLC. *)
EXTENDS NodeSync

CONSTANTS hy2, reality

MCProtos == {hy2, reality}
\* A realm with both protocols, then no realm block, then one protocol.
MCDownlink == <<{hy2, reality}, {}, {reality}>>
=============================================================================
