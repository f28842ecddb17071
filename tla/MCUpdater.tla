------------------------------ MODULE MCUpdater ------------------------------
(* Instances of Updater for TLC. *)
EXTENDS Updater, TLC

CONSTANTS v0, v1, v2, v3, v4

\* The installed version and the next work; the others do not, each in its way.
MCVersions == {v0, v1, v2, v3, v4}
MCBehaviour == (v0 :> "works") @@ (v1 :> "works") @@ (v2 :> "hangs") @@ (v3 :> "crashes")
               @@ (v4 :> "mute")
=============================================================================
