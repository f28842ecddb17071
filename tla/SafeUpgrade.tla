---------------------------- MODULE SafeUpgrade ----------------------------
(***************************************************************************)
(* What the updater promises about the binary in place, with no download, no *)
(* backup file, no service and no report in sight.                           *)
(*                                                                           *)
(* A version is put in place on trial, and the one it replaced is kept to    *)
(* fall back to.  The trial ends in one of two ways: the version is kept,    *)
(* which only a good one is, or the old version is put back.  The one other  *)
(* way out is a power loss, which leaves in place whatever is there and ends *)
(* the trial without a verdict.                                              *)
(***************************************************************************)
EXTENDS Naturals

CONSTANTS
  Versions,  \* the versions of the agent
  First,     \* the installed one
  Good,      \* those fit to be kept
  None       \* no version

VARIABLES
  inPlace,   \* the version in place
  fallback,  \* the one to fall back to while the version in place is on trial
  losses     \* power losses so far

upgradeVars == <<inPlace, fallback, losses>>

Init == inPlace = First /\ fallback = None /\ losses = 0

\* A version takes the place of another one, on trial.
Try(v) ==
  /\ fallback = None /\ v # inPlace
  /\ inPlace' = v /\ fallback' = inPlace
  /\ UNCHANGED losses

\* The version on trial is kept.
Keep ==
  /\ fallback # None /\ inPlace \in Good
  /\ fallback' = None
  /\ UNCHANGED <<inPlace, losses>>

\* The old version is put back.
Revert ==
  /\ fallback # None
  /\ inPlace' = fallback /\ fallback' = None
  /\ UNCHANGED losses

\* The power fails.
Interrupt ==
  /\ losses' = losses + 1
  /\ fallback' = None
  /\ UNCHANGED inPlace

Next ==
  \/ \E v \in Versions : Try(v)
  \/ Keep \/ Revert
  \/ Interrupt

Spec == Init /\ [][Next]_upgradeVars
=============================================================================
