------------------------------- MODULE Sampling -------------------------------
(***************************************************************************)
(* The look the main loop takes every ten seconds (observeQuality): the      *)
(* quality of the connections, and the capacity of the node from the bytes   *)
(* of the very same window and the network card.                             *)
(***************************************************************************)
EXTENDS Quality, Capacity, FiniteSetsExt

CONSTANT MaxEvents  \* bound: what happens to connections and cards

ASSUME SamplingAssumption == MaxEvents \in Nat /\ IsFiniteSet(Conns)

VARIABLE events  \* how much has happened so far

vars == <<qualityVars, capacityVars, events>>

Init == QualityInit /\ CapacityInit /\ events = 0

\* LastWindow: the bytes of all connections in the window.
WindowDown == SumFunction([c \in live |-> Gained(c)])

\* observeQuality: a look that comes in time or a window late, in the minute
\* of the last one or in a new one.
ObserveQuality(old, elapsed, crossed) ==
  /\ QualityObserve(old)
  /\ CapacityObserve(WindowDown, elapsed, crossed)
  /\ UNCHANGED events

Happens ==
  /\ events < MaxEvents /\ events' = events + 1
  /\ \/ QualityNext /\ UNCHANGED capacityVars
     \/ CapacityNext /\ UNCHANGED qualityVars

Next ==
  \/ Happens
  \/ \E old \in SUBSET live, elapsed \in {1, 2}, crossed \in BOOLEAN :
       ObserveQuality(old, elapsed, crossed)

Spec == Init /\ [][Next]_vars
-----------------------------------------------------------------------------
\* Type invariant.
TypeOK == QualityTypeOK /\ CapacityTypeOK /\ events \in 0 .. MaxEvents
=============================================================================
