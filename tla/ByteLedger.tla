----------------------------- MODULE ByteLedger -----------------------------
(***************************************************************************)
(* What the billing path of the agent promises about a byte it carries, with *)
(* no meter, no window, no spool and no network in sight.                    *)
(*                                                                           *)
(* A byte is fresh until a node carries it; from then on the agent owes it   *)
(* to the manager.  The manager may be handed an owed byte several times,    *)
(* (delivery is at least once), the agent stops owing a byte only when the   *)
(* manager has it, and the one other way out is to forfeit it.  Bytes are    *)
(* counted in chunks: the bytes of one user that always move together.       *)
(***************************************************************************)
EXTENDS Naturals

CONSTANT Chunks   \* the chunks of traffic that may be carried

VARIABLES
  fresh,      \* chunks no node has carried yet
  owed,       \* chunks the agent must still hand to the manager
  forfeited,  \* chunks the agent gave up without handing them over
  credited    \* how many times the manager counted a chunk

ledgerVars == <<fresh, owed, forfeited, credited>>

\* The manager's count after it counts the chunks of S once more.
Counted(S) == [c \in Chunks |-> IF c \in S THEN credited[c] + 1 ELSE credited[c]]

Init ==
  /\ fresh = Chunks
  /\ owed = {}
  /\ forfeited = {}
  /\ credited = [c \in Chunks |-> 0]

\* A node carries a chunk: from here on it is owed.
Carry(c) ==
  /\ c \in fresh
  /\ fresh' = fresh \ {c}
  /\ owed' = owed \union {c}
  /\ UNCHANGED <<forfeited, credited>>

\* The manager counts chunks that were carried; they may stay owed.
Deliver(S) ==
  /\ S \intersect fresh = {}
  /\ credited' = Counted(S)
  /\ UNCHANGED <<fresh, owed, forfeited>>

\* The agent stops owing chunks the manager has counted.
Settle(S) ==
  /\ S \subseteq owed
  /\ \A c \in S : credited[c] > 0
  /\ owed' = owed \ S
  /\ UNCHANGED <<fresh, forfeited, credited>>

\* The manager counts owed chunks and the agent learns of it in the same step.
DeliverAndSettle(S) ==
  /\ S \subseteq owed
  /\ credited' = Counted(S)
  /\ owed' = owed \ S
  /\ UNCHANGED <<fresh, forfeited>>

\* The agent gives up chunks it owes.
Forfeit(S) ==
  /\ S \subseteq owed
  /\ owed' = owed \ S
  /\ forfeited' = forfeited \union S
  /\ UNCHANGED <<fresh, credited>>

Next ==
  \/ \E c \in Chunks : Carry(c)
  \/ \E S \in SUBSET Chunks :
       Deliver(S) \/ Settle(S) \/ DeliverAndSettle(S) \/ Forfeit(S)

Spec == Init /\ [][Next]_ledgerVars
=============================================================================
