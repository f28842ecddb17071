---------------------------- MODULE BillingProofs ----------------------------
(***************************************************************************)
(* Proofs about Billing, for every set of users and chunks and all bounds.   *)
(***************************************************************************)
EXTENDS Billing, TLAPS

\* What the handler holds depends on where it stands: the window is in hand
\* only between the collection and the hand-over, and an acknowledged file is
\* one the manager has counted.
HandsMatchPlace ==
  /\ pc \notin {"send", "spool", "restore"} => window = {}
  /\ pc # "remove" => sent = {}
  /\ \A c \in sent : credited[c] > 0

\* Nothing was ever sent of a chunk that was not carried.
FreshNeverSent == \A c \in fresh : repeats[c] = 0

\* The inductive invariant.
IInv ==
  /\ TypeOK
  /\ NothingVanishes
  /\ OneCopy
  /\ ExactUpToLostAcks
  /\ HandsMatchPlace
  /\ FreshNeverSent

USE DEF Places, Handlers, worldVars, codeVars

\* The initial state is well typed.
LEMMA InitInv == Init => IInv
<1> SUFFICES ASSUME Init PROVE IInv
  OBVIOUS
<1> USE DEF Init
<1>1. TypeOK
  <2>1. up \in BOOLEAN /\ torn \in BOOLEAN
    OBVIOUS
  <2>2. crashes \in 0 .. MaxCrashes
    BY BoundAssumption
  <2>3. spool \in SUBSET SUBSET Chunks
    OBVIOUS
  <2>4. QED
    BY <2>1, <2>2, <2>3 DEF TypeOK
<1>2. Owed = {}
  BY DEF Owed, Spooled
<1>3. NothingVanishes /\ ExactUpToLostAcks /\ FreshNeverSent
  BY <1>2 DEF NothingVanishes, ExactUpToLostAcks, FreshNeverSent
<1>4. OneCopy /\ HandsMatchPlace
  BY <1>2 DEF OneCopy, HandsMatchPlace, Spooled
<1>5. QED
  BY <1>1, <1>3, <1>4 DEF IInv

\* Every step preserves the invariant.
LEMMA NextInv == IInv /\ [Next]_vars => IInv'
<1> SUFFICES ASSUME IInv, [Next]_vars PROVE IInv'
  OBVIOUS
<1> USE BoundAssumption DEF IInv, TypeOK, NothingVanishes, OneCopy, ExactUpToLostAcks, HandsMatchPlace, FreshNeverSent, Owed, Spooled, Bump, MayRepeat
<1>1. CASE Boot BY <1>1 DEF Boot
<1>2. ASSUME NEW c \in Chunks, Carry(c) PROVE IInv' BY <1>2 DEF Carry
<1>3. ASSUME NEW c \in Chunks, LateDelivery(c) PROVE IInv' BY <1>3 DEF LateDelivery
<1>4. ASSUME NEW handler \in Handlers, Collect(handler) PROVE IInv' BY <1>4 DEF Collect
<1>5. CASE ReportAcked BY <1>5 DEF ReportAcked
<1>6. CASE ReportRefused BY <1>6 DEF ReportRefused
<1>7. CASE ReportTimesOut BY <1>7 DEF ReportTimesOut
<1>8. CASE Spool BY <1>8 DEF Spool
<1>9. CASE SpoolFails BY <1>9 DEF SpoolFails
<1>10. CASE Restore BY <1>10 DEF Restore
<1>11. ASSUME NEW file \in spool, FlushAcked(file) PROVE IInv' BY <1>11 DEF FlushAcked
<1>12. ASSUME NEW file \in spool, FlushTimesOut(file) PROVE IInv' BY <1>12 DEF FlushTimesOut
<1>13. CASE FlushRemoves BY <1>13 DEF FlushRemoves
<1>14. CASE FlushRefused BY <1>14 DEF FlushRefused
<1>15. CASE FlushDropsTorn BY <1>15 DEF FlushDropsTorn
<1>16. CASE FlushEnds BY <1>16 DEF FlushEnds
<1>17. CASE TickEnds BY <1>17 DEF TickEnds
<1>18. CASE RebuildAfterCollect BY <1>18 DEF RebuildAfterCollect, ReplaceRegistry
<1>19. CASE RebuildWithoutNodes BY <1>19 DEF RebuildWithoutNodes, ReplaceRegistry
<1>20. CASE RebuildRefused BY <1>20 DEF RebuildRefused
<1>21. ASSUME NEW removed \in SUBSET Users, EvictRemovedUsers(removed) PROVE IInv' BY <1>21 DEF EvictRemovedUsers
<1>22. CASE RealmRemoved
  <2>1. PICK dropped \in {{}, registry} :
          registry' = registry \ dropped /\ lost' = lost \union dropped
    BY <1>22 DEF RealmRemoved
  <2>2. dropped \subseteq registry
    BY <2>1
  <2>3. /\ up' = FALSE /\ pc = "idle"
        /\ UNCHANGED <<window, spool, torn, sent, pc, after, crashes,
                       credited, late, repeats, fresh>>
    BY <1>22 DEF RealmRemoved
  <2>4. QED
    BY <2>1, <2>2, <2>3
<1>23. CASE Stop BY <1>23 DEF Stop, ProcessEnds
<1>24. CASE Crash
  <2> USE <1>24 DEF Crash, ProcessEnds
  <2>1. TypeOK'
    <3>1. torn' \in BOOLEAN
      OBVIOUS
    <3>2. crashes' \in 0 .. MaxCrashes
      OBVIOUS
    <3>3. repeats' \in [Chunks -> Nat] /\ lost' \in SUBSET Chunks
      OBVIOUS
    <3>4. QED BY <3>1, <3>2, <3>3
  <2>2. NothingVanishes' /\ OneCopy' /\ HandsMatchPlace'
    OBVIOUS
  <2>3. ASSUME NEW c \in Chunks
        PROVE  credited'[c] + late'[c] =
                 IF c \in fresh' \union lost' \union (Owed' \ sent') THEN repeats'[c] ELSE repeats'[c] + 1
    <3>1. CASE c \in sent
      BY <2>1, <3>1
    <3>2. CASE c \notin sent
      BY <2>1, <3>2
    <3>3. QED BY <3>1, <3>2
  <2>4. QED BY <2>1, <2>2, <2>3
<1>25. CASE UNCHANGED vars BY <1>25 DEF vars
<1>26. CASE FlushFailsToRemove
  <2> USE <1>26 DEF FlushFailsToRemove
  <2>1. TypeOK' /\ NothingVanishes' /\ OneCopy' /\ HandsMatchPlace'
    OBVIOUS
  <2>2. \A c \in sent : c \notin fresh \union lost /\ c \in Owed
    OBVIOUS
  <2>3. ASSUME NEW c \in Chunks
        PROVE  credited'[c] + late'[c] =
                 IF c \in fresh' \union lost' \union (Owed' \ sent') THEN repeats'[c] ELSE repeats'[c] + 1
    <3>1. CASE c \in sent
      BY <2>1, <2>2, <3>1
    <3>2. CASE c \notin sent
      BY <2>1, <3>2
    <3>3. QED BY <3>1, <3>2
  <2>4. FreshNeverSent'
    BY <2>2
  <2>5. QED BY <2>1, <2>3, <2>4
<1>27. QED BY <1>1, <1>2, <1>3, <1>4, <1>5, <1>6, <1>7, <1>8, <1>9, <1>10, <1>11, <1>12, <1>13, <1>14, <1>15, <1>16, <1>17, <1>18, <1>19, <1>20, <1>21, <1>22, <1>23, <1>24, <1>25, <1>26 DEF Next

\* The invariant holds in every reachable state.
THEOREM Invariant == Spec => []IInv
BY InitInv, NextInv, PTL DEF Spec

\* Every variable keeps its type.
THEOREM TypeCorrect == Spec => []TypeOK
BY Invariant, PTL DEF IInv

\* reporter.go, Report and FlushCache: no carried byte disappears silently.
THEOREM NothingVanishesThm == Spec => []NothingVanishes
BY Invariant, PTL DEF IInv

\* main.go, collectAndReportBilling: a byte is held in one place only, so what
\* was spooled is never restored as well and no retry bills it twice.
THEOREM OneCopyThm == Spec => []OneCopy
BY Invariant, PTL DEF IInv

\* The manager counts a byte once, plus once for every delivery of it whose
\* acknowledgement was lost.
THEOREM ExactUpToLostAcksThm == Spec => []ExactUpToLostAcks
BY Invariant, PTL DEF IInv
-----------------------------------------------------------------------------
\* A step loses only bytes that were still in the counters, unless the process
\* ends with it.
LEMMA StepLoses ==
  ASSUME IInv, [Next]_vars, NEW c \in lost' \ lost
  PROVE  c \in registry \/ pc' = "off"
<1> USE DEF IInv, TypeOK
<1>1. CASE UNCHANGED vars
  BY <1>1 DEF vars
<1>2. CASE RebuildAfterCollect \/ RebuildWithoutNodes
  BY <1>2 DEF RebuildAfterCollect, RebuildWithoutNodes, ReplaceRegistry
<1>3. CASE \E removed \in SUBSET Users : EvictRemovedUsers(removed)
  BY <1>3 DEF EvictRemovedUsers
<1>4. CASE RealmRemoved
  BY <1>4 DEF RealmRemoved
<1>5. CASE Stop \/ Crash
  BY <1>5 DEF Stop, Crash, ProcessEnds
<1>6. QED
  BY <1>1, <1>2, <1>3, <1>4, <1>5
     DEF Next, Boot, Carry, LateDelivery, Collect, ReportAcked, ReportRefused,
         ReportTimesOut, Spool, SpoolFails, Restore, FlushAcked, FlushTimesOut,
         FlushRemoves, FlushFailsToRemove, FlushRefused, FlushDropsTorn, FlushEnds, TickEnds, RebuildRefused

\* main.go: what collectAndReportBilling took from the meter is not lost while
\* the process lives, only what nodes counted after the collection.
THEOREM OnlyUncollectedBytesAreLostThm == Spec => OnlyUncollectedBytesAreLost
<1>1. IInv /\ [Next]_vars => [\A c \in lost' \ lost : c \in registry \/ pc' = "off"]_vars
  BY StepLoses
<1>2. QED
  BY <1>1, Invariant, PTL DEF Spec, OnlyUncollectedBytesAreLost

\* A step takes from the spool only the file the manager has just counted.
LEMMA StepKeepsSpool ==
  ASSUME IInv, [Next]_vars, NEW c \in Spooled
  PROVE  c \in Spooled' \/ credited'[c] > 0
<1> USE DEF IInv, TypeOK, HandsMatchPlace, Spooled
<1>1. CASE UNCHANGED vars
  BY <1>1 DEF vars
<1>2. CASE Spool
  BY <1>2 DEF Spool
<1>3. CASE FlushRemoves
  BY <1>3 DEF FlushRemoves
<1>4. CASE Stop \/ Crash
  BY <1>4 DEF Stop, Crash, ProcessEnds
<1>5. CASE RebuildAfterCollect \/ RebuildWithoutNodes
  BY <1>5 DEF RebuildAfterCollect, RebuildWithoutNodes, ReplaceRegistry
<1>6. QED
  BY <1>1, <1>2, <1>3, <1>4, <1>5
     DEF Next, Boot, Carry, LateDelivery, Collect, ReportAcked, ReportRefused,
         ReportTimesOut, SpoolFails, Restore, FlushAcked, FlushTimesOut,
         FlushFailsToRemove, FlushRefused, FlushDropsTorn, FlushEnds, TickEnds, RebuildRefused,
         EvictRemovedUsers, RealmRemoved

\* reporter.go, saveToCache and FlushCache: a spooled byte stays on disk until
\* the manager has counted it.
THEOREM SpooledSurvivesThm == Spec => SpooledSurvives
<1>1. IInv /\ [Next]_vars => [\A c \in Spooled : c \in Spooled' \/ credited'[c] > 0]_vars
  BY StepKeepsSpool
<1>2. QED
  BY <1>1, Invariant, PTL DEF Spec, SpooledSurvives
-----------------------------------------------------------------------------
\* The initial state is an initial state of the ledger.
LEMMA LedgerInit == Init => Ledger!Init
BY DEF Init, Ledger!Init, Owed, Spooled

\* Every step is a step of the ledger or leaves the ledger as it is.
LEMMA LedgerStep == IInv /\ IInv' /\ [Next]_vars => [Ledger!Next]_(Ledger!ledgerVars)
<1> SUFFICES ASSUME IInv, IInv', [Next]_vars
             PROVE  Ledger!Next \/ UNCHANGED Ledger!ledgerVars
  OBVIOUS
<1> USE DEF IInv, TypeOK, Owed, Spooled, Bump, Ledger!Counted, Ledger!ledgerVars
<1>1. ASSUME NEW c \in Chunks, Carry(c) PROVE Ledger!Next
  <2>1. Ledger!Carry(c)
    BY <1>1 DEF Carry, Ledger!Carry
  <2>2. QED
    BY <2>1 DEF Ledger!Next
<1>2. ASSUME NEW c \in Chunks, LateDelivery(c) PROVE Ledger!Next
  <2>1. c \notin fresh
    BY <1>2 DEF LateDelivery, ExactUpToLostAcks, FreshNeverSent
  <2>2. Ledger!Deliver({c})
    BY <1>2, <2>1 DEF LateDelivery, Ledger!Deliver
  <2>3. QED
    BY <2>2 DEF Ledger!Next
<1>3. CASE ReportAcked
  <2>1. Owed' = Owed \ window
    BY <1>3 DEF ReportAcked, OneCopy
  <2>2. Ledger!DeliverAndSettle(window)
    BY <1>3, <2>1 DEF ReportAcked, Ledger!DeliverAndSettle
  <2>3. QED
    BY <2>2 DEF Ledger!Next
<1>4. ASSUME NEW file \in spool, FlushAcked(file) PROVE Ledger!Next
  <2>1. Ledger!Deliver(file)
    BY <1>4 DEF FlushAcked, Ledger!Deliver, OneCopy
  <2>2. file \in SUBSET Chunks
    BY <1>4
  <2>3. QED
    BY <2>1, <2>2 DEF Ledger!Next
<1>5. CASE FlushRemoves
  <2>1. Owed' = Owed \ sent
    BY <1>5 DEF FlushRemoves, OneCopy, HandsMatchPlace
  <2>2. sent \subseteq Owed
    BY <1>5 DEF FlushRemoves, HandsMatchPlace
  <2>3. Ledger!Settle(sent)
    BY <1>5, <2>1, <2>2 DEF FlushRemoves, HandsMatchPlace, Ledger!Settle
  <2>4. QED
    BY <2>3 DEF Ledger!Next
<1>6. CASE RebuildAfterCollect \/ RebuildWithoutNodes
  <2>1. Owed' = Owed \ registry
    BY <1>6 DEF RebuildAfterCollect, RebuildWithoutNodes, ReplaceRegistry, OneCopy
  <2>2. Ledger!Forfeit(registry)
    BY <1>6, <2>1 DEF RebuildAfterCollect, RebuildWithoutNodes, ReplaceRegistry, Ledger!Forfeit
  <2>3. QED
    BY <2>2 DEF Ledger!Next
<1>7. ASSUME NEW removed \in SUBSET Users, EvictRemovedUsers(removed)
      PROVE  Ledger!Next
  <2> DEFINE evicted == {c \in registry : Owner[c] \in removed}
  <2>1. Owed' = Owed \ evicted
    BY <1>7 DEF EvictRemovedUsers, OneCopy
  <2>2. Ledger!Forfeit(evicted)
    BY <1>7, <2>1 DEF EvictRemovedUsers, Ledger!Forfeit
  <2>3. QED
    BY <2>2 DEF Ledger!Next
<1>8. CASE RealmRemoved
  <2>1. PICK dropped \in {{}, registry} :
          registry' = registry \ dropped /\ lost' = lost \union dropped
    BY <1>8 DEF RealmRemoved
  <2>2. Owed' = Owed \ dropped
    BY <1>8, <2>1 DEF RealmRemoved, OneCopy
  <2>3. Ledger!Forfeit(dropped)
    BY <1>8, <2>1, <2>2 DEF RealmRemoved, Ledger!Forfeit
  <2>4. QED
    BY <2>1, <2>3 DEF Ledger!Next
<1>9. CASE Stop \/ Crash
  <2> DEFINE memory == registry \union window
  <2>1. Owed' = Owed \ memory
    BY <1>9 DEF Stop, Crash, ProcessEnds, OneCopy
  <2>2. Ledger!Forfeit(memory)
    BY <1>9, <2>1 DEF Stop, Crash, ProcessEnds, Ledger!Forfeit
  <2>3. QED
    BY <2>2 DEF Ledger!Next
<1>10. ASSUME Owed' = Owed, UNCHANGED <<fresh, lost, credited>>
       PROVE  UNCHANGED Ledger!ledgerVars
  BY <1>10
<1>11. CASE \/ Boot \/ ReportRefused \/ ReportTimesOut \/ Spool \/ SpoolFails \/ Restore
            \/ \E handler \in Handlers : Collect(handler)
  <2>1. Owed' = Owed
    <3>1. CASE Spool
      BY <3>1 DEF Spool
    <3>2. CASE Restore
      BY <3>2 DEF Restore
    <3>3. CASE \E handler \in Handlers : Collect(handler)
      BY <3>3 DEF Collect, HandsMatchPlace
    <3>4. QED
      BY <1>11, <3>1, <3>2, <3>3 DEF Boot, ReportRefused, ReportTimesOut, SpoolFails
  <2>2. QED
    BY <1>10, <1>11, <2>1
       DEF Boot, ReportRefused, ReportTimesOut, Spool, SpoolFails, Restore, Collect
<1>12. CASE \/ FlushFailsToRemove
            \/ FlushRefused \/ FlushDropsTorn \/ FlushEnds \/ TickEnds \/ RebuildRefused
            \/ \E file \in spool : FlushTimesOut(file)
            \/ UNCHANGED vars
  BY <1>10, <1>12
     DEF FlushFailsToRemove, FlushRefused, FlushDropsTorn, FlushEnds, TickEnds, RebuildRefused,
         FlushTimesOut, vars
<1>13. QED
  BY <1>1, <1>2, <1>3, <1>4, <1>5, <1>6, <1>7, <1>8, <1>9, <1>11, <1>12 DEF Next

\* The billing path implements the abstract ledger: a byte stops being owed
\* only when the manager counted it or the agent knowingly gave it up, and it
\* is never owed again.
THEOREM Refinement == Spec => RefinesLedger
<1>1. Init => Ledger!Init
  BY LedgerInit
<1>2. IInv /\ IInv' /\ [Next]_vars => [Ledger!Next]_(Ledger!ledgerVars)
  BY LedgerStep
<1>3. QED
  BY <1>1, <1>2, Invariant, PTL DEF Spec, RefinesLedger, Ledger!Spec
-----------------------------------------------------------------------------
\* The manager does not take the realm block away.
RealmStays == [][~RealmRemoved]_vars

\* The nodes do not go down and leave counts behind, as they may when no node
\* survives a failed update of the users.
NoCountsLeftBehind == [][up /\ ~up' => registry' = {}]_vars

\* With no node up, nothing is in the meter or on its way back to it; and no
\* node is up without the process.
MeterIsOfNodes ==
  /\ ~up => registry = {} /\ window = {}
  /\ pc = "off" => ~up

\* A node is up where something is added to the meter, and a step that takes
\* the last one down leaves the meter and the handler's hands empty.
LEMMA MeterStep ==
  ASSUME IInv, MeterIsOfNodes, [Next]_vars, [up /\ ~up' => registry' = {}]_vars
  PROVE  MeterIsOfNodes'
<1> USE DEF IInv, TypeOK, HandsMatchPlace, MeterIsOfNodes
<1>1. CASE UNCHANGED vars
  BY <1>1 DEF vars
<1>2. CASE Boot
  BY <1>2 DEF Boot
<1>3. CASE Restore
  BY <1>3 DEF Restore
<1>4. CASE \E handler \in Handlers : Collect(handler)
  BY <1>4 DEF Collect
<1>5. CASE RebuildAfterCollect \/ RebuildWithoutNodes
  BY <1>5 DEF RebuildAfterCollect, RebuildWithoutNodes, ReplaceRegistry
<1>6. CASE \E removed \in SUBSET Users : EvictRemovedUsers(removed)
  <2>1. up /\ ~up' => registry' = {}
    BY <1>1, <1>6
  <2>2. /\ pc = "finish" /\ pc' = "idle" /\ up' \in {up, FALSE}
        /\ window' = window /\ registry' \subseteq registry
    BY <1>6 DEF EvictRemovedUsers
  <2>3. QED
    BY <2>1, <2>2
<1>7. CASE RealmRemoved
  <2>1. up /\ ~up' => registry' = {}
    BY <1>1, <1>7
  <2>2. pc = "idle" /\ pc' = pc /\ up /\ up' = FALSE /\ window' = window
    BY <1>7 DEF RealmRemoved
  <2>3. QED
    BY <2>1, <2>2
<1>8. CASE Stop \/ Crash
  BY <1>8 DEF Stop, Crash, ProcessEnds
<1>9. CASE ReportAcked \/ ReportRefused \/ ReportTimesOut \/ Spool \/ SpoolFails
  BY <1>9 DEF ReportAcked, ReportRefused, ReportTimesOut, Spool, SpoolFails
<1>10. CASE \/ \E file \in spool : FlushAcked(file) \/ FlushTimesOut(file)
            \/ FlushRemoves \/ FlushFailsToRemove \/ FlushRefused \/ FlushDropsTorn
            \/ FlushEnds \/ TickEnds \/ RebuildRefused
  BY <1>10 DEF FlushAcked, FlushTimesOut, FlushRemoves, FlushFailsToRemove,
               FlushRefused, FlushDropsTorn, FlushEnds, TickEnds, RebuildRefused
<1>11. CASE \E c \in Chunks : Carry(c) \/ LateDelivery(c)
  BY <1>11 DEF Carry, LateDelivery
<1>12. QED
  BY <1>1, <1>2, <1>3, <1>4, <1>5, <1>6, <1>7, <1>8, <1>9, <1>10, <1>11 DEF Next

\* What is lost with no collection before is lost by the removal of the realm.
LEMMA ClosingStep ==
  ASSUME IInv, MeterIsOfNodes, [Next]_vars, [~RealmRemoved]_vars, lost' # lost
  PROVE  pc = "finish" \/ pc' = "off"
<1> USE DEF IInv, TypeOK, MeterIsOfNodes
<1>1. ~RealmRemoved
  BY DEF vars
<1>2. CASE RebuildWithoutNodes
  BY <1>2 DEF RebuildWithoutNodes, ReplaceRegistry
<1>3. CASE RebuildAfterCollect
  BY <1>3 DEF RebuildAfterCollect
<1>4. CASE \E removed \in SUBSET Users : EvictRemovedUsers(removed)
  BY <1>4 DEF EvictRemovedUsers
<1>5. CASE Stop \/ Crash
  BY <1>5 DEF Stop, Crash, ProcessEnds
<1>6. QED
  BY <1>1, <1>2, <1>3, <1>4, <1>5
     DEF Next, vars, Boot, Carry, LateDelivery, Collect, ReportAcked, ReportRefused,
         ReportTimesOut, Spool, SpoolFails, Restore, FlushAcked, FlushTimesOut, FlushRemoves,
         FlushFailsToRemove, FlushRefused, FlushDropsTorn, FlushEnds, TickEnds, RebuildRefused

\* main.go, the comment in applyRebuild that what was counted is collected
\* before nodes are closed: it is, but for the removal of the realm block and
\* for counts left behind by an update of the users that no node survived,
\* which the next rebuild discards because no node runs.
THEOREM CollectedBeforeClosingThm ==
  Spec /\ RealmStays /\ NoCountsLeftBehind => CollectedBeforeClosing
<1>1. Init => MeterIsOfNodes
  BY DEF Init, MeterIsOfNodes
<1>2. IInv /\ MeterIsOfNodes /\ [Next]_vars /\ [up /\ ~up' => registry' = {}]_vars
      => MeterIsOfNodes'
  BY MeterStep
<1>3. IInv /\ MeterIsOfNodes /\ [Next]_vars /\ [~RealmRemoved]_vars
      => [lost' # lost => pc = "finish" \/ pc' = "off"]_vars
  BY ClosingStep
<1>4. QED
  BY <1>1, <1>2, <1>3, Invariant, PTL
     DEF Spec, RealmStays, NoCountsLeftBehind, CollectedBeforeClosing
=============================================================================
