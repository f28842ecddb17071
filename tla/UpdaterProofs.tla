---------------------------- MODULE UpdaterProofs ----------------------------
(***************************************************************************)
(* Proofs about Updater, for any versions, behaviours and bounds, as long as *)
(* the backup copy does not fail unnoticed (updater.sh:164).                 *)
(*                                                                           *)
(* The inductive invariant says, for each place of the script, which of the  *)
(* binaries began, target, prev and new the one in place is: a power loss    *)
(* sends any place back to "idle", where none of it is needed any more.      *)
(***************************************************************************)
EXTENDS Updater, TLAPS

\* The copy to agent.prev succeeds, or stops the run.
Copies == "copy" \notin Faults

\* Types, narrower than TypeOK where the copy succeeds.
Types ==
  /\ agent \in Versions /\ running \in Versions /\ began \in Versions
  /\ prev \in Versions \union {None, Torn} /\ new \in Versions \union {None, Torn, Wrong}
  /\ target \in Versions \union {None} /\ plan \in Versions \union {None}
  /\ pc \in Places /\ said \in States
  /\ faults \in 0 .. MaxFaults /\ losses \in 0 .. MaxLosses /\ plans \in 0 .. MaxPlans

\* Before the swap the run has changed nothing; it goes on only for a version
\* other than the one in place.
BeforeSwap ==
  /\ pc \in {"compare", "download", "gate", "backup", "swap"} => agent = began /\ target \in Versions
  /\ pc \in {"download", "gate", "backup", "swap"} => agent # target
  /\ pc \in {"backup", "swap"} => new = target
  /\ pc = "rescue" => agent = target

\* After it the new binary is in place and the old one is kept until the run
\* decides.
AfterSwap ==
  /\ pc \in {"restart", "verify", "ports", "journal", "accept", "announce", "rollback"} => agent = target
  /\ pc \in {"restart", "verify", "ports", "journal", "rollback"} => began # target
  /\ pc \in {"swap", "restart", "verify", "ports", "journal", "rollback"} => prev = began

\* After a rollback the old binary is in place again.
AfterRollback == pc \in {"restore", "conclude"} => agent = began /\ began # target

\* The service runs what is in place but between a rename and its restart, and
\* a run has not concluded before it ends.
InStep ==
  /\ pc \notin {"restart", "restore"} => running = agent
  /\ pc # "idle" => said \notin {"succeeded", "rolled_back"}

IInv == Types /\ BeforeSwap /\ AfterSwap /\ AfterRollback /\ InStep /\ OutcomeIsOnDisk

-----------------------------------------------------------------------------
\* The initial states satisfy the invariant.
LEMMA InitInv == Init => IInv
  BY UpdaterAssumption
  DEF Init, IInv, Types, BeforeSwap, AfterSwap, AfterRollback, InStep, OutcomeIsOnDisk,
      Places, States, None, Torn, Wrong

\* A step of the script preserves the invariant.
LEMMA ScriptInv == ASSUME Copies, IInv, Script PROVE IInv'
  <1> USE UpdaterAssumption
          DEF IInv, Types, BeforeSwap, AfterSwap, AfterRollback, InStep, OutcomeIsOnDisk,
              Places, States, None, Torn, Wrong, worldVars
  <1>1. CASE Tick BY <1>1 DEF Tick
  <1>2. CASE AlreadyThere BY <1>2 DEF AlreadyThere
  <1>3. CASE Rescue BY <1>3 DEF Rescue
  <1>4. CASE StartDownload BY <1>4 DEF StartDownload
  <1>5. CASE DownloadFails BY <1>5 DEF DownloadFails, Fault
  <1>6. CASE Download BY <1>6 DEF Download, Fault
  <1>7. CASE Gate BY <1>7 DEF Gate
  <1>8. CASE Backup
    <2>1. prev' = agent BY <1>8 DEF Backup, Fault, Copies
    <2> QED BY <1>8, <2>1 DEF Backup, Fault, Copies
  <1>9. CASE Swap BY <1>9 DEF Swap
  <1>10. CASE Restart BY <1>10 DEF Restart
  <1>11. CASE CheckProcess BY <1>11 DEF CheckProcess
  <1>12. CASE CheckPorts \/ CheckJournal BY <1>12 DEF CheckPorts, CheckJournal, Fault
  <1>13. CASE Accept BY <1>13 DEF Accept
  <1>14. CASE Announce BY <1>14 DEF Announce
  <1>15. CASE Rollback BY <1>15 DEF Rollback
  <1>16. CASE Restore BY <1>16 DEF Restore
  <1>17. CASE Conclude BY <1>17 DEF Conclude
  <1> QED BY <1>1, <1>2, <1>3, <1>4, <1>5, <1>6, <1>7, <1>8, <1>9, <1>10, <1>11, <1>12,
             <1>13, <1>14, <1>15, <1>16, <1>17 DEF Script

\* Every step preserves the invariant, power losses included.
LEMMA NextInv == ASSUME Copies, IInv, [Next]_vars PROVE IInv'
  <1>1. CASE Script BY <1>1, ScriptInv
  <1>2. CASE TickWithoutPlan
    BY <1>2, UpdaterAssumption
    DEF TickWithoutPlan, IInv, Types, BeforeSwap, AfterSwap, AfterRollback, InStep,
        OutcomeIsOnDisk, Places, States, None, Torn, Wrong, worldVars
  <1>3. CASE PowerLoss
    BY <1>3, UpdaterAssumption
    DEF PowerLoss, IInv, Types, BeforeSwap, AfterSwap, AfterRollback, InStep,
        OutcomeIsOnDisk, Places, States, None, Torn, Wrong
  <1>4. CASE Plan
    BY <1>4, UpdaterAssumption
    DEF Plan, IInv, Types, BeforeSwap, AfterSwap, AfterRollback, InStep, OutcomeIsOnDisk
  <1>5. CASE UNCHANGED vars
    BY <1>5 DEF vars, IInv, Types, BeforeSwap, AfterSwap, AfterRollback, InStep, OutcomeIsOnDisk
  <1> QED BY <1>1, <1>2, <1>3, <1>4, <1>5 DEF Next

\* The inductive invariant of the updater.
THEOREM Invariant == ASSUME Copies PROVE Spec => []IInv
  <1>1. Init => IInv BY InitInv
  <1>2. IInv /\ [Next]_vars => IInv' BY NextInv
  <1> QED BY <1>1, <1>2, PTL DEF Spec

\* Red line R1: for any power losses, plans and downloads the binary in place
\* is a whole one with a hash that was planned.
THEOREM AgentIsWholeThm == ASSUME Copies PROVE Spec => []AgentIsWhole
  <1>1. IInv => AgentIsWhole BY DEF IInv, Types, AgentIsWhole
  <1> QED BY <1>1, Invariant, PTL

\* What a run reports last is what it leaves on disk.
THEOREM OutcomeIsOnDiskThm == ASSUME Copies PROVE Spec => []OutcomeIsOnDisk
  <1>1. IInv => OutcomeIsOnDisk BY DEF IInv
  <1> QED BY <1>1, Invariant, PTL

\* Between two runs the agent that runs is the one in place.
THEOREM RunsWhatIsInPlaceThm == ASSUME Copies PROVE Spec => []RunsWhatIsInPlace
  <1>1. IInv => RunsWhatIsInPlace BY DEF IInv, InStep, RunsWhatIsInPlace
  <1> QED BY <1>1, Invariant, PTL

\* Type correctness.
THEOREM TypeCorrect == ASSUME Copies PROVE Spec => []TypeOK
  <1>1. IInv => TypeOK BY DEF IInv, Types, TypeOK
  <1> QED BY <1>1, Invariant, PTL
-----------------------------------------------------------------------------
\* The power does not fail between the swap of the binary and the verdict on it.
NoLossOnTrial == [][losses' # losses => ~OnTrial]_vars

\* No version whose heartbeats fail gets past the scan of the journal.
MuteIsHeard == [][pc = "journal" /\ pc' = "accept" => ~Mute(running)]_vars

\* The binary in place is one of G, but for one on trial, which was put in place
\* of one of G; one whose ports were up serves.
Tested(G) ==
  /\ ~OnTrial => agent \in G
  /\ OnTrial => began \in G
  /\ pc = "journal" => Serves(running)
  /\ said = "succeeded" => pc = "idle"

\* A power loss off trial leaves a tested binary in place, and a step of the
\* script ends a trial with one, if what passes all the checks is tested.
LEMMA TestedStep ==
  ASSUME NEW G, IInv, Tested(G), [Next]_vars,
         [losses' # losses => ~OnTrial]_vars,
         pc = "journal" /\ pc' = "accept" /\ Serves(running) => running \in G
  PROVE  Tested(G)'
  <1> USE DEF Tested, OnTrial, Serves, Works, Mute, worldVars, Places, States, None
  <1>1. /\ losses \in Nat /\ agent \in Versions /\ began \in Versions
        /\ pc \in Places /\ said \in States
    BY DEF IInv, Types
  <1>2. CASE Script
    <2>1. CASE Tick \/ StartDownload BY <2>1 DEF Tick, StartDownload, IInv, InStep
    <2>2. CASE DownloadFails \/ Download \/ Gate
      BY <2>2 DEF DownloadFails, Download, Gate, IInv, InStep
    <2>3. CASE Backup BY <2>3 DEF Backup, IInv, InStep
    <2>4. CASE Swap BY <2>4 DEF Swap, IInv, BeforeSwap
    <2>5. CASE Restart BY <2>5 DEF Restart
    <2>6. CASE CheckProcess \/ CheckPorts BY <2>6 DEF CheckProcess, CheckPorts, IInv, InStep
    <2>7. CASE CheckJournal BY <2>7 DEF CheckJournal, IInv, InStep
    <2>8. CASE Accept \/ Announce BY <2>8 DEF Accept, Announce, IInv, InStep
    <2>9. CASE Rollback
      <3>1. prev = began /\ prev # None
        BY <1>1, <2>9, UpdaterAssumption DEF Rollback, IInv, AfterSwap
      <3> QED BY <2>9, <3>1 DEF Rollback, IInv, InStep
    <2>10. CASE Restore \/ Conclude BY <2>10 DEF Restore, Conclude, IInv, InStep
    <2>11. CASE AlreadyThere \/ Rescue BY <2>11 DEF AlreadyThere, Rescue
    <2> QED BY <1>2, <2>1, <2>2, <2>3, <2>4, <2>5, <2>6, <2>7, <2>8, <2>9, <2>10, <2>11
            DEF Script
  <1>3. CASE TickWithoutPlan BY <1>3 DEF TickWithoutPlan
  <1>4. CASE PowerLoss
    <2>1. losses' # losses BY <1>1, <1>4 DEF PowerLoss
    <2>2. ~OnTrial BY <2>1 DEF vars
    <2> QED BY <1>4, <2>2 DEF PowerLoss
  <1>5. CASE Plan BY <1>5 DEF Plan
  <1>6. CASE UNCHANGED vars BY <1>6 DEF vars
  <1> QED BY <1>2, <1>3, <1>4, <1>5, <1>6 DEF Next

\* What the verification amounts to as it is (updater.sh 184-206): what is
\* reported as succeeded has had its data plane up, for any behaviours, plans
\* and faults, if no power loss falls between the swap and the verdict.
THEOREM SucceededMeansServing ==
  ASSUME Copies, Serves(First)
  PROVE  Spec /\ NoLossOnTrial => [](said = "succeeded" => Serves(running))
  <1> DEFINE G == {v \in Versions : Serves(v)}
  <1>1. Init => Tested(G)
    BY DEF Init, Tested, OnTrial, Serves, Works, Mute, None
  <1>2. IInv /\ Tested(G) /\ [Next]_vars
        /\ [losses' # losses => ~OnTrial]_vars => Tested(G)'
    <2>1. IInv => (Serves(running) => running \in G) BY DEF IInv, Types
    <2> HIDE DEF G
    <2> QED BY <2>1, TestedStep
  <1>3. IInv /\ Tested(G) => (said = "succeeded" => Serves(running))
    BY DEF IInv, InStep, Tested, OnTrial
  <1> HIDE DEF G
  <1> QED BY <1>1, <1>2, <1>3, Invariant, PTL DEF Spec, NoLossOnTrial

\* updater.sh, the comment on the verification: what is reported as succeeded
\* works, for any behaviours, plans, bad downloads and unlucky checks, if the
\* installed agent works, no power loss falls between the swap and the verdict,
\* and the scan of the journal does not come too early for a version whose
\* heartbeats fail.  Without the second or the third it does not hold.
THEOREM SucceededMeansWorkingThm ==
  ASSUME Copies, Works(First)
  PROVE  Spec /\ NoLossOnTrial /\ MuteIsHeard => []SucceededMeansWorking
  <1> DEFINE G == {v \in Versions : Works(v)}
  <1>1. Init => Tested(G)
    BY DEF Init, Tested, OnTrial, Serves, Works, Mute, None
  <1>2. IInv /\ Tested(G) /\ [Next]_vars
        /\ [losses' # losses => ~OnTrial]_vars
        /\ [pc = "journal" /\ pc' = "accept" => ~Mute(running)]_vars => Tested(G)'
    <2> SUFFICES ASSUME IInv, Tested(G), [Next]_vars, [losses' # losses => ~OnTrial]_vars,
                        [pc = "journal" /\ pc' = "accept" => ~Mute(running)]_vars
        PROVE  Tested(G)'
      OBVIOUS
    <2>1. pc = "journal" /\ pc' = "accept" /\ Serves(running) => running \in G
      BY DEF Serves, Works, vars
    <2> HIDE DEF G
    <2> QED BY <2>1, TestedStep
  <1>3. IInv /\ Tested(G) => SucceededMeansWorking
    BY DEF IInv, InStep, Tested, OnTrial, SucceededMeansWorking
  <1> HIDE DEF G
  <1> QED BY <1>1, <1>2, <1>3, Invariant, PTL DEF Spec, NoLossOnTrial, MuteIsHeard
-----------------------------------------------------------------------------
\* The journal is scanned of a version whose ports were up.
PortsWereUp == pc = "journal" => Serves(running)

LEMMA PortsWereUpStep == ASSUME IInv, PortsWereUp, [Next]_vars PROVE PortsWereUp'
  <1> USE DEF PortsWereUp, worldVars
  <1>1. CASE CheckPorts BY <1>1 DEF CheckPorts, Serves, Works, Mute
  <1>2. CASE UNCHANGED vars BY <1>2 DEF vars, Serves, Works, Mute
  <1>3. CASE Next /\ ~CheckPorts /\ pc' = "journal"
    <2>1. CASE Script
      BY <1>3, <2>1 DEF Script, Tick, AlreadyThere, Rescue, StartDownload, DownloadFails, Download,
         Gate, Backup, Swap, Restart, CheckProcess, CheckJournal, Accept, Announce, Rollback,
         Restore, Conclude
    <2>2. CASE TickWithoutPlan \/ Plan
      BY <2>2 DEF TickWithoutPlan, Plan, Serves, Works, Mute
    <2>3. CASE PowerLoss BY <1>3, <2>3 DEF PowerLoss
    <2> QED BY <1>3, <2>1, <2>2, <2>3 DEF Next
  <1> QED BY <1>1, <1>2, <1>3

\* The initial state is one of the abstract upgrade.
LEMMA UpgradeInit == Init => Upgrade!Init
  BY DEF Init, OnTrial, Upgrade!Init

\* The swap puts a version on trial, a journal without failures ends it for one
\* whose ports were up, the rollback reverts it, a power loss interrupts; no
\* other step is seen.
LEMMA UpgradeStep ==
  ASSUME Copies, IInv, PortsWereUp, [Next]_vars
  PROVE  [Upgrade!Next]_(Upgrade!upgradeVars)
  <1> USE DEF OnTrial, Upgrade!upgradeVars, worldVars
  <1>1. agent \in Versions /\ began \in Versions /\ None \notin Versions /\ pc \in Places
    BY UpdaterAssumption DEF IInv, Types
  <1>2. CASE Swap
    <2>1. target \in Versions /\ agent = began /\ agent # target /\ new = target
      BY <1>2 DEF Swap, IInv, BeforeSwap
    <2>2. Upgrade!Try(target) BY <1>2, <2>1 DEF Swap, Upgrade!Try
    <2> QED BY <2>1, <2>2 DEF Upgrade!Next
  <1>3. CASE CheckJournal
    <2>1. running = agent /\ Serves(running)
      BY <1>3 DEF CheckJournal, PortsWereUp, IInv, InStep
    <2>2. agent \in {v \in Versions : Serves(v)} BY <1>1, <2>1
    <2>3. /\ pc = "journal" /\ pc' \in {"accept", "rollback"}
          /\ agent' = agent /\ began' = began /\ losses' = losses
      BY <1>3 DEF CheckJournal
    <2>4. CASE pc' = "accept"
      <3>1. Upgrade!Keep BY <1>1, <2>2, <2>3, <2>4 DEF Upgrade!Keep
      <3> QED BY <3>1 DEF Upgrade!Next
    <2>5. CASE pc' = "rollback" BY <2>3, <2>5
    <2> QED BY <2>3, <2>4, <2>5
  <1>4. CASE Rollback
    <2>1. prev = began BY <1>4 DEF Rollback, IInv, AfterSwap
    <2>2. Upgrade!Revert BY <1>1, <1>4, <2>1 DEF Rollback, Upgrade!Revert
    <2> QED BY <2>2 DEF Upgrade!Next
  <1>5. CASE PowerLoss
    <2>1. Upgrade!Interrupt BY <1>5 DEF PowerLoss, Upgrade!Interrupt
    <2> QED BY <2>1 DEF Upgrade!Next
  <1>6. CASE Restart \/ CheckProcess \/ CheckPorts
    BY <1>6 DEF Restart, CheckProcess, CheckPorts
  <1>7. CASE Tick \/ AlreadyThere \/ Rescue \/ StartDownload \/ TickWithoutPlan
    BY <1>7 DEF Tick, AlreadyThere, Rescue, StartDownload, TickWithoutPlan
  <1>8. CASE DownloadFails \/ Download \/ Gate \/ Backup
    BY <1>8 DEF DownloadFails, Download, Gate, Backup
  <1>9. CASE Accept \/ Announce \/ Restore \/ Conclude
    BY <1>9 DEF Accept, Announce, Restore, Conclude
  <1>10. CASE Plan \/ UNCHANGED vars
    BY <1>10 DEF Plan, vars
  <1> QED BY <1>2, <1>3, <1>4, <1>5, <1>6, <1>7, <1>8, <1>9, <1>10 DEF Next, Script

\* updater.sh implements the abstract upgrade: a version stays in place after
\* its trial only if its data plane was up, and the very one before it comes
\* back otherwise, unless a power loss ends the trial.
THEOREM UpgradeRefinement == ASSUME Copies PROVE Spec => RefinesSafeUpgrade
  <1>1. Copies /\ IInv /\ PortsWereUp /\ [Next]_vars => [Upgrade!Next]_(Upgrade!upgradeVars)
    BY UpgradeStep
  <1>2. IInv /\ PortsWereUp /\ [Next]_vars => PortsWereUp' BY PortsWereUpStep
  <1>3. Init => PortsWereUp BY DEF Init, PortsWereUp
  <1> QED BY <1>1, <1>2, <1>3, UpgradeInit, Invariant, PTL
          DEF Spec, RefinesSafeUpgrade, Upgrade!Spec
=============================================================================
