----------------------------- MODULE RelayProofs -----------------------------
(***************************************************************************)
(* Theorems about Relay: type correctness, and that a relay which carries    *)
(* sessions is restarted for a change only, for any binaries, ports, faults  *)
(* and bounds.                                                               *)
(***************************************************************************)
EXTENDS Relay, TLAPS

\* A reconciliation has replaced something and not restarted the service yet.
Pending == pc \in {"unit", "act"} /\ changed

\* The first steps of a reconciliation have changed nothing.
ChangesComeLater == pc \in {"stop", "binary"} => ~changed

\* Unless some change was cut short, systemd knows the unit on disk, but for
\* one a reconciliation has just written, and what runs is what is on disk.
UnitIsLoaded == ~cut /\ ~(pc = "act" /\ changed) => loaded = unit
RunsWhatIsOnDisk == ~cut /\ service # "inactive" /\ ~Pending => proc = OnDisk

\* A reconciliation that found the service up knows by `changed` whether the
\* disk still holds what ran when it began.
ChangedTellsTheDifference ==
  ~cut /\ service # "inactive" =>
    /\ pc # "idle" /\ ~changed => was = OnDisk
    /\ pc = "unit" /\ changed => was.bin # bin
    /\ pc = "act" /\ changed => was # OnDisk

IInv ==
  /\ TypeOK
  /\ ChangesComeLater
  /\ UnitIsLoaded
  /\ RunsWhatIsOnDisk
  /\ ChangedTellsTheDifference
  /\ OnlyChangesDisturb

\* TypeOK, the flags apart.
Flags ==
  /\ enabled \in BOOLEAN /\ cut \in BOOLEAN /\ changed \in BOOLEAN /\ disturbed \in BOOLEAN
Shapes ==
  /\ bin \in Bins \union {None} /\ unit \in Ports \union {None, Hand, Torn}
  /\ loaded \in Ports \union {None, Hand, Torn} /\ service \in {"inactive", "activating", "active"}
  /\ {proc, was} \subseteq [bin : Bins \union {None}, unit : Ports \union {None, Hand, Torn}]
  /\ pc \in {"idle", "stop", "binary", "unit", "act"}
  /\ job \in Directives \union {NoWish} /\ wish \in Directives \union {NoWish}
  /\ faults \in 0 .. MaxFaults /\ wishes \in 0 .. MaxWishes

\* The flags stay truth values.
LEMMA NextFlags == ASSUME Flags, [Next]_vars PROVE Flags'
<1> USE DEF Flags, diskVars, systemdVars
<1>1. CASE Apply BY Zenon, <1>1 DEF Apply
<1>2. CASE EnsureStopped BY Zenon, <1>2 DEF EnsureStopped
<1>3. CASE EnsureBinary BY Zenon, <1>3 DEF EnsureBinary, Directives, NoWish
<1>4. CASE EnsureUnit BY Zenon, <1>4 DEF EnsureUnit, Directives, NoWish
<1>5. CASE RestartChanged BY Zenon, <1>5 DEF RestartChanged, Launch
<1>6. CASE StartIfDown BY Zenon, <1>6 DEF StartIfDown, Launch, ToLoad
<1>7. CASE RelayDies BY Zenon, <1>7 DEF RelayDies
<1>8. CASE RelayReturns BY Zenon, <1>8 DEF RelayReturns, Launch
<1>9. CASE AgentDies BY Zenon, <1>9 DEF AgentDies
<1>10. CASE Reboot BY Zenon, <1>10 DEF Reboot, Launch
<1>11. CASE Wish BY Zenon, <1>11 DEF Wish
<1>12. CASE UNCHANGED vars BY Zenon, <1>12 DEF vars
<1> QED
  BY <1>1, <1>2, <1>3, <1>4, <1>5, <1>6, <1>7, <1>8, <1>9, <1>10, <1>11, <1>12 DEF Next, Agent

\* The other variables keep their types.
LEMMA NextShapes == ASSUME Shapes, [Next]_vars PROVE Shapes'
<1> USE RelayAssumption DEF Shapes, Fault, Calm, diskVars, systemdVars, OnDisk
<1>1. CASE Apply BY <1>1 DEF Apply
<1>2. CASE EnsureStopped BY <1>2 DEF EnsureStopped
<1>3. CASE EnsureBinary BY <1>3 DEF EnsureBinary, Directives, NoWish
<1>4. CASE EnsureUnit BY <1>4 DEF EnsureUnit, Directives, NoWish
<1>5. CASE RestartChanged BY <1>5 DEF RestartChanged, Launch
<1>6. CASE StartIfDown BY <1>6 DEF StartIfDown, Launch, ToLoad
<1>7. CASE RelayDies BY <1>7 DEF RelayDies
<1>8. CASE RelayReturns BY <1>8 DEF RelayReturns, Launch
<1>9. CASE AgentDies BY <1>9 DEF AgentDies
<1>10. CASE Reboot BY <1>10 DEF Reboot, Launch
<1>11. CASE Wish BY <1>11 DEF Wish
<1>12. CASE UNCHANGED vars BY <1>12 DEF vars
<1> QED
  BY <1>1, <1>2, <1>3, <1>4, <1>5, <1>6, <1>7, <1>8, <1>9, <1>10, <1>11, <1>12 DEF Next, Agent

LEMMA NextType == ASSUME TypeOK, [Next]_vars PROVE TypeOK'
<1>1. Flags' BY NextFlags DEF TypeOK, Flags
<1>2. Shapes' BY NextShapes DEF TypeOK, Shapes
<1> QED BY Zenon, <1>1, <1>2 DEF TypeOK, Flags, Shapes

\* The initial states satisfy the invariant.
LEMMA InitInv == Init => IInv
<1> SUFFICES ASSUME Init PROVE IInv OBVIOUS
<1>1. Flags BY Zenon DEF Init, Flags
<1>2. Shapes BY RelayAssumption DEF Init, Shapes, Off, OnDisk
<1>3. TypeOK BY Zenon, <1>1, <1>2 DEF TypeOK, Flags, Shapes
<1>4. ChangesComeLater /\ UnitIsLoaded BY DEF Init, ChangesComeLater, UnitIsLoaded
<1>5. RunsWhatIsOnDisk BY DEF Init, RunsWhatIsOnDisk, Pending, OnDisk
<1>6. ChangedTellsTheDifference BY DEF Init, ChangedTellsTheDifference
<1>7. OnlyChangesDisturb BY DEF Init, OnlyChangesDisturb
<1> QED BY <1>3, <1>4, <1>5, <1>6, <1>7 DEF IInv

\* The steps of a reconciliation keep the invariant.
LEMMA AgentInv == ASSUME IInv, Agent PROVE IInv'
<1>1. TypeOK' BY NextType DEF IInv, Next
<1> USE DEF IInv, TypeOK, ChangesComeLater, UnitIsLoaded, RunsWhatIsOnDisk, Pending,
            ChangedTellsTheDifference, OnlyChangesDisturb, OnDisk, diskVars, systemdVars
<1>2. CASE Apply BY <1>1, <1>2 DEF Apply
<1>3. CASE EnsureStopped BY <1>1, <1>3 DEF EnsureStopped
<1>4. CASE EnsureBinary BY <1>1, <1>4 DEF EnsureBinary
<1>5. CASE EnsureUnit BY <1>1, <1>5 DEF EnsureUnit
<1>6. CASE RestartChanged BY <1>1, <1>6 DEF RestartChanged, Launch
<1>7. CASE StartIfDown BY <1>1, <1>7 DEF StartIfDown, Launch, ToLoad
<1> QED BY <1>2, <1>3, <1>4, <1>5, <1>6, <1>7 DEF Agent

\* So do the steps of the relay, the machine and the fleet.
LEMMA NextInv == ASSUME IInv, [Next]_vars PROVE IInv'
<1>1. TypeOK' BY NextType DEF IInv
<1>2. CASE Agent BY <1>2, AgentInv
<1> USE DEF IInv, TypeOK, ChangesComeLater, UnitIsLoaded, RunsWhatIsOnDisk, Pending,
            ChangedTellsTheDifference, OnlyChangesDisturb, OnDisk, diskVars, systemdVars
<1>3. CASE RelayDies BY <1>1, <1>3 DEF RelayDies
<1>4. CASE RelayReturns BY <1>1, <1>4 DEF RelayReturns, Launch
<1>5. CASE AgentDies BY <1>1, <1>5 DEF AgentDies
<1>6. CASE Reboot BY <1>1, <1>6 DEF Reboot, Launch
<1>7. CASE Wish BY <1>1, <1>7 DEF Wish
<1>8. CASE UNCHANGED vars BY <1>1, <1>8 DEF vars
<1> QED BY <1>2, <1>3, <1>4, <1>5, <1>6, <1>7, <1>8 DEF Next

\* What a reconciliation knows of the machine, and what is true of it.
THEOREM Invariant == Spec => []IInv
<1>1. IInv /\ [Next]_vars => IInv' BY NextInv
<1> QED BY InitInv, <1>1, PTL DEF Spec

\* The variables keep their types, whatever goes wrong (relaymgr.go).
THEOREM TypeCorrect == Spec => []TypeOK
  BY Invariant, PTL DEF IInv

\* An active relay is restarted only by a reconciliation that found it running
\* something other than what is now in place (ensureRunning), unless an
\* earlier change was cut short.
THEOREM OnlyChangesDisturbThm == Spec => []OnlyChangesDisturb
  BY Invariant, PTL DEF IInv
-----------------------------------------------------------------------------
\* A reconciliation that is about to act has the unit of its directive on disk.
UnitIsWritten == pc = "act" => unit = job.port

LEMMA UnitIsWrittenStep == ASSUME IInv, UnitIsWritten, [Next]_vars PROVE UnitIsWritten'
<1> USE DEF UnitIsWritten, diskVars, systemdVars
<1>1. CASE EnsureUnit BY <1>1 DEF EnsureUnit
<1>2. CASE Apply BY <1>2 DEF Apply
<1>3. CASE EnsureBinary BY <1>3 DEF EnsureBinary
<1>4. CASE EnsureStopped \/ RestartChanged \/ StartIfDown
  BY <1>4 DEF EnsureStopped, RestartChanged, StartIfDown
<1>5. CASE RelayDies \/ RelayReturns \/ AgentDies \/ Reboot \/ Wish \/ UNCHANGED vars
  BY <1>5 DEF RelayDies, RelayReturns, AgentDies, Reboot, Wish, vars
<1> QED BY <1>1, <1>2, <1>3, <1>4, <1>5 DEF Next, Agent

\* The end of a reconciliation: a restart loads and runs what is on disk, a
\* service left alone runs it already.
LEMMA EndStep ==
  ASSUME IInv, UnitIsWritten, Next,
         pc = "act", pc' = "idle", faults' = faults, changed \/ ~cut
  PROVE  service' = "active" /\ proc' = OnDisk' /\ unit' = job.port
<1> USE DEF UnitIsWritten, OnDisk, diskVars, systemdVars
<1>1. faults \in Nat /\ (cut \in BOOLEAN) /\ (changed \in BOOLEAN)
  BY RelayAssumption DEF IInv, TypeOK
<1>2. \A kind : ~Fault(kind) BY <1>1 DEF Fault
<1>3. CASE RestartChanged BY <1>2, <1>3 DEF RestartChanged, Launch
<1>4. CASE StartIfDown
  <2>1. ~cut /\ ~changed BY <1>4 DEF StartIfDown
  <2>2. loaded = unit BY <2>1 DEF IInv, UnitIsLoaded
  <2>3. service # "inactive" => proc = OnDisk BY <2>1 DEF IInv, RunsWhatIsOnDisk, Pending
  <2> QED BY <1>2, <1>4, <2>2, <2>3 DEF StartIfDown, Launch, ToLoad
<1>5. ~(Apply \/ EnsureStopped \/ EnsureBinary \/ EnsureUnit)
  BY DEF Apply, EnsureStopped, EnsureBinary, EnsureUnit
<1>6. ~(RelayDies \/ RelayReturns \/ AgentDies \/ Reboot \/ Wish)
  BY <1>2 DEF RelayDies, RelayReturns, AgentDies, Reboot, Wish
<1> QED BY <1>3, <1>4, <1>5, <1>6 DEF Next, Agent

\* relaymgr.go, Apply: a reconciliation that meets no failure leaves the relay
\* running what is on disk, on the port of its directive, for any binaries,
\* ports and failures before it, unless an earlier change was cut short.
THEOREM ReconciledRunsThm == Spec => ReconciledRuns
<1>1. IInv /\ UnitIsWritten /\ [Next]_vars => UnitIsWritten' BY UnitIsWrittenStep
<1>2. Init => UnitIsWritten BY DEF Init, UnitIsWritten
<1>3. IInv /\ UnitIsWritten /\ [Next]_vars =>
        [pc = "act" /\ pc' = "idle" /\ faults' = faults /\ (changed \/ ~cut) =>
           service' = "active" /\ proc' = OnDisk' /\ unit' = job.port]_vars
  BY EndStep
<1> QED BY <1>1, <1>2, <1>3, Invariant, PTL DEF Spec, ReconciledRuns
=============================================================================
