------------------------------- MODULE Updater -------------------------------
(***************************************************************************)
(* updater.sh, run by a systemd timer: ask the fleet for a plan, download    *)
(* and check the new agent, swap it in, verify it, roll it back.  A run is   *)
(* a sequence of steps between which the power may fail; systemd never runs  *)
(* two at a time and starts the agent found on disk after a boot.            *)
(*                                                                           *)
(* A binary is a version, Torn when it is truncated or Wrong when its hash   *)
(* is not the plan's.  How a version behaves is fixed.  Of what it does the  *)
(* verification sees what shows within thirty seconds of the restart: not,   *)
(* as a rule, its heartbeats, the first of which is due after thirty seconds *)
(* of the agent's main loop.                                                 *)
(***************************************************************************)
EXTENDS Naturals

CONSTANTS
  Versions,   \* the versions of the agent
  First,      \* the installed one
  Behaviour,  \* "works", "mute" (serves, but its heartbeats fail), "hangs"
              \* (alive, not serving) or "crashes" (before it serves)
  Faults,     \* what may go wrong, a subset of AllFaults
  MaxFaults,  \* bound: times something goes wrong
  MaxLosses,  \* bound: power losses
  MaxPlans    \* bound: plans the fleet makes

None == "none"
Torn == "torn"
Wrong == "wrong"
AllFaults == {"download", "hash", "copy", "check"}

ASSUME UpdaterAssumption ==
  /\ First \in Versions /\ Versions \intersect {None, Torn, Wrong} = {}
  /\ Behaviour \in [Versions -> {"works", "mute", "hangs", "crashes"}]
  /\ Faults \subseteq AllFaults
  /\ MaxFaults \in Nat /\ MaxLosses \in Nat /\ MaxPlans \in Nat

VARIABLES
  agent,    \* the binary in place
  prev,     \* agent.prev
  new,      \* agent.new
  running,  \* the binary the agent's service last started with
  target,   \* the version of the plan this run follows
  pc,       \* where the script stands
  said      \* the state this run has reported last

\* The fleet, and history.
VARIABLES
  plan,     \* the version the fleet plans for this node, or None
  began,    \* the binary in place when the run began
  faults,   \* things gone wrong so far
  losses,   \* power losses so far
  plans     \* plans made so far

vars == <<agent, prev, new, running, target, pc, said, plan, began, faults, losses, plans>>
worldVars == <<plan, faults, losses, plans>>

Places == {"idle", "compare", "rescue", "download", "gate", "backup", "swap", "restart",
           "verify", "ports", "journal", "accept", "announce",
           "rollback", "restore", "conclude"}
States == {None, "downloading", "applied", "verifying", "succeeded", "failed", "rolled_back"}

Works(v) == v \in Versions /\ Behaviour[v] = "works"
Mute(v) == v \in Versions /\ Behaviour[v] = "mute"
\* The data plane comes up.
Serves(v) == Works(v) \/ Mute(v)
\* What systemctl is-active may say.
Active(v) == IF v \notin Versions THEN {FALSE}
             ELSE IF Behaviour[v] = "crashes" THEN BOOLEAN ELSE {TRUE}
\* Something goes wrong.
Fault(kind) == kind \in Faults /\ faults < MaxFaults /\ faults' = faults + 1

Init ==
  /\ agent = First /\ prev = None /\ new = None /\ running = First
  /\ target = None /\ pc = "idle" /\ said = None
  /\ plan = None /\ began = First /\ faults = 0 /\ losses = 0 /\ plans = 0
-----------------------------------------------------------------------------
\* The timer fires and the fleet has a plan.
Tick ==
  /\ pc = "idle" /\ plan # None
  /\ target' = plan /\ began' = agent /\ said' = None
  /\ pc' = "compare"
  /\ UNCHANGED <<agent, prev, new, running, worldVars>>

\* The fleet has none: the backup is no longer kept.
TickWithoutPlan ==
  /\ pc = "idle" /\ plan = None
  /\ prev' = None /\ said' = None
  /\ UNCHANGED <<agent, new, running, target, pc, began, worldVars>>

\* The binary is the planned one: report, after a restart if it is not active.
AlreadyThere ==
  /\ pc = "compare" /\ agent = target
  /\ \E active \in Active(running) :
       IF active THEN said' = "succeeded" /\ pc' = "idle"
                 ELSE UNCHANGED said /\ pc' = "rescue"
  /\ UNCHANGED <<agent, prev, new, running, target, began, worldVars>>

Rescue ==
  /\ pc = "rescue"
  /\ running' = agent
  /\ \E active \in Active(agent) : said' = IF active THEN "succeeded" ELSE "failed"
  /\ pc' = "idle"
  /\ UNCHANGED <<agent, prev, new, target, began, worldVars>>

StartDownload ==
  /\ pc = "compare" /\ agent # target
  /\ said' = "downloading" /\ new' = None
  /\ pc' = "download"
  /\ UNCHANGED <<agent, prev, running, target, began, worldVars>>

DownloadFails ==
  /\ pc = "download" /\ Fault("download")
  /\ said' = "failed" /\ new' = None
  /\ pc' = "idle"
  /\ UNCHANGED <<agent, prev, running, target, began, plan, losses, plans>>

Download ==
  /\ pc = "download"
  /\ \/ new' = target /\ UNCHANGED faults
     \/ new' = Wrong /\ Fault("hash")
  /\ pc' = "gate"
  /\ UNCHANGED <<agent, prev, running, target, said, began, plan, losses, plans>>

\* Mutant: without an expected hash to hand the download is let through.
GateOpen ==
  /\ pc = "gate"
  /\ pc' = "backup"
  /\ UNCHANGED <<agent, prev, new, running, target, said, began, worldVars>>

\* The hash of what was downloaded is the plan's, or the run ends.
Gate ==
  /\ pc = "gate"
  /\ IF new = target
     THEN pc' = "backup" /\ UNCHANGED <<new, said>>
     ELSE pc' = "idle" /\ new' = None /\ said' = "failed"
  /\ UNCHANGED <<agent, prev, running, target, began, worldVars>>

\* cp to agent.prev; whether it succeeded is not looked at.
Backup ==
  /\ pc = "backup"
  /\ \/ prev' = agent /\ UNCHANGED faults
     \/ prev' \in {prev, Torn} /\ Fault("copy")
  /\ pc' = "swap"
  /\ UNCHANGED <<agent, new, running, target, said, began, plan, losses, plans>>

\* The rename that puts the new binary in place.
Swap ==
  /\ pc = "swap"
  /\ agent' = new /\ new' = None /\ said' = "applied"
  /\ pc' = "restart"
  /\ UNCHANGED <<prev, running, target, began, worldVars>>

Restart ==
  /\ pc = "restart"
  /\ running' = agent /\ said' = "verifying"
  /\ pc' = "verify"
  /\ UNCHANGED <<agent, prev, new, target, began, worldVars>>

\* The first check: the process is active after ten seconds and after thirty.
CheckProcess ==
  /\ pc = "verify"
  /\ \E active \in Active(running) : pc' = IF active THEN "ports" ELSE "rollback"
  /\ UNCHANGED <<agent, prev, new, running, target, said, began, worldVars>>

\* Mutant: ports that are not up are logged, and no more.
CheckPortsLogs ==
  /\ pc = "ports"
  /\ pc' = "journal"
  /\ UNCHANGED <<agent, prev, new, running, target, said, began, worldVars>>

\* The second: the ports of the data plane are up by now.  A version that
\* serves may be late.
CheckPorts ==
  /\ pc = "ports"
  /\ \/ /\ pc' = IF Serves(running) THEN "journal" ELSE "rollback"
        /\ UNCHANGED faults
     \/ pc' = "rollback" /\ Fault("check")
  /\ UNCHANGED <<agent, prev, new, running, target, said, began, plan, losses, plans>>

\* Mutant: the journal is scanned from its beginning.
NoisyEver == IF faults > 0 THEN {TRUE}
             ELSE IF Mute(running) \/ Mute(began) THEN BOOLEAN ELSE {FALSE}

\* Whether the scan finds failed heartbeats.  It looks at the last forty
\* seconds, which is some ten before the restart, and ends about when the first
\* heartbeat after it is due: of a version whose heartbeats fail it finds some
\* or none, be it the one on trial or the one before.
Noisy == IF Mute(running) \/ Mute(began) THEN BOOLEAN ELSE {FALSE}

\* The third: the journal has no failed heartbeat, or one that failed by bad luck.
CheckJournal ==
  /\ pc = "journal"
  /\ \/ /\ \E noisy \in Noisy : pc' = IF noisy THEN "rollback" ELSE "accept"
        /\ UNCHANGED faults
     \/ pc' = "rollback" /\ Fault("check")
  /\ UNCHANGED <<agent, prev, new, running, target, said, began, plan, losses, plans>>

Accept ==
  /\ pc = "accept"
  /\ prev' = None
  /\ pc' = "announce"
  /\ UNCHANGED <<agent, new, running, target, said, began, worldVars>>

Announce ==
  /\ pc = "announce"
  /\ said' = "succeeded"
  /\ pc' = "idle"
  /\ UNCHANGED <<agent, prev, new, running, target, began, worldVars>>

\* Mutant: the backup is removed before it is renamed back.
RollbackWithoutBackup ==
  /\ pc = "rollback"
  /\ prev' = None
  /\ pc' = "restore"
  /\ UNCHANGED <<agent, new, running, target, said, began, worldVars>>

\* The backup is renamed back, if there is one.
Rollback ==
  /\ pc = "rollback"
  /\ agent' = IF prev = None THEN agent ELSE prev
  /\ prev' = None
  /\ pc' = "restore"
  /\ UNCHANGED <<new, running, target, said, began, worldVars>>

\* Mutant: the rollback does not restart the agent.
RestoreOnDiskOnly ==
  /\ pc = "restore"
  /\ pc' = "conclude"
  /\ UNCHANGED <<agent, prev, new, running, target, said, began, worldVars>>

Restore ==
  /\ pc = "restore"
  /\ running' = agent
  /\ pc' = "conclude"
  /\ UNCHANGED <<agent, prev, new, target, said, began, worldVars>>

Conclude ==
  /\ pc = "conclude"
  /\ \E active \in Active(running) : said' = IF active THEN "rolled_back" ELSE "failed"
  /\ pc' = "idle"
  /\ UNCHANGED <<agent, prev, new, running, target, began, worldVars>>
-----------------------------------------------------------------------------
\* Power is lost at any point: a file being written is truncated, a rename is
\* done or not, and the boot starts the agent that is in place.
PowerLoss ==
  /\ losses < MaxLosses
  /\ losses' = losses + 1
  /\ new' \in IF pc = "download" THEN {new, Torn} ELSE {new}
  /\ prev' \in IF pc = "backup" THEN {prev, Torn} ELSE {prev}
  /\ running' = agent
  /\ pc' = "idle" /\ said' = None
  /\ UNCHANGED <<agent, target, plan, began, faults, plans>>

\* The fleet plans another version, or none, whatever it has heard.
Plan ==
  /\ plans < MaxPlans
  /\ plan' \in (Versions \union {None}) \ {plan}
  /\ plans' = plans + 1
  /\ UNCHANGED <<agent, prev, new, running, target, pc, said, began, faults, losses>>

Script ==
  \/ Tick \/ AlreadyThere \/ Rescue
  \/ StartDownload \/ DownloadFails \/ Download \/ Gate
  \/ Backup \/ Swap \/ Restart \/ CheckProcess \/ CheckPorts \/ CheckJournal
  \/ Accept \/ Announce \/ Rollback \/ Restore \/ Conclude

Next == Script \/ TickWithoutPlan \/ PowerLoss \/ Plan

Spec == Init /\ [][Next]_vars

\* The timer fires and the script, once started, runs.  Heartbeats and runs of
\* the script are not in step, so the journal is not noisy every time it may be.
FairSpec == Spec /\ WF_vars(Script) /\ SF_vars(CheckJournal /\ pc' = "accept")
-----------------------------------------------------------------------------
\* Type invariant.
TypeOK ==
  /\ agent \in Versions \union {Torn, Wrong} /\ running \in Versions \union {Torn, Wrong}
  /\ prev \in Versions \union {None, Torn} /\ new \in Versions \union {None, Torn, Wrong}
  /\ target \in Versions \union {None} /\ plan \in Versions \union {None}
  /\ began \in Versions \union {Torn, Wrong}
  /\ pc \in Places /\ said \in States
  /\ faults \in 0 .. MaxFaults /\ losses \in 0 .. MaxLosses /\ plans \in 0 .. MaxPlans

\* Red line R1 of the script: whenever the power fails, the binary in place is
\* a whole one, old or new, and never one whose hash was not the planned.
AgentIsWhole == agent \in Versions

\* What a run reports last is what it leaves: succeeded, the planned version
\* in place; rolled back, the version it began with.
OutcomeIsOnDisk ==
  /\ said = "succeeded" => agent = target
  /\ said = "rolled_back" => agent = began /\ agent # target

\* When no run is under way, the agent that runs is the one in place, so a
\* reboot changes nothing, whichever way the last run ended.
RunsWhatIsInPlace == pc = "idle" => running = agent

\* The binary in place is new and the run has not decided on it.
OnTrial == pc \in {"restart", "verify", "ports", "journal", "rollback"}

Upgrade == INSTANCE SafeUpgrade WITH
  Good <- {v \in Versions : Serves(v)},
  inPlace <- agent, fallback <- IF OnTrial THEN began ELSE None

\* The updater keeps the promise of the abstract upgrade: a version stays in
\* place after its trial only if its data plane was up, and the very one before
\* comes back otherwise, unless a power loss ends the trial.
RefinesSafeUpgrade == Upgrade!Spec

\* A planned version that works is in place and running in the end, through
\* bad downloads, unlucky checks and power losses, if the plan stands.
UpgradeCompletes ==
  \A v \in Versions :
    Works(v) /\ <>[](plan = v) => <>[](agent = v /\ running = v)

\* What the comment on the verification says: only a version seen to be
\* working is reported as succeeded, one that is merely alive is not.
SucceededMeansWorking == said = "succeeded" => Works(running)
=============================================================================
