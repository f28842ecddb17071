-------------------------------- MODULE Relay --------------------------------
(***************************************************************************)
(* relaymgr: the fleet's wish for the relay service of this machine, carried *)
(* by the answer to a heartbeat, is turned into the binary on disk, the      *)
(* systemd unit and the running service.  A reconciliation is a goroutine of *)
(* its own; while it runs, later heartbeats are skipped, the service may die *)
(* and be restarted by systemd, the agent may die and the machine reboot.    *)
(*                                                                           *)
(* A binary is known by its hash, a unit by its port; Hand is a unit written *)
(* by hand.  systemd runs the binary it finds with the unit it loaded last.  *)
(***************************************************************************)
EXTENDS Naturals

CONSTANTS
  Bins,       \* hashes of relay binaries
  Ports,      \* ports the relay may listen on
  Faults,     \* what may go wrong, a subset of AllFaults
  MaxFaults,  \* bound: times something goes wrong
  MaxWishes   \* bound: times the fleet changes its mind

None == "none"
Hand == "hand"
Torn == "torn"
AllFaults == {"download", "hash", "write", "reload", "restart", "start", "stop",
              "relay", "agent", "boot"}

ASSUME RelayAssumption ==
  /\ Bins \intersect {None} = {} /\ Ports \intersect {None, Hand, Torn} = {}
  /\ Faults \subseteq AllFaults /\ MaxFaults \in Nat /\ MaxWishes \in Nat

VARIABLES
  bin,      \* the relay binary on disk
  unit,     \* the unit file on disk
  loaded,   \* the unit systemd has loaded
  service,  \* what systemctl is-active says
  proc,     \* the binary and the unit the service was last started with
  enabled,  \* the service is started at boot
  pc,       \* where the reconciliation stands; idle: not busy
  job,      \* the directive it follows
  changed   \* it has replaced the binary or the unit

\* The fleet, and history.
VARIABLES
  wish,     \* the directive in the fleet's answers; NoWish: no relay here
  faults,   \* things gone wrong so far
  wishes,   \* times the fleet changed its mind
  cut,      \* some change on disk was not followed by its restart
  was,      \* what ran when the reconciliation began
  disturbed \* the last step restarted an active relay

vars == <<bin, unit, loaded, service, proc, enabled, pc, job, changed,
          wish, faults, wishes, cut, was, disturbed>>
diskVars == <<bin, unit>>
systemdVars == <<loaded, service, proc, enabled>>

\* A directive; without download info any binary will do.
Directives == [on : BOOLEAN, port : Ports, bin : Bins \union {None}]
NoWish == [on |-> FALSE, port |-> None, bin |-> None]
Off == [bin |-> None, unit |-> None]
OnDisk == [bin |-> bin, unit |-> unit]

\* Something goes wrong, or nothing does.
Fault(kind) == kind \in Faults /\ faults < MaxFaults /\ faults' = faults + 1
Calm == UNCHANGED faults

\* A machine without a relay, or with one installed by hand.
Init ==
  /\ \/ bin = None /\ unit = None /\ service = "inactive" /\ proc = Off /\ enabled = FALSE
     \/ /\ bin \in Bins /\ unit = Hand
        /\ service = "active" /\ proc = OnDisk /\ enabled = TRUE
  /\ loaded = unit
  /\ pc = "idle" /\ job = NoWish /\ changed = FALSE
  /\ wish = NoWish /\ faults = 0 /\ wishes = 0 /\ cut = FALSE /\ was = proc /\ disturbed = FALSE
-----------------------------------------------------------------------------
\* Mutant: what an earlier reconciliation changed is still held against this one.
ApplyKeepsChanged ==
  /\ pc = "idle" /\ wish # NoWish
  /\ job' = wish /\ was' = proc
  /\ pc' = IF wish.on THEN "binary" ELSE "stop"
  /\ disturbed' = FALSE
  /\ UNCHANGED <<changed, diskVars, systemdVars, wish, faults, wishes, cut>>

\* Apply with the directive of a heartbeat's answer, unless busy.
Apply ==
  /\ pc = "idle" /\ wish # NoWish
  /\ job' = wish /\ changed' = FALSE /\ was' = proc
  /\ pc' = IF wish.on THEN "binary" ELSE "stop"
  /\ disturbed' = FALSE
  /\ UNCHANGED <<diskVars, systemdVars, wish, faults, wishes, cut>>

\* ensureStopped
EnsureStopped ==
  /\ pc = "stop"
  /\ \/ service # "active" /\ Calm /\ UNCHANGED <<service, enabled>>
     \/ service = "active" /\ Calm /\ service' = "inactive" /\ enabled' = FALSE
     \/ service = "active" /\ Fault("stop") /\ UNCHANGED <<service, enabled>>
  /\ pc' = "idle" /\ disturbed' = FALSE
  /\ UNCHANGED <<diskVars, loaded, proc, job, changed, wish, wishes, cut, was>>

\* Mutant: what was downloaded is put in place whatever its hash.
EnsureBinaryUnchecked ==
  /\ pc = "binary"
  /\ \/ /\ job.bin \in {None, bin} /\ Calm
        /\ pc' = IF bin = None THEN "idle" ELSE "unit"
        /\ UNCHANGED <<bin, changed>>
     \/ /\ job.bin \notin {None, bin}
        /\ bin' \in {job.bin, Torn} /\ changed' = TRUE
        /\ pc' = "unit" /\ Calm
  /\ disturbed' = FALSE
  /\ UNCHANGED <<unit, systemdVars, job, wish, wishes, cut, was>>

\* ensureBinary: a binary that is there and cannot be compared, or not be
\* downloaded, is kept; one whose hash is wrong is refused.
EnsureBinary ==
  /\ pc = "binary"
  /\ \/ /\ job.bin \in {None, bin} /\ Calm
        /\ pc' = IF bin = None THEN "idle" ELSE "unit"
        /\ UNCHANGED <<bin, changed>>
     \/ /\ job.bin \notin {None, bin} /\ Calm
        /\ bin' = job.bin /\ changed' = TRUE
        /\ pc' = "unit"
     \/ /\ job.bin \notin {None, bin} /\ Fault("download")
        /\ pc' = IF bin = None THEN "idle" ELSE "unit"
        /\ UNCHANGED <<bin, changed>>
     \/ /\ job.bin \notin {None, bin} /\ (Fault("hash") \/ Fault("write"))
        /\ pc' = "idle"
        /\ UNCHANGED <<bin, changed>>
  /\ disturbed' = FALSE
  /\ UNCHANGED <<unit, systemdVars, job, wish, wishes, cut, was>>

\* ensureUnit: the file is rewritten only if its content differs.
EnsureUnit ==
  /\ pc = "unit"
  /\ \/ unit = job.port /\ Calm /\ pc' = "act" /\ UNCHANGED <<unit, changed, cut>>
     \/ /\ unit # job.port /\ Calm
        /\ unit' = job.port /\ changed' = TRUE
        /\ pc' = "act" /\ UNCHANGED cut
     \/ /\ unit # job.port /\ Fault("write")
        /\ unit' \in {unit, Torn}
        /\ cut' = (cut \/ changed \/ unit' # unit)
        /\ pc' = "idle" /\ UNCHANGED changed
  /\ disturbed' = FALSE
  /\ UNCHANGED <<bin, systemdVars, job, wish, wishes, was>>

\* A unit systemd has never loaded is loaded when it is started.
ToLoad == IF loaded = None THEN unit ELSE loaded
\* systemd starts the service.
Launch(u) == service' = "active" /\ proc' = [bin |-> bin, unit |-> u]

\* Mutant: the restart does without the daemon-reload.
RestartUnloaded ==
  /\ pc = "act" /\ changed
  /\ Calm
  /\ loaded' = ToLoad /\ Launch(ToLoad) /\ enabled' = TRUE
  /\ disturbed' = (service = "active")
  /\ pc' = "idle"
  /\ UNCHANGED <<diskVars, job, changed, wish, wishes, cut, was>>

\* daemon-reload and restart after a change.
RestartChanged ==
  /\ pc = "act" /\ changed
  /\ \/ /\ Calm
        /\ loaded' = unit /\ Launch(unit) /\ enabled' = TRUE
        /\ disturbed' = (service = "active") /\ UNCHANGED cut
     \/ /\ Fault("reload")
        /\ disturbed' = FALSE /\ cut' = TRUE /\ UNCHANGED systemdVars
     \/ /\ Fault("restart")
        /\ loaded' = unit /\ service' \in {service, "inactive"}
        /\ disturbed' = FALSE /\ cut' = TRUE /\ UNCHANGED <<proc, enabled>>
  /\ pc' = "idle"
  /\ UNCHANGED <<diskVars, job, changed, wish, wishes, was>>

\* Mutant: a service that is not active is left to systemd.
StartNothing ==
  /\ pc = "act" /\ ~changed
  /\ Calm
  /\ pc' = "idle" /\ disturbed' = FALSE
  /\ UNCHANGED <<diskVars, systemdVars, job, changed, wish, wishes, cut, was>>

\* With nothing changed a service that is not active is started, one that is
\* active is left alone.
StartIfDown ==
  /\ pc = "act" /\ ~changed
  /\ \/ service = "active" /\ Calm /\ UNCHANGED systemdVars
     \/ /\ service # "active" /\ Calm
        /\ loaded' = ToLoad /\ Launch(ToLoad) /\ enabled' = TRUE
     \/ service # "active" /\ Fault("start") /\ UNCHANGED systemdVars
  /\ pc' = "idle" /\ disturbed' = FALSE
  /\ UNCHANGED <<diskVars, job, changed, wish, wishes, cut, was>>
-----------------------------------------------------------------------------
\* The relay exits; systemd waits before it starts it again.
RelayDies ==
  /\ service = "active" /\ Fault("relay")
  /\ service' = "activating" /\ disturbed' = FALSE
  /\ UNCHANGED <<diskVars, loaded, proc, enabled, pc, job, changed, wish, wishes, cut, was>>

RelayReturns ==
  /\ service = "activating"
  /\ Launch(loaded) /\ disturbed' = FALSE
  /\ UNCHANGED <<diskVars, loaded, enabled, pc, job, changed, wish, faults, wishes, cut, was>>

\* The agent is restarted in the middle of a reconciliation.
AgentDies ==
  /\ pc # "idle" /\ Fault("agent")
  /\ pc' = "idle" /\ disturbed' = FALSE
  /\ cut' = (cut \/ changed)
  /\ UNCHANGED <<diskVars, systemdVars, job, changed, wish, wishes, was>>

Reboot ==
  /\ Fault("boot")
  /\ loaded' = unit
  /\ IF enabled /\ unit # Torn THEN Launch(unit) ELSE service' = "inactive" /\ UNCHANGED proc
  /\ pc' = "idle" /\ disturbed' = FALSE
  /\ UNCHANGED <<diskVars, enabled, job, changed, wish, wishes, cut, was>>

\* The fleet changes its mind.
Wish ==
  /\ wishes < MaxWishes /\ wishes' = wishes + 1
  /\ wish' \in Directives \ {wish}
  /\ disturbed' = FALSE
  /\ UNCHANGED <<diskVars, systemdVars, pc, job, changed, faults, cut, was>>

Agent == Apply \/ EnsureStopped \/ EnsureBinary \/ EnsureUnit \/ RestartChanged \/ StartIfDown
Next == Agent \/ RelayDies \/ RelayReturns \/ AgentDies \/ Reboot \/ Wish

Spec == Init /\ [][Next]_vars

\* Heartbeats go on, a reconciliation runs, systemd restarts what died.
FairSpec == Spec /\ WF_vars(Agent) /\ WF_vars(RelayReturns)
-----------------------------------------------------------------------------
\* Type invariant.
TypeOK ==
  /\ bin \in Bins \union {None} /\ unit \in Ports \union {None, Hand, Torn}
  /\ loaded \in Ports \union {None, Hand, Torn} /\ service \in {"inactive", "activating", "active"}
  /\ {proc, was} \subseteq [bin : Bins \union {None}, unit : Ports \union {None, Hand, Torn}]
  /\ enabled \in BOOLEAN /\ cut \in BOOLEAN /\ changed \in BOOLEAN /\ disturbed \in BOOLEAN
  /\ pc \in {"idle", "stop", "binary", "unit", "act"}
  /\ job \in Directives \union {NoWish} /\ wish \in Directives \union {NoWish}
  /\ faults \in 0 .. MaxFaults /\ wishes \in 0 .. MaxWishes

\* A relay that carries sessions is disturbed only by a reconciliation that
\* found it running something other than what is now in place, unless an
\* earlier change was cut short.
OnlyChangesDisturb == disturbed /\ ~cut => was # OnDisk

\* A reconciliation that comes to its end with nothing going wrong leaves an
\* active relay that runs what is on disk, on the port of the directive: by
\* its own restart, or because nothing had to be done, unless an earlier change
\* was cut short.
ReconciledRuns ==
  [][pc = "act" /\ pc' = "idle" /\ faults' = faults /\ (changed \/ ~cut) =>
       service' = "active" /\ proc' = OnDisk' /\ unit' = job.port]_vars

\* The service does what the directive says.
InForce(d) ==
  IF d.on THEN /\ service = "active" /\ proc.unit = d.port
               /\ d.bin # None => proc.bin = d.bin
          ELSE service = "inactive"

\* A directive for which there is a binary to install.
Feasible(d) == ~d.on \/ d.bin # None

\* The machine comes to be as the fleet wants it, through failed downloads,
\* starts and stops, deaths of the relay and of the agent and reboots, as long
\* as no change on disk goes without its restart.
ConvergesUnlessCut ==
  \A d \in Directives : Feasible(d) /\ <>[](wish = d) /\ [](~cut) => <>[]InForce(d)

\* What the comment on Apply says: a reconciliation that failed or was skipped
\* is made up for at a later heartbeat.
Converges ==
  \A d \in Directives : Feasible(d) /\ <>[](wish = d) => <>[]InForce(d)
=============================================================================
