# A verification project for the realm agent

The realm agent is the process that runs on an egress node. It fetches users and a realm block from otun-manager, runs
one egress node per protocol with them, meters the users' traffic and reports it for billing, watches over the nodes'
registration at the rendezvous server, tells an operations plane what it observes, keeps a relay service as the fleet
wants it, and is itself upgraded by a shell script. This directory models those parts in TLA+, checks the models with
TLC and proves their safety with TLAPS.

    tlc -config MCBilling.cfg MCBilling        # one of the runs of PROJECT.json
    tlapm BillingProofs.tla                    # the proofs

`PROJECT.json` lists the components, runs, mutants, hazards, findings and theorems, and maps every definition to the
lines it translates. Paths below are relative to the repository's `src/`.

## 1. The system

### 1.1 Components

| component | code | state | operations |
|---|---|---|---|
| billing path | `cmd/agent/main.go` 846-873, 1235-1267, `internal/stats/reporter.go` | counters of the shared Registry, the collected window, the spool of report files | collect, report, spool, restore, flush |
| configuration sync and data plane | `cmd/agent/main.go` 255-812, `internal/config/sync.go`, `cache.go`, `internal/realm/registrar.go` | versions and realm in force, running nodes, `users.json`, the count of unregistered ticks | sync, rebuild, hot update and repair, boot, fall back to the cache, probe and self heal |
| updater | `updater.sh` | `agent`, `agent.prev`, `agent.new`, the service, the plan | check, download, gate, back up, swap, verify, accept, roll back |
| relay manager | `internal/relaymgr/relaymgr.go` | relay binary, unit file, the service, the busy flag | apply a directive: stop, or install, write the unit, restart or start |
| observation path | `internal/obs/reporter.go`, `collectors.go`, `quality.go` | connections of the last tick, sums of the minute, buffer of envelopes, spool | sample, probe, enqueue, flush, spool, send again |
| quota monitor | `internal/quota/monitor.go`, `cmd/agent/main.go` 243-249, 375-376, 435, 546, 1244-1261 | the users watched: plan, usage the manager counted, usage since the last report | fetch, tell a window, reset, check everybody, forget and kick |
| quality and capacity figures | `internal/obs/quality.go`, `capacity.go` | the connections and QUIC's losses as last seen, the reading of the network card, the rates of the minute | look, count stalls and losses, compute rates and percentiles |
| realm configuration generator | `internal/config/generator_realm.go` | none | build the configurations of a realm block |
| heartbeat and registration of the node | `cmd/agent/main.go` 290-296, 898-952 | none of their own | report versions and load; the answer may ask for a sync or carry a relay directive |
| upstream proxy check | `internal/upstream/health.go` | streak of failed checks | probe, report |
| health endpoint, environment, logging, system information, certificate, installation scripts | see `PROJECT.json` | | |

### 1.2 How they interact

Everything the agent does on its own initiative runs on one goroutine: `runMainLoop` (`main.go:322-379`) selects among
tickers and calls one handler at a time. A handler is therefore atomic with respect to other handlers, but not with
respect to

- the egress nodes, which carry traffic and add to the Registry all the time;
- the manager, the operations endpoint and the fleet, which may refuse, not answer, or act on a request after the agent
  gave up on it;
- the hole punching engine, whose goroutines enqueue traces into the observation buffer;
- the relay reconciliation, a goroutine of its own started by a heartbeat's answer;
- the goroutines in which the quota monitor closes the connections of a user it found over the plan;
- the disk, which may fail, and the process, which may die between any two steps.

The updater is another process: it shares the binary on disk, the service and the journal with the agent, nothing else.
Billing and sync meet in the handlers that close nodes or evict users, which collect first. Billing and the quota
monitor meet in the collection, which tells the monitor of a window before it is reported, and at the end of a report,
which resets what the monitor was told. The observation path reads the Registry and the connections and changes
neither.

### 1.3 What is hard, and what makes each part correct

- *Billing*: the counters are emptied before anybody else has the bytes. A byte must be in one place only, from the
  meter to the manager, through refusals, lost answers, failed disk writes, rebuilds, evictions and deaths; what is
  billed twice must be accounted for by a lost acknowledgement, what is lost by a counter nobody collected.
- *Sync*: two version schemes, commits made before the work is done, per-protocol failures and a cache that may be
  stale. No node may run without a realm or on users older than those reported; connections are dropped for a cause
  only; the data plane catches up.
- *Updater*: a power loss between any two lines; the binary in place is whole, what a run reports is what it leaves,
  a good version gets in at last.
- *Relay*: several steps, each of which may fail, with systemd restarting things meanwhile. The machine converges; a
  relay that carries sessions is not restarted without need.
- *Quota*: what is held against a user is the manager's count of the last fetch and what was told since the last
  report, while a window is on its way from one to the other. Bytes are held twice for two reasons only, a window that
  went back to the meter after it was told and a report that was counted although its acknowledgement was lost; a kick
  races with a user who connects again, whom the nodes still let in, and has to follow the user in the end.
- *Quality and capacity*: conclusions drawn from cumulative counters seen every ten seconds, of connections that come,
  answer and go in between, of a QUIC count that shrinks, of a card whose counter starts again. No false
  stall and no second one for the same reads, no difference of two lives of a counter, figures that are those of the minute.
- *Observation*: a bounded buffer with several writers, sums cut from cumulative counters, a spool tried only behind a
  success. Drops are the oldest and counted, bytes are summed once, every opened connection is told to have closed.

The complete list, line by line, is "hazards" in `PROJECT.json`.

## 2. Modules

| module | stands for | composed of |
|---|---|---|
| `ByteLedger` | the promise of the billing path, with no meter, spool or network in it: fresh, owed, forfeited, credited | |
| `Billing` | the billing path and the handlers that close nodes | refines `ByteLedger` |
| `SafeUpgrade` | the promise of the updater, with no download, backup or report in it: a binary in place, one to fall back to | |
| `NodeSync` | sync, data plane, cache, registrations of the slots | |
| `Updater` | `updater.sh` | refines `SafeUpgrade` |
| `Relay` | the relay manager, with systemd and the fleet | |
| `ObsReporter` | the buffer, flush and spool of the operations plane | |
| `Observation` | the collectors of the main loop and everything around the reporter | extends `ObsReporter` |
| `Quota` | the quota monitor with the fetches, reports, nodes and manager that feed it | |
| `Quality` | stalls and lost packets, from looks at the connections | |
| `Capacity` | rates of the users and of the network card, figures of a minute | |
| `Sampling` | the look of the main loop that feeds both | extends `Quality` and `Capacity` |
| `BillingProofs`, `NodeSyncProofs`, `UpdaterProofs`, `RelayProofs`, `ObservationProofs`, `QuotaProofs`, `SamplingProofs` | theorems about the module of that name | each extends its module |
| `DataTheorems` | what sums, folds, largest values and sorted orders are: facts about data the last two need | extended by `ObservationProofs` and `SamplingProofs` |
| `MC*` | the instances for TLC | |

**Billing.** Traffic is cut into *chunks*, bytes of one user that move together; a place that holds bytes is a set of
chunks. `registry` is the Registry's counters, `window` the local variable of `collectAndReportBilling`, `spool` the
report files, `torn` a truncated file among them, `sent` the file that was acknowledged and not removed yet. `pc` is
where the handler stands, `after` which handler it is (`tick`, `rebuild`, `update`, `stop`), since `applyRebuild`,
`applyUpdate` and the shutdown call the same function first. `Report` is three actions (acknowledged, refused, timed
out), because a request that timed out may still be counted by the manager (`late`). Two places where the code leaves
the outcome to a library are nondeterministic: whether closing a node drops its counters (`RealmRemoved`), and whether
nodes come up (`up'`). Rows that are all zero make an empty report, hence the `flush` and `finish` outcomes of `Collect`
with an empty registry. `FlushAcked` takes files in any order; the code takes them by name. A file that was acknowledged
and cannot be removed (`FlushFailsToRemove`; the code ignores the error of `os.Remove`) is delivered once more, which the
model counts like a lost acknowledgement.

**NodeSync.** A version is a number, 0 the empty string; a realm block is the set of protocols its generation has, an
empty one no block. A handler is one step, since all run on one goroutine and what another step could see of its
intermediate states is only what a death leaves, which `Crash` has: a truncated `users.json`. What may go wrong is a
constant set `Faults`, one handler in which something does uses up one of `MaxFaults`. `Decide` is `decideSyncAction`;
`RebuildAllNodes`, `ApplyRebuild`, `Repaired` and `UpdateRunning` are the functions of those names or their parts,
with the commits of the versions where the code has them, before the nodes are built. Reconciliation asks the rendezvous
server for the slot of every running node (`Probed`) and gets one of three `Answers`; only a plain "unregistered" counts
(`ProbeRegistered`), and only if the server itself can be reached (`NeedReload`). `streak` is the count that must confirm
it at a second tick.

**Updater.** The lines of the script between which a power loss makes a difference are the actions. A binary is a
version, `torn` or `wrong` (its hash is not the plan's). How a version behaves is a constant: it works, is mute (its data
plane comes up, its heartbeats fail), hangs (alive, nothing comes up) or crashes. The verification is three actions:
`CheckProcess` (a crashing version may or may not be caught by `is-active`), `CheckPorts`, and `CheckJournal`, the scan for
failed heartbeats. The scan looks at the last forty seconds (`updater.sh:200`), and the pauses before it take thirty.
So it begins some ten seconds before the restart, in the old version's life, and it ends about when the first heartbeat
of the new one is due, since the 30 s ticker is made only after the registration and the first sync (`main.go:263-285,
325, 360`): of a mute version, new or old, it finds failures or none (`Noisy`). A working version may fail the second and
the third check by bad luck. `SafeUpgrade` knows only
the binary in place and, while it is on trial (`OnTrial`, from the swap to the verdict), the one to fall back to; the run
checks that the script implements it. Fit to be kept is there a version whose data plane comes up, which is what the checks establish.

**Relay.** A binary is known by its hash, a unit by its port. `loaded` is what systemd read at the last daemon-reload,
`proc` what the service was started with, so that a unit on disk that was never loaded is told apart. `cut` remembers
that a change on disk went without its restart.

**ObsReporter, Observation.** An envelope is the set of the facts it tells (`Open(c)`, `Close(c)`, `Quality(minute)`);
one that tells none of these is the empty set. One sum stands for the buckets of all users and protocols and for both
directions. Stalls, losses and the network card of the same tick are the matter of `Sampling`; a QUIC sample without a
connection, round trip times and the behaviour aggregator are left out; a tick's envelopes are enqueued in one step,
while the code takes the lock once for each.
`LockFree` is `Reporter.mu`: the spool is written, read and *sent* with the lock held, and the punch trace sink waits.
`Observation` has the measurement of connection quality switched on, and an endpoint; with none, every flush drops what
it takes (`Flush`, `Endpoint`).

**Quota.** A byte travels from the meter through the window, a report or the spool, and the manager, to the next fetch;
`meter`, `window`, `spooled` and `accounted` are those places, counted per user. A report is acknowledged, refused or
given up on (`ReportAcked`, `Spool`, `ReportTimesOut`); what was given up on may reach the manager all the same (`late`,
`LateDelivery`) and goes to the spool or, if that fails, back to the meter (`RestoreStats`). The flush sends parts of the
spool (`FlushAcked`, `FlushTimesOut`, `FlushEnds`), and what it sent may stay there. `twice` counts the bytes the manager
has counted while the agent holds on to them; `again` those of a window that was told to the monitor and went back to the
meter, which are told a second time. What the files look like, and what is lost with them, is the matter of `Billing`.
`Collect` is the collection with the `CheckUser` of every row, before the report; `SyncOk` is what each fetch does to the
monitor, whatever the version says, and to `users.json`; an answer that could not be applied at the start is followed by
the cache (`BootFromCache`), whose older users then replace the fetched ones in the monitor. Expiry times are points of a clock that only `Tick` moves. `kicks` are the goroutines under way.

**Quality, Capacity, Sampling.** Between two looks connections come and go, send and are answered, QUIC takes packets for
lost and some back, and the card carries bytes, goes away, comes back with its counter at zero, or the default route moves
to another. The maps of the aggregator are total functions with the zero Go gives to a missing key, and what is gone is set
back to zero, as `QualityObserve` forgets it. Time is abstract: whether `StallAfter` has passed since a read of the
current window is open, and settled for older ones. A rate is computed in an integer of limited width (`Wrapped`,
`Overflow`); the unit of bytes is chosen so that a window of one unit has the rate `Scale`, and a late window, of twice
the length, half of it. Percentiles are computed by sorting, as in `pctls`, and compared with their definition by ranks
(`IsRank`); `Sorted` is an arrangement of the rates in ascending order, of which there is but one as values go.
`WindowDown` is a sum over the connections, of which there are finitely many.

## 3. Runs

| run | question | bounds |
|---|---|---|
| `billing` | all safety of the billing path, refinement of the ledger, and draining of the spool | 2 users with a chunk each, one unacknowledged delivery of each, 2 deaths |
| `billing_closing` | *violated*: nodes are closed only after a collection | the same, no deaths |
| `node_sync` | no node without realm, none left behind, connections drop for a cause, the data plane catches up | 2 protocols, 3 realm generations (two protocols, no block, one protocol), 3 user versions, both manager schemes, 3 faults, 1 death |
| `node_sync_applied` | *violated*: the applied version is in force | 1 failed start |
| `updater` | the binary is whole, outcomes are on disk, a version stays only if its data plane came up (refinement), a good version gets in | 5 versions (2 work, one is mute, one hangs, one crashes), 2 faults, 2 power losses, 3 plans |
| `updater_verified` | *violated*: what is reported as succeeded works | 1 power loss |
| `relay` | convergence unless a change was cut short, no needless restart, and after a reconciliation without a failure the relay runs what is on disk | 2 binaries, 2 ports, 2 faults of 10 kinds, 2 changes of mind |
| `relay_restart` | *violated*: convergence | 1 failed restart |
| `observation` | drops, sums, order of the events, traced losses | 2 connections, buffer of 2, one counted drop between flushes, a spool file, a minute, 1 death |
| `observation_live` | closes are told, the spool drains | the same with 1 connection |
| `quota` | bytes are held against a user twice only after a restored window or a lost acknowledgement, kicks have their cause, a user over the plan is cut | 1 user who pays for two bytes or, after a change, has no limit but a date; one change of the plan or of the users, one restored window, two lost acknowledgements or files that stay, one death, two points of time |
| `sampling` | one stall for a read and none for an answered request, losses within bounds, the figures of the minute, card windows of one window | 1 connection, 2 cards, 5 events between any number of looks, minutes of up to 2 windows |

Why these bounds are enough. *Billing*: the properties speak of single chunks or of two of them (`OneCopy`); two chunks
of two users give every overlap of window, file and registry, a chunk evicted beside one that is kept, and a file after
another; two deaths let a resend after a death be followed by another. *NodeSync*: an activation, a deactivation and
a reactivation with fewer protocols are the three moves a realm can make; two protocols let one fail beside one that
does not; three faults reach a stale cache, a self heal from it and a failed repair. *Updater*: each pair of behaviours
of the version in place and the one planned occurs, also across power losses. *Relay*: directives that differ in the
port, the binary, both, or neither. *Observation*: a buffer of two is full, half full and empty within a tick, whose
envelopes are up to three. *Quota*: the properties speak of one user at a time, and users meet only in the report
they share; two bytes against a limit of two are one told and one on its way, two lost acknowledgements are a report and
its resend, and a restored window, a death or a change of plan can fall between any two of them. *Sampling*: nothing in the code relates two connections but the sum of their
bytes; five events are a request, an answer, a second request and two of the card, or a request on each side of two
answers, with looks anywhere between. `Overflow` is above what these events can carry, see below.

The four violated runs check what comments of the code promise; the comments are quoted in "findings":

1. `billing_closing`: `applyRebuild` closes all nodes without collecting when the answer has no realm block
   (`main.go:478-486` against 493-494).
2. `node_sync_applied`: a rebuild in which no node starts leaves the applied user version reported (`main.go:595`
   against `internal/config/types.go:175-176`).
3. `updater_verified`: a binary in place that was never verified is reported as succeeded after a power loss
   (`updater.sh:131` against 171-176).
4. `relay_restart`: a failed daemon-reload or restart of the relay is not repeated (`internal/relaymgr/relaymgr.go:155`
   against 87-88).

Four more disagreements show when a constant of a passing run is changed; they have no run of their own:

- With "skip" in `Faults`, `NodeSync` does not catch up (`<>[]CaughtUp` under `FairSpec`): a protocol skipped for want of
  its handshake target is not tried again by the next sync, whose versions are already committed, against
  `internal/config/generator_realm.go:210-211`.
- With `MaxLosses = 0`, `MCUpdaterVerified.cfg` still finds `SucceededMeansWorking` violated: a mute version whose first
  heartbeat fails after the scan of the journal is reported as succeeded and its backup removed (`updater.sh:200` and
  `main.go:360` against "③ 心跳真的能成功", `updater.sh:183`). With it at 1, finding 3 comes first.
- With "copy" in `Faults`, `Updater` violates `AgentIsWhole`: a backup that failed half way is what a rollback puts in
  place (`updater.sh:164` against 11-12).
- With `Overflow = 3`, `Sampling` violates `FiguresOfTheMinute`: a rate is the product of bytes and 8*10^9 in an int64
  (`internal/obs/capacity.go:125-127`, and likewise `quality.go:286`), which holds for less than 1.153*10^9 bytes, 922
  Mbit/s over ten seconds; beyond that the rate wraps around, against the median, 95th percentile and maximum of
  `capacity.go:8-9`. Nodes of 2.5 Gbit/s are planned (`docs/design/REALM_L2_EGRESS_BUILD_GUIDE.md:47`).

Where a positive run must live with one of these it says so in the property: `NoNodeLeftBehind` is about running nodes
only, `CatchesUp` asks for no tainted handler, `ConvergesUnlessCut` for no cut, and `updater` leaves the failing copy
out of its faults. Likewise `LossIsTraced` names the disk as the one way an observed fact goes without a trace: the
error of `os.WriteFile` is dropped in `internal/obs/reporter.go:166`, where line 96 asks for a trace of every drop.

### Fairness

- *Billing*: the main loop's goroutine runs and its statistics ticker fires (weak fairness of `MainLoop`); a manager
  asked again and again answers at last (strong fairness of the acknowledgements). Nothing is assumed of the disk, the
  traffic or the other handlers. The spool is flushed only after a window with rows, so `SpoolDrainsBehindTraffic`
  assumes that such windows keep coming, and names the assumption.
- *NodeSync*: the boot goes on and the sync ticker fires; failed fetches are steps besides the sync, so weak fairness of
  `Sync` says that one succeeds in the end.
- *Updater*: the timer fires and a started script runs (weak fairness of `Script`). The bounds make faults and power
  losses finite. The timer's runs and the heartbeats are not in step, so the scan of the journal does not find the old
  version's failures each time it may: strong fairness of `CheckJournal` with a pass, which is of use only where a pass is
  possible again and again.
- *Relay*: heartbeats go on, a reconciliation runs, systemd restarts what died.
- *Quota*: the agent starts, a report and a flush end one way or the other, a goroutine that was started runs (weak fairness); the
  sync and the timer of ten seconds are served among the other tickers, and a fetch succeeds again and again (strong
  fairness). Nothing is assumed of the traffic, the reports' success or the spool: `OverThePlanIsCut` goes by what the
  manager has counted.
- *Sampling* has no liveness property and no fairness.
- *Observation*: a Go `select` chooses at random among the ready cases, so every ticker that keeps firing is served:
  strong fairness of each handler of a ticker. The endpoint answers at last, as for billing.

Deadlock is checked in every run.

## 4. Proofs

**`BillingProofs`** proves, for every set of users and chunks and every bound, that `Billing` is type correct, the three
invariants and the two action properties, and that it refines `ByteLedger`. The assumptions are those of the module:
`OwnerAssumption` and `BoundAssumption`. `IInv` adds to the properties themselves what ties the handler's hands to its
place (`HandsMatchPlace`: the window is held only between collection and hand-over, an acknowledged file is one the manager
has counted; that it is still in the spool is in `TypeOK`) and that nothing was sent of a chunk never carried (`FreshNeverSent`). Without the first, the step that
removes a file could remove bytes nobody counted, and a second collection could overwrite a window; without the second,
a chunk could be carried with unacknowledged deliveries already behind it. Each step of `Billing` is a `Carry`,
`Deliver`, `Settle`, `DeliverAndSettle` or `Forfeit` of the ledger, or a stutter. `CollectedBeforeClosingThm` says how far
the comment behind finding 1 is true: nothing is lost without a collection before, if the realm block stays
(`RealmStays`) and nodes do not go down leaving counts in the meter (`NoCountsLeftBehind`). The second hypothesis came out
of the proof, and TLC finds the property violated without it: an update of the users collects, every node fails to
take them and to restart, and the full rebuild that follows (`main.go:518-521`) finds no node running, does not collect
again (495-497) and discards the Registry with what came in since, or with a window that was restored to it.

**`NodeSyncProofs`** proves, for any protocols, realm generations, faults and bounds, type correctness,
`NodesOnlyWhileActive` and `ConnectionsDropForCause`, from `NodeSyncAssumption`. The invariant `IInv` adds that the
versions in force are none or those of one answer, a realm version being that of the generation in force and a generation
being active exactly when it has a block (`CommittedTogether`), and that no node runs before the main loop. Without the
first, a hot update could be decided for an answer whose block is gone and leave nodes without a realm; without the
second, a fallback to a cache without a block could. `NoNodeLeftBehind` is proved under `Whole`, as far as it is true:
`BuildConfigs` skips nothing and a started node takes its users; the run keeps "skip" and "push" out of its faults for the
same reason. Its proof follows a handler: a rebuild replaces all nodes or leaves none, a hot update brings every node
of the realm to the new users or replaces it. `AppliedIsInForceThm` says how far the comment behind finding 2 is true:
under `Sound`, nodes start and take their users, and where hot updates may fail, nothing is skipped and the cache is
saved. The invariant adds that nodes and cache are of the generation in force (`RealmRuns`), so that a repair is given
every protocol it needs. None of the four exclusions can be spared: with "start", "push", "update" and "skip", or "update"
and "save" as the only faults TLC finds a counterexample.

**`UpdaterProofs`** proves type correctness, `AgentIsWhole`, `OutcomeIsOnDisk` and `RunsWhatIsInPlace` for any versions,
behaviours, plans and power losses, from `UpdaterAssumption` and `Copies`: the copy to `agent.prev` does not fail
unnoticed, without which `AgentIsWhole` is false. The invariant says for each place of the script which binary is in
place, kept as backup and running: before the swap nothing has changed, after it the backup is what the run began with
until the run decides, after a rollback the old binary is back. A power loss sends any place to "idle", about which it says
only that the running binary is the one in place. From the same invariant `UpgradeRefinement` shows that the script
implements `SafeUpgrade`: the swap is `Try`, a journal without failures is `Keep`, for a version whose ports were up when
they were looked at (`PortsWereUp`), the rollback is `Revert`, a power loss `Interrupt`.

Two theorems say how far the comment on the verification (`updater.sh:171-186`) is true; the invariant of both is `Tested`:
the binary in place, or the one to fall back to, is of the set. `SucceededMeansServing`: if the installed agent serves and
no power loss falls on a trial (`NoLossOnTrial`), whatever is reported as succeeded has had its data plane up.
`SucceededMeansWorkingThm`: it works as well, if also no mute version gets past the scan of the journal (`MuteIsHeard`).
Neither hypothesis can be spared: finding 3 is the first, the run with `MaxLosses = 0` of section 3 the second.

**`RelayProofs`** proves type correctness, `OnlyChangesDisturb` and `ReconciledRuns` for any binaries, ports, faults and bounds. The
invariant relates the disk, what systemd has loaded and what runs: unless a change was cut short, the loaded unit is the
one on disk and the process runs what is on disk, but for the steps in which this very call has written and not yet
restarted; there `changed` tells whether the disk still holds what ran when the call began. `ReconciledRuns` needs one
part more, `UnitIsWritten`: a call that is about to act has the unit of its directive on disk. A reconciliation that meets
no failure then leaves an active relay that runs what is on disk, whatever failed before; its hypothesis `changed \/ ~cut`
is exactly what finding 4 lacks.

**`QuotaProofs`** proves type correctness, `UsageIsBacked` and `KickedForCause` for any users, plans, supplies and bounds.
The invariant adds where the bytes are: meter, window, spool and the manager's count together are no more than what was
carried and what was counted while the agent held on to it (`BytesAreSomewhere`), what a fetch told or saved was accounted for (`FetchedIsPast`), and the session
traffic is no more than the window under report and what was told again (`SessionIsKnown`).

**`SamplingProofs`** proves all six properties of `sampling`, for any connections and cards, widths and numbers of events.

- `OneStallPerRead`, `LossIsBounded`, `StallsAreUnanswered`: what carries the last is `UploadIsRequest`: while a
  connection's download stands where the last look saw it, the upload since it was last seen to grow is part of the one
  request that waits. For the losses it is that what the next look will add is still within what was ever taken for lost
  (`LossToCome`).
- `CardWindowIsOneWindow`, `TypeOK`: the invariant relates the last reading to the counter of the card it is of
  (`CardLags`), and the lists of rates to each other and to the number of windows.
- `FiguresOfTheMinute`: the rates listed are those of the windows (`RatesTrue`), and the rank of a value in a list is
  what sorting makes it (`FiguresAreRanks`, from `RankInOrder`). The hypothesis is that no window ever carries as much as
  `Overflow`; where one does, the property is false, see section 3. The run keeps `Overflow` above what its events can
  carry.

**`ObservationProofs`** proves all five properties of `observation`, for any finitely many connections and any limits,
faults and deaths of the process.

- `ToldOnceInOrder` speaks of the two snapshots: a connection there is has not been told to have closed, what the last
  tick saw is told to have opened and not to have closed, and no minute is told before it is over.
- `DropsAreTheOldestAndCounted`: the buffer is the end of what was offered since the last flush (`Newest`), and its count
  says how much came before it. A tick enqueues several envelopes by a fold, about which it takes a lemma by induction on their
  number.
- `LossIsTraced`: a step takes a fact from buffer, batch and spool only in the ways the property names; that a batch is
  in hand only while it is sent or saved, and that the spool has room for what is saved, is in the invariant
  (`ReporterInv`), and that a buffer that drops nothing keeps everything is the lemma about the fold again.
- `BytesAreSummedOnce`: the sum of the minute, and what was told of the minutes before, is the sum over all connections of
  what ticks have seen of them. The invariant adds that the last tick's snapshot is what is known of a connection and no
  more than it moved (`Measured`), and that only connections told to have opened are known, so that one that is new to a
  tick was never counted. A tick changes many summands at once, hence the theorems on sums.

**`DataTheorems`** holds what these two need about data: induction on the natural numbers and on finite sets, existence of
folds, sums over finite sets of connections (`SumAdd`: the sum of sums; `SumSupport`: zeros do not matter), the largest of
finitely many values, and that any finite list of values can be put in ascending order, in which the value at a position
is the one of that rank. Induction is stated for *sets* instead of predicates, proved from well-foundedness of the
natural numbers and of the subsets of a finite set.

So every invariant and every action property of the passing runs, and both refinements, are proved. The assumptions are
the named ones of the modules (bounds are natural numbers, sets of connections finite, owners and behaviours total) and
the hypotheses stated with a theorem: `Copies`, `Whole` and no overflow for a property that a run checks, and those of the
theorems that delimit findings 1 to 3 (`RealmStays`, `NoCountsLeftBehind`, `Sound`, `NoLossOnTrial`, `MuteIsHeard`, an
installed agent that works or serves).

Only model-checked: liveness, which is out of the prover's reach, as is ENABLED (`SpoolDrainsBehindTraffic`, `CatchesUp`,
`UpgradeCompletes`, `ConvergesUnlessCut`, `ClosesAreTold`, `ObsSpoolDrains`, `OverThePlanIsCut`), and `Converges`, whose
violation is finding 4.

## 5. Not modelled

- A power loss that tears a file the kernel had not yet written (nothing is synced), which is below what the code can see.
- A spooled report the manager refuses for ever blocks every later one; the runs assume it is taken in the end.
- `updater.sh --install` and the installation scripts, run once by hand.
- A version that crashes or falls silent only after it has served for a while. For the verification it is like a mute one,
  which may pass.
- The behaviour aggregator (`internal/obs/collectors.go`): its counts are reset with every window and its thresholds are
  zero (`main.go:210`), so they have no effect on the agent. A reader of its figures should know that windows are said to
  be of 300 s and built every 60 s, and that a connection that outlives a window is new again in the next.
- Round trip times, busy windows, the prefix of the peer and the rates of single connections, computed from the same looks
  as the figures in `Quality`. One QUIC count of losses stands for all; in the code one that was forgotten is counted
  afresh when it is seen again.
- What the agent tells the manager about itself. `register` is called at the start and, in a goroutine, after a rebuild;
  its failure is logged and nothing repeats it, although the log at `main.go:264` says so; two such goroutines may
  overtake one another. An applied version that was cleared is the empty string, which the heartbeat leaves out
  (`internal/config/types.go:177`), so the fleet keeps the old one.
- The generator's ports, identifiers and credentials, a translation of fields no property looks at; the health endpoint,
  environment, logging and system information, which keep no state that matters to anybody else.
- The upstream check, one goroutine that replaces a snapshot under a lock, reported and used by nobody else.
- The certificate (`internal/config/selfsign.go`): two files written once before anything runs. A death while the key is
  written leaves a truncated key that `exists` takes for a whole one at every later start.
- The egress library itself: what the agent relies on of it is in the actions `Carry`, `Connect`, `Move`, `Disconnect`,
  the outcomes of a node's start and update, and the probe of a slot.

## 6. Plan

Done, in this order: the ledger and billing with its proofs, sync, updater with its proofs, relay, observation, the quota
monitor with its proofs, the quality and capacity figures, the proofs of sync, relay, observation and figures, the data
theorems with the proofs that rest on them, the abstract upgrade, and the theorems that delimit findings 1 to 3.

What would come next:

1. The composition of `Quota` and `Billing`: the monitor's `spooled`, `late` and `twice` are an abstraction of the spool, the
   unacknowledged deliveries and the refusals of `Billing`, which a refinement mapping could show.
2. An abstract outbox (offered, kept, told, given up) that `Observation` implements, as `Billing` does the ledger; and the
   hypotheses under which a cut-short change of the relay (finding 4) cannot happen.
3. `Registration`: what the manager believes about the nodes that are up, against the nodes that are, with registrations
   that fail, overtake one another or are never sent.
4. Rates of connections and users, and the upload figures, beside those of the node in `Capacity`.
5. `SelfSign`: the certificate and its key, two files written one after the other.
