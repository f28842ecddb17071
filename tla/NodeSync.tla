------------------------------- MODULE NodeSync -------------------------------
(***************************************************************************)
(* How the agent follows the configuration the manager publishes: the three  *)
(* way sync decision, the rebuild of all egress nodes, the hot update of     *)
(* their users with its per-protocol repair, the cached configuration used   *)
(* when the manager is away, and the rebuild that re-registers nodes lost by *)
(* the rendezvous server.                                                    *)
(*                                                                           *)
(* All handlers run on the one goroutine of the main loop, so a handler is a *)
(* step.  A version string is a number, 0 the empty string.  Nodes hold the  *)
(* version of the users pushed to them and the realm generation they were    *)
(* built from.  The bytes at stake in a rebuild are the matter of Billing.   *)
(***************************************************************************)
EXTENDS Naturals, FiniteSets

CONSTANTS
  Protos,      \* the protocols a node can speak
  Downlink,    \* per realm generation, the protocols of its block; {}: no block
  MaxUsers,    \* bound: user versions the manager publishes
  DualModes,   \* whether the manager sends user_version and realm_version
  Faults,      \* what may go wrong, a subset of AllFaults
  MaxFaults,   \* bound: handlers in which something goes wrong
  MaxCrashes   \* bound: deaths of the process

AllFaults == {"fetch", "start", "skip", "push", "update", "save"}

ASSUME NodeSyncAssumption ==
  /\ Faults \subseteq AllFaults
  /\ DualModes \subseteq BOOLEAN /\ DualModes # {}
  /\ MaxUsers \in Nat \ {0} /\ MaxFaults \in Nat /\ MaxCrashes \in Nat
  /\ DOMAIN Downlink \subseteq Nat \ {0} /\ 1 \in DOMAIN Downlink
  /\ \A g \in DOMAIN Downlink : Downlink[g] \subseteq Protos

VARIABLES
  pub,      \* what the manager publishes
  cur,      \* currentVersion, -UserVersion, -RealmVersion, -Realm, realmActive
  applied,  \* appliedUserVersion, reported with every heartbeat
  node,     \* the running nodes
  cache,    \* users.json
  streak,   \* unregStreak of the registrar
  phase,    \* where Run stands
  faults,   \* handlers that met a fault so far
  crashes   \* deaths so far

\* History.
VARIABLES
  closed,   \* protocols whose running node the last step closed
  lost,     \* slots the last step was told are not registered
  tainted   \* a start, a build or a save went wrong so far

vars == <<pub, cur, applied, node, cache, streak, phase, faults, crashes, closed, lost, tainted>>

Generations == DOMAIN Downlink
Users == 1 .. MaxUsers

\* The answer of the manager: an old one sends the top-level version only.
Response(u, g, dual) ==
  [version |-> <<u, g>>,
   user    |-> IF dual THEN u ELSE 0,
   realm   |-> IF dual THEN g ELSE 0,
   users   |-> u,
   gen     |-> g]
Responses == {Response(u, g, d) : u \in Users, g \in Generations, d \in BOOLEAN}
HasBlock(r) == Downlink[r.gen] # {}

Down == [users |-> 0, gen |-> 0]
AllDown == [p \in Protos |-> Down]
Running == {p \in Protos : node[p] # Down}
NoVersions == [version |-> <<0, 0>>, user |-> 0, realm |-> 0, gen |-> 0, active |-> FALSE]
NoFile == [file |-> "none"]
TornFile == [file |-> "torn"]
Loadable(file) == file \notin {NoFile, TornFile}

Init ==
  /\ pub \in {Response(1, 1, d) : d \in DualModes}
  /\ cur = NoVersions /\ applied = 0 /\ node = AllDown
  /\ cache = NoFile /\ streak = 0 /\ phase = "down"
  /\ faults = 0 /\ crashes = 0
  /\ closed = {} /\ lost = {} /\ tainted = FALSE
-----------------------------------------------------------------------------
\* What may become of each protocol when nodes are built: BuildConfigs skips
\* it, it fails to start, it starts but the user set is not accepted.
Outcomes ==
  [Protos -> {"up"} \union (IF "skip" \in Faults THEN {"skipped"} ELSE {})
                    \union (IF "start" \in Faults THEN {"failed"} ELSE {})
                    \union (IF "push" \in Faults THEN {"hollow"} ELSE {})]
Fine == [p \in Protos |-> "up"]
\* What may become of users.json when it is written.
SaveOutcomes == IF "save" \in Faults THEN {"saved", "kept", "torn"} ELSE {"saved"}
SaveUsers(r, save) ==
  cache' = CASE save = "saved" -> r [] save = "kept" -> cache [] OTHER -> TornFile

\* A handler in which something goes wrong uses up one fault.  A hot update
\* that failed and was repaired leaves no taint.
Suffers(taints, wrong) ==
  /\ wrong \/ taints => faults < MaxFaults
  /\ faults' = IF wrong \/ taints THEN faults + 1 ELSE faults
  /\ tainted' = (tainted \/ taints)

Built(r, out) == {p \in Downlink[r.gen] : out[p] # "skipped"}
Started(r, out) == {p \in Built(r, out) : out[p] # "failed"}
\* The node of a protocol that started: users 0 until a user set is accepted.
NewNode(r, outcome) == [users |-> IF outcome = "hollow" THEN 0 ELSE r.users, gen |-> r.gen]

\* Mutant: a change of the realm is left to a hot update of the users.
DecideByUsers(c, r) ==
  IF c.version = r.version THEN "none"
  ELSE IF r.realm # 0 /\ c.active THEN "update" ELSE "rebuild"

\* decideSyncAction
Decide(c, r) ==
  LET dual == r.user # 0 /\ r.realm # 0
      realmMoved == c.realm # r.realm \/ (HasBlock(r) /\ ~c.active)
  IN  CASE ~dual /\ c.version = r.version -> "none"
        [] ~dual /\ c.version # r.version -> "rebuild"
        [] dual /\ realmMoved -> "rebuild"
        [] dual /\ ~realmMoved /\ c.user # r.user -> "update"
        [] OTHER -> "none"

\* The versions of a response, taken over whether or not nodes come up.
Committed(r) ==
  [version |-> r.version, user |-> r.user, realm |-> r.realm, gen |-> r.gen,
   active |-> HasBlock(r)]

\* rebuildAllNodes, from the nodes n and the versions c: without a single
\* configuration nothing is touched; otherwise every node is closed and those
\* that start take their place.
RebuildAllNodes(r, out, n, c) ==
  IF Built(r, out) = {}
  THEN /\ node' = n /\ cur' = c /\ closed' = {p \in Running : n[p] # node[p]}
       /\ UNCHANGED applied
  ELSE /\ node' = [p \in Protos |-> IF p \in Started(r, out) THEN NewNode(r, out[p]) ELSE Down]
       /\ closed' = Running
       /\ IF Started(r, out) = {}
          THEN cur' = c /\ UNCHANGED applied
          ELSE cur' = [c EXCEPT !.user = r.user] /\ applied' = r.user

RebuildFails(r, out) == Started(r, out) = {}

\* Mutant: without a realm block the nodes are left running.
RebuildClosesNothing(r, out, n, save) ==
  /\ SaveUsers(r, save)
  /\ IF HasBlock(r)
     THEN RebuildAllNodes(r, out, n, Committed(r))
     ELSE /\ node' = n /\ closed' = {}
          /\ cur' = Committed(r) /\ applied' = 0

\* applyRebuild, from the nodes n.
ApplyRebuild(r, out, n, save) ==
  /\ SaveUsers(r, save)
  /\ IF HasBlock(r)
     THEN RebuildAllNodes(r, out, n, Committed(r))
     ELSE /\ node' = AllDown /\ closed' = Running
          /\ cur' = Committed(r) /\ applied' = 0

\* Mutant: a protocol whose hot update failed is left as it is.
RepairNothing(r, out, failed) ==
  [p \in Protos |-> IF p \in Running \ failed THEN [node[p] EXCEPT !.users = r.users] ELSE node[p]]

\* updateUsersAll, then rebuildProtocols for the protocols it failed on: one
\* that BuildConfigs does not give is skipped and keeps the node it had.
Repaired(r, out, failed) ==
  [p \in Protos |->
     IF p \in Running \ failed THEN [node[p] EXCEPT !.users = r.users]
     ELSE IF p \notin failed \intersect Built(r, out) THEN node[p]
     ELSE IF out[p] = "failed" THEN Down ELSE NewNode(r, out[p])]

RepairFails(r, out, failed) == \E p \in failed \intersect Built(r, out) : out[p] = "failed"

\* applyUpdate with nodes running, and every repair it needed done.
UpdateRunning(r, out, failed, save) ==
  /\ ~RepairFails(r, out, failed)
  /\ node' = Repaired(r, out, failed)
  /\ closed' = failed \intersect Built(r, out)
  /\ cur' = Committed(r) /\ applied' = r.user
  /\ SaveUsers(r, save)

\* syncAndApply with an answer of the manager.
SyncAndApply(r) ==
  LET action == Decide(cur, r) IN
  \/ /\ action = "none"
     /\ closed' = {}
     /\ UNCHANGED <<cur, applied, node, cache, faults, tainted>>
  \/ /\ action = "rebuild" \/ (action = "update" /\ Running = {})
     /\ \E out \in Outcomes, save \in SaveOutcomes :
          /\ Suffers(out # Fine \/ save # "saved", FALSE)
          /\ ApplyRebuild(r, out, node, save)
  \/ /\ action = "update" /\ Running # {}
     /\ \E failed \in (IF "update" \in Faults THEN SUBSET Running ELSE {{}}),
           out, again \in Outcomes, save \in SaveOutcomes :
          /\ Suffers(out # Fine \/ again # Fine \/ save # "saved", failed # {})
          /\ failed = {} => out = Fine
          /\ IF RepairFails(r, out, failed)
             THEN ApplyRebuild(r, again, Repaired(r, out, failed), save)
             ELSE again = Fine /\ UpdateRunning(r, out, failed, save)

\* The sync tick, or a heartbeat whose answer asks for the users again.
Sync ==
  /\ phase = "loop"
  /\ SyncAndApply(pub) /\ lost' = {}
  /\ UNCHANGED <<pub, streak, phase, crashes>>

SyncFails ==
  /\ phase = "loop" /\ "fetch" \in Faults
  /\ closed' = {} /\ lost' = {}
  /\ UNCHANGED <<pub, cur, applied, node, cache, streak, phase, faults, crashes, tainted>>
-----------------------------------------------------------------------------
\* Run: the first sync; if it fails, with or without an answer, the cached
\* configuration is tried.
Boot ==
  /\ phase = "down"
  /\ \E out \in Outcomes, save \in SaveOutcomes :
       /\ Suffers(out # Fine \/ save # "saved", FALSE)
       /\ ApplyRebuild(pub, out, node, save)
       /\ phase' = IF HasBlock(pub) /\ RebuildFails(pub, out) THEN "fallback" ELSE "loop"
  /\ lost' = {}
  /\ UNCHANGED <<pub, streak, crashes>>

BootFetchFails ==
  /\ phase = "down" /\ "fetch" \in Faults
  /\ phase' = "fallback" /\ closed' = {} /\ lost' = {}
  /\ UNCHANGED <<pub, cur, applied, node, cache, streak, faults, crashes, tainted>>

\* applyFromCache: without a usable file, or without a block in it, no node.
BootFromCache ==
  /\ phase = "fallback"
  /\ phase' = "loop" /\ lost' = {}
  /\ IF Loadable(cache) /\ HasBlock(cache)
     THEN \E out \in Outcomes :
            /\ Suffers(out # Fine, FALSE)
            /\ RebuildAllNodes(cache, out, node, Committed(cache))
     ELSE /\ cur' = IF Loadable(cache) THEN Committed(cache) ELSE cur
          /\ closed' = {}
          /\ UNCHANGED <<applied, node, faults, tainted>>
  /\ UNCHANGED <<pub, cache, streak, crashes>>

\* Mutant: a single probe is taken for a confirmation.
ConfirmAtOnce(unregistered) == unregistered

\* ConfirmUnregistered: the second unregistered tick in a row confirms.
Confirmed(unregistered) == unregistered /\ streak + 1 >= 2

\* Mutant: a registered tick, or a confirmation, does not reset the count.
StreakKept(unregistered) == IF unregistered THEN streak + 1 ELSE streak
StreakAfter(unregistered) == IF unregistered /\ ~Confirmed(unregistered) THEN streak + 1 ELSE 0

\* What the rendezvous server may say of the slot of a node; "unknown" is any
\* answer but a plain one: an error, a refusal, a server without the endpoint.
Answers == {"registered", "unregistered", "unknown"}
\* The slots realmReconcile asks for: those of the nodes of a realm.
Probed == IF cur.active THEN Running ELSE {}

\* Mutant: whatever is not a plain yes is taken for a no.
RegisteredForSure(answers) == \A p \in DOMAIN answers : answers[p] = "registered"

\* ProbeRegistered: only a plain no counts.
ProbeRegistered(answers) == \A p \in DOMAIN answers : answers[p] # "unregistered"

\* Evaluate: without the rendezvous server a rebuild could not register either.
NeedReload(answers, reachable) == reachable /\ ~ProbeRegistered(answers)

\* realmReconcile: the nodes are rebuilt from the cached configuration when the
\* loss of a registration is confirmed.
Reconcile(answers, reachable) ==
  LET unregistered == NeedReload(answers, reachable)
      heal == Confirmed(unregistered) /\ Running # {} /\ Loadable(cache) /\ HasBlock(cache)
  IN  /\ phase = "loop"
      /\ streak' = StreakAfter(unregistered)
      /\ lost' = {p \in DOMAIN answers : reachable /\ answers[p] = "unregistered"}
      /\ IF heal
         THEN \E out \in Outcomes :
                /\ Suffers(out # Fine, FALSE)
                /\ RebuildAllNodes(cache, out, node, cur)
         ELSE /\ closed' = {}
               /\ UNCHANGED <<cur, applied, node, faults, tainted>>
      /\ UNCHANGED <<pub, cache, phase, crashes>>

\* The process dies; killed while it saves a change, it leaves half a file.
Crash ==
  /\ phase # "down" /\ crashes < MaxCrashes
  /\ phase' = "down" /\ crashes' = crashes + 1
  /\ cur' = NoVersions /\ applied' = 0 /\ node' = AllDown /\ streak' = 0
  /\ closed' = Running /\ lost' = {}
  /\ cache' \in IF "save" \in Faults /\ Decide(cur, pub) # "none" THEN {cache, TornFile} ELSE {cache}
  /\ UNCHANGED <<pub, faults, tainted>>

\* The manager publishes a new user set, or a new realm block.
Publish ==
  /\ \/ pub.users < MaxUsers /\ pub' = Response(pub.users + 1, pub.gen, pub.user # 0)
     \/ /\ pub.gen + 1 \in Generations
        /\ \E d \in DualModes : pub' = Response(pub.users, pub.gen + 1, d)
  /\ closed' = {} /\ lost' = {}
  /\ UNCHANGED <<cur, applied, node, cache, streak, phase, faults, crashes, tainted>>

Next ==
  \/ Boot \/ BootFetchFails \/ BootFromCache
  \/ Sync \/ SyncFails
  \/ \E answers \in [Probed -> Answers], reachable \in BOOLEAN : Reconcile(answers, reachable)
  \/ Publish
  \/ Crash

Spec == Init /\ [][Next]_vars

\* The tickers fire, and a manager asked again and again answers at last.
FairSpec == Spec /\ WF_vars(Boot \/ BootFromCache) /\ WF_vars(Sync)
-----------------------------------------------------------------------------
Files == Responses \union {NoFile, TornFile}

\* Type invariant.
TypeOK ==
  /\ pub \in Responses /\ cache \in Files
  /\ cur \in [version : (0 .. MaxUsers) \X (Generations \union {0}), user : 0 .. MaxUsers,
              realm : Generations \union {0}, gen : Generations \union {0}, active : BOOLEAN]
  /\ applied \in 0 .. MaxUsers
  /\ node \in [Protos -> [users : 0 .. MaxUsers, gen : Generations \union {0}]]
  /\ streak \in 0 .. 1 /\ phase \in {"down", "fallback", "loop"}
  /\ faults \in 0 .. MaxFaults /\ crashes \in 0 .. MaxCrashes
  /\ closed \subseteq Protos /\ lost \subseteq Protos /\ tainted \in BOOLEAN

\* No node outlives the realm block: whenever one runs, the agent holds the
\* configuration it runs for, so that reconciliation can watch over it.
NodesOnlyWhileActive == Running # {} => cur.active

\* The version reported to the fleet is the one that every running node of the
\* realm serves: no failed hot update, repair, rebuild or stale cache leaves a
\* node behind.  It needs node starts to push the users and BuildConfigs to
\* skip nothing, and it leaves out a node of another realm, which a rebuild
\* from a cache that was not saved can bring back and whose failed hot update
\* rebuildProtocols then skips.
NoNodeLeftBehind ==
  applied # 0 => \A p \in Running \intersect Downlink[cur.gen] : node[p].users = applied

\* What the comment on appliedUserVersion says: the version stands for a user
\* set that is in force in the data plane, and is cleared when no node runs.
AppliedIsInForce ==
  applied # 0 => Running # {} /\ \A p \in Running : node[p].users = applied

\* Connections are dropped for a cause: a new realm version, a manager that
\* tells realm and users not apart, something that went wrong in this very
\* handler, or a slot that is plainly not registered now and was not at an
\* earlier tick.  A new user set is none, nor is a probe without an answer.
ConnectionsDropForCause ==
  [][phase = "loop" /\ phase' = "loop" /\ closed' # {} =>
       \/ pub.realm # cur.realm \/ pub.user = 0
       \/ faults' > faults
       \/ streak > 0 /\ lost' # {}]_vars

\* The data plane has caught up with the manager.
CaughtUp ==
  \A p \in Protos :
    node[p] = IF p \in Downlink[pub.gen] THEN [users |-> pub.users, gen |-> pub.gen] ELSE Down

\* If no start, build or save goes wrong, the data plane catches up with what
\* the manager publishes, through failed fetches and hot updates, lost
\* registrations and deaths of the process.
CatchesUp == [](~tainted) => <>[]CaughtUp
=============================================================================
