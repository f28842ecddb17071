---------------------------- MODULE NodeSyncProofs ----------------------------
(***************************************************************************)
(* Theorems about NodeSync, for any protocols, realms, faults and bounds:    *)
(* types, no node without a realm block, connections dropped for a cause;    *)
(* and, where BuildConfigs skips nothing and a started node takes its users, *)
(* no node left behind.                                                      *)
(***************************************************************************)
EXTENDS NodeSync, TLAPS

\* The versions in force are none or those of one answer.
CommittedTogether ==
  \/ cur.gen = 0 /\ cur.realm = 0 /\ ~cur.active
  \/ /\ cur.gen \in Generations /\ cur.realm \in {0, cur.gen}
     /\ cur.active <=> Downlink[cur.gen] # {}

\* Before the main loop no node runs.
NothingRunsBeforeTheLoop == phase # "loop" => node = AllDown

IInv ==
  /\ TypeOK
  /\ CommittedTogether
  /\ NothingRunsBeforeTheLoop
  /\ NodesOnlyWhileActive

\* BuildConfigs gives what the block lists, and a node that starts has the users.
Whole == Faults \intersect {"skip", "push"} = {}

-----------------------------------------------------------------------------
Versions ==
  [version : (0 .. MaxUsers) \X (Generations \union {0}), user : 0 .. MaxUsers,
   realm : Generations \union {0}, gen : Generations \union {0}, active : BOOLEAN]
Nodes == [Protos -> [users : 0 .. MaxUsers, gen : Generations \union {0}]]

\* What an answer of the manager has.
LEMMA ResponseHas ==
  ASSUME NEW r \in Responses
  PROVE  /\ r.users \in Users /\ r.gen \in Generations
         /\ r.users # 0 /\ r.gen # 0
         /\ r.user \in {0, r.users} /\ r.realm \in {0, r.gen}
         /\ r.user = 0 <=> r.realm = 0
         /\ r.version \in (0 .. MaxUsers) \X (Generations \union {0})
         /\ r.user \in 0 .. MaxUsers /\ r.users \in 0 .. MaxUsers
<1>1. PICK u \in Users, g \in Generations, d \in BOOLEAN : r = Response(u, g, d)
  BY DEF Responses
<1>2. u \in 0 .. MaxUsers /\ 0 \in 0 .. MaxUsers /\ u # 0 /\ g # 0
  BY NodeSyncAssumption DEF Users, Generations
<1>3. r.version \in (0 .. MaxUsers) \X (Generations \union {0}) BY <1>1, <1>2 DEF Response
<1>4. r.users = u /\ r.gen = g BY <1>1 DEF Response
<1>5. CASE d BY <1>1, <1>2, <1>3, <1>4, <1>5 DEF Response
<1>6. CASE ~d BY <1>1, <1>2, <1>3, <1>4, <1>6 DEF Response
<1> QED BY <1>5, <1>6

LEMMA ResponseIsOne ==
  ASSUME NEW u \in Users, NEW g \in Generations, NEW d \in BOOLEAN
  PROVE  Response(u, g, d) \in Responses
<1>1. \E v \in Users, h \in Generations, e \in BOOLEAN : Response(u, g, d) = Response(v, h, e)
  OBVIOUS
<1> QED BY <1>1 DEF Responses

\* The versions of an answer are in force together.
LEMMA CommittedHas ==
  ASSUME NEW r \in Responses
  PROVE  /\ Committed(r) \in Versions
         /\ Committed(r).gen = r.gen /\ Committed(r).realm = r.realm
         /\ Committed(r).active = HasBlock(r)
<1>1. HasBlock(r) \in BOOLEAN BY DEF HasBlock
<1> QED BY <1>1, ResponseHas DEF Committed, Versions

LEMMA NewNodeType ==
  ASSUME NEW r \in Responses, NEW outcome
  PROVE  NewNode(r, outcome) \in [users : 0 .. MaxUsers, gen : Generations \union {0}]
<1>1. 0 \in 0 .. MaxUsers BY NodeSyncAssumption
<1> QED BY <1>1, ResponseHas DEF NewNode

LEMMA AllDownType == AllDown \in Nodes /\ 0 \in 0 .. MaxUsers
<1>1. 0 \in 0 .. MaxUsers BY NodeSyncAssumption
<1> QED BY <1>1 DEF AllDown, Down, Nodes

\* A rebuild from the nodes n and the versions c changes no version but that
\* of the users.
LEMMA RebuildType ==
  ASSUME NEW r \in Responses, NEW out, NEW n \in Nodes, NEW c \in Versions,
         applied \in 0 .. MaxUsers, RebuildAllNodes(r, out, n, c)
  PROVE  /\ node' \in Nodes /\ cur' \in Versions /\ applied' \in 0 .. MaxUsers
         /\ closed' \subseteq Running
         /\ cur'.gen = c.gen /\ cur'.realm = c.realm /\ cur'.active = c.active
<1>1. node' \in Nodes
  BY NewNodeType, AllDownType DEF RebuildAllNodes, Nodes, Down, AllDown
<1>2. closed' \subseteq Running /\ applied' \in 0 .. MaxUsers
  BY ResponseHas DEF RebuildAllNodes
<1>3. cur' = c \/ cur' = [c EXCEPT !.user = r.user] BY DEF RebuildAllNodes
<1>4. cur' \in Versions BY <1>3, ResponseHas DEF Versions
<1>5. cur'.gen = c.gen /\ cur'.realm = c.realm /\ cur'.active = c.active
  BY <1>3 DEF Versions
<1> QED BY <1>1, <1>2, <1>4, <1>5

LEMMA SuffersType ==
  ASSUME NEW wrong, NEW taints, faults \in 0 .. MaxFaults, Suffers(taints, wrong)
  PROVE  faults' \in 0 .. MaxFaults /\ (wrong \/ taints => faults' > faults)
  BY NodeSyncAssumption DEF Suffers

LEMMA SaveType ==
  ASSUME NEW r \in Responses, NEW save, cache \in Files, SaveUsers(r, save)
  PROVE  cache' \in Files
  BY DEF SaveUsers, Files

LEMMA LoadableType ==
  ASSUME cache \in Files, Loadable(cache) PROVE cache \in Responses
  BY DEF Files, Loadable

\* applyRebuild: without a block no node is left, with one the nodes are those
\* of a rebuild.
LEMMA ApplyRebuildType ==
  ASSUME NEW r \in Responses, NEW out, NEW n \in Nodes, NEW save,
         applied \in 0 .. MaxUsers, cache \in Files, ApplyRebuild(r, out, n, save)
  PROVE  /\ node' \in Nodes /\ cur' \in Versions /\ applied' \in 0 .. MaxUsers
         /\ closed' \subseteq Running /\ cache' \in Files
         /\ cur'.gen = r.gen /\ cur'.realm = r.realm /\ cur'.active = HasBlock(r)
         /\ ~HasBlock(r) => node' = AllDown
<1>1. cache' \in Files BY SaveType DEF ApplyRebuild
<1>2. CASE HasBlock(r)
  <2>1. RebuildAllNodes(r, out, n, Committed(r)) BY <1>2 DEF ApplyRebuild
  <2> QED BY <1>1, <1>2, <2>1, RebuildType, CommittedHas
<1>3. CASE ~HasBlock(r)
  BY <1>1, <1>3, CommittedHas, AllDownType DEF ApplyRebuild
<1> QED BY <1>2, <1>3

LEMMA RepairedType ==
  ASSUME NEW r \in Responses, NEW out, NEW failed, node \in Nodes
  PROVE  Repaired(r, out, failed) \in Nodes
<1> SUFFICES ASSUME NEW p \in Protos
             PROVE  Repaired(r, out, failed)[p] \in [users : 0 .. MaxUsers, gen : Generations \union {0}]
  BY DEF Repaired, Nodes
<1>1. r.users \in 0 .. MaxUsers /\ Down \in [users : 0 .. MaxUsers, gen : Generations \union {0}]
  BY ResponseHas, AllDownType DEF Down
<1> QED BY <1>1, NewNodeType DEF Repaired, Nodes

\* The decision: a hot update leaves the realm in force, and a rebuild by an
\* answer with both versions has a cause in the realm.
LEMMA DecideMeans ==
  ASSUME NEW r \in Responses, CommittedTogether
  PROVE  /\ Decide(cur, r) = "update" => r.user # 0 /\ cur.realm = r.realm /\ cur.gen = r.gen
                                         /\ (cur.active <=> HasBlock(r))
         /\ Decide(cur, r) = "rebuild" => r.user = 0 \/ cur.realm # r.realm
<1>1. /\ r.gen \in Generations /\ r.gen # 0 /\ r.realm \in {0, r.gen}
      /\ r.user = 0 <=> r.realm = 0
  BY ResponseHas
<1>2. ASSUME r.realm # 0, cur.realm = r.realm PROVE cur.gen = r.gen /\ (cur.active <=> HasBlock(r))
  BY <1>1, <1>2 DEF CommittedTogether, HasBlock
<1>3. Decide(cur, r) = "update" => r.user # 0 /\ cur.realm = r.realm
  BY <1>1 DEF Decide
<1>4. Decide(cur, r) = "rebuild" => r.user = 0 \/ cur.realm # r.realm
  BY <1>1, <1>2 DEF Decide
<1> QED BY <1>1, <1>2, <1>3, <1>4
-----------------------------------------------------------------------------
\* What every handler that may build or close nodes keeps.
Kept ==
  /\ node' \in Nodes /\ cur' \in Versions /\ applied' \in 0 .. MaxUsers
  /\ closed' \subseteq Protos /\ cache' \in Files /\ faults' \in 0 .. MaxFaults
  /\ CommittedTogether' /\ NodesOnlyWhileActive'

\* The versions of an answer, with no node left if it has no block.
LEMMA AnswerInForce ==
  ASSUME NEW r \in Responses,
         cur'.gen = r.gen, cur'.realm = r.realm, cur'.active = HasBlock(r),
         ~HasBlock(r) => node' = AllDown
  PROVE  CommittedTogether' /\ NodesOnlyWhileActive'
<1>1. CommittedTogether' BY ResponseHas DEF CommittedTogether, HasBlock
<1>2. NodesOnlyWhileActive' BY DEF NodesOnlyWhileActive, Running, AllDown
<1> QED BY <1>1, <1>2

\* syncAndApply
LEMMA SyncKeeps == ASSUME IInv, SyncAndApply(pub) PROVE Kept
<1>1. /\ node \in Nodes /\ cur \in Versions /\ applied \in 0 .. MaxUsers /\ cache \in Files
      /\ faults \in 0 .. MaxFaults /\ pub \in Responses /\ Running \subseteq Protos
  BY DEF IInv, TypeOK, Nodes, Versions, Running
<1>2. CASE closed' = {} /\ UNCHANGED <<cur, applied, node, cache, faults, tainted>>
  BY <1>1, <1>2 DEF Kept, IInv, CommittedTogether, NodesOnlyWhileActive, Running
<1>3. ASSUME NEW n \in Nodes, NEW out, NEW save, NEW wrong, NEW taints,
             Suffers(taints, wrong), ApplyRebuild(pub, out, n, save)
      PROVE  Kept
  <2>1. faults' \in 0 .. MaxFaults BY <1>1, <1>3, SuffersType
  <2>2. /\ node' \in Nodes /\ cur' \in Versions /\ applied' \in 0 .. MaxUsers
        /\ closed' \subseteq Running /\ cache' \in Files
        /\ cur'.gen = pub.gen /\ cur'.realm = pub.realm /\ cur'.active = HasBlock(pub)
        /\ ~HasBlock(pub) => node' = AllDown
    BY <1>1, <1>3, ApplyRebuildType
  <2>3. CommittedTogether' /\ NodesOnlyWhileActive' BY <1>1, <2>2, AnswerInForce
  <2> QED BY <1>1, <2>1, <2>2, <2>3 DEF Kept
<1>4. ASSUME NEW out, NEW failed, NEW save, NEW wrong, NEW taints, Decide(cur, pub) = "update",
             Running # {}, Suffers(taints, wrong), UpdateRunning(pub, out, failed, save),
             failed \subseteq Running
      PROVE  Kept
  <2>1. faults' \in 0 .. MaxFaults BY <1>1, <1>4, SuffersType
  <2>2. node' \in Nodes BY <1>1, <1>4, RepairedType DEF UpdateRunning
  <2>3. cur' = Committed(pub) /\ applied' = pub.user BY <1>4 DEF UpdateRunning
  <2>4. /\ cur' \in Versions /\ applied' \in 0 .. MaxUsers
        /\ cur'.gen = pub.gen /\ cur'.realm = pub.realm /\ cur'.active = HasBlock(pub)
    BY <1>1, <2>3, CommittedHas, ResponseHas
  <2>5. HasBlock(pub) BY <1>1, <1>4, DecideMeans DEF IInv, NodesOnlyWhileActive
  <2>6. CommittedTogether' /\ NodesOnlyWhileActive' BY <1>1, <2>4, <2>5, AnswerInForce
  <2>7. closed' \subseteq Protos /\ cache' \in Files
    BY <1>1, <1>4, SaveType DEF UpdateRunning
  <2> QED BY <2>1, <2>2, <2>4, <2>6, <2>7 DEF Kept
<1>5. CASE Decide(cur, pub) = "none" BY <1>2, <1>5 DEF SyncAndApply
<1>6. CASE /\ Decide(cur, pub) \in {"rebuild", "update"}
           /\ \E out \in Outcomes, save \in SaveOutcomes :
                /\ Suffers(out # Fine \/ save # "saved", FALSE)
                /\ ApplyRebuild(pub, out, node, save)
  BY <1>1, <1>3, <1>6
<1>7. CASE /\ Decide(cur, pub) = "update" /\ Running # {}
           /\ \E failed \in SUBSET Running, out, again \in Outcomes, save \in SaveOutcomes :
                /\ Suffers(out # Fine \/ again # Fine \/ save # "saved", failed # {})
                /\ IF RepairFails(pub, out, failed)
                   THEN ApplyRebuild(pub, again, Repaired(pub, out, failed), save)
                   ELSE UpdateRunning(pub, out, failed, save)
  <2>1. PICK failed \in SUBSET Running, out \in Outcomes, again \in Outcomes, save \in SaveOutcomes :
          /\ Suffers(out # Fine \/ again # Fine \/ save # "saved", failed # {})
          /\ IF RepairFails(pub, out, failed)
             THEN ApplyRebuild(pub, again, Repaired(pub, out, failed), save)
             ELSE UpdateRunning(pub, out, failed, save)
    BY <1>7
  <2>2. Repaired(pub, out, failed) \in Nodes BY <1>1, RepairedType
  <2> QED BY <1>3, <1>4, <1>7, <2>1, <2>2
<1> QED BY <1>5, <1>6, <1>7 DEF SyncAndApply

\* The first sync: where it leaves the main loop waiting, no node runs.
LEMMA BootKeeps == ASSUME IInv, Boot PROVE Kept /\ NothingRunsBeforeTheLoop'
<1>1. /\ node = AllDown /\ node \in Nodes /\ applied \in 0 .. MaxUsers /\ cache \in Files
      /\ faults \in 0 .. MaxFaults /\ pub \in Responses /\ Running \subseteq Protos
  BY DEF IInv, TypeOK, Nodes, Running, NothingRunsBeforeTheLoop, Boot
<1>2. PICK out \in Outcomes, save \in SaveOutcomes :
        /\ Suffers(out # Fine \/ save # "saved", FALSE)
        /\ ApplyRebuild(pub, out, node, save)
        /\ phase' = IF HasBlock(pub) /\ RebuildFails(pub, out) THEN "fallback" ELSE "loop"
  BY DEF Boot
<1>3. faults' \in 0 .. MaxFaults BY <1>1, <1>2, SuffersType
<1>4. /\ node' \in Nodes /\ cur' \in Versions /\ applied' \in 0 .. MaxUsers
      /\ closed' \subseteq Running /\ cache' \in Files
      /\ cur'.gen = pub.gen /\ cur'.realm = pub.realm /\ cur'.active = HasBlock(pub)
      /\ ~HasBlock(pub) => node' = AllDown
  BY <1>1, <1>2, ApplyRebuildType
<1>5. CommittedTogether' /\ NodesOnlyWhileActive' BY <1>1, <1>4, AnswerInForce
<1>6. ASSUME phase' # "loop" PROVE node' = AllDown
  <2>1. RebuildFails(pub, out) /\ RebuildAllNodes(pub, out, node, Committed(pub))
    BY <1>2, <1>6 DEF ApplyRebuild
  <2>2. Started(pub, out) = {} BY <2>1 DEF RebuildFails
  <2> QED BY <1>1, <2>1, <2>2 DEF RebuildAllNodes, AllDown
<1> QED BY <1>1, <1>3, <1>4, <1>5, <1>6 DEF Kept, NothingRunsBeforeTheLoop

\* applyFromCache
LEMMA FallbackKeeps == ASSUME IInv, BootFromCache PROVE Kept
<1>1. /\ node = AllDown /\ node \in Nodes /\ applied \in 0 .. MaxUsers /\ cache \in Files
      /\ cur \in Versions /\ faults \in 0 .. MaxFaults /\ Running \subseteq Protos /\ cache' = cache
  BY DEF IInv, TypeOK, Nodes, Versions, Running, NothingRunsBeforeTheLoop, BootFromCache
<1>2. CASE Loadable(cache) /\ HasBlock(cache)
  <2>1. cache \in Responses BY <1>1, <1>2, LoadableType
  <2>2. PICK out \in Outcomes :
          Suffers(out # Fine, FALSE) /\ RebuildAllNodes(cache, out, node, Committed(cache))
    BY <1>2 DEF BootFromCache
  <2>3. faults' \in 0 .. MaxFaults BY <1>1, <2>2, SuffersType
  <2>4. /\ node' \in Nodes /\ cur' \in Versions /\ applied' \in 0 .. MaxUsers
        /\ closed' \subseteq Running
        /\ cur'.gen = cache.gen /\ cur'.realm = cache.realm /\ cur'.active = HasBlock(cache)
    BY <1>1, <2>1, <2>2, RebuildType, CommittedHas
  <2>5. CommittedTogether' /\ NodesOnlyWhileActive' BY <1>2, <2>1, <2>4, AnswerInForce
  <2> QED BY <1>1, <2>3, <2>4, <2>5 DEF Kept
<1>3. CASE ~(Loadable(cache) /\ HasBlock(cache))
  <2>1. /\ cur' = IF Loadable(cache) THEN Committed(cache) ELSE cur
        /\ closed' = {} /\ UNCHANGED <<applied, node, faults, tainted>>
    BY <1>3 DEF BootFromCache
  <2>2. CASE Loadable(cache)
    <3>1. cache \in Responses BY <1>1, <2>2, LoadableType
    <3>2. /\ cur' \in Versions /\ cur'.gen = cache.gen /\ cur'.realm = cache.realm
          /\ cur'.active = HasBlock(cache)
      BY <2>1, <2>2, <3>1, CommittedHas
    <3>3. CommittedTogether' /\ NodesOnlyWhileActive' BY <1>1, <2>1, <3>1, <3>2, AnswerInForce
    <3> QED BY <1>1, <2>1, <3>2, <3>3 DEF Kept
  <2>3. CASE ~Loadable(cache)
    BY <1>1, <2>1, <2>3 DEF Kept, IInv, CommittedTogether, NodesOnlyWhileActive, Running
  <2> QED BY <2>2, <2>3
<1> QED BY <1>2, <1>3

\* realmReconcile: the versions in force stay, but for that of the users.
LEMMA ReconcileKeeps ==
  ASSUME IInv, NEW answers \in [Probed -> Answers], NEW reachable \in BOOLEAN,
         Reconcile(answers, reachable)
  PROVE  Kept /\ lost' \subseteq Protos /\ streak' \in 0 .. 1
<1>1. /\ node \in Nodes /\ applied \in 0 .. MaxUsers /\ cache \in Files /\ streak \in 0 .. 1
      /\ cur \in Versions /\ faults \in 0 .. MaxFaults /\ Running \subseteq Protos /\ cache' = cache
  BY DEF IInv, TypeOK, Nodes, Versions, Running, Reconcile
<1>2. lost' \subseteq Protos BY <1>1 DEF Reconcile, Probed
<1>3. streak' \in 0 .. 1 BY <1>1 DEF Reconcile, StreakAfter, Confirmed
<1>4. CASE closed' = {} /\ UNCHANGED <<cur, applied, node, faults, tainted>>
  BY <1>1, <1>2, <1>3, <1>4 DEF Kept, IInv, CommittedTogether, NodesOnlyWhileActive, Running
<1>5. ASSUME NEW out, Running # {}, Loadable(cache), Suffers(out # Fine, FALSE),
             RebuildAllNodes(cache, out, node, cur)
      PROVE  Kept
  <2>1. cache \in Responses BY <1>1, <1>5, LoadableType
  <2>2. faults' \in 0 .. MaxFaults BY <1>1, <1>5, SuffersType
  <2>3. /\ node' \in Nodes /\ cur' \in Versions /\ applied' \in 0 .. MaxUsers
        /\ closed' \subseteq Running
        /\ cur'.gen = cur.gen /\ cur'.realm = cur.realm /\ cur'.active = cur.active
    BY <1>1, <1>5, <2>1, RebuildType
  <2>4. CommittedTogether' /\ NodesOnlyWhileActive'
    BY <1>5, <2>3 DEF IInv, CommittedTogether, NodesOnlyWhileActive
  <2> QED BY <1>1, <2>2, <2>3, <2>4 DEF Kept
<1>6. \/ closed' = {} /\ UNCHANGED <<cur, applied, node, faults, tainted>>
      \/ /\ Running # {} /\ Loadable(cache)
         /\ \E out \in Outcomes : Suffers(out # Fine, FALSE) /\ RebuildAllNodes(cache, out, node, cur)
  BY DEF Reconcile
<1> QED BY <1>2, <1>3, <1>4, <1>5, <1>6

\* Whatever went wrong once went wrong.
LEMMA TaintedType == ASSUME tainted \in BOOLEAN, [Next]_vars PROVE tainted' \in BOOLEAN
<1>1. ASSUME NEW taints, NEW wrong, Suffers(taints, wrong) PROVE tainted' \in BOOLEAN
  BY Zenon, <1>1 DEF Suffers
<1>2. CASE UNCHANGED tainted BY Zenon, <1>2
<1>3. CASE Boot BY Zenon, <1>1, <1>3 DEF Boot
<1>4. CASE BootFromCache BY Zenon, <1>1, <1>2, <1>4 DEF BootFromCache
<1>5. CASE Sync BY Zenon, <1>1, <1>2, <1>5 DEF Sync, SyncAndApply
<1>6. ASSUME NEW answers, NEW reachable, Reconcile(answers, reachable) PROVE tainted' \in BOOLEAN
  BY Zenon, <1>1, <1>2, <1>6 DEF Reconcile
<1>7. CASE BootFetchFails \/ SyncFails \/ Publish \/ Crash \/ UNCHANGED vars
  BY Zenon, <1>2, <1>7 DEF BootFetchFails, SyncFails, Publish, Crash, vars
<1> QED BY Zenon, <1>3, <1>4, <1>5, <1>6, <1>7 DEF Next
-----------------------------------------------------------------------------
\* The initial states satisfy the invariant.
LEMMA InitInv == Init => IInv
<1> SUFFICES ASSUME Init PROVE IInv OBVIOUS
<1>1. 0 \in 0 .. MaxUsers /\ 0 \in 0 .. MaxFaults /\ 0 \in 0 .. MaxCrashes /\ 0 \in 0 .. 1
  BY NodeSyncAssumption
<1>2. pub \in Responses
  <2>1. 1 \in Users /\ 1 \in Generations BY NodeSyncAssumption DEF Users, Generations
  <2> QED BY <2>1, NodeSyncAssumption DEF Init, Responses
<1>3. cur \in Versions BY <1>1 DEF Init, NoVersions, Versions
<1>4. node \in Nodes BY AllDownType DEF Init
<1>5. tainted \in BOOLEAN BY Zenon DEF Init
<1>6. TypeOK BY <1>1, <1>2, <1>3, <1>4, <1>5 DEF TypeOK, Init, Files, Versions, Nodes
<1>7. CommittedTogether BY DEF Init, CommittedTogether, NoVersions
<1>8. NothingRunsBeforeTheLoop /\ NodesOnlyWhileActive
  BY DEF Init, NothingRunsBeforeTheLoop, NodesOnlyWhileActive, Running, AllDown
<1> QED BY <1>6, <1>7, <1>8 DEF IInv

\* What is kept, with the types of the rest, is the invariant.
LEMMA KeptInv ==
  ASSUME IInv, [Next]_vars, Kept, NothingRunsBeforeTheLoop',
         pub' \in Responses, phase' \in {"down", "fallback", "loop"},
         streak' \in 0 .. 1, crashes' \in 0 .. MaxCrashes, lost' \subseteq Protos
  PROVE  IInv'
<1>1. tainted' \in BOOLEAN BY TaintedType DEF IInv, TypeOK
<1>2. TypeOK' BY <1>1 DEF Kept, TypeOK, Nodes, Versions
<1> QED BY <1>2 DEF Kept, IInv

\* Every step preserves it.
LEMMA NextInv == ASSUME IInv, [Next]_vars PROVE IInv'
<1>1. /\ pub \in Responses /\ phase \in {"down", "fallback", "loop"}
      /\ streak \in 0 .. 1 /\ crashes \in 0 .. MaxCrashes /\ {} \subseteq Protos
      /\ node \in Nodes /\ cur \in Versions /\ applied \in 0 .. MaxUsers
      /\ closed \subseteq Protos /\ lost \subseteq Protos /\ cache \in Files /\ faults \in 0 .. MaxFaults
  BY DEF IInv, TypeOK, Nodes, Versions
<1>2. CASE Boot
  BY <1>1, <1>2, BootKeeps, KeptInv DEF Boot
<1>3. CASE BootFromCache
  <2>1. NothingRunsBeforeTheLoop' BY <1>3 DEF BootFromCache, NothingRunsBeforeTheLoop
  <2> QED BY <1>1, <1>3, <2>1, FallbackKeeps, KeptInv DEF BootFromCache
<1>4. CASE Sync
  <2>1. NothingRunsBeforeTheLoop' BY <1>4 DEF Sync, NothingRunsBeforeTheLoop
  <2> QED BY <1>1, <1>4, <2>1, SyncKeeps, KeptInv DEF Sync
<1>5. ASSUME NEW answers \in [Probed -> Answers], NEW reachable \in BOOLEAN,
             Reconcile(answers, reachable)
      PROVE  IInv'
  <2>1. phase' = "loop" /\ pub' = pub /\ crashes' = crashes BY <1>5 DEF Reconcile
  <2>2. NothingRunsBeforeTheLoop' BY <2>1 DEF NothingRunsBeforeTheLoop
  <2> QED BY <1>1, <1>5, <2>1, <2>2, ReconcileKeeps, KeptInv
<1>6. ASSUME UNCHANGED <<cur, node, applied, cache, faults>>, closed' \subseteq Protos
      PROVE  Kept
  BY <1>1, <1>6 DEF Kept, IInv, CommittedTogether, NodesOnlyWhileActive, Running
<1>7. CASE BootFetchFails
  <2>1. NothingRunsBeforeTheLoop' BY <1>7 DEF IInv, BootFetchFails, NothingRunsBeforeTheLoop
  <2>2. Kept BY <1>6, <1>7 DEF BootFetchFails
  <2> QED BY <1>1, <1>7, <2>1, <2>2, KeptInv DEF BootFetchFails
<1>8. CASE SyncFails
  <2>1. NothingRunsBeforeTheLoop' BY <1>8 DEF IInv, SyncFails, NothingRunsBeforeTheLoop
  <2>2. Kept BY <1>6, <1>8 DEF SyncFails
  <2> QED BY <1>1, <1>8, <2>1, <2>2, KeptInv DEF SyncFails
<1>9. CASE Publish
  <2>1. NothingRunsBeforeTheLoop' BY <1>9 DEF IInv, Publish, NothingRunsBeforeTheLoop
  <2>2. Kept BY <1>6, <1>9 DEF Publish
  <2>3. pub' \in Responses
    <3>1. pub.users \in Users /\ pub.gen \in Generations BY <1>1, ResponseHas
    <3>2. ASSUME pub.users < MaxUsers PROVE pub.users + 1 \in Users
      BY <3>1, <3>2, NodeSyncAssumption DEF Users
    <3>3. (pub.user # 0) \in BOOLEAN OBVIOUS
    <3>4. CASE pub.users < MaxUsers /\ pub' = Response(pub.users + 1, pub.gen, pub.user # 0)
      <4>1. Response(pub.users + 1, pub.gen, pub.user # 0) \in Responses
        BY <3>1, <3>2, <3>3, <3>4, ResponseIsOne
      <4> QED BY <3>4, <4>1
    <3>5. CASE /\ pub.gen + 1 \in Generations
               /\ \E d \in DualModes : pub' = Response(pub.users, pub.gen + 1, d)
      BY <3>1, <3>5, NodeSyncAssumption, ResponseIsOne
    <3> QED BY <1>9, <3>4, <3>5 DEF Publish
  <2> QED BY <1>1, <1>9, <2>1, <2>2, <2>3, KeptInv DEF Publish
<1>10. CASE Crash
  <2>1. /\ node' = AllDown /\ cur' = NoVersions /\ applied' = 0 /\ streak' = 0 /\ phase' = "down"
        /\ closed' = Running /\ lost' = {} /\ crashes < MaxCrashes /\ crashes' = crashes + 1
        /\ cache' \in {cache, TornFile} /\ pub' = pub /\ faults' = faults
    BY <1>10 DEF Crash
  <2>2. cur' \in Versions BY <2>1, NodeSyncAssumption DEF NoVersions, Versions
  <2>3. CommittedTogether' BY <2>1 DEF CommittedTogether, NoVersions
  <2>4. NodesOnlyWhileActive' /\ NothingRunsBeforeTheLoop'
    BY <2>1 DEF NodesOnlyWhileActive, NothingRunsBeforeTheLoop, Running, AllDown
  <2>5. closed' \subseteq Protos /\ cache' \in Files BY <1>1, <2>1 DEF Running, Files
  <2>6. Kept BY <1>1, <2>1, <2>2, <2>3, <2>4, <2>5, AllDownType DEF Kept
  <2>7. crashes' \in 0 .. MaxCrashes /\ streak' \in 0 .. 1 BY <1>1, <2>1, NodeSyncAssumption
  <2> QED BY <1>1, <2>1, <2>4, <2>6, <2>7, KeptInv
<1>11. CASE UNCHANGED vars
  <2>1. NothingRunsBeforeTheLoop' BY <1>11 DEF IInv, vars, NothingRunsBeforeTheLoop
  <2>2. Kept BY <1>1, <1>6, <1>11 DEF vars
  <2> QED BY <1>1, <1>11, <2>1, <2>2, KeptInv DEF vars
<1> QED BY <1>2, <1>3, <1>4, <1>5, <1>7, <1>8, <1>9, <1>10, <1>11 DEF Next

\* Types, the versions in force from one answer, and no node without a block,
\* through every handler, fault and death of the process.
THEOREM Invariant == Spec => []IInv
<1>1. Init => IInv BY InitInv
<1>2. IInv /\ [Next]_vars => IInv' BY NextInv
<1> QED BY <1>1, <1>2, PTL DEF Spec

\* Every variable keeps its type.
THEOREM TypeCorrect == Spec => []TypeOK
<1>1. IInv => TypeOK BY DEF IInv
<1> QED BY <1>1, Invariant, PTL

\* No node outlives the realm block it was built from.
THEOREM NodesOnlyWhileActiveThm == Spec => []NodesOnlyWhileActive
<1>1. IInv => NodesOnlyWhileActive BY DEF IInv
<1> QED BY <1>1, Invariant, PTL
-----------------------------------------------------------------------------
\* A node is only closed in the main loop for a cause.
LEMMA DropStep ==
  ASSUME IInv, Next, phase = "loop", phase' = "loop", closed' # {}
  PROVE  \/ pub.realm # cur.realm \/ pub.user = 0
         \/ faults' > faults
         \/ streak > 0 /\ lost' # {}
<1>1. /\ node \in Nodes /\ cur \in Versions /\ applied \in 0 .. MaxUsers /\ cache \in Files
      /\ faults \in 0 .. MaxFaults /\ pub \in Responses /\ streak \in 0 .. 1
      /\ CommittedTogether
  BY DEF IInv, TypeOK, Nodes, Versions
<1>2. CASE Sync
  <2>1. CASE Decide(cur, pub) = "none" BY <1>2, <2>1 DEF Sync, SyncAndApply
  <2>2. CASE Decide(cur, pub) = "rebuild" BY <1>1, <2>2, DecideMeans
  <2>3. CASE Decide(cur, pub) = "update" /\ Running = {}
    <3>1. PICK out \in Outcomes, save \in SaveOutcomes : ApplyRebuild(pub, out, node, save)
      BY <1>2, <2>3 DEF Sync, SyncAndApply
    <3> QED BY <1>1, <2>3, <3>1, ApplyRebuildType
  <2>4. CASE Decide(cur, pub) = "update" /\ Running # {}
    <3>1. PICK failed \in SUBSET Running, out \in Outcomes, again \in Outcomes, save \in SaveOutcomes :
            /\ Suffers(out # Fine \/ again # Fine \/ save # "saved", failed # {})
            /\ IF RepairFails(pub, out, failed)
               THEN ApplyRebuild(pub, again, Repaired(pub, out, failed), save)
               ELSE UpdateRunning(pub, out, failed, save)
      BY <1>2, <2>4 DEF Sync, SyncAndApply
    <3>2. CASE failed # {} BY <1>1, <3>1, <3>2, SuffersType
    <3>3. CASE failed = {} BY <3>1, <3>3 DEF RepairFails, UpdateRunning
    <3> QED BY <3>2, <3>3
  <2> QED BY <1>2, <2>1, <2>2, <2>3, <2>4 DEF Sync, SyncAndApply
<1>3. ASSUME NEW answers \in [Probed -> Answers], NEW reachable \in BOOLEAN,
             Reconcile(answers, reachable)
      PROVE  streak > 0 /\ lost' # {}
  <2>1. Confirmed(NeedReload(answers, reachable)) BY <1>3 DEF Reconcile
  <2>2. NeedReload(answers, reachable) /\ streak + 1 >= 2 BY <2>1 DEF Confirmed
  <2>3. \E p \in DOMAIN answers : reachable /\ answers[p] = "unregistered"
    BY <2>2 DEF NeedReload, ProbeRegistered
  <2>4. lost' # {} BY <1>3, <2>3 DEF Reconcile
  <2> QED BY <1>1, <2>2, <2>4
<1>4. ~(Boot \/ BootFetchFails \/ BootFromCache \/ SyncFails \/ Publish \/ Crash)
  BY DEF Boot, BootFetchFails, BootFromCache, SyncFails, Publish, Crash
<1> QED BY <1>2, <1>3, <1>4 DEF Next

\* Connections are dropped for a new realm, for a manager that tells realm and
\* users not apart, in a handler that met a fault, or for a loss of
\* registration that was seen at an earlier tick already.
THEOREM DropsForCause == Spec => ConnectionsDropForCause
<1>1. IInv /\ [Next]_vars =>
        [phase = "loop" /\ phase' = "loop" /\ closed' # {} =>
           \/ pub.realm # cur.realm \/ pub.user = 0
           \/ faults' > faults
           \/ streak > 0 /\ lost' # {}]_vars
  BY DropStep
<1> QED BY <1>1, Invariant, PTL DEF Spec, ConnectionsDropForCause
-----------------------------------------------------------------------------
\* What a rebuild from a configuration with a block leaves behind.
LEMMA RebuildServes ==
  ASSUME Whole, NEW r \in Responses, HasBlock(r), NEW out \in Outcomes, NEW n, NEW c,
         RebuildAllNodes(r, out, n, c)
  PROVE  NoNodeLeftBehind'
<1>1. Built(r, out) = Downlink[r.gen] /\ \A p \in Protos : out[p] # "hollow"
  <2>1. Downlink[r.gen] \subseteq Protos BY ResponseHas, NodeSyncAssumption DEF Generations
  <2>2. \A p \in Protos : out[p] \in {"up", "failed"} BY DEF Outcomes, Whole
  <2> QED BY <2>1, <2>2 DEF Built
<1>2. Built(r, out) # {} BY <1>1 DEF HasBlock
<1>3. node' = [p \in Protos |-> IF p \in Started(r, out) THEN NewNode(r, out[p]) ELSE Down]
  BY <1>2 DEF RebuildAllNodes
<1>4. CASE Started(r, out) = {}
  BY <1>3, <1>4 DEF NoNodeLeftBehind, Running
<1>5. CASE Started(r, out) # {}
  <2>1. applied' = r.user BY <1>2, <1>5 DEF RebuildAllNodes
  <2>2. ASSUME NEW p \in Running' PROVE node'[p].users = r.users
    BY <1>1, <1>3, <2>2 DEF Running, NewNode
  <2> QED BY <2>1, <2>2, ResponseHas DEF NoNodeLeftBehind
<1> QED BY <1>4, <1>5

LEMMA ApplyServes ==
  ASSUME Whole, NEW r \in Responses, NEW out \in Outcomes, NEW n, NEW save,
         ApplyRebuild(r, out, n, save)
  PROVE  NoNodeLeftBehind'
<1>1. CASE HasBlock(r) BY <1>1, RebuildServes DEF ApplyRebuild
<1>2. CASE ~HasBlock(r) BY <1>2 DEF ApplyRebuild, NoNodeLeftBehind, Running, AllDown
<1> QED BY <1>1, <1>2

\* A hot update and its repairs bring every node of the realm to the new users.
LEMMA UpdateServes ==
  ASSUME Whole, NEW r \in Responses, node \in Nodes, NEW out \in Outcomes,
         NEW failed \in SUBSET Running, NEW save, UpdateRunning(r, out, failed, save)
  PROVE  NoNodeLeftBehind'
<1>1. \A p \in Protos : out[p] \in {"up", "failed"} BY DEF Outcomes, Whole
<1>2. Downlink[r.gen] \subseteq Protos BY ResponseHas, NodeSyncAssumption DEF Generations
<1>3. node' = Repaired(r, out, failed) /\ applied' = r.user /\ cur'.gen = r.gen
  BY CommittedHas DEF UpdateRunning
<1>4. ASSUME NEW p \in Running', p \in Downlink[r.gen] PROVE node'[p].users = r.users
  <2>1. p \in Protos /\ node'[p] # Down BY <1>4 DEF Running
  <2>2. p \in Built(r, out) BY <1>1, <1>2, <1>4 DEF Built
  <2>3. node'[p] = IF p \in Running \ failed THEN [node[p] EXCEPT !.users = r.users]
                   ELSE IF p \notin failed THEN node[p]
                   ELSE IF out[p] = "failed" THEN Down ELSE NewNode(r, out[p])
    BY <1>3, <2>1, <2>2 DEF Repaired
  <2>4. CASE p \in Running \ failed BY <2>1, <2>3, <2>4 DEF Nodes
  <2>5. CASE p \notin Running /\ p \notin failed BY <2>1, <2>3, <2>5 DEF Running
  <2>6. CASE p \in failed BY <1>1, <2>1, <2>3, <2>6 DEF NewNode
  <2> QED BY <2>4, <2>5, <2>6
<1> QED BY <1>3, <1>4, ResponseHas DEF NoNodeLeftBehind

\* One step leaves no node behind.
LEMMA NextServes ==
  ASSUME Whole, IInv, NoNodeLeftBehind, [Next]_vars
  PROVE  NoNodeLeftBehind'
<1>1. node \in Nodes /\ cache \in Files /\ pub \in Responses
  BY DEF IInv, TypeOK, Nodes
<1>2. CASE UNCHANGED <<node, cur, applied>>
  BY <1>2 DEF NoNodeLeftBehind, Running
<1>3. ASSUME node' = AllDown PROVE NoNodeLeftBehind'
  BY <1>3 DEF NoNodeLeftBehind, Running, AllDown
<1>4. CASE Boot BY <1>1, <1>4, ApplyServes DEF Boot
<1>5. CASE BootFromCache
  <2>1. CASE Loadable(cache) /\ HasBlock(cache)
    BY <1>1, <1>5, <2>1, LoadableType, RebuildServes DEF BootFromCache
  <2>2. CASE ~(Loadable(cache) /\ HasBlock(cache))
    BY <1>3, <1>5, <2>2 DEF BootFromCache, IInv, NothingRunsBeforeTheLoop
  <2> QED BY <2>1, <2>2
<1>6. CASE Sync
  <2>1. CASE UNCHANGED <<node, cur, applied>> BY <1>2, <2>1
  <2>2. CASE \E out \in Outcomes, save \in SaveOutcomes : ApplyRebuild(pub, out, node, save)
    BY <1>1, <2>2, ApplyServes
  <2>3. CASE \E failed \in SUBSET Running, out, again \in Outcomes, save \in SaveOutcomes :
               IF RepairFails(pub, out, failed)
               THEN ApplyRebuild(pub, again, Repaired(pub, out, failed), save)
               ELSE UpdateRunning(pub, out, failed, save)
    BY <1>1, <2>3, ApplyServes, UpdateServes
  <2> QED BY <1>6, <2>1, <2>2, <2>3 DEF Sync, SyncAndApply
<1>7. ASSUME NEW answers, NEW reachable, Reconcile(answers, reachable) PROVE NoNodeLeftBehind'
  <2>1. \/ UNCHANGED <<node, cur, applied>>
        \/ /\ Loadable(cache) /\ HasBlock(cache)
           /\ \E out \in Outcomes : RebuildAllNodes(cache, out, node, cur)
    BY <1>7 DEF Reconcile
  <2> QED BY <1>1, <1>2, <2>1, LoadableType, RebuildServes
<1>8. CASE BootFetchFails \/ SyncFails \/ Publish \/ UNCHANGED vars
  BY <1>2, <1>8 DEF BootFetchFails, SyncFails, Publish, vars
<1>9. CASE Crash BY <1>3, <1>9 DEF Crash
<1> QED BY <1>4, <1>5, <1>6, <1>7, <1>8, <1>9 DEF Next

\* Where BuildConfigs skips nothing and a started node takes its users, the
\* version reported is the one every running node of the realm serves.
THEOREM NoNodeLeftBehindThm == ASSUME Whole PROVE Spec => []NoNodeLeftBehind
<1>1. Init => IInv /\ NoNodeLeftBehind BY InitInv DEF Init, NoNodeLeftBehind
<1>2. IInv /\ NoNodeLeftBehind /\ [Next]_vars => IInv' /\ NoNodeLeftBehind'
  BY NextInv, NextServes
<1> QED BY <1>1, <1>2, PTL DEF Spec
-----------------------------------------------------------------------------
\* Every node starts and takes its users; and where a hot update may fail,
\* BuildConfigs skips nothing and the cache is saved, so that what is rebuilt
\* is of the realm in force.
Sound ==
  /\ Faults \intersect {"start", "push"} = {}
  /\ "update" \in Faults => Faults \intersect {"skip", "save"} = {}

\* The nodes and the cache are of the generation in force.
RealmRuns ==
  cur.gen # 0 => Running \subseteq Downlink[cur.gen] /\ Loadable(cache) /\ cache.gen = cur.gen

\* The applied version is in force, with what a failed hot update needs to be
\* repaired.
InForce == AppliedIsInForce /\ ("update" \in Faults => RealmRuns)

\* The outcomes of building that are left.
LEMMA SoundOutcomes ==
  ASSUME Sound, NEW out \in Outcomes, NEW p \in Protos
  PROVE  out[p] \in {"up", "skipped"} /\ ("update" \in Faults => out[p] = "up")
  BY DEF Sound, Outcomes

LEMMA ResponseLoads == ASSUME NEW r \in Responses PROVE Loadable(r)
<1>1. PICK u \in Users, g \in Generations, d \in BOOLEAN : r = Response(u, g, d)
  BY DEF Responses
<1>2. DOMAIN r # {"file"} BY <1>1 DEF Response
<1>3. DOMAIN NoFile = {"file"} /\ DOMAIN TornFile = {"file"} BY DEF NoFile, TornFile
<1>4. r # NoFile /\ r # TornFile BY <1>2, <1>3
<1> QED BY <1>4 DEF Loadable

\* A rebuild replaces all nodes by some with the users of the configuration,
\* or touches nothing; by all of them where a hot update may fail.
LEMMA RebuildInForce ==
  ASSUME Sound, AppliedIsInForce, node \in Nodes,
         NEW r \in Responses, HasBlock(r), NEW out \in Outcomes, NEW c,
         RebuildAllNodes(r, out, node, c)
  PROVE  AppliedIsInForce' /\ ("update" \in Faults => Running' = Downlink[r.gen])
<1>1. Downlink[r.gen] \subseteq Protos BY ResponseHas, NodeSyncAssumption DEF Generations
<1>2. Started(r, out) = Built(r, out) BY <1>1, SoundOutcomes DEF Started, Built
<1>3. "update" \in Faults => Built(r, out) = Downlink[r.gen]
  <2>1. ASSUME "update" \in Faults, NEW p \in Downlink[r.gen] PROVE out[p] # "skipped"
    BY <1>1, <2>1, SoundOutcomes
  <2> QED BY <2>1 DEF Built
<1>4. CASE Built(r, out) = {}
  <2>1. node' = node /\ applied' = applied BY <1>4 DEF RebuildAllNodes
  <2> QED BY <1>3, <1>4, <2>1 DEF AppliedIsInForce, Running, HasBlock
<1>5. CASE Built(r, out) # {}
  <2>1. /\ node' = [p \in Protos |-> IF p \in Built(r, out) THEN NewNode(r, out[p]) ELSE Down]
        /\ applied' = r.user
    BY <1>2, <1>5 DEF RebuildAllNodes
  <2>2. Built(r, out) \subseteq Protos BY <1>1 DEF Built
  <2>3. ASSUME NEW p \in Built(r, out) PROVE node'[p].users = r.users /\ node'[p] # Down
    <3>1. out[p] # "hollow" BY <2>2, SoundOutcomes
    <3>2. node'[p] = NewNode(r, out[p]) BY <2>1, <2>2
    <3> QED BY <3>1, <3>2, ResponseHas DEF NewNode, Down
  <2>4. \A p \in Protos : p \notin Built(r, out) => node'[p] = Down BY <2>1
  <2>5. Running' = Built(r, out) BY <2>2, <2>3, <2>4 DEF Running
  <2>6. AppliedIsInForce' BY <1>5, <2>1, <2>3, <2>5, ResponseHas DEF AppliedIsInForce
  <2> QED BY <1>3, <2>5, <2>6
<1> QED BY <1>4, <1>5

LEMMA ApplyInForce ==
  ASSUME Sound, IInv, AppliedIsInForce, NEW r \in Responses, NEW out \in Outcomes,
         NEW save \in SaveOutcomes, ApplyRebuild(r, out, node, save)
  PROVE  InForce'
<1>1. node \in Nodes /\ applied \in 0 .. MaxUsers /\ cache \in Files
  BY DEF IInv, TypeOK, Nodes
<1>2. cur'.gen = r.gen /\ (~HasBlock(r) => node' = AllDown) BY <1>1, ApplyRebuildType
<1>3. AppliedIsInForce' /\ ("update" \in Faults => Running' = Downlink[r.gen])
  <2>1. CASE HasBlock(r) BY <1>1, <2>1, RebuildInForce DEF ApplyRebuild
  <2>2. CASE ~HasBlock(r)
    <3>1. applied' = 0 /\ Running' = {} BY <2>2 DEF ApplyRebuild, Running, AllDown
    <3> QED BY <2>2, <3>1 DEF AppliedIsInForce, HasBlock
  <2> QED BY <2>1, <2>2
<1>4. "update" \in Faults => cache' = r
  BY DEF Sound, SaveOutcomes, ApplyRebuild, SaveUsers
<1> QED BY <1>2, <1>3, <1>4, ResponseLoads DEF InForce, RealmRuns

\* A hot update leaves the running nodes running, each with the new users: by
\* the update, or by a repair, which is given every protocol that it needs.
LEMMA UpdateInForce ==
  ASSUME Sound, IInv, InForce, Running # {}, Decide(cur, pub) = "update",
         NEW out \in Outcomes, NEW failed \in SUBSET Running, NEW save \in SaveOutcomes,
         failed # {} => "update" \in Faults, UpdateRunning(pub, out, failed, save)
  PROVE  InForce'
<1>1. /\ node \in Nodes /\ pub \in Responses /\ Running \subseteq Protos /\ CommittedTogether
  BY DEF IInv, TypeOK, Nodes, Running
<1>2. /\ pub.user = pub.users /\ pub.users # 0 /\ cur.gen = pub.gen /\ pub.gen # 0
  BY <1>1, DecideMeans, ResponseHas
<1>3. /\ node' = Repaired(pub, out, failed) /\ applied' = pub.user
      /\ cur'.gen = pub.gen /\ SaveUsers(pub, save)
  BY <1>1, CommittedHas DEF UpdateRunning
<1>4. failed \subseteq Built(pub, out)
  <2>1. ASSUME NEW p \in failed PROVE p \in Built(pub, out)
    <3>1. "update" \in Faults /\ p \in Protos BY <1>1, <2>1
    <3>2. p \in Downlink[pub.gen] BY <1>2, <2>1, <3>1 DEF InForce, RealmRuns
    <3> QED BY <3>1, <3>2, SoundOutcomes DEF Built
  <2> QED BY <2>1
<1>5. ASSUME NEW p \in Running PROVE node'[p].users = pub.users /\ node'[p] # Down
  <2>1. p \in Protos /\ out[p] \in {"up", "skipped"} BY <1>1, SoundOutcomes
  <2>2. CASE p \in failed
    <3>1. node'[p] = NewNode(pub, out[p]) BY <1>3, <1>4, <2>1, <2>2 DEF Repaired
    <3> QED BY <1>2, <2>1, <3>1 DEF NewNode, Down
  <2>3. CASE p \notin failed
    <3>1. node'[p] = [node[p] EXCEPT !.users = pub.users] BY <1>3, <2>1, <2>3 DEF Repaired
    <3>2. node[p] \in [users : 0 .. MaxUsers, gen : Generations \union {0}]
      BY <1>1, <2>1 DEF Nodes
    <3> QED BY <1>2, <3>1, <3>2 DEF Down
  <2> QED BY <2>2, <2>3
<1>6. ASSUME NEW p \in Protos, p \notin Running PROVE node'[p] = Down
  <2>1. p \notin failed /\ node[p] = Down BY <1>6 DEF Running
  <2> QED BY <1>3, <1>6, <2>1 DEF Repaired
<1>7. Running' = Running BY <1>1, <1>5, <1>6 DEF Running
<1>8. AppliedIsInForce' BY <1>2, <1>3, <1>5, <1>7 DEF AppliedIsInForce
<1>9. "update" \in Faults => RealmRuns'
  <2>1. "update" \in Faults => cache' = pub BY <1>3 DEF Sound, SaveOutcomes, SaveUsers
  <2> QED BY <1>1, <1>2, <1>3, <1>7, <2>1, ResponseLoads DEF InForce, RealmRuns
<1> QED BY <1>8, <1>9 DEF InForce

\* Every step keeps the applied version in force.
LEMMA NextInForce == ASSUME Sound, IInv, InForce, [Next]_vars PROVE InForce'
<1>1. /\ node \in Nodes /\ cache \in Files /\ pub \in Responses /\ cur \in Versions
      /\ applied \in 0 .. MaxUsers /\ AppliedIsInForce
  BY DEF IInv, TypeOK, Nodes, Versions, InForce
<1>2. ASSUME UNCHANGED <<node, cur, applied, cache>> PROVE InForce'
  BY <1>2 DEF InForce, AppliedIsInForce, RealmRuns, Running
<1>3. CASE Boot BY <1>1, <1>3, ApplyInForce DEF Boot
<1>4. CASE BootFromCache
  <2>1. CASE Loadable(cache) /\ HasBlock(cache)
    <3>1. cache \in Responses BY <1>1, <2>1, LoadableType
    <3>2. PICK out \in Outcomes : RebuildAllNodes(cache, out, node, Committed(cache))
      BY <1>4, <2>1 DEF BootFromCache
    <3>3. AppliedIsInForce' /\ ("update" \in Faults => Running' = Downlink[cache.gen])
      BY <1>1, <2>1, <3>1, <3>2, RebuildInForce
    <3>4. cur'.gen = cache.gen BY <1>1, <3>1, <3>2, RebuildType, CommittedHas
    <3>5. cache' = cache BY <1>4 DEF BootFromCache
    <3> QED BY <3>1, <3>3, <3>4, <3>5, ResponseLoads DEF InForce, RealmRuns
  <2>2. CASE ~(Loadable(cache) /\ HasBlock(cache))
    <3>1. /\ cur' = IF Loadable(cache) THEN Committed(cache) ELSE cur
          /\ UNCHANGED <<applied, node, cache>>
      BY <1>4, <2>2 DEF BootFromCache
    <3>2. node = AllDown BY <1>4 DEF BootFromCache, IInv, NothingRunsBeforeTheLoop
    <3>3. Running' = {} /\ Running = {} BY <3>1, <3>2 DEF Running, AllDown
    <3>4. AppliedIsInForce' BY <1>1, <3>1, <3>3 DEF AppliedIsInForce
    <3>5. CASE Loadable(cache)
      <4>1. cache \in Responses BY <1>1, <3>5, LoadableType
      <4>2. cur'.gen = cache.gen BY <3>1, <3>5, <4>1, CommittedHas
      <4> QED BY <3>1, <3>3, <3>4, <4>1, <4>2, ResponseLoads DEF InForce, RealmRuns
    <3>6. CASE ~Loadable(cache)
      BY <1>2, <3>1, <3>6
    <3> QED BY <3>5, <3>6
  <2> QED BY <2>1, <2>2
<1>5. CASE Sync
  <2>1. CASE UNCHANGED <<cur, applied, node, cache>> BY <1>2, <2>1
  <2>2. CASE \E out \in Outcomes, save \in SaveOutcomes : ApplyRebuild(pub, out, node, save)
    BY <1>1, <2>2, ApplyInForce
  <2>3. CASE /\ Decide(cur, pub) = "update" /\ Running # {}
             /\ \E failed \in (IF "update" \in Faults THEN SUBSET Running ELSE {{}}),
                   out, again \in Outcomes, save \in SaveOutcomes :
                  IF RepairFails(pub, out, failed)
                  THEN ApplyRebuild(pub, again, Repaired(pub, out, failed), save)
                  ELSE UpdateRunning(pub, out, failed, save)
    <3>1. PICK failed \in (IF "update" \in Faults THEN SUBSET Running ELSE {{}}),
               out \in Outcomes, again \in Outcomes, save \in SaveOutcomes :
            IF RepairFails(pub, out, failed)
            THEN ApplyRebuild(pub, again, Repaired(pub, out, failed), save)
            ELSE UpdateRunning(pub, out, failed, save)
      BY <2>3
    <3>2. failed \in SUBSET Running /\ (failed # {} => "update" \in Faults) OBVIOUS
    <3>3. ~RepairFails(pub, out, failed)
      BY <3>2, SoundOutcomes DEF RepairFails, Running
    <3> QED BY <2>3, <3>1, <3>2, <3>3, UpdateInForce
  <2> QED BY <1>5, <2>1, <2>2, <2>3 DEF Sync, SyncAndApply
<1>6. ASSUME NEW answers, NEW reachable, Reconcile(answers, reachable) PROVE InForce'
  <2>1. CASE UNCHANGED <<cur, applied, node, cache>> BY <1>2, <2>1
  <2>2. CASE /\ Loadable(cache) /\ HasBlock(cache) /\ Running # {} /\ cache' = cache
             /\ \E out \in Outcomes : RebuildAllNodes(cache, out, node, cur)
    <3>1. cache \in Responses BY <1>1, <2>2, LoadableType
    <3>2. PICK out \in Outcomes : RebuildAllNodes(cache, out, node, cur) BY <2>2
    <3>3. AppliedIsInForce' /\ ("update" \in Faults => Running' = Downlink[cache.gen])
      BY <1>1, <2>2, <3>1, <3>2, RebuildInForce
    <3>4. cur'.gen = cur.gen BY <1>1, <3>1, <3>2, RebuildType
    <3> QED BY <2>2, <3>3, <3>4 DEF InForce, RealmRuns
  <2> QED BY <1>6, <2>1, <2>2 DEF Reconcile
<1>7. CASE BootFetchFails \/ SyncFails \/ Publish \/ UNCHANGED vars
  BY <1>2, <1>7 DEF BootFetchFails, SyncFails, Publish, vars
<1>8. CASE Crash
  BY <1>8 DEF Crash, InForce, AppliedIsInForce, RealmRuns, NoVersions
<1> QED BY <1>3, <1>4, <1>5, <1>6, <1>7, <1>8 DEF Next

\* types.go, the comment on the applied version that it stands for users in
\* force in the data plane: it does, through failed fetches, hot updates and
\* deaths of the process, but only as long as no node fails to start or to
\* take its users, and a failed hot update does not meet a protocol that was
\* skipped or a cache that was not saved.
THEOREM AppliedIsInForceThm == ASSUME Sound PROVE Spec => []AppliedIsInForce
<1>1. Init => InForce
  BY DEF Init, InForce, AppliedIsInForce, RealmRuns, NoVersions
<1>2. Sound /\ IInv /\ InForce /\ [Next]_vars => InForce' BY NextInForce
<1>3. InForce => AppliedIsInForce BY DEF InForce
<1> QED BY <1>1, <1>2, <1>3, Invariant, PTL DEF Spec
=============================================================================
