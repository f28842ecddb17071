------------------------------- MODULE Billing -------------------------------
(***************************************************************************)
(* The billing path of the agent: the meter shared by the egress nodes, the  *)
(* window collectAndReportBilling takes from it by a destructive read, the   *)
(* report to the manager, the spool of reports that could not be sent, and   *)
(* the handlers of the main loop that close nodes or change the user set and *)
(* therefore collect first.                                                  *)
(*                                                                           *)
(* The main loop is one goroutine, so at most one billing handler is under   *)
(* way; `pc` is where it stands and `after` what it does once the window is  *)
(* handed over.  The nodes keep carrying traffic while it runs, a request    *)
(* that timed out may still be counted later, and the process may die        *)
(* between any two steps.  What collectAndReportBilling tells the quota      *)
(* monitor does not come back to these steps and is left out.                *)
(***************************************************************************)
EXTENDS Naturals

CONSTANTS
  Users,       \* the users of the node
  Chunks,      \* chunks of traffic: bytes of one user that move together
  Owner,       \* the user whose traffic a chunk is
  MaxRepeats,  \* bound: deliveries of a chunk that go unacknowledged
  MaxCrashes   \* bound: deaths of the process

ASSUME OwnerAssumption == Owner \in [Chunks -> Users]
ASSUME BoundAssumption == MaxRepeats \in Nat /\ MaxCrashes \in Nat

VARIABLES
  up,        \* some egress node runs
  registry,  \* chunks in the counters of the shared Registry
  window,    \* chunks in the hands of collectAndReportBilling
  spool,     \* the readable report files, each the chunks it reports
  torn,      \* there is an unreadable (truncated) report file
  sent,      \* the report file just acknowledged, not yet removed
  pc,        \* where the billing handler stands
  after,     \* what the handler does when billing is done
  crashes    \* deaths so far

\* The manager and the network, and what history needs to remember.
VARIABLES
  credited,  \* how many times the manager counted a chunk
  late,      \* deliveries of a chunk that may still reach the manager
  repeats,   \* deliveries of a chunk whose acknowledgement was never used
  fresh,     \* chunks not carried yet
  lost       \* chunks the agent dropped without an acknowledged report

codeVars == <<up, registry, window, spool, torn, sent, pc, after, crashes>>
worldVars == <<credited, late, repeats, fresh, lost>>
vars == <<codeVars, worldVars>>

Handlers == {"tick", "rebuild", "update", "stop"}
Places == {"idle", "send", "spool", "restore", "flush", "remove", "finish", "off"}

\* One more in every chunk of S.
Bump(f, S) == [c \in Chunks |-> IF c \in S THEN f[c] + 1 ELSE f[c]]
Spooled == UNION spool
\* A delivery of S may go unacknowledged once more.
MayRepeat(S) == \A c \in S : repeats[c] < MaxRepeats

Init ==
  /\ up = FALSE /\ registry = {} /\ window = {}
  /\ spool = {} /\ torn = FALSE /\ sent = {}
  /\ pc = "off" /\ after = "tick" /\ crashes = 0
  /\ credited = [c \in Chunks |-> 0]
  /\ late = [c \in Chunks |-> 0]
  /\ repeats = [c \in Chunks |-> 0]
  /\ fresh = Chunks /\ lost = {}
-----------------------------------------------------------------------------
\* Run up to the main loop: the first sync (or the cached configuration) may
\* or may not bring nodes up, then FlushCache runs whatever the sync did.
Boot ==
  /\ pc = "off"
  /\ up' \in BOOLEAN
  /\ pc' = "flush" /\ after' = "tick"
  /\ UNCHANGED <<registry, window, spool, torn, sent, crashes, worldVars>>

\* A running node carries a chunk and the meter counts it.
Carry(c) ==
  /\ up /\ c \in fresh
  /\ fresh' = fresh \ {c}
  /\ registry' = registry \union {c}
  /\ UNCHANGED <<up, window, spool, torn, sent, pc, after, crashes,
                 credited, late, repeats, lost>>

\* A handler collects: CollectStats(true) empties the counters into the
\* window.  A rebuild and an update collect only while nodes run.  With no
\* rows the billing is over at once; rows that are all zero make an empty
\* report, which counts as handed over.
Collect(handler) ==
  /\ pc = "idle"
  /\ handler \in {"rebuild", "update"} => up
  /\ after' = handler
  /\ window' = registry
  /\ registry' = {}
  /\ pc' \in IF registry # {} THEN {"send"} ELSE {"finish", "flush"}
  /\ UNCHANGED <<up, spool, torn, sent, crashes, worldVars>>

\* Report: the manager counts the window and says so.
ReportAcked ==
  /\ pc = "send"
  /\ credited' = Bump(credited, window)
  /\ window' = {}
  /\ pc' = "flush"
  /\ UNCHANGED <<up, registry, spool, torn, sent, after, crashes,
                 late, repeats, fresh, lost>>

\* Report: the manager refuses the window or cannot be reached.
ReportRefused ==
  /\ pc = "send"
  /\ pc' = "spool"
  /\ UNCHANGED <<up, registry, window, spool, torn, sent, after, crashes, worldVars>>

\* Report: no answer in time, though the manager may count the window yet.
ReportTimesOut ==
  /\ pc = "send" /\ MayRepeat(window)
  /\ late' = Bump(late, window)
  /\ repeats' = Bump(repeats, window)
  /\ pc' = "spool"
  /\ UNCHANGED <<up, registry, window, spool, torn, sent, after, crashes,
                 credited, fresh, lost>>

\* A request the agent gave up on reaches the manager after all.
LateDelivery(c) ==
  /\ late[c] > 0
  /\ late' = [late EXCEPT ![c] = @ - 1]
  /\ credited' = Bump(credited, {c})
  /\ UNCHANGED <<codeVars, repeats, fresh, lost>>

\* Mutant: the spooled window is put back into the meter as well.
SpoolAndRestore ==
  /\ pc = "spool"
  /\ spool' = spool \union {window}
  /\ pc' = "restore"
  /\ UNCHANGED <<up, registry, window, torn, sent, after, crashes, worldVars>>

\* saveToCache: the window is on disk, which Report calls handed over.
Spool ==
  /\ pc = "spool"
  /\ spool' = spool \union {window}
  /\ window' = {}
  /\ pc' = "flush"
  /\ UNCHANGED <<up, registry, torn, sent, after, crashes, worldVars>>

\* saveToCache fails: no file, or a truncated one, and Report says so.
SpoolFails ==
  /\ pc = "spool"
  /\ torn' \in {torn, TRUE}
  /\ pc' = "restore"
  /\ UNCHANGED <<up, registry, window, spool, sent, after, crashes, worldVars>>

\* Mutant: the error of Report is logged and the window forgotten.
RestoreForgets ==
  /\ pc = "restore"
  /\ window' = {}
  /\ pc' = "finish"
  /\ UNCHANGED <<up, registry, spool, torn, sent, after, crashes, worldVars>>

\* Mutant: the window is knowingly dropped, as with no registry to restore to.
RestoreDrops ==
  /\ pc = "restore"
  /\ window' = {}
  /\ lost' = lost \union window
  /\ pc' = "finish"
  /\ UNCHANGED <<up, registry, spool, torn, sent, after, crashes,
                 credited, late, repeats, fresh>>

\* restoreStats adds the window back to the counters; the handler returns
\* before it resets or flushes anything.
Restore ==
  /\ pc = "restore"
  /\ registry' = registry \union window
  /\ window' = {}
  /\ pc' = "finish"
  /\ UNCHANGED <<up, spool, torn, sent, after, crashes,
                 credited, late, repeats, fresh, lost>>
-----------------------------------------------------------------------------
\* Mutant: the cache count is compared with one instead of zero.
FlushAckedUnlessLast(file) ==
  /\ pc = "flush" /\ file \in spool /\ spool # {file}
  /\ credited' = Bump(credited, file)
  /\ sent' = file
  /\ pc' = "remove"
  /\ UNCHANGED <<up, registry, window, spool, torn, after, crashes,
                 late, repeats, fresh, lost>>

\* Mutant: the file is removed first and sent from memory.
FlushRemovesFirst(file) ==
  /\ pc = "flush" /\ file \in spool
  /\ credited' = Bump(credited, file)
  /\ sent' = file /\ spool' = spool \ {file}
  /\ pc' = "remove"
  /\ UNCHANGED <<up, registry, window, torn, after, crashes, late, repeats, fresh, lost>>

\* FlushCache sends one report file and gets its answer.
FlushAcked(file) ==
  /\ pc = "flush" /\ file \in spool
  /\ credited' = Bump(credited, file)
  /\ sent' = file
  /\ pc' = "remove"
  /\ UNCHANGED <<up, registry, window, spool, torn, after, crashes,
                 late, repeats, fresh, lost>>

\* Mutant: the file stays after it was sent.
FlushLeavesFile ==
  /\ pc = "remove"
  /\ sent' = {}
  /\ pc' = "flush"
  /\ UNCHANGED <<up, registry, window, spool, torn, after, crashes, worldVars>>

\* FlushCache removes the file it has just sent and goes on to the next.
FlushRemoves ==
  /\ pc = "remove"
  /\ spool' = spool \ {sent}
  /\ sent' = {}
  /\ pc' = "flush"
  /\ UNCHANGED <<up, registry, window, torn, after, crashes, worldVars>>

\* The file cannot be removed, which nobody looks at: it will be sent again.
\* (The next flush does, here already this one may.)
FlushFailsToRemove ==
  /\ pc = "remove" /\ MayRepeat(sent)
  /\ repeats' = Bump(repeats, sent)
  /\ sent' = {}
  /\ pc' = "flush"
  /\ UNCHANGED <<up, registry, window, spool, torn, after, crashes,
                 credited, late, fresh, lost>>

\* A send that fails ends the flush; the file stays for the next one.
FlushRefused ==
  /\ pc = "flush" /\ spool # {}
  /\ pc' = "finish"
  /\ UNCHANGED <<up, registry, window, spool, torn, sent, after, crashes, worldVars>>

\* Mutant: the file is removed whether or not the manager answered.
FlushTimesOutRemoves(file) ==
  /\ pc = "flush" /\ file \in spool /\ MayRepeat(file)
  /\ late' = Bump(late, file)
  /\ repeats' = Bump(repeats, file)
  /\ spool' = spool \ {file}
  /\ pc' = "finish"
  /\ UNCHANGED <<up, registry, window, torn, sent, after, crashes,
                 credited, fresh, lost>>

\* The same, but the manager may count the report yet.
FlushTimesOut(file) ==
  /\ pc = "flush" /\ file \in spool /\ MayRepeat(file)
  /\ late' = Bump(late, file)
  /\ repeats' = Bump(repeats, file)
  /\ pc' = "finish"
  /\ UNCHANGED <<up, registry, window, spool, torn, sent, after, crashes,
                 credited, fresh, lost>>

\* Mutant: any file the flush meets is removed unread.
FlushDropsAny ==
  /\ pc = "flush" /\ spool # {}
  /\ spool' = {}
  /\ UNCHANGED <<up, registry, window, torn, sent, pc, after, crashes, worldVars>>

\* A file that is no report is removed and the flush goes on.
FlushDropsTorn ==
  /\ pc = "flush" /\ torn
  /\ torn' = FALSE
  /\ UNCHANGED <<up, registry, window, spool, sent, pc, after, crashes, worldVars>>

FlushEnds ==
  /\ pc = "flush" /\ spool = {} /\ ~torn
  /\ pc' = "finish"
  /\ UNCHANGED <<up, registry, window, spool, torn, sent, after, crashes, worldVars>>
-----------------------------------------------------------------------------
\* The statistics tick has nothing more to do.
TickEnds ==
  /\ pc = "finish" /\ after = "tick"
  /\ pc' = "idle"
  /\ UNCHANGED <<up, registry, window, spool, torn, sent, after, crashes, worldVars>>

\* rebuildAllNodes: the old nodes are closed, a new Registry takes the place
\* of the old one, and whatever the old counters hold is gone with it.
ReplaceRegistry ==
  /\ registry' = {}
  /\ lost' = lost \union registry
  /\ up' \in BOOLEAN
  /\ pc' = "idle"
  /\ UNCHANGED <<window, spool, torn, sent, after, crashes,
                 credited, late, repeats, fresh>>

RebuildAfterCollect == pc = "finish" /\ after = "rebuild" /\ ReplaceRegistry

\* With no node running a rebuild does not collect at all.
RebuildWithoutNodes == pc = "idle" /\ ~up /\ ReplaceRegistry

\* BuildConfigs gives no configuration: an error before anything is closed.
RebuildRefused ==
  /\ pc = "finish" /\ after = "rebuild"
  /\ pc' = "idle"
  /\ UNCHANGED <<up, registry, window, spool, torn, sent, after, crashes, worldVars>>

\* UpdateUsers on the nodes evicts the users that are gone, and the counters
\* of those users go with them.  A protocol it fails on is rebuilt with the
\* same Registry, which may leave no node running.
EvictRemovedUsers(removed) ==
  /\ pc = "finish" /\ after = "update"
  /\ LET evicted == {c \in registry : Owner[c] \in removed}
     IN  /\ registry' = registry \ evicted
         /\ lost' = lost \union evicted
  /\ up' \in {up, FALSE}
  /\ pc' = "idle"
  /\ UNCHANGED <<window, spool, torn, sent, after, crashes,
                 credited, late, repeats, fresh>>

\* The manager no longer sends a realm block: all nodes are closed, without
\* collecting.  Closing drops the counters or leaves them in the Registry.
RealmRemoved ==
  /\ pc = "idle" /\ up
  /\ up' = FALSE
  /\ \E dropped \in {{}, registry} :
       /\ registry' = registry \ dropped
       /\ lost' = lost \union dropped
  /\ UNCHANGED <<window, spool, torn, sent, pc, after, crashes,
                 credited, late, repeats, fresh>>

\* The process is gone: its memory is lost, its files are not.
ProcessEnds ==
  /\ up' = FALSE /\ registry' = {} /\ window' = {} /\ sent' = {}
  /\ lost' = lost \union registry \union window
  /\ pc' = "off"
  /\ UNCHANGED <<spool, after, credited, late, fresh>>

\* ctx.Done: after the last window the nodes are closed and Run returns.
Stop ==
  /\ pc = "finish" /\ after = "stop"
  /\ ProcessEnds
  /\ UNCHANGED <<torn, repeats, crashes>>

\* The process dies anywhere: while a report is being written the file may be
\* left truncated, and a file sent but not removed will be sent again.
Crash ==
  /\ pc # "off" /\ crashes < MaxCrashes
  /\ ProcessEnds
  /\ torn' \in IF pc = "spool" THEN {torn, TRUE} ELSE {torn}
  /\ repeats' = Bump(repeats, sent)
  /\ crashes' = crashes + 1

Next ==
  \/ Boot
  \/ \E c \in Chunks : Carry(c) \/ LateDelivery(c)
  \/ \E handler \in Handlers : Collect(handler)
  \/ ReportAcked \/ ReportRefused \/ ReportTimesOut
  \/ Spool \/ SpoolFails \/ Restore
  \/ \E file \in spool : FlushAcked(file) \/ FlushTimesOut(file)
  \/ FlushRemoves \/ FlushFailsToRemove \/ FlushRefused \/ FlushDropsTorn \/ FlushEnds
  \/ TickEnds
  \/ RebuildAfterCollect \/ RebuildWithoutNodes \/ RebuildRefused
  \/ \E removed \in SUBSET Users : EvictRemovedUsers(removed)
  \/ RealmRemoved
  \/ Stop
  \/ Crash

Spec == Init /\ [][Next]_vars

\* The steps of the main loop's goroutine; the ticker keeps it turning.
MainLoop ==
  \/ Boot \/ Collect("tick")
  \/ ReportAcked \/ ReportRefused \/ ReportTimesOut
  \/ Spool \/ SpoolFails \/ Restore
  \/ \E file \in spool : FlushAcked(file) \/ FlushTimesOut(file)
  \/ FlushRemoves \/ FlushFailsToRemove \/ FlushRefused \/ FlushDropsTorn \/ FlushEnds
  \/ TickEnds \/ RebuildAfterCollect \/ RebuildRefused
  \/ \E removed \in SUBSET Users : EvictRemovedUsers(removed)
  \/ Stop

\* The goroutine runs and its timer fires; a manager asked again and again
\* answers at last.  Nothing is assumed of the disk or of the traffic.
Fairness ==
  /\ WF_vars(MainLoop)
  /\ SF_vars(ReportAcked)
  /\ \A file \in SUBSET Chunks : SF_vars(FlushAcked(file))

FairSpec == Spec /\ Fairness
-----------------------------------------------------------------------------
\* The chunks the agent has yet to hand over, wherever it keeps them.
Owed == registry \union window \union Spooled

\* Type invariant; the report acknowledged is a file of the spool.
TypeOK ==
  /\ up \in BOOLEAN /\ torn \in BOOLEAN
  /\ registry \in SUBSET Chunks /\ window \in SUBSET Chunks /\ sent \in SUBSET Chunks
  /\ spool \in SUBSET SUBSET Chunks /\ (pc = "remove" => sent \in spool)
  /\ pc \in Places /\ after \in Handlers /\ crashes \in 0 .. MaxCrashes
  /\ credited \in [Chunks -> Nat] /\ late \in [Chunks -> Nat] /\ repeats \in [Chunks -> Nat]
  /\ fresh \in SUBSET Chunks /\ lost \in SUBSET Chunks

\* No byte disappears: a byte a node carried is in the meter, in the window,
\* in a report file, counted by the manager, or one of the losses the code
\* knows of.  This is what Report's contract (reporter.go) is for.
NothingVanishes ==
  \A c \in Chunks : c \in fresh \union Owed \union lost \/ credited[c] > 0

\* A byte is kept in one place: what is spooled is not also back in the
\* meter, and no two report files hold it, so no retry can bill it twice.
OneCopy ==
  /\ registry \intersect window = {}
  /\ (registry \union window) \intersect Spooled = {}
  /\ \A f, g \in spool : f # g => f \intersect g = {}
  /\ Owed \intersect (fresh \union lost) = {}
  /\ fresh \intersect lost = {}

\* Billing is exact up to lost acknowledgements: a byte reaches the manager
\* once more than its deliveries went unacknowledged if the agent is done with
\* it, and exactly as often as they did if it is not.
ExactUpToLostAcks ==
  \A c \in Chunks :
    credited[c] + late[c] =
      IF c \in fresh \union lost \union (Owed \ sent) THEN repeats[c] ELSE repeats[c] + 1

\* While the process lives, the only bytes it loses are still in the counters
\* when nodes are closed or users evicted: what was collected is never lost.
OnlyUncollectedBytesAreLost ==
  [][\A c \in lost' \ lost : c \in registry \/ pc' = "off"]_vars

\* A byte on disk stays on disk until the manager has counted it, whatever
\* fails or dies in between.
SpooledSurvives ==
  [][\A c \in Spooled : c \in Spooled' \/ credited'[c] > 0]_vars

\* The billing path keeps the promise of the abstract ledger.
Ledger == INSTANCE ByteLedger WITH owed <- Owed, forfeited <- lost
RefinesLedger == Ledger!Spec

\* Every report file is delivered and removed in the end, provided windows
\* with rows keep coming: the spool is retried only behind such a window.
RowsKeepComing == []<><<pc = "idle" /\ pc' \in {"send", "flush"}>>_vars
SpoolDrainsBehindTraffic ==
  RowsKeepComing => \A c \in Chunks : (c \in Spooled) ~> (c \notin Spooled)

\* What the comment in applyRebuild says: before nodes are closed everything
\* they have counted so far is collected, so nothing is lost by a step of the
\* living process that no collection went before.
CollectedBeforeClosing ==
  [][lost' # lost => pc = "finish" \/ pc' = "off"]_vars
=============================================================================
