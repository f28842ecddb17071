-------------------------------- MODULE Quota --------------------------------
(***************************************************************************)
(* The quota monitor and what feeds it: each fetch of the users refreshes    *)
(* what it knows of them, each billing window is told to it before the       *)
(* window is reported, and a timer looks at everybody.  A user found expired *)
(* or over the limit is forgotten, and a goroutine of its own closes the     *)
(* connections the user has when it gets to run.                             *)
(*                                                                           *)
(* The monitor sees a user's traffic through the manager's count as of the   *)
(* last fetch, so a window travels: meter, window, report or spool, manager, *)
(* fetch.  A report the agent has given up on may reach the manager all the  *)
(* same, and is sent again from the spool or from the meter: those bytes are *)
(* counted twice, and twice remembers how many.  What the spool looks like   *)
(* on the disk is the matter of Billing, which users the nodes let in that   *)
(* of NodeSync.                                                              *)
(***************************************************************************)
EXTENDS Naturals

CONSTANTS
  Users,        \* the users of the node
  Supply,       \* the bytes each user will carry
  Plans,        \* what a user may have bought: [limit, expires]
  FirstPlan,    \* the plan of each user at first
  LastTime,     \* bound: the time runs from 0 to LastTime
  MaxChanges,   \* bound: changes of a plan or of the enabled users
  MaxRestores,  \* bound: windows neither reported nor spooled
  MaxRepeats,   \* bound: deliveries given up on, and files sent that stay
  MaxCrashes    \* bound: deaths of the process

ASSUME PlansAssumption == Plans \subseteq [limit : Nat, expires : Nat]
ASSUME UsersAssumption == Supply \in [Users -> Nat] /\ FirstPlan \in [Users -> Plans]
ASSUME BoundsAssumption ==
  {LastTime, MaxChanges, MaxRestores, MaxRepeats, MaxCrashes} \subseteq Nat

VARIABLES
  monitor,    \* the users watched: their plan, used and session traffic
  saved,      \* the users in users.json, as they were fetched
  meter,      \* bytes in the counters of the Registry
  window,     \* bytes in the hands of collectAndReportBilling
  spooled,    \* bytes in the files of reports to send again
  pc,         \* where the main loop stands
  kicks,      \* users a goroutine is about to kick
  connected   \* users with connections

\* The manager, the time, the traffic, and what history needs to remember.
VARIABLES
  plan,       \* the plan of each user
  enabled,    \* the users the manager lets in
  accounted,  \* bytes the manager has counted
  late,       \* bytes of deliveries given up on, which may still arrive
  now,        \* the time
  carried,    \* bytes the nodes carried
  again,      \* bytes in the session traffic that are back in the meter
  twice,      \* bytes counted that the agent holds on to, to send them again
  changes, restores, repeats, crashes

watchVars == <<monitor, saved, kicks, connected>>
moveVars == <<meter, window, spooled, pc>>
planVars == <<plan, enabled, changes>>
countVars == <<accounted, late, twice, repeats>>
pastVars == <<now, carried, again, restores, crashes>>
vars == <<watchVars, moveVars, planVars, countVars, pastVars>>

None == [u \in Users |-> 0]
Plus(f, g) == [u \in Users |-> f[u] + g[u]]
Less(f, g) == [u \in Users |-> f[u] - g[u]]
\* The bytes of some of the files that hold f.
Parts(f) == {g \in [Users -> UNION {0 .. f[u] : u \in Users}] : \A u \in Users : g[u] <= f[u]}
NoUsers == [u \in {} |-> 0]
Watched == DOMAIN monitor

Init ==
  /\ monitor = NoUsers /\ saved = NoUsers
  /\ meter = None /\ window = None /\ spooled = None
  /\ pc = "off" /\ kicks = {} /\ connected = {}
  /\ plan = FirstPlan /\ enabled = Users
  /\ accounted = None /\ late = None /\ twice = None
  /\ now = 0 /\ carried = None /\ again = None
  /\ changes = 0 /\ restores = 0 /\ repeats = 0 /\ crashes = 0
-----------------------------------------------------------------------------
\* Mutant: a limit of zero is a limit like any other.
ExceededAnyLimit(p, total) == p.expires <= now \/ total >= p.limit

\* The time is up, or the plan has a limit and it is reached.
Exceeded(p, total) ==
  \/ p.expires <= now
  \/ p.limit > 0 /\ total >= p.limit

\* Mutant: the session traffic is taken off the fetched figure.
WatchNetOfSession(fetched) ==
  [u \in DOMAIN fetched |->
     LET told == IF u \in Watched THEN monitor[u].session ELSE 0
     IN  [plan |-> fetched[u].plan, used |-> fetched[u].used - told, session |-> told]]

\* UpdateUsers: exactly the enabled users, at the manager's figures; the
\* session traffic of a user known already is kept.
Watch(fetched) ==
  [u \in DOMAIN fetched |->
     [plan |-> fetched[u].plan, used |-> fetched[u].used,
      session |-> IF u \in Watched THEN monitor[u].session ELSE 0]]

\* The users are forgotten, and a goroutine kicks each of them.
Remove(watch, users) ==
  /\ monitor' = [u \in DOMAIN watch \ users |-> watch[u]]
  /\ kicks' = kicks \union users
  /\ again' = [u \in Users |-> IF u \in users THEN 0 ELSE again[u]]

\* What the manager sends.
Fetched == [u \in enabled |-> [plan |-> plan[u], used |-> accounted[u]]]
-----------------------------------------------------------------------------
\* syncAndApply gets an answer: the monitor is refreshed whatever the version
\* says, and a changed version makes the agent save the users, which may fail.
\* Run turns to the cache when the answer could not be applied, and
\* otherwise flushes the spool before the main loop.
SyncOk ==
  /\ pc \in {"boot", "idle"}
  /\ monitor' = Watch(Fetched)
  /\ again' = [u \in Users |-> IF u \in enabled \intersect Watched THEN again[u] ELSE 0]
  /\ saved' \in {saved, Fetched}
  /\ pc' \in IF pc = "boot" THEN {"cache", "flush"} ELSE {"idle"}
  /\ UNCHANGED <<meter, window, spooled, kicks, connected, planVars, countVars, now,
                 carried, restores, crashes>>

\* Run: the first sync failed, before the fetch was answered or after, and the
\* monitor is given the cached users, if there are any and they can be read.
BootFromCache ==
  /\ pc \in {"boot", "cache"}
  /\ monitor' \in {monitor, Watch(saved)}
  /\ pc' = "flush"
  /\ UNCHANGED <<meter, window, spooled, saved, kicks, connected, planVars, countVars,
                 pastVars>>

\* The process starts; it knows nobody yet.
Start ==
  /\ pc = "off"
  /\ pc' = "boot"
  /\ UNCHANGED <<meter, window, spooled, watchVars, planVars, countVars, pastVars>>

\* collectAndReportBilling takes the window and, before it reports it, tells
\* the monitor of every user with traffic in it (CheckUser).
Collect ==
  /\ pc = "idle" /\ meter # None
  /\ window' = meter /\ meter' = None
  /\ LET told == [u \in Watched |-> [monitor[u] EXCEPT !.session = @ + meter[u]]]
     IN  Remove(told, {u \in Watched :
                         /\ meter[u] > 0
                         /\ Exceeded(told[u].plan, told[u].used + told[u].session)})
  /\ pc' = "report"
  /\ UNCHANGED <<spooled, saved, connected, planVars, countVars, now, carried, restores,
                 crashes>>

\* Mutant: the session traffic is not reset after a report.
HandOverUnreset ==
  /\ window' = None /\ UNCHANGED <<monitor, again>>
  /\ pc' = "flush"
  /\ UNCHANGED <<meter, saved, kicks, connected, planVars, now, carried, restores, crashes>>

\* Report returns nil: the session traffic of everybody starts over, and the
\* spool is next.
HandOver ==
  /\ window' = None
  /\ monitor' = [u \in Watched |-> [monitor[u] EXCEPT !.session = 0]]
  /\ again' = None
  /\ pc' = "flush"
  /\ UNCHANGED <<meter, saved, kicks, connected, planVars, now, carried, restores, crashes>>

ReportAcked ==
  /\ pc = "report"
  /\ accounted' = Plus(accounted, window)
  /\ HandOver
  /\ UNCHANGED <<spooled, late, twice, repeats>>

\* The client gives up on a delivery: the manager may still count it.
GiveUp(bytes) ==
  /\ repeats < MaxRepeats /\ repeats' = repeats + 1
  /\ late' = Plus(late, bytes)
  /\ UNCHANGED <<accounted, twice>>

ReportTimesOut ==
  /\ pc = "report"
  /\ GiveUp(window)
  /\ pc' = "spool"
  /\ UNCHANGED <<meter, window, spooled, watchVars, planVars, pastVars>>

\* Report was refused or timed out; the window is written to a file.
Spool ==
  /\ pc \in {"report", "spool"}
  /\ spooled' = Plus(spooled, window)
  /\ HandOver
  /\ UNCHANGED countVars

\* It could not be written either, Report returns an error: the window goes
\* back to the meter and the handler returns before it resets anything, so the
\* monitor is told of it once more.
RestoreStats ==
  /\ pc \in {"report", "spool"} /\ restores < MaxRestores
  /\ meter' = Plus(meter, window) /\ window' = None
  /\ again' = [u \in Users |-> IF u \in Watched THEN again[u] + window[u] ELSE 0]
  /\ restores' = restores + 1
  /\ pc' = "idle"
  /\ UNCHANGED <<spooled, watchVars, planVars, countVars, now, carried, crashes>>

\* FlushCache: a file is sent, acknowledged and removed, or cannot be removed
\* and will be sent again.
FlushAcked(file) ==
  /\ pc = "flush" /\ file # None
  /\ accounted' = Plus(accounted, file)
  /\ \/ spooled' = Less(spooled, file) /\ UNCHANGED <<twice, repeats>>
     \/ /\ repeats < MaxRepeats /\ repeats' = repeats + 1
        /\ twice' = Plus(twice, file) /\ UNCHANGED spooled
  /\ UNCHANGED <<meter, window, pc, late, watchVars, planVars, pastVars>>

\* A file is sent in vain: it stays, as do those behind it.
FlushTimesOut(file) ==
  /\ pc = "flush" /\ file # None
  /\ GiveUp(file)
  /\ pc' = "idle"
  /\ UNCHANGED <<meter, window, spooled, watchVars, planVars, pastVars>>

\* The flush is over, or is refused.
FlushEnds ==
  /\ pc = "flush"
  /\ pc' = "idle"
  /\ UNCHANGED <<meter, window, spooled, watchVars, planVars, countVars, pastVars>>

\* Mutant: the timer only looks at the limits.
CheckLimitsOnly ==
  /\ pc = "idle"
  /\ Remove(monitor, {u \in Watched :
                        /\ monitor[u].plan.limit > 0
                        /\ monitor[u].used + monitor[u].session >= monitor[u].plan.limit})
  /\ UNCHANGED <<moveVars, saved, connected, planVars, countVars, now, carried, restores,
                 crashes>>

\* CheckAllUsers, every ten seconds.
CheckAllUsers ==
  /\ pc = "idle"
  /\ Remove(monitor, {u \in Watched :
                        Exceeded(monitor[u].plan, monitor[u].used + monitor[u].session)})
  /\ UNCHANGED <<moveVars, saved, connected, planVars, countVars, now, carried, restores,
                 crashes>>

\* kickUser runs in a goroutine: it closes what the user has open on the
\* Registry there is by then.
KickUser(u) ==
  /\ u \in kicks
  /\ kicks' = kicks \ {u}
  /\ connected' = connected \ {u}
  /\ UNCHANGED <<monitor, saved, moveVars, planVars, countVars, pastVars>>

\* kickUsers: the answer to a heartbeat or to a report of the connections
\* names users to kick.
KickUsers(users) ==
  /\ pc = "idle" /\ users # {}
  /\ connected' = connected \ users
  /\ UNCHANGED <<monitor, saved, kicks, moveVars, planVars, countVars, pastVars>>

\* A rebuild replaces the Registry: its connections and counters are gone.
ReplaceRegistry ==
  /\ pc = "idle"
  /\ connected' = {} /\ meter' = None
  /\ UNCHANGED <<monitor, saved, kicks, window, spooled, pc, planVars, countVars, pastVars>>

\* The process dies: only users.json, the spool and what was sent are left.
Crash ==
  /\ pc # "off" /\ crashes < MaxCrashes
  /\ monitor' = NoUsers /\ again' = None
  /\ meter' = None /\ window' = None
  /\ kicks' = {} /\ connected' = {}
  /\ pc' = "off"
  /\ crashes' = crashes + 1
  /\ UNCHANGED <<saved, spooled, planVars, countVars, now, carried, restores>>
-----------------------------------------------------------------------------
\* A user connects; the nodes go by their own list of users, on which a
\* kicked user still is.
Connect(u) ==
  /\ pc \notin {"off", "boot"} /\ u \notin connected
  /\ connected' = connected \union {u}
  /\ UNCHANGED <<monitor, saved, kicks, moveVars, planVars, countVars, pastVars>>

Carry(u) ==
  /\ u \in connected /\ carried[u] < Supply[u]
  /\ carried' = [carried EXCEPT ![u] = @ + 1]
  /\ meter' = [meter EXCEPT ![u] = @ + 1]
  /\ UNCHANGED <<watchVars, window, spooled, pc, planVars, countVars, now, again, restores,
                 crashes>>

\* A delivery the agent gave up on reaches the manager.
LateDelivery(bytes) ==
  /\ bytes # None
  /\ late' = Less(late, bytes)
  /\ accounted' = Plus(accounted, bytes) /\ twice' = Plus(twice, bytes)
  /\ UNCHANGED <<watchVars, moveVars, planVars, repeats, pastVars>>

\* The user renews or tops up, or is let in or shut out.
ChangeUser(u) ==
  /\ changes < MaxChanges
  /\ \/ plan' \in {[plan EXCEPT ![u] = p] : p \in Plans} /\ UNCHANGED enabled
     \/ enabled' \in {enabled \union {u}, enabled \ {u}} /\ UNCHANGED plan
  /\ changes' = changes + 1
  /\ UNCHANGED <<watchVars, moveVars, countVars, pastVars>>

Tick ==
  /\ now < LastTime
  /\ now' = now + 1
  /\ UNCHANGED <<watchVars, moveVars, planVars, countVars, carried, again, restores, crashes>>

Next ==
  \/ Start \/ SyncOk \/ BootFromCache
  \/ Collect \/ ReportAcked \/ ReportTimesOut \/ Spool \/ RestoreStats
  \/ \E file \in Parts(spooled) : FlushAcked(file) \/ FlushTimesOut(file)
  \/ FlushEnds \/ CheckAllUsers
  \/ \E u \in Users : KickUser(u) \/ Connect(u) \/ Carry(u) \/ ChangeUser(u)
  \/ \E users \in SUBSET Users : KickUsers(users)
  \/ \E bytes \in Parts(late) : LateDelivery(bytes)
  \/ ReplaceRegistry \/ Crash \/ Tick

Spec == Init /\ [][Next]_vars

\* The main loop turns: its tickers fire, and a report and a flush end one way
\* or the other.  A goroutine that was started runs.  The manager answers a
\* fetch now and then.  Nothing is assumed of the traffic, nor that any report
\* is ever acknowledged.
Fairness ==
  /\ WF_vars(Start \/ BootFromCache)
  /\ WF_vars(ReportAcked \/ Spool \/ RestoreStats) /\ WF_vars(FlushEnds)
  /\ SF_vars(SyncOk) /\ SF_vars(CheckAllUsers)
  /\ \A u \in Users : WF_vars(KickUser(u))

FairSpec == Spec /\ Fairness
-----------------------------------------------------------------------------
Entry == [plan : Plans, used : Nat]
Quota == [plan : Plans, used : Nat, session : Nat]

\* Type invariant.
TypeOK ==
  /\ Watched \subseteq Users /\ monitor \in [Watched -> Quota]
  /\ DOMAIN saved \subseteq Users /\ saved \in [DOMAIN saved -> Entry]
  /\ {meter, window, spooled, accounted, late, carried, again, twice} \subseteq [Users -> Nat]
  /\ pc \in {"off", "boot", "cache", "idle", "report", "spool", "flush"}
  /\ kicks \subseteq Users /\ connected \subseteq Users
  /\ plan \in [Users -> Plans] /\ enabled \subseteq Users
  /\ now \in 0 .. LastTime
  /\ changes \in 0 .. MaxChanges /\ restores \in 0 .. MaxRestores
  /\ repeats \in 0 .. MaxRepeats /\ crashes \in 0 .. MaxCrashes

\* The usage the monitor holds against a user is traffic the user made: no
\* byte is in both the manager's count and the session traffic, or twice in
\* either, but for those of a window that was told and had to go back to the
\* meter, and those of a report that was counted though the agent sends it
\* again.
UsageIsBacked ==
  \A u \in Watched :
    monitor[u].used + monitor[u].session <= carried[u] + again[u] + twice[u]

\* Nobody is kicked by the monitor for less than the plan it was told of:
\* unless that expired, it has a limit, and the user carried as much (or some
\* of it was told twice, or counted twice, as above).
KickedForCause ==
  [][\A u \in kicks' \ kicks :
       /\ u \in Watched
       /\ LET p == monitor[u].plan
          IN  \/ p.expires <= now
              \/ p.limit > 0 /\ carried[u] + again[u] + twice[u] >= p.limit]_vars

\* A user over the plan, by the manager's own count, does not stay connected:
\* however the first kick raced with a reconnect, another one follows.
Over(u) == u \in enabled /\ Exceeded(plan[u], accounted[u])
OverThePlanIsCut == \A u \in Users : []<>(u \notin connected \/ ~Over(u))
=============================================================================
