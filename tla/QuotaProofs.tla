----------------------------- MODULE QuotaProofs -----------------------------
(***************************************************************************)
(* What the quota monitor holds against a user is traffic of the user: for   *)
(* every set of users, plans and bounds.  The argument follows a byte: it is *)
(* in the meter, in the window, in the spool, or counted by the manager, in  *)
(* two of them only if it was counted while the agent holds on to it, and    *)
(* the session traffic of a user is made of the window and of the windows    *)
(* that were told and put back.                                              *)
(***************************************************************************)
EXTENDS Quota, TLAPS

\* A byte the nodes carried is in one place, unless it was counted while the
\* agent holds on to it.
BytesAreSomewhere ==
  \A u \in Users :
    accounted[u] + spooled[u] + window[u] + meter[u] <= carried[u] + twice[u]

\* The manager's count only grows after it was fetched, and after it was saved.
FetchedIsPast ==
  /\ \A u \in Watched : monitor[u].used <= accounted[u]
  /\ \A u \in DOMAIN saved : saved[u].used <= accounted[u]

\* Session traffic is the window under way, and what was put back before.
SessionIsKnown ==
  /\ \A u \in Watched : monitor[u].session <= again[u] + window[u]
  /\ pc \notin {"report", "spool"} => window = None

IInv == TypeOK /\ BytesAreSomewhere /\ FetchedIsPast /\ SessionIsKnown

LEMMA InitIInv == Init => IInv
  BY UsersAssumption, BoundsAssumption
     DEF Init, IInv, TypeOK, BytesAreSomewhere, FetchedIsPast, SessionIsKnown,
         None, NoUsers, Watched, Quota, Entry

\* Taking users out of a well-formed map of the monitor leaves it well formed.
LEMMA RemoveType ==
  ASSUME NEW watch, DOMAIN watch \subseteq Users, watch \in [DOMAIN watch -> Quota],
         NEW users, users \subseteq Users, TypeOK, Remove(watch, users)
  PROVE  /\ Watched' = DOMAIN watch \ users
         /\ monitor' \in [Watched' -> Quota] /\ Watched' \subseteq Users
         /\ \A u \in Watched' : monitor'[u] = watch[u]
         /\ kicks' \subseteq Users
         /\ again' \in [Users -> Nat]
         /\ \A u \in Watched' : again'[u] = again[u]
  BY DEF Remove, TypeOK, Watched

LEMMA WatchType ==
  ASSUME NEW fetched, DOMAIN fetched \subseteq Users, fetched \in [DOMAIN fetched -> Entry],
         TypeOK, monitor' = Watch(fetched)
  PROVE  /\ Watched' = DOMAIN fetched /\ Watched' \subseteq Users
         /\ monitor' \in [Watched' -> Quota]
         /\ \A u \in Watched' :
              /\ monitor'[u].used = fetched[u].used
              /\ monitor'[u].session = IF u \in Watched THEN monitor[u].session ELSE 0
  BY DEF Watch, TypeOK, Watched, Quota, Entry

LEMMA FetchedType ==
  ASSUME TypeOK
  PROVE  /\ DOMAIN Fetched = enabled /\ enabled \subseteq Users
         /\ Fetched \in [enabled -> Entry]
         /\ \A u \in enabled : Fetched[u].used = accounted[u]
  BY DEF Fetched, TypeOK, Entry

\* Some of the bytes of f, and what is left of them.
LEMMA PartsType ==
  ASSUME NEW f \in [Users -> Nat], NEW g \in Parts(f)
  PROVE  /\ g \in [Users -> Nat] /\ Plus(f, g) \in [Users -> Nat]
         /\ Less(f, g) \in [Users -> Nat]
         /\ \A u \in Users : g[u] <= f[u]
<1>1. ASSUME NEW u \in Users PROVE g[u] \in Nat /\ g[u] <= f[u]
  <2>1. g[u] \in UNION {0 .. f[v] : v \in Users} /\ g[u] <= f[u]
    BY DEF Parts
  <2>2. PICK v \in Users : g[u] \in 0 .. f[v]
    BY <2>1
  <2>3. f[v] \in Nat
    OBVIOUS
  <2>4. QED
    BY <2>1, <2>2, <2>3
<1>2. g \in [Users -> Nat]
  BY <1>1 DEF Parts
<1>3. QED
  BY <1>1, <1>2 DEF Plus, Less

-----------------------------------------------------------------------------
USE DEF watchVars, moveVars, planVars, countVars, pastVars

\* A fetch: what the monitor holds is now the manager's count.
LEMMA SyncInv == IInv /\ SyncOk => IInv'
<1> SUFFICES ASSUME IInv, SyncOk PROVE IInv'
  OBVIOUS
<1> USE FetchedType DEF IInv, TypeOK, SyncOk
<1>1. /\ Watched' = enabled
      /\ monitor' \in [Watched' -> Quota]
      /\ \A u \in Watched' :
           /\ monitor'[u].used = accounted[u]
           /\ monitor'[u].session = IF u \in Watched THEN monitor[u].session ELSE 0
  BY WatchType
<1>2. DOMAIN saved' \subseteq Users /\ saved' \in [DOMAIN saved' -> Entry]
  OBVIOUS
<1>3. again' \in [Users -> Nat]
  OBVIOUS
<1>4. TypeOK'
  BY <1>1, <1>2, <1>3
<1>5. FetchedIsPast'
  BY <1>1 DEF FetchedIsPast
<1>6. SessionIsKnown'
  BY <1>1 DEF SessionIsKnown, Quota, None, Watched
<1>7. QED
  BY <1>4, <1>5, <1>6 DEF BytesAreSomewhere

\* The cached users: no later than what the manager counts by now.
LEMMA BootFromCacheInv == IInv /\ BootFromCache => IInv'
<1> SUFFICES ASSUME IInv, BootFromCache PROVE IInv'
  OBVIOUS
<1> USE DEF IInv, TypeOK, BootFromCache
<1>0. CASE monitor' = monitor
  BY <1>0 DEF FetchedIsPast, SessionIsKnown, BytesAreSomewhere, Watched, None
<1> SUFFICES ASSUME monitor' = Watch(saved) PROVE IInv'
  BY <1>0
<1>1. /\ Watched' = DOMAIN saved
      /\ monitor' \in [Watched' -> Quota]
      /\ \A u \in Watched' :
           /\ monitor'[u].used = saved[u].used
           /\ monitor'[u].session = IF u \in Watched THEN monitor[u].session ELSE 0
  BY WatchType
<1>2. TypeOK'
  BY <1>1
<1>3. FetchedIsPast'
  BY <1>1 DEF FetchedIsPast
<1>4. SessionIsKnown'
  BY <1>1 DEF SessionIsKnown, Quota, None, Watched
<1>5. QED
  BY <1>2, <1>3, <1>4 DEF BytesAreSomewhere

\* Collecting: the session grows by what the window takes from the meter.
LEMMA CollectInv == IInv /\ Collect => IInv'
<1> SUFFICES ASSUME IInv, Collect PROVE IInv'
  OBVIOUS
<1> USE DEF IInv, TypeOK, Collect
<1> DEFINE told == [u \in Watched |-> [monitor[u] EXCEPT !.session = @ + meter[u]]]
           gone == {u \in Watched : /\ meter[u] > 0
                                    /\ Exceeded(told[u].plan, told[u].used + told[u].session)}
<1>1. /\ DOMAIN told \subseteq Users /\ told \in [DOMAIN told -> Quota]
      /\ \A u \in Watched : /\ told[u].used = monitor[u].used
                            /\ told[u].session = monitor[u].session + meter[u]
  BY DEF Quota
<1>2. gone \subseteq Users /\ Remove(told, gone)
  OBVIOUS
<1> HIDE DEF told, gone
<1>3. /\ Watched' \subseteq Watched /\ monitor' \in [Watched' -> Quota]
      /\ kicks' \subseteq Users /\ again' \in [Users -> Nat]
      /\ \A u \in Watched' : monitor'[u] = told[u] /\ again'[u] = again[u]
  <2>1. DOMAIN told = Watched
    BY DEF told
  <2>2. TypeOK
    OBVIOUS
  <2> HIDE DEF IInv, TypeOK, Collect
  <2>3. QED
    BY <1>1, <1>2, <2>1, <2>2, RemoveType
<1>4. window' = meter /\ meter' = None /\ None \in [Users -> Nat] /\ window = None
  BY DEF None, SessionIsKnown
<1>5. TypeOK'
  BY <1>3, <1>4
<1>6. FetchedIsPast'
  BY <1>1, <1>3 DEF FetchedIsPast
<1>7. SessionIsKnown'
  <2>1. \A u \in Watched : monitor[u].session \in Nat /\ monitor[u].session <= again[u]
    BY <1>4 DEF SessionIsKnown, Quota, None
  <2>2. pc' = "report"
    OBVIOUS
  <2>3. \A u \in Watched' : monitor'[u].session <= again'[u] + window'[u]
    <3>1. TAKE u \in Watched'
    <3>2. /\ u \in Watched /\ u \in Users
          /\ monitor'[u].session = monitor[u].session + meter[u]
          /\ again'[u] = again[u] /\ window'[u] = meter[u]
      BY <1>1, <1>3, <1>4
    <3>3. meter[u] \in Nat /\ again[u] \in Nat
      BY <3>2
    <3> HIDE DEF Collect, IInv, TypeOK
    <3>4. QED
      BY <2>1, <3>2, <3>3
  <2>4. QED
    BY <2>2, <2>3 DEF SessionIsKnown
<1>8. BytesAreSomewhere'
  BY <1>4 DEF BytesAreSomewhere, None
<1>9. QED
  BY <1>5, <1>6, <1>7, <1>8

\* The timer only takes users out.
LEMMA CheckAllUsersInv == IInv /\ CheckAllUsers => IInv'
<1> SUFFICES ASSUME IInv, CheckAllUsers PROVE IInv'
  OBVIOUS
<1> USE DEF IInv, TypeOK, CheckAllUsers
<1> DEFINE gone == {u \in Watched : Exceeded(monitor[u].plan, monitor[u].used + monitor[u].session)}
<1>1. gone \subseteq Users /\ Remove(monitor, gone)
  OBVIOUS
<1> HIDE DEF gone
<1>2. /\ Watched' \subseteq Watched /\ monitor' \in [Watched' -> Quota]
      /\ kicks' \subseteq Users /\ again' \in [Users -> Nat]
      /\ \A u \in Watched' : monitor'[u] = monitor[u] /\ again'[u] = again[u]
  <2>1. DOMAIN monitor = Watched
    BY DEF Watched
  <2>2. DOMAIN monitor \subseteq Users /\ monitor \in [DOMAIN monitor -> Quota]
    BY <2>1
  <2>3. QED
    BY <1>1, <2>1, <2>2, RemoveType
<1>3. TypeOK'
  BY <1>2
<1>4. FetchedIsPast' /\ SessionIsKnown' /\ BytesAreSomewhere'
  BY <1>2 DEF FetchedIsPast, SessionIsKnown, BytesAreSomewhere
<1>5. QED
  BY <1>3, <1>4

\* What a window handed over leaves of the monitor.
LEMMA HandOverKeeps ==
  ASSUME IInv, HandOver
  PROVE  /\ Watched' = Watched /\ monitor' \in [Watched' -> Quota]
         /\ \A u \in Watched : monitor'[u].used = monitor[u].used
         /\ again' \in [Users -> Nat] /\ window' \in [Users -> Nat]
         /\ SessionIsKnown'
<1> USE DEF IInv, TypeOK, HandOver, None
<1>1. /\ Watched' = Watched /\ monitor' \in [Watched' -> Quota]
      /\ \A u \in Watched : monitor'[u].used = monitor[u].used /\ monitor'[u].session = 0
  BY DEF Quota, Watched
<1>2. again' \in [Users -> Nat] /\ window' \in [Users -> Nat] /\ window' = None
  OBVIOUS
<1>3. \A u \in Watched' : monitor'[u].session <= again'[u] + window'[u]
  <2>1. TAKE u \in Watched'
  <2>2. u \in Users /\ monitor'[u].session = 0
    BY <1>1
  <2>3. again'[u] = 0 /\ window'[u] = 0
    BY <2>2
  <2>4. QED
    BY <2>2, <2>3
<1>4. QED
  BY <1>1, <1>2, <1>3 DEF SessionIsKnown

\* The report is acknowledged, or the window is written to the spool.
LEMMA HandedOverInv == IInv /\ (ReportAcked \/ Spool) => IInv'
<1> SUFFICES ASSUME IInv, ReportAcked \/ Spool PROVE IInv'
  OBVIOUS
<1> USE DEF IInv, TypeOK
<1>1. HandOver
  BY DEF ReportAcked, Spool
<1>2. /\ Watched' = Watched /\ monitor' \in [Watched' -> Quota]
      /\ \A u \in Watched : monitor'[u].used = monitor[u].used
      /\ again' \in [Users -> Nat] /\ window' \in [Users -> Nat]
      /\ SessionIsKnown'
  BY <1>1, HandOverKeeps
<1>3. /\ accounted' \in [Users -> Nat] /\ spooled' \in [Users -> Nat]
      /\ \A u \in Users : /\ accounted[u] <= accounted'[u]
                          /\ window'[u] = 0 /\ meter'[u] = meter[u] /\ carried'[u] = carried[u]
                          /\ twice'[u] = twice[u]
                          /\ accounted'[u] + spooled'[u] = accounted[u] + spooled[u] + window[u]
  BY DEF ReportAcked, Spool, HandOver, Plus, None
<1>4. TypeOK'
  BY <1>1, <1>2, <1>3 DEF ReportAcked, Spool, HandOver
<1>5. FetchedIsPast'
  <2>1. \A u \in Watched : monitor[u].used \in Nat /\ monitor[u].used <= accounted[u]
    BY DEF FetchedIsPast, Quota
  <2>2. \A u \in DOMAIN saved : saved[u].used \in Nat /\ saved[u].used <= accounted[u]
    BY DEF FetchedIsPast, Entry
  <2>3. saved' = saved
    BY <1>1 DEF HandOver
  <2>4. \A u \in Users : accounted[u] \in Nat /\ accounted'[u] \in Nat
    BY <1>3
  <2>5. Watched \subseteq Users /\ DOMAIN saved \subseteq Users
    OBVIOUS
  <2> HIDE DEF IInv, TypeOK
  <2>6. QED
    BY <1>2, <1>3, <2>1, <2>2, <2>3, <2>4, <2>5 DEF FetchedIsPast
<1>6. BytesAreSomewhere'
  <2>1. SUFFICES ASSUME NEW u \in Users
        PROVE  accounted'[u] + spooled'[u] + window'[u] + meter'[u] <= carried'[u] + twice'[u]
    BY DEF BytesAreSomewhere
  <2>2. /\ {accounted[u], spooled[u], window[u], meter[u], carried[u], twice[u]} \subseteq Nat
        /\ {accounted'[u], spooled'[u]} \subseteq Nat
    BY <1>3
  <2>3. accounted[u] + spooled[u] + window[u] + meter[u] <= carried[u] + twice[u]
    BY DEF BytesAreSomewhere
  <2> HIDE DEF IInv, TypeOK
  <2>4. QED
    BY <1>3, <2>2, <2>3
<1>7. QED
  BY <1>2, <1>4, <1>5, <1>6

LEMMA RestoreStatsInv == IInv /\ RestoreStats => IInv'
<1> SUFFICES ASSUME IInv, RestoreStats PROVE IInv'
  OBVIOUS
<1> USE DEF IInv, TypeOK, RestoreStats, None, Plus
<1>1. Watched' = Watched /\ \A u \in Watched : again'[u] = again[u] + window[u]
  BY DEF Watched
<1>2. restores' \in 0 .. MaxRestores
  BY BoundsAssumption
<1>3. again' \in [Users -> Nat] /\ meter' \in [Users -> Nat] /\ window' \in [Users -> Nat]
  OBVIOUS
<1>4. TypeOK'
  BY <1>1, <1>2, <1>3 DEF Watched
<1>5. FetchedIsPast' /\ SessionIsKnown' /\ BytesAreSomewhere'
  BY <1>1 DEF FetchedIsPast, SessionIsKnown, BytesAreSomewhere, Quota
<1>6. QED
  BY <1>4, <1>5

\* Deliveries: those given up on, and those counted late or from the spool.
LEMMA ReportTimesOutInv == IInv /\ ReportTimesOut => IInv'
<1> SUFFICES ASSUME IInv, ReportTimesOut PROVE IInv'
  OBVIOUS
<1> USE DEF IInv, TypeOK, ReportTimesOut, GiveUp
<1>1. late' \in [Users -> Nat] /\ repeats' \in 0 .. MaxRepeats
  BY BoundsAssumption DEF Plus
<1>2. TypeOK'
  BY <1>1 DEF Watched
<1>3. FetchedIsPast' /\ SessionIsKnown' /\ BytesAreSomewhere'
  BY DEF FetchedIsPast, SessionIsKnown, BytesAreSomewhere, Watched
<1>4. QED
  BY <1>2, <1>3

LEMMA FlushInv ==
  ASSUME IInv, NEW file \in Parts(spooled), FlushAcked(file) \/ FlushTimesOut(file)
  PROVE  IInv'
<1> USE DEF IInv, TypeOK
<1>1. /\ file \in [Users -> Nat] /\ Less(spooled, file) \in [Users -> Nat]
      /\ \A u \in Users : file[u] <= spooled[u]
  BY PartsType
<1>2. CASE FlushAcked(file)
  <2> USE <1>2 DEF FlushAcked
  <2>1. repeats' \in 0 .. MaxRepeats
    BY BoundsAssumption
  <2>2. accounted' \in [Users -> Nat] /\ spooled' \in [Users -> Nat] /\ twice' \in [Users -> Nat]
    BY <1>1 DEF Plus
  <2>3. TypeOK'
    BY <2>1, <2>2 DEF Watched
  <2>4. FetchedIsPast' /\ SessionIsKnown'
    <3>1. \A u \in Users : accounted[u] <= accounted'[u]
      BY <1>1 DEF Plus
    <3>2. QED
      BY <2>2, <3>1 DEF FetchedIsPast, SessionIsKnown, Watched, Quota, Entry
  <2>5. BytesAreSomewhere'
    <3>1. SUFFICES ASSUME NEW u \in Users
          PROVE  accounted'[u] + spooled'[u] + window'[u] + meter'[u] <= carried'[u] + twice'[u]
      BY DEF BytesAreSomewhere
    <3>2. {accounted[u], spooled[u], window[u], meter[u], carried[u], twice[u], file[u]} \subseteq Nat
      BY <1>1
    <3>3. accounted[u] + spooled[u] + window[u] + meter[u] <= carried[u] + twice[u]
      BY DEF BytesAreSomewhere
    <3>4. /\ accounted'[u] = accounted[u] + file[u]
          /\ window'[u] = window[u] /\ meter'[u] = meter[u] /\ carried'[u] = carried[u]
          /\ \/ spooled'[u] = spooled[u] - file[u] /\ twice'[u] = twice[u]
             \/ spooled'[u] = spooled[u] /\ twice'[u] = twice[u] + file[u]
      BY DEF Plus, Less
    <3> HIDE <1>2 DEF FlushAcked, IInv, TypeOK
    <3>5. QED
      BY <3>2, <3>3, <3>4
  <2>6. QED
    BY <2>3, <2>4, <2>5
<1>3. CASE FlushTimesOut(file)
  <2> USE <1>3 DEF FlushTimesOut, GiveUp
  <2>1. late' \in [Users -> Nat] /\ repeats' \in 0 .. MaxRepeats
    BY <1>1, BoundsAssumption DEF Plus
  <2>2. TypeOK'
    BY <2>1 DEF Watched
  <2>3. FetchedIsPast' /\ SessionIsKnown' /\ BytesAreSomewhere'
    BY DEF FetchedIsPast, SessionIsKnown, BytesAreSomewhere, Watched
  <2>4. QED
    BY <2>2, <2>3
<1>4. QED
  BY <1>2, <1>3

LEMMA LateDeliveryInv ==
  ASSUME IInv, NEW bytes \in Parts(late), LateDelivery(bytes)
  PROVE  IInv'
<1> USE DEF IInv, TypeOK, LateDelivery
<1>1. bytes \in [Users -> Nat] /\ Less(late, bytes) \in [Users -> Nat]
  BY PartsType
<1>2. accounted' \in [Users -> Nat] /\ twice' \in [Users -> Nat] /\ late' \in [Users -> Nat]
  BY <1>1 DEF Plus
<1>3. TypeOK'
  BY <1>2 DEF Watched
<1>4. /\ \A u \in Users : /\ bytes[u] \in Nat /\ accounted'[u] = accounted[u] + bytes[u]
                          /\ twice'[u] = twice[u] + bytes[u]
  BY <1>1 DEF Plus
<1>5. FetchedIsPast' /\ SessionIsKnown'
  BY <1>4 DEF FetchedIsPast, SessionIsKnown, Watched, Quota, Entry
<1>6. BytesAreSomewhere'
  BY <1>4 DEF BytesAreSomewhere
<1>7. QED
  BY <1>3, <1>5, <1>6

\* The steps of one user that leave the monitor as it is.
LEMMA OtherInv ==
  ASSUME IInv, NEW u \in Users, KickUser(u) \/ Connect(u) \/ Carry(u) \/ ChangeUser(u)
  PROVE  IInv'
<1> USE BoundsAssumption
        DEF IInv, TypeOK, BytesAreSomewhere, FetchedIsPast, SessionIsKnown, Watched, None
<1>1. CASE KickUser(u) BY <1>1 DEF KickUser
<1>2. CASE Connect(u) BY <1>2 DEF Connect
<1>3. CASE Carry(u) BY <1>3 DEF Carry
<1>4. CASE ChangeUser(u)
  <2>1. plan' \in [Users -> Plans] /\ enabled' \subseteq Users
    BY <1>4 DEF ChangeUser
  <2>2. changes' \in 0 .. MaxChanges
    BY <1>4 DEF ChangeUser
  <2>3. UNCHANGED <<watchVars, moveVars, countVars, pastVars>>
    BY <1>4 DEF ChangeUser
  <2>4. QED
    BY <2>1, <2>2, <2>3
<1>5. QED
  BY <1>1, <1>2, <1>3, <1>4

\* The other steps that leave the monitor alone, or everything empty.
LEMMA StillInv ==
  ASSUME IInv, NEW users \in SUBSET Users,
         KickUsers(users) \/ Start \/ FlushEnds \/ ReplaceRegistry \/ Crash \/ Tick
  PROVE  IInv'
<1> USE BoundsAssumption
        DEF IInv, TypeOK, BytesAreSomewhere, FetchedIsPast, SessionIsKnown, Watched, None
<1>1. CASE Start BY <1>1 DEF Start
<1>2. CASE KickUsers(users) BY <1>2 DEF KickUsers
<1>3. CASE ReplaceRegistry BY <1>3 DEF ReplaceRegistry
<1>4. CASE Crash
  <2>1. Watched' = {} /\ monitor' \in [Watched' -> Quota]
    BY <1>4 DEF Crash, NoUsers
  <2>2. crashes' \in 0 .. MaxCrashes
    BY <1>4 DEF Crash
  <2>3. TypeOK'
    BY <1>4, <2>1, <2>2 DEF Crash
  <2>4. FetchedIsPast' /\ SessionIsKnown'
    BY <1>4, <2>1 DEF Crash
  <2>5. BytesAreSomewhere'
    <3>1. \A u \in Users : /\ meter'[u] = 0 /\ window'[u] = 0
                          /\ {accounted[u], spooled[u], window[u], meter[u], carried[u], twice[u]}
                             \subseteq Nat
      BY <1>4 DEF Crash
    <3>2. UNCHANGED <<accounted, spooled, carried, twice>>
      BY <1>4 DEF Crash
    <3>3. \A u \in Users :
            accounted[u] + spooled[u] + window[u] + meter[u] <= carried[u] + twice[u]
      OBVIOUS
    <3> HIDE DEF IInv, TypeOK, FetchedIsPast, SessionIsKnown
    <3>4. QED
      BY <3>1, <3>2, <3>3
  <2>6. QED
    BY <2>3, <2>4, <2>5
<1>5. CASE Tick BY <1>5 DEF Tick
<1>6. CASE FlushEnds BY <1>6 DEF FlushEnds
<1>7. QED
  BY <1>1, <1>2, <1>3, <1>4, <1>5, <1>6

\* Every step preserves the invariant.
LEMMA NextInv == IInv /\ [Next]_vars => IInv'
<1> SUFFICES ASSUME IInv, [Next]_vars PROVE IInv'
  OBVIOUS
<1>1. CASE UNCHANGED vars
  BY <1>1 DEF vars, IInv, TypeOK, BytesAreSomewhere, FetchedIsPast, SessionIsKnown, Watched
<1>2. CASE Next
  <2>1. ASSUME NEW u \in Users, KickUser(u) \/ Connect(u) \/ Carry(u) \/ ChangeUser(u)
        PROVE  IInv'
    BY <2>1, OtherInv
  <2>2. ASSUME Start \/ FlushEnds \/ ReplaceRegistry \/ Crash \/ Tick
        PROVE  IInv'
    BY <2>2, StillInv
  <2>3. ASSUME NEW users \in SUBSET Users, KickUsers(users)
        PROVE  IInv'
    BY <2>3, StillInv
  <2>4. ASSUME NEW file \in Parts(spooled), FlushAcked(file) \/ FlushTimesOut(file)
        PROVE  IInv'
    BY <2>4, FlushInv
  <2>5. ASSUME NEW bytes \in Parts(late), LateDelivery(bytes)
        PROVE  IInv'
    BY <2>5, LateDeliveryInv
  <2>6. QED
    BY <1>2, <2>1, <2>2, <2>3, <2>4, <2>5, SyncInv, BootFromCacheInv, CollectInv,
       HandedOverInv, ReportTimesOutInv, RestoreStatsInv, CheckAllUsersInv DEF Next
<1>3. QED
  BY <1>1, <1>2

\* The invariant bounds what is held against a user.
LEMMA IInvBacks == IInv => UsageIsBacked
<1> SUFFICES ASSUME IInv, NEW u \in Watched
    PROVE  monitor[u].used + monitor[u].session <= carried[u] + again[u] + twice[u]
  BY DEF UsageIsBacked
<1> USE DEF IInv
<1>1. /\ u \in Users /\ monitor[u].used \in Nat /\ monitor[u].session \in Nat
      /\ {accounted[u], spooled[u], window[u], meter[u], carried[u], again[u], twice[u]} \subseteq Nat
  BY DEF TypeOK, Quota
<1>2. accounted[u] + spooled[u] + window[u] + meter[u] <= carried[u] + twice[u]
  BY <1>1 DEF BytesAreSomewhere
<1>3. monitor[u].used <= accounted[u] /\ monitor[u].session <= again[u] + window[u]
  BY DEF FetchedIsPast, SessionIsKnown
<1>4. QED
  BY <1>1, <1>2, <1>3

\* Type correctness of the quota monitor and what feeds it (monitor.go).
THEOREM TypeCorrect == Spec => []TypeOK
  BY InitIInv, NextInv, PTL DEF Spec, IInv

\* No byte is held against a user twice, but for windows put back and reports
\* counted that the agent sends again (monitor.go).
THEOREM UsageBacked == Spec => []UsageIsBacked
  BY InitIInv, NextInv, IInvBacks, PTL DEF Spec

\* The exceeded test reads what the user really carried.
LEMMA ExceededForCause ==
  ASSUME NEW p \in Plans, NEW total \in Nat, NEW most \in Nat, now \in Nat,
         total <= most, Exceeded(p, total)
  PROVE  p.expires <= now \/ (p.limit > 0 /\ most >= p.limit)
<1>1. p.limit \in Nat
  BY PlansAssumption
<1>2. QED
  BY <1>1 DEF Exceeded

\* A step kicks only users whose plan ended or who carried as much as it allows.
LEMMA StepKicks ==
  IInv /\ [Next]_vars =>
    \A u \in kicks' \ kicks :
      /\ u \in Watched
      /\ LET p == monitor[u].plan
         IN  \/ p.expires <= now
             \/ p.limit > 0 /\ carried[u] + again[u] + twice[u] >= p.limit
<1> SUFFICES ASSUME IInv, [Next]_vars, NEW u \in kicks' \ kicks
    PROVE  /\ u \in Watched
           /\ \/ monitor[u].plan.expires <= now
              \/ monitor[u].plan.limit > 0 /\ carried[u] + again[u] + twice[u] >= monitor[u].plan.limit
  OBVIOUS
<1>1. now \in Nat
  BY BoundsAssumption DEF IInv, TypeOK
<1>2. CASE Collect
  <2>1. /\ u \in Watched /\ meter[u] > 0
        /\ Exceeded(monitor[u].plan, monitor[u].used + (monitor[u].session + meter[u]))
    BY <1>2 DEF Collect, Remove, IInv, TypeOK, Quota
  <2>2. /\ u \in Users /\ monitor[u].plan \in Plans
        /\ monitor[u].used \in Nat /\ monitor[u].session \in Nat
        /\ {accounted[u], spooled[u], window[u], meter[u], carried[u], again[u], twice[u]} \subseteq Nat
    BY <2>1 DEF IInv, TypeOK, Quota
  <2>3. window[u] = 0
    BY <1>2, <2>2 DEF Collect, IInv, SessionIsKnown, None
  <2>4. monitor[u].used <= accounted[u] /\ monitor[u].session <= again[u] + window[u]
    BY <2>1 DEF IInv, FetchedIsPast, SessionIsKnown
  <2>5. accounted[u] + spooled[u] + window[u] + meter[u] <= carried[u] + twice[u]
    BY <2>2 DEF IInv, BytesAreSomewhere
  <2>6. monitor[u].used + (monitor[u].session + meter[u]) <= carried[u] + again[u] + twice[u]
    BY <2>2, <2>3, <2>4, <2>5
  <2>7. QED
    BY <1>1, <2>1, <2>2, <2>6, ExceededForCause
<1>3. CASE CheckAllUsers
  <2>1. u \in Watched /\ Exceeded(monitor[u].plan, monitor[u].used + monitor[u].session)
    BY <1>3 DEF CheckAllUsers, Remove
  <2>2. monitor[u].used + monitor[u].session <= carried[u] + again[u] + twice[u]
    BY <2>1, IInvBacks DEF UsageIsBacked
  <2>3. /\ monitor[u].plan \in Plans /\ monitor[u].used + monitor[u].session \in Nat
        /\ carried[u] + again[u] + twice[u] \in Nat
    BY <2>1 DEF IInv, TypeOK, Quota
  <2>4. QED
    BY <1>1, <2>1, <2>2, <2>3, ExceededForCause
<1>4. CASE ~Collect /\ ~CheckAllUsers
  <2>1. kicks' \subseteq kicks
    BY <1>4 DEF vars, Next, Start, SyncOk, BootFromCache, HandOver, ReportAcked,
       ReportTimesOut, Spool, RestoreStats, FlushAcked, FlushTimesOut, FlushEnds, KickUser,
       Connect, Carry, LateDelivery, ChangeUser, KickUsers, ReplaceRegistry, Crash, Tick
  <2>2. QED
    BY <2>1
<1>5. QED
  BY <1>2, <1>3, <1>4

\* The monitor kicks nobody for less than the plan it was told of (monitor.go).
THEOREM KicksForCause == Spec => KickedForCause
  BY InitIInv, NextInv, StepKicks, PTL DEF Spec, KickedForCause
=============================================================================
