------------------------------ MODULE Observation ------------------------------
(***************************************************************************)
(* What the agent observes of its connections and tells the operations       *)
(* plane: every tick takes a snapshot of the connections, diffs it with the  *)
(* last one into open and close events, and adds the bytes each connection   *)
(* moved to the sum of the current minute, told when a minute is over.       *)
(* Meanwhile connections come, move bytes and go, the hole punching engine   *)
(* enqueues traces from its own goroutines, the reporter flushes, and the    *)
(* process may stop or die.                                                  *)
(*                                                                           *)
(* One sum stands for all users and protocols, bytes for both directions.    *)
(* The behaviour aggregator, network card and round trip figures of the same *)
(* tick have no bearing on the rest and are left out.                        *)
(***************************************************************************)
EXTENDS ObsReporter, FiniteSetsExt

CONSTANTS
  Conns,       \* connections, each with an identifier of its own
  MaxBytes,    \* bound: bytes a connection moves
  MaxMinutes,  \* bound: minutes that pass
  MaxCrashes   \* bound: deaths of the process

\* The facts told here; facts are told apart for ever.
Open(c) == <<"open", c>>
Close(c) == <<"close", c>>
Quality(m) == <<"quality", m>>

ASSUME ObservationAssumption ==
  /\ IsFiniteSet(Conns) /\ MaxBytes \in Nat /\ MaxMinutes \in Nat /\ MaxCrashes \in Nat
  /\ Facts = {Open(c) : c \in Conns} \union {Close(c) : c \in Conns}
             \union {Quality(m) : m \in 0 .. MaxMinutes}

VARIABLES
  seen,      \* prev and prevConn: the bytes each connection of the last tick had moved
  sampled,   \* there was a tick in this process (lastTick)
  sum,       \* bytes of the current minute
  active,    \* the current minute has seen a connection
  stopping   \* Run flushes for the last time

\* The connections, and history.
VARIABLES
  live,      \* connections in the Registry
  moved,     \* bytes each connection has moved
  minute,    \* minutes gone by at the last tick
  crashes,   \* deaths so far
  told,      \* facts enqueued so far
  reported,  \* bytes told by the payloads of this process
  base,      \* bytes a connection had moved before the process first looked
  known      \* bytes a connection had moved when it was last looked at

samplerVars == <<seen, sampled, sum, active>>
worldVars == <<live, moved, minute, crashes>>
historyVars == <<told, reported, base, known>>
vars == <<reporterVars, samplerVars, stopping, worldVars, historyVars>>

Nobody == [c \in {} |-> 0]
Zero == [c \in Conns |-> 0]

Init ==
  /\ ReporterInit /\ pc = "idle"
  /\ seen = Nobody /\ sampled = FALSE /\ sum = 0 /\ active = FALSE /\ stopping = FALSE
  /\ live = {} /\ moved = Zero /\ minute = 0 /\ crashes = 0
  /\ told = {} /\ reported = 0 /\ base = Zero /\ known = Zero
-----------------------------------------------------------------------------
\* A new connection; its identifier is never used again.
Connect(c) ==
  /\ pc # "off" /\ c \notin live /\ moved[c] = 0 /\ Open(c) \notin told
  /\ live' = live \union {c}
  /\ UNCHANGED <<buffer, batch, files, torn, pc, offered, samplerVars, stopping,
                 moved, minute, crashes, historyVars>>

Move(c) ==
  /\ c \in live /\ moved[c] < MaxBytes
  /\ moved' = [moved EXCEPT ![c] = @ + 1]
  /\ UNCHANGED <<buffer, batch, files, torn, pc, offered, samplerVars, stopping,
                 live, minute, crashes, historyVars>>

\* Connections end: their users leave, are kicked, or the nodes are rebuilt.
Disconnect(gone) ==
  /\ gone # {} /\ gone \subseteq live
  /\ live' = live \ gone
  /\ UNCHANGED <<buffer, batch, files, torn, pc, offered, samplerVars, stopping,
                 moved, minute, crashes, historyVars>>

\* The sink of the punching engine, called from its goroutines, waits for the
\* lock.
PunchTrace ==
  /\ pc # "off" /\ LockFree /\ Room
  /\ EnqueueAll(<<{}>>)
  /\ UNCHANGED <<batch, files, torn, pc, samplerVars, stopping, worldVars, historyVars>>
-----------------------------------------------------------------------------
\* Mutant: every connection of the tick is taken for a new one.
DiffForgetful == {Open(c) : c \in live} \union {Close(c) : c \in DOMAIN seen \ live}

\* LifecycleTracker.Diff
Diff == {Open(c) : c \in live \ DOMAIN seen} \union {Close(c) : c \in DOMAIN seen \ live}

\* Mutant: the first tick counts what was moved before it.
GainedAtOnce ==
  SumFunction([c \in live |-> moved[c] - (IF c \in DOMAIN seen THEN seen[c] ELSE 0)])

\* The bytes of a tick: all a new connection has moved, but nothing when the
\* process looks for the first time.
Gained ==
  IF ~sampled THEN 0
  ELSE SumFunction([c \in live |-> moved[c] - (IF c \in DOMAIN seen THEN seen[c] ELSE 0)])

\* The envelope of a handler, if it has something to tell.
Envelope(facts) == IF facts = {} THEN <<>> ELSE <<facts>>

\* One tick: the diff first, then the payloads of a minute that is over, then
\* the bytes of the tick, which count for the new minute.
Observe(crossed) ==
  LET over == crossed /\ sampled
      envelopes == Envelope(Diff)
                   \o Envelope(IF over /\ active THEN {Quality(minute)} ELSE {})
                   \o (IF over THEN <<{}>> ELSE <<>>)
  IN  /\ crossed => minute < MaxMinutes
      /\ EnqueueAll(envelopes) /\ told' = told \union Told(envelopes)
      /\ sum' = (IF over THEN 0 ELSE sum) + Gained
      /\ active' = ((active /\ ~over) \/ live # {})
      /\ reported' = IF over THEN reported + sum ELSE reported
      /\ seen' = [c \in live |-> moved[c]] /\ sampled' = TRUE
      /\ minute' = IF crossed THEN minute + 1 ELSE minute
      /\ base' = IF sampled THEN base ELSE [c \in Conns |-> IF c \in live THEN moved[c] ELSE 0]
      /\ known' = [c \in Conns |-> IF c \in live THEN moved[c] ELSE known[c]]
      /\ UNCHANGED <<batch, files, torn, pc, stopping, live, moved, crashes>>

\* Mutant: with no connections there is nothing to observe.
SampleConnections(crossed) == pc = "idle" /\ ~stopping /\ live # {} /\ Observe(crossed)

\* reportConnectionsAndObserve, in the minute of the last tick or a later one.
Sample(crossed) == pc = "idle" /\ ~stopping /\ Observe(crossed)

\* probeEgressQuality and snapshotTrafficProfile: figures of the moment.
Probe ==
  /\ pc = "idle" /\ ~stopping /\ Room
  /\ EnqueueAll(<<{}>>)
  /\ UNCHANGED <<batch, files, torn, pc, samplerVars, stopping, worldVars, historyVars>>

FlushTick ==
  /\ ~stopping /\ Flush
  /\ UNCHANGED <<samplerVars, stopping, worldVars, historyVars>>

\* ctx.Done: a last flush, then the nodes are closed and Run returns.
Stop ==
  /\ ~stopping /\ Flush
  /\ stopping' = TRUE
  /\ UNCHANGED <<samplerVars, worldVars, historyVars>>

SendingStep == Sending /\ UNCHANGED <<samplerVars, stopping, worldVars, historyVars>>

\* The connections and the memory of the process are gone.
ProcessEnds ==
  /\ ReporterEnds /\ pc' = "off"
  /\ seen' = Nobody /\ sampled' = FALSE /\ sum' = 0 /\ active' = FALSE /\ stopping' = FALSE
  /\ live' = {} /\ reported' = 0 /\ base' = Zero /\ known' = Zero
  /\ UNCHANGED <<moved, minute, told>>

Exit == pc = "idle" /\ stopping /\ ProcessEnds /\ UNCHANGED crashes

Crash ==
  /\ pc # "off" /\ crashes < MaxCrashes /\ crashes' = crashes + 1
  /\ ProcessEnds

Boot ==
  /\ pc = "off" /\ pc' = "idle"
  /\ UNCHANGED <<buffer, batch, files, torn, offered, samplerVars, stopping,
                 worldVars, historyVars>>

Next ==
  \/ \E c \in Conns : Connect(c) \/ Move(c)
  \/ \E gone \in SUBSET live : Disconnect(gone)
  \/ PunchTrace
  \/ \E crossed \in BOOLEAN : Sample(crossed)
  \/ Probe \/ FlushTick \/ SendingStep
  \/ Stop \/ Exit \/ Crash \/ Boot

Spec == Init /\ [][Next]_vars

\* A select serves every ticker that keeps firing; an endpoint asked again and
\* again answers at last.
Fairness ==
  /\ WF_vars(SendingStep \/ Boot \/ Exit)
  /\ SF_vars(\E crossed \in BOOLEAN : Sample(crossed)) /\ SF_vars(Probe) /\ SF_vars(FlushTick)
  /\ SF_vars(SendAcked /\ SendingStep) /\ SF_vars(CacheAcked /\ SendingStep)

FairSpec == Spec /\ Fairness
-----------------------------------------------------------------------------
\* Type invariant; the buffer is bounded whatever the endpoint does.
TypeOK ==
  /\ ReporterTypeOK
  /\ DOMAIN seen \subseteq Conns /\ \A c \in DOMAIN seen : seen[c] \in 0 .. MaxBytes
  /\ {sampled, active, stopping} \subseteq BOOLEAN /\ sum \in Nat /\ reported \in Nat
  /\ live \subseteq Conns /\ moved \in [Conns -> 0 .. MaxBytes]
  /\ {base, known} \subseteq [Conns -> 0 .. MaxBytes]
  /\ minute \in 0 .. MaxMinutes /\ crashes \in 0 .. MaxCrashes
  /\ told \subseteq Facts

\* The byte sums told minute by minute add up: between them and the current
\* minute every byte a connection was seen to move since the process first
\* looked is there once, over ticks, minutes and connections that come and go.
BytesAreSummedOnce ==
  reported + sum = SumFunction([c \in Conns |-> known[c] - base[c]])

\* A connection is told to have opened once and to have closed once, and to
\* have closed only after it was told to have opened.
ToldOnceInOrder ==
  [][\A i \in Len(offered) + 1 .. Len(offered') :
       /\ offered'[i] \intersect told = {}
       /\ \A c \in Conns : Close(c) \in offered'[i] => Open(c) \in told]_vars

\* A connection whose opening was told is told to have closed when it has, the
\* last connection of the node no less than the others.
ClosesAreTold ==
  \A c \in Conns : (c \in DOMAIN seen /\ c \notin live) ~> (Close(c) \in told \/ pc = "off")

\* The spool drains once the endpoint answers: unlike that of the billing
\* path it needs no connection, the probe of every minute is enough.
ObsSpoolDrains == \A f \in Facts : (f \in Spooled) ~> (f \notin Spooled)
=============================================================================
