--------------------------- MODULE ObservationProofs ---------------------------
(***************************************************************************)
(* Theorems about Observation, for any finite number of connections and any  *)
(* limits and bounds, in three parts.                                        *)
(*                                                                           *)
(* What the ticks tell of a connection or a minute they tell once and in     *)
(* order: it is the diff of two snapshots that does it, whatever the         *)
(* reporter then does, so the state of the reporter does not appear.         *)
(*                                                                           *)
(* The buffer holds the newest of what was offered, what is given up leaves  *)
(* a trace, and the spool keeps its bound.                                   *)
(*                                                                           *)
(* The sums of the minutes add up to what the connections moved.             *)
(***************************************************************************)
EXTENDS Observation, SequenceTheorems, DataTheorems

\* The types the rest is built on.
Placed ==
  /\ offered \in Seq(SUBSET Facts)
  /\ live \subseteq Conns /\ DOMAIN seen \subseteq Conns /\ minute \in 0 .. MaxMinutes

\* A connection there is has not been told to have closed, and was told to
\* have opened at most if the last tick saw it.
LiveIsNotClosed ==
  \A c \in live : Close(c) \notin told /\ (Open(c) \in told => c \in DOMAIN seen)

\* What the last tick saw is told to have opened, and not yet to have closed.
SeenIsOpen == \A c \in DOMAIN seen : Open(c) \in told /\ Close(c) \notin told

\* Nothing closed that did not open, and no minute is told before it is over.
ToldInOrder ==
  /\ \A c \in Conns : Close(c) \in told => Open(c) \in told
  /\ \A m \in Nat : Quality(m) \in told => m < minute

IInv == Placed /\ LiveIsNotClosed /\ SeenIsOpen /\ ToldInOrder
-----------------------------------------------------------------------------
\* Facts of different connections, minutes and kinds are different.
LEMMA FactsDiffer ==
  ASSUME NEW c, NEW d
  PROVE  /\ Open(c) = Open(d) => c = d
         /\ Close(c) = Close(d) => c = d
         /\ Quality(c) = Quality(d) => c = d
         /\ Open(c) # Close(d) /\ Open(c) # Quality(d) /\ Close(c) # Quality(d)
BY DEF Open, Close, Quality

LEMMA InitInv == Init => IInv
<1> SUFFICES ASSUME Init PROVE IInv OBVIOUS
<1>1. Placed BY ObservationAssumption DEF Init, ReporterInit, Nobody, Placed
<1>2. LiveIsNotClosed /\ SeenIsOpen /\ ToldInOrder
  BY DEF Init, Nobody, LiveIsNotClosed, SeenIsOpen, ToldInOrder
<1> QED BY <1>1, <1>2 DEF IInv

\* What a tick puts into its envelopes.
Ticked(over) == Diff \union (IF over THEN {Quality(minute)} ELSE {})

LEMMA DiffHas ==
  ASSUME NEW f
  PROVE  f \in Diff <=> \/ \E c \in live \ DOMAIN seen : f = Open(c)
                        \/ \E c \in DOMAIN seen \ live : f = Close(c)
BY DEF Diff

\* A sequence is one of what it has.
LEMMA SeqRanges ==
  ASSUME NEW T, NEW U, NEW s \in Seq(T), \A i \in 1 .. Len(s) : s[i] \in U PROVE s \in Seq(U)
<1>1. Len(s) \in Nat /\ s \in [1 .. Len(s) -> T] OBVIOUS
<1>2. s \in [1 .. Len(s) -> U] BY <1>1
<1> QED BY <1>1, <1>2, SeqDef

LEMMA EnvelopeIn ==
  ASSUME NEW T, NEW facts \in T PROVE Envelope(facts) \in Seq(T)
BY DEF Envelope

\* Three sequences one after the other, with what each of them has.
LEMMA ThreeParts ==
  ASSUME NEW T, NEW s1 \in Seq(T), NEW s2 \in Seq(T), NEW s3 \in Seq(T)
  PROVE  /\ s1 \o s2 \o s3 \in Seq(T)
         /\ \A i \in 1 .. Len(s1 \o s2 \o s3) : (s1 \o s2 \o s3)[i] \in T
         /\ \A i \in 1 .. Len(s1) : i \in 1 .. Len(s1 \o s2 \o s3) /\ (s1 \o s2 \o s3)[i] = s1[i]
<1>1. s1 \o s2 \in Seq(T) /\ Len(s1 \o s2) = Len(s1) + Len(s2) OBVIOUS
<1>2. \A i \in 1 .. Len(s1) : (s1 \o s2)[i] = s1[i] OBVIOUS
<1> DEFINE s == s1 \o s2
<1>3. s \o s3 \in Seq(T) /\ Len(s \o s3) = Len(s) + Len(s3)
      /\ \A i \in 1 .. Len(s) : (s \o s3)[i] = s[i]
  <2> HIDE DEF s
  <2> QED BY <1>1 DEF s
<1>4. \A i \in 1 .. Len(s \o s3) : (s \o s3)[i] \in T
  <2> HIDE DEF s
  <2> QED BY <1>3
<1> QED BY <1>1, <1>2, <1>3, <1>4

LEMMA TickParts ==
  ASSUME NEW T, NEW first \in T, NEW second \in T, NEW third \in Seq(T), NEW envelopes,
         envelopes = Envelope(first) \o Envelope(second) \o third
  PROVE  envelopes \in Seq(T) /\ (first # {} => first \in ToSet(envelopes))
<1>1. Envelope(first) \in Seq(T) /\ Envelope(second) \in Seq(T) BY EnvelopeIn
<1>2. /\ envelopes \in Seq(T)
      /\ \A i \in 1 .. Len(envelopes) : envelopes[i] \in T
      /\ \A i \in 1 .. Len(Envelope(first)) :
           i \in 1 .. Len(envelopes) /\ envelopes[i] = Envelope(first)[i]
  BY <1>1, ThreeParts
<1>3. first # {} => 1 \in 1 .. Len(Envelope(first)) /\ Envelope(first)[1] = first
  BY DEF Envelope
<1>4. DOMAIN envelopes = 1 .. Len(envelopes) BY <1>2
<1> QED BY <1>2, <1>3, <1>4 DEF ToSet

\* What a tick tells of the minute that is over.
MinuteTold(over) == IF over /\ active THEN {Quality(minute)} ELSE {}

\* The other payloads of the minute tell nothing told apart here.
OtherEnvelopes(over) == IF over THEN <<{}>> ELSE <<>>

\* The envelopes of a tick tell the diff, at most the minute, and nothing else.
LEMMA EnvelopesTell ==
  ASSUME Placed, NEW over, NEW envelopes,
         envelopes = Envelope(Diff) \o Envelope(MinuteTold(over)) \o OtherEnvelopes(over)
  PROVE  /\ envelopes \in Seq(SUBSET Facts)
         /\ \A i \in 1 .. Len(envelopes) : envelopes[i] \subseteq Ticked(over)
         /\ Told(envelopes) \subseteq Ticked(over) /\ Diff \subseteq Told(envelopes)
<1>1. Ticked(over) \subseteq Facts /\ Diff \subseteq Facts
  BY ObservationAssumption DEF Placed, Ticked, Diff
<1> DEFINE T == SUBSET Ticked(over)
<1>2. Diff \in T /\ MinuteTold(over) \in T BY DEF Ticked, MinuteTold
<1>3. OtherEnvelopes(over) \in Seq(T)
  <2>1. {} \in T OBVIOUS
  <2> HIDE DEF T
  <2> QED BY <2>1 DEF OtherEnvelopes
<1>4. envelopes \in Seq(T) /\ (Diff # {} => Diff \in ToSet(envelopes))
  <2> HIDE DEF T
  <2> QED BY <1>2, <1>3, TickParts
<1>5. \A i \in 1 .. Len(envelopes) : envelopes[i] \in T
  <2> HIDE DEF T
  <2> QED BY <1>4
<1>6. \A i \in 1 .. Len(envelopes) : envelopes[i] \subseteq Ticked(over) BY <1>5
<1>7. DOMAIN envelopes = 1 .. Len(envelopes)
  <2> HIDE DEF T
  <2> QED BY <1>4
<1>8. Told(envelopes) \subseteq Ticked(over)
  <2> SUFFICES ASSUME NEW f \in Told(envelopes) PROVE f \in Ticked(over) OBVIOUS
  <2>1. PICK i \in 1 .. Len(envelopes) : f \in envelopes[i] BY <1>7 DEF Told, ToSet
  <2> QED BY <1>6, <2>1
<1>9. envelopes \in Seq(SUBSET Facts)
  <2>1. \A i \in 1 .. Len(envelopes) : envelopes[i] \in SUBSET Facts BY <1>1, <1>6
  <2> HIDE DEF T
  <2> QED BY <1>4, <2>1, SeqRanges
<1>10. Diff \subseteq Told(envelopes) BY <1>4 DEF Told
<1> QED BY <1>6, <1>8, <1>9, <1>10
-----------------------------------------------------------------------------
\* What ToldOnceInOrder says of a step.
TellsOnceInOrder ==
  \A i \in Len(offered) + 1 .. Len(offered') :
    /\ offered'[i] \intersect told = {}
    /\ \A c \in Conns : Close(c) \in offered'[i] => Open(c) \in told

\* The envelopes of a step are what it adds at the end.
LEMMA Added ==
  ASSUME NEW T, NEW s \in Seq(T), NEW e \in Seq(T), NEW i \in Len(s) + 1 .. Len(s \o e)
  PROVE  /\ i - Len(s) \in 1 .. Len(e)
         /\ (s \o e)[i] = e[i - Len(s)]
OBVIOUS

\* A step that is not a tick, and whose envelopes tell nothing told apart.
LEMMA QuietStep ==
  ASSUME IInv, UNCHANGED <<told, seen, minute>>, live' \subseteq live,
         offered' \in {offered, <<>>, offered \o <<{}>>}
  PROVE  IInv' /\ TellsOnceInOrder
<1>1. offered \in Seq(SUBSET Facts) /\ <<{}>> \in Seq(SUBSET Facts) BY DEF IInv, Placed
<1>2. Placed'
  <2>1. <<>> \in Seq(SUBSET Facts) /\ offered \o <<{}>> \in Seq(SUBSET Facts) BY <1>1
  <2>2. offered' \in Seq(SUBSET Facts) BY Zenon, <1>1, <2>1
  <2> QED BY <2>2 DEF IInv, Placed
<1>3. LiveIsNotClosed' /\ SeenIsOpen' /\ ToldInOrder'
  BY DEF IInv, LiveIsNotClosed, SeenIsOpen, ToldInOrder
<1>4. ASSUME NEW i \in Len(offered) + 1 .. Len(offered') PROVE offered'[i] = {}
  <2>1. CASE offered' = offered BY <1>1, <1>4, <2>1
  <2>2. CASE offered' = <<>> BY <1>1, <1>4, <2>2
  <2>3. CASE offered' = offered \o <<{}>>
    <3>1. i - Len(offered) \in 1 .. Len(<<{}>>) /\ offered'[i] = <<{}>>[i - Len(offered)]
      BY <1>1, <1>4, <2>3, Added
    <3> QED BY <1>1, <3>1
  <2> QED BY <2>1, <2>2, <2>3
<1> QED BY <1>2, <1>3, <1>4 DEF IInv, TellsOnceInOrder

\* The process ends: no connection is left, and what was told stays told.
LEMMA EndStep == ASSUME IInv, ProcessEnds PROVE IInv' /\ TellsOnceInOrder
<1>1. offered' = <<>> /\ live' = {} /\ DOMAIN seen' = {} /\ UNCHANGED <<told, minute>>
  BY DEF ProcessEnds, ReporterEnds, Nobody
<1>2. Placed' BY <1>1 DEF IInv, Placed
<1>3. LiveIsNotClosed' /\ SeenIsOpen' /\ ToldInOrder'
  BY <1>1 DEF IInv, LiveIsNotClosed, SeenIsOpen, ToldInOrder
<1>4. Len(offered) \in Nat BY DEF IInv, Placed
<1> QED BY <1>1, <1>2, <1>3, <1>4 DEF IInv, TellsOnceInOrder

\* A new connection has never been told of.
LEMMA ConnectStep == ASSUME IInv, NEW c \in Conns, Connect(c) PROVE IInv' /\ TellsOnceInOrder
<1>1. UNCHANGED <<offered, told, seen, minute>> /\ live' = live \union {c} /\ Open(c) \notin told
  BY DEF Connect, samplerVars, worldVars, historyVars
<1>2. Placed' BY <1>1 DEF IInv, Placed
<1>3. LiveIsNotClosed' /\ SeenIsOpen' /\ ToldInOrder'
  BY <1>1 DEF IInv, LiveIsNotClosed, SeenIsOpen, ToldInOrder
<1>4. Len(offered) \in Nat BY DEF IInv, Placed
<1> QED BY <1>1, <1>2, <1>3, <1>4 DEF IInv, TellsOnceInOrder

\* A tick tells its diff, and at its end has seen what there is.
LEMMA ObserveStep ==
  ASSUME IInv, NEW crossed \in BOOLEAN, Observe(crossed)
  PROVE  IInv' /\ TellsOnceInOrder
<1> DEFINE over == crossed /\ sampled
<1>1. PICK envelopes :
        /\ envelopes = Envelope(Diff) \o Envelope(MinuteTold(over)) \o OtherEnvelopes(over)
        /\ offered' = offered \o envelopes /\ told' = told \union Told(envelopes)
  BY DEF Observe, EnqueueAll, MinuteTold, OtherEnvelopes
<1>2. /\ live' = live /\ DOMAIN seen' = live
      /\ crossed => minute < MaxMinutes
      /\ minute' = IF crossed THEN minute + 1 ELSE minute
  BY DEF Observe
<1>3. /\ envelopes \in Seq(SUBSET Facts)
      /\ \A i \in 1 .. Len(envelopes) : envelopes[i] \subseteq Ticked(over)
      /\ Told(envelopes) \subseteq Ticked(over) /\ Diff \subseteq Told(envelopes)
  <2> HIDE DEF over
  <2> QED BY <1>1, EnvelopesTell DEF IInv
<1>4. offered \in Seq(SUBSET Facts) /\ live \subseteq Conns /\ DOMAIN seen \subseteq Conns
      /\ minute \in 0 .. MaxMinutes /\ MaxMinutes \in Nat
  BY ObservationAssumption DEF IInv, Placed
<1>5. ASSUME NEW f \in Ticked(over)
      PROVE  /\ f \notin told
             /\ \/ \E c \in live \ DOMAIN seen : f = Open(c)
                \/ \E c \in DOMAIN seen \ live : f = Close(c)
                \/ crossed /\ f = Quality(minute)
  <2>1. CASE \E c \in live \ DOMAIN seen : f = Open(c) BY <2>1 DEF IInv, LiveIsNotClosed
  <2>2. CASE \E c \in DOMAIN seen \ live : f = Close(c) BY <2>2 DEF IInv, SeenIsOpen
  <2>3. CASE crossed /\ f = Quality(minute) BY <1>4, <2>3 DEF IInv, ToldInOrder
  <2> QED BY <1>5, <2>1, <2>2, <2>3, DiffHas DEF Ticked
<1>6. Placed'
  <2>1. offered' \in Seq(SUBSET Facts) BY <1>1, <1>3, <1>4
  <2> QED BY <1>2, <1>4, <2>1 DEF Placed
<1>7. ASSUME NEW c, Close(c) \in told' PROVE Close(c) \in told \/ c \in DOMAIN seen \ live
  <2> SUFFICES ASSUME Close(c) \notin told PROVE c \in DOMAIN seen \ live OBVIOUS
  <2>1. Close(c) \in Ticked(over) BY <1>1, <1>3, <1>7
  <2>2. \A d : Open(d) # Close(c) /\ Quality(d) # Close(c) /\ (Close(d) = Close(c) => d = c)
    BY FactsDiffer
  <2> QED BY <1>5, <2>1, <2>2
<1>8. LiveIsNotClosed'
  BY <1>2, <1>7 DEF IInv, LiveIsNotClosed
<1>9. SeenIsOpen'
  <2> SUFFICES ASSUME NEW c \in live PROVE Open(c) \in told' /\ Close(c) \notin told'
    BY <1>2 DEF SeenIsOpen
  <2>1. Close(c) \notin told' BY <1>7 DEF IInv, LiveIsNotClosed
  <2>2. CASE c \in DOMAIN seen
    <3>1. Open(c) \in told BY <2>2 DEF IInv, SeenIsOpen
    <3> QED BY <1>1, <2>1, <3>1
  <2>3. CASE c \notin DOMAIN seen
    <3>1. Open(c) \in Diff BY <2>3, DiffHas
    <3> QED BY <1>1, <1>3, <2>1, <3>1
  <2> QED BY <2>1, <2>2, <2>3
<1>10. ToldInOrder'
  <2>1. ASSUME NEW c \in Conns, Close(c) \in told' PROVE Open(c) \in told'
    BY <1>1, <1>7, <2>1 DEF IInv, ToldInOrder, SeenIsOpen
  <2>2. ASSUME NEW m \in Nat, Quality(m) \in told' PROVE m < minute'
    <3>1. CASE Quality(m) \in told BY <1>2, <1>4, <3>1 DEF IInv, ToldInOrder
    <3>2. CASE Quality(m) \notin told
      <4>1. Quality(m) \in Ticked(over) BY <1>1, <1>3, <2>2, <3>2
      <4>2. crossed /\ m = minute BY <1>5, <4>1, FactsDiffer
      <4> QED BY <1>2, <1>4, <4>2
    <3> QED BY <3>1, <3>2
  <2> QED BY <2>1, <2>2 DEF ToldInOrder
<1>11. TellsOnceInOrder
  <2> SUFFICES ASSUME NEW i \in Len(offered) + 1 .. Len(offered')
               PROVE  /\ offered'[i] \intersect told = {}
                      /\ \A c \in Conns : Close(c) \in offered'[i] => Open(c) \in told
    BY DEF TellsOnceInOrder
  <2>1. i - Len(offered) \in 1 .. Len(envelopes) /\ offered'[i] = envelopes[i - Len(offered)]
    BY <1>1, <1>3, <1>4, Added
  <2>2. offered'[i] \subseteq Ticked(over) BY <1>3, <2>1
  <2>3. ASSUME NEW c \in Conns, Close(c) \in offered'[i] PROVE Open(c) \in told
    <3>1. c \in DOMAIN seen BY <1>5, <2>2, <2>3, FactsDiffer
    <3> QED BY <3>1 DEF IInv, SeenIsOpen
  <2> QED BY <1>5, <2>2, <2>3
<1> QED BY <1>6, <1>8, <1>9, <1>10, <1>11 DEF IInv

LEMMA NextStep == ASSUME IInv, [Next]_vars PROVE IInv' /\ TellsOnceInOrder
<1> USE DEF samplerVars, worldVars, historyVars
<1>1. ASSUME NEW c \in Conns, Connect(c) \/ Move(c) PROVE IInv' /\ TellsOnceInOrder
  BY <1>1, ConnectStep, QuietStep DEF Move
<1>2. ASSUME NEW gone \in SUBSET live, Disconnect(gone) PROVE IInv' /\ TellsOnceInOrder
  BY <1>2, QuietStep DEF Disconnect
<1>3. CASE PunchTrace BY <1>3, QuietStep DEF PunchTrace, EnqueueAll
<1>4. ASSUME NEW crossed \in BOOLEAN, Sample(crossed) PROVE IInv' /\ TellsOnceInOrder
  BY <1>4, ObserveStep DEF Sample
<1>5. CASE Probe BY <1>5, QuietStep DEF Probe, EnqueueAll
<1>6. CASE FlushTick \/ Stop BY <1>6, QuietStep DEF FlushTick, Stop, Flush
<1>7. CASE SendingStep
  <2>1. UNCHANGED offered
    BY <1>7 DEF SendingStep, Sending, SendAcked, SendFails, SaveToCache, SaveFails, CacheAcked,
                CacheFails, CacheDropsTorn, CacheEnds
  <2> QED BY <1>7, <2>1, QuietStep DEF SendingStep
<1>8. CASE Exit \/ Crash BY <1>8, EndStep DEF Exit, Crash
<1>9. CASE Boot BY <1>9, QuietStep DEF Boot
<1>10. CASE UNCHANGED vars BY <1>10, QuietStep DEF vars, reporterVars
<1> QED BY <1>1, <1>2, <1>3, <1>4, <1>5, <1>6, <1>7, <1>8, <1>9, <1>10 DEF Next

\* What the two snapshots of the main loop say of each connection, and the minute.
THEOREM Invariant == Spec => []IInv
<1>1. IInv /\ [Next]_vars => IInv' BY NextStep
<1> QED BY <1>1, InitInv, PTL DEF Spec

\* A connection is told to have opened once and to have closed once, after it
\* was told to have opened, through restarts of the process.
THEOREM ToldOnceInOrderThm == Spec => ToldOnceInOrder
<1>1. IInv /\ [Next]_vars =>
        [\A i \in Len(offered) + 1 .. Len(offered') :
           /\ offered'[i] \intersect told = {}
           /\ \A c \in Conns : Close(c) \in offered'[i] => Open(c) \in told]_vars
  BY NextStep DEF TellsOnceInOrder
<1> QED BY <1>1, Invariant, PTL DEF Spec, ToldOnceInOrder
-----------------------------------------------------------------------------
\* The buffer. An envelope is a set of facts; Put takes one at a time, and what
\* is to be shown of a fold of Put is shown of each step.
Envelopes == Seq(SUBSET Facts)
Buffers == [pending : Envelopes, dropped : Nat]

LEMMA PutType == ASSUME NEW c \in Buffers, NEW e \in SUBSET Facts PROVE Put(c, e) \in Buffers
<1>1. c.pending \in Seq(SUBSET Facts) /\ c.dropped \in Nat BY DEF Buffers, Envelopes
<1>2. CASE Len(c.pending) >= MaxPending
  <2>1. c.pending # <<>> BY <1>1, <1>2, ReporterAssumption
  <2>2. Append(Tail(c.pending), e) \in Seq(SUBSET Facts) BY <1>1, <2>1
  <2> QED BY <1>1, <1>2, <2>2 DEF Put, Buffers, Envelopes
<1>3. CASE ~(Len(c.pending) >= MaxPending)
  <2>1. Append(c.pending, e) \in Seq(SUBSET Facts) BY <1>1
  <2> QED BY <1>1, <1>3, <2>1 DEF Put, Buffers, Envelopes
<1> QED BY <1>2, <1>3

\* Enqueuing envelopes one after the other: what holds of the buffer before and
\* is kept by each of them holds after the last.
LEMMA PutAll ==
  ASSUME NEW s \in Envelopes, NEW b \in Buffers, NEW G, <<0, b>> \in G,
         \A k \in 0 .. Len(s) - 1, c \in Buffers :
           <<k, c>> \in G => <<k + 1, Put(c, s[k + 1])>> \in G
  PROVE  FoldLeft(Put, b, s) \in Buffers /\ <<Len(s), FoldLeft(Put, b, s)>> \in G
<1> DEFINE n == Len(s)
           S == 1 .. n
           next == [T \in SUBSET S |-> Max(T)]
           step == [p \in S \X Buffers |-> Put(p[2], s[p[1]])]
           Value(T, g) == IF T = {} THEN b ELSE Put(g[T \ {Max(T)}], s[Max(T)])
           Puts(g) == g = [T \in SUBSET S |-> Value(T, g)]
<1>1. n \in Nat /\ S = DOMAIN s /\ IsFiniteSet(S) /\ \A i \in S : s[i] \in SUBSET Facts
  <2>1. n \in Nat /\ S = DOMAIN s /\ \A i \in S : s[i] \in SUBSET Facts BY DEF Envelopes
  <2>2. IsFiniteSet(S)
    <3> HIDE DEF n
    <3> QED BY <2>1, FS_Interval
  <2> QED BY <2>1, <2>2
<1>2. \A T \in SUBSET S : T # {} => Max(T) \in T
  <2> HIDE DEF n
  <2> QED BY <1>1, MaxIn
<1>3. IsNext(next, S) BY <1>2 DEF IsNext
<1>4. step \in [S \X Buffers -> Buffers] BY <1>1, PutType
<1>5. PICK h : IsFold(h, S, b, next, step)
  <2> HIDE DEF S, next, step
  <2> QED BY <1>1, <1>3, FoldExists
<1>6. h \in [SUBSET S -> Buffers]
  <2> HIDE DEF S, next, step
  <2> QED BY <1>1, <1>3, <1>4, <1>5, FoldType
<1>7. ASSUME NEW T \in SUBSET S
      PROVE  Value(T, h) = IF T = {} THEN b ELSE step[<<next[T], h[T \ {next[T]}]>>]
  <2>1. CASE T = {} BY <2>1
  <2>2. CASE T # {}
    <3>1. Max(T) \in S /\ next[T] = Max(T) /\ h[T \ {Max(T)}] \in Buffers BY <1>2, <1>6, <2>2
    <3>2. step[<<Max(T), h[T \ {Max(T)}]>>] = Put(h[T \ {Max(T)}], s[Max(T)])
      BY <3>1
    <3> QED BY <2>2, <3>1, <3>2
  <2> QED BY <2>1, <2>2
<1>8. Puts(h)
  <2> HIDE DEF Value, S, next, step
  <2> QED BY <1>5, <1>7 DEF IsFold
<1> DEFINE g == CHOOSE g : Puts(g)
<1>9. Puts(g) BY <1>8
<1>10. FoldLeft(Put, b, s) = g[S]
  BY <1>1 DEF FoldLeft, MapThenFoldSet
<1> HIDE DEF g
<1> DEFINE Good == {k \in Nat : k <= n => g[1 .. k] \in Buffers /\ <<k, g[1 .. k]>> \in G}
<1>11. 0 \in Good
  <2>1. 1 .. 0 = {} OBVIOUS
  <2>2. g[{}] = b BY <1>9
  <2> QED BY <2>1, <2>2
<1>12. ASSUME NEW k \in Nat, k \in Good PROVE k + 1 \in Good
  <2> SUFFICES ASSUME k + 1 <= n
               PROVE  g[1 .. k + 1] \in Buffers /\ <<k + 1, g[1 .. k + 1]>> \in G
    OBVIOUS
  <2>1. 1 .. k + 1 \in SUBSET S /\ 1 .. k + 1 # {} /\ (1 .. k + 1) \ {k + 1} = 1 .. k
    <3>1. n \in Nat /\ k + 1 <= n BY <1>1
    <3> HIDE DEF n
    <3>2. 1 \in 1 .. k + 1 BY <3>1
    <3>3. (1 .. k + 1) \ {k + 1} = 1 .. k BY <3>1
    <3>4. \A i \in 1 .. k + 1 : i \in S BY <3>1
    <3> QED BY <3>2, <3>3, <3>4
  <2>2. Max(1 .. k + 1) = k + 1
    <3>1. Max(1 .. k + 1) \in 1 .. k + 1 /\ \A j \in 1 .. k + 1 : Max(1 .. k + 1) >= j
      <4>1. k + 1 \in Nat /\ 1 .. k + 1 \in SUBSET (1 .. k + 1) OBVIOUS
      <4> HIDE DEF S
      <4> QED BY <2>1, <4>1, MaxIn
    <3>2. k + 1 \in 1 .. k + 1 OBVIOUS
    <3> QED BY <3>1, <3>2
  <2>3. g[1 .. k + 1] = Put(g[1 .. k], s[k + 1])
    <3>1. g[1 .. k + 1] = Value(1 .. k + 1, g)
      <4> HIDE DEF Value, S
      <4> QED BY <1>9, <2>1
    <3> QED BY <2>1, <2>2, <3>1
  <2>4. g[1 .. k] \in Buffers /\ <<k, g[1 .. k]>> \in G BY <1>1, <1>12
  <2>5. k \in 0 .. Len(s) - 1 /\ s[k + 1] \in SUBSET Facts BY <1>1
  <2> HIDE DEF n
  <2> QED BY <2>3, <2>4, <2>5, PutType
<1>13. n \in Good
  <2> HIDE DEF Good, n
  <2> QED BY <1>1, <1>11, <1>12, NatInduct
<1> QED BY <1>1, <1>10, <1>13

\* DropsAreTheOldestAndCounted for a buffer and what was offered, element by
\* element.
Newest(c, o) ==
  /\ Len(o) = c.dropped + Len(c.pending)
  /\ \A i \in 1 .. Len(c.pending) : c.pending[i] = o[c.dropped + i]

LEMMA NewestIsSuffix ==
  ASSUME NEW c \in Buffers, NEW o \in Envelopes
  PROVE  Newest(c, o) <=> /\ c.dropped <= Len(o)
                          /\ c.pending = SubSeq(o, c.dropped + 1, Len(o))
<1>1. /\ c.pending \in Seq(SUBSET Facts) /\ c.dropped \in Nat /\ Len(c.pending) \in Nat
      /\ o \in Seq(SUBSET Facts) /\ Len(o) \in Nat
  BY DEF Buffers, Envelopes
<1> DEFINE rest == SubSeq(o, c.dropped + 1, Len(o))
<1>2. ASSUME c.dropped <= Len(o)
      PROVE  /\ rest \in Seq(SUBSET Facts) /\ Len(rest) = Len(o) - c.dropped
             /\ \A i \in 1 .. Len(o) - c.dropped : rest[i] = o[c.dropped + i]
  <2>1. \A i \in c.dropped + 1 .. Len(o) : o[i] \in SUBSET Facts BY <1>1
  <2>2. /\ rest \in Seq(SUBSET Facts)
        /\ Len(rest) = IF c.dropped + 1 <= Len(o) THEN Len(o) - (c.dropped + 1) + 1 ELSE 0
        /\ \A i \in 1 .. Len(o) - (c.dropped + 1) + 1 : rest[i] = o[c.dropped + 1 + i - 1]
    <3>1. c.dropped + 1 \in Int /\ Len(o) \in Int BY <1>1
    <3> QED BY <2>1, <3>1, SubSeqProperties
  <2>3. Len(rest) = Len(o) - c.dropped BY <1>1, <1>2, <2>2
  <2>4. \A i \in 1 .. Len(o) - c.dropped : rest[i] = o[c.dropped + i]
    <3> SUFFICES ASSUME NEW i \in 1 .. Len(o) - c.dropped PROVE rest[i] = o[c.dropped + i] OBVIOUS
    <3>1. i \in 1 .. Len(o) - (c.dropped + 1) + 1 /\ c.dropped + 1 + i - 1 = c.dropped + i BY <1>1
    <3>2. rest[i] = o[c.dropped + 1 + i - 1]
      <4> HIDE DEF rest
      <4> QED BY <2>2, <3>1
    <3> HIDE DEF rest
    <3> QED BY <3>1, <3>2
  <2> QED BY <2>2, <2>3, <2>4
<1>3. ASSUME Newest(c, o) PROVE c.dropped <= Len(o) /\ c.pending = rest
  <2>1. c.dropped <= Len(o) /\ Len(c.pending) = Len(o) - c.dropped BY <1>1, <1>3 DEF Newest
  <2>2. Len(rest) = Len(c.pending) /\ \A i \in 1 .. Len(c.pending) : c.pending[i] = rest[i]
    BY <1>1, <1>2, <1>3, <2>1 DEF Newest
  <2> HIDE DEF rest
  <2> QED BY <1>1, <1>2, <2>1, <2>2, SeqEqual
<1>4. ASSUME c.dropped <= Len(o), c.pending = rest PROVE Newest(c, o)
  <2> HIDE DEF rest
  <2> QED BY <1>1, <1>2, <1>4 DEF Newest
<1> QED BY <1>3, <1>4

\* One envelope more, in a buffer that holds the newest of what was offered.
LEMMA PutKeeps ==
  ASSUME NEW c \in Buffers, Len(c.pending) <= MaxPending, NEW e \in SUBSET Facts,
         NEW o \in Envelopes, Newest(c, o)
  PROVE  /\ Len(Put(c, e).pending) <= MaxPending
         /\ Newest(Put(c, e), Append(o, e))
         /\ Put(c, e).dropped >= c.dropped
         /\ Put(c, e).dropped = c.dropped => Told(c.pending) \subseteq Told(Put(c, e).pending)
<1> DEFINE p == c.pending
           q == Put(c, e)
<1>1. /\ p \in Seq(SUBSET Facts) /\ c.dropped \in Nat /\ Len(p) \in Nat
      /\ o \in Seq(SUBSET Facts) /\ Len(o) \in Nat /\ Len(o) = c.dropped + Len(p)
      /\ \A i \in 1 .. Len(p) : p[i] = o[c.dropped + i]
  BY DEF Buffers, Envelopes, Newest
<1>2. /\ Len(Append(o, e)) = Len(o) + 1 /\ Append(o, e)[Len(o) + 1] = e
      /\ \A i \in 1 .. Len(o) : Append(o, e)[i] = o[i]
  BY <1>1
<1> HIDE DEF p
<1>3. CASE Len(p) >= MaxPending
  <2>1. q.pending = Append(Tail(p), e) /\ q.dropped = c.dropped + 1 BY <1>3 DEF Put, p
  <2>2. p # <<>> BY <1>1, <1>3, ReporterAssumption
  <2>3. /\ Tail(p) \in Seq(SUBSET Facts) /\ Len(Tail(p)) = Len(p) - 1
        /\ \A i \in 1 .. Len(p) - 1 : Tail(p)[i] = p[i + 1]
    BY <1>1, <2>2
  <2>4. /\ Len(q.pending) = Len(p) /\ q.pending[Len(p)] = e
        /\ \A i \in 1 .. Len(p) - 1 : q.pending[i] = p[i + 1]
    <3> HIDE DEF q
    <3> QED BY <1>1, <2>1, <2>2, <2>3
  <2> HIDE DEF q
  <2>5. Len(Append(o, e)) = q.dropped + Len(q.pending) BY <1>1, <1>2, <2>1, <2>4
  <2>6. ASSUME NEW i \in 1 .. Len(q.pending) PROVE q.pending[i] = Append(o, e)[q.dropped + i]
    <3>1. CASE i = Len(p) BY <1>1, <1>2, <2>1, <2>4, <3>1
    <3>2. CASE i # Len(p)
      <4>1. i + 1 \in 1 .. Len(p) /\ i \in 1 .. Len(p) - 1 /\ i \in Int BY <1>1, <2>4, <3>2
      <4>2. q.pending[i] = o[c.dropped + (i + 1)] BY <1>1, <2>4, <4>1
      <4>3. c.dropped + (i + 1) = (c.dropped + 1) + i /\ c.dropped + (i + 1) \in 1 .. Len(o)
        <5>1. c.dropped \in Nat /\ Len(p) \in Nat /\ Len(o) = c.dropped + Len(p) BY <1>1
        <5> QED BY <4>1, <5>1
      <4> QED BY <1>2, <2>1, <4>2, <4>3
    <3> QED BY <3>1, <3>2
  <2>7. Newest(q, Append(o, e)) BY <2>5, <2>6 DEF Newest
  <2>8. Len(q.pending) <= MaxPending BY <2>4 DEF p
  <2> QED BY <1>1, <2>1, <2>7, <2>8 DEF q
<1>4. CASE ~(Len(p) >= MaxPending)
  <2>1. q.pending = Append(p, e) /\ q.dropped = c.dropped BY <1>4 DEF Put, p, Buffers
  <2>2. /\ Len(q.pending) = Len(p) + 1 /\ q.pending[Len(p) + 1] = e
        /\ \A i \in 1 .. Len(p) : q.pending[i] = p[i]
        /\ DOMAIN q.pending = 1 .. Len(p) + 1 /\ DOMAIN p = 1 .. Len(p)
    <3> HIDE DEF q
    <3> QED BY <1>1, <2>1
  <2> HIDE DEF q
  <2>3. Len(q.pending) <= MaxPending BY <1>1, <1>4, <2>2, ReporterAssumption
  <2>4. Newest(q, Append(o, e))
    <3>1. Len(Append(o, e)) = q.dropped + Len(q.pending)
      <4>1. Len(o) + 1 = c.dropped + (Len(p) + 1) BY <1>1
      <4> QED BY <1>2, <2>1, <2>2, <4>1
    <3>2. ASSUME NEW i \in 1 .. Len(q.pending) PROVE q.pending[i] = Append(o, e)[q.dropped + i]
      <4>1. CASE i = Len(p) + 1 BY <1>1, <1>2, <2>1, <2>2, <4>1
      <4>2. CASE i # Len(p) + 1
        <5>1. i \in 1 .. Len(p) /\ c.dropped + i \in 1 .. Len(o) BY <1>1, <2>2, <4>2
        <5> QED BY <1>1, <1>2, <2>1, <2>2, <5>1
      <4> QED BY <4>1, <4>2
    <3> QED BY <3>1, <3>2 DEF Newest
  <2>5. Told(p) \subseteq Told(q.pending) BY <2>2 DEF Told, ToSet
  <2> QED BY <1>1, <2>1, <2>3, <2>4, <2>5 DEF p, q
<1> QED BY <1>3, <1>4

\* Several envelopes, one after the other.
LEMMA EnqueueKeeps ==
  ASSUME buffer \in Buffers, Len(buffer.pending) <= MaxPending, offered \in Envelopes,
         DropsAreTheOldestAndCounted, NEW envelopes \in Envelopes, EnqueueAll(envelopes)
  PROVE  /\ buffer' \in Buffers /\ Len(buffer'.pending) <= MaxPending /\ offered' \in Envelopes
         /\ DropsAreTheOldestAndCounted'
         /\ \/ buffer'.dropped > buffer.dropped
            \/ Told(buffer.pending) \subseteq Told(buffer'.pending)
<1> DEFINE o(k) == offered \o SubSeq(envelopes, 1, k)
           G == {x \in Nat \X Buffers :
                   /\ Len(x[2].pending) <= MaxPending
                   /\ Newest(x[2], o(x[1]))
                   /\ x[2].dropped >= buffer.dropped
                   /\ x[2].dropped = buffer.dropped
                        => Told(buffer.pending) \subseteq Told(x[2].pending)}
<1>1. /\ envelopes \in Seq(SUBSET Facts) /\ offered \in Seq(SUBSET Facts) /\ Len(envelopes) \in Nat
      /\ buffer.dropped \in Nat
  BY DEF Envelopes, Buffers
<1>2. \A k \in 0 .. Len(envelopes) : SubSeq(envelopes, 1, k) \in Envelopes /\ o(k) \in Envelopes
  BY <1>1 DEF Envelopes
<1>3. o(0) = offered BY <1>1
<1>4. o(Len(envelopes)) = offered \o envelopes BY <1>1
<1>5. ASSUME NEW k \in 0 .. Len(envelopes) - 1 PROVE o(k + 1) = Append(o(k), envelopes[k + 1])
  <2>1. k + 1 \in 1 .. Len(envelopes) /\ 1 \in 1 .. Len(envelopes) /\ k + 1 \in 1 .. Len(envelopes)
    BY <1>1
  <2>2. SubSeq(envelopes, 1, k + 1) = SubSeq(envelopes, 1, (k + 1) - 1) \o <<envelopes[k + 1]>>
    BY <1>1, <2>1, SubSeqRecursiveSecond
  <2>3. (k + 1) - 1 = k OBVIOUS
  <2>4. SubSeq(envelopes, 1, k) \in Seq(SUBSET Facts) /\ o(k) \in Seq(SUBSET Facts)
        /\ envelopes[k + 1] \in SUBSET Facts
    BY <1>1, <1>2, <2>1 DEF Envelopes
  <2>5. <<envelopes[k + 1]>> \in Seq(SUBSET Facts) BY <2>4
  <2>6. o(k + 1) = o(k) \o <<envelopes[k + 1]>>
    <3>1. SubSeq(envelopes, 1, k + 1) = SubSeq(envelopes, 1, k) \o <<envelopes[k + 1]>>
      BY <2>2, <2>3
    <3> QED BY <1>1, <2>4, <2>5, <3>1, ConcatAssociative
  <2> HIDE DEF o
  <2> QED BY <2>4, <2>6, AppendIsConcat
<1>6. <<0, buffer>> \in G
  <2>1. Newest(buffer, offered) BY NewestIsSuffix DEF DropsAreTheOldestAndCounted
  <2> HIDE DEF o
  <2> QED BY <1>1, <1>3, <2>1
<1>7. ASSUME NEW k \in 0 .. Len(envelopes) - 1, NEW c \in Buffers, <<k, c>> \in G
      PROVE  <<k + 1, Put(c, envelopes[k + 1])>> \in G
  <2> DEFINE e == envelopes[k + 1]
  <2>1. e \in SUBSET Facts /\ o(k) \in Envelopes BY <1>1, <1>2
  <2>2. /\ Len(c.pending) <= MaxPending /\ Newest(c, o(k))
        /\ c.dropped \in Nat /\ c.dropped >= buffer.dropped
        /\ c.dropped = buffer.dropped => Told(buffer.pending) \subseteq Told(c.pending)
    <3> HIDE DEF o
    <3> QED BY <1>7 DEF Buffers
  <2> HIDE DEF e, o
  <2>3. /\ Len(Put(c, e).pending) <= MaxPending
        /\ Newest(Put(c, e), Append(o(k), e))
        /\ Put(c, e).dropped >= c.dropped
        /\ Put(c, e).dropped = c.dropped => Told(c.pending) \subseteq Told(Put(c, e).pending)
    BY <2>1, <2>2, PutKeeps
  <2>4. Put(c, e) \in Buffers /\ Put(c, e).dropped \in Nat BY <2>1, PutType DEF Buffers
  <2>5. Newest(Put(c, e), o(k + 1)) BY <1>5, <2>3 DEF e
  <2>6. Put(c, e).dropped >= buffer.dropped BY <1>1, <2>2, <2>3, <2>4
  <2>7. ASSUME Put(c, e).dropped = buffer.dropped
        PROVE  Told(buffer.pending) \subseteq Told(Put(c, e).pending)
    <3>1. c.dropped = buffer.dropped BY <1>1, <2>2, <2>3, <2>4, <2>7
    <3> QED BY <2>2, <2>3, <2>7, <3>1
  <2>8. <<k + 1, Put(c, e)>> \in G BY <2>3, <2>4, <2>5, <2>6, <2>7
  <2> QED BY <2>8 DEF e
<1>8. buffer' \in Buffers /\ <<Len(envelopes), buffer'>> \in G
  <2>1. buffer' = FoldLeft(Put, buffer, envelopes) BY DEF EnqueueAll
  <2> HIDE DEF G
  <2> QED BY <1>6, <1>7, <2>1, PutAll
<1>9. offered' = offered \o envelopes /\ offered' \in Envelopes BY <1>1 DEF EnqueueAll, Envelopes
<1>10. /\ Len(buffer'.pending) <= MaxPending /\ Newest(buffer', offered')
       /\ buffer'.dropped >= buffer.dropped /\ buffer'.dropped \in Nat
       /\ buffer'.dropped = buffer.dropped => Told(buffer.pending) \subseteq Told(buffer'.pending)
  <2> HIDE DEF o
  <2> QED BY <1>4, <1>8, <1>9 DEF Buffers
<1>11. DropsAreTheOldestAndCounted'
  BY <1>8, <1>9, <1>10, NewestIsSuffix DEF DropsAreTheOldestAndCounted
<1> QED BY <1>1, <1>8, <1>9, <1>10, <1>11
-----------------------------------------------------------------------------
\* The reporter has its types, room for what it saves and hands for one batch.
ReporterInv ==
  /\ ReporterTypeOK /\ DropsAreTheOldestAndCounted
  /\ pc = "save" => Len(files) < MaxFiles
  /\ batch # {} => pc \in {"send", "save"}

\* What LossIsTraced says of a step.
LosesTraced ==
  \/ Kept \subseteq Kept' \/ SendAcked \/ CacheAcked
  \/ buffer'.dropped > buffer.dropped \/ pc = "save" \/ pc' = "off" \/ ~Endpoint

LEMMA ReporterInitInv == Init => ReporterInv
<1> SUFFICES ASSUME Init PROVE ReporterInv OBVIOUS
<1>1. <<>> \in Seq(SUBSET Facts) /\ Len(<<>>) = 0 OBVIOUS
<1>2. SubSeq(<<>>, 1, 0) = <<>> BY SubSeqEmpty
<1>3. buffer = Empty /\ batch = {} /\ files = <<>> /\ torn = FALSE /\ offered = <<>> /\ pc = "idle"
  BY DEF Init, ReporterInit
<1>4. ReporterTypeOK
  <2>1. buffer.pending = <<>> /\ buffer \in [pending : Seq(SUBSET Facts), dropped : Nat]
    BY <1>1, <1>3 DEF Empty
  <2>2. Len(buffer.pending) <= MaxPending /\ Len(files) <= MaxFiles
    BY <1>1, <1>3, <2>1, ReporterAssumption
  <2> QED BY <1>1, <1>3, <2>1, <2>2 DEF ReporterTypeOK
<1>5. DropsAreTheOldestAndCounted BY <1>1, <1>2, <1>3 DEF DropsAreTheOldestAndCounted, Empty
<1> QED BY <1>3, <1>4, <1>5 DEF ReporterInv

\* A step that leaves the buffer alone and keeps the spool in bounds.
LEMMA BufferKept ==
  ASSUME ReporterInv, UNCHANGED <<buffer, offered>>, batch' \subseteq Facts,
         files' \in Seq(SUBSET Facts), Len(files') <= MaxFiles, torn' \in BOOLEAN,
         pc' \in {"idle", "send", "save", "cache", "off"},
         pc' = "save" => Len(files') < MaxFiles, batch' # {} => pc' \in {"send", "save"}
  PROVE  ReporterInv'
<1>1. ReporterTypeOK' BY DEF ReporterInv, ReporterTypeOK
<1>2. DropsAreTheOldestAndCounted' BY DEF ReporterInv, DropsAreTheOldestAndCounted
<1> QED BY <1>1, <1>2 DEF ReporterInv

LEMMA ReporterUnchanged ==
  ASSUME ReporterInv, UNCHANGED reporterVars PROVE ReporterInv' /\ LosesTraced
<1>1. UNCHANGED <<buffer, batch, files, torn, pc, offered>> BY DEF reporterVars
<1>2. ReporterInv' BY <1>1 DEF ReporterInv, ReporterTypeOK, DropsAreTheOldestAndCounted
<1>3. Kept' = Kept BY <1>1 DEF Kept, Spooled
<1> QED BY <1>2, <1>3 DEF LosesTraced

\* The buffer is filled, by whoever it is.
LEMMA EnqueueStep ==
  ASSUME ReporterInv, NEW envelopes \in Envelopes, EnqueueAll(envelopes),
         UNCHANGED <<batch, files, torn, pc>>
  PROVE  ReporterInv' /\ LosesTraced
<1>1. /\ buffer \in Buffers /\ Len(buffer.pending) <= MaxPending /\ offered \in Envelopes
      /\ DropsAreTheOldestAndCounted
  BY DEF ReporterInv, ReporterTypeOK, Buffers, Envelopes
<1>2. /\ buffer' \in Buffers /\ Len(buffer'.pending) <= MaxPending /\ offered' \in Envelopes
      /\ DropsAreTheOldestAndCounted'
      /\ \/ buffer'.dropped > buffer.dropped
         \/ Told(buffer.pending) \subseteq Told(buffer'.pending)
  BY <1>1, EnqueueKeeps
<1>3. ReporterTypeOK' BY <1>2 DEF ReporterInv, ReporterTypeOK, Buffers, Envelopes
<1>4. ReporterInv' BY <1>2, <1>3 DEF ReporterInv
<1>5. Spooled' = Spooled BY DEF Spooled
<1> QED BY <1>2, <1>4, <1>5 DEF LosesTraced, Kept

\* Nothing is pending after a flush or the end of the process.
LEMMA Emptied ==
  ASSUME buffer' = Empty, offered' = <<>>
  PROVE  /\ buffer' \in Buffers /\ Len(buffer'.pending) <= MaxPending /\ offered' \in Envelopes
         /\ DropsAreTheOldestAndCounted'
<1>1. <<>> \in Seq(SUBSET Facts) /\ Len(<<>>) = 0 OBVIOUS
<1>2. SubSeq(<<>>, 1, 0) = <<>> BY SubSeqEmpty
<1> QED BY <1>1, <1>2, ReporterAssumption
        DEF Empty, Buffers, Envelopes, DropsAreTheOldestAndCounted

\* What a sequence of sets tells is in the union of what they range over.
LEMMA ToldIn == ASSUME NEW F, NEW s \in Seq(SUBSET F) PROVE Told(s) \subseteq F
<1>1. DOMAIN s = 1 .. Len(s) /\ \A i \in 1 .. Len(s) : s[i] \in SUBSET F OBVIOUS
<1> QED BY <1>1 DEF Told, ToSet

LEMMA FlushStep == ASSUME ReporterInv, Flush PROVE ReporterInv' /\ LosesTraced
<1>1. buffer' = Empty /\ offered' = <<>> /\ UNCHANGED <<files, torn>> /\ pc = "idle" BY DEF Flush
<1>2. Told(buffer.pending) \subseteq Facts
  BY ToldIn DEF ReporterInv, ReporterTypeOK
<1>3. batch = {} BY <1>1 DEF ReporterInv
<1>4. \/ pc' = "send" /\ batch' = Told(buffer.pending)
      \/ UNCHANGED <<pc, batch>> /\ (buffer.pending = <<>> \/ ~Endpoint)
  BY DEF Flush
<1>5. /\ buffer' \in Buffers /\ Len(buffer'.pending) <= MaxPending /\ offered' \in Envelopes
      /\ DropsAreTheOldestAndCounted'
  BY <1>1, Emptied
<1>6. ReporterTypeOK'
  BY <1>1, <1>2, <1>3, <1>4, <1>5 DEF ReporterInv, ReporterTypeOK, Buffers, Envelopes
<1>7. ReporterInv' BY <1>1, <1>3, <1>4, <1>5, <1>6 DEF ReporterInv
<1>8. LosesTraced
  <2>1. Told(<<>>) = {} BY DEF Told, ToSet
  <2>2. Spooled' = Spooled BY <1>1 DEF Spooled
  <2> QED BY <1>3, <1>4, <2>1, <2>2 DEF LosesTraced, Kept
<1> QED BY <1>7, <1>8

LEMMA SendingKeeps == ASSUME ReporterInv, Sending PROVE ReporterInv' /\ LosesTraced
<1>1. /\ files \in Seq(SUBSET Facts) /\ Len(files) <= MaxFiles /\ Len(files) \in Nat
      /\ batch \in SUBSET Facts /\ torn \in BOOLEAN /\ MaxFiles \in Nat
      /\ pc = "save" => Len(files) < MaxFiles
      /\ batch # {} => pc \in {"send", "save"}
  BY ReporterAssumption DEF ReporterInv, ReporterTypeOK
<1>2. CASE SendAcked BY <1>1, <1>2, BufferKept DEF SendAcked, LosesTraced
<1>3. CASE SendFails
  <2>1. Kept' = Kept BY <1>3 DEF SendFails, Kept, Spooled
  <2> QED BY <1>1, <1>3, <2>1, BufferKept DEF SendFails, LosesTraced
<1>4. CASE SaveToCache
  <2>1. Append(files, batch) \in Seq(SUBSET Facts) /\ Len(Append(files, batch)) = Len(files) + 1
    BY <1>1
  <2> QED BY <1>1, <1>4, <2>1, BufferKept DEF SaveToCache, LosesTraced
<1>5. CASE SaveFails BY <1>1, <1>5, BufferKept DEF SaveFails, LosesTraced
<1>6. CASE CacheAcked
  <2>1. Tail(files) \in Seq(SUBSET Facts) /\ Len(Tail(files)) = Len(files) - 1
    BY <1>1, <1>6 DEF CacheAcked
  <2> QED BY <1>1, <1>6, <2>1, BufferKept DEF CacheAcked, LosesTraced
<1>7. CASE CacheFails \/ CacheDropsTorn \/ CacheEnds
  <2>1. UNCHANGED <<buffer, batch, files, offered>> /\ torn' \in BOOLEAN /\ pc = "cache"
        /\ pc' \in {"idle", "cache"}
    BY <1>1, <1>7 DEF CacheFails, CacheDropsTorn, CacheEnds
  <2>2. Kept' = Kept BY <2>1 DEF Kept, Spooled
  <2> QED BY <1>1, <2>1, <2>2, BufferKept DEF LosesTraced
<1> QED BY <1>2, <1>3, <1>4, <1>5, <1>6, <1>7 DEF Sending

LEMMA EndsKeeps == ASSUME ReporterInv, ProcessEnds PROVE ReporterInv' /\ LosesTraced
<1>1. /\ buffer' = Empty /\ batch' = {} /\ offered' = <<>> /\ torn' \in BOOLEAN
      /\ UNCHANGED files /\ pc' = "off"
  BY DEF ProcessEnds, ReporterEnds, ReporterInv, ReporterTypeOK
<1>2. /\ buffer' \in Buffers /\ Len(buffer'.pending) <= MaxPending /\ offered' \in Envelopes
      /\ DropsAreTheOldestAndCounted'
  BY <1>1, Emptied
<1>3. ReporterTypeOK' BY <1>1, <1>2 DEF ReporterInv, ReporterTypeOK, Buffers, Envelopes
<1> QED BY <1>1, <1>2, <1>3 DEF ReporterInv, LosesTraced

LEMMA ObserveFills ==
  ASSUME IInv, ReporterInv, NEW crossed \in BOOLEAN, Observe(crossed)
  PROVE  ReporterInv' /\ LosesTraced
<1> DEFINE over == crossed /\ sampled
<1>1. PICK envelopes :
        /\ envelopes = Envelope(Diff) \o Envelope(MinuteTold(over)) \o OtherEnvelopes(over)
        /\ EnqueueAll(envelopes)
  BY DEF Observe, MinuteTold, OtherEnvelopes
<1>2. envelopes \in Envelopes
  <2> HIDE DEF over
  <2> QED BY <1>1, EnvelopesTell DEF IInv, Envelopes
<1> QED BY <1>1, <1>2, EnqueueStep DEF Observe

LEMMA ReporterNext ==
  ASSUME IInv, ReporterInv, [Next]_vars PROVE ReporterInv' /\ LosesTraced
<1>1. <<{}>> \in Envelopes BY DEF Envelopes
<1>2. ASSUME NEW c \in Conns, Connect(c) \/ Move(c) PROVE ReporterInv' /\ LosesTraced
  BY <1>2, ReporterUnchanged DEF Connect, Move, reporterVars
<1>3. ASSUME NEW gone \in SUBSET live, Disconnect(gone) PROVE ReporterInv' /\ LosesTraced
  BY <1>3, ReporterUnchanged DEF Disconnect, reporterVars
<1>4. CASE PunchTrace BY <1>1, <1>4, EnqueueStep DEF PunchTrace
<1>5. ASSUME NEW crossed \in BOOLEAN, Sample(crossed) PROVE ReporterInv' /\ LosesTraced
  BY <1>5, ObserveFills DEF Sample
<1>6. CASE Probe BY <1>1, <1>6, EnqueueStep DEF Probe
<1>7. CASE FlushTick \/ Stop BY <1>7, FlushStep DEF FlushTick, Stop
<1>8. CASE SendingStep BY <1>8, SendingKeeps DEF SendingStep
<1>9. CASE Exit \/ Crash BY <1>9, EndsKeeps DEF Exit, Crash
<1>10. CASE Boot
  <2>1. UNCHANGED <<buffer, batch, files, torn, offered>> /\ pc = "off" /\ pc' = "idle"
    BY <1>10 DEF Boot
  <2>2. Kept' = Kept BY <2>1 DEF Kept, Spooled
  <2> QED BY <2>1, <2>2, BufferKept DEF ReporterInv, ReporterTypeOK, LosesTraced
<1>11. CASE UNCHANGED vars BY <1>11, ReporterUnchanged DEF vars
<1> QED BY <1>2, <1>3, <1>4, <1>5, <1>6, <1>7, <1>8, <1>9, <1>10, <1>11 DEF Next

\* The buffer of the reporter holds the end of what was offered, and the places of
\* a flush say where its batch is.
THEOREM ReporterInvariant == Spec => []ReporterInv
<1>1. IInv /\ ReporterInv /\ [Next]_vars => ReporterInv' BY ReporterNext
<1> QED BY <1>1, Invariant, ReporterInitInv, PTL DEF Spec

\* Nothing but the oldest is ever dropped from the bounded buffer, and each drop is
\* counted, for any limit and however many envelopes a tick or a refused flush puts back.
THEOREM DropsAreTheOldestAndCountedThm == Spec => []DropsAreTheOldestAndCounted
<1>1. ReporterInv => DropsAreTheOldestAndCounted BY DEF ReporterInv
<1> QED BY <1>1, ReporterInvariant, PTL

\* No fact goes without a trace, whatever the endpoint, the disk and the process do.
THEOREM LossIsTracedThm == Spec => LossIsTraced
<1>1. IInv /\ ReporterInv /\ [Next]_vars =>
        [Kept \subseteq Kept' \/ SendAcked \/ CacheAcked
         \/ buffer'.dropped > buffer.dropped \/ pc = "save" \/ pc' = "off" \/ ~Endpoint]_reporterVars
  BY ReporterNext DEF LosesTraced
<1> QED BY <1>1, Invariant, ReporterInvariant, PTL DEF Spec, LossIsTraced
-----------------------------------------------------------------------------
\* The types the sums are built on; what a tick saw of a connection is what is
\* known of it.
Measured ==
  /\ sum \in Nat /\ reported \in Nat /\ sampled \in BOOLEAN
  /\ moved \in [Conns -> 0 .. MaxBytes]
  /\ base \in [Conns -> 0 .. MaxBytes] /\ known \in [Conns -> 0 .. MaxBytes]
  /\ \A c \in DOMAIN seen : seen[c] \in 0 .. MaxBytes /\ seen[c] <= moved[c] /\ known[c] = seen[c]

\* What is known of a connection was seen by a tick, and its opening told.
KnownIsTold == \A c \in Conns : known[c] # 0 => Open(c) \in told

\* Before the first tick nothing is known.
NothingBefore ==
  ~sampled => /\ DOMAIN seen = {} /\ sum = 0 /\ reported = 0
              /\ \A c \in Conns : known[c] = 0 /\ base[c] = 0

SumInv == Measured /\ KnownIsTold /\ NothingBefore /\ BytesAreSummedOnce

\* The bytes of all connections together.
Total(f) == SumFunctionOnSet(f, Conns)
KnownBytes == [c \in Conns |-> known[c] - base[c]]

LEMMA SummedOnce == BytesAreSummedOnce <=> reported + sum = Total(KnownBytes)
BY DEF BytesAreSummedOnce, Total, KnownBytes, SumFunction

LEMMA TotalZero == ASSUME NEW f, \A c \in Conns : f[c] = 0 PROVE Total(f) = 0
<1>1. SumFunctionOnSet(f, Conns) = SumFunctionOnSet(f, {})
  BY ObservationAssumption, SumSupport
<1>2. SumFunctionOnSet(f, {}) = 0 BY FS_EmptySet, SumUnfold DEF Integral
<1> QED BY <1>1, <1>2 DEF Total

LEMMA SumInitInv == Init => SumInv
<1> SUFFICES ASSUME Init PROVE SumInv OBVIOUS
<1> USE DEF Init, Nobody, Zero
<1>1. Measured
  <2>1. 0 \in 0 .. MaxBytes BY ObservationAssumption
  <2> QED BY <2>1 DEF Measured
<1>2. KnownIsTold /\ NothingBefore BY DEF KnownIsTold, NothingBefore
<1>3. Total(KnownBytes) = 0 BY TotalZero DEF KnownBytes
<1> QED BY <1>1, <1>2, <1>3, SummedOnce DEF SumInv

\* A step that is not a tick: bytes may move, but nothing more is known.
LEMMA SumQuietStep ==
  ASSUME SumInv, UNCHANGED <<seen, sampled, sum, reported, base, known, told>>,
         moved' \in [Conns -> 0 .. MaxBytes], \A c \in Conns : moved'[c] >= moved[c],
         DOMAIN seen \subseteq Conns
  PROVE  SumInv'
<1>1. Measured'
  <2>1. \A c \in DOMAIN seen : c \in Conns /\ moved[c] \in 0 .. MaxBytes /\ moved'[c] \in 0 .. MaxBytes
    BY DEF SumInv, Measured
  <2>2. \A c \in DOMAIN seen : seen[c] \in 0 .. MaxBytes /\ seen[c] <= moved[c] /\ known[c] = seen[c]
    BY DEF SumInv, Measured
  <2>3. \A c \in DOMAIN seen : seen[c] <= moved'[c]
    BY <2>1, <2>2, ObservationAssumption
  <2>4. /\ sum' \in Nat /\ reported' \in Nat /\ sampled' \in BOOLEAN
        /\ base' \in [Conns -> 0 .. MaxBytes] /\ known' \in [Conns -> 0 .. MaxBytes]
        /\ seen' = seen /\ known' = known
    BY DEF SumInv, Measured
  <2>5. \A c \in DOMAIN seen' :
          seen'[c] \in 0 .. MaxBytes /\ seen'[c] <= moved'[c] /\ known'[c] = seen'[c]
    BY <2>2, <2>3, <2>4
  <2> QED BY Zenon, <2>4, <2>5 DEF Measured
<1>2. KnownIsTold' /\ NothingBefore' BY DEF SumInv, KnownIsTold, NothingBefore
<1>3. BytesAreSummedOnce' BY DEF SumInv, BytesAreSummedOnce
<1> QED BY <1>1, <1>2, <1>3 DEF SumInv

LEMMA SumEndStep == ASSUME SumInv, ProcessEnds PROVE SumInv'
<1>1. /\ DOMAIN seen' = {} /\ sampled' = FALSE /\ sum' = 0 /\ reported' = 0
      /\ base' = [c \in Conns |-> 0] /\ known' = [c \in Conns |-> 0] /\ UNCHANGED moved
  BY DEF ProcessEnds, Nobody, Zero
<1>2. Measured'
  <2>1. 0 \in 0 .. MaxBytes BY ObservationAssumption
  <2>2. base' \in [Conns -> 0 .. MaxBytes] /\ known' \in [Conns -> 0 .. MaxBytes] BY <1>1, <2>1
  <2>3. moved' \in [Conns -> 0 .. MaxBytes] BY <1>1 DEF SumInv, Measured
  <2> QED BY <1>1, <2>2, <2>3 DEF Measured
<1>3. KnownIsTold' /\ NothingBefore' BY <1>1 DEF KnownIsTold, NothingBefore
<1>4. KnownBytes' = [c \in Conns |-> 0] BY <1>1 DEF KnownBytes
<1>5. Total(KnownBytes') = 0 BY <1>4, TotalZero
<1>6. BytesAreSummedOnce' BY <1>1, <1>5 DEF BytesAreSummedOnce, Total, KnownBytes, SumFunction
<1> QED BY <1>2, <1>3, <1>6 DEF SumInv

\* What a tick finds a connection to have moved since the last one.
MovedSince == [c \in live |-> moved[c] - (IF c \in DOMAIN seen THEN seen[c] ELSE 0)]

\* A tick adds to the sums what it comes to know.
LEMMA SumObserveStep ==
  ASSUME IInv, SumInv, NEW crossed \in BOOLEAN, Observe(crossed)
  PROVE  SumInv'
<1> DEFINE over == crossed /\ sampled
<1>1. /\ live \subseteq Conns /\ DOMAIN seen \subseteq Conns
      /\ Measured /\ KnownIsTold /\ NothingBefore /\ BytesAreSummedOnce
      /\ IsFiniteSet(Conns) /\ IsFiniteSet(live)
  BY ObservationAssumption, FS_Subset DEF IInv, Placed, SumInv
<1>2. /\ UNCHANGED <<live, moved>> /\ sampled' = TRUE
      /\ sum' = (IF over THEN 0 ELSE sum) + Gained
      /\ reported' = IF over THEN reported + sum ELSE reported
      /\ seen' = [c \in live |-> moved[c]]
      /\ base' = IF sampled THEN base ELSE [c \in Conns |-> IF c \in live THEN moved[c] ELSE 0]
      /\ known' = [c \in Conns |-> IF c \in live THEN moved[c] ELSE known[c]]
      /\ told \subseteq told'
  BY DEF Observe
<1>3. \A c \in Conns : /\ moved[c] \in Nat /\ known[c] \in Nat /\ base[c] \in Nat
                       /\ moved[c] <= MaxBytes /\ MaxBytes \in Nat
  BY <1>1, ObservationAssumption DEF Measured
<1>4. \A c \in live : known[c] = (IF c \in DOMAIN seen THEN seen[c] ELSE 0) /\ known[c] <= moved[c]
  <2> SUFFICES ASSUME NEW c \in live
               PROVE  known[c] = (IF c \in DOMAIN seen THEN seen[c] ELSE 0) /\ known[c] <= moved[c]
    OBVIOUS
  <2>1. CASE c \in DOMAIN seen BY <1>1, <2>1 DEF Measured
  <2>2. CASE c \notin DOMAIN seen
    <3>1. Open(c) \notin told BY <2>2 DEF IInv, LiveIsNotClosed
    <3>2. known[c] = 0 BY <1>1, <3>1 DEF KnownIsTold
    <3> QED BY <1>1, <1>3, <2>2, <3>2
  <2> QED BY <2>1, <2>2
<1>5. Gained \in Nat /\ (sampled => Gained = SumFunctionOnSet(MovedSince, live))
  <2>1. \A c \in live : MovedSince[c] \in Nat BY <1>1, <1>3, <1>4 DEF MovedSince
  <2>2. SumFunctionOnSet(MovedSince, live) \in Nat BY <1>1, <2>1, SumNat
  <2>3. Gained = IF ~sampled THEN 0 ELSE SumFunctionOnSet(MovedSince, live)
    BY DEF Gained, MovedSince, SumFunction
  <2> QED BY <2>2, <2>3
<1>6. Measured'
  <2>1. /\ known' \in [Conns -> 0 .. MaxBytes]
        /\ base' \in [Conns -> 0 .. MaxBytes]
    BY <1>1, <1>2, <1>3 DEF Measured
  <2>2. sum' \in Nat /\ reported' \in Nat BY <1>1, <1>2, <1>5 DEF Measured
  <2>3. \A c \in DOMAIN seen' :
          seen'[c] \in 0 .. MaxBytes /\ seen'[c] <= moved'[c] /\ known'[c] = seen'[c]
    BY <1>1, <1>2, <1>3
  <2> QED BY <1>1, <1>2, <2>1, <2>2, <2>3 DEF Measured
<1>7. KnownIsTold'
  <2> SUFFICES ASSUME NEW c \in Conns, known'[c] # 0 PROVE Open(c) \in told' BY DEF KnownIsTold
  <2>1. CASE c \in live
    <3>1. IInv' BY ObserveStep
    <3>2. c \in DOMAIN seen' BY <1>2, <2>1
    <3> QED BY <3>1, <3>2 DEF IInv, SeenIsOpen
  <2>2. CASE c \notin live BY <1>1, <1>2, <2>2 DEF KnownIsTold
  <2> QED BY <2>1, <2>2
<1>8. NothingBefore' BY <1>2 DEF NothingBefore
<1>9. BytesAreSummedOnce'
  <2>1. reported' + sum' = Total(KnownBytes')
    <3>1. CASE ~sampled
      <4>1. \A c \in Conns : KnownBytes'[c] = 0
        BY <1>1, <1>2, <1>3, <3>1 DEF KnownBytes, NothingBefore
      <4>2. Total(KnownBytes') = 0 BY <4>1, TotalZero
      <4>3. Gained = 0 BY <3>1 DEF Gained
      <4> QED BY <1>1, <1>2, <3>1, <4>2, <4>3 DEF NothingBefore
    <3>2. CASE sampled
      <4> DEFINE more == [c \in Conns |-> IF c \in live THEN MovedSince[c] ELSE 0]
      <4>1. \A c \in live : MovedSince[c] \in Int BY <1>1, <1>3, <1>4 DEF MovedSince
      <4>2. Integral(more, Conns) /\ Integral(KnownBytes, Conns)
        BY <1>3, <4>1 DEF Integral, KnownBytes
      <4>3. \A c \in Conns : KnownBytes'[c] = KnownBytes[c] + more[c]
        <5> SUFFICES ASSUME NEW c \in Conns PROVE KnownBytes'[c] = KnownBytes[c] + more[c] OBVIOUS
        <5>1. KnownBytes'[c] = known'[c] - base[c] /\ KnownBytes[c] = known[c] - base[c]
          BY <1>2, <3>2 DEF KnownBytes
        <5>2. CASE c \in live
          <6>1. more[c] = moved[c] - known[c] BY <1>4, <5>2 DEF MovedSince
          <6>2. known'[c] = moved[c] BY <1>2, <5>2
          <6> QED BY <1>3, <5>1, <6>1, <6>2
        <5>3. CASE c \notin live BY <1>2, <1>3, <5>1, <5>3
        <5> QED BY <5>2, <5>3
      <4>4. Total(KnownBytes') = Total(KnownBytes) + Total(more)
        <5> HIDE DEF more
        <5> QED BY <1>1, <4>2, <4>3, SumAdd DEF Total
      <4>5. Total(more) = Gained
        <5>1. \A c \in live : MovedSince[c] \in Int /\ more[c] = MovedSince[c] BY <1>1, <4>1
        <5>2. \A c \in Conns \ live : more[c] = 0 OBVIOUS
        <5> HIDE DEF more
        <5>3. Total(more) = SumFunctionOnSet(MovedSince, live)
          BY <1>1, <5>1, <5>2, SumSupport DEF Total
        <5> QED BY <1>5, <3>2, <5>3
      <4>6. reported + sum = Total(KnownBytes) BY <1>1, SummedOnce
      <4>7. reported' + sum' = reported + sum + Gained BY <1>1, <1>2, <1>5 DEF Measured
      <4> QED BY <4>4, <4>5, <4>6, <4>7
    <3> QED BY <3>1, <3>2
  <2> QED BY <2>1 DEF BytesAreSummedOnce, Total, KnownBytes, SumFunction
<1> QED BY <1>6, <1>7, <1>8, <1>9 DEF SumInv

LEMMA SumsNext == ASSUME IInv, SumInv, [Next]_vars PROVE SumInv'
<1> USE DEF samplerVars, worldVars, historyVars
<1>1. /\ DOMAIN seen \subseteq Conns /\ moved \in [Conns -> 0 .. MaxBytes]
      /\ \A c \in Conns : moved[c] \in Int /\ moved[c] >= moved[c]
  BY ObservationAssumption DEF IInv, Placed, SumInv, Measured
<1>2. ASSUME UNCHANGED <<seen, sampled, sum, reported, base, known, told, moved>> PROVE SumInv'
  BY <1>1, <1>2, SumQuietStep
<1>3. ASSUME NEW c \in Conns, Connect(c) PROVE SumInv' BY <1>2, <1>3 DEF Connect
<1>4. ASSUME NEW c \in Conns, Move(c) PROVE SumInv'
  <2>1. /\ moved' = [moved EXCEPT ![c] = @ + 1] /\ moved[c] < MaxBytes
        /\ UNCHANGED <<seen, sampled, sum, reported, base, known, told>>
    BY <1>4 DEF Move
  <2>2. moved' \in [Conns -> 0 .. MaxBytes] /\ \A d \in Conns : moved'[d] >= moved[d]
    BY <1>1, <2>1, ObservationAssumption
  <2> QED BY <1>1, <2>1, <2>2, SumQuietStep
<1>5. ASSUME NEW gone \in SUBSET live, Disconnect(gone) PROVE SumInv'
  BY <1>2, <1>5 DEF Disconnect
<1>6. CASE PunchTrace \/ Probe \/ FlushTick \/ Stop \/ SendingStep \/ Boot
  BY <1>2, <1>6 DEF PunchTrace, Probe, FlushTick, Stop, SendingStep, Boot
<1>7. ASSUME NEW crossed \in BOOLEAN, Sample(crossed) PROVE SumInv'
  BY <1>7, SumObserveStep DEF Sample
<1>8. CASE Exit \/ Crash BY <1>8, SumEndStep DEF Exit, Crash
<1>9. CASE UNCHANGED vars BY <1>2, <1>9 DEF vars
<1> QED BY <1>3, <1>4, <1>5, <1>6, <1>7, <1>8, <1>9 DEF Next

\* The sums told and the sum of the minute are the bytes between the first sight of
\* a connection and the last.
THEOREM SumInvariant == Spec => []SumInv
<1>1. IInv /\ SumInv /\ [Next]_vars => SumInv' BY SumsNext
<1> QED BY <1>1, Invariant, SumInitInv, PTL DEF Spec

\* Over ticks, minutes and connections that come and go every byte is told once.
THEOREM BytesAreSummedOnceThm == Spec => []BytesAreSummedOnce
<1>1. SumInv => BytesAreSummedOnce BY DEF SumInv
<1> QED BY <1>1, SumInvariant, PTL
-----------------------------------------------------------------------------
\* The rest of the types.
Others ==
  /\ active \in BOOLEAN /\ stopping \in BOOLEAN
  /\ crashes \in 0 .. MaxCrashes /\ told \subseteq Facts

LEMMA OthersNext == ASSUME IInv, Others, [Next]_vars PROVE Others'
<1> USE DEF samplerVars, worldVars, historyVars, Others
<1>1. ASSUME NEW c \in Conns, Connect(c) \/ Move(c) PROVE Others' BY <1>1 DEF Connect, Move
<1>2. ASSUME NEW gone \in SUBSET live, Disconnect(gone) PROVE Others' BY <1>2 DEF Disconnect
<1>3. CASE PunchTrace \/ Probe \/ FlushTick \/ Stop \/ SendingStep \/ Boot
  BY <1>3 DEF PunchTrace, Probe, FlushTick, Stop, SendingStep, Boot
<1>4. ASSUME NEW crossed \in BOOLEAN, Sample(crossed) PROVE Others'
  <2> DEFINE over == crossed /\ sampled
  <2>1. PICK envelopes :
          /\ envelopes = Envelope(Diff) \o Envelope(MinuteTold(over)) \o OtherEnvelopes(over)
          /\ told' = told \union Told(envelopes) /\ UNCHANGED <<stopping, crashes>>
          /\ active' \in BOOLEAN
    BY <1>4 DEF Sample, Observe, MinuteTold, OtherEnvelopes
  <2>2. envelopes \in Seq(SUBSET Facts)
    <3> HIDE DEF over
    <3> QED BY <2>1, EnvelopesTell DEF IInv
  <2>3. Told(envelopes) \subseteq Facts BY <2>2, ToldIn
  <2> QED BY <2>1, <2>3
<1>5. CASE Exit BY <1>5 DEF Exit, ProcessEnds
<1>6. CASE Crash
  <2>1. crashes' = crashes + 1 /\ crashes < MaxCrashes /\ UNCHANGED told
        /\ active' = FALSE /\ stopping' = FALSE
    BY <1>6 DEF Crash, ProcessEnds
  <2>2. crashes' \in 0 .. MaxCrashes BY <2>1, ObservationAssumption
  <2> QED BY <2>1, <2>2
<1>7. CASE UNCHANGED vars BY <1>7 DEF vars
<1> QED BY <1>1, <1>2, <1>3, <1>4, <1>5, <1>6, <1>7 DEF Next

\* Type correctness; the buffer keeps its bound whatever the endpoint does.
THEOREM TypeCorrect == Spec => []TypeOK
<1>1. Init => Others
  <2>1. 0 \in 0 .. MaxCrashes BY ObservationAssumption
  <2> QED BY <2>1 DEF Init, Others
<1>2. IInv /\ Others /\ [Next]_vars => Others' BY OthersNext
<1>3. IInv /\ ReporterInv /\ SumInv /\ Others => TypeOK
  BY DEF IInv, Placed, ReporterInv, SumInv, Measured, Others, TypeOK
<1> QED BY <1>1, <1>2, <1>3, Invariant, ReporterInvariant, SumInvariant, PTL DEF Spec
=============================================================================
