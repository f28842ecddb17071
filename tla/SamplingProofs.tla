---------------------------- MODULE SamplingProofs ----------------------------
(***************************************************************************)
(* Theorems about Sampling, for any connections, requests, network cards and *)
(* number of looks. The first half is about the connections: one stall for a *)
(* read, none for a request that has its answer, and a count of lost packets *)
(* within bounds. The second is about the rates: their types, the windows of *)
(* the network card, and the figures of a minute.                            *)
(***************************************************************************)
EXTENDS Sampling, SequenceTheorems, DataTheorems

\* The types the rest is built on.
Counted ==
  /\ unused \subseteq Conns /\ live \subseteq Conns \ unused
  /\ up \in [Conns -> Nat] /\ down \in [Conns -> Nat] /\ reads \in [Conns -> Nat]
  /\ prevDown \in [Conns -> Nat] /\ upAtDown \in [Conns -> Nat]
  /\ stalledAt \in [Conns -> Nat] /\ stalls \in [Conns -> Nat] /\ request \in [Conns -> Nat]
  /\ stalledOn \in [Conns -> SUBSET Nat]
  /\ lost \in Nat /\ prevLost \in Nat /\ pktsLost \in Nat /\ declared \in Nat

\* A connection yet to come has no history.
NothingYet ==
  \A c \in unused : /\ up[c] = 0 /\ down[c] = 0 /\ reads[c] = 0 /\ request[c] = 0
                    /\ prevDown[c] = 0 /\ upAtDown[c] = 0 /\ stalledAt[c] = 0
                    /\ stalledOn[c] = {}

\* The looks lag behind the connection.
LooksLag ==
  \A c \in live : /\ prevDown[c] <= down[c] /\ stalledAt[c] <= reads[c]
                  /\ ~sampled => prevDown[c] = 0

\* While the download stands still, the upload since it was last seen to grow
\* is part of the request: an answer between two looks is never missed.
UploadIsRequest ==
  \A c \in live : down[c] = prevDown[c] => up[c] - upAtDown[c] <= request[c]

\* A stall is counted for a read and for no read after it.
StallsInOrder ==
  /\ \A c \in Conns : IsFiniteSet(stalledOn[c])
  /\ \A c \in live : \A r \in stalledOn[c] : r <= stalledAt[c]

\* What the next look will add is no more than QUIC has taken for lost.
LossToCome ==
  /\ LossIsBounded
  /\ lost > prevLost => pktsLost + (lost - prevLost) <= declared

IInv ==
  /\ Counted /\ NothingYet /\ LooksLag /\ UploadIsRequest
  /\ StallsInOrder /\ OneStallPerRead /\ LossToCome
-----------------------------------------------------------------------------
LEMMA InitInv == Init => IInv
<1> SUFFICES ASSUME Init PROVE IInv OBVIOUS
<1> USE DEF Init, QualityInit, Zero
<1>1. Counted BY DEF Counted
<1>2. NothingYet /\ LooksLag /\ UploadIsRequest BY DEF NothingYet, LooksLag, UploadIsRequest
<1>3. StallsInOrder BY FS_EmptySet DEF StallsInOrder
<1>4. OneStallPerRead BY FS_EmptySet DEF OneStallPerRead
<1>5. LossToCome BY DEF LossToCome, LossIsBounded
<1> QED BY <1>1, <1>2, <1>3, <1>4, <1>5 DEF IInv

\* What the variables left alone keep.
LEMMA StallsKept ==
  ASSUME StallsInOrder, OneStallPerRead, live' \subseteq live, UNCHANGED <<stalls, stalledOn, stalledAt>>
  PROVE  StallsInOrder' /\ OneStallPerRead'
  BY DEF StallsInOrder, OneStallPerRead

LEMMA LossKept == ASSUME LossToCome, UNCHANGED lossVars PROVE LossToCome'
  BY DEF LossToCome, LossIsBounded, lossVars

LEMMA ConnectKeeps == ASSUME IInv, NEW c \in Conns, Connect(c) PROVE IInv'
<1> USE DEF IInv, Connect, stallVars
<1>1. Counted' BY DEF Counted, lossVars
<1>2. NothingYet' BY DEF NothingYet
<1>3. LooksLag' BY DEF LooksLag, NothingYet, Counted
<1>4. UploadIsRequest' BY DEF UploadIsRequest, NothingYet, Counted
<1>5. StallsInOrder' BY DEF StallsInOrder, NothingYet, Counted
<1>6. OneStallPerRead' BY DEF OneStallPerRead
<1>7. LossToCome' BY LossKept
<1> QED BY <1>1, <1>2, <1>3, <1>4, <1>5, <1>6, <1>7 DEF IInv

LEMMA DisconnectKeeps == ASSUME IInv, NEW c \in Conns, Disconnect(c) PROVE IInv'
<1> USE DEF IInv, Disconnect, stallVars
<1>1. Counted' BY DEF Counted, lossVars
<1>2. NothingYet' BY DEF NothingYet
<1>3. LooksLag' /\ UploadIsRequest' BY DEF LooksLag, UploadIsRequest
<1>4. StallsInOrder' /\ OneStallPerRead' BY StallsKept
<1>5. LossToCome' BY LossKept
<1> QED BY <1>1, <1>2, <1>3, <1>4, <1>5 DEF IInv

LEMMA SendKeeps ==
  ASSUME IInv, NEW c \in Conns, NEW bytes \in Nat, Send(c, bytes)
  PROVE  IInv'
<1> USE DEF IInv, Send, stallVars
<1>1. Counted' BY DEF Counted, lossVars
<1>2. NothingYet' BY DEF NothingYet, Counted
<1>3. LooksLag' BY DEF LooksLag, Counted
<1>4. UploadIsRequest' BY DEF UploadIsRequest, Counted
<1>5. StallsInOrder' /\ OneStallPerRead' BY StallsKept
<1>6. LossToCome' BY LossKept
<1> QED BY <1>1, <1>2, <1>3, <1>4, <1>5, <1>6 DEF IInv

LEMMA AnswerKeeps == ASSUME IInv, NEW c \in Conns, Answer(c) PROVE IInv'
<1> USE DEF IInv, Answer, stallVars
<1>1. Counted' BY DEF Counted, lossVars
<1>2. NothingYet' BY DEF NothingYet, Counted
<1>3. LooksLag' BY DEF LooksLag, Counted
<1>4. UploadIsRequest' BY DEF UploadIsRequest, LooksLag, Counted
<1>5. StallsInOrder' /\ OneStallPerRead' BY StallsKept
<1>6. LossToCome' BY LossKept
<1> QED BY <1>1, <1>2, <1>3, <1>4, <1>5, <1>6 DEF IInv

\* Nothing changes but what QUIC holds for lost.
LEMMA LossKeeps ==
  ASSUME IInv, UNCHANGED <<connVars, stallVars, stalledOn, request>>,
         lost' \in Nat, prevLost' \in Nat, pktsLost' \in Nat, declared' \in Nat, LossToCome'
  PROVE  IInv'
<1> USE DEF IInv, connVars, stallVars
<1>1. Counted' BY DEF Counted
<1>2. NothingYet' BY DEF NothingYet
<1>3. LooksLag' /\ UploadIsRequest' BY DEF LooksLag, UploadIsRequest
<1>4. StallsInOrder' /\ OneStallPerRead' BY StallsKept
<1> QED BY <1>1, <1>2, <1>3, <1>4 DEF IInv

LEMMA DeclareLostKeeps == ASSUME IInv, DeclareLost PROVE IInv'
<1>1. lost' \in Nat /\ prevLost' \in Nat /\ pktsLost' \in Nat /\ declared' \in Nat
  BY DEF IInv, Counted, DeclareLost
<1>2. LossToCome' BY DEF IInv, Counted, DeclareLost, LossToCome, LossIsBounded
<1> QED BY <1>1, <1>2, LossKeeps DEF DeclareLost

LEMMA LossRetractedKeeps == ASSUME IInv, LossRetracted PROVE IInv'
<1>1. lost' \in Nat /\ prevLost' \in Nat /\ pktsLost' \in Nat /\ declared' \in Nat
  BY DEF IInv, Counted, LossRetracted
<1>2. LossToCome' BY DEF IInv, Counted, LossRetracted, LossToCome, LossIsBounded
<1> QED BY <1>1, <1>2, LossKeeps DEF LossRetracted

\* A look: what it counts is new, and it starts again from what it saw.
LEMMA ObserveKeeps == ASSUME IInv, NEW old, QualityObserve(old) PROVE IInv'
<1>1. Counted BY DEF IInv
<1>2. /\ UNCHANGED <<unused, live, up, down, reads, answered, lost, declared, request>>
      /\ sampled' = TRUE
      /\ prevDown' = [c \in Conns |-> IF c \in live THEN down[c] ELSE 0]
      /\ \A c \in Conns : upAtDown'[c] = IF c \in live THEN NotedUpload(c) ELSE 0
      /\ \A c \in Conns : stalledAt'[c] = IF c \notin live THEN 0
                                          ELSE IF c \in Stalled(old) THEN reads[c] ELSE stalledAt[c]
      /\ \A c \in Conns : stalls'[c] = IF c \in Stalled(old) THEN stalls[c] + 1 ELSE stalls[c]
      /\ \A c \in Conns : stalledOn'[c] = IF c \in Stalled(old) THEN stalledOn[c] \union {reads[c]}
                                          ELSE stalledOn[c]
      /\ pktsLost' = pktsLost + NewlyLost /\ prevLost' = lost
  BY DEF QualityObserve
<1>3. \A c \in Conns : NotedUpload(c) \in {up[c], upAtDown[c]} BY DEF NotedUpload
<1>4. Stalled(old) \subseteq live BY DEF Stalled
<1>5. Counted'
  <2>1. upAtDown' \in [Conns -> Nat] BY <1>1, <1>3 DEF Counted, QualityObserve
  <2>2. stalledAt' \in [Conns -> Nat] /\ stalls' \in [Conns -> Nat] BY <1>1 DEF Counted, QualityObserve
  <2>3. stalledOn' \in [Conns -> SUBSET Nat] BY <1>1 DEF Counted, QualityObserve
  <2>4. pktsLost' \in Nat BY <1>1, <1>2 DEF Counted, NewlyLost
  <2> QED BY <1>1, <1>2, <2>1, <2>2, <2>3, <2>4 DEF Counted
<1>6. NothingYet' BY <1>1, <1>2, <1>4 DEF IInv, NothingYet, Counted
<1>7. LooksLag' BY <1>1, <1>2 DEF IInv, LooksLag, Counted
<1>8. UploadIsRequest'
  <2> SUFFICES ASSUME NEW c \in live PROVE up[c] - upAtDown'[c] <= request[c]
    BY <1>2 DEF UploadIsRequest
  <2>1. c \in Conns /\ up[c] \in Nat /\ down[c] \in Nat /\ request[c] \in Nat /\ prevDown[c] \in Nat
        /\ prevDown[c] <= down[c] /\ upAtDown[c] \in Nat
    BY <1>1 DEF IInv, LooksLag, Counted
  <2>2. CASE NotedUpload(c) = up[c] BY <1>2, <2>1, <2>2
  <2>3. CASE NotedUpload(c) # up[c]
    <3>1. down[c] = prevDown[c] /\ upAtDown'[c] = upAtDown[c]
      BY <1>2, <2>1, <2>3 DEF NotedUpload, Gained
    <3> QED BY <3>1 DEF IInv, UploadIsRequest
  <2> QED BY <2>2, <2>3
<1>9. ASSUME NEW c \in Stalled(old)
      PROVE  /\ reads[c] \notin stalledOn[c]
             /\ \A r \in stalledOn[c] : r \in Nat /\ r <= reads[c]
             /\ c \in Conns /\ reads[c] \in Nat
  <2>1. c \in live /\ c \in Conns /\ stalledAt[c] # reads[c] /\ stalledAt[c] <= reads[c]
        /\ reads[c] \in Nat /\ stalledAt[c] \in Nat
    BY <1>1, <1>9 DEF Stalled, IInv, LooksLag, Counted
  <2>2. \A r \in stalledOn[c] : r \in Nat /\ r <= stalledAt[c]
    BY <1>1, <2>1 DEF IInv, StallsInOrder, Counted
  <2> QED BY <2>1, <2>2
<1>10. StallsInOrder'
  <2>1. ASSUME NEW c \in Conns PROVE IsFiniteSet(stalledOn'[c])
    BY <1>2, FS_AddElement DEF IInv, StallsInOrder
  <2>2. ASSUME NEW c \in live, NEW r \in stalledOn'[c] PROVE r <= stalledAt'[c]
    <3>1. c \in Conns /\ reads[c] \in Nat BY <1>1 DEF Counted
    <3>2. CASE c \in Stalled(old)
      <4>1. stalledAt'[c] = reads[c] /\ r \in stalledOn[c] \union {reads[c]}
        BY <1>2, <2>2, <3>1, <3>2
      <4>2. \A q \in stalledOn[c] : q \in Nat /\ q <= reads[c] BY <1>9, <3>2
      <4> QED BY <3>1, <4>1, <4>2
    <3>3. CASE c \notin Stalled(old) BY <1>2, <2>2, <3>1, <3>3 DEF IInv, StallsInOrder
    <3> QED BY <3>2, <3>3
  <2> QED BY <1>2, <2>1, <2>2 DEF StallsInOrder
<1>11. OneStallPerRead'
  <2> SUFFICES ASSUME NEW c \in Conns PROVE stalls'[c] = Cardinality(stalledOn'[c])
    BY DEF OneStallPerRead
  <2>1. IsFiniteSet(stalledOn[c]) /\ stalls[c] = Cardinality(stalledOn[c])
    BY DEF IInv, StallsInOrder, OneStallPerRead
  <2>2. CASE c \in Stalled(old)
    <3>1. stalls'[c] = stalls[c] + 1 /\ stalledOn'[c] = stalledOn[c] \union {reads[c]}
      BY <1>2, <2>2
    <3>2. reads[c] \notin stalledOn[c] BY <1>9, <2>2
    <3>3. Cardinality(stalledOn[c] \union {reads[c]}) = Cardinality(stalledOn[c]) + 1
      BY <2>1, <3>2, FS_AddElement
    <3> QED BY <2>1, <3>1, <3>3
  <2>3. CASE c \notin Stalled(old) BY <1>2, <2>1, <2>3
  <2> QED BY <2>2, <2>3
<1>12. LossToCome' BY <1>1, <1>2 DEF IInv, Counted, LossToCome, LossIsBounded, NewlyLost
<1> QED BY <1>5, <1>6, <1>7, <1>8, <1>10, <1>11, <1>12 DEF IInv

LEMMA NextInv == ASSUME IInv, [Next]_vars PROVE IInv'
<1>1. ASSUME UNCHANGED qualityVars PROVE IInv'
  <2>1. UNCHANGED <<connVars, stallVars, stalledOn, request>> /\ UNCHANGED lossVars
    BY <1>1 DEF qualityVars
  <2>2. LossToCome' BY <2>1, LossKept DEF IInv
  <2>3. lost' \in Nat /\ prevLost' \in Nat /\ pktsLost' \in Nat /\ declared' \in Nat
    BY <2>1 DEF lossVars, IInv, Counted
  <2> QED BY <2>1, <2>2, <2>3, LossKeeps
<1>2. ASSUME NEW old, NEW elapsed, NEW crossed, ObserveQuality(old, elapsed, crossed) PROVE IInv'
  BY <1>2, ObserveKeeps DEF ObserveQuality
<1>3. CASE Happens
  <2>1. CASE UNCHANGED qualityVars BY <1>1, <2>1
  <2>2. CASE QualityNext
    <3>1. ASSUME NEW c \in Conns, Connect(c) \/ Disconnect(c) \/ Answer(c) PROVE IInv'
      BY <3>1, ConnectKeeps, DisconnectKeeps, AnswerKeeps
    <3>2. ASSUME NEW c \in Conns, NEW bytes \in {1, MinRequest}, Send(c, bytes) PROVE IInv'
      BY <3>2, SendKeeps, QualityAssumption
    <3> QED BY <2>2, <3>1, <3>2, DeclareLostKeeps, LossRetractedKeeps DEF QualityNext
  <2> QED BY <1>3, <2>1, <2>2 DEF Happens
<1>4. CASE UNCHANGED vars BY <1>1, <1>4 DEF vars
<1> QED BY <1>2, <1>3, <1>4 DEF Next

\* The state of the connections and of what the looks have noted of them.
THEOREM Invariant == Spec => []IInv
<1>1. IInv /\ [Next]_vars => IInv' BY NextInv
<1> QED BY <1>1, InitInv, PTL DEF Spec

\* However long a connection waits, and however often it is looked at, a second
\* stall is counted for it only after its client has sent again.
THEOREM OneStallPerReadThm == Spec => []OneStallPerRead
<1>1. IInv => OneStallPerRead BY DEF IInv
<1> QED BY <1>1, Invariant, PTL

\* The lost packets counted stay between what QUIC held for lost at the last
\* look and all it ever took for lost.
THEOREM LossIsBoundedThm == Spec => []LossIsBounded
<1>1. IInv => LossIsBounded BY DEF IInv, LossToCome
<1> QED BY <1>1, Invariant, PTL
-----------------------------------------------------------------------------
\* A stall is counted by a look only, for a request it has seen no answer to.
LEMMA StallStep ==
  ASSUME IInv, Next, NEW c \in Conns, stalls'[c] > stalls[c]
  PROVE  ~answered[c] /\ request[c] >= MinRequest
<1>1. Counted BY DEF IInv
<1>2. stalls[c] \in Nat BY <1>1 DEF Counted
<1>3. stalls' # stalls BY <1>2
<1>4. PICK old \in SUBSET live : QualityObserve(old)
  <2>1. ~Happens
    BY <1>3 DEF Happens, QualityNext, Connect, Disconnect, Answer, Send, DeclareLost,
                LossRetracted, stallVars, qualityVars
  <2> QED BY <2>1 DEF Next, ObserveQuality
<1>5. c \in Stalled(old) BY <1>2, <1>4 DEF QualityObserve
<1>6. /\ c \in live /\ ~answered[c] /\ up[c] - NotedUpload(c) >= MinRequest
  BY <1>5 DEF Stalled, IsStall
<1>7. /\ up[c] \in Nat /\ down[c] \in Nat /\ prevDown[c] \in Nat /\ upAtDown[c] \in Nat
      /\ request[c] \in Nat /\ prevDown[c] <= down[c] /\ MinRequest \in Nat \ {0}
  BY <1>1, <1>6, QualityAssumption DEF Counted, IInv, LooksLag
<1>8. NotedUpload(c) # up[c] BY <1>6, <1>7
<1>9. NotedUpload(c) = upAtDown[c] /\ down[c] = prevDown[c]
  BY <1>7, <1>8 DEF NotedUpload, Gained
<1>10. up[c] - upAtDown[c] <= request[c] BY <1>6, <1>9 DEF IInv, UploadIsRequest
<1> QED BY <1>6, <1>7, <1>9, <1>10

\* Rather too few stalls than a false one: what is counted really has had no
\* answer, though the looks see the counters only every ten seconds.
THEOREM StallsAreUnansweredThm == Spec => StallsAreUnanswered
<1>1. IInv /\ [Next]_vars =>
        [\A c \in Conns : stalls'[c] > stalls[c] =>
                            ~answered[c] /\ request[c] >= MinRequest]_qualityVars
  <2>1. UNCHANGED vars => UNCHANGED qualityVars BY DEF vars
  <2> QED BY <2>1, StallStep
<1> QED BY <1>1, Invariant, PTL DEF Spec, StallsAreUnanswered
-----------------------------------------------------------------------------
\* The types of the rates, and as many windows of the users as looks.
CapacityCounted ==
  /\ route \in Ifaces \union {NoIface} /\ iface \in Ifaces \union {NoIface}
  /\ present \subseteq Ifaces
  /\ wire \in [Ifaces -> Nat] /\ wireTx \in [Ifaces -> Nat] /\ since \in [Ifaces -> Nat]
  /\ prevNIC \in [ok : BOOLEAN, iface : Ifaces \union {NoIface}, rx : Nat, tx : Nat]
  /\ userDown \in Seq(Int) /\ nicRx \in Seq(Int) /\ rates \in Seq(Int)
  /\ Len(userDown) = Len(rates) /\ Len(nicRx) <= Len(rates) /\ Len(rates) <= MaxWindows

\* What a card has gained on its last reading it has carried since: a counter
\* that starts again can only lag behind.
CardLags ==
  prevNIC.ok => /\ prevNIC.iface \in Ifaces
                /\ wire[prevNIC.iface] <= prevNIC.rx + since[prevNIC.iface]

CapacityInv == CapacityCounted /\ CardLags

\* The rate told of n bytes: never above the true one, and below the overflow
\* the true one.
LEMMA RateTold ==
  ASSUME NEW n \in Nat, NEW d \in {1, 2}
  PROVE  /\ kbps(n, d) \in Int /\ kbps(n, d) <= Scale * n
         /\ (n * Scale) \div d \in Int
         /\ n < Overflow => kbps(n, d) = (n * Scale) \div d
<1> DEFINE K == Overflow * 2
           b == n * 2
<1>1. Overflow \in Nat \ {0} BY CapacityAssumption
<1>2. K \in Nat \ {0} /\ 2 * Overflow * 2 = 2 * K BY <1>1
<1>3. b \in Nat /\ (n < Overflow => b < K) BY <1>1
<1> DEFINE w == ((b + K) % (2 * K)) - K
<1>4. w \in Int /\ w <= b /\ (b < K => w = b)
  <2> HIDE DEF K, b
  <2> QED BY <1>2, <1>3
<1>5. Wrapped(b) = w BY <1>2 DEF Wrapped, Scale
<1>6. \A m \in Int : m <= b => Quotient(m, d) \in Int /\ Quotient(m, d) <= b
  <2> HIDE DEF b
  <2> QED BY <1>3 DEF Quotient
<1>7. Quotient(b, d) = b \div d /\ b \div d \in Int BY <1>3 DEF Quotient
<1>8. kbps(n, d) = Quotient(w, d) BY <1>5 DEF kbps, Scale
<1> HIDE DEF w
<1>9. kbps(n, d) \in Int /\ kbps(n, d) <= b BY <1>4, <1>6, <1>8
<1>10. n < Overflow => kbps(n, d) = b \div d BY <1>3, <1>4, <1>7, <1>8
<1> QED BY <1>7, <1>9, <1>10 DEF Scale

\* The bytes of a window are a sum that connections cannot make negative.
LEMMA WindowDownType == ASSUME IInv PROVE WindowDown \in Nat
<1> DEFINE f == [c \in live |-> Gained(c)]
<1>1. live \subseteq Conns /\ IsFiniteSet(live)
  <2>1. live \subseteq Conns BY DEF IInv, Counted
  <2> QED BY <2>1, SamplingAssumption, FS_Subset
<1>2. \A c \in live : f[c] \in Nat BY <1>1 DEF IInv, Counted, LooksLag, Gained
<1>3. DOMAIN f = live OBVIOUS
<1>4. WindowDown = SumFunctionOnSet(f, live) BY <1>3 DEF WindowDown, SumFunction
<1> HIDE DEF f
<1> QED BY <1>1, <1>2, <1>4, SumNat

LEMMA CapacityInitInv == Init => CapacityInv
<1> SUFFICES ASSUME Init PROVE CapacityInv OBVIOUS
<1>1. CapacityCounted BY CapacityAssumption DEF Init, CapacityInit, NotRead, NoBytes, CapacityCounted
<1>2. CardLags BY DEF Init, CapacityInit, NotRead, CardLags
<1> QED BY <1>1, <1>2 DEF CapacityInv

\* A counter that counts one more.
LEMMA OneMore ==
  ASSUME NEW S, NEW f \in [S -> Nat], NEW i \in S
  PROVE  [f EXCEPT ![i] = f[i] + 1] \in [S -> Nat]
  OBVIOUS

\* What happens between two looks.
LEMMA CapacityNextKeeps == ASSUME CapacityInv, CapacityNext PROVE CapacityInv'
<1> USE DEF CapacityInv, CapacityCounted, CardLags
<1>1. ASSUME NEW i \in Ifaces, CardCarries(i) PROVE CapacityInv'
  <2>1. /\ \/ /\ wire' = [wire EXCEPT ![i] = wire[i] + 1]
              /\ since' = [since EXCEPT ![i] = since[i] + 1]
              /\ wireTx' = wireTx
           \/ UNCHANGED <<wire, since>> /\ wireTx' = [wireTx EXCEPT ![i] = wireTx[i] + 1]
        /\ UNCHANGED <<route, present, iface, prevNIC, userDown, nicRx, rates>>
    BY <1>1 DEF CardCarries
  <2>2. CapacityCounted'
    <3>1. wire' \in [Ifaces -> Nat] /\ since' \in [Ifaces -> Nat] /\ wireTx' \in [Ifaces -> Nat]
      <4>1. wire \in [Ifaces -> Nat] /\ since \in [Ifaces -> Nat] /\ wireTx \in [Ifaces -> Nat]
        OBVIOUS
      <4> HIDE DEF CapacityInv, CapacityCounted, CardLags
      <4> QED BY <2>1, <4>1, OneMore
    <3>2. CapacityCounted BY DEF CapacityInv
    <3> QED BY Zenon, <2>1, <3>1, <3>2 DEF CapacityCounted
  <2>3. CardLags'
    <3> SUFFICES ASSUME prevNIC.ok
                 PROVE  prevNIC.iface \in Ifaces
                        /\ wire'[prevNIC.iface] <= prevNIC.rx + since'[prevNIC.iface]
      BY <2>1
    <3> DEFINE j == prevNIC.iface
    <3>1. /\ j \in Ifaces /\ prevNIC.rx \in Nat /\ wire[j] \in Nat /\ since[j] \in Nat
          /\ wire[j] <= prevNIC.rx + since[j]
      OBVIOUS
    <3>2. \/ wire'[j] = wire[j] + 1 /\ since'[j] = since[j] + 1
          \/ wire'[j] = wire[j] /\ since'[j] = since[j]
      BY <2>1, <3>1
    <3> QED BY <3>1, <3>2
  <2> QED BY <2>2, <2>3
<1>2. ASSUME NEW i \in Ifaces, CardGoes(i) PROVE CapacityInv' BY <1>2 DEF CardGoes
<1>3. ASSUME NEW i \in Ifaces, CardComes(i) PROVE CapacityInv' BY <1>3 DEF CardComes
<1>4. ASSUME NEW i \in Ifaces \union {NoIface}, RouteMoves(i) PROVE CapacityInv' BY <1>4 DEF RouteMoves
<1> QED BY <1>1, <1>2, <1>3, <1>4 DEF CapacityNext

\* A window of the card holds what it carried since the last look.
LEMMA CardWindow ==
  ASSUME CapacityInv, NEW d \in {1, 2}, Comparable(Reading)
  PROVE  /\ Reading.iface \in Ifaces /\ Reading.rx - prevNIC.rx \in Nat
         /\ kbps(Reading.rx - prevNIC.rx, d) \in Int
         /\ kbps(Reading.rx - prevNIC.rx, d) <= Scale * since[Reading.iface]
<1>1. /\ prevNIC.ok /\ Reading.iface = prevNIC.iface /\ Reading.rx >= prevNIC.rx
      /\ Reading.ok
  BY DEF Comparable
<1>2. Reading.iface = Card /\ Reading.rx = wire[Card] /\ Card \in Ifaces
  BY <1>1 DEF Reading, NotRead, CapacityInv, CapacityCounted
<1>3. prevNIC.rx \in Nat /\ wire[Card] \in Nat /\ since[Card] \in Nat
  BY <1>2 DEF CapacityInv, CapacityCounted
<1>4. wire[Card] <= prevNIC.rx + since[Card] BY <1>1, <1>2 DEF CapacityInv, CardLags
<1> DEFINE n == wire[Card] - prevNIC.rx
<1>5. n \in Nat /\ n <= since[Card] BY <1>1, <1>2, <1>3, <1>4
<1>6. kbps(n, d) \in Int /\ kbps(n, d) <= Scale * n
  <2> HIDE DEF n
  <2> QED BY <1>5, RateTold
<1>7. Scale * n <= Scale * since[Card] /\ Scale * n \in Int /\ Scale * since[Card] \in Int
  <2> HIDE DEF n
  <2> QED BY <1>3, <1>5 DEF Scale
<1>8. kbps(n, d) <= Scale * since[Card]
  <2> HIDE DEF n
  <2> QED BY <1>6, <1>7
<1> QED BY <1>2, <1>5, <1>6, <1>8

LEMMA CapacityObserveKeeps ==
  ASSUME CapacityInv, NEW bytes \in Nat, NEW d \in {1, 2}, NEW crossed,
         CapacityObserve(bytes, d, crossed)
  PROVE  CapacityInv'
<1> DEFINE told == kbps(bytes, d)
           true == (bytes * Scale) \div d
           kept(v) == OfMinute(crossed, v)
           seen == IF Comparable(Reading) THEN <<kbps(Reading.rx - prevNIC.rx, d)>> ELSE <<>>
<1>1. told \in Int /\ true \in Int BY RateTold
<1>2. /\ userDown \in Seq(Int) /\ nicRx \in Seq(Int) /\ rates \in Seq(Int)
      /\ Len(userDown) = Len(rates) /\ Len(nicRx) <= Len(rates) /\ Len(rates) \in Nat
  BY DEF CapacityInv, CapacityCounted
<1>3. /\ kept(userDown) \in Seq(Int) /\ kept(nicRx) \in Seq(Int) /\ kept(rates) \in Seq(Int)
      /\ Len(kept(userDown)) = Len(kept(rates)) /\ Len(kept(nicRx)) <= Len(kept(rates))
      /\ Len(kept(rates)) < MaxWindows
  BY <1>2 DEF OfMinute, CapacityObserve
<1>4. seen \in Seq(Int) /\ Len(seen) \in {0, 1}
  <2>1. CASE Comparable(Reading)
    <3>1. kbps(Reading.rx - prevNIC.rx, d) \in Int BY <2>1, CardWindow
    <3> QED BY <2>1, <3>1
  <2>2. CASE ~Comparable(Reading) BY <2>2
  <2> QED BY <2>1, <2>2
<1>5. /\ userDown' = Append(kept(userDown), told) /\ nicRx' = kept(nicRx) \o seen
      /\ rates' = Append(kept(rates), true)
  BY DEF CapacityObserve, OfMinute
<1>6. Reading \in [ok : BOOLEAN, iface : Ifaces \union {NoIface}, rx : Nat, tx : Nat]
      /\ (Reading.ok => Reading.iface \in Ifaces /\ Reading.rx = wire[Reading.iface])
  BY DEF Reading, NotRead, CapacityInv, CapacityCounted
<1>7. /\ userDown' \in Seq(Int) /\ nicRx' \in Seq(Int) /\ rates' \in Seq(Int)
      /\ Len(userDown') = Len(rates') /\ Len(nicRx') <= Len(rates') /\ Len(rates') <= MaxWindows
  <2>1. \A v \in Seq(Int), x \in Int : Append(v, x) \in Seq(Int) /\ Len(Append(v, x)) = Len(v) + 1
    OBVIOUS
  <2>2. nicRx' \in Seq(Int) /\ Len(nicRx') = Len(kept(nicRx)) + Len(seen)
    <3> HIDE DEF kept, seen
    <3> QED BY <1>3, <1>4, <1>5, ConcatProperties
  <2>3. MaxWindows \in Nat BY CapacityAssumption
  <2>4. \A v \in Seq(Int) : Len(v) \in Nat OBVIOUS
  <2> HIDE DEF kept, seen, told, true
  <2>5. /\ userDown' \in Seq(Int) /\ rates' \in Seq(Int)
        /\ Len(userDown') = Len(kept(userDown)) + 1 /\ Len(rates') = Len(kept(rates)) + 1
    BY <1>1, <1>3, <1>5, <2>1
  <2>6. /\ Len(kept(userDown)) \in Nat /\ Len(kept(rates)) \in Nat /\ Len(kept(nicRx)) \in Nat
        /\ Len(kept(userDown)) = Len(kept(rates)) /\ Len(kept(nicRx)) <= Len(kept(rates))
        /\ Len(kept(rates)) < MaxWindows
    BY <1>3, <2>4
  <2>7. Len(nicRx') <= Len(rates')
    <3>1. \A a, b, n \in Nat : a <= b /\ n \in {0, 1} => a + n <= b + 1 OBVIOUS
    <3>2. Len(seen) \in Nat BY <1>4
    <3>3. Len(kept(nicRx)) + Len(seen) <= Len(kept(rates)) + 1 BY Zenon, <1>4, <2>6, <3>1, <3>2
    <3> QED BY Zenon, <2>2, <2>5, <3>3
  <2>8. Len(userDown') = Len(rates') /\ Len(rates') <= MaxWindows BY <2>3, <2>5, <2>6
  <2> QED BY <2>2, <2>5, <2>7, <2>8
<1>8. UNCHANGED networkVars /\ iface' = Reading.iface /\ prevNIC' = Reading /\ since' = NoBytes
  BY DEF CapacityObserve
<1>9. CapacityCounted'
  BY <1>6, <1>7, <1>8 DEF networkVars, NoBytes, CapacityInv, CapacityCounted
<1>10. CardLags' BY <1>6, <1>8 DEF networkVars, NoBytes, CardLags, CapacityInv, CapacityCounted
<1> QED BY <1>9, <1>10 DEF CapacityInv

LEMMA CapacityStep == ASSUME IInv, CapacityInv, [Next]_vars PROVE CapacityInv'
<1>1. CASE UNCHANGED capacityVars
  BY <1>1 DEF capacityVars, networkVars, CapacityInv, CapacityCounted, CardLags
<1>2. CASE CapacityNext BY <1>2, CapacityNextKeeps
<1>3. ASSUME NEW old, NEW d \in {1, 2}, NEW crossed, ObserveQuality(old, d, crossed) PROVE CapacityInv'
  BY <1>3, WindowDownType, CapacityObserveKeeps DEF ObserveQuality
<1> QED BY <1>1, <1>2, <1>3 DEF Next, Happens, vars

\* The state of the rates, at every look and between two of them.
THEOREM CapacityInvariant == Spec => []CapacityInv
<1>1. IInv /\ CapacityInv /\ [Next]_vars => CapacityInv' BY CapacityStep
<1> QED BY <1>1, Invariant, CapacityInitInv, PTL DEF Spec
-----------------------------------------------------------------------------
\* A window of the card is one window long, though the counters start again,
\* cards come and go and the route moves between two readings, and though a
\* product may overflow.
THEOREM CardWindowIsOneWindowThm == Spec => CardWindowIsOneWindow
<1>1. ASSUME CapacityInv, [Next]_vars, nicRx' \notin {nicRx, <<>>}
      PROVE  Last(nicRx') <= Scale * since[iface']
  <2>1. PICK old \in SUBSET live, d \in {1, 2}, crossed \in BOOLEAN : ObserveQuality(old, d, crossed)
    <3>1. nicRx' # nicRx BY <1>1
    <3>2. ~Happens
      BY <3>1 DEF Happens, CapacityNext, CardCarries, CardGoes, CardComes, RouteMoves, capacityVars
    <3> QED BY <1>1, <3>1, <3>2 DEF Next, vars, capacityVars
  <2> DEFINE rate == kbps(Reading.rx - prevNIC.rx, d)
             kept == OfMinute(crossed, nicRx)
  <2>2. /\ nicRx' = kept \o (IF Comparable(Reading) THEN <<rate>> ELSE <<>>)
        /\ iface' = Reading.iface
    BY <2>1 DEF ObserveQuality, CapacityObserve
  <2>3. kept \in {nicRx, <<>>} /\ kept \in Seq(Int)
    BY <1>1 DEF OfMinute, CapacityInv, CapacityCounted
  <2>4. Comparable(Reading)
    <3> SUFFICES ASSUME ~Comparable(Reading) PROVE FALSE OBVIOUS
    <3>1. nicRx' = kept \o <<>> BY <2>2
    <3>2. kept \o <<>> = kept
      <4> HIDE DEF kept
      <4> QED BY <2>3
    <3> QED BY <1>1, <2>3, <3>1, <3>2
  <2>5. rate \in Int /\ rate <= Scale * since[Reading.iface] BY <1>1, <2>4, CardWindow
  <2>6. Last(nicRx') = rate
    <3> HIDE DEF kept, rate
    <3>1. kept \o <<rate>> = Append(kept, rate) BY <2>3, <2>5
    <3> QED BY <2>2, <2>3, <2>4, <2>5, <3>1 DEF Last
  <2> QED BY <2>2, <2>5, <2>6
<1>2. UNCHANGED vars => UNCHANGED capacityVars BY DEF vars
<1>3. CapacityInv /\ [Next]_vars =>
        [nicRx' \notin {nicRx, <<>>} => Last(nicRx') <= Scale * since[iface']]_capacityVars
  BY <1>1
<1> QED BY <1>3, CapacityInvariant, PTL DEF Spec, CardWindowIsOneWindow
-----------------------------------------------------------------------------
\* Where the ranks of n values are: as few positions as are percent of n.
LEMMA RankPositions ==
  ASSUME NEW n \in Nat \ {0}
  PROVE  /\ (n - 1) \div 2 + 1 \in 1 .. n
         /\ 100 * ((n - 1) \div 2 + 1) >= 50 * n /\ 100 * ((n - 1) \div 2) < 50 * n
         /\ (n * 95 + 99) \div 100 \in 1 .. n
         /\ 100 * ((n * 95 + 99) \div 100) >= 95 * n /\ 100 * ((n * 95 + 99) \div 100 - 1) < 95 * n
  OBVIOUS

\* The value at a position of the sorted values is the rank of that position.
LEMMA RankSorted ==
  ASSUME NEW v \in Seq(Int), NEW k \in 1 .. Len(v), NEW percent \in Nat,
         100 * k >= percent * Len(v), 100 * (k - 1) < percent * Len(v)
  PROVE  IsRank(v, percent, Sorted(v)[k])
<1> DEFINE n == Len(v)
           o == CHOOSE q \in Bijection(DOMAIN v, DOMAIN v) :
                  \A i, j \in DOMAIN v : i < j => v[q[i]] <= v[q[j]]
           x == v[o[k]]
           count(y) == Cardinality({i \in 1 .. n : v[i] <= y})
           need == percent * n
<1>1. n \in Nat /\ DOMAIN v = 1 .. n /\ v \in [1 .. n -> Int] OBVIOUS
<1>2. IsOrder(o, v, n)
  <2>1. \E q : IsOrder(q, v, n)
    <3> HIDE DEF n
    <3> QED BY <1>1, OrderExists
  <2>2. \E q \in Bijection(DOMAIN v, DOMAIN v) : \A i, j \in DOMAIN v : i < j => v[q[i]] <= v[q[j]]
    <3> HIDE DEF n
    <3> QED BY <1>1, <2>1 DEF IsOrder
  <2>3. /\ o \in Bijection(DOMAIN v, DOMAIN v)
        /\ \A i, j \in DOMAIN v : i < j => v[o[i]] <= v[o[j]]
    BY Zenon, <2>2
  <2> HIDE DEF o, n
  <2> QED BY <1>1, <2>3 DEF IsOrder
<1>3. /\ o[k] \in 1 .. n /\ count(x) >= k
      /\ \A y \in Int : y < x => count(y) < k
      /\ \A y \in Int : count(y) \in Nat
  <2> HIDE DEF o, n
  <2>1. k \in 1 .. n BY DEF n
  <2> QED BY <1>1, <1>2, <2>1, RankInOrder
<1>4. Sorted(v)[k] = x BY DEF Sorted
<1>5. x \in Int /\ x \in ToSet(v)
  <2> HIDE DEF o
  <2> QED BY <1>1, <1>3 DEF ToSet
<1>6. need \in Int /\ 100 * k >= need /\ 100 * (k - 1) < need OBVIOUS
<1>7. 100 * count(x) >= need
  <2>1. count(x) \in Nat BY <1>3, <1>5
  <2> HIDE DEF count, x, need
  <2> QED BY <1>3, <1>6, <2>1
<1>8. ASSUME NEW y \in ToSet(v), y < x PROVE 100 * count(y) < need
  <2>1. y \in Int BY <1>8 DEF ToSet
  <2>2. count(y) < k /\ count(y) \in Nat BY <1>3, <1>8, <2>1
  <2> HIDE DEF count, x, need
  <2> QED BY <1>6, <2>2
<1> HIDE DEF o, x
<1>9. \A y : Cardinality({i \in DOMAIN v : v[i] <= y}) = count(y) BY <1>1
<1> HIDE DEF count
<1> QED BY <1>4, <1>5, <1>7, <1>8, <1>9 DEF IsRank

\* What pctls makes of any values are their median, 95th percentile and
\* maximum by nearest rank.
THEOREM FiguresAreRanks ==
  ASSUME NEW v \in Seq(Int), v # <<>>
  PROVE  /\ IsRank(v, 50, pctls(v)[1])
         /\ IsRank(v, 95, pctls(v)[2])
         /\ IsRank(v, 100, pctls(v)[3])
<1> DEFINE n == Len(v)
<1>1. n \in Nat \ {0} OBVIOUS
<1>2. /\ pctls(v)[1] = Sorted(v)[(n - 1) \div 2 + 1]
      /\ pctls(v)[2] = Sorted(v)[(n * 95 + 99) \div 100]
      /\ pctls(v)[3] = Sorted(v)[n]
  BY DEF pctls
<1>3. /\ (n - 1) \div 2 + 1 \in 1 .. n
      /\ 100 * ((n - 1) \div 2 + 1) >= 50 * n /\ 100 * ((n - 1) \div 2 + 1 - 1) < 50 * n
      /\ (n * 95 + 99) \div 100 \in 1 .. n
      /\ 100 * ((n * 95 + 99) \div 100) >= 95 * n /\ 100 * ((n * 95 + 99) \div 100 - 1) < 95 * n
      /\ n \in 1 .. n /\ 100 * n >= 100 * n /\ 100 * (n - 1) < 100 * n
  <2> HIDE DEF n
  <2> QED BY <1>1, RankPositions
<1>4. IsRank(v, 50, Sorted(v)[(n - 1) \div 2 + 1]) BY <1>3, RankSorted
<1>5. IsRank(v, 95, Sorted(v)[(n * 95 + 99) \div 100]) BY <1>3, RankSorted
<1>6. IsRank(v, 100, Sorted(v)[n]) BY <1>3, RankSorted
<1> QED BY <1>2, <1>4, <1>5, <1>6

\* The rates told are the true ones.
RatesTrue == userDown = rates

LEMMA RatesTrueStep ==
  ASSUME IInv, RatesTrue, WindowDown < Overflow, [Next]_vars
  PROVE  RatesTrue'
<1>1. CASE UNCHANGED capacityVars BY <1>1 DEF capacityVars, RatesTrue
<1>2. CASE CapacityNext
  BY <1>2 DEF CapacityNext, CardCarries, CardGoes, CardComes, RouteMoves, RatesTrue
<1>3. ASSUME NEW old, NEW d \in {1, 2}, NEW crossed, ObserveQuality(old, d, crossed)
      PROVE  RatesTrue'
  <2>1. kbps(WindowDown, d) = (WindowDown * Scale) \div d BY WindowDownType, RateTold
  <2>2. /\ userDown' = Append(OfMinute(crossed, userDown), kbps(WindowDown, d))
        /\ rates' = Append(IF crossed THEN <<>> ELSE rates, (WindowDown * Scale) \div d)
    BY <1>3 DEF ObserveQuality, CapacityObserve
  <2>3. OfMinute(crossed, userDown) = IF crossed THEN <<>> ELSE rates BY DEF OfMinute, RatesTrue
  <2> QED BY Zenon, <2>1, <2>2, <2>3 DEF RatesTrue
<1> QED BY <1>1, <1>2, <1>3 DEF Next, Happens, vars

\* The figures of a minute are those of its windows' true rates, for any
\* number of windows, as long as no window has so many bytes that their
\* product with 8 * 10^9 leaves the int64: beyond, the code does overflow.
THEOREM FiguresOfTheMinuteThm ==
  Spec /\ [](WindowDown < Overflow) => []FiguresOfTheMinute
<1>1. Init => RatesTrue BY DEF Init, CapacityInit, RatesTrue
<1>2. IInv /\ WindowDown < Overflow /\ RatesTrue /\ [Next]_vars => RatesTrue' BY RatesTrueStep
<1>3. CapacityInv /\ RatesTrue => FiguresOfTheMinute
  <2> SUFFICES ASSUME CapacityInv, RatesTrue, rates # <<>>
               PROVE  /\ IsRank(rates, 50, pctls(userDown)[1])
                      /\ IsRank(rates, 95, pctls(userDown)[2])
                      /\ IsRank(rates, 100, pctls(userDown)[3])
    BY DEF FiguresOfTheMinute
  <2>1. rates \in Seq(Int) BY DEF CapacityInv, CapacityCounted
  <2>2. pctls(userDown) = pctls(rates) BY Zenon DEF RatesTrue
  <2> QED BY <2>1, <2>2, FiguresAreRanks
<1> QED BY <1>1, <1>2, <1>3, Invariant, CapacityInvariant, PTL DEF Spec
-----------------------------------------------------------------------------
\* What the type invariant says beyond the invariants above.
RestTyped ==
  /\ aged \subseteq Conns /\ answered \in [Conns -> BOOLEAN] /\ sampled \in BOOLEAN
  /\ events \in 0 .. MaxEvents

LEMMA RestStep == ASSUME IInv, RestTyped, [Next]_vars PROVE RestTyped'
<1> USE DEF RestTyped
<1>1. CASE UNCHANGED vars BY <1>1 DEF vars, qualityVars, connVars, stallVars
<1>2. ASSUME NEW old, NEW d, NEW crossed, ObserveQuality(old, d, crossed) PROVE RestTyped'
  BY <1>2 DEF ObserveQuality, QualityObserve, IInv, Counted
<1>3. CASE Happens
  <2>1. events' \in 0 .. MaxEvents BY <1>3, SamplingAssumption DEF Happens
  <2>2. CASE UNCHANGED qualityVars BY <2>1, <2>2 DEF qualityVars, connVars, stallVars
  <2>3. CASE QualityNext
    <3>1. sampled' = sampled /\ aged' \subseteq aged
      BY <2>3 DEF QualityNext, Connect, Disconnect, Answer, Send, DeclareLost, LossRetracted,
                  stallVars, connVars
    <3>2. answered' \in [Conns -> BOOLEAN]
      BY <2>3 DEF QualityNext, Connect, Disconnect, Answer, Send, DeclareLost, LossRetracted,
                  connVars
    <3> QED BY <2>1, <3>1, <3>2
  <2> QED BY <1>3, <2>2, <2>3 DEF Happens
<1> QED BY <1>1, <1>2, <1>3 DEF Next

\* The types of all that the looks are made of: what a Go map lacks counts for
\* zero, no counter is ever negative, and a minute has no more windows of the
\* users or the card than there were looks in it.
THEOREM TypeCorrect == Spec => []TypeOK
<1>1. Init => RestTyped
  <2>1. Init => answered \in [Conns -> BOOLEAN] BY Zenon DEF Init, QualityInit
  <2>2. Init => aged \subseteq Conns /\ sampled \in BOOLEAN BY DEF Init, QualityInit
  <2>3. Init => events \in 0 .. MaxEvents BY SamplingAssumption DEF Init
  <2> QED BY <2>1, <2>2, <2>3 DEF RestTyped
<1>2. IInv /\ RestTyped /\ [Next]_vars => RestTyped' BY RestStep
<1>3. IInv /\ CapacityInv /\ RestTyped => TypeOK
  <2> SUFFICES ASSUME IInv, CapacityInv, RestTyped PROVE TypeOK OBVIOUS
  <2>1. QualityTypeOK BY DEF IInv, Counted, RestTyped, QualityTypeOK
  <2>2. CapacityTypeOK
    <3>1. Len(userDown) <= MaxWindows /\ Len(nicRx) <= MaxWindows /\ Len(rates) <= MaxWindows
      <4>1. userDown \in Seq(Int) /\ nicRx \in Seq(Int) /\ rates \in Seq(Int)
        BY DEF CapacityInv, CapacityCounted
      <4>2. Len(userDown) \in Nat /\ Len(nicRx) \in Nat /\ Len(rates) \in Nat /\ MaxWindows \in Nat
        BY <4>1, CapacityAssumption
      <4> QED BY <4>2 DEF CapacityInv, CapacityCounted
    <3> QED BY <3>1 DEF CapacityInv, CapacityCounted, CapacityTypeOK
  <2> QED BY <2>1, <2>2 DEF RestTyped, TypeOK
<1> QED BY <1>1, <1>2, <1>3, Invariant, CapacityInvariant, PTL DEF Spec
=============================================================================
