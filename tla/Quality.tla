------------------------------- MODULE Quality -------------------------------
(***************************************************************************)
(* What the agent makes of one look at its connections every ten seconds:    *)
(* stalls, requests of a client that got no answer, and the packets that     *)
(* one QUIC connection lost. Observation has the byte sums of the same       *)
(* aggregator.                                                               *)
(*                                                                           *)
(* Between two looks clients send and get answers, QUIC takes packets for    *)
(* lost and some of them back, and connections come and go.  LastRead is a   *)
(* number that grows with every read; whether five seconds have passed since *)
(* is open for a read of the current window and settled for older ones.      *)
(*                                                                           *)
(* The maps of the aggregator are total functions here with the zero value   *)
(* Go gives to a missing key.                                                *)
(***************************************************************************)
EXTENDS Naturals, Integers, FiniteSets

CONSTANTS
  Conns,       \* connections, each with an identifier of its own
  Web,         \* those to port 80 or 443
  MinRequest   \* StallMinRequestBytes

ASSUME QualityAssumption == Web \subseteq Conns /\ MinRequest \in Nat \ {0}

\* The connections, as the shared Registry counts them.
VARIABLES
  unused,    \* connections yet to come
  live,      \* connections there are
  up,        \* bytes read from the client
  down,      \* bytes written to the client
  reads,     \* LastRead: the last read, 0 for none
  answered,  \* no read came after LastWrite
  aged,      \* the last read is more than StallAfter ago for certain
  lost       \* packets QUIC holds for lost

\* QualityAggregator.
VARIABLES
  sampled,    \* there was a look before (lastTick)
  prevDown,   \* prevConn
  upAtDown,   \* upload when the download was last seen to grow
  stalledAt,  \* the read a stall was last counted for
  stalls,     \* stalls counted
  prevLost,   \* prevQUIC
  pktsLost    \* lost packets counted

\* History.
VARIABLES
  stalledOn,  \* the reads a stall was counted for
  request,    \* bytes the client has sent since the last answer
  declared    \* packets ever taken for lost

connVars == <<unused, live, up, down, reads, answered, aged>>
stallVars == <<sampled, prevDown, upAtDown, stalledAt, stalls>>
lossVars == <<lost, prevLost, pktsLost, declared>>
qualityVars == <<connVars, stallVars, lossVars, stalledOn, request>>

Zero == [c \in Conns |-> 0]

QualityInit ==
  /\ unused = Conns /\ live = {}
  /\ up = Zero /\ down = Zero /\ reads = Zero
  /\ answered = [c \in Conns |-> FALSE] /\ aged = {}
  /\ sampled = FALSE /\ prevDown = Zero /\ upAtDown = Zero /\ stalledAt = Zero
  /\ stalls = Zero /\ stalledOn = [c \in Conns |-> {}] /\ request = Zero
  /\ lost = 0 /\ prevLost = 0 /\ pktsLost = 0 /\ declared = 0
-----------------------------------------------------------------------------
Connect(c) ==
  /\ c \in unused
  /\ unused' = unused \ {c} /\ live' = live \union {c}
  /\ UNCHANGED <<up, down, reads, answered, aged, stallVars, lossVars, stalledOn, request>>

Disconnect(c) ==
  /\ c \in live
  /\ live' = live \ {c}
  /\ UNCHANGED <<unused, up, down, reads, answered, aged, stallVars, lossVars,
                 stalledOn, request>>

\* The client sends: a request, or a few bytes that want no answer.
Send(c, bytes) ==
  /\ c \in live
  /\ up' = [up EXCEPT ![c] = @ + bytes]
  /\ reads' = [reads EXCEPT ![c] = @ + 1]
  /\ answered' = [answered EXCEPT ![c] = FALSE]
  /\ aged' = aged \ {c}
  /\ request' = [request EXCEPT ![c] = @ + bytes]
  /\ UNCHANGED <<unused, live, down, stallVars, lossVars, stalledOn>>

\* The client is sent something.
Answer(c) ==
  /\ c \in live
  /\ down' = [down EXCEPT ![c] = @ + 1]
  /\ answered' = [answered EXCEPT ![c] = TRUE]
  /\ request' = [request EXCEPT ![c] = 0]
  /\ UNCHANGED <<unused, live, up, reads, aged, stallVars, lossVars, stalledOn>>

\* QUIC takes a packet for lost.
DeclareLost ==
  /\ lost' = lost + 1 /\ declared' = declared + 1
  /\ UNCHANGED <<connVars, stallVars, prevLost, pktsLost, stalledOn, request>>

\* It was only late.
LossRetracted ==
  /\ lost > 0
  /\ lost' = lost - 1
  /\ UNCHANGED <<connVars, stallVars, prevLost, pktsLost, declared, stalledOn, request>>
-----------------------------------------------------------------------------
\* Bytes of the window: all of a new connection's, none at the first look.
Gained(c) == IF sampled THEN down[c] - prevDown[c] ELSE 0

\* Mutant: the upload is noted when the connection is first seen only.
NotedUploadOnce(c) == IF sampled THEN upAtDown[c] ELSE up[c]

\* upAtDown: noted again whenever the download has grown.
NotedUpload(c) == IF Gained(c) > 0 \/ ~sampled THEN up[c] ELSE upAtDown[c]

\* isStall: a read that nothing was written after, more than StallAfter ago.
IsStall(c, old) == c \in Web /\ reads[c] > 0 /\ ~answered[c] /\ c \in aged \union old

\* Mutant: a stall is counted as long as it lasts.
StalledEachTime(old) ==
  {c \in live : IsStall(c, old) /\ up[c] - NotedUpload(c) >= MinRequest}

\* Stalls of the window; `old` are the connections that count as aged by now.
Stalled(old) ==
  {c \in live : /\ IsStall(c, old)
                /\ up[c] - NotedUpload(c) >= MinRequest
                /\ stalledAt[c] # reads[c]}

\* Mutant: the first difference is trusted to be the count.
NewlyLostSigned == IF lost < prevLost THEN prevLost - lost ELSE lost - prevLost

\* The growth of a counter that may shrink.
NewlyLost == IF lost < prevLost THEN 0 ELSE lost - prevLost

\* Observe, as far as connections and QUIC go; what is gone is forgotten.
QualityObserve(old) ==
  LET kept(f) == [c \in Conns |-> IF c \in live THEN f[c] ELSE 0]
      hit == Stalled(old)
  IN  /\ sampled' = TRUE
      /\ prevDown' = kept(down)
      /\ upAtDown' = kept([c \in Conns |-> NotedUpload(c)])
      /\ stalledAt' = kept([c \in Conns |-> IF c \in hit THEN reads[c] ELSE stalledAt[c]])
      /\ stalls' = [c \in Conns |-> IF c \in hit THEN stalls[c] + 1 ELSE stalls[c]]
      /\ stalledOn' = [c \in Conns |-> IF c \in hit THEN stalledOn[c] \union {reads[c]}
                                       ELSE stalledOn[c]]
      /\ pktsLost' = pktsLost + NewlyLost /\ prevLost' = lost
      /\ aged' = live
      /\ UNCHANGED <<unused, live, up, down, reads, answered, lost, declared, request>>

QualityNext ==
  \/ \E c \in Conns : Connect(c) \/ Disconnect(c) \/ Answer(c)
  \/ \E c \in Conns, bytes \in {1, MinRequest} : Send(c, bytes)
  \/ DeclareLost \/ LossRetracted
-----------------------------------------------------------------------------
QualityTypeOK ==
  /\ unused \subseteq Conns /\ live \subseteq Conns \ unused /\ aged \subseteq Conns
  /\ {up, down, reads, prevDown, upAtDown, stalledAt, stalls, request} \subseteq [Conns -> Nat]
  /\ answered \in [Conns -> BOOLEAN] /\ sampled \in BOOLEAN
  /\ stalledOn \in [Conns -> SUBSET Nat]
  /\ {lost, prevLost, pktsLost, declared} \subseteq Nat

\* However often a waiting connection is looked at it makes one stall, until
\* its client sends again: stalledAt goes by the last read, so a request makes
\* another one when a few more bytes follow it (quality.go:229-231).
OneStallPerRead == \A c \in Conns : stalls[c] = Cardinality(stalledOn[c])

\* Rather too few than a false one (quality.go:136-138): what is counted as a
\* stall is a request of StallMinRequestBytes at least that really has had no
\* answer, in spite of what the looks at the counters may have missed.
StallsAreUnanswered ==
  [][\A c \in Conns : stalls'[c] > stalls[c] => ~answered[c] /\ request[c] >= MinRequest]_qualityVars

\* The loss counted stays between what QUIC holds for lost at the last look
\* and all it ever took for lost, though the counter goes up and down.
LossIsBounded == prevLost <= pktsLost /\ pktsLost <= declared
=============================================================================
