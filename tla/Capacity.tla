------------------------------ MODULE Capacity ------------------------------
(***************************************************************************)
(* The bandwidth a node needs, minute by minute: of every window of ten      *)
(* seconds the rate at which all users together were sent bytes and the rate *)
(* the network card shows, and of a minute's windows the median, the 95th    *)
(* percentile and the maximum.                                               *)
(*                                                                           *)
(* The card's counters run on their own, start again when the link is dialled*)
(* anew, may be unreadable, and the default route may move to another card.  *)
(* A rate is computed in an integer of limited width: the product in kbps    *)
(* fits for less than `Overflow` bytes.  One unit of bytes in one window is  *)
(* a rate of Scale.                                                          *)
(***************************************************************************)
EXTENDS Integers, Sequences, SequencesExt

CONSTANTS
  Ifaces,      \* network cards
  NoIface,     \* "": no card
  Overflow,    \* bytes whose product with 8 * 10^9 no longer fits in an int64
  MaxWindows   \* bound: windows of a minute

ASSUME CapacityAssumption ==
  /\ NoIface \notin Ifaces
  /\ {Overflow, MaxWindows} \subseteq Nat \ {0}

\* The network.
VARIABLES
  route,    \* the card of the default route
  wire,     \* what the counter of received bytes of each card reads
  wireTx,   \* what the counter of sent bytes reads
  present   \* the cards that can be read

\* NICReader and NodeCapacityAggregator.
VARIABLES
  iface,     \* the card NICReader has settled on
  prevNIC,   \* the last reading
  userDown,  \* the users' rate in each window of the minute
  nicRx      \* the card's rate in each window it has one for

\* History.
VARIABLES
  rates,   \* the users' true rate in each window of the minute
  since    \* bytes each card has carried since the last look

networkVars == <<route, wire, wireTx, present>>
capacityVars == <<networkVars, iface, prevNIC, userDown, nicRx, rates, since>>

NotRead == [ok |-> FALSE, iface |-> NoIface, rx |-> 0, tx |-> 0]
NoBytes == [i \in Ifaces |-> 0]

CapacityInit ==
  /\ route \in Ifaces \union {NoIface} /\ wire = NoBytes /\ wireTx = NoBytes /\ present = Ifaces
  /\ iface = NoIface /\ prevNIC = NotRead /\ userDown = <<>> /\ nicRx = <<>>
  /\ rates = <<>> /\ since = NoBytes
-----------------------------------------------------------------------------
CardCarries(i) ==
  /\ i \in present
  /\ \/ /\ wire' = [wire EXCEPT ![i] = @ + 1]
        /\ since' = [since EXCEPT ![i] = @ + 1]
        /\ UNCHANGED wireTx
     \/ /\ wireTx' = [wireTx EXCEPT ![i] = @ + 1]
        /\ UNCHANGED <<wire, since>>
  /\ UNCHANGED <<route, present, iface, prevNIC, userDown, nicRx, rates>>

\* A card goes away, and its counters with it.
CardGoes(i) ==
  /\ i \in present
  /\ present' = present \ {i}
  /\ wire' = [wire EXCEPT ![i] = 0] /\ wireTx' = [wireTx EXCEPT ![i] = 0]
  /\ UNCHANGED <<route, iface, prevNIC, userDown, nicRx, rates, since>>

CardComes(i) ==
  /\ i \in Ifaces \ present
  /\ present' = present \union {i}
  /\ UNCHANGED <<route, wire, wireTx, iface, prevNIC, userDown, nicRx, rates, since>>

RouteMoves(i) ==
  /\ i \in (Ifaces \union {NoIface}) \ {route}
  /\ route' = i
  /\ UNCHANGED <<wire, wireTx, present, iface, prevNIC, userDown, nicRx, rates, since>>
-----------------------------------------------------------------------------
\* A rate in an integer that wraps around.
Scale == 2
Wrapped(n) == ((n + Overflow * Scale) % (2 * Overflow * Scale)) - Overflow * Scale
Quotient(n, d) == IF n < 0 THEN -((-n) \div d) ELSE n \div d
kbps(bytes, elapsed) == Quotient(Wrapped(bytes * Scale), elapsed)

\* NICReader.Read: the card settled on, or that of the default route; a card
\* that cannot be read is given up.
Card == IF iface # NoIface THEN iface ELSE route
Reading ==
  IF Card \in present THEN [ok |-> TRUE, iface |-> Card, rx |-> wire[Card], tx |-> wireTx[Card]]
  ELSE NotRead

\* Mutant: counters that have not gone back are all that is asked for.
ComparableGrowing(nic) == nic.ok /\ nic.rx >= prevNIC.rx /\ nic.tx >= prevNIC.tx

\* Two readings in a row of one card whose counters did not go back.
Comparable(nic) ==
  /\ nic.ok /\ prevNIC.ok /\ nic.iface = prevNIC.iface
  /\ nic.rx >= prevNIC.rx /\ nic.tx >= prevNIC.tx

\* Mutant: what was counted in the last minute stays.
KeptOfMinute(crossed, windows) == windows

\* The windows counted so far: none when a new minute has begun.
OfMinute(crossed, windows) == IF crossed THEN <<>> ELSE windows

\* Observe a window in which the users were sent `bytes`.
CapacityObserve(bytes, elapsed, crossed) ==
  LET nic == Reading
      n == IF crossed THEN 0 ELSE Len(rates)
  IN  /\ n < MaxWindows
      /\ userDown' = Append(OfMinute(crossed, userDown), kbps(bytes, elapsed))
      /\ nicRx' = OfMinute(crossed, nicRx)
                    \o (IF Comparable(nic) THEN <<kbps(nic.rx - prevNIC.rx, elapsed)>> ELSE <<>>)
      /\ iface' = nic.iface
      /\ prevNIC' = nic
      /\ rates' = Append(IF crossed THEN <<>> ELSE rates, (bytes * Scale) \div elapsed)
      /\ since' = NoBytes
      /\ UNCHANGED networkVars

CapacityNext ==
  \/ \E i \in Ifaces : CardCarries(i) \/ CardGoes(i) \/ CardComes(i)
  \/ \E i \in Ifaces \union {NoIface} : RouteMoves(i)
-----------------------------------------------------------------------------
\* sort.Slice: the values in ascending order.
Sorted(v) ==
  LET order == CHOOSE o \in Bijection(DOMAIN v, DOMAIN v) :
                 \A i, j \in DOMAIN v : i < j => v[o[i]] <= v[o[j]]
  IN  [i \in DOMAIN v |-> v[order[i]]]

\* Mutant: the upper of two middle values.
pctlsUpper(v) ==
  LET s == Sorted(v) IN <<s[Len(v) \div 2 + 1], s[(Len(v) * 95 + 99) \div 100], s[Len(v)]>>

\* pctls: the lower median, the 95th percentile by nearest rank, the maximum.
pctls(v) ==
  LET s == Sorted(v)
  IN  <<s[(Len(v) - 1) \div 2 + 1], s[(Len(v) * 95 + 99) \div 100], s[Len(v)]>>

\* The least of the values that at least `percent` of them do not exceed.
IsRank(v, percent, x) ==
  LET share(y) == 100 * Cardinality({i \in DOMAIN v : v[i] <= y})
  IN  /\ x \in ToSet(v) /\ share(x) >= percent * Len(v)
      /\ \A y \in ToSet(v) : y < x => share(y) < percent * Len(v)

CapacityTypeOK ==
  /\ {route, iface} \subseteq Ifaces \union {NoIface} /\ present \subseteq Ifaces
  /\ {wire, wireTx, since} \subseteq [Ifaces -> Nat]
  /\ prevNIC \in [ok : BOOLEAN, iface : Ifaces \union {NoIface}, rx : Nat, tx : Nat]
  /\ {userDown, nicRx, rates} \subseteq Seq(Int)
  /\ \A v \in {userDown, nicRx, rates} : Len(v) <= MaxWindows

\* What a minute would be told to have needed, whenever it ends: the median,
\* 95th percentile and maximum of its windows' true rates (capacity.go:8-9),
\* of no other minute's, and of all of them.
FiguresOfTheMinute ==
  rates # <<>> =>
    LET figures == pctls(userDown)
    IN  /\ IsRank(rates, 50, figures[1])
        /\ IsRank(rates, 95, figures[2])
        /\ IsRank(rates, 100, figures[3])

\* A window of the card is one window long: the rate told of it is of bytes
\* that card carried since the last look, whatever became of it in between.
CardWindowIsOneWindow ==
  [][nicRx' \notin {nicRx, <<>>} => Last(nicRx') <= Scale * since[iface']]_capacityVars
=============================================================================
