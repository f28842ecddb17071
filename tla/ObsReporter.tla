------------------------------ MODULE ObsReporter ------------------------------
(***************************************************************************)
(* The reporter of the operations plane: a bounded buffer of envelopes that  *)
(* several goroutines fill, a flush on the main loop that takes the whole    *)
(* buffer and sends it without the lock, and a spool of batches that could   *)
(* not be sent, re-sent oldest first with the lock held.                     *)
(*                                                                           *)
(* An envelope is the set of the facts it tells; a probe tells none that is  *)
(* told apart here.  What the endpoint has heard before is its own matter:   *)
(* a fact may be sent again after a lost answer.                             *)
(***************************************************************************)
EXTENDS Naturals, Sequences, SequencesExt

CONSTANTS
  Facts,       \* what envelopes may tell
  MaxPending,  \* maxPendingEnvelopes
  Endpoint,    \* OBS_ENDPOINT is set
  MaxDropped,  \* bound: envelopes dropped between two flushes
  MaxFiles     \* bound: batches in the spool

ASSUME ReporterAssumption ==
  /\ MaxPending \in Nat \ {0} /\ Endpoint \in BOOLEAN
  /\ MaxDropped \in Nat /\ MaxFiles \in Nat

VARIABLES
  buffer,  \* the pending envelopes and the number dropped since the last flush
  batch,   \* the facts in the hands of Flush
  files,   \* the spool, oldest first, each file the facts it tells
  torn,    \* there is an unreadable file in the spool
  pc       \* where the reporter stands; idle: the main loop is elsewhere

\* History.
VARIABLE offered  \* the envelopes enqueued since the last flush

reporterVars == <<buffer, batch, files, torn, pc, offered>>

Empty == [pending |-> <<>>, dropped |-> 0]
Told(envelopes) == UNION ToSet(envelopes)
Spooled == UNION ToSet(files)
\* The lock is held while the spool is written, read and sent.
LockFree == pc \notin {"save", "cache"}
\* Bound: no more is enqueued.
Room == buffer.dropped < MaxDropped

\* Mutant: the buffer grows as long as the endpoint is away.
PutUnbounded(b, envelope) == [b EXCEPT !.pending = Append(@, envelope)]

\* Mutant: a full buffer refuses the new envelope.
PutDropsNew(b, envelope) ==
  IF Len(b.pending) >= MaxPending
  THEN [b EXCEPT !.dropped = @ + 1]
  ELSE [b EXCEPT !.pending = Append(@, envelope)]

\* Enqueue: a full buffer drops its oldest envelope and counts it.
Put(b, envelope) ==
  IF Len(b.pending) >= MaxPending
  THEN [pending |-> Append(Tail(b.pending), envelope), dropped |-> b.dropped + 1]
  ELSE [b EXCEPT !.pending = Append(@, envelope)]

EnqueueAll(envelopes) ==
  /\ buffer' = FoldLeft(Put, buffer, envelopes)
  /\ offered' = offered \o envelopes

ReporterInit ==
  /\ buffer = Empty /\ batch = {} /\ files = <<>> /\ torn = FALSE
  /\ offered = <<>>
-----------------------------------------------------------------------------
\* Flush takes everything; without an endpoint it is only logged.
Flush ==
  /\ pc = "idle"
  /\ buffer' = Empty /\ offered' = <<>>
  /\ IF buffer.pending # <<>> /\ Endpoint
     THEN pc' = "send" /\ batch' = Told(buffer.pending)
     ELSE UNCHANGED <<pc, batch>>
  /\ UNCHANGED <<files, torn>>

\* Mutant: the spool is left for another time.
SendAckedOnly ==
  /\ pc = "send"
  /\ pc' = "idle" /\ batch' = {}
  /\ UNCHANGED <<buffer, files, torn, offered>>

\* The endpoint takes the batch; the spool is tried at once.
SendAcked ==
  /\ pc = "send"
  /\ pc' = "cache" /\ batch' = {}
  /\ UNCHANGED <<buffer, files, torn, offered>>

SendFails ==
  /\ pc = "send" /\ Len(files) < MaxFiles
  /\ pc' = "save"
  /\ UNCHANGED <<buffer, batch, files, torn, offered>>

SaveToCache ==
  /\ pc = "save"
  /\ files' = Append(files, batch) /\ batch' = {}
  /\ pc' = "idle"
  /\ UNCHANGED <<buffer, torn, offered>>

\* The error of the write is dropped, and with it the batch.
SaveFails ==
  /\ pc = "save"
  /\ torn' \in {torn, TRUE} /\ batch' = {}
  /\ pc' = "idle"
  /\ UNCHANGED <<buffer, files, offered>>

\* Mutant: a file is removed before it is sent.
CacheFailsRemoved ==
  /\ pc = "cache" /\ files # <<>>
  /\ files' = Tail(files)
  /\ pc' = "idle"
  /\ UNCHANGED <<buffer, batch, torn, offered>>

\* flushCache stops at the first file that cannot be sent.
CacheFails ==
  /\ pc = "cache" /\ files # <<>>
  /\ pc' = "idle"
  /\ UNCHANGED <<buffer, batch, files, torn, offered>>

CacheAcked ==
  /\ pc = "cache" /\ files # <<>>
  /\ files' = Tail(files)
  /\ UNCHANGED <<buffer, batch, torn, pc, offered>>

CacheDropsTorn ==
  /\ pc = "cache" /\ torn
  /\ torn' = FALSE
  /\ UNCHANGED <<buffer, batch, files, pc, offered>>

CacheEnds ==
  /\ pc = "cache" /\ files = <<>> /\ ~torn
  /\ pc' = "idle"
  /\ UNCHANGED <<buffer, batch, files, torn, offered>>

\* The death of the process: the spool is all that remains.
ReporterEnds ==
  /\ buffer' = Empty /\ batch' = {} /\ offered' = <<>>
  /\ torn' \in IF pc = "save" THEN {torn, TRUE} ELSE {torn}
  /\ UNCHANGED files

Sending ==
  \/ SendAcked \/ SendFails \/ SaveToCache \/ SaveFails
  \/ CacheAcked \/ CacheFails \/ CacheDropsTorn \/ CacheEnds
-----------------------------------------------------------------------------
ReporterTypeOK ==
  /\ buffer \in [pending : Seq(SUBSET Facts), dropped : Nat] /\ Len(buffer.pending) <= MaxPending
  /\ offered \in Seq(SUBSET Facts) /\ batch \subseteq Facts
  /\ files \in Seq(SUBSET Facts) /\ Len(files) <= MaxFiles /\ torn \in BOOLEAN
  /\ pc \in {"idle", "send", "save", "cache", "off"}

\* The facts the agent has yet to tell.
Kept == Told(buffer.pending) \union batch \union Spooled

\* What the buffer holds is always the newest of what was enqueued since the
\* last flush, and the number reported as dropped is the number missing.
DropsAreTheOldestAndCounted ==
  /\ buffer.dropped <= Len(offered)
  /\ buffer.pending = SubSeq(offered, buffer.dropped + 1, Len(offered))

\* What the reporter gives up leaves a trace: a fact the endpoint has not
\* acknowledged goes only with a drop that is counted, with the disk, with the
\* process, or for want of an endpoint.
LossIsTraced ==
  [][Kept \subseteq Kept' \/ SendAcked \/ CacheAcked
     \/ buffer'.dropped > buffer.dropped \/ pc = "save" \/ pc' = "off" \/ ~Endpoint]_reporterVars
=============================================================================
