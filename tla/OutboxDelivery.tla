--------------------------- MODULE OutboxDelivery ---------------------------
(***************************************************************************)
(* Delivery of finished attempt bundles from the extension's durable       *)
(* outbox to the local platform: extension/src/outboxDrain.ts,             *)
(* attemptStorage.ts, captureTransport.ts, the user actions of             *)
(* backgroundOrchestrator.ts and the flush of background.ts.               *)
(*                                                                         *)
(* The serialized executor runs one piece of work at a time, so enqueuing  *)
(* and user actions wait for a running drain; the platform, the network    *)
(* and the browser (which may stop the service worker between any two      *)
(* steps) do not wait.                                                     *)
(***************************************************************************)
EXTENDS Naturals, FiniteSets

CONSTANTS
  Bundles,      \* bundle identities the extension can produce
  MaxRetry,     \* MAX_RETRY_ATTEMPTS
  BatchSize,    \* MAX_DRAIN_BATCH_SIZE
  MaxTicket     \* bound: queue positions handed out in one behaviour

ASSUME OutboxAssumption ==
  /\ MaxRetry \in Nat \ {0}
  /\ BatchSize \in Nat \ {0}
  /\ MaxTicket \in Nat

VARIABLES
  outbox,       \* captureOutbox: items ordered by their position
  quarantine,   \* captureQuarantine: isolated items, in the same order
  finalized,    \* submissions with a tombstone: their bundle was enqueued
  ticket,       \* last queue position handed out
  pc,           \* where drainCaptureOutbox stands
  processed,    \* items handled by the running drain
  sent,         \* the item the drain read before it sent it, or None
  result,       \* classified answer of postCaptureAttemptBundle
  stored,       \* bundles the platform's database has committed
  wire,         \* requests still under way whose worker was stopped
  discarded     \* history: bundles the user cleared or deleted

vars == <<outbox, quarantine, finalized, ticket, pc, processed, sent, result,
          stored, wire, discarded>>

local  == <<outbox, quarantine, finalized, ticket, discarded>>
server == <<stored, wire>>
drain  == <<pc, processed, sent, result>>

None == [pos |-> 0, id |-> "none"]

Item == [pos : Nat, id : Bundles, attempts : 0 .. MaxRetry,
         waiting : BOOLEAN, blocked : BOOLEAN]

(* endpoint_error, network_error, 401 and 403 are one class: they say      *)
(* nothing about the bundle and stop the drain ("global").                 *)
(* 400, 409, 413 and 415 are "refused", every other code is 500.           *)
Results == {"ok", "global", "ack_error", "refused", "failed"}

Ids(queue) == {item.id : item \in queue}
Without(queue, id) == {item \in queue : item.id # id}
Sent(queue) == {item \in queue : item.id = sent.id}

IsHead(item) ==
  /\ item \in outbox
  /\ \A other \in outbox : item.pos <= other.pos

(* A fresh or retried item starts over, whatever happened to it before.    *)
Fresh(id, position) ==
  [pos |-> position, id |-> id, attempts |-> 0,
   waiting |-> FALSE, blocked |-> FALSE]

Init ==
  /\ outbox = {} /\ quarantine = {} /\ finalized = {} /\ discarded = {}
  /\ ticket = 0
  /\ pc = "idle" /\ processed = 0 /\ sent = None /\ result = "global"
  /\ stored = {} /\ wire = {}
-----------------------------------------------------------------------------
(* Work of the executor other than the drain.                              *)

(* handleE3Recorded appends the bundle of a finalized submission unless an *)
(* item with its id is queued; the tombstone written with it makes a later *)
(* E3 of the same submission a no-op.                                      *)
Enqueue(id) ==
  /\ pc = "idle"
  /\ id \notin finalized
  /\ ticket < MaxTicket
  /\ finalized' = finalized \cup {id}
  /\ outbox' = IF id \in Ids(outbox) THEN outbox
               ELSE outbox \cup {Fresh(id, ticket + 1)}
  /\ ticket' = ticket + 1
  /\ UNCHANGED <<quarantine, discarded, drain, server>>

ClearOutbox ==
  /\ pc = "idle"
  /\ outbox # {}
  /\ outbox' = {}
  /\ discarded' = discarded \cup Ids(outbox)
  /\ UNCHANGED <<quarantine, finalized, ticket, drain, server>>

ClearQuarantine ==
  /\ pc = "idle"
  /\ quarantine # {}
  /\ quarantine' = {}
  /\ discarded' = discarded \cup Ids(quarantine)
  /\ UNCHANGED <<outbox, finalized, ticket, drain, server>>

DeleteQuarantined(id) ==
  /\ pc = "idle"
  /\ id \in Ids(quarantine)
  /\ quarantine' = Without(quarantine, id)
  /\ discarded' = discarded \cup {id}
  /\ UNCHANGED <<outbox, finalized, ticket, drain, server>>

(* Mutant of RetryQuarantined: the isolated copy stays behind.             *)
RetryKeepsEntry(id) ==
  /\ pc = "idle"
  /\ id \in Ids(quarantine)
  /\ ticket < MaxTicket
  /\ outbox' = outbox \cup {Fresh(id, ticket + 1)}
  /\ ticket' = ticket + 1
  /\ UNCHANGED <<quarantine, finalized, discarded, drain, server>>

RetryQuarantined(id) ==
  /\ pc = "idle"
  /\ id \in Ids(quarantine)
  /\ ticket < MaxTicket
  /\ outbox' = outbox \cup {Fresh(id, ticket + 1)}
  /\ quarantine' = Without(quarantine, id)
  /\ ticket' = ticket + 1
  /\ UNCHANGED <<finalized, discarded, drain, server>>

(* Every queued item starts over in its place; the isolated items follow   *)
(* in the order in which they were isolated.                               *)
RetryAll ==
  LET rank(entry) == Cardinality({q \in quarantine : q.pos <= entry.pos})
  IN  /\ pc = "idle"
      /\ outbox \cup quarantine # {}
      /\ ticket + Cardinality(quarantine) <= MaxTicket
      /\ outbox' = {Fresh(item.id, item.pos) : item \in outbox}
                   \cup {Fresh(q.id, ticket + rank(q)) : q \in quarantine}
      /\ quarantine' = {}
      /\ ticket' = ticket + Cardinality(quarantine)
      /\ UNCHANGED <<finalized, discarded, drain, server>>
-----------------------------------------------------------------------------
(* The drain: read the head, send it, read again, persist the plan.        *)

StartFlush ==
  /\ pc = "idle"
  /\ pc' = "drain"
  /\ processed' = 0
  /\ UNCHANGED <<local, sent, result, server>>

Halt == pc' = "idle" /\ sent' = None /\ processed' = 0 /\ result' = "global"

(* Mutant of Sendable: an item that was backed off is never due again.     *)
NeverDue(item) == ~item.blocked /\ item.attempts = 0

Sendable(item) == ~item.blocked /\ ~item.waiting

(* Empty, batch limit, or a head that must not be sent now.                *)
StopDrain ==
  /\ pc = "drain"
  /\ \/ processed >= BatchSize
     \/ outbox = {}
     \/ \E item \in outbox : IsHead(item) /\ ~Sendable(item)
  /\ Halt
  /\ UNCHANGED <<local, server>>

Send ==
  /\ pc = "drain"
  /\ processed < BatchSize
  /\ \E item \in outbox :
       /\ IsHead(item)
       /\ Sendable(item)
       /\ sent' = item
       /\ pc' = "await"
  /\ UNCHANGED <<local, processed, result, server>>

Answer(r) == pc' = "answered" /\ result' = r /\ UNCHANGED <<processed, sent>>

(* No usable capability or endpoint: the drain answers itself, and no      *)
(* request leaves the browser.                                             *)
NoRequest ==
  /\ pc = "await"
  /\ Answer("global")
  /\ UNCHANGED <<local, server>>

(* First ingestion or exact replay: either way the bundle is committed     *)
(* and the acknowledgement names it.                                       *)
PlatformCommits ==
  /\ pc = "await"
  /\ stored' = stored \cup {sent.id}
  /\ Answer("ok")
  /\ UNCHANGED <<local, wire>>

(* Validation or conflict; a bundle already stored is replayed before any  *)
(* rule could refuse it.                                                   *)
PlatformRefuses ==
  /\ pc = "await"
  /\ sent.id \notin stored
  /\ Answer("refused")
  /\ UNCHANGED <<local, server>>

PlatformFails ==
  /\ pc = "await"
  /\ Answer("failed")
  /\ UNCHANGED <<local, server>>

(* A lost response, or a success whose acknowledgement is not usable: the  *)
(* bundle may or may not have been committed.                              *)
AnswerUnusable ==
  /\ pc = "await"
  /\ \E r \in {"global", "ack_error"} : Answer(r)
  /\ stored' \in {stored, stored \cup {sent.id}}
  /\ UNCHANGED <<local, wire>>

Continue == pc' = "drain" /\ processed' = processed + 1
            /\ sent' = None /\ result' = "global"

PersistAcked ==
  /\ pc = "answered" /\ result = "ok"
  /\ outbox' = Without(outbox, sent.id)
  /\ Continue
  /\ UNCHANGED <<quarantine, finalized, ticket, discarded, server>>

(* Mutant of PersistGlobal: an unreachable platform counts as delivery.    *)
GlobalForgets ==
  /\ pc = "answered" /\ result = "global"
  /\ outbox' = Without(outbox, sent.id)
  /\ Halt
  /\ UNCHANGED <<quarantine, finalized, ticket, discarded, server>>

PersistGlobal ==
  /\ pc = "answered" /\ result = "global"
  /\ Halt
  /\ UNCHANGED <<local, server>>

(* Mutant of BackOff: the retry cap does not block the item.               *)
BackOffUnblocked(item) ==
  [item EXCEPT !.attempts = IF @ < MaxRetry THEN @ + 1 ELSE @,
               !.waiting = TRUE]

(* An unusable acknowledgement backs off and, at the retry cap, stays at   *)
(* the head until the user retries.                                        *)
BackOff(item) ==
  LET attempts == IF item.attempts + 1 < MaxRetry THEN item.attempts + 1
                  ELSE MaxRetry
  IN  [item EXCEPT !.attempts = attempts, !.waiting = TRUE,
                   !.blocked = (attempts >= MaxRetry)]

(* Mutant of PersistAckError: any answer with a success code settles.      *)
UnreadAckSettles ==
  /\ pc = "answered" /\ result = "ack_error"
  /\ outbox' = Without(outbox, sent.id)
  /\ Halt
  /\ UNCHANGED <<quarantine, finalized, ticket, discarded, server>>

PersistAckError ==
  /\ pc = "answered" /\ result = "ack_error"
  /\ outbox' = Without(outbox, sent.id)
               \cup {BackOff(item) : item \in Sent(outbox)}
  /\ Halt
  /\ UNCHANGED <<quarantine, finalized, ticket, discarded, server>>

(* Mutant of Permanent: repeated server failures never isolate an item.    *)
NeverPermanent(item) == result = "refused"

Permanent(item) == result = "refused" \/ item.attempts + 1 >= MaxRetry

Counted(item) == [item EXCEPT !.attempts = @ + 1]

PersistFailure ==
  /\ pc = "answered" /\ result \in {"refused", "failed"}
  /\ LET lost == {item \in Sent(outbox) : Permanent(item)}
         kept == Sent(outbox) \ lost
     IN  /\ outbox' = Without(outbox, sent.id)
                      \cup {Counted(item) : item \in kept}
         /\ quarantine' = quarantine \cup {Counted(item) : item \in lost}
  /\ IF result = "failed" /\ sent.attempts + 1 < MaxRetry
     THEN Halt ELSE Continue
  /\ UNCHANGED <<finalized, ticket, discarded, server>>
-----------------------------------------------------------------------------
(* The surroundings.                                                       *)

(* nextAttemptAt passes for one item.                                      *)
ClockPasses ==
  /\ \E item \in outbox :
       /\ item.waiting
       /\ outbox' = (outbox \ {item}) \cup {[item EXCEPT !.waiting = FALSE]}
  /\ UNCHANGED <<quarantine, finalized, ticket, discarded, drain, server>>

(* The browser stops the worker: the drain is gone, its request is not.    *)
WorkerStops ==
  /\ pc # "idle"
  /\ Halt
  /\ wire' = IF pc = "await" THEN wire \cup {sent.id} ELSE wire
  /\ UNCHANGED <<local, stored>>

(* A request nobody waits for any more is handled or lost.                 *)
StrayRequest(id) ==
  /\ id \in wire
  /\ wire' = wire \ {id}
  /\ stored' \in {stored, stored \cup {id}}
  /\ UNCHANGED <<local, drain>>

Persist == PersistAcked \/ PersistGlobal \/ PersistAckError \/ PersistFailure

Platform == NoRequest \/ PlatformCommits \/ PlatformRefuses \/ PlatformFails
            \/ AnswerUnusable

UserAction ==
  \/ ClearOutbox \/ ClearQuarantine \/ RetryAll
  \/ \E id \in Bundles : DeleteQuarantined(id) \/ RetryQuarantined(id)

Next ==
  \/ \E id \in Bundles : Enqueue(id) \/ StrayRequest(id)
  \/ UserAction
  \/ StartFlush \/ StopDrain \/ Send
  \/ Platform
  \/ Persist
  \/ ClockPasses
  \/ WorkerStops

Spec == Init /\ [][Next]_vars

(* The flush alarm fires again and again, the worker goes on while it      *)
(* lives and time passes; a platform that is asked again and again answers *)
(* normally some day, and the worker is not stopped each time just before  *)
(* it records that answer.                                                 *)
Fairness ==
  /\ WF_vars(StartFlush) /\ WF_vars(StopDrain) /\ WF_vars(Platform)
  /\ WF_vars(Persist) /\ WF_vars(ClockPasses)
  /\ SF_vars(Send) /\ SF_vars(PlatformCommits) /\ SF_vars(PersistAcked)

FairSpec == Spec /\ Fairness
-----------------------------------------------------------------------------
(* Type invariant: what each storage key and drain register may hold.      *)
TypeOK ==
  /\ outbox \subseteq Item
  /\ quarantine \subseteq Item /\ IsFiniteSet(quarantine)
  /\ finalized \subseteq Bundles
  /\ ticket \in Nat
  /\ pc \in {"idle", "drain", "await", "answered"}
  /\ processed \in Nat
  /\ sent \in Item \cup {None}
  /\ pc \in {"await", "answered"} => sent \in Item
  /\ result \in Results
  /\ stored \subseteq Bundles
  /\ wire \subseteq Bundles
  /\ discarded \subseteq Bundles

(* No bundle is lost in silence: whatever the network, the platform or the *)
(* browser does, the bundle of a finalized submission is still queued or   *)
(* isolated, or the platform holds it, or the user threw it away.          *)
NoSilentLoss ==
  \A id \in finalized :
    id \in Ids(outbox) \cup Ids(quarantine) \cup stored \cup discarded

(* A bundle is kept in one place: it is queued at most once and never      *)
(* queued and isolated at the same time, through every retry and move.     *)
OnePlace ==
  /\ Ids(outbox) \cap Ids(quarantine) = {}
  /\ \A a, b \in outbox : a.id = b.id => a = b
  /\ \A a, b \in quarantine : a.id = b.id => a = b

(* The automatic retries end: failures and unusable acknowledgements share *)
(* one counter, an item that has used it up is blocked until the user acts *)
(* and a queued item still counts below the cap otherwise.                 *)
RetryBudget ==
  /\ \A item \in outbox : item.blocked <=> item.attempts >= MaxRetry
  /\ \A q \in quarantine : q.attempts \in 1 .. MaxRetry /\ ~q.blocked

Blocked == \E item \in outbox : IsHead(item) /\ item.blocked

(* Nothing waits for ever: a queued bundle leaves the outbox (stored or    *)
(* isolated), or the queue is stopped by a head that used up its retries.  *)
Drains ==
  \A id \in Bundles :
    id \in Ids(outbox) ~> (id \notin Ids(outbox) \/ Blocked)
-----------------------------------------------------------------------------
(* The promise of the pipeline, seen through the storage.                  *)
StatusOf(id) ==
  CASE id \notin finalized -> "absent"
    [] id \in finalized /\ id \in Ids(outbox) -> "pending"
    [] id \in finalized /\ id \notin Ids(outbox) /\ id \in Ids(quarantine)
         -> "isolated"
    [] id \in finalized /\ id \notin Ids(outbox) \cup Ids(quarantine)
         /\ id \in discarded -> "discarded"
    [] OTHER -> "settled"

Promise == INSTANCE ReliableDelivery
             WITH status <- [id \in Bundles |-> StatusOf(id)],
                  delivered <- stored

(* The outbox implements the abstract promise: every step is a step of     *)
(* ReliableDelivery or leaves its state alone.                             *)
KeepsPromise == Promise!Spec
=============================================================================
