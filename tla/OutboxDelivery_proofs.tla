------------------------ MODULE OutboxDelivery_proofs ------------------------
(***************************************************************************)
(* Proofs about OutboxDelivery, for every set of bundles, every retry cap  *)
(* and batch size and every bound on the queue positions.                  *)
(***************************************************************************)
EXTENDS OutboxDelivery, FiniteSetTheorems, TLAPS

Sending == pc \in {"await", "answered"}

(* While a request is under way the item it carries stays in the outbox,   *)
(* unchanged: no work that removes or edits it runs before the plan is     *)
(* persisted.                                                              *)
SentHeld == Sending => sent \in outbox /\ ~sent.waiting /\ ~sent.blocked

(* The drain believes in a delivery only when the platform has committed.  *)
AckMeansStored == pc = "answered" /\ result = "ok" => sent.id \in stored

(* Whatever is queued, isolated, stored or discarded was finalized before. *)
KnownIds ==
  Ids(outbox) \cup Ids(quarantine) \cup stored \cup wire \cup discarded
    \subseteq finalized

(* What the user threw away is in no queue any more.                       *)
DiscardGone == discarded \cap (Ids(outbox) \cup Ids(quarantine)) = {}

(* The inductive invariant.                                                *)
IInv ==
  /\ TypeOK
  /\ OnePlace
  /\ NoSilentLoss
  /\ RetryBudget
  /\ SentHeld
  /\ AckMeansStored
  /\ KnownIds
  /\ DiscardGone
-----------------------------------------------------------------------------
(* The initial state is empty.                                             *)
LEMMA InitInv == Init => IInv
  BY OutboxAssumption, FS_EmptySet
  DEF Init, IInv, TypeOK, OnePlace, NoSilentLoss, RetryBudget, SentHeld,
      Sending, AckMeansStored, KnownIds, DiscardGone, Ids, None, Results

(* A fresh item has the type of an item.                                   *)
LEMMA FreshType ==
  ASSUME NEW id \in Bundles, NEW position \in Nat
  PROVE  Fresh(id, position) \in Item
  BY OutboxAssumption DEF Fresh, Item

(* The ids of a queue, of a longer queue and of a shorter one.             *)
LEMMA IdsMember ==
  ASSUME NEW queue, NEW item \in queue
  PROVE  item.id \in Ids(queue)
  BY DEF Ids

(* A fresh item carries the identity it was made for.                    *)
LEMMA FreshId ==
  ASSUME NEW id, NEW position
  PROVE  Fresh(id, position).id = id
  BY DEF Fresh

(* A fresh item is unblocked and has its whole retry budget left.        *)
LEMMA FreshBudget ==
  ASSUME NEW id, NEW position
  PROVE  Fresh(id, position).attempts = 0 /\ ~Fresh(id, position).blocked
  BY DEF Fresh

(* Adding a fresh item adds exactly its identity to the queue.           *)
LEMMA IdsFresh ==
  ASSUME NEW queue, NEW id, NEW position
  PROVE  Ids(queue \cup {Fresh(id, position)}) = Ids(queue) \cup {id}
<1>1. ASSUME NEW x \in Ids(queue \cup {Fresh(id, position)})
      PROVE  x \in Ids(queue) \cup {id}
  <2>1. PICK item \in queue \cup {Fresh(id, position)} : x = item.id
    BY DEF Ids
  <2>. QED BY <2>1, FreshId, IdsMember
<1>2. ASSUME NEW x \in Ids(queue) \cup {id}
      PROVE  x \in Ids(queue \cup {Fresh(id, position)})
  <2>1. CASE x = id
    BY <2>1, FreshId DEF Ids
  <2>2. CASE x \in Ids(queue)
    BY <2>2 DEF Ids
  <2>. QED BY <2>1, <2>2
<1>. QED BY <1>1, <1>2

(* A fresh item of an id that is not queued keeps ids unique.              *)
LEMMA FreshUnique ==
  ASSUME NEW queue, NEW id, NEW position, id \notin Ids(queue),
         \A a, b \in queue : a.id = b.id => a = b
  PROVE  \A a, b \in queue \cup {Fresh(id, position)} : a.id = b.id => a = b
<1>1. \A a \in queue : a.id # id
  BY IdsMember
<1>. QED BY <1>1, FreshId

(* Taking an identity out of a queue removes it and no other.            *)
LEMMA IdsWithout ==
  ASSUME NEW queue, NEW id
  PROVE  Ids(Without(queue, id)) = Ids(queue) \ {id}
  BY DEF Ids, Without

(* A new bundle enters the queue; no item of its id was there.             *)
LEMMA EnqueueInv ==
  ASSUME IInv, NEW id \in Bundles, Enqueue(id)
  PROVE  IInv'
<1>1. id \notin Ids(outbox) \cup Ids(quarantine) \cup discarded
  BY DEF Enqueue, IInv, KnownIds
<1>2. outbox' = outbox \cup {Fresh(id, ticket + 1)} /\ finalized' = finalized \cup {id}
  BY <1>1 DEF Enqueue
<1>3. TypeOK'
  BY <1>2, FreshType DEF Enqueue, IInv, TypeOK, drain, server
<1>4. Ids(outbox') = Ids(outbox) \cup {id}
  BY <1>2, IdsFresh
<1>5. OnePlace'
  <2>1. \A a, b \in outbox' : a.id = b.id => a = b
    BY <1>1, <1>2, FreshUnique DEF IInv, OnePlace
  <2>2. quarantine' = quarantine
    BY DEF Enqueue
  <2>. QED BY <1>1, <1>4, <2>1, <2>2 DEF IInv, OnePlace
<1>6. NoSilentLoss' /\ KnownIds' /\ DiscardGone'
  BY <1>1, <1>2, <1>4
  DEF Enqueue, IInv, NoSilentLoss, KnownIds, DiscardGone, server, Ids
<1>7. RetryBudget'
  BY <1>2, OutboxAssumption DEF Enqueue, IInv, RetryBudget, Fresh
<1>8. SentHeld' /\ AckMeansStored'
  BY DEF Enqueue, SentHeld, AckMeansStored, Sending, drain, server
<1>. QED BY <1>3, <1>5, <1>6, <1>7, <1>8 DEF IInv

(* The user empties the outbox.                                            *)
LEMMA ClearOutboxInv ==
  ASSUME IInv, ClearOutbox
  PROVE  IInv'
<1>1. Ids(outbox') = {}
  BY DEF ClearOutbox, Ids
<1>2. TypeOK'
  BY DEF ClearOutbox, IInv, TypeOK, drain, server, Ids, Item, KnownIds
<1>3. OnePlace' /\ RetryBudget'
  BY DEF ClearOutbox, IInv, OnePlace, RetryBudget, Ids
<1>4. NoSilentLoss' /\ KnownIds' /\ DiscardGone'
  BY <1>1 DEF ClearOutbox, IInv, NoSilentLoss, KnownIds, DiscardGone, OnePlace,
     server, Ids
<1>5. SentHeld' /\ AckMeansStored'
  BY DEF ClearOutbox, SentHeld, AckMeansStored, Sending, drain, server
<1>. QED BY <1>2, <1>3, <1>4, <1>5 DEF IInv

(* The user empties the quarantine.                                        *)
LEMMA ClearQuarantineInv ==
  ASSUME IInv, ClearQuarantine
  PROVE  IInv'
<1>1. Ids(quarantine') = {}
  BY DEF ClearQuarantine, Ids
<1>2. TypeOK'
  BY FS_EmptySet
  DEF ClearQuarantine, IInv, TypeOK, drain, server, Ids, Item, KnownIds
<1>3. OnePlace' /\ RetryBudget'
  BY DEF ClearQuarantine, IInv, OnePlace, RetryBudget, Ids
<1>4. NoSilentLoss' /\ KnownIds' /\ DiscardGone'
  BY <1>1 DEF ClearQuarantine, IInv, NoSilentLoss, KnownIds, DiscardGone,
     OnePlace, server, Ids
<1>5. SentHeld' /\ AckMeansStored'
  BY DEF ClearQuarantine, SentHeld, AckMeansStored, Sending, drain, server
<1>. QED BY <1>2, <1>3, <1>4, <1>5 DEF IInv

(* The user deletes one isolated bundle.                                   *)
LEMMA DeleteQuarantinedInv ==
  ASSUME IInv, NEW id \in Bundles, DeleteQuarantined(id)
  PROVE  IInv'
<1>1. quarantine' = Without(quarantine, id) /\ discarded' = discarded \cup {id}
  BY DEF DeleteQuarantined
<1>2. Ids(quarantine') = Ids(quarantine) \ {id} /\ quarantine' \subseteq quarantine
  BY <1>1, IdsWithout DEF Without
<1>3. IsFiniteSet(quarantine')
  BY <1>2, FS_Subset DEF IInv, TypeOK
<1>4. TypeOK'
  BY <1>1, <1>2, <1>3 DEF DeleteQuarantined, IInv, TypeOK, drain, server
<1>5. OnePlace' /\ RetryBudget'
  BY <1>2 DEF DeleteQuarantined, IInv, OnePlace, RetryBudget, Ids
<1>6. NoSilentLoss' /\ KnownIds' /\ DiscardGone'
  BY <1>1, <1>2 DEF DeleteQuarantined, IInv, NoSilentLoss, KnownIds, DiscardGone,
     OnePlace, server
<1>7. SentHeld' /\ AckMeansStored'
  BY DEF DeleteQuarantined, SentHeld, AckMeansStored, Sending, drain, server
<1>. QED BY <1>4, <1>5, <1>6, <1>7 DEF IInv

(* The user returns one isolated bundle to the end of the queue.           *)
LEMMA RetryQuarantinedInv ==
  ASSUME IInv, NEW id \in Bundles, RetryQuarantined(id)
  PROVE  IInv'
<1>1. /\ quarantine' = Without(quarantine, id)
      /\ outbox' = outbox \cup {Fresh(id, ticket + 1)}
  BY DEF RetryQuarantined
<1>2. /\ Ids(quarantine') = Ids(quarantine) \ {id}
      /\ quarantine' \subseteq quarantine
      /\ Ids(outbox') = Ids(outbox) \cup {id}
      /\ id \notin Ids(outbox)
  <2>1. Ids(quarantine') = Ids(quarantine) \ {id} /\ quarantine' \subseteq quarantine
    BY <1>1, IdsWithout DEF Without
  <2>2. Ids(outbox') = Ids(outbox) \cup {id}
    BY <1>1, IdsFresh
  <2>3. id \notin Ids(outbox)
    BY DEF RetryQuarantined, IInv, OnePlace
  <2>. QED BY <2>1, <2>2, <2>3
<1>3. IsFiniteSet(quarantine')
  BY <1>2, FS_Subset DEF IInv, TypeOK
<1>4. TypeOK'
  BY <1>1, <1>2, <1>3, FreshType
  DEF RetryQuarantined, IInv, TypeOK, drain, server
<1>5. OnePlace'
  <2>1. \A a, b \in outbox' : a.id = b.id => a = b
    BY <1>1, <1>2, FreshUnique DEF IInv, OnePlace
  <2>. QED BY <1>2, <2>1 DEF IInv, OnePlace
<1>6. RetryBudget'
  BY <1>1, <1>2, OutboxAssumption DEF IInv, RetryBudget, Fresh
<1>7. NoSilentLoss' /\ KnownIds' /\ DiscardGone'
  <2>1. NoSilentLoss'
    BY <1>2 DEF RetryQuarantined, server, Ids, IInv, NoSilentLoss, KnownIds
  <2>2. KnownIds'
    BY <1>2 DEF RetryQuarantined, server, Ids, IInv, KnownIds
  <2>3. DiscardGone'
    BY <1>2 DEF RetryQuarantined, server, Ids, IInv, DiscardGone, KnownIds
  <2>. QED BY <2>1, <2>2, <2>3
<1>8. SentHeld' /\ AckMeansStored'
  BY DEF RetryQuarantined, SentHeld, AckMeansStored, Sending, drain, server
<1>. QED BY <1>4, <1>5, <1>6, <1>7, <1>8 DEF IInv

(* The user starts everything over: the isolated bundles follow the queued *)
(* ones.                                                                   *)
LEMMA RetryAllIds ==
  ASSUME RetryAll
  PROVE  Ids(outbox') = Ids(outbox) \cup Ids(quarantine) /\ Ids(quarantine') = {}
<1> DEFINE rank(q) == Cardinality({r \in quarantine : r.pos <= q.pos})
           again == {Fresh(item.id, item.pos) : item \in outbox}
           back == {Fresh(q.id, ticket + rank(q)) : q \in quarantine}
<1>1. outbox' = again \cup back /\ quarantine' = {}
  BY DEF RetryAll
<1>2. ASSUME NEW a \in again
      PROVE  \E x \in outbox : a = Fresh(x.id, x.pos) /\ a.id = x.id
  BY FreshId
<1>3. ASSUME NEW a \in back
      PROVE  \E x \in quarantine : a = Fresh(x.id, ticket + rank(x)) /\ a.id = x.id
  BY FreshId
<1>4. Ids(again) = Ids(outbox) /\ Ids(back) = Ids(quarantine)
  <2>1. Ids(again) \subseteq Ids(outbox) /\ Ids(back) \subseteq Ids(quarantine)
    BY <1>2, <1>3 DEF Ids
  <2>2. \A x \in outbox : x.id \in Ids(again)
    <3>. SUFFICES ASSUME NEW x \in outbox
                  PROVE  x.id \in Ids(again)
      OBVIOUS
    <3>1. Fresh(x.id, x.pos) \in again
      OBVIOUS
    <3>. QED BY <3>1, FreshId, IdsMember
  <2>3. \A x \in quarantine : x.id \in Ids(back)
    <3>. SUFFICES ASSUME NEW x \in quarantine
                  PROVE  x.id \in Ids(back)
      OBVIOUS
    <3>1. Fresh(x.id, ticket + rank(x)) \in back
      OBVIOUS
    <3>. QED BY <3>1, FreshId, IdsMember
  <2>4. Ids(outbox) \subseteq Ids(again) /\ Ids(quarantine) \subseteq Ids(back)
    BY <2>2, <2>3 DEF Ids
  <2>. QED BY <2>1, <2>4
<1>5. Ids(again \cup back) = Ids(again) \cup Ids(back)
  BY DEF Ids
<1>6. Ids({}) = {}
  BY DEF Ids
<1>. QED BY <1>1, <1>4, <1>5, <1>6

(* Retrying everything at once loses and duplicates nothing.             *)
LEMMA RetryAllInv ==
  ASSUME IInv, RetryAll
  PROVE  IInv'
<1> DEFINE rank(q) == Cardinality({r \in quarantine : r.pos <= q.pos})
           again == {Fresh(item.id, item.pos) : item \in outbox}
           back == {Fresh(q.id, ticket + rank(q)) : q \in quarantine}
<1>1. outbox' = again \cup back /\ quarantine' = {}
  BY DEF RetryAll
<1>2. \A q \in quarantine : rank(q) \in Nat
  <2>. SUFFICES ASSUME NEW q \in quarantine
                PROVE  rank(q) \in Nat
    OBVIOUS
  <2>1. IsFiniteSet({r \in quarantine : r.pos <= q.pos})
    BY FS_Subset DEF IInv, TypeOK
  <2>. QED BY <2>1, FS_CardinalityType
<1>3. ticket' \in Nat
  BY FS_CardinalityType DEF RetryAll, IInv, TypeOK
<1>4. again \subseteq Item
  BY FreshType DEF IInv, TypeOK, Item
<1>5. back \subseteq Item
  <2>. SUFFICES ASSUME NEW q \in quarantine
                PROVE  Fresh(q.id, ticket + rank(q)) \in Item
    OBVIOUS
  <2>1. q.id \in Bundles /\ ticket + rank(q) \in Nat
    BY <1>2 DEF IInv, TypeOK, Item
  <2>. QED BY <2>1, FreshType
<1>6. TypeOK'
  <2>1. Item' = Item
    BY DEF Item
  <2>2. sent \in Item \cup {None} => (sent \in Item \cup {None})'
    BY <2>1 DEF RetryAll, drain, None, Item
  <2>. QED
    BY <1>1, <1>3, <1>4, <1>5, FS_EmptySet DEF RetryAll, IInv, TypeOK, drain, server
<1>7. ASSUME NEW a \in again
      PROVE  \E x \in outbox : a = Fresh(x.id, x.pos) /\ a.id = x.id
  BY FreshId
<1>8. ASSUME NEW a \in back
      PROVE  \E x \in quarantine : a = Fresh(x.id, ticket + rank(x)) /\ a.id = x.id
  BY FreshId
<1>10. Ids(outbox') = Ids(outbox) \cup Ids(quarantine) /\ Ids(quarantine') = {}
  BY RetryAllIds
<1>11. OnePlace'
  <2>1. ASSUME NEW a \in outbox', NEW b \in outbox', a.id = b.id
        PROVE  a = b
    <3>. HIDE DEF again, back, rank
    <3>1. CASE a \in again /\ b \in again
      BY <3>1, <2>1, <1>7 DEF IInv, OnePlace
    <3>2. CASE a \in back /\ b \in back
      <4>1. PICK x \in quarantine : a = Fresh(x.id, ticket + rank(x)) /\ a.id = x.id
        BY <3>2, <1>8
      <4>2. PICK y \in quarantine : b = Fresh(y.id, ticket + rank(y)) /\ b.id = y.id
        BY <3>2, <1>8
      <4>3. x = y
        BY <2>1, <4>1, <4>2 DEF IInv, OnePlace
      <4>. QED BY <4>1, <4>2, <4>3
    <3>3. ASSUME NEW c \in again, NEW d \in back
          PROVE  c.id # d.id
      <4>1. c.id \in Ids(outbox)
        BY <1>7, IdsMember
      <4>2. d.id \in Ids(quarantine)
        BY <1>8, IdsMember
      <4>. QED BY <4>1, <4>2 DEF IInv, OnePlace
    <3>. QED BY <1>1, <2>1, <3>1, <3>2, <3>3
  <2>. QED BY <1>1, <1>10, <2>1 DEF OnePlace
<1>12. RetryBudget'
  <2>1. \A a \in again \cup back : ~a.blocked /\ a.attempts = 0
    <3>1. \A a \in again : ~a.blocked /\ a.attempts = 0
      BY DEF Fresh
    <3>2. \A a \in back : ~a.blocked /\ a.attempts = 0
      <4>. HIDE DEF back, rank
      <4>. SUFFICES ASSUME NEW a \in back
                    PROVE  ~a.blocked /\ a.attempts = 0
        OBVIOUS
      <4>1. PICK x \in quarantine : a = Fresh(x.id, ticket + rank(x))
        BY <1>8
      <4>. QED BY <4>1, FreshBudget
    <3>. QED BY <3>1, <3>2
  <2>. QED BY <1>1, <2>1, OutboxAssumption DEF RetryBudget
<1>13. NoSilentLoss' /\ KnownIds' /\ DiscardGone'
  <2>1. NoSilentLoss'
    BY <1>10 DEF RetryAll, server, IInv, NoSilentLoss, KnownIds
  <2>2. KnownIds'
    BY <1>10 DEF RetryAll, server, IInv, KnownIds
  <2>3. DiscardGone'
    BY <1>10 DEF RetryAll, server, IInv, DiscardGone, KnownIds
  <2>. QED BY <2>1, <2>2, <2>3
<1>14. SentHeld' /\ AckMeansStored'
  BY DEF RetryAll, SentHeld, AckMeansStored, Sending, drain, server
<1>. QED BY <1>6, <1>11, <1>12, <1>13, <1>14 DEF IInv
-----------------------------------------------------------------------------
(* Steps that leave both queues alone: the drain's own registers and the   *)
(* platform's answers.                                                     *)
LEMMA QueuesKept ==
  ASSUME IInv, UNCHANGED <<outbox, quarantine, finalized, ticket, discarded>>,
         stored \subseteq stored', stored' \cup wire' \subseteq stored \cup wire \cup Ids(outbox)
  PROVE  OnePlace' /\ NoSilentLoss' /\ RetryBudget' /\ KnownIds' /\ DiscardGone'
<1>1. Ids(outbox') = Ids(outbox) /\ Ids(quarantine') = Ids(quarantine)
  OBVIOUS
<1>2. OnePlace' /\ RetryBudget'
  BY <1>1 DEF IInv, OnePlace, RetryBudget
<1>3. NoSilentLoss'
  BY <1>1 DEF IInv, NoSilentLoss
<1>4. KnownIds' /\ DiscardGone'
  BY <1>1 DEF IInv, KnownIds, DiscardGone
<1>. QED BY <1>2, <1>3, <1>4

(* Starting a drain only moves the program counter.                      *)
LEMMA StartFlushInv ==
  ASSUME IInv, StartFlush
  PROVE  IInv'
<1>1. TypeOK' /\ SentHeld' /\ AckMeansStored'
  BY DEF StartFlush, IInv, TypeOK, SentHeld, AckMeansStored, Sending, local, server
<1>. QED BY <1>1, QueuesKept DEF StartFlush, local, server, IInv

(* The drain ends, with or without a request left on the wire.             *)
LEMMA HaltInv ==
  ASSUME IInv, Halt, UNCHANGED local, UNCHANGED stored,
         wire' \subseteq wire \cup Ids(outbox)
  PROVE  IInv'
<1>1. Ids(outbox) \subseteq Bundles
  BY DEF IInv, KnownIds, TypeOK
<1>2. TypeOK' /\ SentHeld' /\ AckMeansStored'
  BY <1>1 DEF Halt, IInv, TypeOK, SentHeld, AckMeansStored, Sending, local,
     None, Item, Results
<1>. QED BY <1>2, QueuesKept DEF local, IInv

(* Reading and sending the head records a copy of a queued item.         *)
LEMMA SendInv ==
  ASSUME IInv, Send
  PROVE  IInv'
<1>1. TypeOK' /\ SentHeld' /\ AckMeansStored'
  BY DEF Send, IsHead, Sendable, IInv, TypeOK, SentHeld, AckMeansStored, Sending,
     local, server
<1>. QED BY <1>1, QueuesKept DEF Send, local, server, IInv

(* The platform answers a request, having committed its bundle or not.     *)
LEMMA PlatformInv ==
  ASSUME IInv, Platform
  PROVE  IInv'
<1>1. pc = "await" /\ pc' = "answered" /\ sent' = sent /\ processed' = processed
      /\ UNCHANGED local /\ wire' = wire /\ stored' \in {stored, stored \cup {sent.id}}
      /\ result' \in Results /\ (result' = "ok" => sent.id \in stored')
  BY DEF Platform, NoRequest, PlatformCommits, PlatformRefuses, PlatformFails,
     AnswerUnusable, Answer, Results, server
<1>2. sent \in outbox /\ sent.id \in Ids(outbox)
  BY <1>1, IdsMember DEF IInv, SentHeld, Sending
<1>3. sent.id \in Bundles
  BY <1>2 DEF IInv, KnownIds, TypeOK
<1>4. TypeOK' /\ SentHeld' /\ AckMeansStored'
  BY <1>1, <1>3 DEF IInv, TypeOK, SentHeld, AckMeansStored, Sending, local
<1>. QED BY <1>1, <1>2, <1>4, QueuesKept DEF local, IInv

(* The platform's copy is recorded: only then does the bundle leave.       *)
LEMMA PersistAckedInv ==
  ASSUME IInv, PersistAcked
  PROVE  IInv'
<1>1. outbox' = Without(outbox, sent.id) /\ outbox' \subseteq outbox
  BY DEF PersistAcked, Without
<1>2. Ids(outbox') = Ids(outbox) \ {sent.id}
  BY <1>1, IdsWithout
<1>3. sent.id \in stored
  BY DEF PersistAcked, IInv, AckMeansStored
<1>4. TypeOK' /\ SentHeld' /\ AckMeansStored'
  BY <1>1 DEF PersistAcked, Continue, IInv, TypeOK, SentHeld, AckMeansStored,
     Sending, server, None, Item, Results
<1>5. OnePlace' /\ RetryBudget'
  BY <1>1, <1>2 DEF PersistAcked, IInv, OnePlace, RetryBudget
<1>6. NoSilentLoss' /\ KnownIds' /\ DiscardGone'
  BY <1>2, <1>3
  DEF PersistAcked, IInv, NoSilentLoss, KnownIds, DiscardGone, server
<1>. QED BY <1>4, <1>5, <1>6 DEF IInv

(* The sent item is the only queued item of its id.                        *)
LEMMA SentAlone ==
  ASSUME IInv, Sending
  PROVE  Sent(outbox) = {sent} /\ sent \in outbox
  BY DEF IInv, SentHeld, OnePlace, Sent

(* Replacing the sent item by another version of itself keeps the ids.     *)
LEMMA IdsReplaced ==
  ASSUME NEW queue, NEW old \in queue, NEW new, new.id = old.id
  PROVE  Ids(Without(queue, old.id) \cup {new}) = Ids(queue)
<1>1. Ids(Without(queue, old.id) \cup {new})
        = Ids(Without(queue, old.id)) \cup {new.id}
  BY DEF Ids
<1>2. old.id \in Ids(queue)
  BY IdsMember
<1>3. Ids(Without(queue, old.id)) = Ids(queue) \ {old.id}
  BY IdsWithout
<1>. QED BY <1>1, <1>2, <1>3

(* Backing off yields an item that is blocked exactly at the retry cap.  *)
LEMMA BackOffItem ==
  ASSUME NEW item \in Item, ~item.blocked, item.attempts < MaxRetry
  PROVE  /\ BackOff(item) \in Item
         /\ BackOff(item).id = item.id
         /\ BackOff(item).blocked <=> BackOff(item).attempts >= MaxRetry
<1> DEFINE tries == IF item.attempts + 1 < MaxRetry THEN item.attempts + 1
                    ELSE MaxRetry
<1>1. tries \in 0 .. MaxRetry
  BY OutboxAssumption DEF Item
<1>2. BackOff(item) = [item EXCEPT !.attempts = tries, !.waiting = TRUE,
                                   !.blocked = (tries >= MaxRetry)]
  BY DEF BackOff
<1>3. /\ BackOff(item).id = item.id /\ BackOff(item).pos = item.pos
      /\ BackOff(item).attempts = tries /\ BackOff(item).waiting = TRUE
      /\ BackOff(item).blocked = (tries >= MaxRetry)
  <2>. HIDE DEF tries
  <2>. QED BY <1>2 DEF Item
<1>4. BackOff(item) \in Item
  <2> DEFINE full == tries >= MaxRetry
  <2>1. full \in BOOLEAN
    OBVIOUS
  <2>2. BackOff(item) = [item EXCEPT !.attempts = tries, !.waiting = TRUE,
                                     !.blocked = full]
    BY <1>2
  <2>. HIDE DEF tries, full
  <2>. QED BY <1>1, <2>1, <2>2 DEF Item
<1>. QED BY <1>3, <1>4

(* Counting a failure keeps an item below or at the retry cap.           *)
LEMMA CountedItem ==
  ASSUME NEW item \in Item, ~item.blocked, item.attempts < MaxRetry
  PROVE  /\ Counted(item) \in Item
         /\ Counted(item).id = item.id
         /\ ~Counted(item).blocked
         /\ Counted(item).attempts = item.attempts + 1
  BY OutboxAssumption DEF Counted, Item

(* The sent item becomes another version of itself.                        *)
LEMMA ReplacedInv ==
  ASSUME IInv, Sending, NEW new \in Item, new.id = sent.id,
         new.blocked <=> new.attempts >= MaxRetry,
         outbox' = Without(outbox, sent.id) \cup {new},
         UNCHANGED <<quarantine, finalized, ticket, discarded, stored, wire>>,
         pc' \in {"idle", "drain"}, sent' = None, processed' \in Nat,
         result' = "global"
  PROVE  IInv'
<1>1. sent \in outbox
  BY SentAlone
<1>2. Ids(outbox') = Ids(outbox)
  BY <1>1, IdsReplaced
<1>3. TypeOK' /\ SentHeld' /\ AckMeansStored'
  BY DEF IInv, TypeOK, SentHeld, AckMeansStored, Sending, None, Item, Results,
     Without
<1>4. OnePlace'
  BY <1>2 DEF IInv, OnePlace, Without
<1>5. RetryBudget'
  BY DEF IInv, RetryBudget, Without
<1>6. NoSilentLoss' /\ KnownIds' /\ DiscardGone'
  BY <1>2 DEF IInv, NoSilentLoss, KnownIds, DiscardGone
<1>. QED BY <1>3, <1>4, <1>5, <1>6 DEF IInv

(* While an answer is out, the item sent is queued and unblocked.        *)
LEMMA SentFacts ==
  ASSUME IInv, Sending
  PROVE  sent \in Item /\ ~sent.blocked /\ sent.attempts < MaxRetry
<1>1. sent \in outbox /\ sent \in Item /\ ~sent.blocked
  BY DEF IInv, SentHeld, TypeOK
<1>2. sent.attempts \in Nat
  BY <1>1, OutboxAssumption DEF Item
<1>. QED BY <1>1, <1>2, OutboxAssumption DEF IInv, RetryBudget

(* An unusable acknowledgement only replaces the head by its backed-off form. *)
LEMMA PersistAckErrorInv ==
  ASSUME IInv, PersistAckError
  PROVE  IInv'
<1>1. Sending
  BY DEF PersistAckError, Sending
<1>2. {BackOff(item) : item \in Sent(outbox)} = {BackOff(sent)}
  BY <1>1, SentAlone
<1>3. outbox' = Without(outbox, sent.id) \cup {BackOff(sent)}
  BY <1>2 DEF PersistAckError
<1>. QED
  BY <1>1, <1>3, SentFacts, BackOffItem, ReplacedInv
  DEF PersistAckError, Halt, server

(* An isolated item leaves the outbox for the quarantine.                  *)
LEMMA IsolatedInv ==
  ASSUME IInv, Sending, NEW new \in Item, new.id = sent.id,
         new.attempts \in 1 .. MaxRetry, ~new.blocked,
         outbox' = Without(outbox, sent.id),
         quarantine' = quarantine \cup {new},
         UNCHANGED <<finalized, ticket, discarded, stored, wire>>,
         pc' \in {"idle", "drain"}, sent' = None, processed' \in Nat,
         result' = "global"
  PROVE  IInv'
<1>1. sent.id \in Ids(outbox)
  BY SentAlone, IdsMember
<1>2. Ids(outbox') = Ids(outbox) \ {sent.id}
  BY IdsWithout
<1>3. Ids(quarantine') = Ids(quarantine) \cup {sent.id}
  BY DEF Ids
<1>4. TypeOK' /\ SentHeld' /\ AckMeansStored'
  <2>1. IsFiniteSet(quarantine')
    BY FS_AddElement DEF IInv, TypeOK
  <2>. QED
    BY <2>1 DEF IInv, TypeOK, SentHeld, AckMeansStored, Sending, None, Item,
       Results, Without
<1>5. OnePlace'
  <2>1. \A q \in quarantine : q.id # sent.id
    BY <1>1, IdsMember DEF IInv, OnePlace
  <2>. QED BY <1>1, <1>2, <1>3, <2>1 DEF IInv, OnePlace, Without
<1>6. RetryBudget'
  BY DEF IInv, RetryBudget, Without
<1>7. NoSilentLoss' /\ KnownIds' /\ DiscardGone'
  <2>1. NoSilentLoss'
    BY <1>1, <1>2, <1>3 DEF Without, IInv, NoSilentLoss, KnownIds
  <2>2. KnownIds'
    <3>1. Ids(outbox) \cup Ids(quarantine) \cup stored \cup wire \cup discarded
            \subseteq finalized
      BY DEF IInv, KnownIds
    <3>2. UNCHANGED <<finalized, discarded, stored, wire>>
      OBVIOUS
    <3>. QED BY <1>1, <1>2, <1>3, <3>1, <3>2 DEF KnownIds
  <2>3. DiscardGone'
    BY <1>1, <1>2, <1>3 DEF Without, IInv, DiscardGone, KnownIds
  <2>. QED BY <2>1, <2>2, <2>3
<1>. QED BY <1>4, <1>5, <1>6, <1>7 DEF IInv

(* A refused or failed item is kept with one more attempt or moved whole. *)
LEMMA PersistFailureInv ==
  ASSUME IInv, PersistFailure
  PROVE  IInv'
<1>1. Sending
  BY DEF PersistFailure, Sending
<1>2. /\ UNCHANGED <<finalized, ticket, discarded, stored, wire>>
      /\ pc' \in {"idle", "drain"} /\ sent' = None /\ processed' \in Nat
      /\ result' = "global"
  BY DEF PersistFailure, Halt, Continue, server, IInv, TypeOK
<1>3. /\ Counted(sent) \in Item /\ Counted(sent).id = sent.id
      /\ ~Counted(sent).blocked /\ Counted(sent).attempts = sent.attempts + 1
      /\ sent.attempts \in Nat /\ sent.attempts < MaxRetry
  BY <1>1, SentFacts, CountedItem, OutboxAssumption DEF Item
<1>4. CASE Permanent(sent)
  <2>1. {item \in Sent(outbox) : Permanent(item)} = {sent}
    BY <1>1, <1>4, SentAlone
  <2>2. /\ outbox' = Without(outbox, sent.id)
        /\ quarantine' = quarantine \cup {Counted(sent)}
    BY <1>1, <2>1, SentAlone DEF PersistFailure
  <2>3. Counted(sent).attempts \in 1 .. MaxRetry
    BY <1>3, OutboxAssumption
  <2>. QED BY <1>1, <1>2, <1>3, <2>2, <2>3, IsolatedInv
<1>5. CASE ~Permanent(sent)
  <2>1. {item \in Sent(outbox) : Permanent(item)} = {}
    BY <1>1, <1>5, SentAlone
  <2>2. /\ outbox' = Without(outbox, sent.id) \cup {Counted(sent)}
        /\ quarantine' = quarantine
    BY <1>1, <2>1, SentAlone DEF PersistFailure
  <2>3. ~(Counted(sent).attempts >= MaxRetry)
    BY <1>3, <1>5, OutboxAssumption DEF Permanent
  <2>. QED BY <1>1, <1>2, <1>3, <2>2, <2>3, ReplacedInv
<1>. QED BY <1>4, <1>5
-----------------------------------------------------------------------------
(* The surroundings.                                                       *)
LEMMA ClockPassesInv ==
  ASSUME IInv, ClockPasses
  PROVE  IInv'
<1> DEFINE due(item) == [item EXCEPT !.waiting = FALSE]
<1>1. PICK item \in outbox : item.waiting /\ outbox' = (outbox \ {item}) \cup {due(item)}
  BY DEF ClockPasses
<1>2. item \in Item
  BY DEF IInv, TypeOK
<1>3. /\ due(item) \in Item /\ due(item).id = item.id
      /\ due(item).blocked = item.blocked /\ due(item).attempts = item.attempts
  BY <1>2 DEF Item
<1>. HIDE DEF due
<1>4. outbox \ {item} = Without(outbox, item.id)
  BY DEF IInv, OnePlace, Without
<1>5. Ids(outbox') = Ids(outbox)
  BY <1>1, <1>3, <1>4, IdsReplaced
<1>6. Sending => sent # item
  BY <1>1 DEF IInv, SentHeld
<1>7. TypeOK' /\ SentHeld' /\ AckMeansStored'
  BY <1>1, <1>3, <1>6
  DEF ClockPasses, IInv, TypeOK, SentHeld, AckMeansStored, Sending, drain, server
<1>8. OnePlace'
  <2>1. \A a, b \in outbox' : a.id = b.id => a = b
    BY <1>1, <1>3, <1>4 DEF IInv, OnePlace, Without
  <2>. QED BY <1>5, <2>1 DEF ClockPasses, IInv, OnePlace
<1>9. RetryBudget'
  BY <1>1, <1>3 DEF ClockPasses, IInv, RetryBudget
<1>10. NoSilentLoss' /\ KnownIds' /\ DiscardGone'
  BY <1>5 DEF ClockPasses, IInv, NoSilentLoss, KnownIds, DiscardGone, server
<1>. QED BY <1>7, <1>8, <1>9, <1>10 DEF IInv

(* A stopped worker leaves the durable queues as they are.               *)
LEMMA WorkerStopsInv ==
  ASSUME IInv, WorkerStops
  PROVE  IInv'
<1>1. pc = "await" => sent.id \in Ids(outbox)
  BY IdsMember DEF IInv, SentHeld, Sending
<1>. QED BY <1>1, HaltInv DEF WorkerStops

(* A late request can only add a bundle to the database.                 *)
LEMMA StrayRequestInv ==
  ASSUME IInv, NEW id \in Bundles, StrayRequest(id)
  PROVE  IInv'
<1>1. TypeOK' /\ SentHeld' /\ AckMeansStored'
  BY DEF StrayRequest, IInv, TypeOK, SentHeld, AckMeansStored, Sending, local, drain
<1>. QED BY <1>1, QueuesKept DEF StrayRequest, local, drain, IInv
-----------------------------------------------------------------------------
(* Every step of the pipeline preserves the inductive invariant.         *)
LEMMA NextInv == IInv /\ [Next]_vars => IInv'
<1>. SUFFICES ASSUME IInv, [Next]_vars PROVE IInv'
  OBVIOUS
<1>1. CASE UNCHANGED vars
  BY <1>1 DEF vars, IInv, TypeOK, OnePlace, NoSilentLoss, RetryBudget, SentHeld,
     Sending, AckMeansStored, KnownIds, DiscardGone, Ids, Item
<1>2. ASSUME NEW id \in Bundles, Enqueue(id) \/ StrayRequest(id)
      PROVE  IInv'
  BY <1>2, EnqueueInv, StrayRequestInv
<1>3. CASE UserAction
  BY <1>3, ClearOutboxInv, ClearQuarantineInv, RetryAllInv, DeleteQuarantinedInv,
     RetryQuarantinedInv DEF UserAction
<1>4. CASE StartFlush
  BY <1>4, StartFlushInv
<1>5. CASE StopDrain
  BY <1>5, HaltInv DEF StopDrain, server
<1>6. CASE Send
  BY <1>6, SendInv
<1>7. CASE Platform
  BY <1>7, PlatformInv
<1>8. CASE Persist
  <2>1. CASE PersistGlobal
    BY <2>1, HaltInv DEF PersistGlobal, server
  <2>. QED
    BY <1>8, <2>1, PersistAckedInv, PersistAckErrorInv, PersistFailureInv DEF Persist
<1>9. CASE ClockPasses
  BY <1>9, ClockPassesInv
<1>10. CASE WorkerStops
  BY <1>10, WorkerStopsInv
<1>. QED
  BY <1>1, <1>2, <1>3, <1>4, <1>5, <1>6, <1>7, <1>8, <1>9, <1>10 DEF Next

(* The inductive invariant holds in every reachable state.               *)
THEOREM Invariance == Spec => []IInv
  BY InitInv, NextInv, PTL DEF Spec

(* Every storage key and drain register keeps its type: attempts never     *)
(* exceed the retry cap, a request carries a queued item.                  *)
THEOREM TypeCorrect == Spec => []TypeOK
  BY Invariance, PTL DEF IInv

(* Whatever the network, the platform and the browser do, a finalized      *)
(* bundle is queued, isolated, stored or thrown away by the user.          *)
THEOREM NothingLost == Spec => []NoSilentLoss
  BY Invariance, PTL DEF IInv

(* No id is ever in the queue twice or queued and isolated at once.        *)
THEOREM AlwaysOnePlace == Spec => []OnePlace
  BY Invariance, PTL DEF IInv

(* Blocked means exactly that the automatic retries are used up.           *)
THEOREM BudgetKept == Spec => []RetryBudget
  BY Invariance, PTL DEF IInv
-----------------------------------------------------------------------------
(* The refinement.  The status of a bundle, read from the storage sets.    *)
Seen == [id \in Bundles |-> StatusOf(id)]

(* How the status of a bundle is read off the storage, before a step.    *)
LEMMA StatusFacts ==
  ASSUME IInv, NEW id \in Bundles
  PROVE  /\ id \notin finalized => StatusOf(id) = "absent"
         /\ id \in Ids(outbox) => StatusOf(id) = "pending"
         /\ id \in Ids(quarantine) => StatusOf(id) = "isolated"
         /\ id \in discarded => StatusOf(id) = "discarded"
         /\ id \in finalized \ (Ids(outbox) \cup Ids(quarantine) \cup discarded)
              => StatusOf(id) = "settled"
  BY DEF StatusOf, IInv, KnownIds, DiscardGone, OnePlace

(* A step that moves no id between the sets is a stutter or an arrival.    *)
LEMMA SameStatus ==
  ASSUME UNCHANGED <<finalized, discarded>>, Ids(outbox') = Ids(outbox),
         Ids(quarantine') = Ids(quarantine)
  PROVE  Seen' = Seen
  BY DEF Seen, StatusOf

(* A step that at most commits a request is Arrive or a stutter.         *)
LEMMA ArrivalRefines ==
  ASSUME IInv, UNCHANGED <<finalized, discarded>>, Ids(outbox') = Ids(outbox),
         Ids(quarantine') = Ids(quarantine),
         NEW id \in finalized, stored' \in {stored, stored \cup {id}}
  PROVE  [Promise!Next]_(Promise!vars)
<1>1. Seen' = Seen
  BY SameStatus
<1>2. id \in Bundles /\ Seen[id] # "absent"
  BY StatusFacts DEF Seen, StatusOf, IInv, TypeOK
<1>3. CASE stored' = stored
  BY <1>1, <1>3 DEF Promise!vars, Seen
<1>4. CASE stored' = stored \cup {id}
  <2>1. Promise!Arrive(id)
    BY <1>1, <1>2, <1>4 DEF Promise!Arrive, Seen
  <2>. QED BY <1>2, <2>1 DEF Promise!Next
<1>. QED BY <1>3, <1>4

(* Ids of a set S that change their status to s, the others keeping theirs. *)
LEMMA MovedStatus ==
  ASSUME NEW S \in SUBSET Bundles, NEW s,
         \A id \in Bundles \ S : StatusOf(id)' = StatusOf(id),
         \A id \in S : StatusOf(id)' = s
  PROVE  Seen' = Promise!Moved(S, s)
  BY DEF Seen, Promise!Moved

(* How the status of a bundle is read off the storage, after a step.     *)
LEMMA StatusFactsNext ==
  ASSUME IInv', NEW id \in Bundles
  PROVE  /\ id \notin finalized' => StatusOf(id)' = "absent"
         /\ id \in Ids(outbox') => StatusOf(id)' = "pending"
         /\ id \in Ids(quarantine') => StatusOf(id)' = "isolated"
         /\ id \in discarded' => StatusOf(id)' = "discarded"
         /\ id \in finalized' \ (Ids(outbox') \cup Ids(quarantine') \cup discarded')
              => StatusOf(id)' = "settled"
  BY DEF StatusOf, IInv, KnownIds, DiscardGone, OnePlace

(* Ids that stay in the sets they were in keep their status.               *)
LEMMA StatusKept ==
  ASSUME NEW id \in Bundles,
         id \in finalized' <=> id \in finalized,
         id \in discarded' <=> id \in discarded,
         id \in Ids(outbox') <=> id \in Ids(outbox),
         id \in Ids(quarantine') <=> id \in Ids(quarantine)
  PROVE  StatusOf(id)' = StatusOf(id)
  BY DEF StatusOf

(* Enqueuing a finalized bundle is the abstract Accept.                  *)
LEMMA AcceptRefines ==
  ASSUME IInv, IInv', NEW id \in Bundles, Enqueue(id)
  PROVE  Promise!Next
<1>1. /\ id \notin finalized /\ finalized' = finalized \cup {id}
      /\ Ids(outbox') = Ids(outbox) \cup {id}
      /\ UNCHANGED <<quarantine, discarded, stored>>
  BY IdsFresh DEF Enqueue, server, IInv, KnownIds
<1>2. Seen[id] = "absent" /\ StatusOf(id)' = "pending"
  BY <1>1, StatusFacts, StatusFactsNext DEF Seen
<1>3. \A other \in Bundles \ {id} : StatusOf(other)' = StatusOf(other)
  BY <1>1, StatusKept
<1>4. Seen' = Promise!Moved({id}, "pending")
  BY <1>2, <1>3, MovedStatus
<1>5. Promise!Accept(id)
  BY <1>1, <1>2, <1>4 DEF Promise!Accept, Seen
<1>. QED BY <1>5 DEF Promise!Next

(* Acting on an acknowledgement is the abstract Settle.                  *)
LEMMA SettleRefines ==
  ASSUME IInv, IInv', PersistAcked
  PROVE  Promise!Next
<1>0. sent \in outbox /\ sent.id \in Ids(outbox) /\ sent.id \in Bundles
  BY IdsMember DEF PersistAcked, IInv, SentHeld, Sending, KnownIds, TypeOK
<1>1. PICK id \in Bundles : id = sent.id /\ id \in Ids(outbox)
  BY <1>0
<1>2. /\ Ids(outbox') = Ids(outbox) \ {id}
      /\ UNCHANGED <<quarantine, finalized, discarded, stored>>
  BY <1>1, IdsWithout DEF PersistAcked, server
<1>3. id \in stored /\ id \in finalized'
      /\ id \notin Ids(outbox') \cup Ids(quarantine') \cup discarded'
  BY <1>1, <1>2
  DEF PersistAcked, IInv, AckMeansStored, KnownIds, OnePlace, DiscardGone
<1>4. Seen[id] = "pending" /\ StatusOf(id)' = "settled"
  BY <1>1, <1>3, StatusFacts, StatusFactsNext DEF Seen
<1>5. \A other \in Bundles \ {id} : StatusOf(other)' = StatusOf(other)
  BY <1>2, StatusKept
<1>6. Seen' = Promise!Moved({id}, "settled")
  BY <1>1, <1>4, <1>5, MovedStatus
<1>7. Promise!Settle(id)
  BY <1>2, <1>3, <1>4, <1>6 DEF Promise!Settle, Seen
<1>. QED BY <1>1, <1>7 DEF Promise!Next

(* Moving an item to the quarantine is the abstract Isolate.             *)
LEMMA IsolateRefines ==
  ASSUME IInv, IInv', PersistFailure
  PROVE  [Promise!Next]_(Promise!vars)
<1>0. /\ Sending /\ sent \in outbox
      /\ sent.id \in Ids(outbox) /\ sent.id \in Bundles
  BY IdsMember DEF PersistFailure, IInv, SentHeld, Sending, KnownIds, TypeOK
<1>1. PICK id \in Bundles : id = sent.id /\ id \in Ids(outbox)
  BY <1>0
<1>2. UNCHANGED <<finalized, discarded, stored>>
  BY DEF PersistFailure, server
<1>3. Counted(sent).id = id
  BY <1>0, <1>1, SentFacts, CountedItem
<1>4. CASE Permanent(sent)
  <2>1. {item \in Sent(outbox) : Permanent(item)} = {sent}
    BY <1>0, <1>4, SentAlone
  <2>2. /\ outbox' = Without(outbox, id)
        /\ quarantine' = quarantine \cup {Counted(sent)}
    BY <1>0, <1>1, <2>1, SentAlone DEF PersistFailure
  <2>3. /\ Ids(outbox') = Ids(outbox) \ {id}
        /\ Ids(quarantine') = Ids(quarantine) \cup {id}
    BY <1>3, <2>2, IdsWithout DEF Ids
  <2>4. Seen[id] = "pending" /\ StatusOf(id)' = "isolated"
    BY <1>1, <2>3, StatusFacts, StatusFactsNext DEF Seen
  <2>5. \A other \in Bundles \ {id} : StatusOf(other)' = StatusOf(other)
    BY <1>2, <2>3, StatusKept
  <2>6. Seen' = Promise!Moved({id}, "isolated")
    BY <1>1, <2>4, <2>5, MovedStatus
  <2>7. Promise!Isolate(id)
    BY <1>2, <2>4, <2>6 DEF Promise!Isolate, Seen
  <2>. QED BY <1>1, <2>7 DEF Promise!Next
<1>5. CASE ~Permanent(sent)
  <2>1. {item \in Sent(outbox) : Permanent(item)} = {}
    BY <1>0, <1>5, SentAlone
  <2>2. /\ outbox' = Without(outbox, id) \cup {Counted(sent)}
        /\ quarantine' = quarantine
    BY <1>0, <1>1, <2>1, SentAlone DEF PersistFailure
  <2>3. Ids(outbox') = Ids(outbox) /\ Ids(quarantine') = Ids(quarantine)
    BY <1>0, <1>1, <1>3, <2>2, IdsReplaced
  <2>. QED BY <1>2, <2>3, SameStatus DEF Promise!vars, Seen
<1>. QED BY <1>4, <1>5

(* Clearing or deleting is one Discard of the ids that go.                 *)
LEMMA DiscardRefines ==
  ASSUME IInv, IInv', NEW S \in SUBSET Bundles,
         UNCHANGED <<finalized, stored>>, discarded' = discarded \cup S,
         S \subseteq Ids(outbox) \cup Ids(quarantine),
         Ids(outbox') = Ids(outbox) \ S, Ids(quarantine') = Ids(quarantine) \ S
  PROVE  Promise!Next
<1>1. \A id \in S : Seen[id] \in {"pending", "isolated"} /\ StatusOf(id)' = "discarded"
  BY StatusFacts, StatusFactsNext DEF Seen
<1>2. \A id \in Bundles \ S : StatusOf(id)' = StatusOf(id)
  BY StatusKept
<1>3. Seen' = Promise!Moved(S, "discarded")
  BY <1>1, <1>2, MovedStatus
<1>4. Promise!Discard(S)
  BY <1>1, <1>3 DEF Promise!Discard, Promise!Having, Seen
<1>. QED BY <1>4 DEF Promise!Next

(* Returning isolated bundles to the queue is one Retry of their ids.      *)
LEMMA RetryRefines ==
  ASSUME IInv, IInv', NEW S \in SUBSET Bundles,
         UNCHANGED <<finalized, stored, discarded>>,
         S \subseteq Ids(quarantine),
         Ids(outbox') = Ids(outbox) \cup S, Ids(quarantine') = Ids(quarantine) \ S
  PROVE  Promise!Next
<1>1. \A id \in S : Seen[id] = "isolated" /\ StatusOf(id)' = "pending"
  BY StatusFacts, StatusFactsNext DEF Seen
<1>2. \A id \in Bundles \ S : StatusOf(id)' = StatusOf(id)
  BY StatusKept
<1>3. Seen' = Promise!Moved(S, "pending")
  BY <1>1, <1>2, MovedStatus
<1>4. Promise!Retry(S)
  BY <1>1, <1>3 DEF Promise!Retry, Promise!Having, Seen
<1>. QED BY <1>4 DEF Promise!Next

(* Every user action is an abstract Retry or Discard.                    *)
LEMMA UserActionRefines ==
  ASSUME IInv, IInv', UserAction
  PROVE  Promise!Next
<1>. Ids(outbox) \in SUBSET Bundles /\ Ids(quarantine) \in SUBSET Bundles
  BY DEF IInv, KnownIds, TypeOK
<1>. Ids(outbox) \cap Ids(quarantine) = {}
  BY DEF IInv, OnePlace
<1>1. CASE ClearOutbox
  <2>1. Ids(outbox') = {}
    BY <1>1 DEF ClearOutbox, Ids
  <2>. QED BY <1>1, <2>1, DiscardRefines DEF ClearOutbox, server
<1>2. CASE ClearQuarantine
  <2>1. Ids(quarantine') = {}
    BY <1>2 DEF ClearQuarantine, Ids
  <2>. QED BY <1>2, <2>1, DiscardRefines DEF ClearQuarantine, server
<1>3. CASE RetryAll
  <2>1. Ids(outbox') = Ids(outbox) \cup Ids(quarantine) /\ Ids(quarantine') = {}
    BY <1>3, RetryAllIds
  <2>. QED BY <1>3, <2>1, RetryRefines DEF RetryAll, server
<1>4. ASSUME NEW id \in Bundles, DeleteQuarantined(id)
      PROVE  Promise!Next
  <2>1. Ids(quarantine') = Ids(quarantine) \ {id}
    BY <1>4, IdsWithout DEF DeleteQuarantined
  <2>2. id \in Ids(quarantine) /\ Ids(outbox') = Ids(outbox) \ {id}
    BY <1>4 DEF DeleteQuarantined
  <2>. QED BY <1>4, <2>1, <2>2, DiscardRefines DEF DeleteQuarantined, server
<1>5. ASSUME NEW id \in Bundles, RetryQuarantined(id)
      PROVE  Promise!Next
  <2>1. /\ Ids(quarantine') = Ids(quarantine) \ {id}
        /\ Ids(outbox') = Ids(outbox) \cup {id}
    BY <1>5, IdsWithout, IdsFresh DEF RetryQuarantined
  <2>2. id \in Ids(quarantine)
    BY <1>5 DEF RetryQuarantined
  <2>. QED BY <1>5, <2>1, <2>2, RetryRefines DEF RetryQuarantined, server
<1>. QED BY <1>1, <1>2, <1>3, <1>4, <1>5 DEF UserAction

(* The drain's own steps and the passing of time change no status.         *)
LEMMA QuietRefines ==
  ASSUME UNCHANGED <<finalized, discarded, stored>>, Ids(outbox') = Ids(outbox),
         Ids(quarantine') = Ids(quarantine)
  PROVE  [Promise!Next]_(Promise!vars)
  BY SameStatus DEF Promise!vars, Seen

(* Every step maps to a step of the promise or to a stutter.             *)
LEMMA NextRefines ==
  IInv /\ IInv' /\ [Next]_vars => [Promise!Next]_(Promise!vars)
<1>. SUFFICES ASSUME IInv, IInv', [Next]_vars PROVE [Promise!Next]_(Promise!vars)
  OBVIOUS
<1>1. CASE UNCHANGED vars \/ StartFlush \/ StopDrain \/ Send \/ WorkerStops \/ PersistGlobal
  BY <1>1, QuietRefines
  DEF vars, StartFlush, StopDrain, Send, WorkerStops, PersistGlobal, local, server
<1>2. ASSUME NEW id \in Bundles, Enqueue(id)
      PROVE  Promise!Next
  BY <1>2, AcceptRefines
<1>3. ASSUME NEW id \in Bundles, StrayRequest(id)
      PROVE  [Promise!Next]_(Promise!vars)
  BY <1>3, ArrivalRefines DEF StrayRequest, local, IInv, KnownIds
<1>4. CASE UserAction
  BY <1>4, UserActionRefines
<1>5. CASE Platform
  <2>1. sent.id \in finalized
    BY <1>5, IdsMember
    DEF Platform, NoRequest, PlatformCommits, PlatformRefuses, PlatformFails,
        AnswerUnusable, IInv, SentHeld, Sending, KnownIds
  <2>2. UNCHANGED local /\ stored' \in {stored, stored \cup {sent.id}}
    BY <1>5 DEF Platform, NoRequest, PlatformCommits, PlatformRefuses,
       PlatformFails, AnswerUnusable, server
  <2>. QED BY <2>1, <2>2, ArrivalRefines DEF local
<1>6. CASE PersistAcked
  BY <1>6, SettleRefines
<1>7. CASE PersistFailure
  BY <1>7, IsolateRefines
<1>8. CASE PersistAckError
  <2>1. Sending
    BY <1>8 DEF PersistAckError, Sending
  <2>2. {BackOff(item) : item \in Sent(outbox)} = {BackOff(sent)}
    BY <2>1, SentAlone
  <2>3. Ids(outbox') = Ids(outbox)
    BY <1>8, <2>1, <2>2, SentAlone, SentFacts, BackOffItem, IdsReplaced
    DEF PersistAckError
  <2>. QED BY <1>8, <2>3, QuietRefines DEF PersistAckError, server
<1>9. CASE ClockPasses
  <2> DEFINE due(item) == [item EXCEPT !.waiting = FALSE]
  <2>1. PICK item \in outbox : outbox' = (outbox \ {item}) \cup {due(item)}
    BY <1>9 DEF ClockPasses
  <2>2. due(item).id = item.id
    BY DEF IInv, TypeOK, Item
  <2>3. outbox \ {item} = Without(outbox, item.id)
    BY DEF IInv, OnePlace, Without
  <2>. HIDE DEF due
  <2>4. Ids(outbox') = Ids(outbox)
    BY <2>1, <2>2, <2>3, IdsReplaced
  <2>. QED BY <1>9, <2>4, QuietRefines DEF ClockPasses, server
<1>. QED
  BY <1>1, <1>2, <1>3, <1>4, <1>5, <1>6, <1>7, <1>8, <1>9 DEF Next, Persist

(* The outbox keeps the promise: for every set of bundles each of its      *)
(* steps accepts, delivers, settles, isolates, retries or discards bundles *)
(* as ReliableDelivery allows, or changes none of them; in particular it   *)
(* never settles a bundle that the platform does not hold.                 *)
THEOREM Refinement == Spec => KeepsPromise
<1>1. Init => Promise!Init
  BY DEF Init, Promise!Init, StatusOf
<1>. QED BY <1>1, Invariance, NextRefines, PTL DEF KeepsPromise, Spec, Promise!Spec
=============================================================================
