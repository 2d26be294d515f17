------------------------ MODULE CaptureIngest_proofs ------------------------
(***************************************************************************)
(* Proofs about CaptureIngest, for every set of sessions, submissions and  *)
(* clients.  Everything rests on one fact about a single event that is not *)
(* refused: it leaves the tables Good.  A bundle is four such events.      *)
(***************************************************************************)
EXTENDS CaptureIngest, TLAPS

Typed(d) ==
  d \in [ledger   : SUBSET Events,
         sessions : [Sessions -> SessionRow \cup {NoSession}],
         attempts : [Submissions -> AttemptRow \cup {NoAttempt}]]

Valid(d) == \A x \in Submissions : ~Invalid(d.attempts[x])

UniqueIds(d) == \A e, f \in d.ledger : e.id = f.id => e = f

(* Every stored event is one of its session's row, and of its attempt's.   *)
Linked(d) ==
  \A e \in d.ledger :
    /\ d.sessions[e.session] # NoSession
    /\ d.sessions[e.session].problem = e.problem
    /\ AboutAttempt(e) => /\ d.attempts[e.submission] # NoAttempt
                          /\ d.attempts[e.submission].session = e.session

(* A session row starts at its first event and ends at its earliest end.   *)
SessionStarts(d) ==
  \A s \in Sessions :
    /\ d.sessions[s] # NoSession =>
         \E e \in d.ledger : e.session = s /\ d.sessions[s].startedAt = e.at
    /\ \A e \in d.ledger : e.session = s => d.sessions[s].startedAt <= e.at

SessionEnds(d) ==
  \A s \in Sessions :
    /\ d.sessions[s].endedAt # 0 =>
         \E e \in d.ledger : /\ e.session = s /\ e.kind = "end"
                             /\ d.sessions[s].endedAt = e.at
    /\ \A e \in d.ledger :
         e.session = s /\ e.kind = "end" =>
           d.sessions[s].endedAt # 0 /\ d.sessions[s].endedAt <= e.at

(* An attempt row starts at one of its events, no submission precedes it.  *)
AttemptStarts(d) ==
  \A x \in Submissions :
    /\ d.attempts[x] # NoAttempt =>
         \E e \in d.ledger : e.submission = x /\ d.attempts[x].startedAt = e.at
    /\ \A e \in d.ledger :
         e.submission = x /\ e.kind = "submit" =>
           d.attempts[x].startedAt <= e.at

IsVerdict(d, x, v) == v \in d.ledger /\ v.submission = x /\ v.kind = "verdict"

(* An attempt row shows a stored verdict, and no stored one is newer.      *)
AttemptVerdicts(d) ==
  \A x \in Submissions :
    LET row == d.attempts[x]
    IN  /\ row.verdictEvent = 0 => row.result \in {"none", "draft"}
        /\ row.verdictEvent # 0 =>
             \E v \in d.ledger : /\ IsVerdict(d, x, v)
                                 /\ v.id = row.verdictEvent
                                 /\ v.at = row.endedAt
                                 /\ v.result = row.result
        /\ \A w \in d.ledger :
             IsVerdict(d, x, w) =>
               /\ row.verdictEvent # 0
               /\ \/ w.at < row.endedAt
                  \/ w.at = row.endedAt /\ w.id <= row.verdictEvent

Good(d) ==
  /\ Typed(d) /\ Valid(d) /\ UniqueIds(d) /\ Linked(d)
  /\ SessionStarts(d) /\ SessionEnds(d)
  /\ AttemptStarts(d) /\ AttemptVerdicts(d)

(* What was acknowledged is in the ledger.                                 *)
AckedKnown == \A b \in acked : \A i \in 1 .. 4 : b[i] \in db.ledger

IInv == Good(db) /\ acked \subseteq Bundles /\ AckedKnown /\ WholeBundles
-----------------------------------------------------------------------------
(* Every event a client can post is a well-formed event.                   *)
LEMMA BundleEvents ==
  ASSUME NEW b \in Bundles, NEW i \in 1 .. 4
  PROVE  b[i] \in Event /\ WellFormed(b[i]) /\ b[i] \in Events
BY IngestAssumption DEF BundleShape, Events

(* An event is about an attempt exactly if it names a submission.          *)
LEMMA EventFacts ==
  ASSUME NEW e \in Events
  PROVE  /\ e \in Event
         /\ WellFormed(e)
         /\ AboutAttempt(e) <=> e.submission \in Submissions
BY BundleEvents, IngestAssumption DEF Events, WellFormed, AboutAttempt

(* A new event that is not refused, and the rows it works on.              *)
LEMMA NewEvent ==
  ASSUME NEW d, Typed(d), NEW e \in Events, ~Refused(d, e), ~Known(d, e)
  PROVE  /\ \A k \in d.ledger : k.id # e.id
         /\ ~OtherProblem(d.sessions[e.session], e)
         /\ AboutAttempt(e) =>
              /\ ~LinkedElsewhere(d.attempts[e.submission], e)
              /\ ~Invalid(AttemptAfter(d.attempts[e.submission], e))
BY DEF Refused, Known

(* Every event leaves a proper row for its session.                        *)
LEMMA SessionAfterType ==
  ASSUME NEW row \in SessionRow \cup {NoSession}, NEW e \in Event
  PROVE  /\ SessionAfter(row, e) \in SessionRow
         /\ SessionAfter(row, e) # NoSession
BY DEF SessionAfter, SessionRow, NoSession, Event

(* Every submission or verdict leaves a proper row for its attempt.        *)
LEMMA AttemptAfterType ==
  ASSUME NEW row \in AttemptRow \cup {NoAttempt}, NEW e \in Event
  PROVE  /\ AttemptAfter(row, e) \in AttemptRow
         /\ AttemptAfter(row, e) # NoAttempt
<1> DEFINE current == IF row = NoAttempt THEN Opened(e) ELSE row
<1>1. current \in AttemptRow
  BY DEF Opened, AttemptRow, NoAttempt, Event
<1>2. Submitted(current, e) \in AttemptRow
  BY <1>1 DEF Submitted, AttemptRow, Event
<1>3. Judged(current, e) \in AttemptRow
  BY <1>1 DEF Judged, AttemptRow, Event
<1>4. AttemptAfter(row, e) \in AttemptRow
  BY <1>2, <1>3 DEF AttemptAfter
<1>5. \A r \in AttemptRow : r # NoAttempt
  BY DEF AttemptRow, NoAttempt
<1> QED
  BY <1>4, <1>5

(* The tables after a new event, component by component.                   *)
LEMMA StoredFacts ==
  ASSUME NEW d, Typed(d), NEW e \in Events, ~Known(d, e)
  PROVE  /\ Typed(Stored(d, e))
         /\ Stored(d, e).ledger = d.ledger \cup {e}
         /\ Stored(d, e).sessions[e.session]
              = SessionAfter(d.sessions[e.session], e)
         /\ \A s \in Sessions : s # e.session =>
              Stored(d, e).sessions[s] = d.sessions[s]
         /\ AboutAttempt(e) => Stored(d, e).attempts[e.submission]
                                 = AttemptAfter(d.attempts[e.submission], e)
         /\ \A x \in Submissions : ~AboutAttempt(e) \/ x # e.submission =>
              Stored(d, e).attempts[x] = d.attempts[x]
<1>1. e \in Event /\ e.session \in Sessions
      /\ (AboutAttempt(e) => e.submission \in Submissions)
  BY EventFacts DEF Event
<1>2. d.sessions[e.session] \in SessionRow \cup {NoSession}
  BY <1>1 DEF Typed
<1>3. AboutAttempt(e) =>
        d.attempts[e.submission] \in AttemptRow \cup {NoAttempt}
  BY <1>1 DEF Typed
<1>4. SessionAfter(d.sessions[e.session], e) \in SessionRow
  BY <1>1, <1>2, SessionAfterType
<1>5. AboutAttempt(e) =>
        AttemptAfter(d.attempts[e.submission], e) \in AttemptRow
  BY <1>1, <1>3, AttemptAfterType
<1>6. Typed(Stored(d, e))
  BY <1>1, <1>4, <1>5 DEF Typed, Stored
<1> QED
  BY <1>1, <1>6 DEF Typed, Stored
-----------------------------------------------------------------------------
(* One step of Good, part by part.                                         *)

(* No attempt row that the schema refuses is saved.                        *)
LEMMA ValidStep ==
  ASSUME NEW d, Typed(d), Valid(d), NEW e \in Events,
         ~Refused(d, e), ~Known(d, e)
  PROVE  Valid(Stored(d, e))
BY StoredFacts, NewEvent DEF Valid

(* A reused event id is refused, so ids name events.                       *)
LEMMA UniqueIdsStep ==
  ASSUME NEW d, Typed(d), UniqueIds(d), NEW e \in Events,
         ~Refused(d, e), ~Known(d, e)
  PROVE  UniqueIds(Stored(d, e))
BY StoredFacts, NewEvent DEF UniqueIds

(* A stored event knows its session, and its submission if it has one.     *)
LEMMA LedgerFacts ==
  ASSUME NEW d, Typed(d), NEW f \in d.ledger
  PROVE  /\ f \in Events /\ f \in Event
         /\ f.session \in Sessions /\ f.at \in Nat \ {0} /\ f.id \in Nat \ {0}
         /\ AboutAttempt(f) <=> f.submission \in Submissions
         /\ f.kind \in {"submit", "verdict"} <=> f.submission \in Submissions
<1>1. f \in Events
  BY DEF Typed
<1> QED
  BY <1>1, EventFacts DEF Event, WellFormed

(* What an event does to its session row.                                  *)
LEMMA SessionAfterFacts ==
  ASSUME NEW row \in SessionRow \cup {NoSession}, NEW e \in Event
  PROVE  LET after == SessionAfter(row, e)
         IN  /\ after \in SessionRow /\ after # NoSession
             /\ after.problem = IF row = NoSession THEN e.problem
                                ELSE row.problem
             /\ after.startedAt = IF row = NoSession \/ e.at < row.startedAt
                                  THEN e.at ELSE row.startedAt
             /\ after.endedAt =
                  IF e.kind = "end" /\ (row.endedAt = 0 \/ e.at < row.endedAt)
                  THEN e.at ELSE row.endedAt
<1>1. CASE row = NoSession
  BY <1>1, SessionAfterType DEF SessionAfter, NoSession
<1>2. CASE row # NoSession
  <2>1. SessionAfter(row, e)
          = [row EXCEPT !.startedAt = IF e.at < @ THEN e.at ELSE @,
                        !.endedAt = IF e.kind = "end" /\ (@ = 0 \/ e.at < @)
                                    THEN e.at ELSE @]
    BY <1>2 DEF SessionAfter
  <2> QED
    BY <1>2, <2>1, SessionAfterType DEF SessionRow
<1> QED
  BY <1>1, <1>2

(* What an event does to its attempt row.                                  *)
LEMMA AttemptAfterFacts ==
  ASSUME NEW row \in AttemptRow \cup {NoAttempt}, NEW e \in Event,
         AboutAttempt(e)
  PROVE  LET after == AttemptAfter(row, e)
         IN  /\ after \in AttemptRow /\ after # NoAttempt
             /\ after.session = IF row = NoAttempt THEN e.session
                                ELSE row.session
             /\ after.startedAt =
                  IF \/ row = NoAttempt
                     \/ e.kind = "submit" /\ e.at < row.startedAt
                  THEN e.at ELSE row.startedAt
             /\ e.kind = "submit" =>
                  /\ after.verdictEvent = row.verdictEvent
                  /\ after.endedAt = row.endedAt
                  /\ after.result = IF row = NoAttempt THEN "draft"
                                    ELSE row.result
             /\ e.kind = "verdict" /\ Newer(row, e) =>
                  /\ after.verdictEvent = e.id
                  /\ after.endedAt = e.at
                  /\ after.result = e.result
             /\ e.kind = "verdict" /\ ~Newer(row, e) => after = row
<1>1. AttemptAfter(row, e) \in AttemptRow /\ AttemptAfter(row, e) # NoAttempt
  BY AttemptAfterType
<1>2. e.kind \in {"submit", "verdict"}
  BY DEF AboutAttempt
<1>3. CASE row = NoAttempt /\ e.kind = "submit"
  <2>1. AttemptAfter(row, e) = Submitted(Opened(e), e)
    BY <1>3 DEF AttemptAfter
  <2>2. /\ Submitted(Opened(e), e).session = e.session
        /\ Submitted(Opened(e), e).startedAt = e.at
        /\ Submitted(Opened(e), e).verdictEvent = 0
        /\ Submitted(Opened(e), e).endedAt = 0
        /\ Submitted(Opened(e), e).result = "draft"
    BY DEF Submitted, Opened
  <2>3. /\ row.verdictEvent = 0 /\ row.endedAt = 0
    BY <1>3 DEF NoAttempt
  <2>4. /\ AttemptAfter(row, e).session = e.session
        /\ AttemptAfter(row, e).startedAt = e.at
        /\ AttemptAfter(row, e).verdictEvent = 0
        /\ AttemptAfter(row, e).endedAt = 0
        /\ AttemptAfter(row, e).result = "draft"
    BY <2>1, <2>2 DEF Opened
  <2> QED
    BY <1>1, <1>3, <2>3, <2>4
<1>4. CASE row = NoAttempt /\ e.kind = "verdict"
  <2>1. AttemptAfter(row, e) = Judged(Opened(e), e)
    BY <1>4 DEF AttemptAfter
  <2>2. Newer(Opened(e), e) /\ Newer(row, e)
    BY <1>4 DEF Newer, Opened, NoAttempt
  <2>3. Judged(Opened(e), e)
          = [Opened(e) EXCEPT !.endedAt = e.at, !.result = e.result,
                              !.verdictEvent = e.id]
    BY <2>2 DEF Judged
  <2>4. /\ AttemptAfter(row, e).session = e.session
        /\ AttemptAfter(row, e).startedAt = e.at
        /\ AttemptAfter(row, e).verdictEvent = e.id
        /\ AttemptAfter(row, e).endedAt = e.at
        /\ AttemptAfter(row, e).result = e.result
    BY <2>1, <2>3 DEF Opened
  <2> QED
    BY <1>1, <1>4, <2>2, <2>4
<1>5. CASE row # NoAttempt /\ e.kind = "submit"
  <2>1. AttemptAfter(row, e) = Submitted(row, e)
    BY <1>5 DEF AttemptAfter
  <2> QED
    BY <1>1, <1>5, <2>1 DEF Submitted, AttemptRow, Event
<1>6. CASE row # NoAttempt /\ e.kind = "verdict"
  <2>1. AttemptAfter(row, e) = Judged(row, e)
    BY <1>6 DEF AttemptAfter
  <2> QED
    BY <1>1, <1>6, <2>1 DEF Judged, AttemptRow, Event
<1> QED
  BY <1>2, <1>3, <1>4, <1>5, <1>6

(* An old event keeps a row that its new sibling may have changed.         *)
LEMMA LinkedStep ==
  ASSUME NEW d, Typed(d), Linked(d), NEW e \in Events,
         ~Refused(d, e), ~Known(d, e)
  PROVE  Linked(Stored(d, e))
<1> DEFINE after == Stored(d, e)
<1>1. e \in Event /\ e.session \in Sessions
      /\ (AboutAttempt(e) => e.submission \in Submissions)
  BY EventFacts DEF Event
<1>2. /\ d.sessions[e.session] \in SessionRow \cup {NoSession}
      /\ AboutAttempt(e) =>
           d.attempts[e.submission] \in AttemptRow \cup {NoAttempt}
  BY <1>1 DEF Typed
<1>3. /\ after.sessions[e.session] # NoSession
      /\ after.sessions[e.session].problem = e.problem
  <2>1. after.sessions[e.session] = SessionAfter(d.sessions[e.session], e)
    BY StoredFacts
  <2>2. \/ d.sessions[e.session] = NoSession
        \/ d.sessions[e.session].problem = e.problem
    BY NewEvent DEF OtherProblem
  <2> DEFINE row == d.sessions[e.session]
  <2>3. /\ SessionAfter(row, e) # NoSession
        /\ SessionAfter(row, e).problem =
             IF row = NoSession THEN e.problem ELSE row.problem
    BY <1>1, <1>2, SessionAfterFacts
  <2> QED
    BY <2>1, <2>2, <2>3
<1>4. AboutAttempt(e) =>
        /\ after.attempts[e.submission] # NoAttempt
        /\ after.attempts[e.submission].session = e.session
  <2> SUFFICES ASSUME AboutAttempt(e)
               PROVE  /\ after.attempts[e.submission] # NoAttempt
                      /\ after.attempts[e.submission].session = e.session
    OBVIOUS
  <2>1. after.attempts[e.submission] = AttemptAfter(d.attempts[e.submission], e)
    BY StoredFacts
  <2>2. \/ d.attempts[e.submission] = NoAttempt
        \/ d.attempts[e.submission].session = e.session
    BY NewEvent DEF LinkedElsewhere
  <2> QED
    BY <1>1, <1>2, <2>1, <2>2, AttemptAfterFacts
<1>5. ASSUME NEW f \in d.ledger
      PROVE  /\ after.sessions[f.session] # NoSession
             /\ after.sessions[f.session].problem = f.problem
  <2>1. CASE f.session = e.session
    BY <1>1, <1>2, <1>3, <2>1, StoredFacts, SessionAfterFacts DEF Linked
  <2>2. CASE f.session # e.session
    BY <2>2, StoredFacts, LedgerFacts DEF Linked
  <2> QED
    BY <2>1, <2>2
<1>6. ASSUME NEW f \in d.ledger, AboutAttempt(f)
      PROVE  /\ after.attempts[f.submission] # NoAttempt
             /\ after.attempts[f.submission].session = f.session
  <2>1. /\ f.submission \in Submissions
        /\ d.attempts[f.submission] # NoAttempt
        /\ d.attempts[f.submission].session = f.session
    BY <1>6, LedgerFacts DEF Linked
  <2>2. CASE AboutAttempt(e) /\ f.submission = e.submission
    BY <1>1, <1>2, <1>4, <2>1, <2>2, StoredFacts, AttemptAfterFacts
  <2>3. CASE ~AboutAttempt(e) \/ f.submission # e.submission
    BY <2>1, <2>3, StoredFacts
  <2> QED
    BY <2>2, <2>3
<1> QED
  BY <1>3, <1>4, <1>5, <1>6, StoredFacts DEF Linked

(* The earliest event of a session, whenever it arrives, is its start.     *)
LEMMA SessionStartsStep ==
  ASSUME NEW d, Typed(d), Linked(d), SessionStarts(d), NEW e \in Events,
         ~Refused(d, e), ~Known(d, e)
  PROVE  SessionStarts(Stored(d, e))
<1> DEFINE after == Stored(d, e)
<1> SUFFICES ASSUME NEW s \in Sessions
             PROVE  /\ after.sessions[s] # NoSession =>
                         \E f \in after.ledger :
                           f.session = s /\ after.sessions[s].startedAt = f.at
                    /\ \A f \in after.ledger :
                         f.session = s => after.sessions[s].startedAt <= f.at
  BY DEF SessionStarts
<1>1. e \in Event /\ e.at \in Nat \ {0} /\ e.session \in Sessions
  BY EventFacts DEF Event
<1>2. d.sessions[s] \in SessionRow \cup {NoSession}
  BY DEF Typed
<1>3. \A f \in d.ledger : f.at \in Nat
  BY LedgerFacts
<1>4. after.ledger = d.ledger \cup {e}
  BY StoredFacts
<1>5. CASE s # e.session
  BY <1>4, <1>5, StoredFacts DEF SessionStarts
<1>6. CASE s = e.session
  <2>1. after.sessions[s].startedAt =
          IF d.sessions[s] = NoSession \/ e.at < d.sessions[s].startedAt
          THEN e.at ELSE d.sessions[s].startedAt
    BY <1>1, <1>2, <1>6, StoredFacts, SessionAfterFacts
  <2>2. CASE d.sessions[s] = NoSession
    BY <1>1, <1>4, <1>6, <2>1, <2>2 DEF Linked
  <2>3. CASE d.sessions[s] # NoSession
    <3>1. d.sessions[s].startedAt \in Nat
      BY <1>2, <2>3 DEF SessionRow
    <3> QED
      BY <1>1, <1>3, <1>4, <1>6, <2>1, <2>3, <3>1 DEF SessionStarts
  <2> QED
    BY <2>2, <2>3
<1> QED
  BY <1>5, <1>6

(* The earliest end of a session, whenever it arrives, is its end.         *)
LEMMA SessionEndsStep ==
  ASSUME NEW d, Typed(d), SessionEnds(d), NEW e \in Events,
         ~Refused(d, e), ~Known(d, e)
  PROVE  SessionEnds(Stored(d, e))
<1> DEFINE after == Stored(d, e)
<1> SUFFICES ASSUME NEW s \in Sessions
             PROVE  /\ after.sessions[s].endedAt # 0 =>
                         \E f \in after.ledger :
                           /\ f.session = s /\ f.kind = "end"
                           /\ after.sessions[s].endedAt = f.at
                    /\ \A f \in after.ledger :
                         f.session = s /\ f.kind = "end" =>
                           /\ after.sessions[s].endedAt # 0
                           /\ after.sessions[s].endedAt <= f.at
  BY DEF SessionEnds
<1>1. e \in Event /\ e.at \in Nat \ {0} /\ e.session \in Sessions
  BY EventFacts DEF Event
<1>2. d.sessions[s] \in SessionRow \cup {NoSession}
      /\ d.sessions[s].endedAt \in Nat
  BY DEF Typed, SessionRow, NoSession
<1>3. \A f \in d.ledger : f.at \in Nat
  BY LedgerFacts
<1>4. after.ledger = d.ledger \cup {e}
  BY StoredFacts
<1>5. CASE s # e.session
  BY <1>4, <1>5, StoredFacts DEF SessionEnds
<1>6. CASE s = e.session
  <2>1. after.sessions[s].endedAt =
          IF e.kind = "end" /\ (d.sessions[s].endedAt = 0
                                \/ e.at < d.sessions[s].endedAt)
          THEN e.at ELSE d.sessions[s].endedAt
    BY <1>1, <1>2, <1>6, StoredFacts, SessionAfterFacts
  <2> QED
    BY <1>1, <1>2, <1>3, <1>4, <1>6, <2>1 DEF SessionEnds
<1> QED
  BY <1>5, <1>6

(* A late submission with an earlier time moves the attempt's start back.  *)
LEMMA AttemptStartsStep ==
  ASSUME NEW d, Typed(d), Linked(d), AttemptStarts(d), NEW e \in Events,
         ~Refused(d, e), ~Known(d, e)
  PROVE  AttemptStarts(Stored(d, e))
<1> DEFINE after == Stored(d, e)
<1> SUFFICES ASSUME NEW x \in Submissions
             PROVE  /\ after.attempts[x] # NoAttempt =>
                         \E f \in after.ledger :
                           f.submission = x /\ after.attempts[x].startedAt = f.at
                    /\ \A f \in after.ledger :
                         f.submission = x /\ f.kind = "submit" =>
                           after.attempts[x].startedAt <= f.at
  BY DEF AttemptStarts
<1>1. /\ e \in Event /\ e.at \in Nat \ {0}
      /\ AboutAttempt(e) <=> e.submission \in Submissions
  BY EventFacts DEF Event
<1>2. d.attempts[x] \in AttemptRow \cup {NoAttempt}
  BY DEF Typed
<1>3. \A f \in d.ledger : f.at \in Nat
  BY LedgerFacts
<1>4. after.ledger = d.ledger \cup {e}
  BY StoredFacts
<1>5. CASE x # e.submission
  BY <1>4, <1>5, StoredFacts DEF AttemptStarts
<1>6. CASE x = e.submission
  <2>1. after.attempts[x].startedAt =
          IF \/ d.attempts[x] = NoAttempt
             \/ e.kind = "submit" /\ e.at < d.attempts[x].startedAt
          THEN e.at ELSE d.attempts[x].startedAt
    <3>1. AboutAttempt(e) /\ after.attempts[x] = AttemptAfter(d.attempts[x], e)
      BY <1>1, <1>6, StoredFacts
    <3> QED
      BY <1>1, <1>2, <3>1, AttemptAfterFacts
  <2>2. CASE d.attempts[x] = NoAttempt
    <3>1. \A f \in d.ledger : f.submission # x
      BY <2>2, LedgerFacts DEF Linked
    <3>2. after.attempts[x].startedAt = e.at
      BY <2>1, <2>2
    <3>3. \A f \in after.ledger : f.submission = x => f = e
      BY <1>4, <3>1
    <3> QED
      BY <1>1, <1>4, <1>6, <3>2, <3>3
  <2>3. CASE d.attempts[x] # NoAttempt
    <3>1. d.attempts[x].startedAt \in Nat
      BY <1>2, <2>3 DEF AttemptRow
    <3> QED
      BY <1>1, <1>3, <1>4, <1>6, <2>1, <2>3, <3>1 DEF AttemptStarts
  <2> QED
    BY <2>2, <2>3
<1> QED
  BY <1>5, <1>6

(* The newest verdict, whenever it arrives, is the one the row shows.      *)
LEMMA AttemptVerdictsStep ==
  ASSUME NEW d, Typed(d), Linked(d), AttemptVerdicts(d), NEW e \in Events,
         ~Refused(d, e), ~Known(d, e)
  PROVE  AttemptVerdicts(Stored(d, e))
<1> DEFINE after == Stored(d, e)
           Shows(t, x) ==
             /\ t.attempts[x].verdictEvent = 0 =>
                  t.attempts[x].result \in {"none", "draft"}
             /\ t.attempts[x].verdictEvent # 0 =>
                  \E v \in t.ledger : /\ IsVerdict(t, x, v)
                                      /\ v.id = t.attempts[x].verdictEvent
                                      /\ v.at = t.attempts[x].endedAt
                                      /\ v.result = t.attempts[x].result
           Newest(t, x) ==
             \A w \in t.ledger :
               IsVerdict(t, x, w) =>
                 /\ t.attempts[x].verdictEvent # 0
                 /\ \/ w.at < t.attempts[x].endedAt
                    \/ /\ w.at = t.attempts[x].endedAt
                       /\ w.id <= t.attempts[x].verdictEvent
<1>a. ASSUME NEW t
      PROVE  AttemptVerdicts(t) <=>
               \A x \in Submissions : Shows(t, x) /\ Newest(t, x)
  BY DEF AttemptVerdicts
<1> SUFFICES ASSUME NEW x \in Submissions
             PROVE  Shows(after, x) /\ Newest(after, x)
  BY <1>a
<1>0. Shows(d, x) /\ Newest(d, x)
  BY <1>a
<1>1. /\ e \in Event /\ e.at \in Nat \ {0} /\ e.id \in Nat \ {0}
      /\ AboutAttempt(e) <=> e.submission \in Submissions
  BY EventFacts DEF Event
<1>2. /\ d.attempts[x] \in AttemptRow \cup {NoAttempt}
      /\ d.attempts[x].endedAt \in Nat /\ d.attempts[x].verdictEvent \in Nat
  BY DEF Typed, AttemptRow, NoAttempt
<1>3. \A f \in d.ledger : f.at \in Nat /\ f.id \in Nat
  BY LedgerFacts
<1>4. after.ledger = d.ledger \cup {e}
  BY StoredFacts
<1>5. CASE /\ after.attempts[x] = d.attempts[x]
           /\ ~(e.submission = x /\ e.kind = "verdict")
  <2>1. \A v : IsVerdict(after, x, v) <=> IsVerdict(d, x, v)
    BY <1>4, <1>5 DEF IsVerdict
  <2> HIDE DEF after
  <2>2. Shows(after, x)
    BY <1>0, <1>4, <1>5, <2>1
  <2>3. Newest(after, x)
    BY <1>0, <1>4, <1>5, <2>1 DEF IsVerdict
  <2> QED
    BY <2>2, <2>3
<1>6. CASE x # e.submission
  BY <1>5, <1>6, StoredFacts
<1>7. CASE x = e.submission
  <2>1. AboutAttempt(e) /\ after.attempts[x] = AttemptAfter(d.attempts[x], e)
    BY <1>1, <1>7, StoredFacts
  <2>2. CASE e.kind = "submit"
    <3>1. /\ after.attempts[x].verdictEvent = d.attempts[x].verdictEvent
          /\ after.attempts[x].endedAt = d.attempts[x].endedAt
          /\ after.attempts[x].result = IF d.attempts[x] = NoAttempt
                                       THEN "draft" ELSE d.attempts[x].result
      BY <1>1, <1>2, <2>1, <2>2, AttemptAfterFacts
    <3>2. \A v : IsVerdict(after, x, v) <=> IsVerdict(d, x, v)
      BY <1>4, <2>2 DEF IsVerdict
    <3>3. d.attempts[x] = NoAttempt => d.attempts[x].verdictEvent = 0
      BY DEF NoAttempt
    <3> HIDE DEF after
    <3>4. Shows(after, x)
      BY <1>0, <1>4, <3>1, <3>2, <3>3
    <3>5. Newest(after, x)
      BY <1>0, <1>4, <3>1, <3>2 DEF IsVerdict
    <3> QED
      BY <3>4, <3>5
  <2>3. CASE e.kind = "verdict" /\ Newer(d.attempts[x], e)
    <3>1. /\ after.attempts[x].verdictEvent = e.id
          /\ after.attempts[x].endedAt = e.at
          /\ after.attempts[x].result = e.result
      BY <1>1, <1>2, <2>1, <2>3, AttemptAfterFacts
    <3>2. IsVerdict(after, x, e)
      BY <1>4, <1>7, <2>3 DEF IsVerdict
    <3>3. \A w \in d.ledger : IsVerdict(after, x, w) => IsVerdict(d, x, w)
      BY DEF IsVerdict
    <3>4. \A w \in d.ledger : IsVerdict(d, x, w) =>
            w.at < e.at \/ (w.at = e.at /\ w.id <= e.id)
      BY <1>0, <1>1, <1>2, <1>3, <2>3 DEF Newer
    <3> HIDE DEF after
    <3>5. Shows(after, x)
      BY <1>1, <1>4, <3>1, <3>2
    <3>6. Newest(after, x)
      BY <1>1, <1>4, <3>1, <3>3, <3>4
    <3> QED
      BY <3>5, <3>6
  <2>4. CASE e.kind = "verdict" /\ ~Newer(d.attempts[x], e)
    <3>1. after.attempts[x] = d.attempts[x]
      BY <1>1, <1>2, <2>1, <2>4, AttemptAfterFacts
    <3>2. /\ d.attempts[x].verdictEvent # 0
          /\ \/ e.at < d.attempts[x].endedAt
             \/ /\ e.at = d.attempts[x].endedAt
                /\ e.id <= d.attempts[x].verdictEvent
      BY <1>1, <1>2, <2>4 DEF Newer
    <3>3. \A w \in d.ledger : IsVerdict(after, x, w) <=> IsVerdict(d, x, w)
      BY <1>4 DEF IsVerdict
    <3> HIDE DEF after
    <3>4. Shows(after, x)
      BY <1>0, <1>4, <3>1, <3>2, <3>3
    <3>5. Newest(after, x)
      BY <1>0, <1>4, <3>1, <3>2, <3>3
    <3> QED
      BY <3>4, <3>5
  <2> QED
    BY <1>1, <2>1, <2>2, <2>3, <2>4 DEF AboutAttempt
<1> QED
  BY <1>6, <1>7

(* An event that is not refused leaves good tables good.                   *)
LEMMA GoodStep ==
  ASSUME NEW d, Good(d), NEW e \in Events, ~Refused(d, e)
  PROVE  Good(Stored(d, e))
<1>1. CASE Known(d, e)
  BY <1>1 DEF Stored
<1>2. CASE ~Known(d, e)
  BY <1>2, StoredFacts, ValidStep, UniqueIdsStep, LinkedStep,
     SessionStartsStep, SessionEndsStep, AttemptStartsStep,
     AttemptVerdictsStep DEF Good
<1> QED
  BY <1>1, <1>2

(* The ledger after an event, new or known.                                *)
LEMMA StoredLedger ==
  ASSUME NEW d, NEW e
  PROVE  Stored(d, e).ledger = d.ledger \cup {e}
BY DEF Stored, Known
-----------------------------------------------------------------------------
(* A bundle that is not refused takes the tables through five good stages  *)
(* and adds exactly its own events.                                        *)
LEMMA StagesFacts ==
  ASSUME NEW d, Good(d), NEW b \in Bundles, ~BundleRefused(d, b)
  PROVE  /\ \A i \in 1 .. 5 : Good(Stages(d, b)[i])
         /\ \A i \in 1 .. 4 : /\ ~Refused(Stages(d, b)[i], b[i])
                              /\ Stages(d, b)[i + 1]
                                   = Stored(Stages(d, b)[i], b[i])
         /\ Stages(d, b)[1] = d
         /\ Stages(d, b)[5].ledger = d.ledger \cup {b[i] : i \in 1 .. 4}
<1> DEFINE S == Stages(d, b)
<1>1. /\ S[1] = d
      /\ S[2] = Stored(S[1], b[1]) /\ S[3] = Stored(S[2], b[2])
      /\ S[4] = Stored(S[3], b[3]) /\ S[5] = Stored(S[4], b[4])
  BY DEF Stages
<1>2. /\ ~Refused(S[1], b[1]) /\ ~Refused(S[2], b[2])
      /\ ~Refused(S[3], b[3]) /\ ~Refused(S[4], b[4])
  BY DEF BundleRefused
<1>3. b[1] \in Events /\ b[2] \in Events /\ b[3] \in Events /\ b[4] \in Events
  BY BundleEvents
<1> HIDE DEF S
<1>4. Good(S[1])
  BY <1>1
<1>5. Good(S[2])
  BY <1>1, <1>2, <1>3, <1>4, GoodStep
<1>6. Good(S[3])
  BY <1>1, <1>2, <1>3, <1>5, GoodStep
<1>7. Good(S[4])
  BY <1>1, <1>2, <1>3, <1>6, GoodStep
<1>8. Good(S[5])
  BY <1>1, <1>2, <1>3, <1>7, GoodStep
<1>9. S[5].ledger = d.ledger \cup {b[1], b[2], b[3], b[4]}
  BY <1>1, StoredLedger
<1>10. {b[1], b[2], b[3], b[4]} = {b[i] : i \in 1 .. 4}
  OBVIOUS
<1>11. \A i \in 1 .. 5 : Good(S[i])
  BY <1>4, <1>5, <1>6, <1>7, <1>8
<1>12. \A i \in 1 .. 4 : ~Refused(S[i], b[i]) /\ S[i + 1] = Stored(S[i], b[i])
  BY <1>1, <1>2
<1> QED
  BY <1>1, <1>9, <1>10, <1>11, <1>12 DEF S

(* The invariant holds of the empty tables.                                *)
LEMMA InitInv == Init => IInv
<1> SUFFICES ASSUME Init PROVE IInv
  OBVIOUS
<1>1. /\ db.ledger = {}
      /\ \A s \in Sessions : db.sessions[s] = NoSession
      /\ \A x \in Submissions : db.attempts[x] = NoAttempt
      /\ Typed(db)
  BY DEF Init, Typed
<1>2. /\ \A s \in Sessions : db.sessions[s].endedAt = 0
      /\ \A x \in Submissions : /\ db.attempts[x].endedAt = 0
                                /\ db.attempts[x].verdictEvent = 0
                                /\ db.attempts[x].result = "none"
  BY <1>1 DEF NoSession, NoAttempt
<1>3. Good(db)
  BY <1>1, <1>2 DEF Good, Valid, Invalid, UniqueIds, Linked, SessionStarts,
     SessionEnds, AttemptStarts, AttemptVerdicts
<1> QED
  BY <1>1, <1>3 DEF Init, IInv, AckedKnown, WholeBundles

(* One event in one request keeps the invariant.                           *)
LEMMA PostEventInv ==
  ASSUME IInv, NEW e \in Singles, PostEvent(e)
  PROVE  IInv'
<1>1. CASE Refused(db, e)
  BY <1>1 DEF PostEvent, IInv, AckedKnown, WholeBundles
<1>2. CASE ~Refused(db, e)
  <2>1. db' = Stored(db, e) /\ acked' = acked
    BY <1>2 DEF PostEvent
  <2>2. e \in Events
    BY DEF Events
  <2>3. Good(db')
    BY <1>2, <2>1, <2>2, GoodStep DEF IInv
  <2>4. db'.ledger = db.ledger \cup {e}
    BY <2>1, StoredLedger
  <2>5. WholeBundles'
    BY <2>4 DEF IInv, WholeBundles
  <2>6. AckedKnown' /\ acked' \subseteq Bundles
    BY <2>1, <2>4 DEF IInv, AckedKnown
  <2> QED
    BY <2>3, <2>5, <2>6 DEF IInv
<1> QED
  BY <1>1, <1>2

(* A bundle keeps the invariant, whole or not at all.                      *)
LEMMA PostBundleInv ==
  ASSUME IInv, NEW b \in Bundles, PostBundle(b)
  PROVE  IInv'
<1>1. CASE BundleRefused(db, b)
  BY <1>1 DEF PostBundle, vars, IInv, AckedKnown, WholeBundles
<1>2. CASE ~BundleRefused(db, b)
  <2>1. db' = Stages(db, b)[5] /\ acked' = acked \cup {b}
    BY <1>2 DEF PostBundle
  <2>2. Good(db') /\ db'.ledger = db.ledger \cup {b[i] : i \in 1 .. 4}
    <3>1. /\ \A i \in 1 .. 5 : Good(Stages(db, b)[i])
          /\ Stages(db, b)[5].ledger = db.ledger \cup {b[i] : i \in 1 .. 4}
      BY <1>2, StagesFacts DEF IInv
    <3> QED
      BY <2>1, <3>1
  <2>3. WholeBundles'
    BY <2>2 DEF IInv, WholeBundles
  <2>4. AckedKnown' /\ acked' \subseteq Bundles
    BY <2>1, <2>2 DEF IInv, AckedKnown
  <2> QED
    BY <2>2, <2>3, <2>4 DEF IInv
<1> QED
  BY <1>1, <1>2

(* Every request keeps the invariant.                                      *)
LEMMA NextInv == IInv /\ [Next]_vars => IInv'
<1> SUFFICES ASSUME IInv, [Next]_vars PROVE IInv'
  OBVIOUS
<1>1. CASE UNCHANGED vars
  BY <1>1 DEF vars, IInv, AckedKnown, WholeBundles
<1>2. CASE Next
  BY <1>2, PostEventInv, PostBundleInv DEF Next
<1> QED
  BY <1>1, <1>2

(* The tables are good in every reachable state, acknowledged bundles are  *)
(* stored, and no bundle is stored in part.                                *)
THEOREM Invariance == Spec => []IInv
<1> QED
  BY InitInv, NextInv, PTL DEF Spec
-----------------------------------------------------------------------------
(* The rows always have their type and every attempt row passes the schema *)
(* it is read back with (TrainingAttemptSchema), whatever arrives.         *)
THEOREM TypeCorrect == Spec => []TypeOK
<1>1. IInv => TypeOK
  <2> SUFFICES ASSUME IInv PROVE TypeOK
    OBVIOUS
  <2>1. Typed(db) /\ Valid(db) /\ acked \subseteq Bundles
    BY DEF IInv, Good
  <2>2. ASSUME NEW x \in Submissions, db.attempts[x].endedAt # 0
        PROVE  db.attempts[x].startedAt <= db.attempts[x].endedAt
    <3>1. db.attempts[x] \in AttemptRow \cup {NoAttempt}
      BY <2>1 DEF Typed
    <3>2. /\ db.attempts[x].startedAt \in Nat
          /\ db.attempts[x].endedAt \in Nat
      BY <3>1 DEF AttemptRow, NoAttempt
    <3> QED
      BY <2>1, <2>2, <3>2 DEF Valid, Invalid
  <2> QED
    BY <2>1, <2>2 DEF TypeOK, Typed
<1> QED
  BY <1>1, Invariance, PTL

(* A bundle is written whole: POST /api/capture/attempts commits its four  *)
(* events or none.                                                         *)
THEOREM Atomicity == Spec => []WholeBundles
<1>1. IInv => WholeBundles
  BY DEF IInv
<1> QED
  BY <1>1, Invariance, PTL

(* No choice of ids by clients makes the ledger link a submission to two   *)
(* sessions, or a session to two problems.                                 *)
THEOREM Linkage == Spec => []OneLink
<1>1. IInv => OneLink
  <2> SUFFICES ASSUME IInv, NEW e \in db.ledger, NEW f \in db.ledger
               PROVE  /\ e.session = f.session => e.problem = f.problem
                      /\ AboutAttempt(e) /\ e.submission = f.submission
                           => e.session = f.session
    BY DEF OneLink
  <2>1. Typed(db) /\ Linked(db)
    BY DEF IInv, Good
  <2>2. e.session = f.session => e.problem = f.problem
    BY <2>1 DEF Linked
  <2>3. ASSUME AboutAttempt(e), e.submission = f.submission
        PROVE  e.session = f.session
    <3>1. AboutAttempt(f)
      BY <2>1, <2>3, LedgerFacts
    <3> QED
      BY <2>1, <2>3, <3>1 DEF Linked
  <2> QED
    BY <2>2, <2>3
<1> QED
  BY <1>1, Invariance, PTL

(* A bundle whose answer was lost may be sent again at any later time: the *)
(* ledger knows its four events, so it is accepted and changes nothing.    *)
THEOREM Replays == Spec => []AckedReplays
<1>1. IInv => AckedReplays
  <2> SUFFICES ASSUME IInv, NEW b \in acked
               PROVE  ~BundleRefused(db, b) /\ Stages(db, b)[5] = db
    BY DEF AckedReplays
  <2>1. /\ Known(db, b[1]) /\ Known(db, b[2])
        /\ Known(db, b[3]) /\ Known(db, b[4])
    BY DEF IInv, AckedKnown, Known
  <2>2. /\ Stored(db, b[1]) = db /\ Stored(db, b[2]) = db
        /\ Stored(db, b[3]) = db /\ Stored(db, b[4]) = db
    BY <2>1 DEF Stored
  <2>3. Stages(db, b) = <<db, db, db, db, db>>
    BY <2>2 DEF Stages
  <2>4. \A i \in 1 .. 4 : Stages(db, b)[i] = db /\ ~Refused(db, b[i])
    BY <2>1, <2>3 DEF Refused
  <2> QED
    BY <2>3, <2>4 DEF BundleRefused
<1> QED
  BY <1>1, Invariance, PTL
-----------------------------------------------------------------------------
(* Session rows follow the ledger.                                         *)
LEMMA SessionsFromGood == Good(db) => SessionsFollow
<1> SUFFICES ASSUME Good(db), NEW s \in Sessions
             PROVE
               LET row  == db.sessions[s]
                   ends == {e \in Of(s) : e.kind = "end"}
               IN  /\ (row = NoSession) <=> (Of(s) = {})
                   /\ \A e \in EarliestOf(Of(s)) : row.startedAt = e.at
                   /\ (row.endedAt = 0) <=> (ends = {})
                   /\ \A e \in EarliestOf(ends) : row.endedAt = e.at
  BY DEF SessionsFollow
<1> DEFINE row  == db.sessions[s]
           ends == {e \in Of(s) : e.kind = "end"}
<1>1. /\ Typed(db) /\ Linked(db) /\ SessionStarts(db) /\ SessionEnds(db)
      /\ \A e \in db.ledger : e.at \in Nat \ {0}
  BY LedgerFacts DEF Good
<1>2. row \in SessionRow \cup {NoSession}
  BY <1>1 DEF Typed
<1>3. row.startedAt \in Nat /\ row.endedAt \in Nat
  BY <1>2 DEF SessionRow, NoSession
<1>4. (row = NoSession) <=> (Of(s) = {})
  BY <1>1 DEF Of, Linked, SessionStarts
<1>5. ASSUME NEW e \in EarliestOf(Of(s))
      PROVE  row.startedAt = e.at
  <2>1. e \in db.ledger /\ e.session = s /\ row # NoSession
    BY <1>4, <1>5 DEF EarliestOf, Of
  <2>2. PICK f \in db.ledger : f.session = s /\ row.startedAt = f.at
    BY <1>1, <2>1 DEF SessionStarts
  <2>3. e.at <= f.at /\ row.startedAt <= e.at
    BY <1>1, <1>5, <2>1, <2>2 DEF EarliestOf, Of, SessionStarts
  <2> QED
    BY <1>1, <1>3, <2>1, <2>2, <2>3
<1>6. (row.endedAt = 0) <=> (ends = {})
  BY <1>1 DEF Of, SessionEnds
<1>7. ASSUME NEW e \in EarliestOf(ends)
      PROVE  row.endedAt = e.at
  <2>1. /\ e \in db.ledger /\ e.session = s /\ e.kind = "end"
        /\ row.endedAt # 0 /\ row.endedAt <= e.at
    BY <1>1, <1>7 DEF EarliestOf, Of, SessionEnds
  <2>2. PICK f \in db.ledger : /\ f.session = s /\ f.kind = "end"
                               /\ row.endedAt = f.at
    BY <1>1, <2>1 DEF SessionEnds
  <2>3. e.at <= f.at
    BY <1>7, <2>2 DEF EarliestOf, Of
  <2> QED
    BY <1>1, <1>3, <2>1, <2>2, <2>3
<1> QED
  BY <1>4, <1>5, <1>6, <1>7

(* The verdict an attempt row shows is the newest stored one.              *)
LEMMA VerdictsFromGood == Good(db) => VerdictsFollow
<1> SUFFICES ASSUME Good(db), NEW x \in Submissions
             PROVE
               LET row == db.attempts[x]
                   given == About(x, "verdict")
               IN  /\ (row.result \in {"none", "draft"}) <=> (given = {})
                   /\ \A v \in given :
                        (\A w \in given : \/ w.at < v.at
                                         \/ (w.at = v.at /\ w.id <= v.id))
                          => /\ row.verdictEvent = v.id
                             /\ row.endedAt = v.at
                             /\ row.result = v.result
  BY DEF VerdictsFollow
<1> DEFINE row == db.attempts[x]
           given == About(x, "verdict")
<1>1. /\ Typed(db) /\ UniqueIds(db)
      /\ \A e \in db.ledger : /\ e.at \in Nat /\ e.id \in Nat
                              /\ e.result \in Verdicts
  BY LedgerFacts DEF Good, Event
<1>2. \A v \in db.ledger : v \in given <=> IsVerdict(db, x, v)
  BY DEF About, IsVerdict
<1>3. row.verdictEvent = 0 => row.result \in {"none", "draft"}
  BY DEF Good, AttemptVerdicts
<1>4. row.verdictEvent # 0 =>
        \E v \in given : /\ v.id = row.verdictEvent /\ v.at = row.endedAt
                         /\ v.result = row.result
  BY <1>2 DEF Good, AttemptVerdicts
<1>5. \A w \in given :
        /\ row.verdictEvent # 0
        /\ \/ w.at < row.endedAt
           \/ w.at = row.endedAt /\ w.id <= row.verdictEvent
  BY <1>2 DEF Good, AttemptVerdicts, About
<1>6. given \subseteq db.ledger
  BY DEF About
<1> HIDE DEF row, given
<1>7. (row.result \in {"none", "draft"}) <=> (given = {})
  BY <1>1, <1>3, <1>4, <1>5, <1>6, IngestAssumption
<1>8. ASSUME NEW v \in given,
             \A w \in given : w.at < v.at \/ (w.at = v.at /\ w.id <= v.id)
      PROVE  /\ row.verdictEvent = v.id
             /\ row.endedAt = v.at
             /\ row.result = v.result
  <2>1. PICK u \in given : /\ u.id = row.verdictEvent /\ u.at = row.endedAt
                           /\ u.result = row.result
    BY <1>4, <1>5
  <2>2. /\ u.at < v.at \/ (u.at = v.at /\ u.id <= v.id)
        /\ v.at < u.at \/ (v.at = u.at /\ v.id <= u.id)
    BY <1>5, <1>8, <2>1
  <2>3. u.at = v.at /\ u.id = v.id
    BY <1>1, <1>6, <2>2
  <2>4. u = v
    BY <1>1, <1>6, <2>3 DEF UniqueIds
  <2> QED
    BY <2>1, <2>4
<1> QED
  BY <1>7, <1>8 DEF row, given

(* An attempt starts at its earliest submission, unless a verdict is older.*)
LEMMA StartsFromGood == Good(db) => StartsFollow
<1> SUFFICES ASSUME Good(db), NEW x \in Submissions,
                    \A e \in About(x, "submit"), v \in About(x, "verdict") :
                      e.at <= v.at,
                    NEW e \in EarliestOf(About(x, "submit"))
             PROVE  db.attempts[x].startedAt = e.at
  BY DEF StartsFollow
<1>1. Typed(db) /\ Linked(db) /\ AttemptStarts(db)
  BY DEF Good
<1>2. e \in db.ledger /\ e.submission = x /\ e.kind = "submit"
  BY DEF EarliestOf, About
<1>3. db.attempts[x] # NoAttempt /\ db.attempts[x].startedAt <= e.at
  BY <1>1, <1>2 DEF Linked, AboutAttempt, AttemptStarts
<1>4. PICK f \in db.ledger :
        f.submission = x /\ db.attempts[x].startedAt = f.at
  BY <1>1, <1>3 DEF AttemptStarts
<1>5. f.kind \in {"submit", "verdict"}
  BY <1>1, <1>4, LedgerFacts
<1>6. e.at \in Nat /\ f.at \in Nat /\ e.at <= f.at
  <2>1. e.at \in Nat /\ f.at \in Nat
    BY <1>1, <1>2, <1>4, LedgerFacts
  <2>2. e.at <= f.at
    <3>1. CASE f.kind = "submit"
      BY <1>4, <3>1 DEF EarliestOf, About
    <3>2. CASE f.kind = "verdict"
      BY <1>2, <1>4, <3>2 DEF About
    <3> QED
      BY <1>5, <3>1, <3>2
  <2> QED
    BY <2>1, <2>2
<1> QED
  BY <1>3, <1>4, <1>6

(* The rows are a projection of the set of stored events: the order in     *)
(* which requests arrive, and how often, leaves no trace in them.          *)
THEOREM Projection == Spec => []RowsFollowLedger
<1>1. IInv => RowsFollowLedger
  BY SessionsFromGood, VerdictsFromGood, StartsFromGood
     DEF IInv, RowsFollowLedger
<1> QED
  BY <1>1, Invariance, PTL
-----------------------------------------------------------------------------
(* A start event that was refused stays refused after any stored event:    *)
(* the reused id stays used, the session keeps its problem, and its end    *)
(* can only move back.                                                     *)
LEMMA RefusedStep ==
  ASSUME NEW d, Good(d), NEW e \in Events, e.kind = "start", Refused(d, e),
         NEW f \in Events, ~Refused(d, f)
  PROVE  Refused(Stored(d, f), e)
<1> DEFINE after == Stored(d, f)
<1>1. CASE Known(d, f)
  BY <1>1 DEF Stored
<1>2. CASE ~Known(d, f)
  <2>1. Typed(d) /\ e \in Event /\ f \in Event /\ f.at \in Nat \ {0}
        /\ e.at \in Nat /\ e.session \in Sessions
    BY EventFacts DEF Good, Event
  <2>2. e # f /\ ~Known(after, e)
    BY StoredLedger DEF Refused, Known
  <2>3. d.sessions[e.session] \in SessionRow \cup {NoSession}
    BY <2>1 DEF Typed
  <2>4. ~AboutAttempt(e)
    BY DEF AboutAttempt
  <2>5. CASE \E k \in d.ledger : k.id = e.id /\ k # e
    BY <2>2, <2>5, StoredLedger DEF Refused
  <2>6. ASSUME d.sessions[e.session] # NoSession
        PROVE  /\ after.sessions[e.session] # NoSession
               /\ after.sessions[e.session].problem
                    = d.sessions[e.session].problem
               /\ d.sessions[e.session].endedAt # 0 =>
                    /\ after.sessions[e.session].endedAt # 0
                    /\ after.sessions[e.session].endedAt
                         <= d.sessions[e.session].endedAt
               /\ after.sessions[e.session].endedAt \in Nat
               /\ d.sessions[e.session].endedAt \in Nat
    <3>1. d.sessions[e.session].endedAt \in Nat
      BY <2>3, <2>6 DEF SessionRow
    <3>2. CASE f.session = e.session
      <4>1. after.sessions[e.session]
              = SessionAfter(d.sessions[e.session], f)
        BY <1>2, <2>1, <3>2, StoredFacts
      <4> DEFINE row == d.sessions[e.session]
      <4>2. /\ SessionAfter(row, f) # NoSession
            /\ SessionAfter(row, f).problem = row.problem
            /\ SessionAfter(row, f).endedAt =
                 IF f.kind = "end" /\ (row.endedAt = 0 \/ f.at < row.endedAt)
                 THEN f.at ELSE row.endedAt
        BY <2>1, <2>3, <2>6, SessionAfterFacts
      <4> QED
        BY <2>1, <3>1, <4>1, <4>2
    <3>3. CASE f.session # e.session
      BY <1>2, <2>1, <2>6, <3>1, <3>3, StoredFacts
    <3> QED
      BY <3>2, <3>3
  <2>7. CASE OtherProblem(d.sessions[e.session], e)
    BY <2>2, <2>6, <2>7 DEF Refused, OtherProblem
  <2>8. CASE Restarts(d.sessions[e.session], e)
    <3>1. Restarts(after.sessions[e.session], e)
      BY <2>1, <2>6, <2>8 DEF Restarts
    <3> QED
      BY <2>2, <3>1 DEF Refused
  <2> QED
    BY <2>4, <2>5, <2>7, <2>8 DEF Refused
<1> QED
  BY <1>1, <1>2

(* The same for a request, of one event or of a bundle.                    *)
LEMMA RefusedNext ==
  ASSUME IInv, [Next]_vars, NEW b \in Bundles, Refused(db, b[1])
  PROVE  Refused(db', b[1])
<1>1. b[1] \in Events /\ b[1].kind = "start"
  BY BundleEvents, IngestAssumption DEF BundleShape
<1>2. CASE db' = db
  BY <1>2
<1>3. ASSUME NEW f \in Singles, ~Refused(db, f), db' = Stored(db, f)
      PROVE  Refused(db', b[1])
  BY <1>1, <1>3, RefusedStep DEF IInv, Events
<1>4. ASSUME NEW c \in Bundles, ~BundleRefused(db, c),
             db' = Stages(db, c)[5]
      PROVE  Refused(db', b[1])
  <2> DEFINE S == Stages(db, c)
  <2>1. /\ \A i \in 1 .. 5 : Good(S[i])
        /\ \A i \in 1 .. 4 : ~Refused(S[i], c[i]) /\ S[i + 1] = Stored(S[i], c[i])
        /\ S[1] = db
    BY <1>4, StagesFacts DEF IInv
  <2>2. \A i \in 1 .. 4 : c[i] \in Events
    BY BundleEvents
  <2> HIDE DEF S
  <2>3. ASSUME NEW i \in 1 .. 4, Refused(S[i], b[1])
        PROVE  Refused(S[i + 1], b[1])
    <3>1. i \in 1 .. 5
      OBVIOUS
    <3> QED
      BY <1>1, <2>1, <2>2, <2>3, <3>1, RefusedStep
  <2>4. Refused(S[2], b[1])
    BY <2>1, <2>3
  <2>5. Refused(S[3], b[1])
    BY <2>3, <2>4
  <2>6. Refused(S[4], b[1])
    BY <2>3, <2>5
  <2>7. Refused(S[5], b[1])
    BY <2>3, <2>6
  <2> QED
    BY <1>4, <2>7 DEF S
<1> QED
  BY <1>2, <1>3, <1>4 DEF Next, PostEvent, PostBundle, vars

(* The outbox never repeats a refused bundle by itself, rightly: once its  *)
(* start is refused, no later request makes it acceptable.                 *)
THEOREM Finality == Spec => RefusalIsFinal
<1>1. IInv /\ [Next]_vars =>
        [\A b \in Bundles : Refused(db, b[1]) => Refused(db', b[1])]_vars
  BY RefusedNext
<1> QED
  BY <1>1, Invariance, PTL DEF Spec, RefusalIsFinal
=============================================================================
