---------------------------- MODULE CaptureIngest ----------------------------
(***************************************************************************)
(* The platform's side of capture: raw events enter an append-only ledger  *)
(* and are projected, in the same SQLite transaction, onto one session row *)
(* and one attempt row (lib/services/captureMaterializer.ts,               *)
(* captureTransition.ts, captureAttemptBundle.ts).                         *)
(*                                                                         *)
(* Two routes write: POST /api/capture/events takes one event, POST        *)
(* /api/capture/attempts takes a bundle of four that commits or rolls back *)
(* as one.  Requests arrive in any order, late, and any number of times.   *)
(* Times and event ids are numbers, because the code only compares them;   *)
(* "problem" stands for installation, platform and problem id together.    *)
(***************************************************************************)
EXTENDS Naturals

CONSTANTS
  Sessions,      \* capture session ids
  Submissions,   \* external submission ids
  Problems,      \* installation, platform and problem of an event
  Verdicts,      \* attempt results a final verdict maps to
  Singles,       \* events some client posts on their own
  Bundles        \* bundles some client posts

NoSubmission == "no submission"

Event == [id : Nat \ {0}, kind : {"start", "submit", "verdict", "end"},
          session : Sessions, submission : Submissions \cup {NoSubmission},
          problem : Problems, at : Nat \ {0}, result : Verdicts]

(* An event names a submission exactly if its kind is about one.           *)
WellFormed(e) ==
  e.kind \in {"submit", "verdict"} <=> e.submission \in Submissions

(* CaptureAttemptBundleSchema: four kinds in order, one identity, one      *)
(* submission, no step back in time.                                       *)
BundleShape(b) ==
  /\ b \in [1 .. 4 -> Event]
  /\ b[1].kind = "start" /\ b[2].kind = "submit"
  /\ b[3].kind = "verdict" /\ b[4].kind = "end"
  /\ \A i \in 1 .. 4 : /\ WellFormed(b[i])
                       /\ b[i].session = b[1].session
                       /\ b[i].problem = b[1].problem
  /\ b[2].submission = b[3].submission
  /\ b[1].at <= b[2].at /\ b[2].at <= b[3].at /\ b[3].at <= b[4].at

ASSUME IngestAssumption ==
  /\ NoSubmission \notin Submissions
  /\ {"none", "draft"} \cap Verdicts = {}
  /\ Singles \subseteq {e \in Event : WellFormed(e)}
  /\ \A b \in Bundles : BundleShape(b)

VARIABLES
  db,            \* the three capture tables
  acked          \* history: bundles that were answered with ok

vars == <<db, acked>>

(* Zero stands for an absent time or event id.                             *)
NoSession == [problem |-> "none", startedAt |-> 0, endedAt |-> 0]

NoAttempt == [session |-> "none", problem |-> "none", startedAt |-> 0,
              endedAt |-> 0, result |-> "none", submitEvent |-> 0,
              verdictEvent |-> 0]

Init ==
  /\ db = [ledger   |-> {},
           sessions |-> [s \in Sessions |-> NoSession],
           attempts |-> [x \in Submissions |-> NoAttempt]]
  /\ acked = {}
-----------------------------------------------------------------------------
(* The session row.                                                        *)

(* Mutant of SessionAfter: the end that arrives last wins.                 *)
LastEndWins(row, e) ==
  IF row = NoSession
  THEN [problem |-> e.problem, startedAt |-> e.at,
        endedAt |-> IF e.kind = "end" THEN e.at ELSE 0]
  ELSE [row EXCEPT !.startedAt = IF e.at < @ THEN e.at ELSE @,
                   !.endedAt = IF e.kind = "end" THEN e.at ELSE @]

(* The earliest start and the earliest end win, whatever arrives first.    *)
SessionAfter(row, e) ==
  IF row = NoSession
  THEN [problem |-> e.problem, startedAt |-> e.at,
        endedAt |-> IF e.kind = "end" THEN e.at ELSE 0]
  ELSE [row EXCEPT !.startedAt = IF e.at < @ THEN e.at ELSE @,
                   !.endedAt = IF e.kind = "end" /\ (@ = 0 \/ e.at < @)
                               THEN e.at ELSE @]

OtherProblem(row, e) == row # NoSession /\ row.problem # e.problem

Restarts(row, e) ==
  row # NoSession /\ e.kind = "start" /\ row.endedAt # 0 /\ e.at > row.endedAt
-----------------------------------------------------------------------------
(* The attempt row.                                                        *)

(* Mutant of Newer: the verdict that arrives last wins.                    *)
ArrivesLast(row, e) == e.id # row.verdictEvent

Newer(row, e) ==
  \/ row.verdictEvent = 0
  \/ e.at > row.endedAt
  \/ e.at = row.endedAt /\ e.id > row.verdictEvent

Opened(e) ==
  [session |-> e.session, problem |-> e.problem, startedAt |-> e.at,
   endedAt |-> 0, result |-> "draft", submitEvent |-> 0, verdictEvent |-> 0]

Submitted(row, e) ==
  [row EXCEPT !.startedAt = IF e.at < @ THEN e.at ELSE @,
              !.submitEvent = IF @ = 0 \/ e.at < row.startedAt
                              THEN e.id ELSE @]

Judged(row, e) ==
  IF Newer(row, e)
  THEN [row EXCEPT !.endedAt = e.at, !.result = e.result,
                   !.verdictEvent = e.id]
  ELSE row

AttemptAfter(row, e) ==
  LET current == IF row = NoAttempt THEN Opened(e) ELSE row
  IN  IF e.kind = "submit" THEN Submitted(current, e) ELSE Judged(current, e)

(* Mutant of LinkedElsewhere: a submission may change its session.         *)
OnlyProblemChecked(row, e) == row # NoAttempt /\ row.problem # e.problem

LinkedElsewhere(row, e) ==
  row # NoAttempt /\ (row.session # e.session \/ row.problem # e.problem)

(* The first event of a submission must not come after the session's end.  *)
AfterEnd(row, session, e) ==
  row = NoAttempt /\ session.endedAt # 0 /\ e.at > session.endedAt

(* Mutant of Invalid: rows are saved without the schema's time check.      *)
NeverInvalid(row) == FALSE

(* TrainingAttemptSchema refuses the row; the request ends with 500.       *)
Invalid(row) == row.endedAt # 0 /\ row.endedAt < row.startedAt
-----------------------------------------------------------------------------
(* One event in one transaction.                                           *)

AboutAttempt(e) == e.kind \in {"submit", "verdict"}

(* Mutant of Known: the ledger is not asked for a replay first.            *)
NeverKnown(d, e) == FALSE

Known(d, e) == e \in d.ledger

Refused(d, e) ==
  /\ ~Known(d, e)
  /\ \/ \E k \in d.ledger : k.id = e.id /\ k # e
     \/ OtherProblem(d.sessions[e.session], e)
     \/ Restarts(d.sessions[e.session], e)
     \/ /\ AboutAttempt(e)
        /\ LET row == d.attempts[e.submission]
           IN  \/ AfterEnd(row, SessionAfter(d.sessions[e.session], e), e)
               \/ LinkedElsewhere(row, e)
               \/ Invalid(AttemptAfter(row, e))

Stored(d, e) ==
  IF Known(d, e) THEN d
  ELSE [ledger   |-> d.ledger \cup {e},
        sessions |-> [d.sessions EXCEPT ![e.session] = SessionAfter(@, e)],
        attempts |-> IF AboutAttempt(e)
                     THEN [d.attempts EXCEPT ![e.submission] =
                             AttemptAfter(@, e)]
                     ELSE d.attempts]

(* The tables before each event of a bundle and after its last.            *)
Stages(d, b) ==
  LET d1 == Stored(d, b[1])
      d2 == Stored(d1, b[2])
      d3 == Stored(d2, b[3])
  IN  <<d, d1, d2, d3, Stored(d3, b[4])>>

BundleRefused(d, b) == \E i \in 1 .. 4 : Refused(Stages(d, b)[i], b[i])
-----------------------------------------------------------------------------
(* POST /api/capture/events                                                *)
PostEvent(e) ==
  /\ db' = IF Refused(db, e) THEN db ELSE Stored(db, e)
  /\ UNCHANGED acked

(* Mutant of PostBundle: the events before the refused one stay.           *)
PostInPieces(b) ==
  LET refused == {i \in 1 .. 4 : Refused(Stages(db, b)[i], b[i])}
  IN  IF refused = {}
      THEN db' = Stages(db, b)[5] /\ acked' = acked \cup {b}
      ELSE /\ \E i \in refused : /\ \A j \in refused : i <= j
                                 /\ db' = Stages(db, b)[i]
           /\ UNCHANGED acked

(* POST /api/capture/attempts                                              *)
PostBundle(b) ==
  IF BundleRefused(db, b)
  THEN UNCHANGED vars
  ELSE db' = Stages(db, b)[5] /\ acked' = acked \cup {b}

Next == (\E e \in Singles : PostEvent(e)) \/ (\E b \in Bundles : PostBundle(b))

Spec == Init /\ [][Next]_vars
-----------------------------------------------------------------------------
Events == Singles \cup UNION {{b[i] : i \in 1 .. 4} : b \in Bundles}

Of(s) == {e \in db.ledger : e.session = s}
About(x, kind) == {e \in db.ledger : e.submission = x /\ e.kind = kind}
EarliestOf(S) == {e \in S : \A f \in S : e.at <= f.at}

SessionRow == [problem : Problems, startedAt : Nat \ {0}, endedAt : Nat]

AttemptRow == [session : Sessions, problem : Problems, startedAt : Nat \ {0},
               endedAt : Nat, result : Verdicts \cup {"draft"},
               submitEvent : Nat, verdictEvent : Nat]

(* Type invariant: what the tables hold, and that every attempt row passes *)
(* the schema with which it will be read back.                             *)
TypeOK ==
  /\ db \in [ledger   : SUBSET Events,
             sessions : [Sessions -> SessionRow \cup {NoSession}],
             attempts : [Submissions -> AttemptRow \cup {NoAttempt}]]
  /\ acked \subseteq Bundles
  /\ \A x \in Submissions :
       LET row == db.attempts[x]
       IN  row.endedAt # 0 => row.startedAt <= row.endedAt

(* The rows are a projection of the ledger, in whatever order its events   *)
(* came: a session starts at its first event and ends at its earliest end; *)
(* an attempt carries the verdict that is newest by time and then by id;   *)
(* it starts at its earliest submission when no verdict precedes one.      *)
SessionsFollow ==
  \A s \in Sessions :
    LET row  == db.sessions[s]
        ends == {e \in Of(s) : e.kind = "end"}
    IN  /\ (row = NoSession) <=> (Of(s) = {})
        /\ \A e \in EarliestOf(Of(s)) : row.startedAt = e.at
        /\ (row.endedAt = 0) <=> (ends = {})
        /\ \A e \in EarliestOf(ends) : row.endedAt = e.at

VerdictsFollow ==
  \A x \in Submissions :
    LET row == db.attempts[x]
        given == About(x, "verdict")
    IN  /\ (row.result \in {"none", "draft"}) <=> (given = {})
        /\ \A v \in given :
             (\A w \in given : w.at < v.at \/ (w.at = v.at /\ w.id <= v.id))
               => /\ row.verdictEvent = v.id
                  /\ row.endedAt = v.at
                  /\ row.result = v.result

StartsFollow ==
  \A x \in Submissions :
    (\A e \in About(x, "submit"), v \in About(x, "verdict") : e.at <= v.at)
      => \A e \in EarliestOf(About(x, "submit")) :
           db.attempts[x].startedAt = e.at

RowsFollowLedger == SessionsFollow /\ VerdictsFollow /\ StartsFollow

(* A bundle is written whole: an event that only bundles carry is in the   *)
(* ledger together with all the others of a bundle that carries it.        *)
WholeBundles ==
  \A e \in db.ledger \ Singles :
    \E b \in Bundles : /\ e \in {b[i] : i \in 1 .. 4}
                       /\ {b[i] : i \in 1 .. 4} \subseteq db.ledger

(* The ledger never links a submission to two sessions or a session to two *)
(* problems, although clients choose all the ids.                          *)
OneLink ==
  \A e, f \in db.ledger :
    /\ e.session = f.session => e.problem = f.problem
    /\ AboutAttempt(e) /\ e.submission = f.submission => e.session = f.session

(* A bundle that was answered with ok can be sent again at any later time  *)
(* (its answer may have been lost): the answer is ok and nothing changes,  *)
(* whatever other events have done to its session since.                   *)
AckedReplays ==
  \A b \in acked : ~BundleRefused(db, b) /\ Stages(db, b)[5] = db

(* The outbox isolates a bundle at its first 409 and never repeats it by   *)
(* itself.  That is right for a session that may not restart: once the     *)
(* start of a bundle is refused, no later event makes it acceptable.       *)
RefusalIsFinal ==
  [][\A b \in Bundles : Refused(db, b[1]) => Refused(db', b[1])]_vars

(* docs/architecture.md:255, "multiple submissions remain distinct within  *)
(* one session": a bundle with ids of its own, for the problem of its      *)
(* session and a submission of no other session, can be stored.            *)
Distinct(b) ==
  /\ \A k \in db.ledger, i \in 1 .. 4 : k.id = b[i].id => k = b[i]
  /\ \A k \in Of(b[1].session) : k.problem = b[1].problem
  /\ \A k \in db.ledger : k.submission = b[2].submission
                            => k.session = b[2].session

SubmissionsShareSession ==
  \A b \in Bundles : Distinct(b) => ~BundleRefused(db, b)
=============================================================================
