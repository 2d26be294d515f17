--------------------------- MODULE AttemptEvidence ---------------------------
(***************************************************************************)
(* What follows from an attempt: a learning-evidence event per revision, a *)
(* summary per classifier input and open reviews, kept in step with an     *)
(* attempt that is captured, delivered again, corrected and voided         *)
(* (lib/services/attemptEvidence.ts, attemptCorrections.ts, the routes     *)
(* app/api/attempts/[id] and app/api/attempts/[id]/void).                  *)
(*                                                                         *)
(* A captured bundle writes all of it in one transaction.  A correction    *)
(* and a void commit first and write the rest after an await, in later     *)
(* transactions: other requests come between, and the process may die.     *)
(***************************************************************************)
EXTENDS Naturals, FiniteSets

CONSTANTS
  Attempts,      \* attempts of one capture session, each on a mapped problem
  Results,       \* results an attempt can have
  MaxRevision    \* bound: revisions corrections give each attempt

ASSUME EvidenceAssumption ==
  /\ IsFiniteSet(Attempts)
  /\ MaxRevision \in [Attempts -> Nat \ {0}]
  /\ {"none", "voided"} \cap Results = {}

VARIABLES
  rows,          \* training_attempts: revision, result, voided
  tables,        \* evidence events, summaries, summaries with an open review
  todo,          \* requests that have committed but not followed up
  cut,           \* history: attempts whose follow-up was lost
  voidAnswered   \* history: attempts whose void request was answered ok

vars == <<rows, tables, todo, cut, voidAnswered>>

NoRow == [revision |-> 0, result |-> "none", voided |-> FALSE]

Active(r, a) == r[a].revision > 0 /\ ~r[a].voided

SubmissionCount(r) == Cardinality({a \in Attempts : Active(r, a)})

(* A summary stands for its classifier input: two summaries differ exactly *)
(* if their input fingerprints do.                                         *)
Summary(r, a, sequence) ==
  [attempt |-> a, result |-> r[a].result, count |-> SubmissionCount(r),
   sequence |-> sequence]

Fact(r, a) == [attempt |-> a, revision |-> r[a].revision,
               fact |-> IF r[a].voided THEN "voided" ELSE r[a].result]

Init ==
  /\ rows = [a \in Attempts |-> NoRow]
  /\ tables = [evidence |-> {}, summaries |-> {}, open |-> {}]
  /\ todo = {} /\ cut = {} /\ voidAnswered = {}
-----------------------------------------------------------------------------
(* Mutant of HasFact: the idempotency key lacks the revision.              *)
HasAnyFact(r, a) == \E e \in tables.evidence : e.attempt = a

HasFact(r, a) ==
  \E e \in tables.evidence : e.attempt = a /\ e.revision = r[a].revision

(* Mutant of WithEvidence: reviews of older summaries stay open.           *)
WithoutCancel(r, a, sequence) ==
  LET summary == Summary(r, a, sequence)
  IN  [evidence  |-> IF HasFact(r, a) THEN tables.evidence
                     ELSE tables.evidence \cup {Fact(r, a)},
       summaries |-> tables.summaries \cup {summary},
       open      |-> tables.open \cup {summary}]

(* replayAttemptEvidence of an active attempt: only a new event cancels    *)
(* the open reviews of the attempt's other summaries; a summary without an *)
(* open review always gets one.                                            *)
WithEvidence(r, a, sequence) ==
  LET summary == Summary(r, a, sequence)
  IN  [evidence  |-> IF HasFact(r, a) THEN tables.evidence
                     ELSE tables.evidence \cup {Fact(r, a)},
       summaries |-> tables.summaries \cup {summary},
       open      |-> {o \in tables.open : HasFact(r, a) \/ o.attempt # a}
                     \cup {summary}]

(* POST /api/capture/attempts, first time: attempt and evidence commit     *)
(* together.                                                               *)
Ingest(a, result) ==
  /\ rows[a] = NoRow
  /\ rows' = [rows EXCEPT ![a] = [revision |-> 1, result |-> result,
                                  voided |-> FALSE]]
  /\ tables' = WithEvidence(rows', a, TRUE)
  /\ UNCHANGED <<todo, cut, voidAnswered>>

(* Mutant of Redeliver: a voided attempt is replayed like any other.       *)
RedeliverAny(a) ==
  /\ rows[a] # NoRow
  /\ tables' = WithEvidence(rows, a, TRUE)
  /\ cut' = cut \ {a}
  /\ UNCHANGED <<rows, todo, voidAnswered>>

(* The same bundle again: the attempt row stays, its evidence is replayed; *)
(* a voided attempt makes the request fail and changes nothing.            *)
Redeliver(a) ==
  /\ Active(rows, a)
  /\ tables' = WithEvidence(rows, a, TRUE)
  /\ cut' = cut \ {a}
  /\ UNCHANGED <<rows, todo, voidAnswered>>

(* PATCH /api/attempts/:id commits a change of any field; a request with   *)
(* an older revision is refused and changes nothing.                       *)
Correct(a, result) ==
  /\ Active(rows, a)
  /\ rows[a].revision < MaxRevision[a]
  /\ rows' = [rows EXCEPT ![a].revision = @ + 1, ![a].result = result]
  /\ todo' = todo \cup {[attempt |-> a, revision |-> rows[a].revision + 1,
                         kind |-> "correct"]}
  /\ UNCHANGED <<tables, cut, voidAnswered>>

(* Its second half reads the row again, whatever happened in between; an   *)
(* attempt voided meanwhile makes it fail.                                 *)
CorrectFollowUp(t) ==
  /\ t.kind = "correct"
  /\ todo' = todo \ {t}
  /\ IF Active(rows, t.attempt)
     THEN /\ tables' = WithEvidence(rows, t.attempt, SubmissionCount(rows) > 1)
          /\ cut' = cut \ {t.attempt}
     ELSE UNCHANGED <<tables, cut>>
  /\ UNCHANGED <<rows, voidAnswered>>

(* POST /api/attempts/:id/void                                             *)
Void(a) ==
  /\ Active(rows, a)
  /\ rows' = [rows EXCEPT ![a].revision = @ + 1, ![a].voided = TRUE]
  /\ todo' = todo \cup {[attempt |-> a, revision |-> rows[a].revision + 1,
                         kind |-> "void"]}
  /\ UNCHANGED <<tables, cut, voidAnswered>>

(* Mutant of VoidFollowUp: the open reviews are forgotten.                 *)
VoidRecordsOnly(t) ==
  /\ t.kind = "void"
  /\ todo' = todo \ {t}
  /\ tables' = [tables EXCEPT !.evidence = @ \cup {Fact(rows, t.attempt)}]
  /\ voidAnswered' = voidAnswered \cup {t.attempt}
  /\ UNCHANGED <<rows, cut>>

VoidFollowUp(t) ==
  /\ t.kind = "void"
  /\ todo' = todo \ {t}
  /\ tables' = [tables EXCEPT
                  !.evidence = @ \cup {Fact(rows, t.attempt)},
                  !.open = {o \in @ : o.attempt # t.attempt}]
  /\ voidAnswered' = voidAnswered \cup {t.attempt}
  /\ UNCHANGED <<rows, cut>>

(* A void of a voided attempt is answered ok at once, without follow-up.   *)
RepeatVoid(a) ==
  /\ rows[a].voided
  /\ voidAnswered' = voidAnswered \cup {a}
  /\ UNCHANGED <<rows, tables, todo, cut>>

CompleteReview(summary) ==
  /\ summary \in tables.open
  /\ tables' = [tables EXCEPT !.open = @ \ {summary}]
  /\ UNCHANGED <<rows, todo, cut, voidAnswered>>

(* The server process dies; a void may have got as far as its event.       *)
Crash ==
  /\ todo # {}
  /\ todo' = {}
  /\ cut' = cut \cup {t.attempt : t \in todo}
  /\ \E recorded \in SUBSET {t \in todo : t.kind = "void"} :
       /\ Cardinality(recorded) <= 1
       /\ tables' = [tables EXCEPT
            !.evidence = @ \cup {Fact(rows, t.attempt) : t \in recorded}]
  /\ UNCHANGED <<rows, voidAnswered>>

Next ==
  \/ \E a \in Attempts, result \in Results : Ingest(a, result)
                                              \/ Correct(a, result)
  \/ \E a \in Attempts : Redeliver(a) \/ Void(a) \/ RepeatVoid(a)
  \/ \E t \in todo : CorrectFollowUp(t) \/ VoidFollowUp(t)
  \/ \E summary \in tables.open : CompleteReview(summary)
  \/ Crash

Spec == Init /\ [][Next]_vars
-----------------------------------------------------------------------------
Rows == {NoRow} \cup
  [revision : Nat \ {0}, result : Results, voided : BOOLEAN]

Evidence == [attempt : Attempts, revision : Nat \ {0},
             fact : Results \cup {"voided"}]

Summaries == [attempt : Attempts, result : Results,
              count : 1 .. Cardinality(Attempts), sequence : BOOLEAN]

(* Type invariant: the rows of the tables and the requests under way; an   *)
(* open review rests on a stored summary of a counted attempt.             *)
TypeOK ==
  /\ rows \in [Attempts -> Rows]
  /\ tables \in [evidence : SUBSET Evidence, summaries : SUBSET Summaries,
                 open : SUBSET tables.summaries]
  /\ todo \subseteq [attempt : Attempts, revision : Nat \ {0},
                     kind : {"correct", "void"}]
  /\ cut \subseteq Attempts
  /\ voidAnswered \subseteq Attempts

Settled(a) == a \notin cut /\ \A t \in todo : t.attempt # a

(* Once its requests are answered, an attempt has an evidence event for    *)
(* its current revision that states what the row states, however requests  *)
(* overlapped; a correction whose follow-up was lost is repaired by the    *)
(* next delivery or correction that gets through.                          *)
EvidenceCurrent ==
  \A a \in Attempts :
    rows[a] # NoRow /\ Settled(a) => Fact(rows, a) \in tables.evidence

(* A voided attempt asks for no review once its void has been followed up, *)
(* also when a correction or a delivery overlapped with it.                *)
NoReviewOfVoided ==
  \A a \in Attempts :
    rows[a].voided /\ Settled(a) => \A o \in tables.open : o.attempt # a

(* A review that is still open asks about the result the attempt has now,  *)
(* not about one that was corrected away.                                  *)
ReviewsFollowResult ==
  \A a \in Attempts :
    Active(rows, a) /\ Settled(a)
      => \A o \in tables.open : o.attempt = a => o.result = rows[a].result

(* README.md:140, "exact replay is idempotent": delivering the bundle of   *)
(* an attempt again leaves evidence, summaries and reviews as they are.    *)
ReplayIsIdempotent ==
  \A a \in Attempts :
    Active(rows, a) /\ Settled(a) => WithEvidence(rows, a, TRUE) = tables

(* docs/runbook.md:58, "repeating the same void request is safe": a void   *)
(* that was answered ok, at the first or at a later try, is complete.      *)
AnsweredVoidIsComplete ==
  \A a \in voidAnswered :
    (\A t \in todo : t.attempt # a) => \A o \in tables.open : o.attempt # a
=============================================================================
