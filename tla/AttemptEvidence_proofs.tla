------------------------- MODULE AttemptEvidence_proofs -------------------------
(***************************************************************************)
(* The evidence and the open reviews of an attempt agree with its row once *)
(* its requests are answered.  What makes this inductive: an attempt whose *)
(* evidence is not current has a request under way or a lost follow-up     *)
(* (ActiveBacked, VoidedBacked), and evidence of the current revision      *)
(* already states the row and left no review of another result (FactsTrue, *)
(* ReviewsTrue).                                                           *)
(***************************************************************************)
EXTENDS AttemptEvidence, TLAPS, FiniteSetTheorems

Pending(a, kind) == \E t \in todo : t.attempt = a /\ t.kind = kind

Recorded(a) == Fact(rows, a) \in tables.evidence

(* No event is of a revision to come, and one of the current revision      *)
(* states what the row states.                                             *)
FactsTrue ==
  \A e \in tables.evidence :
    /\ e.revision <= rows[e.attempt].revision
    /\ e.revision = rows[e.attempt].revision => e = Fact(rows, e.attempt)

(* Recording the current revision of an attempt cancelled the reviews of   *)
(* its other results.                                                      *)
ReviewsTrue ==
  \A a \in Attempts :
    Active(rows, a) /\ Recorded(a)
      => \A o \in tables.open : o.attempt = a => o.result = rows[a].result

ActiveBacked ==
  \A a \in Attempts :
    Active(rows, a) => Recorded(a) \/ a \in cut \/ Pending(a, "correct")

VoidedBacked ==
  \A a \in Attempts :
    rows[a].voided =>
      \/ Recorded(a) /\ \A o \in tables.open : o.attempt # a
      \/ a \in cut \/ Pending(a, "void")

VoidsAreOfVoided == \A t \in todo : t.kind = "void" => rows[t.attempt].voided

IInv ==
  /\ TypeOK /\ FactsTrue /\ ReviewsTrue /\ ActiveBacked /\ VoidedBacked
  /\ VoidsAreOfVoided
-----------------------------------------------------------------------------
LEMMA RowTypes ==
  ASSUME NEW row \in Rows
  PROVE  /\ row.revision \in Nat /\ row.voided \in BOOLEAN
         /\ row.revision > 0 => row.result \in Results
         /\ row.voided => row.revision > 0
         /\ row # NoRow => row.revision > 0
<1>1. CASE row = NoRow
  BY <1>1 DEF NoRow
<1>2. CASE row \in [revision : Nat \ {0}, result : Results, voided : BOOLEAN]
  BY <1>2
<1> QED
  BY <1>1, <1>2 DEF Rows

LEMMA FactType ==
  ASSUME NEW r \in [Attempts -> Rows], NEW a \in Attempts, r[a].revision > 0
  PROVE  Fact(r, a) \in Evidence
<1>1. /\ r[a].revision \in Nat \ {0}
      /\ (IF r[a].voided THEN "voided" ELSE r[a].result) \in Results \cup {"voided"}
  BY RowTypes
<1> QED
  BY <1>1 DEF Fact, Evidence

LEMMA SummaryType ==
  ASSUME NEW r \in [Attempts -> Rows], NEW a \in Attempts, Active(r, a),
         NEW sequence \in BOOLEAN
  PROVE  Summary(r, a, sequence) \in Summaries
<1> DEFINE C == {b \in Attempts : Active(r, b)}
<1>1. C \subseteq Attempts /\ a \in C /\ IsFiniteSet(Attempts)
  BY EvidenceAssumption
<1> HIDE DEF C
<1>2. IsFiniteSet(C) /\ C # {}
  BY <1>1, FS_Subset
<1>3. /\ Cardinality(C) \in Nat /\ Cardinality(C) # 0
      /\ Cardinality(C) <= Cardinality(Attempts) /\ Cardinality(Attempts) \in Nat
  BY <1>1, <1>2, FS_Subset, FS_EmptySet, FS_CardinalityType
<1>4. SubmissionCount(r) \in 1 .. Cardinality(Attempts)
  BY <1>3 DEF SubmissionCount, C
<1>5. r[a].result \in Results
  BY RowTypes DEF Active
<1> QED
  BY <1>4, <1>5 DEF Summary, Summaries

(* What a replay of an active attempt writes, given that its evidence and  *)
(* reviews are true.                                                       *)
LEMMA Replayed ==
  ASSUME TypeOK, NEW r \in [Attempts -> Rows], NEW a \in Attempts, Active(r, a),
         NEW sequence \in BOOLEAN,
         \A e \in tables.evidence :
           e.attempt = a /\ e.revision = r[a].revision => e = Fact(r, a),
         Fact(r, a) \in tables.evidence =>
           \A o \in tables.open : o.attempt = a => o.result = r[a].result,
         tables' = WithEvidence(r, a, sequence)
  PROVE  /\ tables' \in [evidence : SUBSET Evidence, summaries : SUBSET Summaries,
                         open : SUBSET tables'.summaries]
         /\ tables'.evidence = tables.evidence \cup {Fact(r, a)}
         /\ \A o \in tables'.open :
              IF o.attempt = a THEN o.result = r[a].result ELSE o \in tables.open
<1> DEFINE s == Summary(r, a, sequence)
           kept == {o \in tables.open : HasFact(r, a) \/ o.attempt # a}
           E == IF HasFact(r, a) THEN tables.evidence ELSE tables.evidence \cup {Fact(r, a)}
<1>1. s \in Summaries /\ s.attempt = a /\ s.result = r[a].result
  BY SummaryType DEF Summary
<1>2. HasFact(r, a) <=> Fact(r, a) \in tables.evidence
  BY DEF HasFact, Fact
<1>3. E = tables.evidence \cup {Fact(r, a)}
  BY <1>2
<1>4. Fact(r, a) \in Evidence
  BY FactType DEF Active
<1> HIDE DEF s
<1>5. tables' = [evidence |-> E, summaries |-> tables.summaries \cup {s}, open |-> kept \cup {s}]
  BY DEF WithEvidence, s
<1>6. \A o \in kept : IF o.attempt = a THEN o.result = r[a].result ELSE o \in tables.open
  BY <1>2
<1>7. /\ tables.evidence \subseteq Evidence /\ tables.summaries \subseteq Summaries
      /\ kept \subseteq tables.summaries
  BY DEF TypeOK
<1> HIDE DEF kept, E
<1>8. /\ tables'.evidence = E /\ tables'.summaries = tables.summaries \cup {s}
      /\ tables'.open = kept \cup {s}
  BY <1>5
<1>9. E \subseteq Evidence
  BY <1>3, <1>4, <1>7
<1>10. tables' \in [evidence : SUBSET Evidence, summaries : SUBSET Summaries,
                     open : SUBSET (tables.summaries \cup {s})]
  BY <1>1, <1>5, <1>7, <1>9
<1> QED
  BY <1>1, <1>3, <1>6, <1>8, <1>10

(* A replay of attempt a over rows r keeps the invariant: a's evidence is  *)
(* current, and its requests may count as answered.                        *)
LEMMA ReplayKeeps ==
  ASSUME IInv, NEW a \in Attempts, NEW sequence \in BOOLEAN,
         rows' \in [Attempts -> Rows], Active(rows', a),
         \A b \in Attempts \ {a} : rows'[b] = rows[b],
         rows'[a] = rows[a] \/ rows[a] = NoRow,
         tables' = WithEvidence(rows', a, sequence),
         todo' \subseteq todo, todo \ todo' \subseteq {t \in todo : t.attempt = a},
         cut' \in {cut, cut \ {a}}, voidAnswered' = voidAnswered
  PROVE  IInv'
<1> USE DEF IInv
<1>1. ASSUME NEW e \in tables.evidence
      PROVE  /\ e \in Evidence /\ e.attempt \in Attempts /\ e.revision \in Nat \ {0}
             /\ e.revision <= rows[e.attempt].revision
             /\ e.revision = rows[e.attempt].revision => e = Fact(rows, e.attempt)
             /\ rows[e.attempt] # NoRow
  <2>1. e \in Evidence
    BY DEF TypeOK
  <2>2. e.attempt \in Attempts /\ e.revision \in Nat \ {0}
    BY <2>1 DEF Evidence
  <2>3. rows[e.attempt] = NoRow => rows[e.attempt].revision = 0
    BY DEF NoRow
  <2> QED
    BY <2>1, <2>2, <2>3 DEF FactsTrue
<1>2. \A b \in Attempts : rows'[b] = rows[b] => Fact(rows', b) = Fact(rows, b)
  BY DEF Fact
<1>3. \A e \in tables.evidence : rows'[e.attempt] = rows[e.attempt]
  BY <1>1
<1>4. \A e \in tables.evidence :
        e.attempt = a /\ e.revision = rows'[a].revision => e = Fact(rows', a)
  BY <1>1, <1>2, <1>3
<1>5. Fact(rows', a) \in tables.evidence =>
        \A o \in tables.open : o.attempt = a => o.result = rows'[a].result
  <2>1. Fact(rows', a).attempt = a
    BY DEF Fact
  <2>2. Fact(rows', a) \in tables.evidence => rows'[a] = rows[a]
    BY <1>3, <2>1
  <2> QED
    BY <1>2, <2>2 DEF ReviewsTrue, Recorded, Active
<1>6. /\ tables' \in [evidence : SUBSET Evidence, summaries : SUBSET Summaries,
                      open : SUBSET tables'.summaries]
      /\ tables'.evidence = tables.evidence \cup {Fact(rows', a)}
      /\ \A o \in tables'.open :
           IF o.attempt = a THEN o.result = rows'[a].result ELSE o \in tables.open
  BY <1>4, <1>5, Replayed
<1>7. TypeOK'
  BY <1>6 DEF TypeOK
<1>8. FactsTrue'
  <2>1. ASSUME NEW e \in tables'.evidence
        PROVE  /\ e.revision <= rows'[e.attempt].revision
               /\ e.revision = rows'[e.attempt].revision => e = Fact(rows', e.attempt)
    <3>1. CASE e \in tables.evidence
      BY <1>1, <1>2, <1>3, <3>1
    <3>2. CASE e = Fact(rows', a)
      <4>1. e.attempt = a /\ e.revision = rows'[a].revision
        BY <3>2 DEF Fact
      <4>2. rows'[a].revision \in Nat
        BY RowTypes
      <4> QED
        BY <3>2, <4>1, <4>2
    <3> QED
      BY <1>6, <3>1, <3>2
  <2> QED
    BY <2>1 DEF FactsTrue
<1>9. \A b \in Attempts \ {a} : Fact(rows', b) = Fact(rows, b) /\ Fact(rows, b) # Fact(rows', a)
  BY DEF Fact
<1>10. /\ Recorded(a)'
       /\ \A b \in Attempts \ {a} : Recorded(b)' <=> Recorded(b)
  BY <1>6, <1>9 DEF Recorded
<1>11. ReviewsTrue'
  <2>1. ASSUME NEW b \in Attempts, Active(rows', b), Recorded(b)', NEW o \in tables'.open, o.attempt = b
        PROVE  o.result = rows'[b].result
    <3>1. CASE b = a
      BY <1>6, <2>1, <3>1
    <3>2. CASE b # a
      BY <1>6, <1>10, <2>1, <3>2 DEF ReviewsTrue, Active
    <3> QED
      BY <3>1, <3>2
  <2> QED
    BY <2>1 DEF ReviewsTrue
<1>12. \A b \in Attempts \ {a} : \A kind : Pending(b, kind) => Pending(b, kind)'
  BY DEF Pending
<1>13. ActiveBacked'
  BY <1>10, <1>12 DEF ActiveBacked, Active
<1>14. VoidedBacked'
  <2>1. ~rows'[a].voided
    BY DEF Active
  <2>2. \A b \in Attempts \ {a} : (\A o \in tables.open : o.attempt # b)
                                   => \A o \in tables'.open : o.attempt # b
    BY <1>6
  <2> QED
    BY <1>10, <1>12, <2>1, <2>2 DEF VoidedBacked
<1>15. VoidsAreOfVoided'
  <2>1. ASSUME NEW t \in todo', t.kind = "void"
        PROVE  rows'[t.attempt].voided
    <3>1. t \in todo /\ t.attempt \in Attempts /\ rows[t.attempt].voided
      BY <2>1 DEF TypeOK, VoidsAreOfVoided
    <3>2. t.attempt # a
      BY <3>1 DEF Active, NoRow
    <3> QED
      BY <3>1, <3>2
  <2> QED
    BY <2>1 DEF VoidsAreOfVoided
<1> QED
  BY <1>7, <1>8, <1>11, <1>13, <1>14, <1>15

(* A change of an active attempt's row is backed by the request itself.    *)
LEMMA ChangeKeeps ==
  ASSUME IInv, NEW a \in Attempts, NEW row \in Rows, Active(rows, a),
         rows' = [rows EXCEPT ![a] = row], row.revision = rows[a].revision + 1,
         NEW kind \in {"correct", "void"}, row.voided <=> kind = "void",
         todo' = todo \cup {[attempt |-> a, revision |-> row.revision, kind |-> kind]},
         UNCHANGED <<tables, cut, voidAnswered>>
  PROVE  IInv'
<1> USE DEF IInv
<1> DEFINE t == [attempt |-> a, revision |-> row.revision, kind |-> kind]
<1>1. /\ rows \in [Attempts -> Rows] /\ rows' \in [Attempts -> Rows] /\ rows'[a] = row
      /\ \A b \in Attempts \ {a} : rows'[b] = rows[b]
  BY DEF TypeOK
<1>2. rows[a].revision \in Nat /\ rows[a].revision > 0 /\ ~rows[a].voided
  BY <1>1, RowTypes DEF Active
<1>3. row.revision \in Nat \ {0}
  BY <1>2
<1>4. t \in [attempt : Attempts, revision : Nat \ {0}, kind : {"correct", "void"}]
  BY <1>3
<1>5. TypeOK'
  BY <1>1, <1>4 DEF TypeOK
<1>6. ASSUME NEW e \in tables.evidence
      PROVE  /\ e.attempt \in Attempts /\ e.revision \in Nat
             /\ e.revision <= rows[e.attempt].revision
             /\ e.revision = rows[e.attempt].revision => e = Fact(rows, e.attempt)
  <2>1. e \in Evidence
    BY DEF TypeOK
  <2> QED
    BY <2>1 DEF Evidence, FactsTrue
<1>7. \A b \in Attempts \ {a} : Fact(rows', b) = Fact(rows, b)
  BY <1>1 DEF Fact
<1>8. FactsTrue'
  <2>1. ASSUME NEW e \in tables.evidence
        PROVE  /\ e.revision <= rows'[e.attempt].revision
               /\ e.revision = rows'[e.attempt].revision => e = Fact(rows', e.attempt)
    <3>1. CASE e.attempt = a
      BY <1>1, <1>2, <1>6, <3>1
    <3>2. CASE e.attempt # a
      BY <1>1, <1>6, <1>7, <3>2
    <3> QED
      BY <3>1, <3>2
  <2> QED
    BY <2>1 DEF FactsTrue
<1>9. /\ ~Recorded(a)'
      /\ \A b \in Attempts \ {a} : Recorded(b)' <=> Recorded(b)
  <2>1. Fact(rows', a).attempt = a /\ Fact(rows', a).revision = rows[a].revision + 1
    BY <1>1 DEF Fact
  <2>2. Fact(rows', a) \notin tables.evidence
    BY <1>2, <1>6, <2>1
  <2> QED
    BY <1>7, <2>2 DEF Recorded
<1>10. ReviewsTrue'
  BY <1>1, <1>9 DEF ReviewsTrue, Active
<1>11. /\ \A b \in Attempts : \A k : Pending(b, k) => Pending(b, k)'
       /\ Pending(a, kind)'
  <2>1. t \in todo' /\ t.attempt = a /\ t.kind = kind
    OBVIOUS
  <2> HIDE DEF t
  <2> QED
    BY <2>1 DEF Pending
<1>12. ActiveBacked'
  BY <1>1, <1>9, <1>11 DEF ActiveBacked, Active
<1>13. VoidedBacked'
  <2>1. row.voided => Pending(a, "void")'
    BY <1>11
  <2> QED
    BY <1>1, <1>9, <1>11, <2>1 DEF VoidedBacked
<1>14. VoidsAreOfVoided'
  <2>1. \A u \in todo : u.kind = "void" => rows'[u.attempt].voided
    BY <1>1, <1>2 DEF VoidsAreOfVoided, TypeOK
  <2>2. t.kind = "void" => rows'[t.attempt].voided
    BY <1>1
  <2>3. todo' = todo \cup {t}
    OBVIOUS
  <2> HIDE DEF t
  <2> QED
    BY <2>1, <2>2, <2>3 DEF VoidsAreOfVoided
<1> QED
  BY <1>5, <1>8, <1>10, <1>12, <1>13, <1>14

(* Facts of voided attempts may be recorded, reviews may disappear, and a  *)
(* request may end, if those it leaves unfinished are backed.              *)
LEMMA ShrinkKeeps ==
  ASSUME IInv, NEW V \in SUBSET {a \in Attempts : rows[a].voided},
         UNCHANGED rows, todo' \subseteq todo, cut \subseteq cut', cut' \subseteq Attempts,
         voidAnswered' \subseteq Attempts,
         tables' \in [evidence : {tables.evidence \cup {Fact(rows, a) : a \in V}},
                     summaries : {tables.summaries}, open : SUBSET tables.open],
         \A t \in todo \ todo' :
           \/ t.attempt \in cut'
           \/ ~Active(rows, t.attempt) /\ t.kind = "correct"
           \/ /\ t.attempt \in V /\ t.kind = "void"
              /\ \A o \in tables'.open : o.attempt # t.attempt
  PROVE  IInv'
<1> USE DEF IInv
<1>1. /\ tables'.evidence = tables.evidence \cup {Fact(rows, a) : a \in V}
      /\ tables'.summaries = tables.summaries /\ tables'.open \subseteq tables.open
  OBVIOUS
<1>2. \A a \in V : rows[a].revision \in Nat /\ rows[a].revision > 0 /\ rows[a].voided
  BY RowTypes DEF TypeOK
<1>3. \A a \in V : Fact(rows, a) \in Evidence
  BY <1>2, FactType DEF TypeOK
<1>4. TypeOK'
  <2>1. tables'.evidence \in SUBSET Evidence /\ tables'.open \in SUBSET tables'.summaries
        /\ tables'.summaries \in SUBSET Summaries
    BY <1>1, <1>3 DEF TypeOK
  <2>2. tables' \in [evidence : SUBSET Evidence, summaries : SUBSET Summaries,
                     open : SUBSET tables'.summaries]
    BY <2>1
  <2> QED
    BY <2>2 DEF TypeOK
<1>5. \A a \in V : Fact(rows, a).attempt = a /\ Fact(rows, a).revision = rows[a].revision
  BY DEF Fact
<1>6. FactsTrue'
  <2>1. ASSUME NEW e \in tables'.evidence
        PROVE  /\ e.revision <= rows[e.attempt].revision
               /\ e.revision = rows[e.attempt].revision => e = Fact(rows, e.attempt)
    BY <1>1, <1>2, <1>5 DEF FactsTrue
  <2>2. \A a : Fact(rows', a) = Fact(rows, a)
    BY DEF Fact
  <2> QED
    BY <2>1, <2>2 DEF FactsTrue
<1>7. /\ \A a \in Attempts : Recorded(a) => Recorded(a)'
      /\ \A a \in V : Recorded(a)'
      /\ \A a \in Attempts : ~rows[a].voided => (Recorded(a)' <=> Recorded(a))
  <2>1. \A a : Fact(rows', a) = Fact(rows, a) /\ Fact(rows, a).attempt = a
    BY DEF Fact
  <2> QED
    BY <1>1, <1>2, <1>5, <2>1 DEF Recorded
<1>8. ReviewsTrue'
  BY <1>1, <1>7 DEF ReviewsTrue, Active
<1>9. ActiveBacked'
  <2>1. ASSUME NEW a \in Attempts, Active(rows, a), Pending(a, "correct"), a \notin cut'
        PROVE  Pending(a, "correct")'
    <3>1. PICK t \in todo : t.attempt = a /\ t.kind = "correct"
      BY <2>1 DEF Pending
    <3>2. t \in todo'
      BY <2>1, <3>1 DEF Active
    <3> QED
      BY <3>1, <3>2 DEF Pending
  <2> QED
    BY <1>7, <2>1 DEF ActiveBacked, Active
<1>10. VoidedBacked'
  <2>1. ASSUME NEW a \in Attempts, rows[a].voided, Pending(a, "void"), a \notin cut'
        PROVE  Pending(a, "void")' \/ (Recorded(a)' /\ \A o \in tables'.open : o.attempt # a)
    <3>1. PICK t \in todo : t.attempt = a /\ t.kind = "void"
      BY <2>1 DEF Pending
    <3>2. CASE t \in todo'
      BY <3>1, <3>2 DEF Pending
    <3>3. CASE t \notin todo'
      BY <1>7, <2>1, <3>1, <3>3
    <3> QED
      BY <3>2, <3>3
  <2> QED
    BY <1>1, <1>7, <2>1 DEF VoidedBacked
<1>11. VoidsAreOfVoided'
  BY DEF VoidsAreOfVoided
<1> QED
  BY <1>4, <1>6, <1>8, <1>9, <1>10, <1>11
-----------------------------------------------------------------------------
LEMMA InitInvariant == Init => IInv
<1> SUFFICES ASSUME Init PROVE IInv
  OBVIOUS
<1>1. TypeOK
  BY DEF Init, TypeOK, Rows
<1>2. FactsTrue /\ ReviewsTrue /\ VoidsAreOfVoided
  BY DEF Init, FactsTrue, ReviewsTrue, VoidsAreOfVoided
<1>3. ActiveBacked /\ VoidedBacked
  BY DEF Init, ActiveBacked, VoidedBacked, Active, NoRow
<1> QED
  BY <1>1, <1>2, <1>3 DEF IInv

LEMMA IngestKeeps ==
  ASSUME IInv, NEW a \in Attempts, NEW result \in Results, Ingest(a, result)
  PROVE  IInv'
<1> DEFINE row == [revision |-> 1, result |-> result, voided |-> FALSE]
<1>1. row \in Rows /\ row.revision > 0 /\ ~row.voided
  BY DEF Rows
<1> HIDE DEF row
<1>2. rows \in [Attempts -> Rows] /\ rows' = [rows EXCEPT ![a] = row] /\ rows[a] = NoRow
  BY DEF Ingest, IInv, TypeOK, row
<1>3. /\ rows' \in [Attempts -> Rows] /\ Active(rows', a)
      /\ \A b \in Attempts \ {a} : rows'[b] = rows[b]
  BY <1>1, <1>2 DEF Active
<1>4. /\ tables' = WithEvidence(rows', a, TRUE) /\ TRUE \in BOOLEAN
      /\ UNCHANGED <<todo, cut, voidAnswered>>
  BY DEF Ingest
<1> QED
  BY <1>2, <1>3, <1>4, ReplayKeeps

LEMMA RedeliverKeeps ==
  ASSUME IInv, NEW a \in Attempts, Redeliver(a)
  PROVE  IInv'
<1>1. rows' = rows /\ rows \in [Attempts -> Rows] /\ TRUE \in BOOLEAN
  BY DEF Redeliver, IInv, TypeOK
<1>2. /\ tables' = WithEvidence(rows', a, TRUE) /\ Active(rows', a)
      /\ todo' = todo /\ cut' = cut \ {a} /\ voidAnswered' = voidAnswered
  BY <1>1 DEF Redeliver
<1> QED
  BY <1>1, <1>2, ReplayKeeps

(* A row with its next revision, and one of its other columns, changed.    *)
LEMMA NextRow ==
  ASSUME NEW old \in [revision : Nat \ {0}, result : Results, voided : BOOLEAN],
         NEW result \in Results
  PROVE  LET corrected == [old EXCEPT !.revision = @ + 1, !.result = result]
             voided    == [old EXCEPT !.revision = @ + 1, !.voided = TRUE]
         IN  /\ corrected \in Rows /\ voided \in Rows
             /\ corrected.revision = old.revision + 1
             /\ corrected.voided = old.voided
             /\ voided.revision = old.revision + 1 /\ voided.voided = TRUE
<1> DEFINE corrected == [old EXCEPT !.revision = @ + 1, !.result = result]
           voided    == [old EXCEPT !.revision = @ + 1, !.voided = TRUE]
<1>1. /\ corrected \in [revision : Nat \ {0}, result : Results, voided : BOOLEAN]
      /\ voided \in [revision : Nat \ {0}, result : Results, voided : BOOLEAN]
  <2>1. old.revision + 1 \in Nat \ {0}
    OBVIOUS
  <2>2. corrected = [old EXCEPT !.revision = old.revision + 1, !.result = result]
    OBVIOUS
  <2>3. voided = [old EXCEPT !.revision = old.revision + 1, !.voided = TRUE]
    OBVIOUS
  <2> DEFINE next == old.revision + 1
  <2> HIDE DEF next
  <2>4. next \in Nat \ {0}
    BY <2>1 DEF next
  <2>5. /\ [old EXCEPT !.revision = next, !.result = result]
             \in [revision : Nat \ {0}, result : Results, voided : BOOLEAN]
        /\ [old EXCEPT !.revision = next, !.voided = TRUE]
             \in [revision : Nat \ {0}, result : Results, voided : BOOLEAN]
    BY <2>4
  <2> QED
    BY <2>2, <2>3, <2>5 DEF next
<1>2. /\ corrected.revision = old.revision + 1 /\ corrected.voided = old.voided
      /\ voided.revision = old.revision + 1 /\ voided.voided = TRUE
  OBVIOUS
<1> QED
  BY <1>1, <1>2 DEF Rows

LEMMA CorrectKeeps ==
  ASSUME IInv, NEW a \in Attempts, NEW result \in Results, Correct(a, result)
  PROVE  IInv'
<1> DEFINE old == rows[a]
           row == [old EXCEPT !.revision = @ + 1, !.result = result]
<1>1. rows \in [Attempts -> Rows] /\ old \in Rows /\ Active(rows, a)
  BY DEF Correct, IInv, TypeOK
<1>2. old.revision \in Nat /\ old.revision > 0 /\ old.voided = FALSE
  BY <1>1, RowTypes DEF Active
<1>3. old \in [revision : Nat \ {0}, result : Results, voided : BOOLEAN]
  BY <1>1, <1>2 DEF Rows, NoRow
<1>4. row \in Rows /\ row.revision = old.revision + 1 /\ row.voided = FALSE
  BY <1>2, <1>3, NextRow
<1>5. rows' = [rows EXCEPT ![a] = row]
  BY <1>1 DEF Correct
<1>6. /\ todo' = todo \cup {[attempt |-> a, revision |-> old.revision + 1, kind |-> "correct"]}
      /\ UNCHANGED <<tables, cut, voidAnswered>>
  BY DEF Correct
<1> HIDE DEF row
<1>7. /\ row.voided <=> "correct" = "void"
      /\ todo' = todo \cup {[attempt |-> a, revision |-> row.revision, kind |-> "correct"]}
  BY <1>4, <1>6
<1> QED
  BY <1>1, <1>4, <1>5, <1>6, <1>7, ChangeKeeps

LEMMA VoidKeeps ==
  ASSUME IInv, NEW a \in Attempts, Void(a)
  PROVE  IInv'
<1> DEFINE old == rows[a]
           row == [old EXCEPT !.revision = @ + 1, !.voided = TRUE]
<1>1. rows \in [Attempts -> Rows] /\ old \in Rows /\ Active(rows, a)
  BY DEF Void, IInv, TypeOK
<1>2. old.revision \in Nat /\ old.revision > 0
  BY <1>1, RowTypes DEF Active
<1>3. old \in [revision : Nat \ {0}, result : Results, voided : BOOLEAN]
  BY <1>1, <1>2 DEF Rows, NoRow
<1>4. old.result \in Results
  BY <1>3
<1>5. row \in Rows /\ row.revision = old.revision + 1 /\ row.voided = TRUE
  BY <1>3, <1>4, NextRow
<1>6. rows' = [rows EXCEPT ![a] = row]
  BY <1>1 DEF Void
<1>7. /\ todo' = todo \cup {[attempt |-> a, revision |-> old.revision + 1, kind |-> "void"]}
      /\ UNCHANGED <<tables, cut, voidAnswered>>
  BY DEF Void
<1> HIDE DEF row
<1>8. /\ row.voided <=> "void" = "void"
      /\ todo' = todo \cup {[attempt |-> a, revision |-> row.revision, kind |-> "void"]}
  BY <1>5, <1>7
<1> QED
  BY <1>1, <1>5, <1>6, <1>7, <1>8, ChangeKeeps

LEMMA CorrectFollowUpKeeps ==
  ASSUME IInv, NEW t \in todo, CorrectFollowUp(t)
  PROVE  IInv'
<1> DEFINE a == t.attempt
<1>1. /\ a \in Attempts /\ rows \in [Attempts -> Rows] /\ rows' = rows
      /\ todo' = todo \ {t} /\ voidAnswered' = voidAnswered /\ t.kind = "correct"
  BY DEF CorrectFollowUp, IInv, TypeOK
<1>2. CASE Active(rows, a)
  <2>1. /\ tables' = WithEvidence(rows, a, SubmissionCount(rows) > 1) /\ cut' = cut \ {a}
        /\ (SubmissionCount(rows) > 1) \in BOOLEAN
    BY <1>2 DEF CorrectFollowUp
  <2>2. todo' \subseteq todo /\ todo \ todo' \subseteq {u \in todo : u.attempt = a}
    BY <1>1
  <2> DEFINE several == SubmissionCount(rows) > 1
  <2> HIDE DEF a, several
  <2>3. tables' = WithEvidence(rows', a, several) /\ several \in BOOLEAN /\ Active(rows', a)
    BY <1>1, <1>2, <2>1 DEF several
  <2> QED
    BY <1>1, <2>1, <2>2, <2>3, ReplayKeeps
<1>3. CASE ~Active(rows, a)
  <2>1. tables' = tables /\ cut' = cut
    BY <1>3 DEF CorrectFollowUp
  <2>2. /\ {Fact(rows, b) : b \in {}} = {}
        /\ {} \in SUBSET {b \in Attempts : rows[b].voided}
    OBVIOUS
  <2>3. /\ tables' \in [evidence : {tables.evidence \cup {Fact(rows, b) : b \in {}}},
                        summaries : {tables.summaries}, open : SUBSET tables.open]
        /\ cut' \subseteq Attempts /\ voidAnswered' \subseteq Attempts
    BY <1>1, <2>1, <2>2 DEF IInv, TypeOK
  <2>4. \A u \in todo \ todo' : ~Active(rows, u.attempt) /\ u.kind = "correct"
    BY <1>1, <1>3
  <2> QED
    BY <1>1, <2>1, <2>2, <2>3, <2>4, ShrinkKeeps
<1> QED
  BY <1>2, <1>3

LEMMA VoidFollowUpKeeps ==
  ASSUME IInv, NEW t \in todo, VoidFollowUp(t)
  PROVE  IInv'
<1> DEFINE a == t.attempt
<1>1. /\ a \in Attempts /\ rows[a].voided /\ t.kind = "void"
      /\ rows' = rows /\ todo' = todo \ {t} /\ cut' = cut
      /\ voidAnswered' = voidAnswered \cup {a}
  BY DEF VoidFollowUp, IInv, TypeOK, VoidsAreOfVoided
<1>2. tables' = [tables EXCEPT !.evidence = @ \cup {Fact(rows, a)},
                               !.open = {o \in @ : o.attempt # a}]
  BY DEF VoidFollowUp
<1>3. tables \in [evidence : SUBSET Evidence, summaries : SUBSET Summaries,
                  open : SUBSET tables.summaries]
      /\ cut \subseteq Attempts /\ voidAnswered \subseteq Attempts
  BY DEF IInv, TypeOK
<1> DEFINE V == {a}
<1>4. {Fact(rows, b) : b \in V} = {Fact(rows, a)} /\ a \in V
  OBVIOUS
<1>5. V \in SUBSET {b \in Attempts : rows[b].voided}
  BY <1>1
<1> HIDE DEF V
<1>6. /\ tables' \in [evidence : {tables.evidence \cup {Fact(rows, b) : b \in V}},
                      summaries : {tables.summaries}, open : SUBSET tables.open]
      /\ \A o \in tables'.open : o.attempt # a
  BY <1>2, <1>3, <1>4
<1>7. \A u \in todo \ todo' : u = t
  BY <1>1
<1> QED
  BY <1>1, <1>3, <1>4, <1>5, <1>6, <1>7, ShrinkKeeps

LEMMA RepeatVoidKeeps ==
  ASSUME IInv, NEW a \in Attempts, RepeatVoid(a)
  PROVE  IInv'
<1>1. TypeOK'
  BY DEF IInv, TypeOK, RepeatVoid
<1>2. (FactsTrue /\ ReviewsTrue /\ ActiveBacked /\ VoidedBacked /\ VoidsAreOfVoided)'
  BY DEF IInv, FactsTrue, ReviewsTrue, ActiveBacked, VoidedBacked, VoidsAreOfVoided,
         Recorded, Active, Fact, Pending, RepeatVoid
<1> QED
  BY <1>1, <1>2 DEF IInv

LEMMA CompleteReviewKeeps ==
  ASSUME IInv, NEW summary \in tables.open, CompleteReview(summary)
  PROVE  IInv'
<1>1. /\ rows' = rows /\ todo' = todo /\ cut' = cut /\ voidAnswered' = voidAnswered
      /\ tables' = [tables EXCEPT !.open = @ \ {summary}]
  BY DEF CompleteReview
<1>2. tables \in [evidence : SUBSET Evidence, summaries : SUBSET Summaries,
                  open : SUBSET tables.summaries]
      /\ cut \subseteq Attempts /\ voidAnswered \subseteq Attempts
  BY DEF IInv, TypeOK
<1>3. /\ {Fact(rows, b) : b \in {}} = {}
      /\ {} \in SUBSET {b \in Attempts : rows[b].voided}
  OBVIOUS
<1>4. tables' \in [evidence : {tables.evidence \cup {Fact(rows, b) : b \in {}}},
                   summaries : {tables.summaries}, open : SUBSET tables.open]
  BY <1>1, <1>2, <1>3
<1>5. todo \ todo' = {}
  BY <1>1
<1> QED
  BY <1>1, <1>2, <1>3, <1>4, <1>5, ShrinkKeeps

LEMMA CrashKeeps ==
  ASSUME IInv, Crash
  PROVE  IInv'
<1>1. PICK recorded \in SUBSET {t \in todo : t.kind = "void"} :
        tables' = [tables EXCEPT !.evidence = @ \cup {Fact(rows, t.attempt) : t \in recorded}]
  BY DEF Crash
<1>2. /\ rows' = rows /\ todo' = {} /\ cut' = cut \cup {t.attempt : t \in todo}
      /\ voidAnswered' = voidAnswered
  BY DEF Crash
<1>3. tables \in [evidence : SUBSET Evidence, summaries : SUBSET Summaries,
                  open : SUBSET tables.summaries]
      /\ cut \subseteq Attempts /\ voidAnswered \subseteq Attempts
      /\ \A t \in todo : t.attempt \in Attempts
  BY DEF IInv, TypeOK
<1> DEFINE V == {t.attempt : t \in recorded}
<1>4. {Fact(rows, t.attempt) : t \in recorded} = {Fact(rows, b) : b \in V}
  OBVIOUS
<1>5. V \in SUBSET {b \in Attempts : rows[b].voided}
  BY <1>3 DEF IInv, VoidsAreOfVoided
<1> HIDE DEF V
<1>6. tables' \in [evidence : {tables.evidence \cup {Fact(rows, b) : b \in V}},
                   summaries : {tables.summaries}, open : SUBSET tables.open]
  BY <1>1, <1>3, <1>4
<1>7. /\ todo' \subseteq todo /\ cut \subseteq cut' /\ cut' \subseteq Attempts
      /\ \A t \in todo \ todo' : t.attempt \in cut'
  BY <1>2, <1>3
<1> QED
  BY <1>2, <1>3, <1>5, <1>6, <1>7, ShrinkKeeps

LEMMA NextKeeps == IInv /\ [Next]_vars => IInv'
<1> SUFFICES ASSUME IInv, [Next]_vars PROVE IInv'
  OBVIOUS
<1>1. ASSUME NEW a \in Attempts, NEW result \in Results,
             Ingest(a, result) \/ Correct(a, result)
      PROVE  IInv'
  BY <1>1, IngestKeeps, CorrectKeeps
<1>2. ASSUME NEW a \in Attempts, Redeliver(a) \/ Void(a) \/ RepeatVoid(a)
      PROVE  IInv'
  BY <1>2, RedeliverKeeps, VoidKeeps, RepeatVoidKeeps
<1>3. ASSUME NEW t \in todo, CorrectFollowUp(t) \/ VoidFollowUp(t)
      PROVE  IInv'
  BY <1>3, CorrectFollowUpKeeps, VoidFollowUpKeeps
<1>4. ASSUME NEW summary \in tables.open, CompleteReview(summary)
      PROVE  IInv'
  BY <1>4, CompleteReviewKeeps
<1>5. CASE Crash
  BY <1>5, CrashKeeps
<1>6. CASE UNCHANGED vars
  <2>1. TypeOK'
    BY <1>6 DEF IInv, TypeOK, vars
  <2>2. (FactsTrue /\ ReviewsTrue /\ ActiveBacked /\ VoidedBacked /\ VoidsAreOfVoided)'
    BY <1>6 DEF IInv, FactsTrue, ReviewsTrue, ActiveBacked, VoidedBacked, VoidsAreOfVoided,
           Recorded, Active, Fact, Pending, vars
  <2> QED
    BY <2>1, <2>2 DEF IInv
<1> QED
  BY <1>1, <1>2, <1>3, <1>4, <1>5, <1>6 DEF Next

LEMMA Invariance == Spec => []IInv
<1> QED
  BY InitInvariant, NextKeeps, PTL DEF Spec
-----------------------------------------------------------------------------
(* The tables stay well formed for any attempts, results and revisions,    *)
(* and every open review rests on a stored summary                         *)
(* (lib/services/attemptEvidence.ts).                                      *)
THEOREM EvidenceTypes == Spec => []TypeOK
<1>1. IInv => TypeOK
  BY DEF IInv
<1> QED
  BY <1>1, Invariance, PTL

(* However captures, corrections, voids and crashes interleave, an attempt *)
(* whose requests are answered has an evidence event that states its       *)
(* current row.                                                            *)
THEOREM EvidenceStaysCurrent == Spec => []EvidenceCurrent
<1>1. ASSUME IInv, NEW a \in Attempts, rows[a] # NoRow, Settled(a)
      PROVE  Fact(rows, a) \in tables.evidence
  <2>1. rows[a].revision > 0
    BY <1>1, RowTypes DEF IInv, TypeOK
  <2>2. a \notin cut /\ \A kind : ~Pending(a, kind)
    BY <1>1 DEF Settled, Pending
  <2>3. Active(rows, a) \/ rows[a].voided
    BY <2>1 DEF Active
  <2> QED
    BY <1>1, <2>2, <2>3 DEF IInv, ActiveBacked, VoidedBacked, Recorded
<1>2. IInv => EvidenceCurrent
  BY <1>1 DEF EvidenceCurrent
<1> QED
  BY <1>2, Invariance, PTL

(* A void that has been followed up leaves no open review of its attempt,  *)
(* whatever overlapped with it.                                            *)
THEOREM VoidedAsksNoReview == Spec => []NoReviewOfVoided
<1>1. ASSUME IInv, NEW a \in Attempts, rows[a].voided, Settled(a)
      PROVE  \A o \in tables.open : o.attempt # a
  <2>1. a \notin cut /\ \A kind : ~Pending(a, kind)
    BY <1>1 DEF Settled, Pending
  <2> QED
    BY <1>1, <2>1 DEF IInv, VoidedBacked
<1>2. IInv => NoReviewOfVoided
  BY <1>1 DEF NoReviewOfVoided
<1> QED
  BY <1>2, Invariance, PTL

(* The open reviews of an attempt whose requests are answered ask about    *)
(* the result it has now.                                                  *)
THEOREM ReviewsAreCurrent == Spec => []ReviewsFollowResult
<1>1. ASSUME IInv, NEW a \in Attempts, Active(rows, a), Settled(a)
      PROVE  \A o \in tables.open : o.attempt = a => o.result = rows[a].result
  <2>1. a \notin cut /\ \A kind : ~Pending(a, kind)
    BY <1>1 DEF Settled, Pending
  <2> QED
    BY <1>1, <2>1 DEF IInv, ActiveBacked, ReviewsTrue
<1>2. IInv => ReviewsFollowResult
  BY <1>1 DEF ReviewsFollowResult
<1> QED
  BY <1>2, Invariance, PTL
=============================================================================
