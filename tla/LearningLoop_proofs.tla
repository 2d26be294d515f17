-------------------------- MODULE LearningLoop_proofs --------------------------
(***************************************************************************)
(* Type correctness, the chain of daily snapshots, and that no level       *)
(* exceeds what the records that still count support.  The last rests on   *)
(* two facts about the projectors: neither ends above both a level that    *)
(* was supported and what its own input supports; and records that are     *)
(* added, or summarised again, take no support away.  Only a correction or *)
(* a void does, and its transaction runs the V0 projector.                 *)
(***************************************************************************)
EXTENDS LearningLoop, TLAPS, FiniteSetTheorems

Levels == 0 .. 5

(* Level l of node n is supported by the rows r or by the evidence.        *)
Supported(l, r, s, p, n) ==
  l <= PassLevel(r, n) \/ l <= Target(Facts(r, s, p, n))
-----------------------------------------------------------------------------
(* The operators.                                                          *)
LEMMA PassLevelType == \A r, n : PassLevel(r, n) \in 0 .. 2
  BY DEF PassLevel

LEMMA V0Bound == \A r, n : V0Level(r, n) \in 0 .. 2 /\ V0Level(r, n) <= PassLevel(r, n)
<1> TAKE r, n
<1>1. PassLevel(r, n) \in 0 .. 2
  BY PassLevelType
<1> QED
  BY <1>1 DEF V0Level

LEMMA TargetType == \A F : Target(F) \in Levels
  BY DEF Target, Levels

(* The evidence projector ends at or below its target or where it began.   *)
LEMMA MovedBound ==
  ASSUME NEW l \in Levels, NEW F
  PROVE  Moved(l, F) \in Levels /\ (Moved(l, F) <= l \/ Moved(l, F) <= Target(F))
<1>1. Target(F) \in Levels
  BY TargetType
<1>2. CASE Moved(l, F) = l - 1 /\ l > 0
  BY <1>1, <1>2 DEF Levels
<1>3. CASE Moved(l, F) = l + 1 /\ Target(F) > l
  BY <1>1, <1>3 DEF Levels
<1>4. CASE Moved(l, F) = l
  BY <1>1, <1>4 DEF Levels
<1> QED
  BY <1>2, <1>3, <1>4 DEF Moved

(* More passes, at the times they had, are worth as much or more.          *)
LEMMA PassesGrow ==
  ASSUME NEW r, NEW q, NEW n,
         \A role \in {"primary", "supporting"} : Passes(r, n, role) \subseteq Passes(q, n, role),
         \A a \in Passes(r, n, "primary") : q[a].at = r[a].at
  PROVE  PassLevel(r, n) <= PassLevel(q, n)
<1>1. CASE \E x, y \in Passes(r, n, "primary") : r[y].at - r[x].at >= Week /\ x # y
  <2>1. PICK x, y \in Passes(r, n, "primary") : r[y].at - r[x].at >= Week /\ x # y
    BY <1>1
  <2>2. /\ x \in Passes(q, n, "primary") /\ y \in Passes(q, n, "primary")
        /\ q[y].at - q[x].at >= Week
    BY <2>1
  <2>3. PassLevel(q, n) = 2
    BY <2>1, <2>2 DEF PassLevel
  <2> QED
    BY <2>3, PassLevelType
<1>2. CASE /\ ~ \E x, y \in Passes(r, n, "primary") : r[y].at - r[x].at >= Week /\ x # y
           /\ Passes(r, n, "primary") \cup Passes(r, n, "supporting") # {}
  <2>1. PassLevel(r, n) = 1
    BY <1>2 DEF PassLevel
  <2>2. Passes(q, n, "primary") \cup Passes(q, n, "supporting") # {}
    BY <1>2
  <2>3. PassLevel(q, n) \in {1, 2}
    BY <2>2 DEF PassLevel
  <2> QED
    BY <2>1, <2>3
<1>3. CASE /\ ~ \E x, y \in Passes(r, n, "primary") : r[y].at - r[x].at >= Week /\ x # y
           /\ Passes(r, n, "primary") \cup Passes(r, n, "supporting") = {}
  <2>1. PassLevel(r, n) = 0
    BY <1>3 DEF PassLevel
  <2> QED
    BY <2>1, PassLevelType
<1> QED
  BY <1>1, <1>2, <1>3

(* Facts that keep every achievement and some support keep the target.     *)
LEMMA TargetGrows ==
  ASSUME NEW F, NEW G,
         \A o \in {"independent", "assisted", "productive"} : Primary(F, o) \subseteq Primary(G, o),
         (\E f \in F : f.role = "supporting") => \E g \in G : g.role = "supporting"
  PROVE  Target(F) <= Target(G)
<1> DEFINE I(H) == Primary(H, "independent")
           A(H) == Primary(H, "assisted")
           P(H) == Primary(H, "productive")
<1>1. I(F) \subseteq I(G) /\ A(F) \subseteq A(G) /\ P(F) \subseteq P(G)
  OBVIOUS
<1>2. CASE \E f \in I(F) : f.source \in Transfer
  <2>1. \E f \in I(G) : f.source \in Transfer
    BY <1>1, <1>2
  <2>2. Target(G) = 5
    BY <2>1 DEF Target
  <2> QED
    BY <2>2, TargetType DEF Levels
<1>3. CASE ~(\E f \in I(F) : f.source \in Transfer) /\ \E f, g \in I(F) : f # g
  <2>1. Target(F) = 4
    BY <1>3 DEF Target
  <2>2. \E f, g \in I(G) : f # g
    BY <1>1, <1>3
  <2>3. Target(G) \in {4, 5}
    BY <2>2 DEF Target
  <2> QED
    BY <2>1, <2>3
<1>4. CASE ~(\E f \in I(F) : f.source \in Transfer) /\ ~(\E f, g \in I(F) : f # g) /\ I(F) # {}
  <2>1. Target(F) = 3
    BY <1>4 DEF Target
  <2>2. I(G) # {}
    BY <1>1, <1>4
  <2>3. Target(G) \in {3, 4, 5}
    BY <2>2 DEF Target
  <2> QED
    BY <2>1, <2>3
<1>5. CASE I(F) = {} /\ A(F) # {}
  <2>1. Target(F) = 2
    BY <1>5 DEF Target
  <2>2. A(G) # {}
    BY <1>1, <1>5
  <2>3. Target(G) \in {2, 3, 4, 5}
    BY <2>2 DEF Target
  <2> QED
    BY <2>1, <2>3
<1>6. CASE I(F) = {} /\ A(F) = {}
  <2> DEFINE Some(H) == P(H) # {} \/ \E f \in H : f.role = "supporting"
  <2>1. Target(F) = IF Some(F) THEN 1 ELSE 0
    BY <1>6 DEF Target
  <2>2. Some(F) => Some(G)
    BY <1>1
  <2>3. Some(G) => Target(G) \in 1 .. 5
    BY DEF Target
  <2>4. Target(G) \in 0 .. 5
    BY TargetType DEF Levels
  <2> QED
    BY <2>1, <2>2, <2>3, <2>4
<1> QED
  BY <1>2, <1>3, <1>4, <1>5, <1>6
-----------------------------------------------------------------------------
(* What supports a level.                                                  *)

(* Attempts never count as an achievement: those facts are of milestones.  *)
LEMMA AchievementsAreProjects ==
  ASSUME NEW r, NEW s, NEW p, NEW n,
         NEW o \in {"independent", "assisted", "productive"},
         NEW f \in Primary(Facts(r, s, p, n), o)
  PROVE  \E m \in Milestones :
           /\ p[m] # NoSession /\ Role[m][n] # "none" /\ f = ProjectFact(p, m, n)
<1>1. f \in Facts(r, s, p, n) /\ f.outcome = o
  BY DEF Primary
<1>2. ASSUME NEW a, f = AttemptFact(r, s, a, n)
      PROVE  FALSE
  <2>1. f.outcome \in {"unproductive", "insufficient"}
    BY <1>2 DEF AttemptFact
  <2> QED
    BY <1>1, <2>1
<1> QED
  BY <1>1, <1>2 DEF Facts

(* Records that are added take no support from the evidence level.         *)
LEMMA EvidenceGrows ==
  ASSUME NEW r, NEW s, NEW p, NEW q, NEW u, NEW v, NEW n,
         \A a \in Ids : Active(r, a) => Active(q, a) /\ RoleOf(q, a, n) = RoleOf(r, a, n),
         \A m \in Milestones : p[m] # NoSession => v[m] = p[m]
  PROVE  Target(Facts(r, s, p, n)) <= Target(Facts(q, u, v, n))
<1> DEFINE F == Facts(r, s, p, n)
           G == Facts(q, u, v, n)
<1>1. ASSUME NEW m \in Milestones, p[m] # NoSession, Role[m][n] # "none"
      PROVE  ProjectFact(p, m, n) \in G /\ ProjectFact(v, m, n) = ProjectFact(p, m, n)
  BY <1>1 DEF ProjectFact, Facts
<1>2. ASSUME NEW o \in {"independent", "assisted", "productive"}
      PROVE  Primary(F, o) \subseteq Primary(G, o)
  <2>1. SUFFICES ASSUME NEW f \in Primary(F, o)
                 PROVE  f \in Primary(G, o)
    OBVIOUS
  <2>2. PICK m \in Milestones :
          p[m] # NoSession /\ Role[m][n] # "none" /\ f = ProjectFact(p, m, n)
    BY AchievementsAreProjects
  <2>3. f \in G
    BY <1>1, <2>2
  <2> QED
    BY <2>1, <2>3 DEF Primary
<1>3. ASSUME NEW f \in F, f.role = "supporting"
      PROVE  \E g \in G : g.role = "supporting"
  <2>1. CASE \E a \in Ids : Active(r, a) /\ RoleOf(r, a, n) # "none" /\ f = AttemptFact(r, s, a, n)
    <3>1. PICK a \in Ids : Active(r, a) /\ RoleOf(r, a, n) # "none" /\ f = AttemptFact(r, s, a, n)
      BY <2>1
    <3>2. RoleOf(r, a, n) = "supporting"
      BY <1>3, <3>1 DEF AttemptFact
    <3>3. AttemptFact(q, u, a, n) \in G /\ AttemptFact(q, u, a, n).role = "supporting"
      BY <3>1, <3>2 DEF AttemptFact, Facts
    <3> QED
      BY <3>3
  <2>2. CASE \E m \in Milestones : p[m] # NoSession /\ Role[m][n] # "none" /\ f = ProjectFact(p, m, n)
    BY <1>1, <1>3, <2>2
  <2> QED
    BY <2>1, <2>2 DEF Facts
<1> HIDE DEF F, G
<1>4. Target(F) <= Target(G)
  BY <1>2, <1>3, TargetGrows
<1> QED
  BY <1>4 DEF F, G

(* A supported level stays supported when no active row changes.           *)
LEMMA StaysSupported ==
  ASSUME NEW r, NEW s, NEW p, NEW q, NEW u, NEW v, NEW n, NEW l \in Levels,
         \A a \in Ids : Active(r, a) => q[a] = r[a],
         \A m \in Milestones : p[m] # NoSession => v[m] = p[m],
         Supported(l, r, s, p, n)
  PROVE  Supported(l, q, u, v, n)
<1>1. \A a \in Ids : Active(r, a) => Active(q, a) /\ RoleOf(q, a, n) = RoleOf(r, a, n)
  BY DEF Active, RoleOf
<1>2. Target(Facts(r, s, p, n)) <= Target(Facts(q, u, v, n))
  BY <1>1, EvidenceGrows
<1>3. \A role \in {"primary", "supporting"} : Passes(r, n, role) \subseteq Passes(q, n, role)
  BY <1>1 DEF Passes, Entries
<1>4. \A a \in Passes(r, n, "primary") : q[a].at = r[a].at
  BY DEF Passes, Entries
<1>5. PassLevel(r, n) <= PassLevel(q, n)
  BY <1>3, <1>4, PassesGrow
<1>6. /\ PassLevel(r, n) \in 0 .. 2 /\ PassLevel(q, n) \in 0 .. 2
      /\ Target(Facts(r, s, p, n)) \in Levels /\ Target(Facts(q, u, v, n)) \in Levels
  BY PassLevelType, TargetType
<1> QED
  BY <1>2, <1>5, <1>6 DEF Supported, Levels

(* The V0 projector leaves supported levels, on the nodes it overwrites.   *)
LEMMA V0Supported ==
  ASSUME NEW q, NEW S, level \in [Nodes -> Levels]
  PROVE  /\ V0(q, S) \in [Nodes -> Levels]
         /\ \A n \in S \cap Nodes : \A u, v : Supported(V0(q, S)[n], q, u, v, n)
         /\ \A n \in Nodes \ S : V0(q, S)[n] = level[n]
<1>1. \A n : V0Level(q, n) \in Levels
  BY V0Bound DEF Levels
<1>2. V0(q, S) \in [Nodes -> Levels]
  BY <1>1 DEF V0
<1>3. ASSUME NEW n \in S \cap Nodes, NEW u, NEW v
      PROVE  Supported(V0(q, S)[n], q, u, v, n)
  <2>1. V0(q, S)[n] = V0Level(q, n)
    BY DEF V0
  <2> QED
    BY <2>1, V0Bound DEF Supported
<1> QED
  BY <1>2, <1>3 DEF V0

(* So does the evidence projector, on supported levels.                    *)
LEMMA ReplaySupported ==
  ASSUME NEW l \in [Nodes -> Levels], NEW b, NEW r, NEW s, NEW p,
         ReplayEvidence(l, b, r, s, p)
  PROVE  /\ level' \in [Nodes -> Levels]
         /\ (\A n \in Nodes : Supported(l[n], r, s, p, n))
              => \A n \in Nodes : Supported(level'[n], r, s, p, n)
<1> DEFINE F == [n \in Nodes |-> Facts(r, s, p, n)]
           M(n) == IF F[n] \in {{}, b[n]} THEN l[n] ELSE Moved(l[n], F[n])
<1>1. level' = [n \in Nodes |-> M(n)]
  BY DEF ReplayEvidence
<1>2. ASSUME NEW n \in Nodes
      PROVE  M(n) \in Levels /\ (M(n) <= l[n] \/ M(n) <= Target(Facts(r, s, p, n)))
  <2>1. /\ Moved(l[n], F[n]) \in Levels
        /\ Moved(l[n], F[n]) <= l[n] \/ Moved(l[n], F[n]) <= Target(F[n])
    BY MovedBound
  <2>2. F[n] = Facts(r, s, p, n)
    OBVIOUS
  <2>3. l[n] \in Levels /\ l[n] <= l[n]
    BY DEF Levels
  <2> QED
    BY <2>1, <2>2, <2>3
<1> HIDE DEF M
<1>3. level' \in [Nodes -> Levels]
  BY <1>1, <1>2
<1>4. ASSUME NEW n \in Nodes, Supported(l[n], r, s, p, n)
      PROVE  Supported(level'[n], r, s, p, n)
  <2>1. level'[n] \in Levels /\ l[n] \in Levels
    BY <1>3
  <2>2. level'[n] <= l[n] \/ level'[n] <= Target(Facts(r, s, p, n))
    BY <1>1, <1>2
  <2>3. PassLevel(r, n) \in 0 .. 2 /\ Target(Facts(r, s, p, n)) \in Levels
    BY PassLevelType, TargetType
  <2> QED
    BY <1>4, <2>1, <2>2, <2>3 DEF Supported, Levels
<1> QED
  BY <1>3, <1>4
-----------------------------------------------------------------------------
(* Types.                                                                  *)
SummaryTypes(r, s) ==
  /\ s \in [Ids -> [all : SUBSET Keys, top : Keys \cup {NoSummary}]]
  /\ \A a \in Ids : IF r[a] = NoRow THEN s[a].all = {} ELSE s[a].top \in s[a].all

RestTypes ==
  /\ projects \in [Milestones -> {NoSession} \cup [outcome : Outcomes, at : 1 .. MaxNow]]
  /\ plan \in Seq([before : 0 .. MaxSnapshots, node : Nodes])
  /\ Len(plan) <= MaxSnapshots
  /\ feedback \subseteq (DOMAIN plan) \X {"started", "skipped"}
  /\ now \in 0 .. MaxNow
  /\ todo \subseteq [attempt : Ids, kind : {"correct", "void"}, revision : 1 .. MaxRevision]

LEMMA TypeParts ==
  TypeOK <=> /\ rows \in [Ids -> Rows] /\ SummaryTypes(rows, summaries)
             /\ level \in [Nodes -> Levels] /\ RestTypes
  BY DEF TypeOK, SummaryTypes, RestTypes, Levels

LEMMA KeyType ==
  ASSUME NEW r \in [Ids -> Rows], NEW a \in Ids, r[a] # NoRow, NEW sequence \in BOOLEAN
  PROVE  Key(r, a, sequence) \in Keys
<1> DEFINE C == {b \in Captured : Active(r, b)}
<1>1. /\ IsFiniteSet(C) /\ Cardinality(C) \in Nat /\ Cardinality(Captured) \in Nat
      /\ Cardinality(C) <= Cardinality(Captured)
  <2>1. C \subseteq Captured /\ IsFiniteSet(Captured)
    BY LearningAssumption
  <2> HIDE DEF C
  <2> QED
    BY <2>1, FS_Subset, FS_CardinalityType
<1>2. r[a].result \in Results
  BY DEF Rows
<1> HIDE DEF C
<1>3. (IF a \in Captured THEN Cardinality(C) ELSE 1) \in 0 .. Cardinality(Captured) + 1
  BY <1>1
<1> QED
  BY <1>2, <1>3 DEF Key, Keys, C

(* What a replay of an attempt with a row leaves as its summaries.         *)
LEMMA ReplayedSummaries ==
  ASSUME NEW r \in [Ids -> Rows], NEW a \in Ids, r[a] # NoRow,
         NEW l, NEW b, NEW p, NEW sequence \in BOOLEAN,
         SummaryTypes(rows, summaries), \A c \in Ids \ {a} : r[c] = rows[c],
         ReplayAttempt(l, b, r, p, a, sequence)
  PROVE  SummaryTypes(r, summaries') /\ ReplayEvidence(l, b, r, summaries', p)
<1> DEFINE key == Key(r, a, sequence)
           old == summaries[a]
<1>1. PICK saved \in Saved(old, key) :
        /\ summaries' = [summaries EXCEPT ![a] = saved]
        /\ ReplayEvidence(l, b, r, summaries', p)
  BY DEF ReplayAttempt
<1>2. key \in Keys
  BY KeyType
<1>3. /\ old.all \subseteq Keys /\ old.top \in Keys \cup {NoSummary}
      /\ old.all = {} \/ old.top \in old.all
  BY DEF SummaryTypes
<1> HIDE DEF key, old
<1>4. saved \in [all : {old.all \cup {key}},
                 top : IF key \in old.all THEN {old.top}
                       ELSE IF old.all = {} THEN {key} ELSE {old.top, key}]
  BY <1>1 DEF Saved
<1>5. /\ saved \in [all : SUBSET Keys, top : Keys \cup {NoSummary}]
      /\ saved.top \in saved.all
  BY <1>2, <1>3, <1>4
<1>6. /\ summaries' \in [Ids -> [all : SUBSET Keys, top : Keys \cup {NoSummary}]]
      /\ summaries'[a] = saved /\ \A c \in Ids \ {a} : summaries'[c] = summaries[c]
  BY <1>1, <1>5 DEF SummaryTypes
<1> QED
  BY <1>1, <1>5, <1>6 DEF SummaryTypes

(* The successor of a snapshot.                                            *)
LEMMA Regenerated ==
  ASSUME RestTypes, NEW k \in 0 .. MaxSnapshots, MayRegenerate, Regenerate(k)
  PROVE  /\ plan' \in Seq([before : 0 .. MaxSnapshots, node : Nodes])
         /\ Len(plan') <= MaxSnapshots /\ Len(plan') = Len(plan) + 1
         /\ DOMAIN plan \subseteq DOMAIN plan'
         /\ \A i \in DOMAIN plan : plan'[i] = plan[i]
         /\ plan'[Len(plan')].before = k
<1> DEFINE S == [before : 0 .. MaxSnapshots, node : Nodes]
<1>1. PICK n \in Planned : plan' = Append(plan, [before |-> k, node |-> n])
  BY DEF Regenerate
<1>2. [before |-> k, node |-> n] \in S
  BY LearningAssumption
<1>3. plan \in Seq(S) /\ Len(plan) < MaxSnapshots /\ MaxSnapshots \in Nat
  BY LearningAssumption DEF RestTypes, MayRegenerate
<1>4. [before |-> k, node |-> n].before = k
  OBVIOUS
<1> DEFINE e == [before |-> k, node |-> n]
<1> HIDE DEF S, e
<1>5. /\ Append(plan, e) \in Seq(S) /\ Len(Append(plan, e)) = Len(plan) + 1
      /\ Append(plan, e)[Len(plan) + 1] = e
      /\ \A i \in DOMAIN plan : Append(plan, e)[i] = plan[i]
      /\ DOMAIN plan \subseteq DOMAIN Append(plan, e)
  BY <1>2, <1>3 DEF e
<1>6. plan' = Append(plan, e)
  BY <1>1 DEF e
<1>7. Len(plan) \in Nat
  BY <1>3
<1>8. Len(plan') = Len(plan) + 1 /\ plan'[Len(plan')] = e
  BY <1>5, <1>6
<1> QED
  BY <1>3, <1>4, <1>5, <1>6, <1>7, <1>8 DEF S, e

(* A new row leaves the others alone.                                      *)
LEMMA RowAdded ==
  ASSUME rows \in [Ids -> Rows], NEW a \in Ids, rows[a] = NoRow,
         NEW result \in Results, NEW t \in 1 .. MaxNow, NEW n \in Nodes \cup {"none"},
         rows' = [rows EXCEPT ![a] = NewRow(result, t, n)]
  PROVE  /\ rows' \in [Ids -> Rows] /\ rows'[a] # NoRow
         /\ \A c \in Ids \ {a} : rows'[c] = rows[c]
         /\ \A c \in Ids : Active(rows, c) => rows'[c] = rows[c]
<1>1. NewRow(result, t, n) \in Rows /\ NewRow(result, t, n).revision = 1
  BY LearningAssumption DEF NewRow, Rows
<1>2. NoRow.revision = 0
  BY DEF NoRow
<1>3. NewRow(result, t, n) # NoRow /\ ~Active(rows, a)
  BY <1>1, <1>2 DEF Active
<1> QED
  BY <1>1, <1>3

(* A corrected or voided row keeps its attempt a row.                      *)
LEMMA RowChanged ==
  ASSUME NEW row \in Rows, NEW result \in Results,
         row.revision > 0, row.revision < MaxRevision
  PROVE  /\ [row EXCEPT !.result = result, !.revision = @ + 1] \in Rows \ {NoRow}
         /\ [row EXCEPT !.voided = TRUE, !.revision = @ + 1] \in Rows \ {NoRow}
         /\ [row EXCEPT !.result = result, !.revision = @ + 1].revision \in 1 .. MaxRevision
         /\ [row EXCEPT !.voided = TRUE, !.revision = @ + 1].revision \in 1 .. MaxRevision
<1> DEFINE R == [result : Results, at : 1 .. MaxNow, node : Nodes \cup {"none"},
                 revision : 1 .. MaxRevision, voided : BOOLEAN]
<1>1. row \in R /\ NoRow \notin R
  BY DEF Rows, NoRow
<1>2. row.revision + 1 \in 1 .. MaxRevision
  BY <1>1, LearningAssumption
<1>3. [row EXCEPT !.result = result, !.revision = @ + 1] \in R
  BY <1>1, <1>2
<1>4. [row EXCEPT !.voided = TRUE, !.revision = @ + 1] \in R
  BY <1>1, <1>2
<1> QED
  BY <1>1, <1>3, <1>4 DEF Rows

LEMMA TimesType ==
  ASSUME now \in 0 .. MaxNow
  PROVE  Times \subseteq 1 .. MaxNow /\ 1 .. now \subseteq 1 .. MaxNow
  BY LearningAssumption DEF Times

LEMMA RepeatedReplay ==
  ASSUME TypeOK, NEW a \in Ids, Active(rows, a), NEW sequence \in BOOLEAN,
         ReplayAttempt(level, basis, rows, projects, a, sequence)
  PROVE  /\ SummaryTypes(rows, summaries') /\ level' \in [Nodes -> Levels]
         /\ ReplayEvidence(level, basis, rows, summaries', projects)
<1>1. rows[a] # NoRow
  BY DEF Active, NoRow
<1>2. SummaryTypes(rows, summaries') /\ ReplayEvidence(level, basis, rows, summaries', projects)
  BY <1>1, TypeParts, ReplayedSummaries
<1> QED
  BY <1>2, TypeParts, ReplaySupported

LEMMA InitTypes == Init => TypeOK
<1> SUFFICES ASSUME Init PROVE TypeOK
  OBVIOUS
<1> USE DEF Init
<1>1. rows \in [Ids -> Rows]
  BY DEF Rows
<1>2. SummaryTypes(rows, summaries)
  BY DEF SummaryTypes
<1>3. level \in [Nodes -> Levels]
  BY DEF Levels
<1>4. plan \in Seq([before : 0 .. MaxSnapshots, node : Nodes]) /\ Len(plan) <= MaxSnapshots
  <2>1. CASE plan = <<>>
    BY <2>1, LearningAssumption
  <2>2. CASE plan # <<>>
    <3>1. PICK n \in Planned : plan = <<[before |-> 0, node |-> n]>>
      BY <2>2
    <3>2. [before |-> 0, node |-> n] \in [before : 0 .. MaxSnapshots, node : Nodes]
      BY LearningAssumption
    <3> QED
      BY <3>1, <3>2, LearningAssumption
  <2> QED
    BY <2>1, <2>2
<1>5. RestTypes
  BY <1>4, LearningAssumption DEF RestTypes
<1> QED
  BY <1>1, <1>2, <1>3, <1>5, TypeParts

LEMMA SupportParts ==
  LevelIsSupported <=> \A n \in Nodes : Supported(level[n], rows, summaries, projects, n)
  BY DEF LevelIsSupported, Supported
-----------------------------------------------------------------------------
(* Each action keeps the types, and the support of the levels.             *)
Kept == TypeOK' /\ (LevelIsSupported => LevelIsSupported')

(* The parts of an action that replays the evidence over records that only *)
(* grew, from levels l that are supported if the current ones are.         *)
LEMMA KeptByReplay ==
  ASSUME rows' \in [Ids -> Rows], SummaryTypes(rows', summaries'), RestTypes',
         NEW l \in [Nodes -> Levels], NEW b,
         LevelIsSupported =>
           \A n \in Nodes : Supported(l[n], rows', summaries', projects', n),
         ReplayEvidence(l, b, rows', summaries', projects')
  PROVE  Kept
<1>1. /\ level' \in [Nodes -> Levels]
      /\ (\A n \in Nodes : Supported(l[n], rows', summaries', projects', n))
           => \A n \in Nodes : Supported(level'[n], rows', summaries', projects', n)
  BY ReplaySupported
<1>2. TypeOK'
  BY <1>1 DEF TypeOK, SummaryTypes, RestTypes, Levels
<1>3. LevelIsSupported => LevelIsSupported'
  BY <1>1 DEF LevelIsSupported, Supported
<1> QED
  BY <1>2, <1>3 DEF Kept

(* The current levels are supported by records that grew.                  *)
LEMMA CurrentSupported ==
  ASSUME TypeOK, NEW n \in Nodes,
         \A a \in Ids : Active(rows, a) => rows'[a] = rows[a],
         \A m \in Milestones : projects[m] # NoSession => projects'[m] = projects[m]
  PROVE  LevelIsSupported => Supported(level[n], rows', summaries', projects', n)
<1>1. level[n] \in Levels
  BY TypeParts
<1> QED
  BY <1>1, SupportParts, StaysSupported

LEMMA IngestKeeps ==
  ASSUME TypeOK, NEW a \in Captured, NEW result \in Results,
         NEW t \in Times \cup 1 .. now, Ingest(a, result, t)
  PROVE  Kept
<1>1. a \in Ids /\ t \in 1 .. MaxNow
  BY TimesType DEF Ids, TypeOK
<1>2. /\ rows' \in [Ids -> Rows] /\ rows'[a] # NoRow
      /\ \A c \in Ids \ {a} : rows'[c] = rows[c]
      /\ \A c \in Ids : Active(rows, c) => rows'[c] = rows[c]
  BY <1>1, RowAdded DEF Ingest, TypeOK
<1>3. ReplayAttempt(level, basis, rows', projects, a, TRUE) /\ UNCHANGED projects
  BY DEF Ingest
<1>4. /\ SummaryTypes(rows', summaries')
      /\ ReplayEvidence(level, basis, rows', summaries', projects')
  BY <1>1, <1>2, <1>3, TypeParts, ReplayedSummaries
<1>5. RestTypes'
  BY <1>1, TypeParts DEF Ingest, RestTypes
<1>6. level \in [Nodes -> Levels]
  BY TypeParts
<1>7. LevelIsSupported =>
        \A n \in Nodes : Supported(level[n], rows', summaries', projects', n)
  BY <1>2, <1>3, CurrentSupported
<1> QED
  BY <1>2, <1>4, <1>5, <1>6, <1>7, KeptByReplay

(* A replay of an attempt over the same rows and projects.                 *)
LEMMA ReplayKeeps ==
  ASSUME TypeOK, NEW a \in Ids, Active(rows, a), NEW sequence \in BOOLEAN,
         ReplayAttempt(level, basis, rows, projects, a, sequence),
         UNCHANGED <<rows, projects>>, RestTypes'
  PROVE  Kept
<1>1. /\ SummaryTypes(rows', summaries')
      /\ ReplayEvidence(level, basis, rows', summaries', projects')
  BY RepeatedReplay
<1>2. level \in [Nodes -> Levels] /\ rows' \in [Ids -> Rows]
  BY TypeParts
<1>3. LevelIsSupported =>
        \A n \in Nodes : Supported(level[n], rows', summaries', projects', n)
  BY CurrentSupported
<1> QED
  BY <1>1, <1>2, <1>3, KeptByReplay

LEMMA RedeliverKeeps ==
  ASSUME TypeOK, NEW a \in Captured, Redeliver(a)
  PROVE  Kept
<1>1. RestTypes'
  BY TypeParts DEF Redeliver, RestTypes
<1>2. a \in Ids /\ TRUE \in BOOLEAN
  BY DEF Ids
<1> QED
  BY <1>1, <1>2, ReplayKeeps DEF Redeliver

LEMMA CompleteMilestoneKeeps ==
  ASSUME TypeOK, NEW m \in Milestones, NEW outcome \in Outcomes, NEW t \in Times,
         CompleteMilestone(m, outcome, t)
  PROVE  Kept
<1>1. t \in 1 .. MaxNow
  BY TimesType DEF TypeOK
<1>2. /\ rows' \in [Ids -> Rows] /\ SummaryTypes(rows', summaries')
      /\ level \in [Nodes -> Levels]
  BY TypeParts DEF CompleteMilestone
<1>3. /\ projects \in [Milestones -> {NoSession} \cup [outcome : Outcomes, at : 1 .. MaxNow]]
      /\ projects' = [projects EXCEPT ![m] = [outcome |-> outcome, at |-> t]]
      /\ projects[m] = NoSession
  BY DEF CompleteMilestone, TypeOK
<1>4. /\ projects' \in [Milestones -> {NoSession} \cup [outcome : Outcomes, at : 1 .. MaxNow]]
      /\ \A k \in Milestones : projects[k] # NoSession => projects'[k] = projects[k]
  BY <1>1, <1>3
<1>5. RestTypes'
  BY <1>1, <1>4, TypeParts DEF CompleteMilestone, RestTypes
<1>6. UNCHANGED <<rows, summaries>>
  BY DEF CompleteMilestone
<1>7. LevelIsSupported =>
        \A n \in Nodes : Supported(level[n], rows', summaries', projects', n)
  BY <1>4, <1>6, CurrentSupported
<1>8. ReplayEvidence(level, basis, rows', summaries', projects')
  BY <1>6 DEF CompleteMilestone
<1> QED
  BY <1>2, <1>5, <1>7, <1>8, KeptByReplay

LEMMA CompleteItemKeeps ==
  ASSUME TypeOK, NEW k \in DOMAIN plan, NEW result \in Results, NEW t \in Times,
         CompleteItem(k, result, t)
  PROVE  Kept
<1>1. /\ t \in 1 .. MaxNow /\ k \in 1 .. MaxSnapshots /\ k \in Ids
      /\ plan[k].node \in Nodes
  <2>1. t \in 1 .. MaxNow
    BY TimesType DEF TypeOK
  <2>2. /\ plan \in Seq([before : 0 .. MaxSnapshots, node : Nodes])
        /\ Len(plan) <= MaxSnapshots /\ MaxSnapshots \in Nat
    BY LearningAssumption DEF TypeOK
  <2>3. k \in 1 .. MaxSnapshots /\ plan[k] \in [before : 0 .. MaxSnapshots, node : Nodes]
    <3> DEFINE T == [before : 0 .. MaxSnapshots, node : Nodes]
    <3>1. plan \in Seq(T)
      BY <2>2
    <3> HIDE DEF T
    <3>2. Len(plan) \in Nat /\ k \in 1 .. Len(plan) /\ plan[k] \in T
      BY <3>1
    <3> QED
      BY <2>2, <3>2 DEF T
  <2> QED
    BY <2>1, <2>3 DEF Ids
<1>2. /\ rows' \in [Ids -> Rows] /\ rows'[k] # NoRow
      /\ \A c \in Ids \ {k} : rows'[c] = rows[c]
      /\ \A c \in Ids : Active(rows, c) => rows'[c] = rows[c]
  BY <1>1, RowAdded DEF CompleteItem, TypeOK
<1> DEFINE S == Mapped(rows') \cup {plan[k].node}
           l == V0(rows', S)
           b == V0Basis(S)
<1>3. ReplayAttempt(l, b, rows', projects, k, FALSE) /\ UNCHANGED projects
  BY DEF CompleteItem
<1>4. level \in [Nodes -> Levels]
  BY TypeParts
<1> HIDE DEF S, b
<1>5. /\ l \in [Nodes -> Levels]
      /\ \A n \in S \cap Nodes : Supported(l[n], rows', summaries', projects', n)
      /\ \A n \in Nodes \ S : l[n] = level[n]
  BY <1>4, V0Supported
<1>6. LevelIsSupported =>
        \A n \in Nodes : Supported(l[n], rows', summaries', projects', n)
  BY <1>2, <1>3, <1>5, CurrentSupported
<1> HIDE DEF l
<1>7. /\ SummaryTypes(rows', summaries')
      /\ ReplayEvidence(l, b, rows', summaries', projects')
  BY <1>1, <1>2, <1>3, TypeParts, ReplayedSummaries
<1>8. MayRegenerate /\ Regenerate(k) /\ RestTypes /\ k \in 0 .. MaxSnapshots
  BY <1>1, TypeParts DEF CompleteItem
<1>9. /\ plan' \in Seq([before : 0 .. MaxSnapshots, node : Nodes])
      /\ Len(plan') <= MaxSnapshots /\ DOMAIN plan \subseteq DOMAIN plan'
  BY <1>8, Regenerated
<1>10. RestTypes'
  BY <1>1, <1>8, <1>9 DEF CompleteItem, RestTypes
<1> QED
  BY <1>2, <1>5, <1>6, <1>7, <1>10, KeptByReplay

LEMMA FeedbackKeeps ==
  ASSUME TypeOK, NEW k \in DOMAIN plan, NEW action \in {"started", "skipped"},
         NEW regenerates \in BOOLEAN, Feedback(k, action, regenerates)
  PROVE  Kept
<1>1. UNCHANGED <<rows, summaries, projects, level>>
  BY DEF Feedback
<1>2. /\ plan' \in Seq([before : 0 .. MaxSnapshots, node : Nodes])
      /\ Len(plan') <= MaxSnapshots /\ DOMAIN plan \subseteq DOMAIN plan'
  <2>1. CASE UNCHANGED plan
    BY <2>1 DEF TypeOK
  <2>2. CASE MayRegenerate /\ Regenerate(Len(plan))
    <3>1. Len(plan) \in 0 .. MaxSnapshots
      BY LearningAssumption DEF TypeOK
    <3> QED
      BY <2>2, <3>1, TypeParts, Regenerated
  <2> QED
    BY <2>1, <2>2 DEF Feedback
<1>3. RestTypes'
  BY <1>2, TypeParts DEF Feedback, RestTypes
<1>4. TypeOK'
  BY <1>1, <1>3, TypeParts DEF TypeOK, RestTypes
<1>5. LevelIsSupported => LevelIsSupported'
  BY <1>1, SupportParts DEF LevelIsSupported, Supported
<1> QED
  BY <1>4, <1>5 DEF Kept

(* The V0 projector runs on every node in the transaction of the change.   *)
LEMMA CommitKeeps ==
  ASSUME TypeOK, NEW a \in Ids, NEW row \in Rows \ {NoRow},
         row.revision \in 1 .. MaxRevision, NEW kind \in {"correct", "void"},
         Commit(a, row, kind)
  PROVE  Kept
<1>1. rows' \in [Ids -> Rows] /\ \A c \in Ids : (rows'[c] = NoRow) = (rows[c] = NoRow)
  <2>1. rows' = [rows EXCEPT ![a] = row] /\ rows \in [Ids -> Rows] /\ rows[a] # NoRow
    BY DEF Commit, TypeOK, Active, NoRow
  <2> QED
    BY <2>1
<1>2. SummaryTypes(rows', summaries')
  BY <1>1, TypeParts DEF Commit, SummaryTypes
<1>3. /\ level' \in [Nodes -> Levels]
      /\ \A n \in Nodes : Supported(level'[n], rows', summaries', projects', n)
  <2>1. level' = V0(rows', Nodes) /\ level \in [Nodes -> Levels]
    BY TypeParts DEF Commit
  <2> QED
    BY <2>1, V0Supported
<1>4. /\ plan' \in Seq([before : 0 .. MaxSnapshots, node : Nodes])
      /\ Len(plan') <= MaxSnapshots /\ DOMAIN plan \subseteq DOMAIN plan'
  <2>1. CASE UNCHANGED plan
    BY <2>1 DEF TypeOK
  <2>2. CASE MayRegenerate /\ Regenerate(Len(plan))
    <3>1. Len(plan) \in 0 .. MaxSnapshots
      BY LearningAssumption DEF TypeOK
    <3> QED
      BY <2>2, <3>1, TypeParts, Regenerated
  <2> QED
    BY <2>1, <2>2 DEF Commit, RegenerateIfPlanned
<1>5. todo' \subseteq [attempt : Ids, kind : {"correct", "void"}, revision : 1 .. MaxRevision]
  BY DEF Commit, TypeOK
<1>6. RestTypes'
  BY <1>4, <1>5, TypeParts DEF Commit, RestTypes
<1>7. TypeOK'
  BY <1>1, <1>2, <1>3, <1>6 DEF TypeOK, SummaryTypes, RestTypes, Levels
<1>8. LevelIsSupported'
  BY <1>3 DEF LevelIsSupported, Supported
<1> QED
  BY <1>7, <1>8 DEF Kept

LEMMA CorrectOrVoidKeeps ==
  ASSUME TypeOK, NEW a \in Ids,
         Void(a) \/ \E result \in Results : Correct(a, result)
  PROVE  Kept
<1>1. Active(rows, a) /\ rows[a].revision < MaxRevision
  BY DEF Correct, Void, Commit
<1>2. rows[a] \in Rows /\ rows[a].revision > 0
  BY <1>1 DEF Active, TypeOK
<1>3. CASE Void(a)
  <2>1. PICK result \in Results : TRUE
    BY <1>1, <1>2 DEF Rows, NoRow
  <2> QED
    BY <1>1, <1>2, <1>3, <2>1, RowChanged, CommitKeeps DEF Void
<1>4. CASE \E result \in Results : Correct(a, result)
  <2>1. PICK result \in Results : Correct(a, result)
    BY <1>4
  <2> QED
    BY <1>1, <1>2, <2>1, RowChanged, CommitKeeps DEF Correct
<1> QED
  BY <1>3, <1>4

(* A replay of the evidence alone, over the same records.                  *)
LEMMA EvidenceKeeps ==
  ASSUME TypeOK, ReplayEvidence(level, basis, rows, summaries, projects),
         UNCHANGED <<rows, summaries, projects>>, RestTypes'
  PROVE  Kept
<1>1. /\ level \in [Nodes -> Levels] /\ rows' \in [Ids -> Rows]
      /\ SummaryTypes(rows', summaries')
  BY TypeParts
<1>2. LevelIsSupported =>
        \A n \in Nodes : Supported(level[n], rows', summaries', projects', n)
  BY CurrentSupported
<1>3. ReplayEvidence(level, basis, rows', summaries', projects')
  OBVIOUS
<1> QED
  BY <1>1, <1>2, <1>3, KeptByReplay

LEMMA IdleKeeps ==
  ASSUME TypeOK, UNCHANGED <<rows, summaries, projects, level>>, RestTypes'
  PROVE  Kept
<1>1. TypeOK'
  BY TypeParts DEF TypeOK, RestTypes
<1>2. LevelIsSupported => LevelIsSupported'
  BY DEF LevelIsSupported
<1> QED
  BY <1>1, <1>2 DEF Kept

LEMMA FollowUpKeeps ==
  ASSUME TypeOK, NEW t \in todo, FollowCorrection(t) \/ FollowVoid(t)
  PROVE  Kept
<1>1. RestTypes'
  BY TypeParts DEF FollowCorrection, FollowVoid, RestTypes
<1>2. t.attempt \in Ids
  BY DEF TypeOK
<1>3. CASE FollowCorrection(t) /\ Active(rows, t.attempt)
  <2>1. Several(rows, t.attempt) \in BOOLEAN
    BY DEF Several
  <2>2. ReplayAttempt(level, basis, rows, projects, t.attempt, Several(rows, t.attempt))
    BY <1>3 DEF FollowCorrection
  <2>3. UNCHANGED <<rows, projects>>
    BY <1>3 DEF FollowCorrection
  <2> QED
    BY <1>1, <1>2, <1>3, <2>1, <2>2, <2>3, ReplayKeeps
<1>4. CASE FollowCorrection(t) /\ ~Active(rows, t.attempt)
  BY <1>1, <1>4, IdleKeeps DEF FollowCorrection
<1>5. CASE FollowVoid(t)
  BY <1>1, <1>5, EvidenceKeeps DEF FollowVoid
<1> QED
  BY <1>3, <1>4, <1>5

LEMMA NextKeeps == TypeOK /\ [Next]_vars => Kept
<1> SUFFICES ASSUME TypeOK, [Next]_vars PROVE Kept
  OBVIOUS
<1>1. ASSUME NEW a \in Captured, NEW result \in Results, NEW t \in Times \cup 1 .. now,
             Ingest(a, result, t)
      PROVE  Kept
  BY <1>1, IngestKeeps
<1>2. ASSUME NEW a \in Captured, Redeliver(a) PROVE Kept
  BY <1>2, RedeliverKeeps
<1>3. ASSUME NEW m \in Milestones, NEW outcome \in Outcomes, NEW t \in Times,
             CompleteMilestone(m, outcome, t)
      PROVE  Kept
  BY <1>3, CompleteMilestoneKeeps
<1>4. ASSUME NEW k \in DOMAIN plan, NEW result \in Results, NEW t \in Times,
             CompleteItem(k, result, t)
      PROVE  Kept
  BY <1>4, CompleteItemKeeps
<1>5. ASSUME NEW k \in DOMAIN plan, NEW action \in {"started", "skipped"},
             NEW regenerates \in BOOLEAN, Feedback(k, action, regenerates)
      PROVE  Kept
  BY <1>5, FeedbackKeeps
<1>6. ASSUME NEW a \in Ids, Void(a) \/ \E result \in Results : Correct(a, result)
      PROVE  Kept
  BY <1>6, CorrectOrVoidKeeps
<1>7. ASSUME NEW a \in Ids, RepeatVoid(a) PROVE Kept
  <2>1. RestTypes'
    BY <1>7, TypeParts DEF RepeatVoid, RestTypes
  <2> QED
    BY <1>7, <2>1, EvidenceKeeps DEF RepeatVoid
<1>8. ASSUME NEW t \in todo, FollowCorrection(t) \/ FollowVoid(t) PROVE Kept
  BY <1>8, FollowUpKeeps
<1>9. CASE Crash
  <2>1. RestTypes'
    BY <1>9, TypeParts DEF Crash, RestTypes
  <2> QED
    BY <1>9, <2>1, IdleKeeps DEF Crash
<1>10. CASE UNCHANGED vars
  <2>1. RestTypes'
    BY <1>10, TypeParts DEF vars, RestTypes
  <2> QED
    BY <1>10, <2>1, IdleKeeps DEF vars
<1> QED
  BY <1>1, <1>2, <1>3, <1>4, <1>5, <1>6, <1>7, <1>8, <1>9, <1>10 DEF Next

(* Type correctness: the tables and the follow-ups of requests keep the    *)
(* types their transactions write.                                         *)
THEOREM LearningTypes == Spec => []TypeOK
<1>1. TypeOK /\ [Next]_vars => TypeOK'
  BY NextKeeps DEF Kept
<1> QED
  BY <1>1, InitTypes, PTL DEF Spec

(* Whatever a correction or a void takes away stops supporting a level     *)
(* with the request itself: LevelIsSupported holds for every catalogue,    *)
(* number of records and order of requests, crashes included.              *)
THEOREM LevelsSupported == Spec => []LevelIsSupported
<1> DEFINE IInv == TypeOK /\ LevelIsSupported
<1>1. Init => IInv
  <2>1. Init => LevelIsSupported
    BY PassLevelType, TargetType DEF Init, LevelIsSupported, Levels
  <2> QED
    BY <2>1, InitTypes
<1>2. IInv /\ [Next]_vars => IInv'
  BY NextKeeps DEF Kept
<1> QED
  BY <1>1, <1>2, PTL DEF Spec
-----------------------------------------------------------------------------
(* The chain of snapshots.                                                 *)
LEMMA ChainGrows ==
  ASSUME TypeOK, LineageIsChain, MayRegenerate, Regenerate(Len(plan))
  PROVE  LineageIsChain'
<1>1. Len(plan) \in 0 .. MaxSnapshots /\ plan \in Seq([before : 0 .. MaxSnapshots, node : Nodes])
  BY LearningAssumption DEF TypeOK
<1>2. /\ plan' \in Seq([before : 0 .. MaxSnapshots, node : Nodes])
      /\ Len(plan') = Len(plan) + 1
      /\ \A i \in DOMAIN plan : plan'[i] = plan[i]
      /\ plan'[Len(plan')].before = Len(plan)
  BY <1>1, TypeParts, Regenerated
<1>3. ASSUME NEW i \in DOMAIN plan'
      PROVE  plan'[i].before = i - 1
  <2>1. CASE i \in DOMAIN plan
    BY <1>2, <2>1 DEF LineageIsChain
  <2>2. CASE i = Len(plan')
    BY <1>1, <1>2, <2>2
  <2> QED
    BY <1>1, <1>2, <2>1, <2>2
<1> QED
  BY <1>3 DEF LineageIsChain

(* A step leaves the plan as it is or gives its latest snapshot a          *)
(* successor.                                                              *)
LEMMA PlanSteps ==
  ASSUME TypeOK, [Next]_vars
  PROVE  UNCHANGED plan \/ (MayRegenerate /\ Regenerate(Len(plan)))
<1>1. ASSUME NEW k \in DOMAIN plan, NEW result \in Results, NEW t \in Times,
             CompleteItem(k, result, t)
      PROVE  MayRegenerate /\ Regenerate(Len(plan))
  BY <1>1 DEF CompleteItem
<1>2. ASSUME NEW k \in DOMAIN plan, NEW action \in {"started", "skipped"},
             NEW regenerates \in BOOLEAN, Feedback(k, action, regenerates)
      PROVE  UNCHANGED plan \/ (MayRegenerate /\ Regenerate(Len(plan)))
  BY <1>2 DEF Feedback
<1>3. ASSUME NEW a \in Ids, Void(a) \/ \E result \in Results : Correct(a, result)
      PROVE  UNCHANGED plan \/ (MayRegenerate /\ Regenerate(Len(plan)))
  BY <1>3 DEF Correct, Void, Commit, RegenerateIfPlanned
<1> QED
  BY <1>1, <1>2, <1>3
     DEF Next, vars, Ingest, Redeliver, CompleteMilestone, FollowCorrection,
         FollowVoid, RepeatVoid, Crash

(* Completions, feedback on items of older snapshots, corrections and      *)
(* voids never give a snapshot two successors.                             *)
THEOREM LineageChain == Spec => []LineageIsChain
<1> DEFINE IInv == TypeOK /\ LineageIsChain
<1>1. Init => IInv
  <2>1. Init => LineageIsChain
    BY DEF Init, LineageIsChain
  <2> QED
    BY <2>1, InitTypes
<1>2. IInv /\ [Next]_vars => IInv'
  <2> SUFFICES ASSUME TypeOK, LineageIsChain, [Next]_vars PROVE IInv'
    OBVIOUS
  <2>1. TypeOK'
    BY NextKeeps DEF Kept
  <2>2. CASE UNCHANGED plan
    BY <2>1, <2>2 DEF LineageIsChain
  <2>3. CASE MayRegenerate /\ Regenerate(Len(plan))
    BY <2>1, <2>3, ChainGrows
  <2> QED
    BY <2>2, <2>3, PlanSteps
<1> QED
  BY <1>1, <1>2, PTL DEF Spec
=============================================================================
