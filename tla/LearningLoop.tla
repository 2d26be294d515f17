----------------------------- MODULE LearningLoop -----------------------------
(***************************************************************************)
(* What a learner's records do to the ability levels and to the daily      *)
(* plan: captured attempts, completed plan items, project milestones,      *)
(* feedback, corrections and voids (lib/services/evidenceAbilityReplay.ts, *)
(* evidenceAbilityProjector.ts, abilityProjector.ts, abilityReprojection.  *)
(* ts, learningCompletion.ts, planRegeneration.ts, lib/api/planFeedback.   *)
(* ts).                                                                    *)
(*                                                                         *)
(* Two projectors write the same levels.  The V0 projector recomputes a    *)
(* level from attempt rows, never above 2; it runs in the transaction of a *)
(* completion, a correction or a void.  The evidence projector moves a     *)
(* level one step from where it stands, when the facts of the node changed *)
(* since its last run.  After a correction or a void it runs in a later    *)
(* transaction: other requests come between, and the process may die.      *)
(***************************************************************************)
EXTENDS Integers, FiniteSets, Sequences

CONSTANTS
  Nodes,         \* knowledge nodes
  Planned,       \* nodes the plan generator chooses tasks of
  Results,       \* results of an attempt
  Outcomes,      \* outcomes of a milestone's session
  Captured,      \* captured attempts, all of one capture session
  Milestones,    \* project milestones, one session each
  Transfer,      \* milestones that ask for an unfamiliar change
  Role,          \* role of a node in a captured attempt or a milestone
  Repeated,      \* submissions without progress that count as trial and error
  Week,          \* time after which a second pass re-verifies the first
  Steps,         \* bound: how far the clock moves between two records
  MaxNow,        \* bound: the clock
  MaxSnapshots,  \* bound: daily snapshots of the plan
  MaxRevision,   \* bound: revisions of each attempt
  MaxFeedback    \* bound: feedback rows

Roles == {"primary", "supporting", "none"}

ASSUME LearningAssumption ==
  /\ IsFiniteSet(Captured) /\ Planned \subseteq Nodes
  /\ Results \subseteq {"passed", "failed", "partial"}
  /\ Outcomes \subseteq {"independent", "assisted", "productive"}
  /\ Captured \cap Milestones = {} /\ Transfer \subseteq Milestones
  /\ Role \in [Captured \cup Milestones -> [Nodes -> Roles]]
  /\ Repeated \in Nat /\ Week \in Nat /\ Steps \subseteq Nat \ {0}
  /\ MaxNow \in Nat /\ MaxFeedback \in Nat
  /\ MaxSnapshots \in Nat \ {0} /\ MaxRevision \in Nat \ {0}
  /\ (Captured \cup Milestones) \cap (1 .. MaxSnapshots) = {}

VARIABLES
  rows,       \* training_attempts
  summaries,  \* summaries of each attempt, and the one that counts
  projects,   \* completed milestone sessions
  level,      \* ability_snapshots: the visible level of a node, 0 to 5
  basis,      \* the facts its level was last projected from; {}: V0 or none
  plan,       \* daily snapshots of the learning plan, in order of creation
  feedback,   \* task_feedback other than "completed"
  now,        \* time of the last record
  todo        \* corrections and voids that have committed, not followed up

vars == <<rows, summaries, projects, level, basis, plan, feedback, now, todo>>

(* A completed plan item gives its attempt the item's name, here the       *)
(* number of its snapshot: only the primary item can be completed.         *)
Ids == Captured \cup 1 .. MaxSnapshots

NoRow == [result |-> "none", at |-> 0, node |-> "none", revision |-> 0,
          voided |-> FALSE]
NoSummary == [result |-> "none", count |-> 0, sequence |-> FALSE]
NoSession == [outcome |-> "none", at |-> 0]

Init ==
  /\ rows = [a \in Ids |-> NoRow]
  /\ summaries = [a \in Ids |-> [all |-> {}, top |-> NoSummary]]
  /\ projects = [m \in Milestones |-> NoSession]
  /\ level = [n \in Nodes |-> 0]
  /\ basis = [n \in Nodes |-> {}]
  /\ plan \in {<<>>} \cup {<<[before |-> 0, node |-> n]>> : n \in Planned}
  /\ feedback = {} /\ now = 0 /\ todo = {}
-----------------------------------------------------------------------------
(* Rows and their role on a node: that of the problem in the catalogue, or *)
(* primary for the node of the completed item.                             *)
Active(r, a) == r[a].revision > 0 /\ ~r[a].voided

RoleOf(r, a, n) ==
  IF a \in Captured THEN Role[a][n]
  ELSE IF r[a].node = n THEN "primary" ELSE "none"

Entries(r, n, role) == {a \in Ids : Active(r, a) /\ RoleOf(r, a, n) = role}

Passes(r, n, role) == {a \in Entries(r, n, role) : r[a].result = "passed"}

(* The two latest members of S, by their times, are both in B.             *)
LatestTwoIn(S, B, time) ==
  \E x, y \in S \cap B :
    /\ time[x] < time[y]
    /\ \A z \in S \ {x, y} : time[z] < time[x]

(* projectSingleNode: what the passes alone are worth.                     *)
PassLevel(r, n) ==
  IF \E x, y \in Passes(r, n, "primary") : r[y].at - r[x].at >= Week /\ x # y
  THEN 2
  ELSE IF Passes(r, n, "primary") \cup Passes(r, n, "supporting") # {}
       THEN 1 ELSE 0

LatestTwoFailed(r, n) ==
  LatestTwoIn(Entries(r, n, "primary"), {a \in Ids : r[a].result = "failed"},
              [a \in Ids |-> r[a].at])

V0Level(r, n) ==
  IF LatestTwoFailed(r, n) /\ PassLevel(r, n) > 0 THEN PassLevel(r, n) - 1
  ELSE PassLevel(r, n)

Mapped(r) ==
  {n \in Nodes : Entries(r, n, "primary") \cup Entries(r, n, "supporting") # {}}
-----------------------------------------------------------------------------
(* The facts of a node: the summary that counts of each active attempt,    *)
(* and the completed milestones.  An attempt never says whether help was   *)
(* used, so it is unproductive (from the third submission of its session)  *)
(* or insufficient, whatever its result.                                   *)
AttemptFact(r, s, a, n) ==
  [source |-> a, at |-> r[a].at, role |-> RoleOf(r, a, n), summary |-> s[a].top,
   outcome |-> IF s[a].top.count >= Repeated THEN "unproductive"
               ELSE "insufficient"]

ProjectFact(p, m, n) ==
  [source |-> m, at |-> p[m].at, role |-> Role[m][n], summary |-> NoSummary,
   outcome |-> p[m].outcome]

Facts(r, s, p, n) ==
  {AttemptFact(r, s, a, n) :
     a \in {b \in Ids : Active(r, b) /\ RoleOf(r, b, n) # "none"}}
  \cup {ProjectFact(p, m, n) :
     m \in {k \in Milestones : p[k] # NoSession /\ Role[k][n] # "none"}}

Primary(F, outcome) ==
  {f \in F : f.role = "primary" /\ f.outcome = outcome}

(* projectEvidenceAbility: the level the facts support.  Two independent   *)
(* facts are of two milestones, that is of two tasks.                      *)
Target(F) ==
  IF \E f \in Primary(F, "independent") : f.source \in Transfer THEN 5
  ELSE IF \E f, g \in Primary(F, "independent") : f # g THEN 4
  ELSE IF Primary(F, "independent") # {} THEN 3
  ELSE IF Primary(F, "assisted") # {} THEN 2
  ELSE IF \/ Primary(F, "productive") # {}
          \/ \E f \in F : f.role = "supporting"
       THEN 1 ELSE 0

(* Mutant of Moved: a level of 0 is lowered too.                           *)
MovedBelow(l, F) ==
  IF LatestTwoIn({f \in F : f.role = "primary"}, Primary(F, "unproductive"),
                 [f \in F |-> f.at])
  THEN l - 1
  ELSE IF Target(F) > l THEN l + 1 ELSE l

(* One step up towards the target, or one down.                            *)
Moved(l, F) ==
  IF /\ LatestTwoIn({f \in F : f.role = "primary"}, Primary(F, "unproductive"),
                    [f \in F |-> f.at])
     /\ l > 0
  THEN l - 1
  ELSE IF Target(F) > l THEN l + 1 ELSE l

(* replayEvidenceAbility, from levels l that were projected from b.        *)
ReplayEvidence(l, b, r, s, p) ==
  LET F == [n \in Nodes |-> Facts(r, s, p, n)]
  IN  /\ level' = [n \in Nodes |-> IF F[n] \in {{}, b[n]} THEN l[n]
                                   ELSE Moved(l[n], F[n])]
      /\ basis' = [n \in Nodes |-> IF F[n] = {} THEN b[n] ELSE F[n]]

(* The V0 projector overwrites the snapshots of the nodes S.               *)
V0(r, S) == [n \in Nodes |-> IF n \in S THEN V0Level(r, n) ELSE level[n]]
V0Basis(S) == [n \in Nodes |-> IF n \in S THEN {} ELSE basis[n]]

(* Summary rows are keyed by the classifier's input.  Those of one attempt *)
(* carry the same time, and the larger random id decides which one counts. *)
Saved(s, key) ==
  [all : {s.all \cup {key}},
   top : IF key \in s.all THEN {s.top}
         ELSE IF s.all = {} THEN {key} ELSE {s.top, key}]

Key(r, a, sequence) ==
  [result |-> r[a].result, sequence |-> sequence,
   count |-> IF a \in Captured
             THEN Cardinality({b \in Captured : Active(r, b)}) ELSE 1]

Several(r, a) == Key(r, a, FALSE).count > 1

(* replayAttemptEvidence and then replayEvidenceAbility.                   *)
ReplayAttempt(l, b, r, p, a, sequence) ==
  \E saved \in Saved(summaries[a], Key(r, a, sequence)) :
    /\ summaries' = [summaries EXCEPT ![a] = saved]
    /\ ReplayEvidence(l, b, r, summaries', p)

(* regenerateDailyPlan: the successor of a snapshot, on any task.          *)
Regenerate(before) ==
  \E n \in Planned : plan' = Append(plan, [before |-> before, node |-> n])

MayRegenerate == Len(plan) < MaxSnapshots

NewRow(result, t, node) ==
  [result |-> result, at |-> t, node |-> node, revision |-> 1, voided |-> FALSE]

(* No two records are made in the same millisecond.                        *)
Unused(t) == /\ \A a \in Ids : rows[a].at # t
             /\ \A m \in Milestones : projects[m].at # t
-----------------------------------------------------------------------------
(* POST /api/capture/attempts, first time.  The bundle may arrive late.    *)
Ingest(a, result, t) ==
  /\ rows[a] = NoRow
  /\ Unused(t)
  /\ rows' = [rows EXCEPT ![a] = NewRow(result, t, "none")]
  /\ now' = IF t > now THEN t ELSE now
  /\ ReplayAttempt(level, basis, rows', projects, a, TRUE)
  /\ UNCHANGED <<projects, plan, feedback, todo>>

(* The same bundle again.                                                  *)
Redeliver(a) ==
  /\ Active(rows, a)
  /\ ReplayAttempt(level, basis, rows, projects, a, TRUE)
  /\ UNCHANGED <<rows, projects, plan, feedback, now, todo>>

(* completeProjectSessionEvidence; a supporting node counts as support.    *)
CompleteMilestone(m, outcome, t) ==
  /\ projects[m] = NoSession
  /\ projects' = [projects EXCEPT ![m] = [outcome |-> outcome, at |-> t]]
  /\ now' = t
  /\ ReplayEvidence(level, basis, rows, summaries, projects')
  /\ UNCHANGED <<rows, summaries, plan, feedback, todo>>

(* completePlanItem: attempt, V0 levels, evidence levels and the successor *)
(* of the item's snapshot in one transaction.  A completed item is only    *)
(* answered again.                                                         *)
CompleteItem(k, result, t) ==
  /\ rows[k] = NoRow /\ k = Len(plan) /\ MayRegenerate
  /\ rows' = [rows EXCEPT ![k] = NewRow(result, t, plan[k].node)]
  /\ now' = t
  /\ LET S == Mapped(rows') \cup {plan[k].node}
     IN  ReplayAttempt(V0(rows', S), V0Basis(S), rows', projects, k, FALSE)
  /\ Regenerate(k)
  /\ UNCHANGED <<projects, feedback, todo>>

(* Mutant of Feedback: the successor is of the item's own snapshot.        *)
FeedbackOnItem(k, action, regenerates) ==
  /\ <<k, action>> \notin feedback /\ Cardinality(feedback) < MaxFeedback
  /\ action = "skipped" => regenerates
  /\ feedback' = feedback \cup {<<k, action>>}
  /\ IF regenerates THEN MayRegenerate /\ Regenerate(k) ELSE UNCHANGED plan
  /\ UNCHANGED <<rows, summaries, projects, level, basis, now, todo>>

(* applyFeedback to an item of any snapshot: a skip, or a changed effort   *)
(* or mode, gives the latest snapshot a successor.                         *)
Feedback(k, action, regenerates) ==
  /\ <<k, action>> \notin feedback /\ Cardinality(feedback) < MaxFeedback
  /\ action = "skipped" => regenerates
  /\ feedback' = feedback \cup {<<k, action>>}
  /\ IF regenerates THEN MayRegenerate /\ Regenerate(Len(plan))
     ELSE UNCHANGED plan
  /\ UNCHANGED <<rows, summaries, projects, level, basis, now, todo>>

RegenerateIfPlanned ==
  IF plan = <<>> THEN UNCHANGED plan
  ELSE MayRegenerate /\ Regenerate(Len(plan))

(* Mutant of Commit: the levels are left to the follow-up.                 *)
CommitOnly(a, row, kind) ==
  /\ Active(rows, a) /\ rows[a].revision < MaxRevision
  /\ rows' = [rows EXCEPT ![a] = row]
  /\ RegenerateIfPlanned
  /\ todo' = todo \cup {[attempt |-> a, kind |-> kind, revision |-> row.revision]}
  /\ UNCHANGED <<summaries, projects, level, basis, feedback, now>>

(* wrapWithReprojection: the changed row, the V0 levels of every node and  *)
(* the plan's successor in one transaction.                                *)
Commit(a, row, kind) ==
  /\ Active(rows, a) /\ rows[a].revision < MaxRevision
  /\ rows' = [rows EXCEPT ![a] = row]
  /\ level' = V0(rows', Nodes) /\ basis' = V0Basis(Nodes)
  /\ RegenerateIfPlanned
  /\ todo' = todo \cup {[attempt |-> a, kind |-> kind, revision |-> row.revision]}
  /\ UNCHANGED <<summaries, projects, feedback, now>>

Correct(a, result) ==
  Commit(a, [rows[a] EXCEPT !.result = result, !.revision = @ + 1], "correct")

Void(a) ==
  Commit(a, [rows[a] EXCEPT !.voided = TRUE, !.revision = @ + 1], "void")

(* The request's second half reads the row again; it fails if the attempt  *)
(* was voided meanwhile.                                                   *)
FollowCorrection(t) ==
  /\ t.kind = "correct"
  /\ todo' = todo \ {t}
  /\ IF Active(rows, t.attempt)
     THEN ReplayAttempt(level, basis, rows, projects, t.attempt,
                        Several(rows, t.attempt))
     ELSE UNCHANGED <<level, basis, summaries>>
  /\ UNCHANGED <<rows, projects, plan, feedback, now>>

FollowVoid(t) ==
  /\ t.kind = "void"
  /\ todo' = todo \ {t}
  /\ ReplayEvidence(level, basis, rows, summaries, projects)
  /\ UNCHANGED <<rows, summaries, projects, plan, feedback, now>>

(* A void of a voided attempt only replays the evidence.                   *)
RepeatVoid(a) ==
  /\ rows[a].voided
  /\ ReplayEvidence(level, basis, rows, summaries, projects)
  /\ UNCHANGED <<rows, summaries, projects, plan, feedback, now, todo>>

(* The server process dies.                                                *)
Crash ==
  /\ todo # {} /\ todo' = {}
  /\ UNCHANGED <<rows, summaries, projects, level, basis, plan, feedback, now>>

Times == {t \in {now + d : d \in Steps} : t <= MaxNow}

Next ==
  \/ \E a \in Captured, result \in Results, t \in Times \cup 1 .. now :
       Ingest(a, result, t)
  \/ \E a \in Captured : Redeliver(a)
  \/ \E m \in Milestones, outcome \in Outcomes, t \in Times :
       CompleteMilestone(m, outcome, t)
  \/ \E k \in DOMAIN plan, result \in Results, t \in Times :
       CompleteItem(k, result, t)
  \/ \E k \in DOMAIN plan, action \in {"started", "skipped"},
        regenerates \in BOOLEAN : Feedback(k, action, regenerates)
  \/ \E a \in Ids, result \in Results : Correct(a, result)
  \/ \E a \in Ids : Void(a) \/ RepeatVoid(a)
  \/ \E t \in todo : FollowCorrection(t) \/ FollowVoid(t)
  \/ Crash

Spec == Init /\ [][Next]_vars
-----------------------------------------------------------------------------
Rows == {NoRow} \cup
  [result : Results, at : 1 .. MaxNow, node : Nodes \cup {"none"},
   revision : 1 .. MaxRevision, voided : BOOLEAN]

Keys == [result : Results, sequence : BOOLEAN, count : 0 .. Cardinality(Captured) + 1]

(* Type invariant: the tables and the requests under way; an attempt with  *)
(* a row has a summary that counts, one without has none.                  *)
TypeOK ==
  /\ rows \in [Ids -> Rows]
  /\ summaries \in [Ids -> [all : SUBSET Keys, top : Keys \cup {NoSummary}]]
  /\ \A a \in Ids : IF rows[a] = NoRow THEN summaries[a].all = {}
                     ELSE summaries[a].top \in summaries[a].all
  /\ projects \in [Milestones -> {NoSession} \cup
                                 [outcome : Outcomes, at : 1 .. MaxNow]]
  /\ level \in [Nodes -> 0 .. 5]
  /\ plan \in Seq([before : 0 .. MaxSnapshots, node : Nodes])
  /\ Len(plan) <= MaxSnapshots
  /\ feedback \subseteq (DOMAIN plan) \X {"started", "skipped"}
  /\ now \in 0 .. MaxNow
  /\ todo \subseteq [attempt : Ids, kind : {"correct", "void"},
                     revision : 1 .. MaxRevision]

(* A level never exceeds what the attempts and projects that still count   *)
(* support, by the V0 rules or by the evidence rules: whatever was voided  *)
(* or corrected stops counting with the request itself, not with its       *)
(* follow-up, which may come late or never.                                *)
LevelIsSupported ==
  \A n \in Nodes :
    \/ level[n] <= PassLevel(rows, n)
    \/ level[n] <= Target(Facts(rows, summaries, projects, n))

(* The daily snapshots form one chain: each has at most one successor,     *)
(* however completions, feedback on old items and corrections follow each  *)
(* other.                                                                  *)
LineageIsChain == \A k \in DOMAIN plan : plan[k].before = k - 1
=============================================================================
