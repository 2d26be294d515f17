-------------------------- MODULE SubmissionLedger --------------------------
(***************************************************************************)
(* What the capture orchestrator promises of the submissions it observes: *)
(* a submission becomes confirmed at most once at a time, a confirmed one  *)
(* leaves that state only by becoming final, and a bundle is enqueued only *)
(* when a submission becomes final.  A final submission may be forgotten,  *)
(* because the record of it (a tombstone) is bounded in number and in age; *)
(* only then may the same submission be confirmed, and bundled, again.     *)
(***************************************************************************)
EXTENDS Naturals

CONSTANT Sub            \* the submissions

VARIABLES
    status,             \* Sub -> unseen, confirmed or final
    bundles,            \* Sub -> how many bundles were enqueued for it
    forgets             \* Sub -> how often its final state was forgotten

vars == <<status, bundles, forgets>>

Init ==
    /\ status = [s \in Sub |-> "unseen"]
    /\ bundles = [s \in Sub |-> 0]
    /\ forgets = [s \in Sub |-> 0]

\* Forgetting the final submissions F is part of the step that records
\* a submission, so every action takes the set it forgets.
Forgotten(F) ==
    /\ F \subseteq {s \in Sub : status[s] = "final"}
    /\ forgets' = [s \in Sub |-> forgets[s] + (IF s \in F THEN 1 ELSE 0)]

Confirm(s, F) ==
    /\ Forgotten(F)
    /\ s \in F \/ status[s] = "unseen"
    /\ status' = [t \in Sub |-> IF t = s THEN "confirmed"
                                ELSE IF t \in F THEN "unseen" ELSE status[t]]
    /\ UNCHANGED bundles

\* The bundle of a submission finalized again after it was forgotten may
\* still wait in the outbox, and is then not enqueued a second time.
Finalize(s, F) ==
    /\ Forgotten(F)
    /\ status[s] = "confirmed"
    /\ status' = [t \in Sub |-> IF t = s THEN "final"
                                ELSE IF t \in F THEN "unseen" ELSE status[t]]
    /\ bundles' \in {bundles, [bundles EXCEPT ![s] = @ + 1]}

\* A verdict that waited for its confirmation finalizes it in one step.
ConfirmAndFinalize(s, F) ==
    /\ Forgotten(F)
    /\ s \in F \/ status[s] = "unseen"
    /\ status' = [t \in Sub |-> IF t = s THEN "final"
                                ELSE IF t \in F THEN "unseen" ELSE status[t]]
    /\ bundles' \in {bundles, [bundles EXCEPT ![s] = @ + 1]}

\* A confirmation that repeats an earlier one only forgets.
Forget(F) ==
    /\ Forgotten(F)
    /\ status' = [t \in Sub |-> IF t \in F THEN "unseen" ELSE status[t]]
    /\ UNCHANGED bundles

Next ==
    \E F \in SUBSET Sub :
        \/ Forget(F)
        \/ \E s \in Sub : \/ Confirm(s, F)
                         \/ Finalize(s, F)
                         \/ ConfirmAndFinalize(s, F)

Spec == Init /\ [][Next]_vars

(* A submission is bundled once more than it was forgotten at most, and     *)
(* not at all before it is final: tombstones are what stands between a      *)
(* late verdict and a duplicate attempt (confirmedSubmissionStorage.ts).    *)
OneBundle ==
    \A s \in Sub :
        bundles[s] <= forgets[s] + (IF status[s] = "final" THEN 1 ELSE 0)
=============================================================================
