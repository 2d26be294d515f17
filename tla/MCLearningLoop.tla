---------------------------- MODULE MCLearningLoop ----------------------------
(***************************************************************************)
(* Two nodes: a captured attempt and a milestone of the first also support *)
(* the second.                                                             *)
(***************************************************************************)
EXTENDS LearningLoop, TLC

CONSTANTS c1, c2, m1, arrays, graphs

OnBoth == [n \in {arrays, graphs} |-> IF n = arrays THEN "primary" ELSE "supporting"]
OnOne == [n \in {arrays, graphs} |-> IF n = arrays THEN "primary" ELSE "none"]

MCRole == (c1 :> OnBoth) @@ (c2 :> OnOne) @@ (m1 :> OnOne)
=============================================================================
