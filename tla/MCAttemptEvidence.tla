-------------------------- MODULE MCAttemptEvidence --------------------------
(***************************************************************************)
(* Two attempts of one page.  The first can be corrected there and back    *)
(* again, the second only changes how many submissions are counted.        *)
(***************************************************************************)
EXTENDS AttemptEvidence, TLC

CONSTANTS a1, a2

TwoAttempts == {a1, a2}
Corrected == [a \in TwoAttempts |-> IF a = a1 THEN 3 ELSE 1]
OneAttempt == {a1}
CorrectedOnce == [a \in OneAttempt |-> 2]

(* No property tells one result from the other.                            *)
Symmetry == Permutations(Results)
=============================================================================
