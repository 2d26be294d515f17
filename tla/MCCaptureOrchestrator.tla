------------------------ MODULE MCCaptureOrchestrator ------------------------
(* Two submissions: of one problem or of two, by pairs of flows that share *)
(* a document; and one alone whose page polls twice.                       *)
EXTENDS CaptureOrchestrator, TLC

CONSTANTS s1, s2

Flow(f, p, n) == [flow |-> f, prob |-> p, polls |-> n]
Pair(x, y) == {(s1 :> x) @@ (s2 :> y), (s1 :> y) @@ (s2 :> x)}
Alone(x) == Pair(x, Flow("absent", "p", 0))

MCSetups ==
  Pair(Flow("check", "p", 1), Flow("check", "p", 1))
    \cup Pair(Flow("check", "p", 1), Flow("result", "p", 1))
    \cup Pair(Flow("status", "r", 1), Flow("status", "r", 1))
    \cup Pair(Flow("legacy", "p", 1), Flow("check", "p", 0))
    \cup Alone(Flow("legacy", "p", 2)) \cup Alone(Flow("result", "p", 2))
    \cup Alone(Flow("status", "r", 2))

(* One NowCoder submission only.                                           *)
MCStatusOnly == Alone(Flow("status", "r", 1))

(* The two submissions are alike: every set of setups is closed under      *)
(* exchanging them, and no CHOOSE picks between them.                      *)
MCSymmetry == Permutations({s1, s2})
=============================================================================
