--------------------------- MODULE MCSubmitEpochs ---------------------------
(* Two submissions of one problem on one page, by pairs of flows; of two   *)
(* problems; and of one problem with its result page and another page.     *)
EXTENDS SubmitEpochs, TLC

CONSTANTS n1, n2

Flow(f, p) == [flow |-> f, prob |-> p]
At(p, x) == [prob |-> p, exact |-> x]
Setup(a, b, places, n, t) == [sub |-> <<a, b>>, places |-> places, room |-> n, until |-> t]

OnePage == {At("p", FALSE)}

MCSetups ==
  {Setup(Flow("post", "p"), Flow("post", "p"), OnePage, 2, 3),
   Setup(Flow("post", "p"), Flow("result", "p"), OnePage, 2, 4),
   Setup(Flow("result", "p"), Flow("post", "p"), OnePage, 1, 3),
   Setup(Flow("result", "p"), Flow("result", "p"), OnePage, 1, 4),
   Setup(Flow("result", "p"), Flow("post", "q"), OnePage \cup {At("q", FALSE)}, 1, 3),
   Setup(Flow("post", "p"), Flow("post", "q"),
         OnePage \cup {At("p", TRUE), At("none", FALSE)}, 1, 4)}
MCReq == 1 .. 2
MCSymmetry == Permutations({n1, n2})
=============================================================================
