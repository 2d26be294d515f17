--------------------------- MODULE MCCaptureIngest ---------------------------
(***************************************************************************)
(* A small instance of CaptureIngest: one page visited for two submissions *)
(* that overlap in time, a third bundle of another session that reuses a   *)
(* submission id, and single events of an older client that come early,    *)
(* late, twice or with a changed payload.                                  *)
(***************************************************************************)
EXTENDS CaptureIngest

MCSessions == {"s1", "s2"}
MCSubmissions == {"x", "y"}
MCProblems == {"p", "q"}
MCVerdicts == {"passed", "failed"}

E(id, kind, session, submission, problem, at, result) ==
  [id |-> id, kind |-> kind, session |-> session, submission |-> submission,
   problem |-> problem, at |-> at, result |-> result]

(* buildSafeBundle: the verdict's time also ends the session.              *)
BundleOf(id, session, submission, problem, start, submit, verdict, result) ==
  <<E(id, "start", session, NoSubmission, problem, start, result),
    E(id + 1, "submit", session, submission, problem, submit, result),
    E(id + 2, "verdict", session, submission, problem, verdict, result),
    E(id + 3, "end", session, NoSubmission, problem, verdict, result)>>

FirstSubmission == BundleOf(10, "s1", "x", "p", 2, 3, 4, "failed")
Overlapping     == BundleOf(20, "s1", "y", "p", 3, 4, 6, "passed")
OtherSession    == BundleOf(30, "s2", "x", "q", 1, 2, 5, "passed")
NextSubmission  == BundleOf(40, "s1", "y", "p", 5, 6, 7, "passed")

MCBundles == {FirstSubmission, Overlapping, OtherSession}

(* One page, two submissions one after the other.                          *)
OnePage == {FirstSubmission, NextSubmission}

MCSingles ==
  {FirstSubmission[2], Overlapping[3],                  \* also sent alone
   [FirstSubmission[2] EXCEPT !.at = 1],                \* changed payload
   E(51, "verdict", "s1", "x", "p", 4, "passed"),       \* same time, newer id
   E(52, "verdict", "s1", "x", "p", 2, "passed"),       \* before its submit
   E(53, "end", "s1", NoSubmission, "p", 2, "passed"),  \* page left early
   E(54, "start", "s2", NoSubmission, "p", 1, "passed"), \* other problem
   E(55, "verdict", "s2", "y", "p", 3, "failed")}       \* other session

NoSingles == {}
=============================================================================
