SPECIFICATION Spec
CONSTANTS
  Sessions <- MCSessions
  Submissions <- MCSubmissions
  Problems <- MCProblems
  Verdicts <- MCVerdicts
  Singles <- NoSingles
  Bundles <- OnePage
INVARIANT
  SubmissionsShareSession
