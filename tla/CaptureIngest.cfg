SPECIFICATION Spec
CONSTANTS
  Sessions <- MCSessions
  Submissions <- MCSubmissions
  Problems <- MCProblems
  Verdicts <- MCVerdicts
  Singles <- MCSingles
  Bundles <- MCBundles
INVARIANTS
  TypeOK
  RowsFollowLedger
  WholeBundles
  OneLink
  AckedReplays
PROPERTY
  RefusalIsFinal
