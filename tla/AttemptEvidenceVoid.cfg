SPECIFICATION Spec
CONSTANTS
  a1 = a1
  a2 = a2
  Attempts <- OneAttempt
  Results = {passed, failed}
  MaxRevision <- CorrectedOnce
INVARIANT
  AnsweredVoidIsComplete
