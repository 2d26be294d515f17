SPECIFICATION Spec
CONSTANTS
  a1 = a1
  a2 = a2
  Attempts <- TwoAttempts
  Results = {passed, failed}
  MaxRevision <- Corrected
SYMMETRY Symmetry
INVARIANTS
  TypeOK
  EvidenceCurrent
  NoReviewOfVoided
  ReviewsFollowResult
