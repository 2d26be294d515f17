CONSTANTS
  s1 = s1
  s2 = s2
  Sub = {s1, s2}
  Setups <- MCSetups
  Window = 1
  HintTtl = 2
  ParkTtl = 2
  E1Ttl = 2
  TombTtl = 2
  Cap = 1
  MaxTombs = 1
  MaxTime = 2
  MaxStops = 1
SYMMETRY MCSymmetry
SPECIFICATION Spec
CHECK_DEADLOCK FALSE
INVARIANTS TypeOK NoStrandedCandidate MatchedIsRecorded
PROPERTY KeepsLedger
