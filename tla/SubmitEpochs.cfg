CONSTANTS
  n1 = n1
  n2 = n2
  Req <- MCReq
  Setups <- MCSetups
  Problems = {"p", "q"}
  Verdicts = {"AC"}
  Nodes = {n1, n2}
  EpochTtl = 3
  HintTtl = 2
  MaxInbox = 1
SYMMETRY MCSymmetry
SPECIFICATION Spec
CHECK_DEADLOCK FALSE
INVARIANTS TypeOK OncePerRequest VerdictIsOwn NoUnboundUnderMarker ArmedIsReported
