SPECIFICATION Spec
CONSTANTS
  c1 = c1
  c2 = c2
  m1 = m1
  arrays = arrays
  graphs = graphs
  Nodes = {arrays, graphs}
  Captured = {c1, c2}
  Milestones = {m1}
  Transfer = {m1}
  Planned = {arrays}
  Results = {"passed", "failed"}
  Outcomes = {"independent"}
  MaxFeedback = 1
  Role <- MCRole
  Repeated = 2
  Week = 2
  Steps = {1}
  MaxNow = 3
  MaxSnapshots = 3
  MaxRevision = 2
INVARIANTS
  TypeOK
  LevelIsSupported
  LineageIsChain
CHECK_DEADLOCK FALSE
