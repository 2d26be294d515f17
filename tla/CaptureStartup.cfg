CONSTANTS
  front = front
  judge = judge
  Docs = {front, judge}
  Front = front
  NowCoder = {judge}
  Setups <- MCSetups
  MaxSends = 2
  MaxQueue = 2
  MaxInjections = 2
  Budget = 2
SPECIFICATION Spec
CHECK_DEADLOCK FALSE
INVARIANTS TypeOK HandledInOrder OneRuntime BlockedIsRetried
PROPERTIES RecoveryCovers QueueSettles RecoverySettles
