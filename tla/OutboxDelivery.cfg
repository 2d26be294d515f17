\* Two bundles, the code's retry cap, a batch smaller than the queue can get.
SPECIFICATION FairSpec
CONSTANTS
  Bundles = {b1, b2}
  MaxRetry = 3
  BatchSize = 1
  MaxTicket = 4
INVARIANTS TypeOK NoSilentLoss OnePlace RetryBudget
PROPERTIES Drains KeepsPromise
