SPECIFICATION Spec
CONSTANTS
  Keys <- ChatKeys
  BaseOf <- NoTopics
  Messages <- WithStale
  Deliveries <- TwoDeliveries
  MsgOf <- StaleMsgOf
  KeyOf <- StaleInAB
  MaxRow = 4
  Stale = {"s1", "s2", "s3"}
  Cancels = {}
  MaxPending = 2
  MaxParallel = 1
  MaxTotal = 1
  MergeCap = 2
  Leftover <- TwoLeft
  Ageing = {1}
  MaxRestarts = 1
  MaxDbErrors = 0
CHECK_DEADLOCK FALSE
INVARIANTS
  DoneWasServed
  DurableAccept
  ClaimIsExclusive
PROPERTIES
  KeepsPromise
