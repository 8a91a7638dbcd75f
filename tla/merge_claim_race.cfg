SPECIFICATION Spec
CONSTANTS
  Keys <- ChatKeys
  BaseOf <- NoTopics
  Messages <- Two
  Deliveries <- TwoDeliveries
  MsgOf <- TwoMsgOf
  KeyOf <- TwoInA
  MaxRow = 2
  Stale = {}
  Cancels = {}
  MaxPending = 0
  MaxParallel = 1
  MaxTotal = 1
  MergeCap = 2
  Leftover <- NoneLeft
  Ageing = {}
  MaxRestarts = 0
  MaxDbErrors = 0
CHECK_DEADLOCK FALSE
INVARIANTS
  MergedIsTaken
