SPECIFICATION Spec
CONSTANTS
  Keys <- ChatKeys
  BaseOf <- NoTopics
  Messages <- Three
  Deliveries <- ThreeDeliveries
  MsgOf <- ThreeMsgOf
  KeyOf <- BurstAndOther
  MaxRow = 3
  Stale = {}
  Cancels = {"m2"}
  MaxPending = 0
  MaxParallel = 1
  MaxTotal = 2
  MergeCap = 2
  Leftover <- NoneLeft
  Ageing = {}
  MaxRestarts = 0
  MaxDbErrors = 1
CHECK_DEADLOCK FALSE
INVARIANTS
  SlotsMatchRuns
  SequentialChat
  NoCrossChat
PROPERTIES
  FrozenContent
