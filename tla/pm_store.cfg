SPECIFICATION FairSpec
CONSTANTS
  c1 = c1
  c2 = c2
  c3 = c3
  c4 = c4
  NoCall = NoCall
  Calls <- MCCalls
  Requests <- MCRequests
  StartStatus <- MCStart
  MaxTickets = 2
  MaxCrash = 1
INVARIANTS
  NumbersUnique
  OneRollingSprint
  IdleMeansClosed
PROPERTIES
  MovesFollowTable
  EveryCallEnds
CHECK_DEADLOCK FALSE
