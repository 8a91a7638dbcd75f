CONSTANTS
  morning = morning
  digest = digest
  Absent = Absent
  Never = Never
  None = None
  Keys <- MCKeys
  Fixed <- MCFixed
  Defaults <- MCFixed
  At <- MCAt
  Interval <- MCInterval
  DayLen = 2
  MaxTime = 3
  MaxOps = 2
  MaxCrashes = 1
  MaxEdits = 2
  MaxFails = 1
SPECIFICATION Spec
INVARIANTS RunsOncePerDay NoLostUpdate MemoryIsFile
PROPERTIES MissHasCause
CONSTRAINT NoMishapYet
CHECK_DEADLOCK FALSE
