SPECIFICATION Spec
CONSTANTS
  c1 = c1
  c2 = c2
  Calls <- MCCalls
  Roles = {1, 2}
  Builtin = {1}
  Ttl = 2
  MaxTime = 4
  MaxChanges = 2
SYMMETRY Symmetry
INVARIANTS
  TakesEffect
