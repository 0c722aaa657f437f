SPECIFICATION Spec
CONSTANTS
  k1 = k1
  k2 = k2
  k3 = k3
  v1 = v1
  v2 = v2
  Keys <- MCKeys
  Values <- MCValues
  None = None
  Timeout = 1
  MaxNow = 4
INVARIANTS
  OldestFirst
PROPERTIES
  ImplementsExpiringMap
CHECK_DEADLOCK TRUE
