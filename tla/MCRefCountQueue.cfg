SPECIFICATION Spec
CONSTANTS
  Thread = {t1, t2}
  Value = {v1, v2}
  Node = {n1, n2, n3}
  Null = Null
  MaxCount = 4
INVARIANT NothingLost
CHECK_DEADLOCK FALSE
