SPECIFICATION Spec
CONSTANTS
  Thread = {t1, t2}
  Value = {v1}
  Node = {n1, n2, n3}
  Start = Start
  Null = Null
  None = None
  Thrown = Thrown
INVARIANTS TypeOK ListIntact Ownership NodeOutlivesItsMutex
PROPERTIES WalksAreExact CallsReturn
