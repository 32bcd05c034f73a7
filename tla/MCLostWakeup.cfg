SPECIFICATION FairSpec
CONSTANTS
  Thread = {t1, t2}
  Value = {v1}
  Node = {n1, n2, n3}
  Null = Null
  None = None
  Empty = Empty
  NonEmpty = NonEmpty
PROPERTY NoStrandedWaiter
