SPECIFICATION Spec
CONSTANTS
  Thread = {t1, t2, t3}
  Value = {v1, v2}
  Node = {n1, n2}
  Null = Null
  None = None
  Empty = Empty
  LoserDelta <- LoserSubtracts
  MaxCount = 4
SYMMETRY Symmetry
INVARIANTS TypeOK NoUseAfterFree ListIntact CountsAddUp NoLeak
PROPERTY Linearizable
