SPECIFICATION Spec
CONSTANTS
  Thread = {t1, t2, t3}
  Value = {v1, v2}
  Node = {n1, n2, n3, n4}
  Null = Null
  None = None
  Empty = Empty
  NonEmpty = NonEmpty
SYMMETRY Symmetry
INVARIANTS NoDataRace IInv
PROPERTY Linearizable
