SPECIFICATION Spec
CONSTANTS
  Thread = {t1, t2}
  k1 = k1
  k2 = k2
  k3 = k3
  Key = {k1, k2, k3}
  Value = {v1, v2}
  Buckets = 2
  hasher <- MCHasher
  Null = Null
  None = None
  Pending = Pending
INVARIANT IInv
PROPERTIES Linearizable CallsReturn
