SPECIFICATION Spec
CONSTANTS
  Thread = {t1, t2}
  Value = {v1, v2}
  Node = {n1, n2}
  Null = Null
  None = None
  Empty = Empty
  LoserDelta <- LoserAdds
  MaxCount = 6
INVARIANT NoUseAfterFree
