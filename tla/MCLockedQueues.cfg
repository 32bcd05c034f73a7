SPECIFICATION Spec
CONSTANTS
  Thread = {t1, t2, t3, t4}
  Kinds = {"stack", "copies", "moves", "shared"}
  MaxPush = 5
  MaxLeft = 2
  MaxThrow = 2
SYMMETRY Symmetry
INVARIANTS TypeOK NoStrandedWaiter NothingLostInOrder
