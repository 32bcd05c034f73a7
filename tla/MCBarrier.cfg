SPECIFICATION Spec
CONSTANTS
  Length = 3
  Modulus = 16
INVARIANT NobodyIsStuck
