SPECIFICATION Spec
CONSTANTS
  MinPerThread = 2
  MaxLength = 6
  MaxHardware = 3
  Kinds = {"plain", "packaged", "catching", "guarded", "for_each", "pooled",
           "find", "partial_sum"}
INVARIANTS TypeOK PartitionExact SameAsSequential EndValuesAreFinal NoThreadLeft
PROPERTIES CallEnds TerminatedOnlyIf
