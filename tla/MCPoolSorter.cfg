SPECIFICATION Spec
CONSTANTS
  Workers = 2
  Length = 4
  Key <- MCKey
  Kind = {"shared", "local", "stealing"}
INVARIANTS TypeOK ResultsAreSorted TaskInOnePlace DroppedAreAbandoned QuietAfterSuccess
PROPERTIES SortReturns
