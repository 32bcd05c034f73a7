SPECIFICATION Spec
CONSTANTS
  Digit = {4, 3}
  PinLength = 2
  CorrectPin <- MCCorrectPin
  MaxQueue <- MCMaxQueue
INVARIANTS TypeOK PinNeverOverruns AcceptedPinCorrect
PROPERTIES PinIsAnswered CancelEjects QuitReturns
