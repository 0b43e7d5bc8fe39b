CONSTANTS
  Keys <- MCKeys
  Letters <- MCLetters
  Templates <- MCTemplates
  Values <- PlainValues
  MaxValueLen = 7
SPECIFICATION Spec
CHECK_DEADLOCK FALSE
INVARIANT AgreesWithReference
PROPERTY Terminates
