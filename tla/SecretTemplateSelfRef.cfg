CONSTANTS
  Keys <- MCKeys
  Letters <- MCLetters
  Templates <- ShortTemplates
  Values <- BraceValues
  MaxValueLen = 7
SPECIFICATION Spec
CHECK_DEADLOCK FALSE
PROPERTY Terminates
