SPECIFICATION Spec
CONSTANTS
  NoName = ""
  Name <- MCName
  Program <- TwoObjects
INVARIANT SuccessMeansResolved
CHECK_DEADLOCK FALSE
