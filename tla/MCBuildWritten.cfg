SPECIFICATION Spec
CONSTANT
  Jobs = 1
INVARIANT SuccessMeansWritten
