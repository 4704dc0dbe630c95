SPECIFICATION Spec
CONSTANT
  Jobs = 2
INVARIANTS
  TypeOK
  SignsWhatItLinked
  NothingStaleIsOverlooked
  SuccessMeansCurrent
