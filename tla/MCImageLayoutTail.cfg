SPECIFICATION Spec
CONSTANTS
  SCE_SEG_ALIGN = 16384
  Inputs <- MCInputs
INVARIANTS
  TailOutsideSegments
CHECK_DEADLOCK FALSE
