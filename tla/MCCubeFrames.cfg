SPECIFICATION Spec
CONSTANTS
  FRAMES = 12
  ShaderBytes = 20000
  Patiences = {0, 1}
INVARIANTS
  TypeOK
  BuffersHoldTheirMemory
  DrawReadsItsOwnFrame
  WipesOffScreen
PROPERTY
  Terminates
CHECK_DEADLOCK FALSE
