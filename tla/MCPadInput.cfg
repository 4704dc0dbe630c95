SPECIFICATION Spec
CONSTANTS
  max_frames = 7
  MaxPresses = 4
INVARIANTS
  NoPressCountedTwice
  ReadPressIsCounted
PROPERTY
  EndsClosed
CHECK_DEADLOCK FALSE
