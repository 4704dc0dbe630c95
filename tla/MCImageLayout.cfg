SPECIFICATION Spec
CONSTANTS
  SCE_SEG_ALIGN = 16384
  Inputs <- MCInputs
INVARIANTS
  SegmentsShareNoPage
  OffsetsMatchAddresses
  SegmentsStoreSomething
  GotHoldsEverySlot
  TablesFollowOneAnother
  WritesKeepWhatIsWritten
CHECK_DEADLOCK FALSE
