SPECIFICATION Spec
CONSTANTS
  NoName = ""
  Name <- MCName
  Program <- MCProgram
INVARIANTS
  TypeOK
  ReferencesReach
  NoSlotFilledTwice
  RelativeRecordsLead
  EveryUseHasASlot
CHECK_DEADLOCK FALSE
