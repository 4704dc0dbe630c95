SPECIFICATION Spec
CONSTANTS
  SCE_PROC_PARAM_SIZE = 96
  PB_TOTAL_SZ = 624
  Alignment <- MCAlignment
  Link <- MCLink
INVARIANTS
  TypeOK
  NoTwoSectionsOverlap
  EverySectionAligned
  EverySectionInside
  ParamsBelongToNoSection
CHECK_DEADLOCK FALSE
