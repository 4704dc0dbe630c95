SPECIFICATION Spec
CONSTANTS
  NameLength <- MCNameLength
  Beginning <- MCBeginning
  Listings <- MCListings
  MAX_FILES = 3
  MAX_PATH = 7
  PS5SDK_H = 336
INVARIANTS
  TypeOK
  CursorOnScreen
  ShowsWhatItLoaded
  ClosedOnceInOrder
PROPERTY PathFollowsMoves
CHECK_DEADLOCK FALSE
