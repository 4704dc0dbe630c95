SPECIFICATION LinkSpec
CONSTANTS
  NoName = ""
  Name <- MCLinkName
  Soname <- MCSoname
  Library <- MCLibrary
  ps5link_catalog <- MCCatalog
  ps5link_catalog_extra <- MCCatalogExtra
  Program <- MCLinkProgram
  Hash = {0, 1, 2}
  EntrySymbol = "_start"
  KeptSections = {1}
INVARIANTS
  LinkTypeOK
  IdsNameOneModuleAndLibrary
  EachNameSettledOnce
  EveryImportFound
  ChainsAscend
  LinkedMeansBindable
PROPERTY RefinesResolution
CHECK_DEADLOCK FALSE
