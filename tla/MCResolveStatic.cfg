SPECIFICATION Spec
CONSTANTS
  NoName = ""
  Name <- MCName
  Soname <- MCSoname
  Library <- MCLibrary
  ps5link_catalog <- MCCatalog
  ps5link_catalog_extra <- MCCatalogExtra
  Program <- MCProgram
INVARIANT SystemFunctionsAreImported
CHECK_DEADLOCK FALSE
