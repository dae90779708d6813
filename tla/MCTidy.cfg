SPECIFICATION TidySpec
CONSTANTS
  File <- MCFile
  FileID <- MCFileID
  Basename <- MCBasename
  MayInclude <- MCMayInclude
  MAIN = MAIN
  NULL = NULL
  MaxDirectives = 4
  Symbol <- MCSymbol
  ProxyKeys <- MCProxyKeys
  HandleKeys <- MCHandleKeys
  SymbolKeys <- MCSymbolKeys
  IgnoreKeys <- MCIgnoreKeys
  RelPath <- MCRelPath
  IsLocal <- MCIsLocal
  Standard <- MCStandard
  CPlusPlus = TRUE
  CxxHeader <- MCCxxHeader
  PathFind <- MCPathFind
  Declares <- MCDeclares
  Associated = {"l"}
  MaxRefs = 1
INVARIANTS
  VisitedHasIncluder
  ImplementationHidden
  OneIncludePerSymbol
  AnyOneSuffices
  ReportTidies
  ReportIsViolation
  ImplicitMakeNoCycle
PROPERTIES
  Terminates
