SPECIFICATION TidySpec
CONSTANTS
  File <- MCFile
  FileID <- MCFileID
  Basename <- MCBasename
  MayInclude <- MCSelfInclude
  MAIN = MAIN
  NULL = NULL
  MaxDirectives = 4
  Symbol <- MCSymbol
  ProxyKeys = {}
  HandleKeys = {}
  SymbolKeys = {}
  IgnoreKeys = {}
  RelPath <- MCRelPath
  IsLocal <- MCIsLocal
  Standard <- MCStandard
  CPlusPlus = TRUE
  CxxHeader <- MCCxxHeader
  PathFind <- MCPathFind
  Declares <- MCDeclares
  Associated = {"l"}
  MaxRefs = 1
PROPERTIES
  Terminates
