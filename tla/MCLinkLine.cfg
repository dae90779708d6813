SPECIFICATION MCSpec
CONSTANTS
  File <- MCFile
  FileID <- MCFileID
  Basename <- MCBasename
  MayInclude <- MCMayInclude
  MAIN = MAIN
  NULL = NULL
  MaxDirectives = 4
  Symbol = {}
  ProxyKeys = {}
  HandleKeys = {}
  SymbolKeys = {}
  IgnoreKeys = {}
INVARIANTS
  DirectHasLine
