SPECIFICATION MCSpec
CONSTANTS
  File <- MCFile
  FileID <- MCFileID
  Basename <- MCBasename
  MayInclude <- MCMayInclude
  MAIN = MAIN
  NULL = NULL
  MaxDirectives = 4
  Symbol = {"s"}
  ProxyKeys <- MCProxyKeys
  HandleKeys <- MCHandleKeys
  SymbolKeys <- MCSymbolKeys
  IgnoreKeys <- MCIgnoreKeys
INVARIANTS
  IncluderKnown
  DepthZeroIsDirect
  DepthGrounded
  LinesExact
  IncluderIncludes
  ProxyAcyclic
  IncludersEnd
  MostDirectProxy
  ConflictIsError
