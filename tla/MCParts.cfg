SPECIFICATION PartsSpec
CONSTANTS
  Base = Base
  Derived = Derived
  Other = Other
  own = own
  value_type = value_type
  f = f
  derived_g = derived_g
  local = local
  NULL = NULL
  Dec <- DecSet
  DecKind <- Kind
  DecFile <- InFile
  DecParent <- ParentOf
  DecBases <- InheritedBy
  File = {"base.h", "derived.h", "other.h"}
  Cursor <- Cursors
  MaxNodes = 5
  Header = {1, 2, 3, 4}
  Proxy <- ProxyOf
  MaxDecs = 3
  Component <- MCComponent
  Token <- MCToken
  Dirs <- MCDirs
  Files <- MCFiles
  Links <- MCLinks
  Name <- MCName
  PathOf <- PathOfWord
  LangOf <- LangOfWord
  CommandLine <- Read
  NameLen <- MCNameLen
  Shown <- MCShown
  AlignColumns = {0, 10}
  LineLengths = {14, 15, 16, 17, 18, 19, 20, 21, 22, 23, 24, 25, 26, 27, 28}
INVARIANTS
  ScopesNest
  CallsAccounted
  ExemptCallsHidden
  InheritedIsSufficient
  BasesExempt
  ExceptionsSufficient
  LineIsRead
  NamesAreFound
  AsManyAsFit
  NoneIsNone
CHECK_DEADLOCK FALSE
