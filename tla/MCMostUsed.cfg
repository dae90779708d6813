SPECIFICATION CommentsSpec
CONSTANTS
  NameLen <- MCNameLen
  Shown <- MCShown
  AlignColumns = {41}
  LineLengths = {80}
INVARIANTS
  FrontIsThere
CHECK_DEADLOCK FALSE
