SPECIFICATION ConfigSpec
CONSTANTS
  MaxDigits = 4
  MaxLong = 2047
  MaxColumn = 12
  InvalidAfterKey = FALSE
  Scenario <- Scenarios
  TomlInit <- toml_file_init
  TomlNext <- toml_table_next
  NoName <- UNNAMED
  Text <- FileText
  Access <- FileAccess
INVARIANTS
  ReadAsWritten
  ErrorLocated
  OptionsAsSet
  FilesInOrder
  ExitAgrees
CHECK_DEADLOCK FALSE
