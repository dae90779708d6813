SPECIFICATION ConfigSpec
CONSTANTS
  MaxDigits = 4
  MaxLong = 2047
  MaxColumn = 12
  InvalidAfterKey = TRUE
  Scenario <- Scenarios
  TomlInit <- toml_file_init
  TomlNext <- toml_table_next
  NoName <- UNNAMED
  Text <- FileText
  Access <- FileAccess
CHECK_DEADLOCK FALSE
INVARIANT StopsAtEnd
